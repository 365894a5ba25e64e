SPECIFICATION FairSpec
CONSTANTS
    Calls = {c1, c2}
    Subjects = {s1}
    NoUser = NoUser
PROPERTIES
    LoserIsServed
CHECK_DEADLOCK FALSE
