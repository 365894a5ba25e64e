SPECIFICATION FairSpec
CONSTANTS
    Callers = {c1, c2, c3}
    Pages = {p1, p2}
    Threshold = 3
    OpenTime = 3
    Timeout = 2
INVARIANTS
    SingleProbe
PROPERTIES
    FetchesRecover
