SPECIFICATION Spec
CONSTANTS
    Sessions = {"s1"}
    Requests = {r1}
    MaxRefreshes = 2
INVARIANTS
    Forgotten
