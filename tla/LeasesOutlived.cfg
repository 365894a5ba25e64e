SPECIFICATION Spec
CONSTANTS
    Requests = {r1, r2}
    Keys = {k1, k2}
    Quotes = {q1}
    Workers = {w1, w2}
    Amounts = {1, 2}
    InitialCash = 3
    MaxAttempts = 2
    LeasesHold = FALSE
    MaxFaults = 1
    NoOrder = NoOrder
SYMMETRY Interchangeable
INVARIANTS
    SettledOnce
PROPERTIES
    FinalIsFinal
CHECK_DEADLOCK FALSE
