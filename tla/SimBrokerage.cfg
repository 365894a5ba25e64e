SPECIFICATION Spec
CONSTANTS
    Calls = {c1, c2, c3}
    Orders = {o1}
    Bodies = {b1, b2}
    Listed = {b1}
    MaxAdmin = 2
    MaxFaults = 1
    NoBody = NoBody
INVARIANTS
    RacersAreAnswered
PROPERTIES
    ContractKept
\* Every call is answered once and the administrator stops.
CHECK_DEADLOCK FALSE
