SPECIFICATION Spec
CONSTANTS
    Accounts = {1, 2}
    Codes = {1, 3}
    Cash = {0, 2}
    Quantities = {2, 3}
    Scale = 2
    MaxMoves = 2
    MaxDay = 2
    MaxSyncs = 2
    Limit = 2
INVARIANTS
    TotalIsSum
CHECK_DEADLOCK FALSE
