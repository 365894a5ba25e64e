SPECIFICATION FairSpec
CONSTANTS
    Connections = {c1}
    Jobs = {j1, j2}
    Runs = {r1, r2}
    MaxAttempts = 2
    MaxVersion = 2
    MaxFaults = 2
    NoConnection = NoConnection
    NoJob = NoJob
INVARIANTS
    CompletedIsFresh
    OneRunPerJob
PROPERTIES
    NeverOlder
    SyncEnds
CHECK_DEADLOCK FALSE
