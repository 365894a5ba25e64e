SPECIFICATION FairSpec
CONSTANTS
    Events = {e1, e2}
    Workers = {w1, w2, w3}
    MaxAttempts = 2
    MaxFaults = 2
    NoWorker = NoWorker
    NoEvent = NoEvent
INVARIANTS
    ProcessedWasDelivered
PROPERTIES
    OnlyOwnerEnds
    EventEnds
CHECK_DEADLOCK FALSE
