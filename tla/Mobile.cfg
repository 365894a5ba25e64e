SPECIFICATION MobileSpec
CONSTANTS
    Timeout = 2
    Prompts = {p1, p2}
    Exits = {e1, e2}
INVARIANTS
    OnePrompt
    ContentGuarded
PROPERTIES
    AccessKept
    WaitingEnds
    RequestsEnd
    FillsAreSeen
    UnknownEnds
\* The customer of the order screen runs out of quotes and goes.
CHECK_DEADLOCK FALSE
