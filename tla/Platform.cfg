SPECIFICATION PlatformSpec
CONSTANTS
    Quotes = {q1}
    Keys = {k1, k2}
    Confirms = {c1, c2}
    Unset = Unset
    Calls = {g1, g2, g3}
    Subjects = {sub1, sub2}
    NoUser = NoUser
    Gets = {g1, g2, g3}
    FreshFor = 2
    Wait = 1
    TokenLife = 3
    Margin = 2
    MaxTime = 6
    MaxUnnoticed = 1
    LastInstant = 5
    Width = 2
    BarsShown = 2
    MaxRows = 3
    Accounts = {1, 2}
    Codes = {1, 3}
    Balances = {0, 2}
    Quantities = {2, 3}
    QuantityScale = 2
    MaxMoves = 2
    MaxDay = 2
    MaxSyncs = 2
    PointsShown = 2
    Inputs <- MCInputs
    TooMuch = 99
    Grain = 2
    Factors = {1, 3}
    FactorUnit = 2
    Paths = 3
    Ceiling = 12
    MaxRuns = 2
    Sessions = {"s1", "s2"}
    Requests = {"r1", "r2"}
    MaxRefreshes = 1
    Customers = {"u1"}
    Questions = {"LOSS_RESPONSE"}
    Saves = {"s1"}
    MaxVersion = 2
    Snapshots = {1001}
    MaxUpdates = 1
    Pages = 2
    Carriers = {"k1"}
    Keypad <- MCKeypad
    PinLength = 1
    MaxTaps = 2
    Window = 6
    Duration = 2
    MaxVisits = 1
    Weights = {0, 1, 8}
SYMMETRY CallSymmetry
INVARIANTS
    OneUserPerSubject
    UpdatesAccounted
    NeverRollsBack
    TokenAccepted
    ChartIsNewest
    SyncedTotalIsSum
    ResultIsConsistent
    QuoteBoughtOnce
    TokensAgree
    NoBlindOverwrite
    CallsAreServed
    ConsentsAgree
    ProposedIsFree
    VerdictHolds
\* Calls are answered once, the customer goes, and the bounds stop.
CHECK_DEADLOCK FALSE
