------------------------------ MODULE Platform ------------------------------
(***************************************************************************)
(* Components that share no state, in one specification: `part` says which *)
(* of them this behaviour is about, and the others stay as they began.     *)
(* OrderFlow is extended, the others are instances; what bounds them is a  *)
(* constant here.                                                          *)
(***************************************************************************)
EXTENDS OrderFlow, Sequences

CONSTANTS
    \* Identity
    Calls, Subjects, NoUser,
    \* MarketCache
    Gets, FreshFor, Wait, TokenLife, Margin, MaxTime, MaxUnnoticed,
    \* ChartBars
    LastInstant, Width, BarsShown, MaxRows,
    \* AssetData
    Accounts, Codes, Balances, Quantities, QuantityScale, MaxMoves, MaxDay, MaxSyncs,
    PointsShown,
    \* PlanSimulation
    Inputs, TooMuch, Grain, Factors, FactorUnit, Paths, Ceiling, MaxRuns,
    \* AuthSession
    Sessions, Requests, MaxRefreshes,
    \* RiskProfile
    Customers, Questions, Saves, MaxVersion,
    \* ApiCalls
    Snapshots, MaxUpdates,
    \* Verification
    Pages, Carriers, Keypad, PinLength, MaxTaps,
    \* Consultation
    Window, Duration, MaxVisits,
    \* Diagnosis
    Weights

ASSUME NoUserAssumption == NoUser \notin Calls
ASSUME KeypadAssumption ==
    Keypad \in Seq({Keypad[i] : i \in DOMAIN Keypad}) /\ Len(Keypad) >= 2
\* A token is not used in the last minute of its life, a request of either
\* kind takes half a minute at most.
ASSUME TokenAssumption ==
    /\ Wait \in Nat /\ TokenLife \in Nat /\ Margin \in Nat
    /\ Margin >= 2 * Wait /\ TokenLife > 2 * Wait
\* A value stays fresh for longer than the token request and the fetch take.
ASSUME FreshnessAssumption == FreshFor \in Nat /\ FreshFor > 0 /\ FreshFor >= 2 * Wait
\* Numbers, balances and quantities are whole numbers; there is a largest
\* balance and a largest quantity to begin with.
ASSUME AssetsAssumption ==
    /\ Accounts \subseteq Nat /\ Codes \subseteq Nat
    /\ QuantityScale \in Nat /\ QuantityScale > 0
    /\ Balances \subseteq Nat /\ \E b \in Balances : \A c \in Balances : b >= c
    /\ Quantities \subseteq Nat /\ \E q \in Quantities : \A r \in Quantities : q >= r
ASSUME PointsAssumption == PointsShown \in Nat
\* The amounts of a plan and what a month multiplies them by are whole numbers.
ASSUME PlansAssumption ==
    /\ Inputs \subseteq [initial : Nat, contribution : Nat, target : Nat, months : Nat]
    /\ Factors \subseteq Nat /\ FactorUnit \in Nat /\ FactorUnit > 0
    /\ Grain \in Nat /\ Grain > 0
    /\ Paths \in Nat /\ Paths > 0
ASSUME WeightsAssumption == Weights \subseteq Nat
ASSUME RefreshesAssumption == MaxRefreshes \in Nat
ASSUME SnapshotsAssumption == Snapshots \subseteq Nat
ASSUME InstantsAssumption == LastInstant \in Nat
ASSUME WidthAssumption == Width \in Nat /\ Width > 0
\* The rows that listBars reads are those of as many buckets as the chart shows.
ASSUME LimitAssumption ==
    BarsShown \in Nat /\ BarsShown * Width <= BarsShown * 8 /\ BarsShown * Width <= 1000

VARIABLES
    part,
    \* Identity
    request, identity, users, profile, claim, audited, recorded,
    \* MarketCache
    now, provider, stored, get, refresh, barRefreshAt, token, tokenSince, unnoticed,
    wentBack,
    \* ChartBars
    barSource, listed, storedBars, shown, basis,
    \* AssetData
    book, day, moves, syncs, pages, cash, holdings, transactions, snapshots, touched,
    \* PlanSimulation
    create, result, runs, auditEvents,
    \* AuthSession
    accessToken, storedToken, presence, op, activeRefresh, sending, newestToken, user, broken,
    disturbed, rotatedAway,
    \* RiskProfile
    session, server, cached, isError, fetch, top, answers, resultVisible, filled,
    save, overdue, mine, blind,
    \* ApiCalls
    backend, held, apiCall,
    \* Verification
    stage, page, form, focus, focusTimer, sheets, agreed, pin,
    \* Consultation
    weekday, method, date, slot, completed, dialog, requests, undelivered, banner,
    timers,
    \* Diagnosis
    assetSummary, riskProfile

identityVars == <<request, identity, users, profile, claim, audited, recorded>>
marketVars == <<now, provider, stored, get, refresh, barRefreshAt, token, tokenSince,
                unnoticed, wentBack>>
barVars == <<barSource, listed, storedBars, shown, basis>>
assetVars == <<book, day, moves, syncs, pages, cash, holdings, transactions, snapshots,
               touched>>
planVars == <<create, result, runs, auditEvents>>
sessionVars == <<accessToken, storedToken, presence, op, activeRefresh, sending, newestToken, user,
                 broken, disturbed, rotatedAway>>
riskVars == <<session, server, cached, isError, fetch, top, answers, resultVisible, filled,
              save, overdue, mine, blind>>
clientVars == <<backend, held, apiCall>>
formVars == <<stage, page, form, focus, focusTimer, sheets, agreed, pin>>
visitVars == <<weekday, method, date, slot, completed, dialog, requests, undelivered, banner,
               timers>>
coachVars == <<assetSummary, riskProfile>>

Identities == INSTANCE Identity
Market == INSTANCE MarketCache
Bars == INSTANCE ChartBars WITH End <- LastInstant, Limit <- BarsShown
Assets == INSTANCE AssetData
    WITH Cash <- Balances, Scale <- QuantityScale, Limit <- PointsShown
Plans == INSTANCE PlanSimulation
Login == INSTANCE AuthSession
Risk == INSTANCE RiskProfile WITH Users <- Customers
Client == INSTANCE ApiCalls WITH Days <- Snapshots, MaxVersion <- MaxUpdates
Forms == INSTANCE Verification WITH screen <- stage, Digits <- Keypad
Visits == INSTANCE Consultation WITH MaxRequests <- MaxVisits
Coach == INSTANCE Diagnosis

-----------------------------------------------------------------------------

Parts == {"identity", "market", "bars", "assets", "plans", "orders", "session", "risk",
          "client", "forms", "visits", "coach"}

PlatformInit ==
    /\ part \in Parts
    /\ Init /\ Identities!Init /\ Assets!Init /\ Plans!Init /\ Login!Init
    /\ Forms!Init /\ Coach!Init
    /\ Market!Init /\ (part # "market" => provider = "KIS" /\ stored["quote"] = {})
    /\ Risk!Init   /\ (part # "risk" => session = "u1")
    /\ Client!Init /\ (part # "client" => backend = "http")
    /\ Visits!Init /\ (part # "visits" => weekday = 0)
    /\ Bars!Init   /\ (part # "bars" => ~ listed /\ storedBars = {} /\ barSource = "KIS")

Still(p) ==
    CASE p = "identity" -> UNCHANGED identityVars
      [] p = "market"   -> UNCHANGED marketVars
      [] p = "bars"     -> UNCHANGED barVars
      [] p = "assets"   -> UNCHANGED assetVars
      [] p = "plans"    -> UNCHANGED planVars
      [] p = "orders"   -> UNCHANGED vars
      [] p = "session"  -> UNCHANGED sessionVars
      [] p = "risk"     -> UNCHANGED riskVars
      [] p = "client"   -> UNCHANGED clientVars
      [] p = "forms"    -> UNCHANGED formVars
      [] p = "visits"   -> UNCHANGED visitVars
      [] p = "coach"    -> UNCHANGED coachVars

Only(p) == part = p /\ UNCHANGED part /\ \A q \in Parts \ {p} : Still(q)

PlatformNext ==
    \/ Only("identity") /\ Identities!Next
    \/ Only("market")   /\ Market!Next
    \/ Only("bars")     /\ Bars!Next
    \/ Only("assets")   /\ Assets!Next
    \/ Only("plans")    /\ Plans!Next
    \/ Only("orders")   /\ Next
    \/ Only("session")  /\ Login!Next
    \/ Only("risk")     /\ Risk!Next
    \/ Only("client")   /\ Client!Next
    \/ Only("forms")    /\ Forms!Next
    \/ Only("visits")   /\ Visits!Next
    \/ Only("coach")    /\ Coach!Next

platformVars == <<part, vars, identityVars, marketVars, barVars, assetVars, planVars,
                  sessionVars, riskVars, clientVars, formVars, visitVars, coachVars>>

PlatformSpec == PlatformInit /\ [][PlatformNext]_platformVars

-----------------------------------------------------------------------------
(* Properties of the parts *)

OneUserPerSubject == Identities!OneUserPerSubject
UpdatesAccounted  == Identities!UpdatesAccounted
NeverRollsBack    == Market!NeverRollsBack
TokenAccepted     == Market!TokenAccepted
ChartIsNewest     == Bars!ChartIsNewest
SyncedTotalIsSum  == Assets!SyncedTotalIsSum
ResultIsConsistent == Plans!ResultIsConsistent
TokensAgree       == Login!TokensAgree
NoBlindOverwrite  == Risk!NoBlindOverwrite
CallsAreServed    == Client!CallsAreServed
ConsentsAgree     == Forms!ConsentsAgree
ProposedIsFree    == Visits!ProposedIsFree
VerdictHolds      == Coach!VerdictHolds
=============================================================================
