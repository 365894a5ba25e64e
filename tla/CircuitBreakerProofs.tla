------------------------ MODULE CircuitBreakerProofs ------------------------
(***************************************************************************)
(* Proofs about CircuitBreaker, for every number of callers and pages and  *)
(* every threshold, open interval and timeout.                             *)
(***************************************************************************)
EXTENDS CircuitBreaker, FiniteSetTheorems, TLAPS

FetchType == [page : [Pages -> {"none", "running", "ok", "failed"}], left : 0..Timeout]

\* A call that is under way while the breaker is open times out before the
\* open interval ends.
CallsEndFirst ==
    \A c \in Callers : state = "OPEN" /\ Running(c) # {} => fetch[c].left < openLeft

\* The one call of a half-open breaker.
IsOnlyCall(c, p) ==
    Running(c) = {p} /\ \A d \in Callers : d # c => Running(d) = {}

WaitsForOne ==
    state = "HALF_OPEN" => trial /\ \E c \in Callers, p \in Pages : IsOnlyCall(c, p)

IInv == TypeOK /\ CallsEndFirst /\ WaitsForOne

USE LimitsAssumption

\* The initial state has the right types and a healthy closed breaker.
LEMMA InitTyped == Init => TypeOK /\ ClosedIsHealthy
<1> SUFFICES ASSUME Init PROVE TypeOK /\ ClosedIsHealthy
  OBVIOUS
<1>1. NoFetch \in FetchType
  BY DEF NoFetch, FetchType
<1>2. fetch \in [Callers -> FetchType]
  BY <1>1 DEF Init
<1>3. failures = 0 /\ openLeft = 0 /\ state = "CLOSED" /\ trial = FALSE /\ up = TRUE
  BY DEF Init
<1>4. TypeOK
  <2>1. failures \in 0..(Threshold + 1) /\ openLeft \in 0..OpenTime
    BY <1>3
  <2>2. QED
    BY <1>2, <1>3, <2>1 DEF TypeOK, FetchType
<1>5. ClosedIsHealthy
  BY <1>3 DEF ClosedIsHealthy
<1>6. QED
  BY <1>4, <1>5

\* Every step keeps the types.
LEMMA NextTyped == TypeOK /\ [Next]_vars => TypeOK'
<1> SUFFICES ASSUME TypeOK, [Next]_vars PROVE TypeOK'
  OBVIOUS
<1> USE DEF TypeOK
<1>1. ASSUME NEW c \in Callers, Start(c) PROVE TypeOK'
  <2>1. PICK admitted \in Admissible :
           fetch' = [fetch EXCEPT ![c] =
                       [page |-> [p \in Pages |-> IF p \in admitted THEN "running" ELSE "failed"],
                        left |-> IF admitted = {} THEN 0 ELSE Timeout]]
    BY <1>1 DEF Start
  <2>2. /\ [p \in Pages |-> IF p \in admitted THEN "running" ELSE "failed"]
              \in [Pages -> {"none", "running", "ok", "failed"}]
        /\ (IF admitted = {} THEN 0 ELSE Timeout) \in 0..Timeout
    OBVIOUS
  <2>3. fetch' \in [Callers -> FetchType]
    BY <2>1, <2>2 DEF FetchType
  <2>4. QED
    BY <1>1, <2>3 DEF Start, Entered, FetchType
<1>2. ASSUME NEW c \in Callers, NEW p \in Pages, NEW result \in {"ok", "failed"},
             End(c, p, result)
      PROVE fetch' \in [Callers -> FetchType]
  <2>1. fetch \in [Callers -> FetchType]
    BY DEF FetchType
  <2>2. [page |-> [fetch[c].page EXCEPT ![p] = result],
         left |-> IF Running(c) = {p} THEN 0 ELSE fetch[c].left] \in FetchType
    BY <2>1 DEF FetchType
  <2>3. QED
    BY <1>2, <2>1, <2>2 DEF End
<1>3. ASSUME NEW c \in Callers, NEW p \in Pages, Succeed(c, p) PROVE TypeOK'
  <2>1. fetch' \in [Callers -> FetchType]
    BY <1>2, <1>3 DEF Succeed
  <2>2. /\ failures' = 0 /\ trial' = FALSE /\ state' = "CLOSED"
        /\ openLeft' = openLeft /\ up' = up
    BY <1>3 DEF Succeed
  <2>3. failures' \in 0..(Threshold + 1)
    BY <2>2
  <2>4. QED
    BY <2>1, <2>2, <2>3 DEF FetchType
<1>4. ASSUME NEW c \in Callers, NEW p \in Pages, Fail(c, p) PROVE TypeOK'
  <2>1. failures' \in 0..(Threshold + 1)
    <3>1. failures' = IF failures > Threshold THEN failures ELSE failures + 1
      BY <1>4 DEF Fail
    <3>2. QED
      BY <3>1
  <2>2. state' \in {"CLOSED", "OPEN", "HALF_OPEN"} /\ openLeft' \in 0..OpenTime
    BY <1>4 DEF Fail
  <2>3. fetch' \in [Callers -> FetchType]
    BY <1>2, <1>4 DEF Fail
  <2>4. trial' = FALSE /\ up' = up
    BY <1>4 DEF Fail
  <2>5. QED
    BY <2>1, <2>2, <2>3, <2>4 DEF FetchType
<1>5. ASSUME Tick PROVE TypeOK'
  <2>1. \A n \in Nat : \A m \in 0..n : Before(m) \in 0..n
    BY DEF Before
  <2>2. fetch' \in [Callers -> FetchType]
    BY <1>5, <2>1 DEF Tick, FetchType
  <2>3. QED
    BY <1>5, <2>1, <2>2 DEF Tick, FetchType
<1>6. CASE Outage
  BY <1>6 DEF Outage
<1>7. CASE UNCHANGED vars
  BY <1>7 DEF vars
<1>8. QED
  BY <1>1, <1>3, <1>4, <1>5, <1>6, <1>7 DEF Next

\* Every variable keeps to its type.
THEOREM TypeCorrect == Spec => []TypeOK
<1>1. Init => TypeOK
  BY InitTyped
<1>2. QED
  BY <1>1, NextTyped, PTL DEF Spec

\* Every step keeps the count of failures and the state in agreement.
LEMMA NextHealthy == TypeOK /\ ClosedIsHealthy /\ [Next]_vars => ClosedIsHealthy'
<1> SUFFICES ASSUME TypeOK, ClosedIsHealthy, [Next]_vars PROVE ClosedIsHealthy'
  OBVIOUS
<1> USE DEF TypeOK, ClosedIsHealthy
<1>1. ASSUME NEW c \in Callers, Start(c) PROVE ClosedIsHealthy'
  BY <1>1 DEF Start, Entered
<1>2. ASSUME NEW c \in Callers, NEW p \in Pages, Succeed(c, p) PROVE ClosedIsHealthy'
  BY <1>2 DEF Succeed
<1>3. ASSUME NEW c \in Callers, NEW p \in Pages, Fail(c, p) PROVE ClosedIsHealthy'
  BY <1>3 DEF Fail, Opens
<1>4. CASE Tick \/ Outage \/ UNCHANGED vars
  BY <1>4 DEF Tick, Outage, vars
<1>5. QED
  BY <1>1, <1>2, <1>3, <1>4 DEF Next

\* onSuccess and onFailure, in whatever order calls of before and after the
\* opening end: the breaker is closed exactly while fewer than Threshold calls
\* failed in a row.
THEOREM ClosedWhileHealthy == Spec => []ClosedIsHealthy
<1>1. Init => TypeOK /\ ClosedIsHealthy
  BY InitTyped
<1>2. QED
  BY <1>1, NextTyped, NextHealthy, PTL DEF Spec

-----------------------------------------------------------------------------
\* The initial state satisfies the inductive invariant.
LEMMA InitEstablishes == Init => IInv
<1>1. Init => CallsEndFirst /\ WaitsForOne
  BY DEF Init, CallsEndFirst, WaitsForOne
<1>2. QED
  BY <1>1, InitTyped DEF IInv

\* What a call that ends does to the calls under way.
LEMMA EndRemoves ==
    ASSUME TypeOK, NEW c \in Callers, NEW p \in Pages, NEW result \in {"ok", "failed"},
           End(c, p, result)
    PROVE  /\ p \in Running(c) /\ Running(c)' = Running(c) \ {p}
           /\ \A d \in Callers : d # c => Running(d)' = Running(d) /\ fetch'[d] = fetch[d]
           /\ Running(c)' # {} => fetch'[c].left = fetch[c].left
BY DEF TypeOK, End, Running

\* While calls time out before the open interval does, every step keeps the
\* inductive invariant.
LEMMA NextKeeps == Timeout < OpenTime /\ IInv /\ [Next]_vars => IInv'
<1> SUFFICES ASSUME Timeout < OpenTime, IInv, [Next]_vars PROVE CallsEndFirst' /\ WaitsForOne'
  BY NextTyped DEF IInv
<1> USE DEF IInv
<1>1. ASSUME NEW c \in Callers, Start(c) PROVE CallsEndFirst' /\ WaitsForOne'
  <2>1. PICK admitted \in Admissible :
           fetch' = [fetch EXCEPT ![c] =
                       [page |-> [p \in Pages |-> IF p \in admitted THEN "running" ELSE "failed"],
                        left |-> IF admitted = {} THEN 0 ELSE Timeout]]
    BY <1>1 DEF Start
  <2>2. Running(c) = {} /\ admitted \subseteq Pages
    BY <1>1 DEF Start, Admissible
  <2>3. /\ Running(c)' = admitted
        /\ \A d \in Callers : d # c => Running(d)' = Running(d) /\ fetch'[d] = fetch[d]
    BY <2>1, <2>2 DEF TypeOK, Running
  <2>4. CASE Entered = "OPEN"
    <3>1. admitted = {} /\ state = "OPEN" /\ state' = "OPEN" /\ openLeft' = openLeft
      BY <1>1, <2>4 DEF Start, Admissible, Entered
    <3>2. QED
      BY <2>3, <3>1 DEF CallsEndFirst, WaitsForOne
  <2>5. CASE Entered = "HALF_OPEN" /\ state = "OPEN"
    <3>1. \A d \in Callers : Running(d) = {}
      BY <2>5 DEF Entered, CallsEndFirst, TypeOK
    <3>2. state' = "HALF_OPEN" /\ trial' /\ \E p \in Pages : admitted = {p}
      BY <1>1, <2>5 DEF Start, Admissible
    <3>3. QED
      BY <2>3, <3>1, <3>2 DEF CallsEndFirst, WaitsForOne, IsOnlyCall
  <2>6. CASE Entered = "HALF_OPEN" /\ state # "OPEN"
    <3>1. state = "HALF_OPEN" /\ state' = "HALF_OPEN" /\ trial'
      BY <1>1, <2>6 DEF Start, Entered
    <3>2. admitted = {}
      BY <3>1, <2>6 DEF Admissible, WaitsForOne
    <3>3. PICK d \in Callers, p \in Pages : IsOnlyCall(d, p)
      BY <3>1 DEF WaitsForOne
    <3>4. IsOnlyCall(d, p)'
      BY <2>2, <2>3, <3>2, <3>3 DEF IsOnlyCall
    <3>5. QED
      BY <3>1, <3>4 DEF CallsEndFirst, WaitsForOne
  <2>7. CASE Entered = "CLOSED"
    BY <1>1, <2>7 DEF Start, CallsEndFirst, WaitsForOne
  <2>8. QED
    BY <2>4, <2>5, <2>6, <2>7 DEF Entered, TypeOK
<1>2. ASSUME NEW c \in Callers, NEW p \in Pages, Succeed(c, p)
      PROVE CallsEndFirst' /\ WaitsForOne'
  BY <1>2 DEF Succeed, CallsEndFirst, WaitsForOne
<1>3. ASSUME NEW c \in Callers, NEW p \in Pages, Fail(c, p)
      PROVE CallsEndFirst' /\ WaitsForOne'
  <2>1. /\ Running(c)' = Running(c) \ {p}
        /\ \A d \in Callers : d # c => Running(d)' = Running(d) /\ fetch'[d] = fetch[d]
        /\ Running(c)' # {} => fetch'[c].left = fetch[c].left
    BY <1>3, EndRemoves DEF Fail
  <2>2. state' # "HALF_OPEN"
    BY <1>3 DEF Fail, Opens
  <2>3. state' = "OPEN" => openLeft' = OpenTime \/ (state = "OPEN" /\ openLeft' = openLeft)
    BY <1>3 DEF Fail
  <2>4. ASSUME NEW d \in Callers, state' = "OPEN", Running(d)' # {}
        PROVE fetch'[d].left < openLeft'
    <3>1. Running(d) # {} /\ fetch'[d].left = fetch[d].left
      BY <2>1, <2>4
    <3>2. fetch[d].left \in 0..Timeout
      BY DEF TypeOK
    <3>3. CASE openLeft' = OpenTime
      BY <3>1, <3>2, <3>3
    <3>4. CASE state = "OPEN" /\ openLeft' = openLeft
      BY <3>1, <3>4 DEF CallsEndFirst
    <3>5. QED
      BY <2>3, <2>4, <3>3, <3>4
  <2>5. QED
    BY <2>2, <2>4 DEF CallsEndFirst, WaitsForOne
<1>4. ASSUME Tick PROVE CallsEndFirst' /\ WaitsForOne'
  <2>1. \A d \in Callers : /\ fetch'[d] = [fetch[d] EXCEPT !.left = Before(@)]
                           /\ Running(d) # {} => fetch[d].left > 0
    BY <1>4 DEF Tick
  <2>2. \A d \in Callers : /\ fetch'[d].page = fetch[d].page
                           /\ fetch'[d].left = Before(fetch[d].left)
    BY <2>1 DEF TypeOK
  <2>3. \A d \in Callers : Running(d)' = Running(d)
    BY <2>2 DEF Running
  <2>4. state' = state /\ trial' = trial /\ openLeft' = Before(openLeft)
    BY <1>4 DEF Tick
  <2>5. ASSUME NEW d \in Callers, state' = "OPEN", Running(d)' # {}
        PROVE fetch'[d].left < openLeft'
    <3>1. fetch[d].left > 0 /\ fetch[d].left < openLeft
      BY <2>1, <2>3, <2>4, <2>5 DEF CallsEndFirst
    <3>2. fetch[d].left \in Nat /\ openLeft \in Nat
      BY DEF TypeOK
    <3>3. QED
      BY <2>2, <2>4, <3>1, <3>2 DEF Before
  <2>6. QED
    BY <2>3, <2>4, <2>5 DEF CallsEndFirst, WaitsForOne, IsOnlyCall
<1>5. CASE Outage \/ UNCHANGED vars
  BY <1>5 DEF Outage, vars, CallsEndFirst, WaitsForOne, IsOnlyCall, Running
<1>6. QED
  BY <1>1, <1>2, <1>3, <1>4, <1>5 DEF Next

\* The calls of a breaker that waits for one are a singleton.
LEMMA OneCall == IInv => SingleProbe
<1> SUFFICES ASSUME IInv, state = "HALF_OPEN" PROVE trial /\ Cardinality(Calls) = 1
  BY DEF SingleProbe
<1>1. PICK c \in Callers, p \in Pages : IsOnlyCall(c, p)
  BY DEF IInv, WaitsForOne
<1>2. Calls = {<<c, p>>}
  BY <1>1 DEF Calls, IsOnlyCall
<1>3. Cardinality(Calls) = 1
  BY <1>2, FS_Singleton
<1>4. QED
  BY <1>3 DEF IInv, WaitsForOne

\* beforeCall: whenever calls time out before the open interval ends, a
\* half-open breaker waits for its one probe and no other call.
THEOREM OneProbe == ASSUME Timeout < OpenTime PROVE Spec => []SingleProbe
<1>1. IInv /\ [Next]_vars => IInv'
  BY NextKeeps
<1>2. QED
  BY <1>1, InitEstablishes, OneCall, PTL DEF Spec

-----------------------------------------------------------------------------
\* Every step keeps a call under way in a half-open breaker: calls that end
\* also end the half-open state, and calls are refused while it lasts.
LEMMA NextDecides == TypeOK /\ ProbeUnderWay /\ [Next]_vars => ProbeUnderWay'
<1> SUFFICES ASSUME TypeOK, ProbeUnderWay, [Next]_vars, state' = "HALF_OPEN"
             PROVE trial' /\ Calls' # {}
  BY DEF ProbeUnderWay
<1>1. ASSUME NEW c \in Callers, Start(c) PROVE trial' /\ Calls' # {}
  <2>1. PICK admitted \in Admissible :
           fetch' = [fetch EXCEPT ![c] =
                       [page |-> [p \in Pages |-> IF p \in admitted THEN "running" ELSE "failed"],
                        left |-> IF admitted = {} THEN 0 ELSE Timeout]]
    BY <1>1 DEF Start
  <2>2. Entered = "HALF_OPEN" /\ trial'
    BY <1>1 DEF Start
  <2>3. Running(c) = {} /\ admitted \subseteq Pages
    BY <1>1 DEF Start, Admissible
  <2>4. /\ Running(c)' = admitted
        /\ \A d \in Callers : d # c => Running(d)' = Running(d)
    BY <2>1, <2>3 DEF TypeOK, Running
  <2>5. CASE state = "HALF_OPEN"
    <3>1. PICK d \in Callers, p \in Pages : p \in Running(d)
      BY <2>5 DEF ProbeUnderWay, Calls, Running
    <3>2. p \in Running(d)'
      BY <2>3, <2>4, <3>1
    <3>3. <<d, p>> \in Calls'
      BY <3>2 DEF Calls, Running
    <3>4. QED
      BY <2>2, <3>3
  <2>6. CASE state # "HALF_OPEN"
    <3>1. PICK p \in Pages : admitted = {p}
      BY <2>2, <2>6 DEF Admissible, Entered
    <3>2. <<c, p>> \in Calls'
      BY <2>4, <3>1 DEF Calls
    <3>3. QED
      BY <2>2, <3>2
  <2>7. QED
    BY <2>5, <2>6
<1>2. ASSUME NEW c \in Callers, NEW p \in Pages, Succeed(c, p) PROVE FALSE
  BY <1>2 DEF Succeed
<1>3. ASSUME NEW c \in Callers, NEW p \in Pages, Fail(c, p) PROVE FALSE
  BY <1>3 DEF Fail, Opens
<1>4. ASSUME Tick PROVE trial' /\ Calls' # {}
  <2>1. \A d \in Callers : fetch'[d].page = fetch[d].page
    BY <1>4 DEF Tick, TypeOK
  <2>2. Calls' = Calls /\ state' = state /\ trial' = trial
    BY <1>4, <2>1 DEF Tick, Calls, Running
  <2>3. QED
    BY <2>2 DEF ProbeUnderWay
<1>5. CASE Outage \/ UNCHANGED vars
  BY <1>5 DEF Outage, vars, ProbeUnderWay, Calls, Running
<1>6. QED
  BY <1>1, <1>2, <1>3, <1>4, <1>5 DEF Next

\* beforeCall, onSuccess and onFailure: a half-open breaker always waits for a
\* call that will decide it, so that it never refuses calls for ever, even
\* when the timeout of the calls is longer than the open interval.
THEOREM ProbeDecides == Spec => []ProbeUnderWay
<1>1. Init => TypeOK /\ ProbeUnderWay
  BY InitTyped DEF Init, ProbeUnderWay
<1>2. QED
  BY <1>1, NextTyped, NextDecides, PTL DEF Spec
=============================================================================
