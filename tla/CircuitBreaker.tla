--------------------------- MODULE CircuitBreaker ---------------------------
(***************************************************************************)
(* The circuit breaker in front of the institutions, one per adapter: it   *)
(* opens after Threshold failures in a row, refuses calls for OpenTime,    *)
(* then lets calls probe the institution.  An adapter fetches a dataset    *)
(* with one call per page, all made in one synchronous turn (Promise.all); *)
(* a page that fails does not stop the others, so calls outlive the fetch  *)
(* that made them, and end in any state of the breaker.                    *)
(*                                                                         *)
(* Time is a number of ticks: what is left of the open interval and of the *)
(* timeout of each fetch.                                                  *)
(***************************************************************************)
EXTENDS Naturals, FiniteSets

CONSTANTS
    Callers,    \* fetches that can be under way at a time
    Pages,      \* pages of a dataset; the brokerage and the prices have one
    Threshold,  \* EXTERNAL_CIRCUIT_FAILURE_THRESHOLD
    OpenTime,   \* EXTERNAL_CIRCUIT_OPEN_MS
    Timeout     \* INSTITUTION_SIMULATOR_TIMEOUT_MS

ASSUME LimitsAssumption ==
    Threshold \in Nat \ {0} /\ OpenTime \in Nat \ {0} /\ Timeout \in Nat \ {0}

VARIABLES
    state,      \* CLOSED, OPEN or HALF_OPEN
    failures,   \* consecutiveFailures; only its order to Threshold is read,
                \* so that it stops at Threshold + 1
    trial,      \* halfOpenTrialRunning
    openLeft,   \* openedUntil - now, and 0 once that has passed
    fetch,      \* [page, left] of each caller: its calls and their timeout
    up          \* whether the institution answers

vars == <<state, failures, trial, openLeft, fetch, up>>

NoFetch == [page |-> [p \in Pages |-> "none"], left |-> 0]

Init ==
    /\ state = "CLOSED" /\ failures = 0 /\ trial = FALSE /\ openLeft = 0
    /\ fetch = [c \in Callers |-> NoFetch]
    /\ up = TRUE

Running(c) == {p \in Pages : fetch[c].page[p] = "running"}
Calls == {call \in Callers \X Pages : call[2] \in Running(call[1])}
Fetched(c) == \A p \in Pages : fetch[c].page[p] = "ok"

-----------------------------------------------------------------------------
\* beforeCall: the state a call finds.
Entered == IF state = "OPEN" /\ openLeft = 0 THEN "HALF_OPEN" ELSE state

\* The sets of calls of one turn that beforeCall can let through: none while
\* open or probing, the first one as a probe, or all.
\* Mutant: the calls of a turn are not counted against the probe.
AdmissibleTurn ==
    IF Entered = "OPEN" \/ (state = "HALF_OPEN" /\ trial) THEN {{}} ELSE {Pages}
Admissible ==
    IF Entered = "OPEN" \/ (state = "HALF_OPEN" /\ trial) THEN {{}}
    ELSE IF Entered = "HALF_OPEN" THEN {{p} : p \in Pages}
    ELSE {Pages}

\* A caller makes the calls of its fetch; refused ones fail at once.
Start(c) ==
    /\ Running(c) = {}
    /\ \E admitted \in Admissible :
          fetch' = [fetch EXCEPT ![c] =
                       [page |-> [p \in Pages |-> IF p \in admitted THEN "running" ELSE "failed"],
                        left |-> IF admitted = {} THEN 0 ELSE Timeout]]
    /\ state' = Entered
    /\ trial' = (Entered = "HALF_OPEN")
    /\ UNCHANGED <<failures, openLeft, up>>

End(c, p, result) ==
    /\ p \in Running(c)
    /\ fetch' = [fetch EXCEPT ![c] = [page |-> [@.page EXCEPT ![p] = result],
                                      left |-> IF Running(c) = {p} THEN 0 ELSE @.left]]

\* onSuccess, whatever state the call began in.
\* Mutant: only the failures are forgotten.
SucceedCounting(c, p) ==
    /\ End(c, p, "ok") /\ failures' = 0 /\ trial' = FALSE
    /\ UNCHANGED <<state, openLeft, up>>
Succeed(c, p) ==
    /\ End(c, p, "ok")
    /\ state' = "CLOSED" /\ failures' = 0 /\ trial' = FALSE
    /\ UNCHANGED <<openLeft, up>>

\* Whether n failures in a row open the breaker.
Opens(n) == state = "HALF_OPEN" \/ n >= Threshold

\* onFailure, whatever state the call began in.
Fail(c, p) ==
    LET n == IF failures > Threshold THEN failures ELSE failures + 1 IN
    /\ ~ up
    /\ End(c, p, "failed")
    /\ failures' = n /\ trial' = FALSE
    /\ IF Opens(n) THEN state' = "OPEN" /\ openLeft' = OpenTime
                   ELSE UNCHANGED <<state, openLeft>>
    /\ UNCHANGED up

\* Time passes; a call ends before its timeout does.
Before(n) == IF n = 0 THEN 0 ELSE n - 1

Tick ==
    /\ openLeft > 0 \/ Calls # {}
    /\ \A c \in Callers : Running(c) # {} => fetch[c].left > 0
    /\ openLeft' = Before(openLeft)
    /\ fetch' = [c \in Callers |-> [fetch[c] EXCEPT !.left = Before(@)]]
    /\ UNCHANGED <<state, failures, trial, up>>

\* The institution stops and resumes to answer.
Outage == up' = ~ up /\ UNCHANGED <<state, failures, trial, openLeft, fetch>>

-----------------------------------------------------------------------------
Next ==
    \/ \E c \in Callers : Start(c) \/ \E p \in Pages : Succeed(c, p) \/ Fail(c, p)
    \/ Tick
    \/ Outage

Spec == Init /\ [][Next]_vars

\* Syncs and orders keep coming, every call ends by its timeout, and time
\* passes.
FairSpec ==
    /\ Spec
    /\ WF_vars(Tick)
    /\ \A c \in Callers :
          /\ WF_vars(Start(c))
          /\ \A p \in Pages : WF_vars(Succeed(c, p) \/ Fail(c, p))

-----------------------------------------------------------------------------
(* Properties *)

TypeOK ==
    /\ state \in {"CLOSED", "OPEN", "HALF_OPEN"}
    /\ failures \in 0..(Threshold + 1)
    /\ trial \in BOOLEAN
    /\ openLeft \in 0..OpenTime
    /\ fetch \in [Callers -> [page : [Pages -> {"none", "running", "ok", "failed"}],
                              left : 0..Timeout]]
    /\ up \in BOOLEAN

\* A half-open breaker waits for exactly one call, the probe: no call of
\* before the breaker opened is still there to end the half-open state in the
\* probe's place.  True when calls time out before the breaker half-opens.
SingleProbe == state = "HALF_OPEN" => trial /\ Cardinality(Calls) = 1

\* A half-open breaker always has a call under way that will decide it, even
\* when calls outlive the open interval: it can never refuse calls for ever.
ProbeUnderWay == state = "HALF_OPEN" => trial /\ Calls # {}

\* While the breaker is closed fewer than Threshold calls failed in a row,
\* however the ends of calls made before and after it opened are mixed.
ClosedIsHealthy == state = "CLOSED" <=> failures < Threshold

\* Once the institution answers for good, every caller gets whole datasets
\* again, although each probe fails the fetch it belongs to.
FetchesRecover == \A c \in Callers : <>[]up => []<>Fetched(c)
=============================================================================
