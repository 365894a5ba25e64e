--------------------------- MODULE OutboxDelivery ---------------------------
(***************************************************************************)
(* The transactional outbox of the trading module: a settlement leaves an  *)
(* ORDER_SETTLED event in its own transaction, and the outbox worker of    *)
(* every platform process claims events under a lease, hands them to the   *)
(* consumer, whose receipt is unique per event, and completes them.        *)
(*                                                                         *)
(* Claiming, the receipt, completing and rescheduling are each one SQL     *)
(* statement, and a step each; between them the process may die, lose the  *)
(* database or be so slow that another process takes the event over.       *)
(***************************************************************************)
EXTENDS Naturals, FiniteSets

CONSTANTS
    Events,        \* orders that get settled, each with one event
    Workers,       \* platform processes; each has one worker id for its life
    MaxAttempts,   \* OUTBOX_PUBLISHER_MAX_ATTEMPTS
    MaxFaults,     \* bound on crashes, lost answers and overrun leases
    NoWorker, NoEvent

ASSUME AttemptsAssumption == MaxAttempts \in Nat \ {0} /\ MaxFaults \in Nat
ASSUME NoneAssumption == NoWorker \notin Workers /\ NoEvent \notin Events

VARIABLES
    event,      \* finapp_outbox_event: [status, attempt, owner]
    receipts,   \* events with a row in finapp_outbox_delivery
    worker,     \* where each worker is: [pc, event]
    mishaps     \* the faults so far

vars == <<event, receipts, worker, mishaps>>

NoRow == [status |-> "NONE", attempt |-> 0, owner |-> NoWorker]
Idle  == [pc |-> "idle", event |-> NoEvent]
Done  == {"PROCESSED", "FAILED"}

Init ==
    /\ event = [e \in Events |-> NoRow]
    /\ receipts = {}
    /\ worker = [w \in Workers |-> Idle]
    /\ mishaps = 0

Move(w, pc) == worker' = [worker EXCEPT ![w].pc = pc]

\* WHERE status = 'PROCESSING' AND locked_by = worker id
\* Mutant: whoever processes it.
Processing(w, e) == event[e].status = "PROCESSING"
Owns(w, e) == event[e].status = "PROCESSING" /\ event[e].owner = w

Fault == mishaps < MaxFaults /\ mishaps' = mishaps + 1

-----------------------------------------------------------------------------
\* insertSettlementOutbox, inside the settlement's transaction.
Settle(e) ==
    /\ event[e] = NoRow
    /\ event' = [event EXCEPT ![e].status = "PENDING"]
    /\ UNCHANGED <<receipts, worker, mishaps>>

\* WHERE status = 'PROCESSING' AND locked_at < stale before
\* Mutant: an event that used up its attempts is not taken over.
LockedWithAttemptsLeft(e) == event[e].status = "PROCESSING" /\ event[e].attempt < MaxAttempts
Locked(e) == event[e].status = "PROCESSING"

\* First statement of claimOutbox: events whose locked_at is too old are
\* pending again.  That a worker is still at one of them is a fault.
Working(e) == {w \in Workers : worker[w].event = e /\ Owns(w, e)}

LeasesExpire(w, expired) ==
    /\ worker[w].pc = "idle"
    /\ \A e \in expired : Locked(e)
    /\ IF \A e \in expired : Working(e) = {} THEN UNCHANGED mishaps ELSE Fault
    /\ event' = [e \in Events |->
                    IF e \in expired
                    THEN [event[e] EXCEPT !.status = "PENDING", !.owner = NoWorker]
                    ELSE event[e]]
    /\ UNCHANGED <<receipts, worker>>

\* Second statement: one pending event that is due.
Claim(w, e) ==
    /\ worker[w].pc = "idle"
    /\ event[e].status = "PENDING"
    /\ event' = [event EXCEPT ![e] = [status |-> "PROCESSING", attempt |-> @.attempt + 1,
                                      owner |-> w]]
    /\ worker' = [worker EXCEPT ![w] = [pc |-> "claimed", event |-> e]]
    /\ UNCHANGED <<receipts, mishaps>>

\* Mutant: publish is not awaited, so that its failure goes unnoticed.
RecordUnawaited(w) ==
    /\ worker[w].pc = "claimed"
    /\ receipts' \in {receipts, receipts \cup {worker[w].event}}
    /\ Move(w, "published")
    /\ UNCHANGED <<event, mishaps>>

\* recordOutboxDelivery: INSERT ... SELECT of an event the worker owns, unless
\* there is a receipt already.
Record(w) ==
    LET e == worker[w].event IN
    /\ worker[w].pc = "claimed"
    /\ IF Owns(w, e) /\ e \notin receipts
       THEN receipts' = receipts \cup {e} /\ Move(w, "published")
       ELSE UNCHANGED receipts /\ Move(w, "checking")
    /\ UNCHANGED <<event, mishaps>>

\* No row was inserted: a DUPLICATE if the event is still owned, else an error.
Duplicate(w) == IF Owns(w, worker[w].event) THEN "published" ELSE "failed"

CheckOwnership(w) ==
    /\ worker[w].pc = "checking"
    /\ Move(w, Duplicate(w))
    /\ UNCHANGED <<event, receipts, mishaps>>

\* completeOutbox; it throws when the event is no longer the worker's.
Complete(w) ==
    LET e == worker[w].event IN
    /\ worker[w].pc = "published"
    /\ IF Owns(w, e)
       THEN /\ event' = [event EXCEPT ![e].status = "PROCESSED", ![e].owner = NoWorker]
            /\ worker' = [worker EXCEPT ![w] = Idle]
       ELSE /\ UNCHANGED event
            /\ Move(w, "failed")
    /\ UNCHANGED <<receipts, mishaps>>

\* A statement of publish or completeOutbox fails, before or after it took
\* effect: the worker cannot tell, and reschedules.
StatementFails(w) ==
    LET e == worker[w].event IN
    /\ Fault
    /\ \/ /\ worker[w].pc = "claimed" /\ Owns(w, e)
          /\ receipts' \in {receipts, receipts \cup {e}}
          /\ UNCHANGED event
       \/ /\ worker[w].pc = "published" /\ Owns(w, e)
          /\ event' \in {event, [event EXCEPT ![e].status = "PROCESSED", ![e].owner = NoWorker]}
          /\ UNCHANGED receipts
    /\ Move(w, "failed")

\* The status of an event after a failed attempt.
Retried(n) == IF n >= MaxAttempts THEN "FAILED" ELSE "PENDING"

\* rescheduleOutbox: nothing happens to an event the worker has lost.
Reschedule(w) ==
    LET e == worker[w].event IN
    /\ worker[w].pc = "failed"
    /\ IF Owns(w, e)
       THEN event' = [event EXCEPT ![e].status = Retried(event[e].attempt),
                                   ![e].owner = NoWorker]
       ELSE UNCHANGED event
    /\ worker' = [worker EXCEPT ![w] = Idle]
    /\ UNCHANGED <<receipts, mishaps>>

\* The process dies (its successor has another worker id, but no event it
\* owns is told apart from the ones of the dead process), or rescheduleOutbox
\* fails and the error leaves the tick.
WorkerStops(w) ==
    /\ Fault
    /\ worker[w].pc # "idle"
    /\ worker' = [worker EXCEPT ![w] = Idle]
    /\ UNCHANGED <<event, receipts>>

-----------------------------------------------------------------------------
Step(w) == Record(w) \/ CheckOwnership(w) \/ Complete(w) \/ Reschedule(w)

Next ==
    \/ \E e \in Events : Settle(e)
    \/ \E w \in Workers :
          \/ \E expired \in SUBSET Events \ {{}} : LeasesExpire(w, expired)
          \/ \E e \in Events : Claim(w, e)
          \/ Step(w)
          \/ StatementFails(w) \/ WorkerStops(w)

Spec == Init /\ [][Next]_vars

\* Every process ticks, and a tick goes through the due events in order; an
\* abandoned event is taken over once its lease is too old.
Fairness ==
    /\ \A w \in Workers : WF_vars(Step(w))
    /\ \A e \in Events : /\ SF_vars(\E w \in Workers : Claim(w, e))
                         /\ SF_vars(\E w \in Workers : Working(e) = {} /\ LeasesExpire(w, {e}))

FairSpec == Spec /\ Fairness

-----------------------------------------------------------------------------
(* Properties *)

TypeOK ==
    /\ event \in [Events -> [status : {"NONE", "PENDING", "PROCESSING"} \cup Done,
                             attempt : Nat, owner : Workers \cup {NoWorker}]]
    /\ receipts \subseteq Events
    /\ worker \in [Workers -> [pc : {"idle", "claimed", "checking", "published", "failed"},
                           event : Events \cup {NoEvent}]]
    /\ mishaps \in Nat

\* An event counts as processed only if the consumer has its receipt, whoever
\* took it over from whom in between (recordOutboxDelivery, completeOutbox).
ProcessedWasDelivered ==
    \A e \in Events : event[e].status = "PROCESSED" => e \in receipts

\* Only the worker that holds the lease ends an event: a worker whose lease
\* was taken over neither completes nor fails the event of its successor.
OnlyOwnerEnds ==
    [][\A e \in Events :
          event[e].status \notin Done /\ event'[e].status \in Done =>
              LET w == event[e].owner
              IN  w \in Workers /\ worker[w].event = e /\ worker'[w] # worker[w]]_vars

\* A processed or failed event stays so: late workers reopen nothing.
EndedStaysEnded ==
    [][\A e \in Events : event[e].status \in Done => event'[e] = event[e]]_vars

\* An event is given up only after MaxAttempts claims.
GivenUpLate ==
    \A e \in Events : event[e].status = "FAILED" => event[e].attempt >= MaxAttempts

\* Every event ends processed or failed, through crashed workers, lost
\* answers and leases that are overrun.
EventEnds == \A e \in Events : event[e].status = "PENDING" ~> event[e].status \in Done
=============================================================================
