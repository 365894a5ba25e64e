------------------------ MODULE OutboxDeliveryProofs ------------------------
(***************************************************************************)
(* Proofs about OutboxDelivery, for every number of events, workers,       *)
(* attempts and mishaps.                                                    *)
(***************************************************************************)
EXTENDS OutboxDelivery, TLAPS

\* A worker that published an event it still owns has left the receipt, and so
\* did someone if its own could not be inserted although it owns the event.  It
\* links the receipt, written in one statement, to the completion in another.
PublishedWasRecorded ==
    \A w \in Workers :
        worker[w].pc \in {"checking", "published"} /\ Owns(w, worker[w].event)
            => worker[w].event \in receipts

\* Only a worker that is at an event, and an event it has, can be told apart.
BusyHasEvent == \A w \in Workers : worker[w].pc # "idle" => worker[w].event \in Events

IInv == TypeOK /\ BusyHasEvent /\ PublishedWasRecorded /\ ProcessedWasDelivered /\ GivenUpLate

USE AttemptsAssumption, NoneAssumption

\* The initial state satisfies the inductive invariant.
LEMMA InitEstablishes == Init => IInv
BY DEF Init, IInv, TypeOK, BusyHasEvent, PublishedWasRecorded, ProcessedWasDelivered,
       GivenUpLate, NoRow, Idle, Done

\* Every step of the outbox keeps the inductive invariant.
LEMMA NextKeeps == IInv /\ [Next]_vars => IInv'
<1> SUFFICES ASSUME IInv, [Next]_vars PROVE IInv'
  OBVIOUS
<1> USE DEF IInv, TypeOK, BusyHasEvent, PublishedWasRecorded, ProcessedWasDelivered,
            GivenUpLate, Owns, Done
<1>1. ASSUME NEW e \in Events, Settle(e) PROVE IInv'
  BY <1>1 DEF Settle, NoRow
<1>2. ASSUME NEW w \in Workers, NEW expired \in SUBSET Events, LeasesExpire(w, expired)
      PROVE IInv'
  <2>1. mishaps' \in Nat
    <3>1. (mishaps' = mishaps) \/ (mishaps' = mishaps + 1)
      BY <1>2 DEF LeasesExpire, Fault
    <3>2. QED
      BY <3>1
  <2>2. ASSUME NEW e \in Events
        PROVE /\ event'[e] \in [status : {"NONE", "PENDING", "PROCESSING"} \cup Done,
                                attempt : Nat, owner : Workers \cup {NoWorker}]
              /\ event'[e] = event[e] \/ event'[e].status = "PENDING"
    <3>1. CASE e \in expired
      <4>1. event'[e] = [event[e] EXCEPT !.status = "PENDING", !.owner = NoWorker]
        BY <1>2, <3>1 DEF LeasesExpire
      <4>2. event[e] \in [status : {"NONE", "PENDING", "PROCESSING"} \cup Done,
                          attempt : Nat, owner : Workers \cup {NoWorker}]
        OBVIOUS
      <4>3. QED
        BY <4>1, <4>2
    <3>2. CASE e \notin expired
      BY <1>2, <3>2 DEF LeasesExpire
    <3>3. QED
      BY <3>1, <3>2
  <2>3. event' \in [Events -> [status : {"NONE", "PENDING", "PROCESSING"} \cup Done,
                              attempt : Nat, owner : Workers \cup {NoWorker}]]
    <3>1. DOMAIN event' = Events /\ event' = [e \in Events |-> event'[e]]
      BY <1>2 DEF LeasesExpire
    <3>2. QED
      BY <2>2, <3>1 DEF Done
  <2>4. worker' = worker /\ receipts' = receipts
    BY <1>2 DEF LeasesExpire
  <2>5. QED
    BY <2>1, <2>2, <2>3, <2>4
<1>3. ASSUME NEW w \in Workers, NEW e \in Events, Claim(w, e) PROVE IInv'
  BY <1>3 DEF Claim
<1>4. ASSUME NEW w \in Workers, Record(w) PROVE IInv'
  BY <1>4 DEF Record, Move
<1>5. ASSUME NEW w \in Workers, CheckOwnership(w) PROVE IInv'
  <2>1. CASE Owns(w, worker[w].event)
    <3>1. /\ worker' = [worker EXCEPT ![w].pc = "published"] /\ worker[w].pc = "checking"
          /\ UNCHANGED <<event, receipts, mishaps>>
      BY <1>5, <2>1 DEF CheckOwnership, Duplicate, Move
    <3>2. TypeOK'
      BY <3>1
    <3>3. QED
      BY <3>1, <3>2
  <2>2. CASE ~ Owns(w, worker[w].event)
    <3>1. /\ worker' = [worker EXCEPT ![w].pc = "failed"] /\ worker[w].pc = "checking"
          /\ UNCHANGED <<event, receipts, mishaps>>
      BY <1>5, <2>2 DEF CheckOwnership, Duplicate, Move
    <3>2. TypeOK'
      BY <3>1
    <3>3. QED
      BY <3>1, <3>2
  <2>3. QED
    BY <2>1, <2>2
<1>6. ASSUME NEW w \in Workers, Complete(w) PROVE IInv'
  <2>1. CASE Owns(w, worker[w].event)
    BY <1>6, <2>1 DEF Complete, Idle
  <2>2. CASE ~ Owns(w, worker[w].event)
    <3>1. /\ worker' = [worker EXCEPT ![w].pc = "failed"] /\ worker[w].pc = "published"
          /\ UNCHANGED <<event, receipts, mishaps>>
      BY <1>6, <2>2 DEF Complete, Move
    <3>2. TypeOK'
      BY <3>1
    <3>3. QED
      BY <3>1, <3>2
  <2>3. QED
    BY <2>1, <2>2
<1>7. ASSUME NEW w \in Workers, StatementFails(w) PROVE IInv'
  BY <1>7 DEF StatementFails, Move, Fault
<1>8. ASSUME NEW w \in Workers, Reschedule(w) PROVE IInv'
  BY <1>8 DEF Reschedule, Retried, Idle
<1>9. ASSUME NEW w \in Workers, WorkerStops(w) PROVE IInv'
  BY <1>9 DEF WorkerStops, Fault, Idle
<1>10. CASE UNCHANGED vars
  BY <1>10 DEF vars
<1>11. QED
  BY <1>1, <1>2, <1>3, <1>4, <1>5, <1>6, <1>7, <1>8, <1>9, <1>10 DEF Next, Step

\* The inductive invariant holds in every reachable state of the outbox.
THEOREM Invariance == Spec => []IInv
BY InitEstablishes, NextKeeps, PTL DEF Spec

\* Every variable keeps to its type.
THEOREM TypeCorrect == Spec => []TypeOK
<1>1. IInv => TypeOK
  BY DEF IInv
<1>2. QED
  BY <1>1, Invariance, PTL

\* recordOutboxDelivery and completeOutbox: an event that counts as processed
\* has its receipt, however often it changed hands.
THEOREM ProcessedHasReceipt == Spec => []ProcessedWasDelivered
<1>1. IInv => ProcessedWasDelivered
  BY DEF IInv
<1>2. QED
  BY <1>1, Invariance, PTL

\* rescheduleOutbox: no event is failed before its last attempt.
THEOREM FailedWasTried == Spec => []GivenUpLate
<1>1. IInv => GivenUpLate
  BY DEF IInv
<1>2. QED
  BY <1>1, Invariance, PTL

\* Late workers reopen nothing: a processed or failed event keeps its row.
LEMMA StepKeepsEnded ==
    IInv /\ [Next]_vars =>
        [\A e \in Events : event[e].status \in Done => event'[e] = event[e]]_vars
<1> SUFFICES ASSUME IInv, Next, NEW f \in Events, event[f].status \in Done
             PROVE event'[f] = event[f]
  BY DEF vars
<1> USE DEF IInv, TypeOK, BusyHasEvent, Owns, Done
<1>1. ASSUME NEW e \in Events, Settle(e) PROVE event'[f] = event[f]
  BY <1>1 DEF Settle, NoRow
<1>2. ASSUME NEW w \in Workers, NEW expired \in SUBSET Events, LeasesExpire(w, expired)
      PROVE event'[f] = event[f]
  BY <1>2 DEF LeasesExpire, Locked
<1>3. ASSUME NEW w \in Workers, NEW e \in Events, Claim(w, e) PROVE event'[f] = event[f]
  BY <1>3 DEF Claim
<1>4. ASSUME NEW w \in Workers, Record(w) \/ CheckOwnership(w) \/ WorkerStops(w)
      PROVE event'[f] = event[f]
  BY <1>4 DEF Record, CheckOwnership, WorkerStops
<1>5. ASSUME NEW w \in Workers, Complete(w) PROVE event'[f] = event[f]
  BY <1>5 DEF Complete
<1>6. ASSUME NEW w \in Workers, StatementFails(w) PROVE event'[f] = event[f]
  BY <1>6 DEF StatementFails
<1>7. ASSUME NEW w \in Workers, Reschedule(w) PROVE event'[f] = event[f]
  BY <1>7 DEF Reschedule
<1>8. QED
  BY <1>1, <1>2, <1>3, <1>4, <1>5, <1>6, <1>7 DEF Next, Step

\* completeOutbox and rescheduleOutbox guard by status and owner: an event
\* that ended stays as it ended.
THEOREM EventsStayEnded == Spec => EndedStaysEnded
BY Invariance, StepKeepsEnded, PTL DEF Spec, EndedStaysEnded

\* A step that ends an event is a step of the worker the row names.
LEMMA StepEndsOwned ==
    IInv /\ [Next]_vars =>
        [\A e \in Events :
            event[e].status \notin Done /\ event'[e].status \in Done =>
                LET w == event[e].owner
                IN  w \in Workers /\ worker[w].event = e /\ worker'[w] # worker[w]]_vars
<1> SUFFICES ASSUME IInv, Next, NEW f \in Events,
                    event[f].status \notin Done, event'[f].status \in Done
             PROVE /\ event[f].owner \in Workers
                   /\ worker[event[f].owner].event = f
                   /\ worker'[event[f].owner] # worker[event[f].owner]
  BY DEF vars
<1> DEFINE Owned == /\ event[f].owner \in Workers
                    /\ worker[event[f].owner].event = f
                    /\ worker'[event[f].owner] # worker[event[f].owner]
<1> USE DEF IInv, TypeOK, BusyHasEvent, Owns, Done
<1>1. ASSUME NEW e \in Events, Settle(e) PROVE Owned
  BY <1>1 DEF Settle, NoRow
<1>2. ASSUME NEW w \in Workers, NEW expired \in SUBSET Events, LeasesExpire(w, expired)
      PROVE Owned
  BY <1>2 DEF LeasesExpire, Locked
<1>3. ASSUME NEW w \in Workers, NEW e \in Events, Claim(w, e) PROVE Owned
  BY <1>3 DEF Claim
<1>4. ASSUME NEW w \in Workers, Record(w) \/ CheckOwnership(w) \/ WorkerStops(w) PROVE Owned
  BY <1>4 DEF Record, CheckOwnership, WorkerStops
<1>5. ASSUME NEW w \in Workers, Complete(w) PROVE Owned
  BY <1>5 DEF Complete, Idle, Move
<1>6. ASSUME NEW w \in Workers, StatementFails(w) PROVE Owned
  BY <1>6 DEF StatementFails, Move
<1>7. ASSUME NEW w \in Workers, Reschedule(w) PROVE Owned
  BY <1>7 DEF Reschedule, Idle
<1>8. QED
  BY <1>1, <1>2, <1>3, <1>4, <1>5, <1>6, <1>7 DEF Next, Step

\* A worker whose lease was taken over neither completes nor fails the event
\* of its successor (the WHERE clauses of completeOutbox, rescheduleOutbox).
THEOREM OwnersEnd == Spec => OnlyOwnerEnds
BY Invariance, StepEndsOwned, PTL DEF Spec, OnlyOwnerEnds
=============================================================================
