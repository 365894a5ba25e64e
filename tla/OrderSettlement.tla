-------------------------- MODULE OrderSettlement --------------------------
(***************************************************************************)
(* BUY orders of one customer against one cash account, as the platform    *)
(* API (modules/trading) executes them:                                    *)
(*                                                                         *)
(*   - a request process per POST /orders: transaction A reserves cash and *)
(*     stores the order, the brokerage is called outside any transaction,  *)
(*     transaction B applies what it answered;                             *)
(*   - reconciliation workers that claim the job of an order whose outcome *)
(*     is unknown under a lease, ask the brokerage, and settle, release,   *)
(*     requeue or give up;                                                 *)
(*   - the brokerage, an institution outside the platform: it records an   *)
(*     order once per client order id, possibly after the caller has       *)
(*     stopped waiting.                                                    *)
(*                                                                         *)
(* A database transaction is one step: each takes the row and advisory     *)
(* locks of everything it writes before it writes.  What lies between two  *)
(* transactions of a process (an HTTP call, a crash) is between two steps. *)
(***************************************************************************)
EXTENDS Naturals, Sequences, FiniteSets

CONSTANTS
    Requests,      \* POST /orders calls; the order a call creates bears its name
    Keys,          \* idempotency keys (of one user, operation CREATE_ORDER)
    Quotes,        \* quotes the customer may preview
    Workers,       \* reconciliation workers, one per platform process
    Amounts,       \* order amounts, in the smallest unit
    InitialCash,   \* available balance at the start
    MaxAttempts,   \* ORDER_RECONCILIATION_MAX_ATTEMPTS
    LeasesHold,    \* TRUE: no worker outlives its lease on a job
    MaxFaults,     \* bound on crashes, aborted transactions and overrun leases
    NoOrder        \* the order of a request that has none

ASSUME AmountsAssumption == Amounts \subseteq Nat \ {0}
ASSUME CountsAssumption == /\ InitialCash \in Nat
                           /\ MaxAttempts \in Nat \ {0}
                           /\ MaxFaults \in Nat
ASSUME LeaseAssumption == LeasesHold \in BOOLEAN
ASSUME NoOrderAssumption == NoOrder \notin Requests

VARIABLES
    quote,        \* [amount, age] of each quote, amount 0 before its preview
    idem,         \* idempotency record per key: [hash, order]
    status,       \* finapp_trade_order.status
    amount,       \* amount of the order's fund reservation
    reservation,  \* finapp_fund_reservation.status
    available,    \* finapp_cash_account.available_balance
    reserved,     \* finapp_cash_account.reserved_balance
    ledger,       \* entry types of the order in finapp_cash_ledger_entry
    execution,    \* amount of the order's finapp_order_execution, 0 if none
    position,     \* units held: one per execution
    job,          \* finapp_reconciliation_job: [status, attempt up to MaxAttempts]
    outbox,       \* outcome in the order's ORDER_SETTLED event
    audit,        \* the order's audit events, oldest first
    broker,       \* what the brokerage has recorded for the order
    late,         \* orders whose POST is still on its way to the brokerage
    req,          \* state of each request process
    wk,           \* state of each reconciliation worker
    faults        \* crashes, aborted transactions and overrun leases so far

funds    == <<available, reserved, amount, reservation, ledger, execution, position>>
outcomes == <<status, outbox, audit>>
platform == <<quote, idem, funds, outcomes, job>>
vars     == <<platform, broker, late, req, wk, faults>>

-----------------------------------------------------------------------------
(* Values *)

Open        == {"PENDING_SUBMISSION", "UNKNOWN"}
Terminal    == {"FILLED", "REJECTED", "FAILED"}
ActiveJob   == {"QUEUED", "PROCESSING"}
NoResult    == [status |-> "NONE", filled |-> 0]
\* Mutant: a call that got no answer counts as a rejection.
TransportAsRejection == [status |-> "REJECTED", filled |-> 0]
\* BrokerageTransportError: the outcome is not known.
Transport   == [status |-> "ERROR", filled |-> 0]
Results     == [status : {"FILLED", "REJECTED", "UNKNOWN"}, filled : Amounts]
Answers     == Results \cup {NoResult, Transport}
NoRecord    == [hash |-> "NONE", order |-> NoOrder]
NewRequest  == [pc |-> "new", key |-> "NONE", quote |-> "NONE",
                order |-> NoOrder, answer |-> NoResult]
IdleWorker  == [pc |-> "idle", order |-> NoOrder, attempt |-> 0, answer |-> NoResult]

Init ==
    /\ quote = [q \in Quotes |-> [amount |-> 0, age |-> "fresh"]]
    /\ idem = [k \in Keys |-> NoRecord]
    /\ status = [o \in Requests |-> "NONE"]
    /\ amount = [o \in Requests |-> 0]
    /\ reservation = [o \in Requests |-> "NONE"]
    /\ available = InitialCash
    /\ reserved = 0
    /\ ledger = [o \in Requests |-> {}]
    /\ execution = [o \in Requests |-> 0]
    /\ position = 0
    /\ job = [o \in Requests |-> [status |-> "NONE", attempt |-> 0]]
    /\ outbox = [o \in Requests |-> "NONE"]
    /\ audit = [o \in Requests |-> <<>>]
    /\ broker = [o \in Requests |-> NoResult]
    /\ late = {}
    /\ req = [r \in Requests |-> NewRequest]
    /\ wk = [w \in Workers |-> IdleWorker]
    /\ faults = 0

-----------------------------------------------------------------------------
(* Pieces of transactions *)

\* insertAudit, as often as the transaction calls it.
Log(o, events) == audit' = [audit EXCEPT ![o] = @ \o events]

\* Transaction A moves the order's amount from available to reserved.
HoldFunds(o, a) ==
    /\ available' = available - a
    /\ reserved' = reserved + a
    /\ amount' = [amount EXCEPT ![o] = a]
    /\ reservation' = [reservation EXCEPT ![o] = "ACTIVE"]
    /\ ledger' = [ledger EXCEPT ![o] = {"RESERVE"}]
    /\ UNCHANGED <<execution, position>>

\* An UPDATE ... WHERE status = 'ACTIVE' leaves any other reservation as it is.
CloseReservation(o, to) ==
    reservation' = [reservation EXCEPT ![o] = IF @ = "ACTIVE" THEN to ELSE @]

\* What a fill below the reservation gives back.
Refund(o, filled) == amount[o] - filled

\* Mutant: only what was filled is taken out of reserved.
SettleFilledPart(o, filled) ==
    /\ available' = available + Refund(o, filled)
    /\ reserved' = reserved - filled
    /\ CloseReservation(o, "SETTLED")
    /\ execution' = [execution EXCEPT ![o] = IF @ = 0 THEN filled ELSE @]
    /\ position' = position + 1
    /\ ledger' = [ledger EXCEPT ![o] = @ \cup {"SETTLE"}]
    /\ UNCHANGED amount

\* FILLED: the filled amount leaves the account, the rest of the reservation
\* is available again.  Inserts that meet an existing row do nothing.
SettleFunds(o, filled) ==
    /\ available' = available + Refund(o, filled)
    /\ reserved' = reserved - amount[o]
    /\ CloseReservation(o, "SETTLED")
    /\ execution' = [execution EXCEPT ![o] = IF @ = 0 THEN filled ELSE @]
    /\ position' = position + 1
    /\ ledger' = [ledger EXCEPT ![o] = @ \cup {"SETTLE"}]
    /\ UNCHANGED amount

\* REJECTED, and giving up: the whole reservation is available again.
ReleaseFunds(o) ==
    /\ available' = available + amount[o]
    /\ reserved' = reserved - amount[o]
    /\ CloseReservation(o, "RELEASED")
    /\ ledger' = [ledger EXCEPT ![o] = @ \cup {"RELEASE"}]
    /\ UNCHANGED <<amount, execution, position>>

\* CHECK (reserved_balance >= 0): a transaction that would break it is aborted.
ReservedSuffices(o) == reserved >= amount[o]

\* Mutant: a later event replaces the first.
PublishLatest(o, outcome) == outbox' = [outbox EXCEPT ![o] = outcome]
\* ON CONFLICT DO NOTHING: the first ORDER_SETTLED event of an order stays.
Publish(o, outcome) ==
    outbox' = [outbox EXCEPT ![o] = IF @ = "NONE" THEN outcome ELSE @]

\* The checks on a fill before anything is written.
\* Mutant: without the comparison with the reservation.
AnyFill(o, result) == result.filled > 0
FillFits(o, result) == result.filled <= amount[o]

\* The body of applyExternalResult for an order that is not final yet.
ApplyOutcome(o, result, auditTail) ==
    /\ ReservedSuffices(o)
    /\ \/ /\ result.status = "FILLED"
          /\ FillFits(o, result)
          /\ SettleFunds(o, result.filled)
          /\ Log(o, <<<<"ORDER_SUBMITTED", "SUCCESS">>>> \o auditTail
                      \o <<<<"ORDER_FILLED", "SUCCESS">>>>)
       \/ /\ result.status = "REJECTED"
          /\ ReleaseFunds(o)
          /\ Log(o, <<<<"ORDER_SUBMITTED", "FAILURE">>>> \o auditTail)
    /\ status' = [status EXCEPT ![o] = result.status]
    /\ Publish(o, result.status)

\* An order that applyExternalResult leaves as it is.
\* Mutant: only a fill is final.
OnlyFillsFinal(o) == status[o] = "FILLED"
Final(o) == status[o] \in Terminal

\* When applyExternalResult would throw instead of committing.
ApplyThrows(o, result) ==
    /\ ~Final(o)
    /\ \/ result.status = "FILLED" /\ ~FillFits(o, result)
       \/ ~ReservedSuffices(o)

\* markUnknown: only an open order becomes UNKNOWN and gets a job, unless it
\* already has an active one.
MarkUnknown(o) ==
    /\ IF status[o] \in Open
       THEN /\ status' = [status EXCEPT ![o] = "UNKNOWN"]
            /\ job' = [job EXCEPT ![o] = IF @.status \in ActiveJob THEN @
                                         ELSE [status |-> "QUEUED", attempt |-> 0]]
            /\ Log(o, <<<<"ORDER_SUBMITTED", "UNKNOWN">>>>)
       ELSE UNCHANGED <<status, job, audit>>
    /\ UNCHANGED <<funds, outbox>>

-----------------------------------------------------------------------------
(* Quotes *)

\* preview: a quote for a positive amount.
Preview(q, a) ==
    /\ quote[q].amount = 0
    /\ quote' = [quote EXCEPT ![q].amount = a]
    /\ UNCHANGED <<idem, funds, outcomes, job, broker, late, req, wk, faults>>

\* Sixty seconds pass.
QuoteExpires(q) ==
    /\ quote[q].amount > 0
    /\ quote[q].age = "fresh"
    /\ quote' = [quote EXCEPT ![q].age = "expired"]
    /\ UNCHANGED <<idem, funds, outcomes, job, broker, late, req, wk, faults>>

-----------------------------------------------------------------------------
(* Requests *)

Answer(r, k, q, pc, o) ==
    req' = [req EXCEPT ![r] = [pc |-> pc, key |-> k, quote |-> q,
                               order |-> o, answer |-> NoResult]]

\* No order was recorded under the key.
\* Mutant: the record of a final order does not count.
UnrecordedOrFinal(k) == idem[k].order \in {NoOrder} \cup {o \in Requests : Final(o)}
Unrecorded(k) == idem[k] = NoRecord

Affords(q) == available >= quote[q].amount

\* The key is known: the recorded order, or a conflict if the body differs.
Replay(r, k, q) ==
    /\ req[r].pc = "new"
    /\ quote[q].amount > 0
    /\ ~Unrecorded(k)
    /\ IF idem[k].hash = q THEN Answer(r, k, q, "replayed", idem[k].order)
                           ELSE Answer(r, k, q, "conflict", NoOrder)
    /\ UNCHANGED <<platform, broker, late, wk, faults>>

\* The quote is too old or the cash too short: rolled back, nothing recorded.
Refuse(r, k, q) ==
    /\ req[r].pc = "new"
    /\ quote[q].amount > 0
    /\ Unrecorded(k)
    /\ quote[q].age = "expired" \/ ~Affords(q)
    /\ Answer(r, k, q, "refused", NoOrder)
    /\ UNCHANGED <<platform, broker, late, wk, faults>>

\* Transaction A.
Prepare(r, k, q) ==
    /\ req[r].pc = "new"
    /\ quote[q].amount > 0
    /\ Unrecorded(k)
    /\ quote[q].age = "fresh"
    /\ Affords(q)
    /\ HoldFunds(r, quote[q].amount)
    /\ status' = [status EXCEPT ![r] = "PENDING_SUBMISSION"]
    /\ Log(r, <<<<"ORDER_CREATED", "SUCCESS">>>>)
    /\ idem' = [idem EXCEPT ![k] = [hash |-> q, order |-> r]]
    /\ Answer(r, k, q, "prepared", r)
    /\ UNCHANGED <<quote, outbox, job, broker, late, wk, faults>>

Hear(r, answer) ==
    req' = [req EXCEPT ![r].pc = "answered", ![r].answer = answer]

\* The brokerage records the order; its answer arrives in time.
SubmitAnswered(r) ==
    /\ req[r].pc = "prepared"
    /\ \E result \in Results :
          /\ broker' = [broker EXCEPT ![r] = result]
          /\ Hear(r, result)
    /\ UNCHANGED <<platform, late, wk, faults>>

\* The call fails without reaching the brokerage's books (circuit open,
\* HTTP error, malformed response), or times out while the POST travels on.
SubmitFails(r) ==
    /\ req[r].pc = "prepared"
    /\ late' \in {late, late \cup {r}}
    /\ Hear(r, Transport)
    /\ UNCHANGED <<platform, broker, wk, faults>>

\* The brokerage handles a POST whose caller has stopped waiting.
LateSubmit(o) ==
    /\ o \in late
    /\ late' = late \ {o}
    /\ \E result \in Results : broker' = [broker EXCEPT ![o] = result]
    /\ UNCHANGED <<platform, req, wk, faults>>

\* Transaction B with a final answer.
SubmissionApplies(r) ==
    /\ req[r].pc = "answered"
    /\ req[r].answer.status \in {"FILLED", "REJECTED"}
    /\ ~ApplyThrows(r, req[r].answer)
    /\ IF Final(r) THEN UNCHANGED <<funds, outcomes>>
       ELSE ApplyOutcome(r, req[r].answer, <<>>)
    /\ req' = [req EXCEPT ![r].pc = "done"]
    /\ UNCHANGED <<quote, idem, job, broker, late, wk, faults>>

\* Transaction B with no final answer.
SubmissionUnknown(r) ==
    /\ req[r].pc = "answered"
    /\ req[r].answer.status \in {"UNKNOWN", "ERROR"}
    /\ MarkUnknown(r)
    /\ req' = [req EXCEPT ![r].pc = "done"]
    /\ UNCHANGED <<quote, idem, broker, late, wk, faults>>

\* applyExternalResult throws an error that is no BrokerageTransportError:
\* it is rethrown, the order stays as it is.
SubmissionThrows(r) ==
    /\ req[r].pc = "answered"
    /\ req[r].answer.status \in {"FILLED", "REJECTED"}
    /\ ApplyThrows(r, req[r].answer)
    /\ req' = [req EXCEPT ![r].pc = "failed"]
    /\ UNCHANGED <<platform, broker, late, wk, faults>>

\* The process dies, or a transaction of the request is aborted.
RequestStops(r) ==
    /\ faults < MaxFaults
    /\ faults' = faults + 1
    /\ req[r].pc \in {"prepared", "answered"}
    /\ req' = [req EXCEPT ![r].pc = "failed"]
    /\ UNCHANGED <<platform, broker, late, wk>>

-----------------------------------------------------------------------------
(* Reconciliation workers *)

Working(o) == {w \in Workers : wk[w].order = o}

\* A job whose locked_at is too old.
\* Mutant: not on its last attempt.
StaleWithAttemptsLeft(o) ==
    job[o].status = "PROCESSING" /\ Working(o) = {} /\ job[o].attempt < MaxAttempts
Stale(o) == job[o].status = "PROCESSING" /\ (LeasesHold => Working(o) = {})

\* First statement of claimReconciliation: stale jobs go back to the queue.
\* Nothing looks at locked_by.  That a worker is still at one is a fault.
LeasesExpire(w, expired) ==
    /\ wk[w].pc = "idle"
    /\ \A o \in expired : Stale(o)
    /\ IF \A o \in expired : Working(o) = {} THEN UNCHANGED faults
                                           ELSE faults < MaxFaults /\ faults' = faults + 1
    /\ job' = [o \in Requests |-> IF o \in expired
                                  THEN [job[o] EXCEPT !.status = "QUEUED"]
                                  ELSE job[o]]
    /\ UNCHANGED <<quote, idem, funds, outcomes, broker, late, req, wk>>

\* Of the attempt counter only its order to MaxAttempts is ever read.
Counted(n) == IF n < MaxAttempts THEN n + 1 ELSE n

\* Second statement: one queued job that is due.
Claim(w, o) ==
    /\ wk[w].pc = "idle"
    /\ job[o].status = "QUEUED"
    /\ job' = [job EXCEPT ![o] = [status |-> "PROCESSING", attempt |-> Counted(@.attempt)]]
    /\ wk' = [wk EXCEPT ![w] = [pc |-> "claimed", order |-> o,
                                attempt |-> Counted(job[o].attempt), answer |-> NoResult]]
    /\ UNCHANGED <<quote, idem, funds, outcomes, broker, late, req, faults>>

Told(w, answer) == wk' = [wk EXCEPT ![w].pc = "answered", ![w].answer = answer]

\* brokerage.find: an order the brokerage left UNKNOWN may get filled by the
\* question.  A 404, a timeout or an open circuit is a transport error.
Find(w) ==
    LET o == wk[w].order
        filled == [broker[o] EXCEPT !.status = "FILLED"]
    IN
    /\ wk[w].pc = "claimed"
    /\ \/ UNCHANGED broker
       \/ broker[o].status = "UNKNOWN" /\ broker' = [broker EXCEPT ![o] = filled]
    /\ \/ broker[o] # NoResult /\ Told(w, broker'[o])
       \/ Told(w, Transport)
    /\ UNCHANGED <<platform, late, req, faults>>

Retire(w) == wk' = [wk EXCEPT ![w] = IdleWorker]

\* The job after a final answer has been applied.
Completed(s) == IF s = "PROCESSING" THEN "COMPLETED" ELSE s

\* applyExternalResult from reconcileOne; it also completes the job, if that
\* is still being processed by anyone.
ReconcileApplies(w) ==
    LET o == wk[w].order
        answer == wk[w].answer
    IN
    /\ wk[w].pc = "answered"
    /\ answer.status \in {"FILLED", "REJECTED"}
    /\ ~ApplyThrows(o, answer)
    /\ IF Final(o) THEN UNCHANGED <<funds, outcomes>>
       ELSE ApplyOutcome(o, answer,
                <<<<"ORDER_RECONCILED", IF answer.status = "FILLED" THEN "SUCCESS"
                                                                  ELSE "FAILURE">>>>)
    /\ job' = [job EXCEPT ![o].status = Completed(@)]
    /\ Retire(w)
    /\ UNCHANGED <<quote, idem, broker, late, req, faults>>

\* reconcileOne catches what applyExternalResult throws and reschedules.
ReconcileThrows(w) ==
    /\ wk[w].pc = "answered"
    /\ wk[w].answer.status \in {"FILLED", "REJECTED"}
    /\ ApplyThrows(wk[w].order, wk[w].answer)
    /\ Told(w, Transport)
    /\ UNCHANGED <<platform, broker, late, req, faults>>

\* The transaction of applyExternalResult is aborted (a deadlock victim, a
\* lost connection): caught and rescheduled as well.
ReconcileAborts(w) ==
    /\ faults < MaxFaults
    /\ faults' = faults + 1
    /\ wk[w].pc = "answered"
    /\ wk[w].answer.status \in {"FILLED", "REJECTED"}
    /\ Told(w, Transport)
    /\ UNCHANGED <<platform, broker, late, req>>

MustReschedule(w) ==
    /\ wk[w].pc = "answered"
    /\ wk[w].answer.status \in {"UNKNOWN", "ERROR"}

\* rescheduleReconciliation with attempts left: whoever owns the job now.
Requeue(w) ==
    /\ MustReschedule(w)
    /\ wk[w].attempt < MaxAttempts
    /\ job' = [job EXCEPT ![wk[w].order].status =
                   IF @ = "PROCESSING" THEN "QUEUED" ELSE @]
    /\ Retire(w)
    /\ UNCHANGED <<quote, idem, funds, outcomes, broker, late, req, faults>>

\* The order after the last attempt.
\* Mutant: it stays UNKNOWN.
StillUnknown(s) == s
GivenUp(s) == IF s = "UNKNOWN" THEN "FAILED" ELSE s

\* rescheduleReconciliation after the last attempt.  The reservation is given
\* back whatever the order's and the reservation's status are.
GiveUp(w) ==
    LET o == wk[w].order IN
    /\ MustReschedule(w)
    /\ wk[w].attempt >= MaxAttempts
    /\ \/ /\ job[o].status = "PROCESSING"
          /\ ReservedSuffices(o)
          /\ ReleaseFunds(o)
          /\ status' = [status EXCEPT ![o] = GivenUp(@)]
          /\ job' = [job EXCEPT ![o].status = "FAILED"]
          /\ Log(o, <<<<"ORDER_RECONCILED", "FAILURE">>>>)
          /\ Publish(o, "FAILED")
       \/ /\ job[o].status # "PROCESSING" \/ ~ReservedSuffices(o)
          /\ UNCHANGED <<funds, outcomes, job>>
    /\ Retire(w)
    /\ UNCHANGED <<quote, idem, broker, late, req, faults>>

\* The process dies, or the transaction of rescheduleReconciliation fails and
\* its error leaves the tick.  The job stays PROCESSING.
WorkerStops(w) ==
    /\ faults < MaxFaults
    /\ faults' = faults + 1
    /\ wk[w].pc # "idle"
    /\ Retire(w)
    /\ UNCHANGED <<platform, broker, late, req>>

-----------------------------------------------------------------------------
Customer ==
    \/ \E q \in Quotes : QuoteExpires(q) \/ \E a \in Amounts : Preview(q, a)
    \/ \E r \in Requests, k \in Keys, q \in Quotes :
          Replay(r, k, q) \/ Refuse(r, k, q) \/ Prepare(r, k, q)

Submission ==
    \E r \in Requests :
        \/ SubmitAnswered(r) \/ SubmitFails(r) \/ LateSubmit(r)
        \/ SubmissionApplies(r) \/ SubmissionUnknown(r) \/ SubmissionThrows(r)

Reconciliation ==
    \E w \in Workers :
        \/ \E expired \in SUBSET Requests \ {{}} : LeasesExpire(w, expired)
        \/ \E o \in Requests : Claim(w, o)
        \/ Find(w) \/ ReconcileApplies(w) \/ ReconcileThrows(w)
        \/ Requeue(w) \/ GiveUp(w)

Faults ==
    \/ \E r \in Requests : RequestStops(r)
    \/ \E w \in Workers : ReconcileAborts(w) \/ WorkerStops(w)

Next == Customer \/ Submission \/ Reconciliation \/ Faults

Spec == Init /\ [][Next]_vars

Submitting(r) ==
    \/ SubmitAnswered(r) \/ SubmitFails(r)
    \/ SubmissionApplies(r) \/ SubmissionUnknown(r) \/ SubmissionThrows(r)
Reconciling(w) ==
    Find(w) \/ ReconcileApplies(w) \/ ReconcileThrows(w) \/ Requeue(w) \/ GiveUp(w)

\* Schedulers tick and HTTP calls end by their timeout; customers may leave,
\* and nothing makes a fault happen.
Fairness ==
    /\ \A r \in Requests : WF_vars(Submitting(r))
    /\ \A o \in Requests : /\ SF_vars(\E w \in Workers : LeasesExpire(w, {o}))
                           /\ SF_vars(\E w \in Workers : Claim(w, o))
    /\ \A w \in Workers : WF_vars(Reconciling(w))

FairSpec == Spec /\ Fairness

-----------------------------------------------------------------------------
(* Properties *)

Created == {o \in Requests : status[o] # "NONE"}
Held    == {o \in Requests : reservation[o] = "ACTIVE"}
Filled  == {o \in Requests : execution[o] # 0}

CashTypes ==
    /\ available \in Nat /\ reserved \in Nat /\ position \in Nat
    /\ amount \in [Requests -> Amounts \cup {0}]
    /\ execution \in [Requests -> Amounts \cup {0}]

JobStates == [status : {"NONE", "COMPLETED", "FAILED"} \cup ActiveJob, attempt : Nat]

RowTypes ==
    /\ quote \in [Quotes -> [amount : Amounts \cup {0}, age : {"fresh", "expired"}]]
    /\ idem \in [Keys -> [hash : Quotes \cup {"NONE"}, order : Requests \cup {NoOrder}]]
    /\ status \in [Requests -> {"NONE"} \cup Open \cup Terminal]
    /\ reservation \in [Requests -> {"NONE", "ACTIVE", "SETTLED", "RELEASED"}]
    /\ ledger \in [Requests -> SUBSET {"RESERVE", "SETTLE", "RELEASE"}]
    /\ outbox \in [Requests -> {"NONE"} \cup Terminal]
    /\ job \in [Requests -> JobStates]

RequestStates ==
    [pc : {"new", "replayed", "conflict", "refused", "prepared", "answered", "done", "failed"},
     key : Keys \cup {"NONE"}, quote : Quotes \cup {"NONE"},
     order : Requests \cup {NoOrder}, answer : Answers]

WorkerStates ==
    [pc : {"idle", "claimed", "answered"}, order : Requests \cup {NoOrder},
     attempt : Nat, answer : Answers]

ProcessTypes ==
    /\ broker \in [Requests -> Results \cup {NoResult}]
    /\ late \subseteq Requests
    /\ req \in [Requests -> RequestStates]
    /\ wk \in [Workers -> WorkerStates]
    /\ faults \in Nat

TypeOK == CashTypes /\ RowTypes /\ ProcessTypes

\* However often a key is sent, by however many concurrent calls, it creates
\* one order, and a call that is answered with a replay gets the order that
\* was created by that key from the same body (prepareOrder's advisory lock
\* and idempotency record).
Idempotent ==
    /\ \A r, s \in Created : req[r].key = req[s].key => r = s
    /\ \A r \in Requests : req[r].pc = "replayed" =>
          /\ req[r].order \in Created
          /\ req[req[r].order].key = req[r].key
          /\ req[req[r].order].quote = req[r].quote

\* The sum of f over the orders, counted by units: one pair for each unit.
Units(f, orders) == UNION {{o} \X (1..f[o]) : o \in orders}

\* The reserved balance is the sum of the reservations that are still active:
\* no settlement, release or give-up frees what another order holds.
ReservedIsHeld == reserved = Cardinality(Units(amount, Held))

\* Cash leaves the account only as a fill: what was reserved and not filled
\* comes back exactly once.
CashConserved == available + reserved + Cardinality(Units(execution, Filled)) = InitialCash

\* Whatever fails, is lost or comes twice, both balances agree with the rows
\* of the orders: the reserved one with what the open orders hold, and the two
\* with what was there and what has been spent.
BalancesAgree == ReservedIsHeld /\ CashConserved

\* Execution, position, SETTLE entry, settled reservation, order status and the
\* audit trail tell of the same fills, and of each of them once.
FillsAgree ==
    /\ position = Cardinality(Filled)
    /\ \A o \in Requests :
          /\ status[o] = "FILLED" <=> o \in Filled
          /\ status[o] = "FILLED" <=> "SETTLE" \in ledger[o]
          /\ status[o] = "FILLED" <=> reservation[o] = "SETTLED"
          /\ Cardinality({i \in DOMAIN audit[o] : audit[o][i][1] = "ORDER_FILLED"})
                = IF status[o] = "FILLED" THEN 1 ELSE 0

\* The money of an order is given back in the ledger exactly when the order
\* ended without a fill, and then its audit trail ends with that failure.
ReleasesAgree ==
    \A o \in Requests :
        /\ status[o] \in {"REJECTED", "FAILED"} <=> "RELEASE" \in ledger[o]
        /\ status[o] \in {"REJECTED", "FAILED"} <=> reservation[o] = "RELEASED"
        /\ status[o] = "FILLED" =>
              \A i \in DOMAIN audit[o] : audit[o][i][2] # "FAILURE"

\* The rows of an order tell one story, of a fill or of a release, through lost
\* answers, crashes and reconciliation.
RowsAgree == FillsAgree /\ ReleasesAgree

\* Every final order has one ORDER_SETTLED event, with the order's outcome, and
\* no other order has one: the event commits with the settlement.
EventTellsOutcome ==
    \A o \in Requests : outbox[o] = IF status[o] \in Terminal THEN status[o] ELSE "NONE"

\* Whatever workers outlive, a fill is booked once and told once, and so is
\* the end of an order without one.
SettledOnce == FillsAgree /\ EventTellsOutcome

\* An order of unknown outcome always has a queued or running job: nothing
\* but a job ever looks at it again.
UnknownIsWatched == \A o \in Requests : status[o] = "UNKNOWN" => job[o].status \in ActiveJob

\* A job that can still be claimed belongs to an order that is still open, and
\* only one worker is on it.
JobsAreLive ==
    \A o \in Requests :
        /\ job[o].status \in ActiveJob => status[o] = "UNKNOWN"
        /\ Cardinality(Working(o)) <= 1

\* FILLED and REJECTED are what the brokerage has recorded, at the amount it
\* has recorded, whatever was lost or late in between.
OutcomeIsBrokers ==
    \A o \in Requests :
        /\ status[o] \in {"FILLED", "REJECTED"} => broker[o].status = status[o]
        /\ o \in Filled => execution[o] = broker[o].filled

\* A final order is final: no late answer, stale worker or second settlement
\* changes its status, its fill or its event.
FinalIsFinal ==
    [][\A o \in Requests : status[o] \in Terminal =>
          UNCHANGED <<status[o], execution[o], reservation[o], outbox[o]>>]_vars

\* The orders of an account, seen through their status, hold, spend and give
\* back its cash exactly as CashHolds promises: each at most once, one order
\* per step, and never more than its own amount.
Phase == [o \in Requests |->
            CASE status[o] = "NONE" -> "none"
              [] status[o] \in Open -> "held"
              [] status[o] = "FILLED" -> "spent"
              [] OTHER -> "returned"]

Promise == INSTANCE CashHolds WITH Orders <- Requests, phase <- Phase,
                                   held <- amount, spent <- execution

CashPromiseKept == Promise!Spec

\* Reconciliation ends: an order of unknown outcome becomes final, through
\* crashed workers, lost answers and a brokerage that stays silent.
UnknownEnds == \A o \in Requests : status[o] = "UNKNOWN" ~> status[o] \in Terminal
=============================================================================
