----------------------- MODULE OrderSettlementProofs -----------------------
(***************************************************************************)
(* Theorems about OrderSettlement, for any number of requests, keys,       *)
(* quotes, workers and attempts.                                           *)
(*                                                                         *)
(* IInv is the inductive invariant: where a process stands tells what its  *)
(* order's row says (RequestsInv, WorkersInv), the idempotency table and   *)
(* the orders name each other (KeysInv), and the row of an order decides   *)
(* its reservation, fill, event and job (OrdersInv).  LeasesInv adds what  *)
(* holds as long as no worker outlives its lease.                          *)
(***************************************************************************)
EXTENDS OrderSettlement, FiniteSetTheorems, SequenceTheorems, TLAPS

\* Where a request stands and what its order's row says.
RequestsInv ==
    \A r \in Requests :
        /\ req[r].pc = "new" => status[r] = "NONE"
        /\ req[r].pc \in {"prepared", "answered"} => status[r] = "PENDING_SUBMISSION"
        /\ req[r].pc = "answered" => req[r].answer.status # "NONE"
        /\ req[r].pc # "new" => req[r].key \in Keys /\ req[r].quote \in Quotes

\* The record of a key and the order it created name each other.
KeysInv ==
    /\ \A o \in Requests : status[o] # "NONE" =>
          idem[req[o].key] = [hash |-> req[o].quote, order |-> o]
    /\ \A k \in Keys : idem[k] = NoRecord \/
          /\ idem[k].order \in Requests
          /\ status[idem[k].order] # "NONE"
          /\ req[idem[k].order].key = k
          /\ req[idem[k].order].quote = idem[k].hash
    /\ \A r \in Requests : req[r].pc = "replayed" =>
          /\ req[r].order \in Requests
          /\ idem[req[r].key] = [hash |-> req[r].quote, order |-> req[r].order]

\* The reservation an order of status s has.
ReservationOf(s) == CASE s = "NONE" -> "NONE"
                      [] s \in Open -> "ACTIVE"
                      [] s = "FILLED" -> "SETTLED"
                      [] OTHER -> "RELEASED"

OrderInv(o) ==
    /\ reservation[o] = ReservationOf(status[o])
    /\ status[o] = "FILLED" <=> execution[o] # 0
    /\ outbox[o] = IF status[o] \in Terminal THEN status[o] ELSE "NONE"
    /\ status[o] = "NONE" => amount[o] = 0
    /\ status[o] \in {"NONE", "PENDING_SUBMISSION"} => job[o].status = "NONE"
    /\ status[o] = "UNKNOWN" => job[o].status \in ActiveJob

OrdersInv == \A o \in Requests : OrderInv(o)

WorkersInv ==
    \A w \in Workers :
        IF wk[w].pc = "idle" THEN wk[w].order = NoOrder
        ELSE /\ wk[w].order \in Requests
             /\ job[wk[w].order].status # "NONE"

\* A worker has a job to itself, and the order behind it is still open.
LeasesInv ==
    /\ \A o \in Requests : job[o].status \in ActiveJob => status[o] = "UNKNOWN"
    /\ \A w \in Workers : wk[w].pc # "idle" => job[wk[w].order].status = "PROCESSING"
    /\ \A v, w \in Workers : wk[v].pc # "idle" /\ wk[v].order = wk[w].order => v = w

IInv == /\ TypeOK
        /\ RequestsInv
        /\ KeysInv
        /\ OrdersInv
        /\ WorkersInv
        /\ LeasesHold => LeasesInv

USE AmountsAssumption, CountsAssumption, LeaseAssumption, NoOrderAssumption

LEMMA AmountsAreNat == \A a \in Amounts \cup {0} : a \in Nat
  OBVIOUS

LEMMA InitInv == Init => IInv
  <1> SUFFICES ASSUME Init PROVE IInv
    OBVIOUS
  <1> USE DEF Init
  <1>1. CashTypes
    BY DEF CashTypes
  <1>2. RowTypes
    BY DEF RowTypes, NoRecord, Open, Terminal, JobStates
  <1>3. ProcessTypes
    BY DEF ProcessTypes, RequestStates, WorkerStates, NewRequest, IdleWorker, NoResult, Answers
  <1>4. RequestsInv /\ KeysInv
    BY DEF RequestsInv, KeysInv, NewRequest, NoRecord
  <1>5. OrdersInv
    BY DEF OrdersInv, OrderInv, ReservationOf, Open, Terminal
  <1>6. WorkersInv
    BY DEF WorkersInv, IdleWorker
  <1>7. LeasesInv
    BY DEF LeasesInv, IdleWorker, ActiveJob
  <1>8. QED
    BY <1>1, <1>2, <1>3, <1>4, <1>5, <1>6, <1>7 DEF IInv, TypeOK

-----------------------------------------------------------------------------
(* What the pieces of an action keep typed *)

\* Request r goes on with the order it has.
SameOrder(r) == /\ req'[r].key = req[r].key
                /\ req'[r].quote = req[r].quote
                /\ req'[r].order = req[r].order

LEMMA RequestMoves ==
    ASSUME ProcessTypes, NEW r \in Requests, NEW p \in {"done", "failed"},
           req' = [req EXCEPT ![r].pc = p]
    PROVE  /\ req' \in [Requests -> RequestStates]
           /\ req'[r].pc = p
           /\ SameOrder(r)
           /\ \A s \in Requests \ {r} : req'[s] = req[s]
  BY DEF ProcessTypes, RequestStates, SameOrder

LEMMA HearTypes ==
    ASSUME ProcessTypes, NEW r \in Requests, NEW a \in Answers, Hear(r, a)
    PROVE  /\ req' \in [Requests -> RequestStates]
           /\ req'[r].pc = "answered" /\ req'[r].answer = a
           /\ SameOrder(r)
           /\ \A s \in Requests \ {r} : req'[s] = req[s]
  <1>1. req'[r] \in RequestStates
    BY DEF ProcessTypes, RequestStates, Hear
  <1>2. QED
    BY <1>1 DEF ProcessTypes, RequestStates, Hear, SameOrder

LEMMA ToldTypes ==
    ASSUME ProcessTypes, NEW w \in Workers, NEW a \in Answers, Told(w, a)
    PROVE  /\ wk' \in [Workers -> WorkerStates]
           /\ wk'[w].pc = "answered" /\ wk'[w].order = wk[w].order
           /\ \A v \in Workers \ {w} : wk'[v] = wk[v]
  <1>1. wk'[w] \in WorkerStates
    BY DEF ProcessTypes, WorkerStates, Told
  <1>2. QED
    BY <1>1 DEF ProcessTypes, WorkerStates, Told

LEMMA RetireTypes ==
    ASSUME ProcessTypes, NEW w \in Workers, Retire(w)
    PROVE  /\ wk' \in [Workers -> WorkerStates]
           /\ wk'[w].pc = "idle" /\ wk'[w].order = NoOrder
           /\ \A v \in Workers \ {w} : wk'[v] = wk[v]
  BY DEF ProcessTypes, WorkerStates, Retire, IdleWorker, NoResult, Answers

LEMMA AmountIsNat ==
    ASSUME CashTypes, NEW o \in Requests
    PROVE  amount[o] \in Nat
  <1>1. amount[o] \in Amounts \cup {0}
    BY DEF CashTypes
  <1>2. QED
    BY <1>1, AmountsAreNat

LEMMA ReleaseTypes ==
    ASSUME CashTypes, RowTypes, NEW o \in Requests, ReservedSuffices(o), ReleaseFunds(o)
    PROVE  /\ CashTypes'
           /\ reservation' \in [Requests -> {"NONE", "ACTIVE", "SETTLED", "RELEASED"}]
           /\ ledger' \in [Requests -> SUBSET {"RESERVE", "SETTLE", "RELEASE"}]
  <1>1. amount[o] \in Nat /\ reserved - amount[o] \in Nat
    BY AmountsAreNat, AmountIsNat DEF CashTypes, ReservedSuffices
  <1>2. CashTypes'
    BY <1>1 DEF CashTypes, ReleaseFunds
  <1>3. QED
    BY <1>2 DEF RowTypes, ReleaseFunds, CloseReservation

LEMMA SettleTypes ==
    ASSUME CashTypes, RowTypes, NEW o \in Requests, NEW a \in Amounts, a <= amount[o],
           ReservedSuffices(o), SettleFunds(o, a)
    PROVE  /\ CashTypes'
           /\ reservation' \in [Requests -> {"NONE", "ACTIVE", "SETTLED", "RELEASED"}]
           /\ ledger' \in [Requests -> SUBSET {"RESERVE", "SETTLE", "RELEASE"}]
  <1>1. amount[o] \in Nat /\ reserved - amount[o] \in Nat /\ a \in Nat
    BY AmountsAreNat, AmountIsNat DEF CashTypes, ReservedSuffices
  <1>2. available' \in Nat /\ reserved' \in Nat /\ position' \in Nat
    BY <1>1 DEF CashTypes, SettleFunds, Refund
  <1>3. /\ amount' \in [Requests -> Amounts \cup {0}]
        /\ execution' \in [Requests -> Amounts \cup {0}]
    BY DEF CashTypes, SettleFunds
  <1>4. QED
    BY <1>2, <1>3 DEF CashTypes, RowTypes, SettleFunds, CloseReservation

LEMMA PublishTypes ==
    ASSUME RowTypes, NEW o \in Requests, NEW outcome \in Terminal, Publish(o, outcome)
    PROVE  outbox' \in [Requests -> {"NONE"} \cup Terminal]
  BY DEF RowTypes, Publish

LEMMA ApplyTypes ==
    ASSUME CashTypes, RowTypes, NEW o \in Requests, NEW result \in Answers, NEW tail,
           result.status \in {"FILLED", "REJECTED"}, ApplyOutcome(o, result, tail)
    PROVE  /\ CashTypes'
           /\ reservation' \in [Requests -> {"NONE", "ACTIVE", "SETTLED", "RELEASED"}]
           /\ ledger' \in [Requests -> SUBSET {"RESERVE", "SETTLE", "RELEASE"}]
           /\ status' \in [Requests -> {"NONE"} \cup Open \cup Terminal]
           /\ outbox' \in [Requests -> {"NONE"} \cup Terminal]
  <1>1. result.filled \in Amounts
    BY DEF Answers, Results, NoResult, Transport
  <1>2. /\ CashTypes'
        /\ reservation' \in [Requests -> {"NONE", "ACTIVE", "SETTLED", "RELEASED"}]
        /\ ledger' \in [Requests -> SUBSET {"RESERVE", "SETTLE", "RELEASE"}]
    BY <1>1, SettleTypes, ReleaseTypes DEF ApplyOutcome, FillFits
  <1>3. status' \in [Requests -> {"NONE"} \cup Open \cup Terminal]
    BY DEF ApplyOutcome, RowTypes, Terminal
  <1>4. outbox' \in [Requests -> {"NONE"} \cup Terminal]
    BY PublishTypes DEF ApplyOutcome, Terminal
  <1>5. QED
    BY <1>2, <1>3, <1>4

\* A final answer leaves the rows of its order in agreement.
LEMMA ApplyAgrees ==
    ASSUME CashTypes, RowTypes, OrdersInv, NEW o \in Requests, NEW result \in Answers, NEW tail,
           result.status \in {"FILLED", "REJECTED"}, status[o] \in Open,
           ApplyOutcome(o, result, tail)
    PROVE  /\ reservation'[o] = ReservationOf(status'[o])
           /\ status'[o] = "FILLED" <=> execution'[o] # 0
           /\ outbox'[o] = IF status'[o] \in Terminal THEN status'[o] ELSE "NONE"
           /\ status'[o] = result.status
           /\ \A p \in Requests \ {o} :
                 /\ status'[p] = status[p] /\ execution'[p] = execution[p]
                 /\ reservation'[p] = reservation[p] /\ outbox'[p] = outbox[p]
           /\ amount' = amount
  <1>1. result.filled \in Amounts /\ result.filled # 0
    BY DEF Answers, Results, NoResult, Transport
  <1>2. /\ reservation[o] = "ACTIVE"
        /\ execution[o] = 0
        /\ outbox[o] = "NONE"
    BY DEF OrdersInv, OrderInv, ReservationOf, Open, Terminal
  <1>3. CASE result.status = "FILLED"
    BY <1>1, <1>2, <1>3 DEF CashTypes, RowTypes, ApplyOutcome, SettleFunds, CloseReservation,
                            Publish, ReservationOf, Open, Terminal
  <1>4. CASE result.status = "REJECTED"
    BY <1>1, <1>2, <1>4 DEF CashTypes, RowTypes, ApplyOutcome, ReleaseFunds, CloseReservation,
                            Publish, ReservationOf, Open, Terminal
  <1>5. QED
    BY <1>3, <1>4

-----------------------------------------------------------------------------
(* What an action leaves alone *)

LEMMA PlatformFrame ==
    ASSUME CashTypes, RowTypes, OrdersInv, UNCHANGED platform
    PROVE  CashTypes' /\ RowTypes' /\ OrdersInv'
  BY DEF CashTypes, RowTypes, OrdersInv, OrderInv, platform, funds, outcomes

LEMMA RequestsFrame ==
    ASSUME RequestsInv, KeysInv, UNCHANGED <<status, idem, req>>
    PROVE  RequestsInv' /\ KeysInv'
  BY DEF RequestsInv, KeysInv

LEMMA KeysFrame ==
    ASSUME KeysInv, NEW r \in Requests, UNCHANGED idem, SameOrder(r),
           req'[r].pc = "replayed" => req[r].pc = "replayed",
           \A s \in Requests \ {r} : req'[s] = req[s],
           \A o \in Requests : status'[o] = "NONE" <=> status[o] = "NONE"
    PROVE  KeysInv'
  BY DEF KeysInv, SameOrder

LEMMA LeasesFrame ==
    ASSUME LeasesHold => LeasesInv, UNCHANGED <<status, job, wk>>
    PROVE  (LeasesHold => LeasesInv)'
  BY DEF LeasesInv

LEMMA WorkersFrame ==
    ASSUME WorkersInv, UNCHANGED <<job, wk>>
    PROVE  WorkersInv'
  BY DEF WorkersInv

-----------------------------------------------------------------------------
(* The customer *)

LEMMA PreviewInv ==
    ASSUME IInv, NEW q \in Quotes, NEW a \in Amounts, Preview(q, a)
    PROVE  IInv'
  <1> USE DEF IInv, TypeOK, Preview
  <1>1. CashTypes' /\ OrdersInv'
    BY DEF CashTypes, OrdersInv, OrderInv, funds, outcomes
  <1>2. quote' \in [Quotes -> [amount : Amounts \cup {0}, age : {"fresh", "expired"}]]
    <2>1. quote'[q] \in [amount : Amounts \cup {0}, age : {"fresh", "expired"}]
      BY DEF RowTypes
    <2>2. QED
      BY <2>1 DEF RowTypes
  <1>3. RowTypes'
    BY <1>2 DEF RowTypes, funds, outcomes
  <1>4. ProcessTypes'
    BY DEF ProcessTypes
  <1>5. RequestsInv' /\ KeysInv' /\ WorkersInv' /\ (LeasesHold => LeasesInv)'
    BY RequestsFrame, WorkersFrame, LeasesFrame DEF outcomes
  <1>6. QED
    BY <1>1, <1>3, <1>4, <1>5

LEMMA QuoteExpiresInv ==
    ASSUME IInv, NEW q \in Quotes, QuoteExpires(q)
    PROVE  IInv'
  <1> USE DEF IInv, TypeOK, QuoteExpires
  <1>1. CashTypes' /\ OrdersInv'
    BY DEF CashTypes, OrdersInv, OrderInv, funds, outcomes
  <1>2. quote' \in [Quotes -> [amount : Amounts \cup {0}, age : {"fresh", "expired"}]]
    <2>1. quote'[q] \in [amount : Amounts \cup {0}, age : {"fresh", "expired"}]
      BY DEF RowTypes
    <2>2. QED
      BY <2>1 DEF RowTypes
  <1>3. RowTypes'
    BY <1>2 DEF RowTypes, funds, outcomes
  <1>4. ProcessTypes'
    BY DEF ProcessTypes
  <1>5. RequestsInv' /\ KeysInv' /\ WorkersInv' /\ (LeasesHold => LeasesInv)'
    BY RequestsFrame, WorkersFrame, LeasesFrame DEF outcomes
  <1>6. QED
    BY <1>1, <1>3, <1>4, <1>5

LEMMA AnswerTypes ==
    ASSUME ProcessTypes, NEW r \in Requests, NEW k \in Keys, NEW q \in Quotes,
           NEW pc \in {"replayed", "conflict", "refused", "prepared"},
           NEW o \in Requests \cup {NoOrder}, Answer(r, k, q, pc, o)
    PROVE  /\ req' \in [Requests -> RequestStates]
           /\ req'[r].pc = pc /\ req'[r].key = k /\ req'[r].quote = q /\ req'[r].order = o
           /\ \A s \in Requests \ {r} : req'[s] = req[s]
  BY DEF ProcessTypes, RequestStates, Answer, Answers

LEMMA ReplayInv ==
    ASSUME IInv, NEW r \in Requests, NEW k \in Keys, NEW q \in Quotes, Replay(r, k, q)
    PROVE  IInv'
  <1> USE DEF IInv, TypeOK, Replay
  <1>1. status[r] = "NONE"
    BY DEF RequestsInv
  <1>2. idem[k].order \in Requests
    BY DEF KeysInv, Unrecorded
  <1>3. CashTypes' /\ RowTypes' /\ OrdersInv'
    BY PlatformFrame
  <1>4. CASE idem[k].hash = q
    <2>1. Answer(r, k, q, "replayed", idem[k].order)
      BY <1>4
    <2>2. /\ req' \in [Requests -> RequestStates]
          /\ req'[r].pc = "replayed" /\ req'[r].key = k
          /\ req'[r].quote = q /\ req'[r].order = idem[k].order
          /\ \A s \in Requests \ {r} : req'[s] = req[s]
      BY <1>2, <2>1, AnswerTypes
    <2>3. ProcessTypes'
      BY <2>2 DEF ProcessTypes
    <2>4. RequestsInv'
      BY <2>2 DEF RequestsInv, platform, outcomes
    <2>5. \A o \in Requests : status[o] # "NONE" => req'[o] = req[o]
      BY <1>1, <2>2
    <2>6. idem[k] = [hash |-> q, order |-> idem[k].order]
      BY <1>4 DEF RowTypes
    <2>7. UNCHANGED <<idem, status>>
      BY DEF platform, outcomes
    <2>8. \A s \in Requests : req'[s].pc = "replayed" =>
             /\ req'[s].order \in Requests
             /\ idem'[req'[s].key] = [hash |-> req'[s].quote, order |-> req'[s].order]
      BY <1>2, <2>2, <2>6, <2>7 DEF KeysInv
    <2>9. KeysInv'
      BY <2>5, <2>7, <2>8 DEF KeysInv
    <2>10. QED
      BY <1>3, <2>3, <2>4, <2>9, WorkersFrame, LeasesFrame DEF platform, outcomes
  <1>5. CASE idem[k].hash # q
    <2>1. Answer(r, k, q, "conflict", NoOrder)
      BY <1>5
    <2>2. /\ req' \in [Requests -> RequestStates]
          /\ req'[r].pc = "conflict" /\ req'[r].key = k /\ req'[r].quote = q
          /\ \A s \in Requests \ {r} : req'[s] = req[s]
      BY <2>1, AnswerTypes
    <2>3. ProcessTypes'
      BY <2>2 DEF ProcessTypes
    <2>4. RequestsInv'
      BY <2>2 DEF RequestsInv, platform, outcomes
    <2>5. KeysInv'
      BY <1>1, <2>2 DEF KeysInv, platform, outcomes
    <2>6. QED
      BY <1>3, <2>3, <2>4, <2>5, WorkersFrame, LeasesFrame DEF platform, outcomes
  <1>6. QED
    BY <1>4, <1>5

LEMMA RefuseInv ==
    ASSUME IInv, NEW r \in Requests, NEW k \in Keys, NEW q \in Quotes, Refuse(r, k, q)
    PROVE  IInv'
  <1> USE DEF IInv, TypeOK, Refuse
  <1>1. status[r] = "NONE"
    BY DEF RequestsInv
  <1>2. /\ req' \in [Requests -> RequestStates]
        /\ req'[r].pc = "refused" /\ req'[r].key = k /\ req'[r].quote = q
        /\ \A s \in Requests \ {r} : req'[s] = req[s]
    BY AnswerTypes
  <1>3. CashTypes' /\ RowTypes' /\ OrdersInv'
    BY PlatformFrame
  <1>4. ProcessTypes'
    BY <1>2 DEF ProcessTypes
  <1>5. RequestsInv'
    BY <1>2 DEF RequestsInv, platform, outcomes
  <1>6. KeysInv'
    BY <1>1, <1>2 DEF KeysInv, platform, outcomes
  <1>7. QED
    BY <1>3, <1>4, <1>5, <1>6, WorkersFrame, LeasesFrame DEF platform, outcomes

LEMMA PrepareInv ==
    ASSUME IInv, NEW r \in Requests, NEW k \in Keys, NEW q \in Quotes, Prepare(r, k, q)
    PROVE  IInv'
  <1> USE DEF IInv, TypeOK, Prepare
  <1>1. status[r] = "NONE"
    BY DEF RequestsInv
  <1>2. /\ req' \in [Requests -> RequestStates]
        /\ req'[r].pc = "prepared" /\ req'[r].key = k /\ req'[r].quote = q
        /\ \A s \in Requests \ {r} : req'[s] = req[s]
    BY AnswerTypes
  <1>3. /\ quote[q].amount \in Amounts \cup {0}
        /\ quote[q].amount \in Nat
        /\ available - quote[q].amount \in Nat
    <2>1. quote[q].amount \in Amounts \cup {0}
      BY DEF RowTypes
    <2>2. quote[q].amount \in Nat
      BY <2>1, AmountsAreNat
    <2>3. QED
      BY <2>1, <2>2 DEF CashTypes, Affords
  <1>4. CashTypes'
    BY <1>3 DEF CashTypes, HoldFunds
  <1>5. RowTypes'
    BY DEF RowTypes, HoldFunds, Open
  <1>6. ProcessTypes'
    BY <1>2 DEF ProcessTypes
  <1>7. RequestsInv'
    BY <1>1, <1>2 DEF RequestsInv, RowTypes
  <1>8. KeysInv'
    <2>1. /\ idem'[k] = [hash |-> q, order |-> r]
          /\ \A j \in Keys \ {k} : idem'[j] = idem[j]
          /\ status'[r] = "PENDING_SUBMISSION"
          /\ \A o \in Requests \ {r} : status'[o] = status[o]
      BY DEF RowTypes
    <2>2. \A o \in Requests \ {r} : status[o] # "NONE" =>
             idem'[req'[o].key] = [hash |-> req'[o].quote, order |-> o]
      BY <1>2, <2>1 DEF KeysInv, RequestsInv, Unrecorded, NoRecord
    <2>3. \A j \in Keys \ {k} : idem[j] = NoRecord \/ idem[j].order # r
      BY <1>1 DEF KeysInv
    <2>4. \A s \in Requests : req'[s].pc = "replayed" =>
             /\ req'[s].order \in Requests
             /\ idem'[req'[s].key] = [hash |-> req'[s].quote, order |-> req'[s].order]
      <3>1. TAKE s \in Requests
      <3>2. HAVE req'[s].pc = "replayed"
      <3>3. s # r /\ req'[s] = req[s] /\ req[s].key \in Keys
        BY <1>2, <3>2 DEF RequestsInv
      <3>4. /\ req[s].order \in Requests
            /\ idem[req[s].key] = [hash |-> req[s].quote, order |-> req[s].order]
        <4>1. req[s].pc = "replayed"
          BY <3>2, <3>3
        <4>2. KeysInv
          OBVIOUS
        <4>3. QED
          BY ONLY <4>1, <4>2, s \in Requests DEF KeysInv
      <3>5. req[s].key # k
        BY <3>4 DEF Unrecorded, NoRecord
      <3>6. idem'[req[s].key] = idem[req[s].key]
        BY <2>1, <3>3, <3>5
      <3>7. QED
        BY <3>3, <3>4, <3>6
    <2>5. QED
      BY <1>2, <2>1, <2>2, <2>3, <2>4 DEF KeysInv
  <1>9. OrdersInv'
    BY <1>1 DEF OrdersInv, OrderInv, RowTypes, HoldFunds, ReservationOf, Open, Terminal
  <1>10. WorkersInv'
    BY WorkersFrame
  <1>11. (LeasesHold => LeasesInv)'
    BY <1>1 DEF LeasesInv, OrdersInv, OrderInv, ActiveJob, RowTypes
  <1>12. QED
    BY <1>4, <1>5, <1>6, <1>7, <1>8, <1>9, <1>10, <1>11

-----------------------------------------------------------------------------
(* A request and the brokerage *)

LEMMA ResultsAnswer == Results \subseteq Answers /\ Transport \in Answers
  BY DEF Answers

LEMMA SubmitAnsweredInv ==
    ASSUME IInv, NEW r \in Requests, SubmitAnswered(r)
    PROVE  IInv'
  <1> USE DEF IInv, TypeOK
  <1>1. PICK result \in Results : broker' = [broker EXCEPT ![r] = result] /\ Hear(r, result)
    BY DEF SubmitAnswered
  <1>2. UNCHANGED <<platform, late, wk, faults>> /\ req[r].pc = "prepared"
    BY DEF SubmitAnswered
  <1>3. /\ req' \in [Requests -> RequestStates]
        /\ req'[r].pc = "answered" /\ req'[r].answer = result /\ SameOrder(r)
        /\ \A s \in Requests \ {r} : req'[s] = req[s]
    BY <1>1, HearTypes, ResultsAnswer
  <1>4. UNCHANGED <<status, idem, job>>
    BY <1>2 DEF platform, outcomes
  <1>5. CashTypes' /\ RowTypes' /\ OrdersInv'
    BY <1>2, PlatformFrame
  <1>6. ProcessTypes'
    BY <1>1, <1>2, <1>3 DEF ProcessTypes
  <1>7. RequestsInv'
    BY <1>2, <1>3, <1>4 DEF RequestsInv, SameOrder, Results
  <1>8. KeysInv'
    BY <1>3, <1>4, KeysFrame
  <1>9. QED
    BY <1>2, <1>4, <1>5, <1>6, <1>7, <1>8, WorkersFrame, LeasesFrame

LEMMA SubmitFailsInv ==
    ASSUME IInv, NEW r \in Requests, SubmitFails(r)
    PROVE  IInv'
  <1> USE DEF IInv, TypeOK
  <1>1. /\ req' \in [Requests -> RequestStates]
        /\ req'[r].pc = "answered" /\ req'[r].answer = Transport /\ SameOrder(r)
        /\ \A s \in Requests \ {r} : req'[s] = req[s]
    BY HearTypes, ResultsAnswer DEF SubmitFails
  <1>2. UNCHANGED <<platform, broker, wk, faults>> /\ req[r].pc = "prepared"
    BY DEF SubmitFails
  <1>3. UNCHANGED <<status, idem, job>>
    BY <1>2 DEF platform, outcomes
  <1>4. CashTypes' /\ RowTypes' /\ OrdersInv'
    BY <1>2, PlatformFrame
  <1>5. ProcessTypes'
    BY <1>1, <1>2 DEF ProcessTypes, SubmitFails
  <1>6. RequestsInv'
    BY <1>1, <1>2, <1>3 DEF RequestsInv, SameOrder, Transport
  <1>7. KeysInv'
    BY <1>1, <1>3, KeysFrame
  <1>8. QED
    BY <1>2, <1>3, <1>4, <1>5, <1>6, <1>7, WorkersFrame, LeasesFrame

LEMMA LateSubmitInv ==
    ASSUME IInv, NEW o \in Requests, LateSubmit(o)
    PROVE  IInv'
  <1> USE DEF IInv, TypeOK, LateSubmit
  <1>1. CashTypes' /\ RowTypes' /\ OrdersInv'
    BY PlatformFrame
  <1>2. ProcessTypes'
    BY DEF ProcessTypes
  <1>3. UNCHANGED <<status, idem, job, req, wk>>
    BY DEF platform, outcomes
  <1>4. QED
    BY <1>1, <1>2, <1>3, RequestsFrame, WorkersFrame, LeasesFrame

\* A request that ends without touching a row.
LEMMA RequestEndsInv ==
    ASSUME IInv, NEW r \in Requests, req[r].pc \in {"prepared", "answered"},
           req' = [req EXCEPT ![r].pc = "failed"], faults' \in Nat,
           UNCHANGED <<platform, broker, late, wk>>
    PROVE  IInv'
  <1> USE DEF IInv, TypeOK
  <1>1. /\ req' \in [Requests -> RequestStates]
        /\ req'[r].pc = "failed" /\ SameOrder(r)
        /\ \A s \in Requests \ {r} : req'[s] = req[s]
    BY RequestMoves
  <1>2. UNCHANGED <<status, idem, job>>
    BY DEF platform, outcomes
  <1>3. CashTypes' /\ RowTypes' /\ OrdersInv'
    BY PlatformFrame
  <1>4. ProcessTypes'
    BY <1>1 DEF ProcessTypes
  <1>5. RequestsInv'
    BY <1>1, <1>2 DEF RequestsInv, SameOrder
  <1>6. KeysInv'
    BY <1>1, <1>2, KeysFrame
  <1>7. QED
    BY <1>2, <1>3, <1>4, <1>5, <1>6, WorkersFrame, LeasesFrame

LEMMA SubmissionThrowsInv ==
    ASSUME IInv, NEW r \in Requests, SubmissionThrows(r)
    PROVE  IInv'
  BY RequestEndsInv DEF SubmissionThrows, IInv, TypeOK, ProcessTypes

LEMMA RequestStopsInv ==
    ASSUME IInv, NEW r \in Requests, RequestStops(r)
    PROVE  IInv'
  <1>1. faults' \in Nat
    BY DEF RequestStops, IInv, TypeOK, ProcessTypes
  <1>2. QED
    BY <1>1, RequestEndsInv DEF RequestStops

LEMMA SubmissionAppliesInv ==
    ASSUME IInv, NEW r \in Requests, SubmissionApplies(r)
    PROVE  IInv'
  <1> USE DEF IInv, TypeOK
  <1>1. /\ req[r].pc = "answered"
        /\ req[r].answer.status \in {"FILLED", "REJECTED"}
        /\ UNCHANGED <<quote, idem, job, broker, late, wk, faults>>
    BY DEF SubmissionApplies
  <1>2. /\ status[r] = "PENDING_SUBMISSION"
        /\ req[r].answer \in Answers
        /\ job[r].status = "NONE"
    BY <1>1 DEF RequestsInv, ProcessTypes, RequestStates, OrdersInv, OrderInv
  <1>3. ApplyOutcome(r, req[r].answer, <<>>)
    BY <1>2 DEF SubmissionApplies, Final, Terminal
  <1>4. /\ CashTypes'
        /\ reservation' \in [Requests -> {"NONE", "ACTIVE", "SETTLED", "RELEASED"}]
        /\ ledger' \in [Requests -> SUBSET {"RESERVE", "SETTLE", "RELEASE"}]
        /\ status' \in [Requests -> {"NONE"} \cup Open \cup Terminal]
        /\ outbox' \in [Requests -> {"NONE"} \cup Terminal]
    BY <1>1, <1>2, <1>3, ApplyTypes
  <1>5. /\ reservation'[r] = ReservationOf(status'[r])
        /\ status'[r] = "FILLED" <=> execution'[r] # 0
        /\ outbox'[r] = IF status'[r] \in Terminal THEN status'[r] ELSE "NONE"
        /\ status'[r] \in {"FILLED", "REJECTED"}
        /\ \A p \in Requests \ {r} :
              /\ status'[p] = status[p] /\ execution'[p] = execution[p]
              /\ reservation'[p] = reservation[p] /\ outbox'[p] = outbox[p]
        /\ amount' = amount
    BY <1>1, <1>2, <1>3, ApplyAgrees DEF Open
  <1>6. /\ req' \in [Requests -> RequestStates]
        /\ req'[r].pc = "done" /\ SameOrder(r)
        /\ \A s \in Requests \ {r} : req'[s] = req[s]
    BY RequestMoves DEF SubmissionApplies
  <1>7. RowTypes'
    BY <1>1, <1>4 DEF RowTypes
  <1>8. ProcessTypes'
    BY <1>1, <1>6 DEF ProcessTypes
  <1>9. RequestsInv'
    BY <1>1, <1>5, <1>6 DEF RequestsInv, SameOrder
  <1>10. KeysInv'
    BY <1>1, <1>2, <1>5, <1>6, KeysFrame
  <1>11. OrdersInv'
    BY <1>1, <1>5 DEF OrdersInv, OrderInv
  <1>12. WorkersInv'
    BY <1>1, WorkersFrame
  <1>13. (LeasesHold => LeasesInv)'
    BY <1>1, <1>2, <1>5 DEF LeasesInv, ActiveJob
  <1>14. QED
    BY <1>4, <1>7, <1>8, <1>9, <1>10, <1>11, <1>12, <1>13

LEMMA SubmissionUnknownInv ==
    ASSUME IInv, NEW r \in Requests, SubmissionUnknown(r)
    PROVE  IInv'
  <1> USE DEF IInv, TypeOK
  <1>1. /\ req[r].pc = "answered"
        /\ UNCHANGED <<quote, idem, funds, outbox, broker, late, wk, faults>>
    BY DEF SubmissionUnknown, MarkUnknown
  <1>2. status[r] = "PENDING_SUBMISSION" /\ job[r].status = "NONE"
    BY <1>1 DEF RequestsInv, OrdersInv, OrderInv
  <1>3. /\ status' = [status EXCEPT ![r] = "UNKNOWN"]
        /\ job' = [job EXCEPT ![r] = [status |-> "QUEUED", attempt |-> 0]]
    BY <1>2 DEF SubmissionUnknown, MarkUnknown, Open, ActiveJob
  <1>4. /\ req' \in [Requests -> RequestStates]
        /\ req'[r].pc = "done" /\ SameOrder(r)
        /\ \A s \in Requests \ {r} : req'[s] = req[s]
    BY RequestMoves DEF SubmissionUnknown
  <1>5. CashTypes'
    BY <1>1 DEF CashTypes, funds
  <1>6. RowTypes'
    BY <1>1, <1>3 DEF RowTypes, JobStates, funds, Open, ActiveJob
  <1>7. ProcessTypes'
    BY <1>1, <1>4 DEF ProcessTypes
  <1>8. RequestsInv'
    BY <1>1, <1>3, <1>4 DEF RequestsInv, SameOrder, RowTypes
  <1>9. KeysInv'
    BY <1>1, <1>2, <1>3, <1>4, KeysFrame DEF RowTypes
  <1>10. OrdersInv'
    BY <1>1, <1>2, <1>3 DEF OrdersInv, OrderInv, ReservationOf, RowTypes, funds, Open, Terminal, ActiveJob
  <1>11. WorkersInv'
    BY <1>1, <1>3 DEF WorkersInv, RowTypes
  <1>12. (LeasesHold => LeasesInv)'
    BY <1>1, <1>2, <1>3 DEF LeasesInv, WorkersInv, RowTypes, ActiveJob
  <1>13. QED
    BY <1>5, <1>6, <1>7, <1>8, <1>9, <1>10, <1>11, <1>12

-----------------------------------------------------------------------------
(* A worker and its job *)

LEMMA LeasesExpireInv ==
    ASSUME IInv, NEW w \in Workers, NEW expired \in SUBSET Requests, LeasesExpire(w, expired)
    PROVE  IInv'
  <1> USE DEF IInv, TypeOK
  <1>1. /\ UNCHANGED <<quote, idem, funds, outcomes, broker, late, req, wk>>
        /\ UNCHANGED status
        /\ faults' \in {faults, faults + 1}
        /\ \A o \in expired : job[o].status = "PROCESSING" /\ (LeasesHold => Working(o) = {})
        /\ job' = [o \in Requests |-> IF o \in expired
                                      THEN [job[o] EXCEPT !.status = "QUEUED"]
                                      ELSE job[o]]
    BY DEF LeasesExpire, Stale, outcomes
  <1>2. CashTypes'
    BY <1>1 DEF CashTypes, funds
  <1>3. RowTypes'
    BY <1>1 DEF RowTypes, JobStates, funds, outcomes, ActiveJob
  <1>4. ProcessTypes'
    BY <1>1 DEF ProcessTypes
  <1>5. RequestsInv' /\ KeysInv'
    BY <1>1, RequestsFrame
  <1>6. \A o \in Requests : /\ job'[o].status = job[o].status \/ job'[o].status = "QUEUED"
                            /\ job[o].status = "NONE" => job'[o].status = "NONE"
    BY <1>1 DEF RowTypes
  <1>7. OrdersInv'
    BY <1>1, <1>6 DEF OrdersInv, OrderInv, funds, outcomes, ActiveJob
  <1>8. WorkersInv'
    BY <1>1, <1>6 DEF WorkersInv
  <1>9. ASSUME LeasesHold PROVE LeasesInv'
    <2>1. \A o \in Requests : job'[o].status \in ActiveJob => job[o].status \in ActiveJob
      BY <1>1 DEF RowTypes, ActiveJob
    <2>2. \A v \in Workers : wk[v].pc # "idle" => job'[wk[v].order].status = "PROCESSING"
      BY <1>1, <1>9 DEF LeasesInv, WorkersInv, Working
    <2>3. QED
      BY <1>1, <1>9, <2>1, <2>2 DEF LeasesInv
  <1>10. QED
    BY <1>2, <1>3, <1>4, <1>5, <1>7, <1>8, <1>9

LEMMA ClaimInv ==
    ASSUME IInv, NEW w \in Workers, NEW o \in Requests, Claim(w, o)
    PROVE  IInv'
  <1> USE DEF IInv, TypeOK
  <1>1. /\ UNCHANGED <<quote, idem, funds, outcomes, broker, late, req, faults>>
        /\ UNCHANGED status
        /\ job[o].status = "QUEUED"
    BY DEF Claim, outcomes
  <1>2. /\ job' = [job EXCEPT ![o] = [status |-> "PROCESSING", attempt |-> Counted(job[o].attempt)]]
        /\ wk' = [wk EXCEPT ![w] = [pc |-> "claimed", order |-> o,
                                    attempt |-> Counted(job[o].attempt), answer |-> NoResult]]
        /\ Counted(job[o].attempt) \in Nat
    BY DEF Claim, RowTypes, JobStates, Counted
  <1>3. CashTypes'
    BY <1>1 DEF CashTypes, funds
  <1>4. RowTypes'
    BY <1>1, <1>2 DEF RowTypes, JobStates, funds, outcomes, ActiveJob
  <1>5. ProcessTypes'
    BY <1>1, <1>2 DEF ProcessTypes, WorkerStates, Answers
  <1>6. RequestsInv' /\ KeysInv'
    BY <1>1, RequestsFrame
  <1>7. OrdersInv'
    BY <1>1, <1>2 DEF OrdersInv, OrderInv, RowTypes, funds, outcomes, ActiveJob
  <1>8. WorkersInv'
    BY <1>1, <1>2 DEF WorkersInv, RowTypes, ProcessTypes
  <1>9. ASSUME LeasesHold PROVE LeasesInv'
    BY <1>1, <1>2, <1>9 DEF LeasesInv, RowTypes, ProcessTypes, WorkersInv, ActiveJob
  <1>10. QED
    BY <1>3, <1>4, <1>5, <1>6, <1>7, <1>8, <1>9

\* A worker that goes on, or away, without touching a row.
LEMMA WorkerMovesInv ==
    ASSUME IInv, NEW w \in Workers,
           wk' \in [Workers -> WorkerStates],
           \A v \in Workers \ {w} : wk'[v] = wk[v],
           \/ wk'[w].pc = "idle" /\ wk'[w].order = NoOrder
           \/ wk[w].pc # "idle" /\ wk'[w].pc # "idle" /\ wk'[w].order = wk[w].order,
           broker' \in [Requests -> Results \cup {NoResult}], faults' \in Nat,
           UNCHANGED <<platform, late, req>>
    PROVE  IInv'
  <1> USE DEF IInv, TypeOK
  <1>1. UNCHANGED <<status, idem, job, req>>
    BY DEF platform, outcomes
  <1>2. CashTypes' /\ RowTypes' /\ OrdersInv'
    BY PlatformFrame
  <1>3. ProcessTypes'
    BY DEF ProcessTypes
  <1>4. WorkersInv'
    BY <1>1 DEF WorkersInv
  <1>5. ASSUME LeasesHold PROVE LeasesInv'
    BY <1>1, <1>5 DEF LeasesInv, WorkersInv
  <1>6. QED
    BY <1>1, <1>2, <1>3, <1>4, <1>5, RequestsFrame

LEMMA FindInv ==
    ASSUME IInv, NEW w \in Workers, Find(w)
    PROVE  IInv'
  <1> DEFINE o == wk[w].order
  <1> USE DEF IInv, TypeOK
  <1>1. /\ wk[w].pc = "claimed" /\ o \in Requests
        /\ UNCHANGED <<platform, late, req, faults>>
    BY DEF Find, WorkersInv
  <1>2. broker' \in [Requests -> Results \cup {NoResult}]
    <2>1. broker[o] \in Results \cup {NoResult}
      BY <1>1 DEF ProcessTypes
    <2>2. CASE UNCHANGED broker
      BY <2>2 DEF ProcessTypes
    <2>3. CASE /\ broker[o].status = "UNKNOWN"
               /\ broker' = [broker EXCEPT ![o] = [broker[o] EXCEPT !.status = "FILLED"]]
      <3>1. broker[o] \in Results
        BY <2>1, <2>3 DEF NoResult
      <3>2. [broker[o] EXCEPT !.status = "FILLED"] \in Results
        BY <3>1 DEF Results
      <3>3. QED
        BY <2>3, <3>2 DEF ProcessTypes
    <2>4. QED
      BY <2>2, <2>3 DEF Find
  <1>3. PICK a \in Answers : Told(w, a)
    BY <1>1, <1>2 DEF Find, Answers
  <1>4. /\ wk' \in [Workers -> WorkerStates]
        /\ wk'[w].pc = "answered" /\ wk'[w].order = wk[w].order
        /\ \A v \in Workers \ {w} : wk'[v] = wk[v]
    BY <1>3, ToldTypes
  <1>5. faults' \in Nat
    BY <1>1 DEF ProcessTypes
  <1>6. QED
    BY <1>1, <1>2, <1>4, <1>5, WorkerMovesInv

LEMMA ReconcileThrowsInv ==
    ASSUME IInv, NEW w \in Workers, ReconcileThrows(w)
    PROVE  IInv'
  <1>1. /\ wk' \in [Workers -> WorkerStates]
        /\ wk'[w].pc = "answered" /\ wk'[w].order = wk[w].order
        /\ \A v \in Workers \ {w} : wk'[v] = wk[v]
    BY ToldTypes, ResultsAnswer DEF ReconcileThrows, IInv, TypeOK
  <1>2. /\ wk[w].pc = "answered"
        /\ UNCHANGED <<platform, broker, late, req, faults>>
    BY DEF ReconcileThrows
  <1>3. broker' \in [Requests -> Results \cup {NoResult}] /\ faults' \in Nat
    BY <1>2 DEF IInv, TypeOK, ProcessTypes
  <1>4. QED
    BY <1>1, <1>2, <1>3, WorkerMovesInv

LEMMA ReconcileAbortsInv ==
    ASSUME IInv, NEW w \in Workers, ReconcileAborts(w)
    PROVE  IInv'
  <1>1. /\ wk' \in [Workers -> WorkerStates]
        /\ wk'[w].pc = "answered" /\ wk'[w].order = wk[w].order
        /\ \A v \in Workers \ {w} : wk'[v] = wk[v]
    BY ToldTypes, ResultsAnswer DEF ReconcileAborts, IInv, TypeOK
  <1>2. /\ wk[w].pc = "answered"
        /\ UNCHANGED <<platform, broker, late, req>>
    BY DEF ReconcileAborts
  <1>3. broker' \in [Requests -> Results \cup {NoResult}] /\ faults' \in Nat
    BY DEF ReconcileAborts, IInv, TypeOK, ProcessTypes
  <1>4. QED
    BY <1>1, <1>2, <1>3, WorkerMovesInv

LEMMA WorkerStopsInv ==
    ASSUME IInv, NEW w \in Workers, WorkerStops(w)
    PROVE  IInv'
  <1>1. /\ wk' \in [Workers -> WorkerStates]
        /\ wk'[w].pc = "idle" /\ wk'[w].order = NoOrder
        /\ \A v \in Workers \ {w} : wk'[v] = wk[v]
    BY RetireTypes DEF WorkerStops, IInv, TypeOK
  <1>2. UNCHANGED <<platform, broker, late, req>>
    BY DEF WorkerStops
  <1>3. broker' \in [Requests -> Results \cup {NoResult}] /\ faults' \in Nat
    BY DEF WorkerStops, IInv, TypeOK, ProcessTypes
  <1>4. QED
    BY <1>1, <1>2, <1>3, WorkerMovesInv

\* An UPDATE of a job's status, WHERE status = 'PROCESSING'.
LEMMA JobMoves ==
    ASSUME RowTypes, NEW o \in Requests, NEW s \in {"QUEUED", "COMPLETED", "FAILED"},
           job' = [job EXCEPT ![o].status = IF @ = "PROCESSING" THEN s ELSE @]
    PROVE  /\ job' \in [Requests -> JobStates]
           /\ \A p \in Requests \ {o} : job'[p] = job[p]
           /\ job'[o].status = IF job[o].status = "PROCESSING" THEN s ELSE job[o].status
           /\ \A p \in Requests : job[p].status # "NONE" => job'[p].status # "NONE"
  BY DEF RowTypes, JobStates, ActiveJob

\* A worker that has retired leaves the jobs of the others to them.
LEMMA WorkerLeavesInv ==
    ASSUME IInv, NEW w \in Workers, wk[w].pc # "idle", Retire(w),
           job' \in [Requests -> JobStates],
           \A p \in Requests \ {wk[w].order} : job'[p] = job[p],
           \A p \in Requests : job[p].status # "NONE" => job'[p].status # "NONE"
    PROVE  /\ wk' \in [Workers -> WorkerStates]
           /\ WorkersInv'
           /\ LeasesHold => /\ \A v \in Workers : wk'[v].pc # "idle" =>
                                  job'[wk'[v].order].status = "PROCESSING"
                            /\ \A u, v \in Workers :
                                  wk'[u].pc # "idle" /\ wk'[u].order = wk'[v].order => u = v
  <1> DEFINE o == wk[w].order
  <1>1. o \in Requests
    BY DEF IInv, WorkersInv
  <1>2. /\ wk' \in [Workers -> WorkerStates]
        /\ wk'[w].pc = "idle" /\ wk'[w].order = NoOrder
        /\ \A v \in Workers \ {w} : wk'[v] = wk[v]
    BY RetireTypes DEF IInv, TypeOK
  <1>4. WorkersInv'
    BY <1>2 DEF IInv, WorkersInv
  <1>5. ASSUME LeasesHold
        PROVE  /\ \A v \in Workers : wk'[v].pc # "idle" =>
                     job'[wk'[v].order].status = "PROCESSING"
               /\ \A u, v \in Workers :
                     wk'[u].pc # "idle" /\ wk'[u].order = wk'[v].order => u = v
    <2>1. \A v \in Workers \ {w} : wk[v].pc # "idle" => wk[v].order \in Requests \ {o}
      BY <1>5 DEF IInv, LeasesInv, WorkersInv
    <2>2. \A v \in Workers : wk'[v].pc # "idle" => job'[wk'[v].order].status = "PROCESSING"
      BY <1>2, <1>5, <2>1 DEF IInv, LeasesInv
    <2>3. \A u, v \in Workers :
             wk'[u].pc # "idle" /\ wk'[u].order = wk'[v].order => u = v
      BY <1>2, <1>5, <2>1 DEF IInv, LeasesInv
    <2>4. QED
      BY <2>2, <2>3
  <1>6. QED
    BY <1>2, <1>4, <1>5

LEMMA RequeueInv ==
    ASSUME IInv, NEW w \in Workers, Requeue(w)
    PROVE  IInv'
  <1> DEFINE o == wk[w].order
  <1>1. /\ wk[w].pc = "answered" /\ o \in Requests
        /\ UNCHANGED <<quote, idem, funds, outcomes, broker, late, req, faults>>
        /\ UNCHANGED status
    BY DEF Requeue, MustReschedule, IInv, WorkersInv, outcomes
  <1>2. /\ job' \in [Requests -> JobStates]
        /\ \A p \in Requests \ {o} : job'[p] = job[p]
        /\ job'[o].status = IF job[o].status = "PROCESSING" THEN "QUEUED" ELSE job[o].status
        /\ \A p \in Requests : job[p].status # "NONE" => job'[p].status # "NONE"
    BY <1>1, JobMoves DEF Requeue, IInv, TypeOK
  <1>3. Retire(w)
    BY DEF Requeue
  <1>4. /\ wk' \in [Workers -> WorkerStates]
        /\ WorkersInv'
        /\ LeasesHold => /\ \A v \in Workers : wk'[v].pc # "idle" =>
                               job'[wk'[v].order].status = "PROCESSING"
                         /\ \A u, v \in Workers :
                               wk'[u].pc # "idle" /\ wk'[u].order = wk'[v].order => u = v
    BY <1>1, <1>2, <1>3, WorkerLeavesInv
  <1>5. CashTypes'
    BY <1>1 DEF IInv, TypeOK, CashTypes, funds
  <1>6. RowTypes'
    BY <1>1, <1>2 DEF IInv, TypeOK, RowTypes, funds, outcomes
  <1>7. ProcessTypes'
    BY <1>1, <1>4 DEF IInv, TypeOK, ProcessTypes
  <1>8. RequestsInv' /\ KeysInv'
    BY <1>1, RequestsFrame DEF IInv
  <1>9. \A p \in Requests : \/ job'[p].status = job[p].status
                            \/ job[p].status = "PROCESSING" /\ job'[p].status = "QUEUED"
    BY <1>2
  <1>10. OrdersInv'
    BY <1>1, <1>9 DEF IInv, OrdersInv, OrderInv, funds, outcomes, ActiveJob
  <1>11. ASSUME LeasesHold PROVE LeasesInv'
    BY <1>1, <1>4, <1>9, <1>11 DEF IInv, LeasesInv, ActiveJob
  <1>12. QED
    BY <1>4, <1>5, <1>6, <1>7, <1>8, <1>10, <1>11 DEF IInv, TypeOK

LEMMA ReconcileAppliesInv ==
    ASSUME IInv, NEW w \in Workers, ReconcileApplies(w)
    PROVE  IInv'
  <1> DEFINE o == wk[w].order
             answer == wk[w].answer
  <1>1. /\ wk[w].pc = "answered" /\ o \in Requests /\ answer \in Answers
        /\ answer.status \in {"FILLED", "REJECTED"}
        /\ UNCHANGED <<quote, idem, broker, late, req, faults>>
        /\ Retire(w)
    BY DEF ReconcileApplies, IInv, WorkersInv, TypeOK, ProcessTypes, WorkerStates
  <1>2. /\ job' \in [Requests -> JobStates]
        /\ \A p \in Requests \ {o} : job'[p] = job[p]
        /\ job'[o].status = IF job[o].status = "PROCESSING" THEN "COMPLETED" ELSE job[o].status
        /\ \A p \in Requests : job[p].status # "NONE" => job'[p].status # "NONE"
    BY <1>1, JobMoves DEF ReconcileApplies, Completed, IInv, TypeOK
  <1>3. /\ wk' \in [Workers -> WorkerStates]
        /\ WorkersInv'
        /\ LeasesHold => /\ \A v \in Workers : wk'[v].pc # "idle" =>
                               job'[wk'[v].order].status = "PROCESSING"
                         /\ \A u, v \in Workers :
                               wk'[u].pc # "idle" /\ wk'[u].order = wk'[v].order => u = v
    BY <1>1, <1>2, WorkerLeavesInv
  <1>4. status[o] \in Terminal \cup {"UNKNOWN"} /\ status[o] # "NONE"
    BY <1>1 DEF IInv, WorkersInv, OrdersInv, OrderInv, TypeOK, RowTypes, Open, Terminal
  <1>5. ProcessTypes'
    BY <1>1, <1>3 DEF IInv, TypeOK, ProcessTypes
  <1>6. CASE Final(o)
    <2>1. UNCHANGED <<funds, outcomes>> /\ UNCHANGED status
      BY <1>6 DEF ReconcileApplies, outcomes
    <2>2. CashTypes'
      BY <2>1 DEF IInv, TypeOK, CashTypes, funds
    <2>3. RowTypes'
      BY <1>1, <1>2, <2>1 DEF IInv, TypeOK, RowTypes, funds, outcomes
    <2>4. RequestsInv' /\ KeysInv'
      BY <1>1, <2>1, RequestsFrame DEF IInv
    <2>5. OrdersInv'
      BY <1>2, <1>6, <2>1 DEF IInv, OrdersInv, OrderInv, funds, outcomes, Final, Terminal
    <2>6. ASSUME LeasesHold PROVE LeasesInv'
      <3>1. job'[o].status \in ActiveJob => job[o].status \in ActiveJob
        BY <1>2 DEF ActiveJob
      <3>2. QED
        BY <1>2, <1>3, <2>1, <2>6, <3>1 DEF IInv, LeasesInv
    <2>7. QED
      BY <1>3, <1>5, <2>2, <2>3, <2>4, <2>5, <2>6 DEF IInv, TypeOK
  <1>7. CASE ~Final(o)
    <2>1. status[o] = "UNKNOWN"
      BY <1>4, <1>7 DEF Final
    <2>2. PICK tail : ApplyOutcome(o, answer, tail)
      BY <1>7 DEF ReconcileApplies
    <2>3. /\ CashTypes'
          /\ reservation' \in [Requests -> {"NONE", "ACTIVE", "SETTLED", "RELEASED"}]
          /\ ledger' \in [Requests -> SUBSET {"RESERVE", "SETTLE", "RELEASE"}]
          /\ status' \in [Requests -> {"NONE"} \cup Open \cup Terminal]
          /\ outbox' \in [Requests -> {"NONE"} \cup Terminal]
      BY <1>1, <2>2, ApplyTypes DEF IInv, TypeOK
    <2>4. /\ reservation'[o] = ReservationOf(status'[o])
          /\ status'[o] = "FILLED" <=> execution'[o] # 0
          /\ outbox'[o] = IF status'[o] \in Terminal THEN status'[o] ELSE "NONE"
          /\ status'[o] \in {"FILLED", "REJECTED"}
          /\ \A p \in Requests \ {o} :
                /\ status'[p] = status[p] /\ execution'[p] = execution[p]
                /\ reservation'[p] = reservation[p] /\ outbox'[p] = outbox[p]
          /\ amount' = amount
      BY <1>1, <2>1, <2>2, ApplyAgrees DEF Open, IInv, TypeOK
    <2>5. RowTypes'
      BY <1>1, <1>2, <2>3 DEF IInv, TypeOK, RowTypes
    <2>6. RequestsInv'
      BY <1>1, <2>1, <2>4 DEF IInv, RequestsInv
    <2>7. KeysInv'
      BY <1>1, <2>1, <2>4 DEF IInv, KeysInv
    <2>8. OrdersInv'
      BY <1>2, <2>1, <2>4 DEF IInv, OrdersInv, OrderInv
    <2>9. ASSUME LeasesHold PROVE LeasesInv'
      <3>1. job[o].status = "PROCESSING"
        BY <1>1, <2>9 DEF IInv, LeasesInv
      <3>2. job'[o].status = "COMPLETED"
        BY <1>2, <3>1
      <3>3. QED
        BY <1>2, <1>3, <2>4, <2>9, <3>2 DEF IInv, LeasesInv, ActiveJob
    <2>10. QED
      BY <1>3, <1>5, <2>3, <2>5, <2>6, <2>7, <2>8, <2>9 DEF IInv, TypeOK
  <1>8. QED
    BY <1>6, <1>7

LEMMA GiveUpInv ==
    ASSUME IInv, NEW w \in Workers, GiveUp(w)
    PROVE  IInv'
  <1> DEFINE o == wk[w].order
  <1>1. /\ wk[w].pc = "answered" /\ o \in Requests
        /\ UNCHANGED <<quote, idem, broker, late, req, faults>>
        /\ Retire(w)
    BY DEF GiveUp, MustReschedule, IInv, WorkersInv
  <1>2. /\ job' \in [Requests -> JobStates]
        /\ \A p \in Requests \ {o} : job'[p] = job[p]
        /\ \A p \in Requests : job[p].status # "NONE" => job'[p].status # "NONE"
    <2>1. CASE UNCHANGED job
      BY <2>1 DEF IInv, TypeOK, RowTypes
    <2>2. CASE job' = [job EXCEPT ![o].status = "FAILED"]
      BY <1>1, <2>2 DEF IInv, TypeOK, RowTypes, JobStates
    <2>3. QED
      BY <2>1, <2>2 DEF GiveUp
  <1>3. /\ wk' \in [Workers -> WorkerStates]
        /\ WorkersInv'
        /\ LeasesHold => /\ \A v \in Workers : wk'[v].pc # "idle" =>
                               job'[wk'[v].order].status = "PROCESSING"
                         /\ \A u, v \in Workers :
                               wk'[u].pc # "idle" /\ wk'[u].order = wk'[v].order => u = v
    BY <1>1, <1>2, WorkerLeavesInv
  <1>4. status[o] \in Terminal \cup {"UNKNOWN"} /\ status[o] # "NONE"
    BY <1>1 DEF IInv, WorkersInv, OrdersInv, OrderInv, TypeOK, RowTypes, Open, Terminal
  <1>5. ProcessTypes'
    BY <1>1, <1>3 DEF IInv, TypeOK, ProcessTypes
  <1>6. CASE UNCHANGED <<funds, outcomes, job>>
    <2>1. UNCHANGED <<status, idem, req>>
      BY <1>1, <1>6 DEF outcomes
    <2>2. CashTypes' /\ RowTypes' /\ OrdersInv'
      BY <1>1, <1>6, PlatformFrame DEF IInv, TypeOK, platform
    <2>3. ASSUME LeasesHold PROVE LeasesInv'
      BY <1>3, <1>6, <2>1, <2>3 DEF IInv, LeasesInv
    <2>4. QED
      BY <1>3, <1>5, <2>1, <2>2, <2>3, RequestsFrame DEF IInv, TypeOK
  <1>7. CASE ~UNCHANGED <<funds, outcomes, job>>
    <2>1. /\ ReservedSuffices(o) /\ ReleaseFunds(o)
          /\ status' = [status EXCEPT ![o] = GivenUp(status[o])]
          /\ job' = [job EXCEPT ![o].status = "FAILED"]
          /\ Publish(o, "FAILED")
      BY <1>7 DEF GiveUp
    <2>2. /\ CashTypes'
          /\ reservation' \in [Requests -> {"NONE", "ACTIVE", "SETTLED", "RELEASED"}]
          /\ ledger' \in [Requests -> SUBSET {"RESERVE", "SETTLE", "RELEASE"}]
          /\ outbox' \in [Requests -> {"NONE"} \cup Terminal]
      BY <1>1, <2>1, ReleaseTypes, PublishTypes DEF IInv, TypeOK, Terminal
    <2>3. /\ status' \in [Requests -> {"NONE"} \cup Open \cup Terminal]
          /\ status'[o] = IF status[o] = "UNKNOWN" THEN "FAILED" ELSE status[o]
          /\ \A p \in Requests \ {o} : status'[p] = status[p]
      BY <1>1, <1>4, <2>1 DEF IInv, TypeOK, RowTypes, GivenUp, Terminal
    <2>4. RowTypes'
      BY <1>1, <1>2, <2>2, <2>3 DEF IInv, TypeOK, RowTypes
    <2>5. RequestsInv'
      BY <1>1, <1>4, <2>3 DEF IInv, RequestsInv, Terminal
    <2>6. KeysInv'
      BY <1>1, <1>4, <2>3 DEF IInv, KeysInv
    <2>7. ASSUME NEW p \in Requests, p = o PROVE OrderInv(p)'
      <3>1. /\ reservation'[p] = IF reservation[p] = "ACTIVE" THEN "RELEASED" ELSE reservation[p]
            /\ outbox'[p] = IF outbox[p] = "NONE" THEN "FAILED" ELSE outbox[p]
            /\ execution' = execution
        BY <2>1, <2>7 DEF IInv, TypeOK, RowTypes, ReleaseFunds, CloseReservation, Publish
      <3>2. OrderInv(p)
        BY DEF IInv, OrdersInv
      <3>3. CASE status[p] = "UNKNOWN"
        BY <2>3, <2>7, <3>1, <3>2, <3>3 DEF OrderInv, ReservationOf, Open, Terminal
      <3>4. CASE status[p] \in Terminal
        BY <2>3, <2>7, <3>1, <3>2, <3>4 DEF OrderInv, ReservationOf, Open, Terminal
      <3>5. QED
        BY <1>4, <2>7, <3>3, <3>4
    <2>8. \A p \in Requests \ {o} : OrderInv(p)'
      BY <1>2, <2>1, <2>3 DEF IInv, TypeOK, RowTypes, OrdersInv, OrderInv, ReleaseFunds, CloseReservation,
                        Publish
    <2>9. ASSUME LeasesHold PROVE LeasesInv'
      <3>1. job'[o].status = "FAILED"
        BY <1>1, <2>1 DEF IInv, TypeOK, RowTypes
      <3>2. QED
        BY <1>2, <1>3, <2>3, <2>9, <3>1 DEF IInv, LeasesInv, ActiveJob
    <2>10. OrdersInv'
      BY <2>7, <2>8 DEF OrdersInv
    <2>11. QED
      BY <1>3, <1>5, <2>2, <2>4, <2>5, <2>6, <2>9, <2>10 DEF IInv, TypeOK
  <1>8. QED
    BY <1>6, <1>7

-----------------------------------------------------------------------------
(* Theorems *)

LEMMA StepInv == IInv /\ [Next]_vars => IInv'
  <1> SUFFICES ASSUME IInv, [Next]_vars PROVE IInv'
    OBVIOUS
  <1>1. CASE Customer
    BY <1>1, PreviewInv, QuoteExpiresInv, ReplayInv, RefuseInv, PrepareInv DEF Customer
  <1>2. CASE Submission
    BY <1>2, SubmitAnsweredInv, SubmitFailsInv, LateSubmitInv, SubmissionAppliesInv,
       SubmissionUnknownInv, SubmissionThrowsInv DEF Submission
  <1>3. CASE Reconciliation
    BY <1>3, LeasesExpireInv, ClaimInv, FindInv, ReconcileAppliesInv, ReconcileThrowsInv,
       RequeueInv, GiveUpInv DEF Reconciliation
  <1>4. CASE Faults
    BY <1>4, RequestStopsInv, ReconcileAbortsInv, WorkerStopsInv DEF Faults
  <1>5. CASE UNCHANGED vars
    <2>1. UNCHANGED <<platform, broker, late, req, wk, faults>>
      BY <1>5 DEF vars
    <2>2. UNCHANGED <<status, idem, job>>
      BY <2>1 DEF platform, outcomes
    <2>3. CashTypes' /\ RowTypes' /\ OrdersInv'
      BY <2>1, PlatformFrame DEF IInv, TypeOK
    <2>4. ProcessTypes'
      BY <2>1 DEF IInv, TypeOK, ProcessTypes
    <2>5. QED
      BY <2>1, <2>2, <2>3, <2>4, RequestsFrame, WorkersFrame, LeasesFrame DEF IInv, TypeOK
  <1>6. QED
    BY <1>1, <1>2, <1>3, <1>4, <1>5 DEF Next

\* IInv holds in every reachable state.
THEOREM Invariance == Spec => []IInv
  <1>1. Init => IInv
    BY InitInv
  <1>2. IInv /\ [Next]_vars => IInv'
    BY StepInv
  <1>3. QED
    BY <1>1, <1>2, PTL DEF Spec

\* The tables and the processes only take the values they are declared with; in
\* particular neither balance of the cash account ever gets negative.
THEOREM TypeCorrect == Spec => []TypeOK
  BY Invariance, PTL DEF IInv

\* However many calls send a key, whenever they arrive, it creates one order,
\* and a replay answers with it (prepareOrder's idempotency record).
THEOREM OneOrderPerKey == Spec => []Idempotent
  <1>1. IInv => Idempotent
    <2> SUFFICES ASSUME IInv PROVE Idempotent
      OBVIOUS
    <2>1. ASSUME NEW r \in Created, NEW s \in Created, req[r].key = req[s].key
          PROVE  r = s
      <3>1. /\ idem[req[r].key] = [hash |-> req[r].quote, order |-> r]
            /\ idem[req[s].key] = [hash |-> req[s].quote, order |-> s]
        BY DEF IInv, KeysInv, Created
      <3>2. idem[req[r].key].order = r /\ idem[req[s].key].order = s
        BY <3>1
      <3>3. QED
        BY <2>1, <3>2
    <2>2. ASSUME NEW r \in Requests, req[r].pc = "replayed"
          PROVE  /\ req[r].order \in Created
                 /\ req[req[r].order].key = req[r].key
                 /\ req[req[r].order].quote = req[r].quote
      <3>1. /\ req[r].key \in Keys
            /\ req[r].order \in Requests
            /\ idem[req[r].key] = [hash |-> req[r].quote, order |-> req[r].order]
        BY <2>2 DEF IInv, KeysInv, RequestsInv
      <3>2. idem[req[r].key].order = req[r].order /\ idem[req[r].key].hash = req[r].quote
        BY <3>1
      <3>3. idem[req[r].key] # NoRecord
        BY <3>1, <3>2 DEF NoRecord
      <3>4. QED
        BY <3>1, <3>2, <3>3 DEF IInv, KeysInv, Created
    <2>3. QED
      BY <2>1, <2>2 DEF Idempotent
  <1>2. QED
    BY <1>1, Invariance, PTL

\* A settlement and its ORDER_SETTLED event commit together, and the event
\* tells the order's outcome (insertSettlementOutbox).
THEOREM EventsTellOutcomes == Spec => []EventTellsOutcome
  <1>1. IInv => EventTellsOutcome
    BY DEF IInv, OrdersInv, OrderInv, EventTellsOutcome
  <1>2. QED
    BY <1>1, Invariance, PTL

\* No order of unknown outcome is without a job that a worker will claim.
THEOREM UnknownOrdersAreWatched == Spec => []UnknownIsWatched
  <1>1. IInv => UnknownIsWatched
    BY DEF IInv, OrdersInv, OrderInv, UnknownIsWatched
  <1>2. QED
    BY <1>1, Invariance, PTL

\* While workers keep their leases, an active job belongs to an order that is
\* still open, and one worker at most is on it.
THEOREM ActiveJobsAreLive ==
    ASSUME LeasesHold PROVE Spec => []JobsAreLive
  <1>1. IInv => JobsAreLive
    <2> SUFFICES ASSUME IInv, NEW o \in Requests
                 PROVE  /\ job[o].status \in ActiveJob => status[o] = "UNKNOWN"
                        /\ Cardinality(Working(o)) <= 1
      BY DEF JobsAreLive
    <2>1. job[o].status \in ActiveJob => status[o] = "UNKNOWN"
      BY DEF IInv, LeasesInv
    <2>2. \A v, w \in Working(o) : v = w
      BY DEF IInv, LeasesInv, WorkersInv, Working
    <2>3. CASE Working(o) = {}
      BY <2>1, <2>3, FS_EmptySet
    <2>4. CASE \E w \in Working(o) : TRUE
      <3>1. PICK w \in Working(o) : Working(o) = {w}
        BY <2>2, <2>4
      <3>2. Cardinality(Working(o)) = 1
        BY <3>1, FS_Singleton
      <3>3. QED
        BY <2>1, <3>2
    <2>5. QED
      BY <2>1, <2>3, <2>4
  <1>2. QED
    BY <1>1, Invariance, PTL

\* A final order stays final: no late answer, stale worker or second
\* settlement changes its status, its fill, its reservation or its event.
THEOREM FinalOrdersStayFinal == Spec => FinalIsFinal
  <1>1. ASSUME IInv, IInv', [Next]_vars, NEW o \in Requests, status[o] \in Terminal
        PROVE  UNCHANGED <<status[o], execution[o]>>
    <2>1. ASSUME NEW r \in Requests, SubmissionApplies(r)
          PROVE  UNCHANGED <<status[o], execution[o]>>
      <3>1. /\ status[r] = "PENDING_SUBMISSION" /\ r # o
            /\ req[r].answer \in Answers
        BY <1>1, <2>1 DEF SubmissionApplies, IInv, RequestsInv, TypeOK, ProcessTypes, RequestStates,
                          Terminal
      <3>2. ApplyOutcome(r, req[r].answer, <<>>) /\ req[r].answer.status \in {"FILLED", "REJECTED"}
        BY <2>1, <3>1 DEF SubmissionApplies, Final, Terminal
      <3>3. QED
        BY <1>1, <3>1, <3>2, ApplyAgrees DEF IInv, TypeOK, Open
    <2>2. ASSUME NEW w \in Workers, ReconcileApplies(w)
          PROVE  UNCHANGED <<status[o], execution[o]>>
      <3> DEFINE p == wk[w].order
      <3>1. /\ p \in Requests /\ wk[w].answer \in Answers
            /\ wk[w].answer.status \in {"FILLED", "REJECTED"}
        BY <1>1, <2>2 DEF ReconcileApplies, IInv, WorkersInv, TypeOK, ProcessTypes, WorkerStates
      <3>2. CASE Final(p)
        BY <2>2, <3>2 DEF ReconcileApplies, funds, outcomes
      <3>3. CASE ~Final(p)
        <4>1. PICK tail : ApplyOutcome(p, wk[w].answer, tail)
          BY <2>2, <3>3 DEF ReconcileApplies
        <4>2. p # o /\ status[p] \in Open
          BY <1>1, <2>2, <3>1, <3>3 DEF ReconcileApplies, Final, IInv, WorkersInv, OrdersInv, OrderInv,
                                        TypeOK, RowTypes
        <4>3. QED
          BY <1>1, <3>1, <4>1, <4>2, ApplyAgrees DEF IInv, TypeOK
      <3>4. QED
        BY <3>2, <3>3
    <2>3. ASSUME NEW w \in Workers, GiveUp(w)
          PROVE  UNCHANGED <<status[o], execution[o]>>
      BY <1>1, <2>3 DEF GiveUp, MustReschedule, GivenUp, ReleaseFunds, IInv, TypeOK, RowTypes, WorkersInv,
                        funds, outcomes, Terminal
    <2>4. ASSUME NEW r \in Requests, NEW k \in Keys, NEW q \in Quotes, Prepare(r, k, q)
          PROVE  UNCHANGED <<status[o], execution[o]>>
      BY <1>1, <2>4 DEF Prepare, HoldFunds, IInv, RequestsInv, TypeOK, RowTypes, Terminal
    <2>5. ASSUME NEW r \in Requests, SubmissionUnknown(r)
          PROVE  UNCHANGED <<status[o], execution[o]>>
      BY <1>1, <2>5 DEF SubmissionUnknown, MarkUnknown, funds, IInv, RequestsInv, TypeOK, RowTypes,
                        Open, Terminal
    <2>6. CASE UNCHANGED <<funds, outcomes>>
      BY <2>6 DEF funds, outcomes
    <2>7. CASE UNCHANGED platform
      BY <2>7 DEF platform, funds, outcomes
    <2>8. QED
      BY <1>1, <2>1, <2>2, <2>3, <2>4, <2>5, <2>6, <2>7
         DEF Next, Customer, Submission, Reconciliation, Faults, Preview, QuoteExpires, Replay, Refuse,
             SubmitAnswered, SubmitFails, LateSubmit, SubmissionThrows, RequestStops, LeasesExpire,
             Claim, Find, ReconcileThrows, ReconcileAborts, Requeue, WorkerStops, vars
  <1>2. ASSUME IInv, IInv', [Next]_vars, NEW o \in Requests, status[o] \in Terminal
        PROVE  UNCHANGED <<status[o], execution[o], reservation[o], outbox[o]>>
    <2>1. OrderInv(o) /\ OrderInv(o)'
      BY <1>2 DEF IInv, OrdersInv
    <2>2. QED
      BY <1>1, <1>2, <2>1 DEF OrderInv
  <1>3. IInv /\ IInv' /\ [Next]_vars =>
           [\A o \in Requests : status[o] \in Terminal =>
               UNCHANGED <<status[o], execution[o], reservation[o], outbox[o]>>]_vars
    BY <1>2
  <1>4. QED
    BY <1>3, Invariance, PTL DEF Spec, FinalIsFinal

-----------------------------------------------------------------------------
(* The orders implement CashHolds *)

\* A step that moves no money and neither opens nor closes an order.
LEMMA PhaseStutters ==
    ASSUME TypeOK, UNCHANGED <<amount, execution, available, reserved>>,
           \A o \in Requests : \/ status'[o] = status[o]
                               \/ status[o] \in Open /\ status'[o] \in Open
    PROVE  UNCHANGED Promise!cashVars
  <1>1. Phase' = Phase
    BY DEF Phase, Open
  <1>2. QED
    BY <1>1 DEF Promise!cashVars

\* The step in which one order enters a phase.
LEMMA PhaseMoves ==
    ASSUME NEW o \in Requests, \A p \in Requests \ {o} : status'[p] = status[p]
    PROVE  Phase' = [Phase EXCEPT ![o] = Phase'[o]]
  <1>1. \A p \in Requests \ {o} : Phase'[p] = Phase[p]
    BY DEF Phase
  <1>2. DOMAIN Phase = Requests /\ DOMAIN Phase' = Requests
    BY DEF Phase
  <1>3. /\ Phase = [p \in Requests |-> Phase[p]]
        /\ Phase' = [p \in Requests |-> Phase'[p]]
    BY DEF Phase
  <1>4. QED
    BY <1>1, <1>2, <1>3

\* Applying a final answer spends what the order holds, or gives it back.
LEMMA ApplyKeepsPromise ==
    ASSUME TypeOK, OrdersInv, NEW o \in Requests, NEW result \in Answers, NEW tail,
           result.status \in {"FILLED", "REJECTED"}, status[o] \in Open,
           ApplyOutcome(o, result, tail)
    PROVE  Promise!Next
  <1>1. /\ \A p \in Requests \ {o} : status'[p] = status[p]
        /\ status'[o] = result.status /\ execution[o] = 0
        /\ result.filled \in Amounts
    BY ApplyAgrees DEF TypeOK, Answers, Results, NoResult, Transport, OrdersInv, OrderInv, Open
  <1>2. Phase' = [Phase EXCEPT ![o] = Phase'[o]] /\ Phase[o] = "held"
    BY <1>1, PhaseMoves DEF Phase, Open
  <1>3. CASE result.status = "FILLED"
    <2>1. Phase'[o] = "spent"
      BY <1>1, <1>3 DEF Phase, Open
    <2>2. Promise!Spend(o, result.filled)
      BY <1>1, <1>2, <1>3, <2>1 DEF Promise!Spend, ApplyOutcome, FillFits, SettleFunds, Refund,
                                    TypeOK, CashTypes
    <2>3. QED
      BY <1>1, <2>2 DEF Promise!Next
  <1>4. CASE result.status = "REJECTED"
    <2>1. Phase'[o] = "returned"
      BY <1>1, <1>4 DEF Phase, Open
    <2>2. Promise!GiveBack(o)
      BY <1>2, <1>4, <2>1 DEF Promise!GiveBack, ApplyOutcome, ReleaseFunds
    <2>3. QED
      BY <2>2 DEF Promise!Next
  <1>5. QED
    BY <1>3, <1>4

\* As long as no worker outlives its lease, the orders take, spend and give
\* back the account's cash as CashHolds promises, whatever is lost, late or
\* crashes in between.
THEOREM CashIsKept ==
    ASSUME LeasesHold PROVE Spec => CashPromiseKept
  <1>1. Init => Promise!Init
    <2> SUFFICES ASSUME Init PROVE Promise!Init
      OBVIOUS
    <2>1. \A o \in Requests : status[o] = "NONE"
      BY DEF Init
    <2>2. \A o \in Requests : Phase[o] = "none"
      BY <2>1 DEF Phase, Open
    <2>3. Phase = [o \in Requests |-> "none"]
      BY <2>2 DEF Phase
    <2>4. QED
      BY <2>3 DEF Init, Promise!Init
  <1>2. ASSUME IInv, [Next]_vars PROVE [Promise!Next]_Promise!cashVars
    <2>1. ASSUME NEW r \in Requests, NEW k \in Keys, NEW q \in Quotes, Prepare(r, k, q)
          PROVE  Promise!Next
      <3>1. /\ status[r] = "NONE" /\ status'[r] = "PENDING_SUBMISSION"
            /\ \A p \in Requests \ {r} : status'[p] = status[p]
        BY <1>2, <2>1 DEF Prepare, IInv, RequestsInv, TypeOK, RowTypes
      <3>2. quote[q].amount \in Amounts \cup {0} /\ quote[q].amount > 0
        BY <1>2, <2>1 DEF Prepare, IInv, TypeOK, RowTypes
      <3>3. quote[q].amount \in Amounts
        BY <3>2
      <3>4. Phase' = [Phase EXCEPT ![r] = "held"] /\ Phase[r] = "none"
        BY <3>1, PhaseMoves DEF Phase, Open
      <3>5. Promise!Hold(r, quote[q].amount)
        BY <1>2, <2>1, <3>3, <3>4 DEF Promise!Hold, Prepare, HoldFunds, Affords, IInv, TypeOK, CashTypes
      <3>6. QED
        BY <3>3, <3>5 DEF Promise!Next
    <2>2. ASSUME NEW r \in Requests, SubmissionApplies(r)
          PROVE  Promise!Next
      <3>1. /\ status[r] \in Open /\ req[r].answer \in Answers
            /\ req[r].answer.status \in {"FILLED", "REJECTED"}
        BY <1>2, <2>2 DEF SubmissionApplies, IInv, RequestsInv, TypeOK, ProcessTypes, RequestStates, Open
      <3>2. ApplyOutcome(r, req[r].answer, <<>>)
        BY <2>2, <3>1 DEF SubmissionApplies, Final, Open, Terminal
      <3>3. QED
        BY <1>2, <3>1, <3>2, ApplyKeepsPromise DEF IInv
    <2>3. ASSUME NEW w \in Workers, ReconcileApplies(w)
          PROVE  Promise!Next
      <3> DEFINE o == wk[w].order
      <3>1. /\ o \in Requests /\ wk[w].answer \in Answers
            /\ wk[w].answer.status \in {"FILLED", "REJECTED"}
        BY <1>2, <2>3 DEF ReconcileApplies, IInv, WorkersInv, TypeOK, ProcessTypes, WorkerStates
      <3>2. status[o] = "UNKNOWN"
        BY <1>2, <2>3, <3>1 DEF ReconcileApplies, IInv, LeasesInv, ActiveJob
      <3>3. PICK tail : ApplyOutcome(o, wk[w].answer, tail)
        BY <2>3, <3>2 DEF ReconcileApplies, Final, Terminal
      <3>4. QED
        BY <1>2, <3>1, <3>2, <3>3, ApplyKeepsPromise DEF IInv, Open
    <2>4. ASSUME NEW w \in Workers, GiveUp(w)
          PROVE  Promise!Next \/ UNCHANGED Promise!cashVars
      <3>1. CASE UNCHANGED <<funds, outcomes>>
        BY <1>2, <3>1, PhaseStutters DEF funds, outcomes, IInv
      <3>2. CASE ~UNCHANGED <<funds, outcomes>>
        <4>1. PICK o \in Requests : o = wk[w].order
          BY <1>2, <2>4 DEF GiveUp, MustReschedule, IInv, WorkersInv
        <4>2. status[o] = "UNKNOWN"
          BY <1>2, <2>4, <4>1 DEF GiveUp, MustReschedule, IInv, LeasesInv, ActiveJob
        <4>3. /\ ReleaseFunds(o)
              /\ status' = [status EXCEPT ![o] = "FAILED"]
          BY <2>4, <3>2, <4>1, <4>2 DEF GiveUp, GivenUp
        <4>4. /\ status'[o] = "FAILED"
              /\ \A p \in Requests \ {o} : status'[p] = status[p]
          BY <1>2, <4>3 DEF IInv, TypeOK, RowTypes
        <4>5. Phase' = [Phase EXCEPT ![o] = "returned"] /\ Phase[o] = "held"
          BY <4>2, <4>4, PhaseMoves DEF Phase, Open
        <4>6. Promise!GiveBack(o)
          BY <4>3, <4>5 DEF Promise!GiveBack, ReleaseFunds
        <4>7. QED
          BY <4>6 DEF Promise!Next
      <3>3. QED
        BY <3>1, <3>2
    <2>5. ASSUME NEW r \in Requests, SubmissionUnknown(r)
          PROVE  UNCHANGED Promise!cashVars
      BY <1>2, <2>5, PhaseStutters DEF SubmissionUnknown, MarkUnknown, funds, IInv, RequestsInv, TypeOK,
                                       RowTypes, Open
    <2>6. CASE UNCHANGED <<funds, outcomes>>
      BY <1>2, <2>6, PhaseStutters DEF funds, outcomes, IInv
    <2>7. CASE UNCHANGED platform
      BY <1>2, <2>7, PhaseStutters DEF platform, funds, outcomes, IInv
    <2>8. QED
      BY <1>2, <2>1, <2>2, <2>3, <2>4, <2>5, <2>6, <2>7
         DEF Next, Customer, Submission, Reconciliation, Faults, Preview, QuoteExpires, Replay, Refuse,
             SubmitAnswered, SubmitFails, LateSubmit, SubmissionThrows, RequestStops, LeasesExpire,
             Claim, Find, ReconcileThrows, ReconcileAborts, Requeue, WorkerStops, vars
  <1>3. IInv /\ [Next]_vars => [Promise!Next]_Promise!cashVars
    BY <1>2
  <1>4. QED
    BY <1>1, <1>3, Invariance, PTL DEF Spec, CashPromiseKept, Promise!Spec

-----------------------------------------------------------------------------
(* The rows of an order tell one story, the balances of the account agree    *)
(* with them, and what they tell is what the brokerage has recorded.         *)
(*                                                                           *)
(* Every step that writes rows does one of four things to one order          *)
(* (StepKinds): it opens it, ends it by an answer, leaves it unknown, or     *)
(* gives it up.  The invariants below are kept by each of the four.  The     *)
(* brokerage's side needs its own (BrokerInv): an answer that a process      *)
(* holds is final at the brokerage, and a late POST has no record there.     *)

(* What a step does to the rows of an order *)

Opens(o) ==
    /\ status[o] = "NONE"
    /\ \E a \in Amounts : a <= available /\ HoldFunds(o, a)
    /\ status' = [status EXCEPT ![o] = "PENDING_SUBMISSION"]
    /\ Log(o, <<<<"ORDER_CREATED", "SUCCESS">>>>)
    /\ UNCHANGED outbox

\* The audit entries between submission and fill.
Tails(s) == {<<>>, <<<<"ORDER_RECONCILED", IF s = "FILLED" THEN "SUCCESS" ELSE "FAILURE">>>>}

Ends(o) ==
    /\ status[o] \in Open
    /\ \E result \in Results : \E tail \in Tails(result.status) :
          result.status \in {"FILLED", "REJECTED"} /\ ApplyOutcome(o, result, tail)

Waits(o) ==
    /\ status[o] = "PENDING_SUBMISSION"
    /\ status' = [status EXCEPT ![o] = "UNKNOWN"]
    /\ Log(o, <<<<"ORDER_SUBMITTED", "UNKNOWN">>>>)
    /\ UNCHANGED <<funds, outbox>>

GivesUp(o) ==
    /\ status[o] \in {"UNKNOWN"} \cup Terminal
    /\ LeasesHold => status[o] = "UNKNOWN"
    /\ ReleaseFunds(o)
    /\ status' = [status EXCEPT ![o] = GivenUp(@)]
    /\ Log(o, <<<<"ORDER_RECONCILED", "FAILURE">>>>)
    /\ Publish(o, "FAILED")

LEMMA StepKinds ==
    ASSUME IInv, [Next]_vars
    PROVE  \/ UNCHANGED <<funds, outcomes>>
           \/ \E o \in Requests : Opens(o) \/ Ends(o) \/ Waits(o) \/ GivesUp(o)
<1>1. ASSUME NEW r \in Requests, NEW k \in Keys, NEW q \in Quotes, Prepare(r, k, q)
      PROVE  Opens(r)
  <2>1. quote[q].amount \in Amounts
    BY <1>1 DEF Prepare, IInv, TypeOK, RowTypes
  <2>2. status[r] = "NONE" /\ quote[q].amount <= available
    BY <1>1, <2>1, AmountsAreNat DEF Prepare, Affords, IInv, RequestsInv, TypeOK, CashTypes
  <2>3. QED
    BY <1>1, <2>1, <2>2 DEF Prepare, Opens
<1>2. ASSUME NEW r \in Requests, SubmissionApplies(r)
      PROVE  Ends(r)
  <2>1. /\ status[r] = "PENDING_SUBMISSION" /\ req[r].answer \in Answers
        /\ req[r].answer.status \in {"FILLED", "REJECTED"}
    BY <1>2 DEF SubmissionApplies, IInv, RequestsInv, TypeOK, ProcessTypes, RequestStates
  <2>2. req[r].answer \in Results
    BY <2>1 DEF Answers, NoResult, Transport
  <2>3. ApplyOutcome(r, req[r].answer, <<>>)
    BY <1>2, <2>1 DEF SubmissionApplies, Final, Terminal
  <2>4. QED
    BY <2>1, <2>2, <2>3 DEF Ends, Open, Tails
<1>3. ASSUME NEW r \in Requests, SubmissionUnknown(r)
      PROVE  Waits(r)
  BY <1>3 DEF SubmissionUnknown, MarkUnknown, Waits, IInv, RequestsInv, Open
<1>4. ASSUME NEW w \in Workers, wk[w].pc # "idle"
      PROVE  /\ wk[w].order \in Requests
             /\ status[wk[w].order] \in {"UNKNOWN"} \cup Terminal
             /\ LeasesHold => status[wk[w].order] = "UNKNOWN"
  <2>1. wk[w].order \in Requests /\ job[wk[w].order].status # "NONE"
    BY <1>4 DEF IInv, WorkersInv
  <2>2. LeasesHold => status[wk[w].order] = "UNKNOWN"
    BY <1>4, <2>1 DEF IInv, LeasesInv, ActiveJob
  <2>3. OrderInv(wk[w].order) /\ status[wk[w].order] \in {"NONE"} \cup Open \cup Terminal
    BY <2>1 DEF IInv, OrdersInv, TypeOK, RowTypes
  <2>4. QED
    BY <2>1, <2>2, <2>3 DEF OrderInv, Open
<1>5. ASSUME NEW w \in Workers, ReconcileApplies(w)
      PROVE  UNCHANGED <<funds, outcomes>> \/ \E o \in Requests : Ends(o)
  <2> DEFINE o == wk[w].order
             answer == wk[w].answer
             tail == <<<<"ORDER_RECONCILED", IF answer.status = "FILLED" THEN "SUCCESS"
                                                                         ELSE "FAILURE">>>>
  <2>1. /\ o \in Requests /\ answer \in Answers /\ answer.status \in {"FILLED", "REJECTED"}
        /\ status[o] \in {"UNKNOWN"} \cup Terminal
    BY <1>4, <1>5 DEF ReconcileApplies, IInv, TypeOK, ProcessTypes, WorkerStates
  <2>2. answer \in Results
    BY <2>1 DEF Answers, NoResult, Transport
  <2>3. CASE Final(o)
    BY <1>5, <2>3 DEF ReconcileApplies
  <2>4. CASE ~ Final(o)
    <3>1. ApplyOutcome(o, answer, tail)
      BY <1>5, <2>4 DEF ReconcileApplies
    <3>2. status[o] \in Open
      BY <2>1, <2>4 DEF Final, Open
    <3>3. tail \in Tails(answer.status)
      BY DEF Tails
    <3>4. Ends(o)
      BY <2>1, <2>2, <3>1, <3>2, <3>3 DEF Ends
    <3>5. QED
      BY <2>1, <3>4
  <2>5. QED
    BY <2>3, <2>4
<1>6. ASSUME NEW w \in Workers, GiveUp(w)
      PROVE  UNCHANGED <<funds, outcomes>> \/ \E o \in Requests : GivesUp(o)
  <2>1. CASE UNCHANGED <<funds, outcomes>>
    BY <2>1
  <2>2. CASE ~ UNCHANGED <<funds, outcomes>>
    <3>1. GivesUp(wk[w].order) /\ wk[w].order \in Requests
      BY <1>4, <1>6, <2>2 DEF GiveUp, MustReschedule, GivesUp
    <3>2. QED
      BY <3>1
  <2>3. QED
    BY <2>1, <2>2
<1>7. CASE UNCHANGED platform
  BY <1>7 DEF platform
<1>8. QED
  BY <1>1, <1>2, <1>3, <1>5, <1>6, <1>7
     DEF Next, Customer, Submission, Reconciliation, Faults, Preview, QuoteExpires, Replay, Refuse,
         SubmitAnswered, SubmitFails, LateSubmit, SubmissionThrows, RequestStops, LeasesExpire,
         Claim, Find, ReconcileThrows, ReconcileAborts, Requeue, WorkerStops, vars

-----------------------------------------------------------------------------
(* Audit trails *)

Actions == {"ORDER_CREATED", "ORDER_SUBMITTED", "ORDER_FILLED", "ORDER_RECONCILED"}
Marks   == {"SUCCESS", "FAILURE", "UNKNOWN"}
Events  == Actions \X Marks

\* Where a trail tells of a fill, and whether it tells of a failure.
FillsIn(s) == {i \in DOMAIN s : s[i][1] = "ORDER_FILLED"}
NoFailure(s) == \A i \in DOMAIN s : s[i][2] # "FAILURE"

Entry(a, b) == <<<<a, b>>>>

LEMMA EntryTypes ==
    ASSUME NEW a \in Actions, NEW b \in Marks
    PROVE  /\ Entry(a, b) \in Seq(Events)
           /\ a # "ORDER_FILLED" => FillsIn(Entry(a, b)) = {}
           /\ a = "ORDER_FILLED" => FillsIn(Entry(a, b)) = {1}
           /\ b # "FAILURE" => NoFailure(Entry(a, b))
BY DEF Entry, Events, FillsIn, NoFailure

LEMMA EmptyTypes == <<>> \in Seq(Events) /\ FillsIn(<<>>) = {} /\ NoFailure(<<>>)
BY DEF FillsIn, NoFailure

\* Two trails one after the other, of which one at most tells of a fill.
LEMMA TrailsJoin ==
    ASSUME NEW s \in Seq(Events), NEW t \in Seq(Events)
    PROVE  /\ s \o t \in Seq(Events)
           /\ FillsIn(t) = {} => FillsIn(s \o t) = FillsIn(s)
           /\ (FillsIn(s) = {} /\ \E i : FillsIn(t) = {i}) => \E i : FillsIn(s \o t) = {i}
           /\ NoFailure(s) /\ NoFailure(t) => NoFailure(s \o t)
<1>1. /\ s \o t \in Seq(Events)
      /\ Len(s \o t) = Len(s) + Len(t)
      /\ \A i \in 1 .. Len(s) + Len(t) :
            (s \o t)[i] = IF i <= Len(s) THEN s[i] ELSE t[i - Len(s)]
  BY ConcatProperties
<1>2. /\ Len(s) \in Nat /\ DOMAIN s = 1 .. Len(s)
      /\ Len(t) \in Nat /\ DOMAIN t = 1 .. Len(t)
      /\ DOMAIN (s \o t) = 1 .. Len(s) + Len(t)
  BY <1>1, LenProperties
<1> DEFINE st == s \o t
<1> HIDE DEF st
<1>3. /\ DOMAIN st = 1 .. Len(s) + Len(t)
      /\ \A i \in 1 .. Len(s) : st[i] = s[i]
      /\ \A i \in 1 .. Len(t) : st[Len(s) + i] = t[i]
  BY <1>1, <1>2 DEF st
<1>4. \A i \in DOMAIN st : \/ i \in DOMAIN s /\ st[i] = s[i]
                           \/ i - Len(s) \in DOMAIN t /\ st[i] = t[i - Len(s)]
  <2> SUFFICES ASSUME NEW i \in DOMAIN st
               PROVE  \/ i \in DOMAIN s /\ st[i] = s[i]
                      \/ i - Len(s) \in DOMAIN t /\ st[i] = t[i - Len(s)]
    OBVIOUS
  <2>1. i \in Nat /\ 1 <= i /\ i <= Len(s) + Len(t)
    BY <1>2, <1>3
  <2>2. CASE i <= Len(s)
    BY <1>2, <1>3, <2>1, <2>2
  <2>3. CASE i > Len(s)
    <3>1. i - Len(s) \in 1 .. Len(t)
      BY <1>2, <2>1, <2>3
    <3>2. Len(s) + (i - Len(s)) = i
      BY <1>2, <2>1
    <3>3. QED
      BY <1>2, <1>3, <3>1, <3>2
  <2>4. QED
    BY <1>2, <2>1, <2>2, <2>3
<1>5. \A i \in DOMAIN s : i \in DOMAIN st /\ st[i] = s[i]
  BY <1>2, <1>3
<1>6. \A i \in DOMAIN t : Len(s) + i \in DOMAIN st /\ st[Len(s) + i] = t[i]
  BY <1>2, <1>3
<1>7. ASSUME FillsIn(t) = {} PROVE FillsIn(st) = FillsIn(s)
  BY <1>4, <1>5, <1>7 DEF FillsIn
<1>8. ASSUME FillsIn(s) = {}, NEW j, FillsIn(t) = {j} PROVE FillsIn(st) = {Len(s) + j}
  <2>1. j \in DOMAIN t /\ t[j][1] = "ORDER_FILLED"
    BY <1>8 DEF FillsIn
  <2>2. Len(s) + j \in FillsIn(st)
    BY <1>6, <2>1 DEF FillsIn
  <2>3. ASSUME NEW i \in FillsIn(st) PROVE i = Len(s) + j
    <3>1. i \in DOMAIN st /\ st[i][1] = "ORDER_FILLED"
      BY DEF FillsIn
    <3>2. i - Len(s) \in FillsIn(t)
      BY <1>4, <1>8, <3>1 DEF FillsIn
    <3>3. i - Len(s) = j /\ i \in Nat
      BY <1>2, <1>3, <1>8, <3>1, <3>2
    <3>4. QED
      BY <1>2, <3>3
  <2>4. QED
    BY <2>2, <2>3
<1>9. ASSUME NoFailure(s), NoFailure(t) PROVE NoFailure(st)
  BY <1>4, <1>9 DEF NoFailure
<1>10. QED
  BY <1>1, <1>7, <1>8, <1>9 DEF st

-----------------------------------------------------------------------------
(* The rows of each order agree *)

RowsInv ==
    /\ audit \in [Requests -> Seq(Events)]
    /\ IsFiniteSet(Filled) /\ position = Cardinality(Filled)
    /\ \A o \in Requests :
          /\ "SETTLE" \in ledger[o] <=> status[o] = "FILLED"
          /\ IF status[o] = "FILLED" THEN \E i : FillsIn(audit[o]) = {i}
                                     ELSE FillsIn(audit[o]) = {}

ReleasesInv ==
    \A o \in Requests :
        /\ "RELEASE" \in ledger[o] <=> status[o] \in {"REJECTED", "FAILED"}
        /\ status[o] \notin {"REJECTED", "FAILED"} => NoFailure(audit[o])

\* A step writes the rows of order o: what it makes of the ledger and of the
\* trail, the others' rows being left alone.
WritesRows(o, entries, trail) ==
    /\ ledger' \in [Requests -> SUBSET {"RESERVE", "SETTLE", "RELEASE"}]
    /\ status' \in [Requests -> {"NONE"} \cup Open \cup Terminal]
    /\ audit' \in [Requests -> Seq(Events)]
    /\ ledger'[o] = entries
    /\ audit'[o] = audit[o] \o trail
    /\ \A p \in Requests \ {o} : /\ status'[p] = status[p] /\ ledger'[p] = ledger[p]
                                 /\ audit'[p] = audit[p] /\ reservation'[p] = reservation[p]
                                 /\ execution'[p] = execution[p] /\ amount'[p] = amount[p]

LEMMA LogTypes ==
    ASSUME audit \in [Requests -> Seq(Events)], NEW o \in Requests, NEW trail \in Seq(Events),
           Log(o, trail)
    PROVE  /\ audit' \in [Requests -> Seq(Events)]
           /\ audit'[o] = audit[o] \o trail
           /\ \A p \in Requests \ {o} : audit'[p] = audit[p]
<1>1. audit[o] \o trail \in Seq(Events)
  BY ConcatProperties
<1>2. QED
  BY <1>1 DEF Log

Created1 == Entry("ORDER_CREATED", "SUCCESS")
Unknown1 == Entry("ORDER_SUBMITTED", "UNKNOWN")
GivenUp1 == Entry("ORDER_RECONCILED", "FAILURE")

LEMMA OpensRows ==
    ASSUME IInv, RowsInv, NEW o \in Requests, Opens(o)
    PROVE  /\ status'[o] = "PENDING_SUBMISSION"
           /\ WritesRows(o, {"RESERVE"}, Created1)
           /\ reservation[o] = "NONE" /\ reservation'[o] = "ACTIVE"
           /\ execution' = execution /\ position' = position
           /\ \E a \in Amounts : /\ a <= available /\ amount'[o] = a
                                 /\ available' = available - a /\ reserved' = reserved + a
<1>1. Created1 \in Seq(Events)
  BY EntryTypes DEF Actions, Marks, Created1
<1>2. /\ audit' \in [Requests -> Seq(Events)]
      /\ audit'[o] = audit[o] \o Created1
      /\ \A p \in Requests \ {o} : audit'[p] = audit[p]
  <2>1. Log(o, Created1)
    BY DEF Opens, Created1, Entry
  <2>2. QED
    BY <1>1, <2>1, LogTypes DEF RowsInv
<1>3. reservation[o] = "NONE"
  BY DEF IInv, OrdersInv, OrderInv, ReservationOf, Opens, Open
<1>4. PICK a \in Amounts : a <= available /\ HoldFunds(o, a)
  BY DEF Opens
<1>5. /\ ledger' \in [Requests -> SUBSET {"RESERVE", "SETTLE", "RELEASE"}]
      /\ ledger'[o] = {"RESERVE"} /\ reservation'[o] = "ACTIVE" /\ amount'[o] = a
      /\ \A p \in Requests \ {o} : /\ ledger'[p] = ledger[p] /\ reservation'[p] = reservation[p]
                                   /\ amount'[p] = amount[p]
  BY <1>4 DEF HoldFunds, IInv, TypeOK, CashTypes, RowTypes
<1>6. /\ status' \in [Requests -> {"NONE"} \cup Open \cup Terminal]
      /\ status'[o] = "PENDING_SUBMISSION"
      /\ \A p \in Requests \ {o} : status'[p] = status[p]
  BY DEF Opens, IInv, TypeOK, RowTypes, Open
<1>7. /\ execution' = execution /\ position' = position
      /\ available' = available - a /\ reserved' = reserved + a
  BY <1>4 DEF HoldFunds
<1>8. QED
  BY <1>2, <1>3, <1>4, <1>5, <1>6, <1>7 DEF WritesRows

LEMMA WaitsRows ==
    ASSUME IInv, RowsInv, NEW o \in Requests, Waits(o)
    PROVE  /\ status[o] = "PENDING_SUBMISSION" /\ status'[o] = "UNKNOWN"
           /\ WritesRows(o, ledger[o], Unknown1)
           /\ UNCHANGED funds
<1>1. Unknown1 \in Seq(Events)
  BY EntryTypes DEF Actions, Marks, Unknown1
<1>2. /\ audit' \in [Requests -> Seq(Events)]
      /\ audit'[o] = audit[o] \o Unknown1
      /\ \A p \in Requests \ {o} : audit'[p] = audit[p]
  <2>1. Log(o, Unknown1)
    BY DEF Waits, Unknown1, Entry
  <2>2. QED
    BY <1>1, <2>1, LogTypes DEF RowsInv
<1>3. /\ status' \in [Requests -> {"NONE"} \cup Open \cup Terminal]
      /\ status'[o] = "UNKNOWN"
      /\ \A p \in Requests \ {o} : status'[p] = status[p]
  BY DEF Waits, IInv, TypeOK, RowTypes, Open
<1>4. QED
  BY <1>2, <1>3 DEF Waits, WritesRows, funds, IInv, TypeOK, RowTypes

LEMMA GivesUpRows ==
    ASSUME IInv, RowsInv, NEW o \in Requests, GivesUp(o)
    PROVE  /\ status'[o] = IF status[o] = "UNKNOWN" THEN "FAILED" ELSE status[o]
           /\ WritesRows(o, ledger[o] \cup {"RELEASE"}, GivenUp1)
           /\ status[o] = "UNKNOWN" => reservation[o] = "ACTIVE"
           /\ reservation'[o] = IF reservation[o] = "ACTIVE" THEN "RELEASED" ELSE reservation[o]
           /\ available' = available + amount[o] /\ reserved' = reserved - amount[o]
           /\ UNCHANGED <<amount, execution, position>>
<1>1. GivenUp1 \in Seq(Events)
  BY EntryTypes DEF Actions, Marks, GivenUp1
<1>2. /\ audit' \in [Requests -> Seq(Events)]
      /\ audit'[o] = audit[o] \o GivenUp1
      /\ \A p \in Requests \ {o} : audit'[p] = audit[p]
  <2>1. Log(o, GivenUp1)
    BY DEF GivesUp, GivenUp1, Entry
  <2>2. QED
    BY <1>1, <2>1, LogTypes DEF RowsInv
<1>3. /\ status' \in [Requests -> {"NONE"} \cup Open \cup Terminal]
      /\ status'[o] = IF status[o] = "UNKNOWN" THEN "FAILED" ELSE status[o]
      /\ \A p \in Requests \ {o} : status'[p] = status[p]
  BY DEF GivesUp, GivenUp, IInv, TypeOK, RowTypes, Open, Terminal
<1>4. /\ ledger' \in [Requests -> SUBSET {"RESERVE", "SETTLE", "RELEASE"}]
      /\ ledger'[o] = ledger[o] \cup {"RELEASE"}
      /\ reservation'[o] = IF reservation[o] = "ACTIVE" THEN "RELEASED" ELSE reservation[o]
      /\ \A p \in Requests \ {o} : ledger'[p] = ledger[p] /\ reservation'[p] = reservation[p]
  BY DEF GivesUp, ReleaseFunds, CloseReservation, IInv, TypeOK, RowTypes
<1>5. /\ available' = available + amount[o] /\ reserved' = reserved - amount[o]
      /\ UNCHANGED <<amount, execution, position>>
  BY DEF GivesUp, ReleaseFunds
<1>6. status[o] = "UNKNOWN" => reservation[o] = "ACTIVE"
  BY DEF IInv, OrdersInv, OrderInv, ReservationOf, Open
<1>7. QED
  BY <1>2, <1>3, <1>4, <1>5, <1>6 DEF WritesRows

\* An answer that ends an order fills it, or gives its money back.
LEMMA EndsRows ==
    ASSUME IInv, RowsInv, NEW o \in Requests, Ends(o)
    PROVE  /\ status[o] \in Open /\ reservation[o] = "ACTIVE" /\ execution[o] = 0
           /\ amount' = amount
           /\ \E trail \in Seq(Events) :
                 \/ /\ status'[o] = "FILLED" /\ reservation'[o] = "SETTLED"
                    /\ WritesRows(o, ledger[o] \cup {"SETTLE"}, trail)
                    /\ NoFailure(trail) /\ \E i : FillsIn(trail) = {i}
                    /\ position' = position + 1 /\ reserved' = reserved - amount[o]
                    /\ execution'[o] \in Amounts /\ execution'[o] <= amount[o]
                    /\ available' = available + (amount[o] - execution'[o])
                 \/ /\ status'[o] = "REJECTED" /\ reservation'[o] = "RELEASED"
                    /\ WritesRows(o, ledger[o] \cup {"RELEASE"}, trail)
                    /\ FillsIn(trail) = {}
                    /\ UNCHANGED <<position, execution>>
                    /\ reserved' = reserved - amount[o] /\ available' = available + amount[o]
<1>1. status[o] \in Open /\ reservation[o] = "ACTIVE" /\ execution[o] = 0
  BY DEF IInv, OrdersInv, OrderInv, ReservationOf, Open, Ends
<1>2. PICK result \in Results : \E tail \in Tails(result.status) :
         result.status \in {"FILLED", "REJECTED"} /\ ApplyOutcome(o, result, tail)
  BY DEF Ends
<1>3. PICK tail \in Tails(result.status) : ApplyOutcome(o, result, tail)
  BY <1>2
<1>4. result.filled \in Amounts /\ result.status \in {"FILLED", "REJECTED"}
  BY <1>2 DEF Results
<1>5. /\ tail \in Seq(Events) /\ FillsIn(tail) = {}
      /\ result.status = "FILLED" => NoFailure(tail)
  <2>1. CASE tail = <<>>
    BY <2>1, EmptyTypes
  <2>2. CASE tail # <<>> /\ result.status = "FILLED"
    <3>1. tail = Entry("ORDER_RECONCILED", "SUCCESS")
      BY <2>2 DEF Tails, Entry
    <3>2. QED
      BY <3>1, EntryTypes DEF Actions, Marks
  <2>3. CASE tail # <<>> /\ result.status # "FILLED"
    <3>1. tail = Entry("ORDER_RECONCILED", "FAILURE")
      BY <2>3 DEF Tails, Entry
    <3>2. QED
      BY <2>3, <3>1, EntryTypes DEF Actions, Marks
  <2>4. QED
    BY <2>1, <2>2, <2>3
<1>6. /\ status' \in [Requests -> {"NONE"} \cup Open \cup Terminal]
      /\ status'[o] = result.status
      /\ \A p \in Requests \ {o} : status'[p] = status[p]
  BY <1>3, <1>4 DEF ApplyOutcome, IInv, TypeOK, RowTypes, Terminal
<1>7. CASE result.status = "FILLED"
  <2> DEFINE submitted == Entry("ORDER_SUBMITTED", "SUCCESS")
             filled == Entry("ORDER_FILLED", "SUCCESS")
             trail == submitted \o tail \o filled
  <2>1. /\ submitted \in Seq(Events) /\ FillsIn(submitted) = {} /\ NoFailure(submitted)
        /\ filled \in Seq(Events) /\ FillsIn(filled) = {1} /\ NoFailure(filled)
    BY EntryTypes DEF Actions, Marks
  <2> HIDE DEF submitted, filled
  <2>2. /\ submitted \o tail \in Seq(Events) /\ FillsIn(submitted \o tail) = {}
        /\ NoFailure(submitted \o tail)
    BY <1>5, <1>7, <2>1, TrailsJoin
  <2>3. trail \in Seq(Events) /\ NoFailure(trail) /\ \E i : FillsIn(trail) = {i}
    BY <2>1, <2>2, TrailsJoin
  <2>4. Log(o, trail) /\ SettleFunds(o, result.filled) /\ FillFits(o, result)
    BY <1>3, <1>7 DEF ApplyOutcome, submitted, filled, Entry
  <2> HIDE DEF trail
  <2>5. /\ audit' \in [Requests -> Seq(Events)]
        /\ audit'[o] = audit[o] \o trail
        /\ \A p \in Requests \ {o} : audit'[p] = audit[p]
    BY <2>3, <2>4, LogTypes DEF RowsInv
  <2>6. /\ ledger' \in [Requests -> SUBSET {"RESERVE", "SETTLE", "RELEASE"}]
        /\ ledger'[o] = ledger[o] \cup {"SETTLE"}
        /\ reservation'[o] = "SETTLED" /\ execution'[o] = result.filled
        /\ \A p \in Requests \ {o} : /\ ledger'[p] = ledger[p] /\ reservation'[p] = reservation[p]
                                     /\ execution'[p] = execution[p]
    BY <1>1, <2>4 DEF SettleFunds, CloseReservation, IInv, TypeOK, CashTypes, RowTypes
  <2>7. /\ position' = position + 1 /\ reserved' = reserved - amount[o] /\ amount' = amount
        /\ available' = available + (amount[o] - result.filled) /\ result.filled <= amount[o]
    BY <2>4 DEF SettleFunds, Refund, FillFits
  <2>8. WritesRows(o, ledger[o] \cup {"SETTLE"}, trail)
    BY <1>6, <2>5, <2>6, <2>7 DEF WritesRows
  <2>9. QED
    BY <1>1, <1>4, <1>6, <1>7, <2>3, <2>6, <2>7, <2>8
<1>8. CASE result.status = "REJECTED"
  <2> DEFINE submitted == Entry("ORDER_SUBMITTED", "FAILURE")
             trail == submitted \o tail
  <2>1. submitted \in Seq(Events) /\ FillsIn(submitted) = {}
    BY EntryTypes DEF Actions, Marks
  <2> HIDE DEF submitted
  <2>2. trail \in Seq(Events) /\ FillsIn(trail) = {}
    BY <1>5, <2>1, TrailsJoin
  <2>3. Log(o, trail) /\ ReleaseFunds(o)
    BY <1>3, <1>8 DEF ApplyOutcome, submitted, Entry
  <2> HIDE DEF trail
  <2>4. /\ audit' \in [Requests -> Seq(Events)]
        /\ audit'[o] = audit[o] \o trail
        /\ \A p \in Requests \ {o} : audit'[p] = audit[p]
    BY <2>2, <2>3, LogTypes DEF RowsInv
  <2>5. /\ ledger' \in [Requests -> SUBSET {"RESERVE", "SETTLE", "RELEASE"}]
        /\ ledger'[o] = ledger[o] \cup {"RELEASE"}
        /\ reservation'[o] = "RELEASED"
        /\ \A p \in Requests \ {o} : ledger'[p] = ledger[p] /\ reservation'[p] = reservation[p]
    BY <1>1, <2>3 DEF ReleaseFunds, CloseReservation, IInv, TypeOK, RowTypes
  <2>6. /\ UNCHANGED <<amount, execution, position>>
        /\ reserved' = reserved - amount[o] /\ available' = available + amount[o]
    BY <2>3 DEF ReleaseFunds
  <2>7. WritesRows(o, ledger[o] \cup {"RELEASE"}, trail)
    BY <1>6, <2>4, <2>5, <2>6 DEF WritesRows
  <2>8. QED
    BY <1>1, <1>6, <1>8, <2>2, <2>5, <2>6, <2>7
<1>9. QED
  BY <1>4, <1>7, <1>8

\* What the trail and the ledger of the order become keeps the invariant, if
\* the count of fills goes with them.
LEMMA RowsKept ==
    ASSUME RowsInv, NEW o \in Requests, NEW entries, NEW trail \in Seq(Events),
           WritesRows(o, entries, trail),
           "SETTLE" \in entries <=> status'[o] = "FILLED",
           \/ /\ status[o] # "FILLED" /\ status'[o] = "FILLED" /\ \E i : FillsIn(trail) = {i}
              /\ execution[o] = 0 /\ execution'[o] # 0 /\ position' = position + 1
           \/ /\ status[o] = "FILLED" <=> status'[o] = "FILLED"
              /\ FillsIn(trail) = {} /\ UNCHANGED <<execution, position>>
    PROVE  RowsInv'
<1>1. audit[o] \in Seq(Events) /\ audit' \in [Requests -> Seq(Events)]
  BY DEF RowsInv, WritesRows
<1>2. IF status'[o] = "FILLED" THEN \E i : FillsIn(audit'[o]) = {i} ELSE FillsIn(audit'[o]) = {}
  <2>1. audit'[o] = audit[o] \o trail
    BY DEF WritesRows
  <2>2. IF status[o] = "FILLED" THEN \E i : FillsIn(audit[o]) = {i} ELSE FillsIn(audit[o]) = {}
    BY DEF RowsInv
  <2>3. /\ FillsIn(trail) = {} => FillsIn(audit[o] \o trail) = FillsIn(audit[o])
        /\ (FillsIn(audit[o]) = {} /\ \E i : FillsIn(trail) = {i}) =>
              \E i : FillsIn(audit[o] \o trail) = {i}
    BY <1>1, TrailsJoin
  <2>4. QED
    BY <2>1, <2>2, <2>3
<1>3. IsFiniteSet(Filled') /\ position' = Cardinality(Filled')
  <2>1. CASE UNCHANGED <<execution, position>>
    BY <2>1 DEF RowsInv, Filled
  <2>2. CASE execution[o] = 0 /\ execution'[o] # 0 /\ position' = position + 1
    <3>1. Filled' = Filled \cup {o} /\ o \notin Filled
      BY <2>2 DEF Filled, WritesRows
    <3>2. IsFiniteSet(Filled) /\ position = Cardinality(Filled)
      BY DEF RowsInv
    <3>3. IsFiniteSet(Filled \cup {o}) /\ Cardinality(Filled \cup {o}) = Cardinality(Filled) + 1
      BY <3>1, <3>2, FS_AddElement
    <3>4. QED
      BY <2>2, <3>1, <3>2, <3>3
  <2>3. QED
    BY <2>1, <2>2
<1>4. \A p \in Requests :
         /\ "SETTLE" \in ledger'[p] <=> status'[p] = "FILLED"
         /\ IF status'[p] = "FILLED" THEN \E i : FillsIn(audit'[p]) = {i}
                                     ELSE FillsIn(audit'[p]) = {}
  <2> SUFFICES ASSUME NEW p \in Requests
               PROVE  /\ "SETTLE" \in ledger'[p] <=> status'[p] = "FILLED"
                      /\ IF status'[p] = "FILLED" THEN \E i : FillsIn(audit'[p]) = {i}
                                                  ELSE FillsIn(audit'[p]) = {}
    OBVIOUS
  <2>1. CASE p = o
    BY <1>2, <2>1 DEF WritesRows
  <2>2. CASE p # o
    <3>1. status'[p] = status[p] /\ ledger'[p] = ledger[p] /\ audit'[p] = audit[p]
      BY <2>2 DEF WritesRows
    <3>2. QED
      BY <3>1 DEF RowsInv
  <2>3. QED
    BY <2>1, <2>2
<1>5. QED
  BY <1>1, <1>3, <1>4 DEF RowsInv

LEMMA RowsStep == IInv /\ RowsInv /\ [Next]_vars => RowsInv'
<1> SUFFICES ASSUME IInv, RowsInv, [Next]_vars PROVE RowsInv'
  OBVIOUS
<1>1. CASE UNCHANGED <<funds, outcomes>>
  BY <1>1 DEF RowsInv, Filled, funds, outcomes
<1>2. ASSUME NEW o \in Requests, Opens(o) PROVE RowsInv'
  <2>1. /\ status'[o] = "PENDING_SUBMISSION" /\ status[o] = "NONE"
        /\ WritesRows(o, {"RESERVE"}, Created1)
        /\ UNCHANGED <<execution, position>>
    BY <1>2, OpensRows DEF Opens
  <2>2. Created1 \in Seq(Events) /\ FillsIn(Created1) = {}
    BY EntryTypes DEF Actions, Marks, Created1
  <2>3. QED
    BY <2>1, <2>2, RowsKept
<1>3. ASSUME NEW o \in Requests, Waits(o) PROVE RowsInv'
  <2>1. /\ status[o] = "PENDING_SUBMISSION" /\ status'[o] = "UNKNOWN"
        /\ WritesRows(o, ledger[o], Unknown1)
        /\ UNCHANGED <<execution, position>>
    BY <1>3, WaitsRows DEF funds
  <2>2. Unknown1 \in Seq(Events) /\ FillsIn(Unknown1) = {}
    BY EntryTypes DEF Actions, Marks, Unknown1
  <2>3. "SETTLE" \notin ledger[o]
    BY <2>1 DEF RowsInv
  <2>4. QED
    BY <2>1, <2>2, <2>3, RowsKept
<1>4. ASSUME NEW o \in Requests, GivesUp(o) PROVE RowsInv'
  <2>1. /\ status'[o] = IF status[o] = "UNKNOWN" THEN "FAILED" ELSE status[o]
        /\ WritesRows(o, ledger[o] \cup {"RELEASE"}, GivenUp1)
        /\ UNCHANGED <<execution, position>>
    BY <1>4, GivesUpRows
  <2>2. GivenUp1 \in Seq(Events) /\ FillsIn(GivenUp1) = {}
    BY EntryTypes DEF Actions, Marks, GivenUp1
  <2>3. "SETTLE" \in ledger[o] \cup {"RELEASE"} <=> status'[o] = "FILLED"
    BY <2>1 DEF RowsInv
  <2>4. QED
    BY <2>1, <2>2, <2>3, RowsKept
<1>5. ASSUME NEW o \in Requests, Ends(o) PROVE RowsInv'
  <2>1. status[o] \in Open /\ execution[o] = 0 /\ amount' = amount
    BY <1>5, EndsRows
  <2>2. "SETTLE" \notin ledger[o] /\ status[o] # "FILLED"
    BY <2>1 DEF RowsInv, Open
  <2>3. PICK trail \in Seq(Events) :
           \/ /\ status'[o] = "FILLED" /\ WritesRows(o, ledger[o] \cup {"SETTLE"}, trail)
              /\ \E i : FillsIn(trail) = {i}
              /\ position' = position + 1 /\ execution'[o] \in Amounts
           \/ /\ status'[o] = "REJECTED" /\ WritesRows(o, ledger[o] \cup {"RELEASE"}, trail)
              /\ FillsIn(trail) = {} /\ UNCHANGED <<position, execution>>
    BY <1>5, EndsRows
  <2>4. \A a \in Amounts : a # 0
    OBVIOUS
  <2>5. QED
    BY <2>1, <2>2, <2>3, <2>4, RowsKept
<1>6. QED
  BY <1>1, <1>2, <1>3, <1>4, <1>5, StepKinds

LEMMA RowsStart == Init => RowsInv /\ ReleasesInv
<1> SUFFICES ASSUME Init PROVE RowsInv /\ ReleasesInv
  OBVIOUS
<1>1. Filled = {} /\ position = 0
  BY DEF Init, Filled
<1>2. IsFiniteSet(Filled) /\ position = Cardinality(Filled)
  BY <1>1, FS_EmptySet
<1>3. audit \in [Requests -> Seq(Events)]
  BY EmptyTypes DEF Init
<1>4. \A o \in Requests : /\ audit[o] = <<>> /\ status[o] = "NONE" /\ ledger[o] = {}
  BY DEF Init
<1>5. QED
  BY <1>2, <1>3, <1>4, EmptyTypes DEF RowsInv, ReleasesInv

LEMMA RowsAlways == Spec => [](IInv /\ RowsInv)
<1>1. Init => IInv /\ RowsInv
  BY InitInv, RowsStart
<1>2. (IInv /\ RowsInv) /\ [Next]_vars => (IInv /\ RowsInv)'
  BY StepInv, RowsStep
<1>3. QED
  BY <1>1, <1>2, PTL DEF Spec

LEMMA FillsOnce == IInv /\ RowsInv => FillsAgree
<1> SUFFICES ASSUME IInv, RowsInv PROVE FillsAgree
  OBVIOUS
<1>1. position = Cardinality(Filled)
  BY DEF RowsInv
<1>2. ASSUME NEW o \in Requests
      PROVE  /\ status[o] = "FILLED" <=> o \in Filled
             /\ status[o] = "FILLED" <=> "SETTLE" \in ledger[o]
             /\ status[o] = "FILLED" <=> reservation[o] = "SETTLED"
  BY DEF IInv, OrdersInv, OrderInv, ReservationOf, Filled, RowsInv, Open
<1>3. ASSUME NEW o \in Requests
      PROVE  Cardinality({i \in DOMAIN audit[o] : audit[o][i][1] = "ORDER_FILLED"})
                = IF status[o] = "FILLED" THEN 1 ELSE 0
  <2>1. Cardinality(FillsIn(audit[o])) = IF status[o] = "FILLED" THEN 1 ELSE 0
    <3>1. CASE status[o] = "FILLED"
      <4>1. PICK i : FillsIn(audit[o]) = {i}
        BY <3>1 DEF RowsInv
      <4>2. Cardinality({i}) = 1
        BY FS_Singleton
      <4>3. QED
        BY <3>1, <4>1, <4>2
    <3>2. CASE status[o] # "FILLED"
      BY <3>2, FS_EmptySet DEF RowsInv
    <3>3. QED
      BY <3>1, <3>2
  <2>2. QED
    BY <2>1 DEF FillsIn
<1>4. QED
  BY <1>1, <1>2, <1>3 DEF FillsAgree

\* However late an answer and however stale a worker, a fill is booked and told
\* once: in the execution, the position, the ledger, the trail and the event.
THEOREM SettlementIsBookedOnce == Spec => []SettledOnce
<1>1. IInv => EventTellsOutcome
  BY DEF IInv, OrdersInv, OrderInv, EventTellsOutcome
<1>2. IInv /\ RowsInv => SettledOnce
  BY <1>1, FillsOnce DEF SettledOnce
<1>3. QED
  BY <1>2, RowsAlways, PTL

LEMMA ReleasesStep ==
    ASSUME LeasesHold PROVE IInv /\ RowsInv /\ ReleasesInv /\ [Next]_vars => ReleasesInv'
<1> SUFFICES ASSUME IInv, RowsInv, ReleasesInv, [Next]_vars PROVE ReleasesInv'
  OBVIOUS
<1> DEFINE Ended == {"REJECTED", "FAILED"}
<1>1. CASE UNCHANGED <<funds, outcomes>>
  BY <1>1 DEF ReleasesInv, funds, outcomes
<1>2. ASSUME NEW o \in Requests, NEW entries, NEW trail \in Seq(Events),
             WritesRows(o, entries, trail),
             "RELEASE" \in entries <=> status'[o] \in Ended,
             status'[o] \notin Ended => status[o] \notin Ended /\ NoFailure(trail)
      PROVE  ReleasesInv'
  <2>1. /\ audit[o] \in Seq(Events) /\ audit'[o] = audit[o] \o trail /\ ledger'[o] = entries
        /\ \A p \in Requests \ {o} :
              status'[p] = status[p] /\ ledger'[p] = ledger[p] /\ audit'[p] = audit[p]
    BY <1>2 DEF RowsInv, WritesRows
  <2>2. status'[o] \notin Ended => NoFailure(audit'[o])
    BY <1>2, <2>1, TrailsJoin DEF ReleasesInv
  <2>3. QED
    BY <1>2, <2>1, <2>2 DEF ReleasesInv
<1>3. ASSUME NEW o \in Requests, Opens(o) PROVE ReleasesInv'
  <2>1. /\ status'[o] = "PENDING_SUBMISSION" /\ status[o] = "NONE"
        /\ WritesRows(o, {"RESERVE"}, Created1)
    BY <1>3, OpensRows DEF Opens
  <2>2. Created1 \in Seq(Events) /\ NoFailure(Created1)
    BY EntryTypes DEF Actions, Marks, Created1
  <2>3. QED
    BY <1>2, <2>1, <2>2
<1>4. ASSUME NEW o \in Requests, Waits(o) PROVE ReleasesInv'
  <2>1. /\ status[o] = "PENDING_SUBMISSION" /\ status'[o] = "UNKNOWN"
        /\ WritesRows(o, ledger[o], Unknown1)
    BY <1>4, WaitsRows
  <2>2. Unknown1 \in Seq(Events) /\ NoFailure(Unknown1)
    BY EntryTypes DEF Actions, Marks, Unknown1
  <2>3. "RELEASE" \notin ledger[o]
    BY <2>1 DEF ReleasesInv
  <2>4. QED
    BY <1>2, <2>1, <2>2, <2>3
<1>5. ASSUME NEW o \in Requests, GivesUp(o) PROVE ReleasesInv'
  <2>1. status'[o] = "FAILED" /\ WritesRows(o, ledger[o] \cup {"RELEASE"}, GivenUp1)
    BY <1>5, GivesUpRows DEF GivesUp
  <2>2. GivenUp1 \in Seq(Events)
    BY EntryTypes DEF Actions, Marks, GivenUp1
  <2>3. QED
    BY <1>2, <2>1, <2>2
<1>6. ASSUME NEW o \in Requests, Ends(o) PROVE ReleasesInv'
  <2>1. status[o] \in Open
    BY <1>6, EndsRows
  <2>2. "RELEASE" \notin ledger[o]
    BY <2>1 DEF ReleasesInv, Open
  <2>3. PICK trail \in Seq(Events) :
           \/ /\ status'[o] = "FILLED" /\ WritesRows(o, ledger[o] \cup {"SETTLE"}, trail)
              /\ NoFailure(trail)
           \/ status'[o] = "REJECTED" /\ WritesRows(o, ledger[o] \cup {"RELEASE"}, trail)
    BY <1>6, EndsRows
  <2>4. QED
    BY <1>2, <2>1, <2>2, <2>3 DEF Open
<1>7. QED
  BY <1>1, <1>3, <1>4, <1>5, <1>6, StepKinds

\* While leases hold, execution, position, ledger, reservation, status and
\* audit trail of an order tell of the same fill or of the same release.
THEOREM RowsTellOneStory == ASSUME LeasesHold PROVE Spec => []RowsAgree
<1>1. Init => IInv /\ RowsInv /\ ReleasesInv
  BY InitInv, RowsStart
<1>2. (IInv /\ RowsInv /\ ReleasesInv) /\ [Next]_vars => (IInv /\ RowsInv /\ ReleasesInv)'
  BY StepInv, RowsStep, ReleasesStep
<1>3. IInv /\ ReleasesInv => ReleasesAgree
  <2> SUFFICES ASSUME IInv, ReleasesInv, NEW o \in Requests
               PROVE  /\ status[o] \in {"REJECTED", "FAILED"} <=> "RELEASE" \in ledger[o]
                      /\ status[o] \in {"REJECTED", "FAILED"} <=> reservation[o] = "RELEASED"
                      /\ status[o] = "FILLED" =>
                            \A i \in DOMAIN audit[o] : audit[o][i][2] # "FAILURE"
    BY DEF ReleasesAgree
  <2>1. status[o] \in {"NONE"} \cup Open \cup Terminal
    BY DEF IInv, TypeOK, RowTypes
  <2>2. QED
    BY <2>1 DEF ReleasesInv, NoFailure, IInv, OrdersInv, OrderInv, ReservationOf, Open, Terminal
<1>4. IInv /\ RowsInv /\ ReleasesInv => RowsAgree
  BY <1>3, FillsOnce DEF RowsAgree
<1>5. QED
  BY <1>1, <1>2, <1>4, PTL DEF Spec

-----------------------------------------------------------------------------
(* The balances of the account *)

LEMMA UnitsAdd ==
    ASSUME NEW S, NEW o, o \notin S, NEW f, NEW g, NEW n \in Nat,
           \A p \in S : g[p] = f[p], g[o] = n, IsFiniteSet(Units(f, S))
    PROVE  /\ IsFiniteSet(Units(g, S \cup {o}))
           /\ Cardinality(Units(g, S \cup {o})) = Cardinality(Units(f, S)) + n
<1> DEFINE new == {o} \X (1..n)
<1>1. Units(g, S \cup {o}) = Units(f, S) \cup new
  BY DEF Units
<1>2. Units(f, S) \cap new = {}
  BY DEF Units
<1>3. IsFiniteSet(new) /\ Cardinality(new) = n
  <2>1. IsFiniteSet({o}) /\ Cardinality({o}) = 1
    BY FS_Singleton
  <2>2. IsFiniteSet(1..n) /\ Cardinality(1..n) = n
    BY FS_Interval
  <2>3. IsFiniteSet(new) /\ Cardinality(new) = Cardinality({o}) * Cardinality(1..n)
    BY <2>1, <2>2, FS_Product
  <2>4. 1 * n = n
    OBVIOUS
  <2>5. QED
    BY <2>1, <2>2, <2>3, <2>4
<1> HIDE DEF new
<1>4. /\ IsFiniteSet(Units(f, S) \cup new)
      /\ Cardinality(Units(f, S) \cup new)
            = Cardinality(Units(f, S)) + Cardinality(new) - Cardinality(Units(f, S) \cap new)
  BY <1>3, FS_Union
<1>5. Cardinality(Units(f, S)) \in Nat
  BY FS_CardinalityType
<1>6. Cardinality(Units(f, S) \cap new) = 0
  BY <1>2, FS_EmptySet
<1>7. Cardinality(Units(f, S) \cup new) = Cardinality(Units(f, S)) + n
  BY <1>3, <1>4, <1>5, <1>6
<1>8. QED
  BY <1>1, <1>4, <1>7

LEMMA UnitsRemove ==
    ASSUME NEW S, NEW o \in S, NEW f, f[o] \in Nat, IsFiniteSet(Units(f, S))
    PROVE  /\ IsFiniteSet(Units(f, S \ {o}))
           /\ Cardinality(Units(f, S \ {o})) = Cardinality(Units(f, S)) - f[o]
<1>1. Units(f, S \ {o}) \subseteq Units(f, S)
  BY DEF Units
<1>2. IsFiniteSet(Units(f, S \ {o}))
  BY <1>1, FS_Subset
<1>3. (S \ {o}) \cup {o} = S
  OBVIOUS
<1>4. Cardinality(Units(f, (S \ {o}) \cup {o})) = Cardinality(Units(f, S \ {o})) + f[o]
  BY <1>2, UnitsAdd
<1>5. Cardinality(Units(f, S \ {o})) \in Nat
  BY <1>2, FS_CardinalityType
<1>6. Cardinality(Units(f, S)) = Cardinality(Units(f, S \ {o})) + f[o]
  BY <1>3, <1>4
<1>7. QED
  BY <1>2, <1>5, <1>6

LEMMA FilledAdd ==
    ASSUME NEW o \in Requests, o \notin Filled,
           \A p \in Filled : execution'[p] = execution[p],
           NEW n, n \in Nat, execution'[o] = n, IsFiniteSet(Units(execution, Filled))
    PROVE  /\ IsFiniteSet(Units(execution', Filled \cup {o}))
           /\ Cardinality(Units(execution', Filled \cup {o}))
                = Cardinality(Units(execution, Filled)) + n
BY UnitsAdd

LEMMA MovesAddUp ==
    ASSUME NEW a \in Nat, NEW r \in Nat, NEW s \in Nat, NEW m \in Nat, NEW n \in Nat,
           a + r + s = InitialCash
    PROVE  (a + (m - n)) + (r - m) + (s + n) = InitialCash
OBVIOUS

BalancesInv ==
    /\ IsFiniteSet(Units(amount, Held)) /\ reserved = Cardinality(Units(amount, Held))
    /\ IsFiniteSet(Units(execution, Filled))
    /\ available + reserved + Cardinality(Units(execution, Filled)) = InitialCash

LEMMA BalancesStep ==
    ASSUME LeasesHold PROVE IInv /\ RowsInv /\ BalancesInv /\ [Next]_vars => BalancesInv'
<1> SUFFICES ASSUME IInv, RowsInv, BalancesInv, [Next]_vars PROVE BalancesInv'
  OBVIOUS
<1> DEFINE spent == Cardinality(Units(execution, Filled))
<1>1. /\ available \in Nat /\ reserved \in Nat /\ spent \in Nat
      /\ \A o \in Requests : amount[o] \in Nat
  BY FS_CardinalityType, AmountIsNat DEF BalancesInv, IInv, TypeOK, CashTypes
<1>2. CASE UNCHANGED <<funds, outcomes>>
  BY <1>2 DEF BalancesInv, Held, Filled, Units, funds, outcomes
\* An order whose reservation closes no longer counts among the held ones.
<1>3. ASSUME NEW o \in Requests, reservation[o] = "ACTIVE", reservation'[o] # "ACTIVE",
             \A p \in Requests \ {o} : reservation'[p] = reservation[p],
             amount' = amount, reserved' = reserved - amount[o]
      PROVE  /\ IsFiniteSet(Units(amount', Held'))
             /\ reserved' = Cardinality(Units(amount', Held'))
  <2>1. Held' = Held \ {o} /\ o \in Held
    BY <1>3 DEF Held
  <2>2. /\ IsFiniteSet(Units(amount, Held \ {o}))
        /\ Cardinality(Units(amount, Held \ {o})) = Cardinality(Units(amount, Held)) - amount[o]
    BY <1>1, <2>1, UnitsRemove DEF BalancesInv
  <2>3. QED
    BY <1>3, <2>1, <2>2 DEF BalancesInv
<1>4. ASSUME UNCHANGED execution
      PROVE  Units(execution', Filled') = Units(execution, Filled)
  BY <1>4 DEF Filled, Units
<1>5. ASSUME NEW o \in Requests, Opens(o) PROVE BalancesInv'
  <2>1. PICK a \in Amounts : /\ a <= available /\ amount'[o] = a
                             /\ available' = available - a /\ reserved' = reserved + a
    BY <1>5, OpensRows
  <2>2. /\ reservation[o] = "NONE" /\ reservation'[o] = "ACTIVE" /\ UNCHANGED execution
        /\ \A p \in Requests \ {o} : reservation'[p] = reservation[p] /\ amount'[p] = amount[p]
    BY <1>5, OpensRows DEF WritesRows
  <2>3. Held' = Held \cup {o} /\ o \notin Held /\ \A p \in Held : amount'[p] = amount[p]
    BY <2>2 DEF Held
  <2>4. a \in Nat
    BY AmountsAreNat
  <2>5. /\ IsFiniteSet(Units(amount', Held \cup {o}))
        /\ Cardinality(Units(amount', Held \cup {o})) = Cardinality(Units(amount, Held)) + a
    BY <2>1, <2>3, <2>4, UnitsAdd DEF BalancesInv
  <2>6. Units(execution', Filled') = Units(execution, Filled)
    BY <1>4, <2>2
  <2>7. QED
    BY <1>1, <2>1, <2>3, <2>4, <2>5, <2>6 DEF BalancesInv
<1>6. ASSUME NEW o \in Requests, Waits(o) PROVE BalancesInv'
  <2>1. UNCHANGED funds
    BY <1>6 DEF Waits
  <2>2. QED
    BY <2>1 DEF BalancesInv, Held, Filled, Units, funds
<1>7. ASSUME NEW o \in Requests, GivesUp(o) PROVE BalancesInv'
  <2>1. /\ reservation[o] = "ACTIVE" /\ reservation'[o] = "RELEASED"
        /\ \A p \in Requests \ {o} : reservation'[p] = reservation[p]
        /\ UNCHANGED <<amount, execution>>
        /\ available' = available + amount[o] /\ reserved' = reserved - amount[o]
    BY <1>7, GivesUpRows DEF WritesRows, GivesUp
  <2>2. Units(execution', Filled') = Units(execution, Filled)
    BY <1>4, <2>1
  <2>3. /\ IsFiniteSet(Units(amount', Held'))
        /\ reserved' = Cardinality(Units(amount', Held'))
    BY <1>3, <2>1
  <2>4. QED
    BY <1>1, <2>1, <2>2, <2>3 DEF BalancesInv
<1>8. ASSUME NEW o \in Requests, Ends(o) PROVE BalancesInv'
  <2>1. reservation[o] = "ACTIVE" /\ execution[o] = 0 /\ amount' = amount
    BY <1>8, EndsRows
  <2>2. PICK trail \in Seq(Events), entries \in SUBSET {"RESERVE", "SETTLE", "RELEASE"} :
           /\ WritesRows(o, entries, trail)
           /\ reservation'[o] # "ACTIVE" /\ reserved' = reserved - amount[o]
           /\ \/ /\ execution'[o] \in Amounts /\ execution'[o] <= amount[o]
                 /\ available' = available + (amount[o] - execution'[o])
              \/ UNCHANGED execution /\ available' = available + amount[o]
    <3>1. ledger[o] \in SUBSET {"RESERVE", "SETTLE", "RELEASE"}
      BY DEF IInv, TypeOK, RowTypes
    <3>2. QED
      BY <1>8, <3>1, EndsRows
  <2>3. /\ IsFiniteSet(Units(amount', Held'))
        /\ reserved' = Cardinality(Units(amount', Held'))
    BY <1>3, <2>1, <2>2 DEF WritesRows
  <2>4. CASE UNCHANGED execution /\ available' = available + amount[o]
    BY <1>1, <1>4, <2>2, <2>3, <2>4 DEF BalancesInv
  <2>5. CASE /\ execution'[o] \in Amounts /\ execution'[o] <= amount[o]
             /\ available' = available + (amount[o] - execution'[o])
    <3>1. PICK n \in Amounts : n = execution'[o] /\ n \in Nat /\ n # 0
      BY <2>5
    <3>2. /\ Filled' = Filled \cup {o} /\ o \notin Filled
          /\ \A p \in Filled : execution'[p] = execution[p]
      BY <2>1, <2>2, <3>1 DEF Filled, WritesRows
    <3>3. IsFiniteSet(Units(execution, Filled)) /\ execution'[o] = n
      BY <3>1 DEF BalancesInv
    <3>4. /\ IsFiniteSet(Units(execution', Filled \cup {o}))
          /\ Cardinality(Units(execution', Filled \cup {o}))
                = Cardinality(Units(execution, Filled)) + n
      BY <3>1, <3>2, <3>3, FilledAdd
    <3>5. available' = available + (amount[o] - n) /\ reserved' = reserved - amount[o]
      BY <2>2, <2>5, <3>1
    <3>6. available + reserved + Cardinality(Units(execution, Filled)) = InitialCash
      BY DEF BalancesInv
    <3>7. (available + (amount[o] - n)) + (reserved - amount[o])
             + (Cardinality(Units(execution, Filled)) + n) = InitialCash
      BY <1>1, <3>1, <3>6, MovesAddUp
    <3>8. QED
      BY <2>3, <3>2, <3>4, <3>5, <3>7 DEF BalancesInv
  <2>6. QED
    BY <2>2, <2>4, <2>5
<1>9. QED
  BY <1>2, <1>5, <1>6, <1>7, <1>8, StepKinds

\* While leases hold, the reserved balance is what the open orders hold, and
\* both balances with what was spent make up the cash of the start: no cash is
\* lost and none given back twice.
THEOREM BalancesAddUp == ASSUME LeasesHold PROVE Spec => []BalancesAgree
<1>1. Init => BalancesInv
  <2> SUFFICES ASSUME Init PROVE BalancesInv
    OBVIOUS
  <2>1. Held = {} /\ Filled = {}
    BY DEF Init, Held, Filled
  <2>2. Units(amount, Held) = {} /\ Units(execution, Filled) = {}
    BY <2>1 DEF Units
  <2>3. IsFiniteSet({}) /\ Cardinality({}) = 0
    BY FS_EmptySet
  <2>4. available = InitialCash /\ reserved = 0
    BY DEF Init
  <2>5. InitialCash + 0 + 0 = InitialCash
    OBVIOUS
  <2>6. QED
    BY <2>2, <2>3, <2>4, <2>5 DEF BalancesInv
<1>2. Init => IInv /\ RowsInv /\ BalancesInv
  BY <1>1, InitInv, RowsStart
<1>3. (IInv /\ RowsInv /\ BalancesInv) /\ [Next]_vars => (IInv /\ RowsInv /\ BalancesInv)'
  BY StepInv, RowsStep, BalancesStep
<1>4. BalancesInv => BalancesAgree
  BY DEF BalancesInv, BalancesAgree, ReservedIsHeld, CashConserved
<1>5. QED
  BY <1>2, <1>3, <1>4, PTL DEF Spec

-----------------------------------------------------------------------------
(* The brokerage's side *)

Decided == {"FILLED", "REJECTED"}

\* Only a POST that still travels can make a record, and a decided record is
\* what every answer about the order says from then on.
BrokerInv ==
    /\ \A r \in Requests :
          /\ status[r] = "NONE" \/ req[r].pc = "prepared" =>
                broker[r] = NoResult /\ r \notin late
          /\ r \in late => broker[r] = NoResult
          /\ req[r].pc = "answered" /\ req[r].answer.status \in Decided =>
                broker[r] = req[r].answer
          /\ status[r] \in Decided => broker[r].status = status[r]
          /\ execution[r] # 0 => execution[r] = broker[r].filled
    /\ \A w \in Workers :
          wk[w].pc = "answered" /\ wk[w].answer.status \in Decided =>
                broker[wk[w].order] = wk[w].answer

\* The brokerage decides an order once.
LEMMA BrokerFrame ==
    ASSUME IInv, IInv', BrokerInv,
           \A r \in Requests : broker[r].status \in Decided => broker'[r] = broker[r],
           UNCHANGED <<status, execution>>,
           \A r \in Requests : status[r] = "NONE" \/ req'[r].pc = "prepared" =>
                                  broker'[r] = NoResult /\ r \notin late',
           \A r \in Requests : r \in late' => broker'[r] = NoResult,
           \A r \in Requests : req'[r] = req[r] \/ req'[r].pc # "answered"
                                  \/ (req'[r].answer.status \in Decided => broker'[r] = req'[r].answer),
           \A w \in Workers : \/ wk'[w] = wk[w] \/ wk'[w].pc # "answered"
                              \/ /\ wk'[w].order = wk[w].order
                                 /\ wk'[w].answer.status \in Decided =>
                                       broker'[wk[w].order] = wk'[w].answer
    PROVE  BrokerInv'
<1>1. \A r \in Requests :
         /\ status'[r] = "NONE" \/ req'[r].pc = "prepared" =>
               broker'[r] = NoResult /\ r \notin late'
         /\ r \in late' => broker'[r] = NoResult
  OBVIOUS
<1>2. ASSUME NEW r \in Requests, req'[r].pc = "answered", req'[r].answer.status \in Decided
      PROVE  broker'[r] = req'[r].answer
  <2>1. CASE req'[r] = req[r]
    BY <1>2, <2>1 DEF BrokerInv
  <2>2. QED
    BY <1>2, <2>1
<1>3. ASSUME NEW r \in Requests
      PROVE  /\ status'[r] \in Decided => broker'[r].status = status'[r]
             /\ execution'[r] # 0 => execution'[r] = broker'[r].filled
  <2>1. execution[r] # 0 => status[r] \in Decided
    BY DEF IInv, OrdersInv, OrderInv, Decided
  <2>2. QED
    BY <2>1 DEF BrokerInv
<1>4. ASSUME NEW w \in Workers, wk'[w].pc = "answered", wk'[w].answer.status \in Decided
      PROVE  broker'[wk'[w].order] = wk'[w].answer
  <2>1. CASE wk'[w] = wk[w]
    <3>1. wk[w].order \in Requests
      BY <1>4, <2>1 DEF IInv, WorkersInv
    <3>2. QED
      BY <1>4, <2>1, <3>1 DEF BrokerInv
  <2>2. QED
    BY <1>4, <2>1
<1>5. QED
  BY <1>1, <1>2, <1>3, <1>4 DEF BrokerInv

\* An order that ends by the answer a process holds.
LEMMA BrokerEnds ==
    ASSUME IInv, BrokerInv, NEW o \in Requests, NEW result \in Results, NEW tail,
           result.status \in Decided, ApplyOutcome(o, result, tail), status[o] \in Open,
           broker[o] = result, UNCHANGED <<broker, late>>,
           \A r \in Requests : req'[r] = req[r] \/ req'[r].pc = "done",
           \A w \in Workers : wk'[w] = wk[w] \/ wk'[w].pc = "idle"
    PROVE  BrokerInv'
<1>1. /\ status'[o] = result.status
      /\ \A p \in Requests \ {o} : status'[p] = status[p] /\ execution'[p] = execution[p]
      /\ status'[o] = "FILLED" <=> execution'[o] # 0
  BY ApplyAgrees, ResultsAnswer DEF IInv, TypeOK, Decided
<1>2. result.status = "FILLED" => execution'[o] = result.filled
  <2>1. execution[o] = 0
    BY DEF IInv, OrdersInv, OrderInv, Open
  <2>2. QED
    BY <2>1 DEF ApplyOutcome, SettleFunds, IInv, TypeOK, CashTypes
<1>3. \A r \in Requests :
         /\ status'[r] \in Decided => broker[r].status = status'[r]
         /\ execution'[r] # 0 => execution'[r] = broker[r].filled
  BY <1>1, <1>2 DEF BrokerInv
<1>4. \A r \in Requests : status'[r] = "NONE" => status[r] = "NONE"
  BY <1>1 DEF Decided
<1>5. QED
  BY <1>3, <1>4 DEF BrokerInv

LEMMA BrokerStep == IInv /\ IInv' /\ BrokerInv /\ [Next]_vars => BrokerInv'
<1> SUFFICES ASSUME IInv, IInv', BrokerInv, [Next]_vars PROVE BrokerInv'
  OBVIOUS
<1>1. \A r \in Requests : broker[r] \in Results \cup {NoResult} /\ req[r] \in RequestStates
  BY DEF IInv, TypeOK, ProcessTypes
<1>2. ASSUME UNCHANGED <<broker, late, status, execution, wk>>,
             \A r \in Requests : req'[r] = req[r] \/ req'[r].pc \notin {"prepared", "answered"}
      PROVE  BrokerInv'
  BY <1>2, BrokerFrame DEF BrokerInv
<1>3. ASSUME UNCHANGED <<broker, late, status, execution, req>>,
             \A w \in Workers :
                \/ wk'[w] = wk[w]
                \/ wk'[w].pc \in {"idle", "claimed"}
                \/ (wk'[w].answer.status \notin Decided /\ wk'[w].order = wk[w].order)
      PROVE  BrokerInv'
  <2>1. \A w \in Workers : \/ wk'[w] = wk[w] \/ wk'[w].pc # "answered"
                           \/ (/\ wk'[w].order = wk[w].order
                               /\ wk'[w].answer.status \in Decided =>
                                       broker'[wk[w].order] = wk'[w].answer)
    BY <1>3
  <2>2. QED
    BY <1>3, <2>1, BrokerFrame DEF BrokerInv
<1>4. ASSUME NEW q \in Quotes, QuoteExpires(q) \/ \E a \in Amounts : Preview(q, a) PROVE BrokerInv'
  BY <1>2, <1>4 DEF QuoteExpires, Preview, funds, outcomes
<1>5. ASSUME NEW r \in Requests, NEW k \in Keys, NEW q \in Quotes,
             Replay(r, k, q) \/ Refuse(r, k, q)
      PROVE  BrokerInv'
  <2>1. /\ UNCHANGED <<broker, late, status, execution, wk>>
        /\ \A s \in Requests : req'[s] = req[s] \/ req'[s].pc \notin {"prepared", "answered"}
    BY <1>5 DEF Replay, Refuse, Answer, platform, funds, outcomes, IInv, TypeOK, ProcessTypes
  <2>2. QED
    BY <1>2, <2>1
<1>6. ASSUME NEW r \in Requests, NEW k \in Keys, NEW q \in Quotes, Prepare(r, k, q)
      PROVE  BrokerInv'
  <2>1. /\ status[r] = "NONE" /\ status'[r] = "PENDING_SUBMISSION"
        /\ \A s \in Requests \ {r} : status'[s] = status[s]
        /\ UNCHANGED <<broker, late, wk, execution>>
    BY <1>6 DEF Prepare, HoldFunds, IInv, RequestsInv, TypeOK, RowTypes
  <2>2. /\ req'[r].pc = "prepared"
        /\ \A s \in Requests \ {r} : req'[s] = req[s]
    BY <1>6 DEF Prepare, Answer, IInv, TypeOK, ProcessTypes
  <2>3. QED
    BY <2>1, <2>2 DEF BrokerInv, Decided
<1>7. ASSUME NEW r \in Requests, SubmitAnswered(r) PROVE BrokerInv'
  <2>1. PICK result \in Results : broker' = [broker EXCEPT ![r] = result] /\ Hear(r, result)
    BY <1>7 DEF SubmitAnswered
  <2>2. /\ req'[r].pc = "answered" /\ req'[r].answer = result
        /\ \A s \in Requests \ {r} : req'[s] = req[s]
    BY <2>1, HearTypes, ResultsAnswer DEF IInv, TypeOK
  <2>3. /\ req[r].pc = "prepared" /\ UNCHANGED <<late, wk, status, execution>>
        /\ status[r] = "PENDING_SUBMISSION"
    BY <1>7 DEF SubmitAnswered, platform, funds, outcomes, IInv, RequestsInv
  <2>4. broker[r] = NoResult /\ r \notin late
    BY <2>3 DEF BrokerInv
  <2>5. /\ broker'[r] = result /\ \A s \in Requests \ {r} : broker'[s] = broker[s]
    BY <2>1 DEF IInv, TypeOK, ProcessTypes
  <2>6. \A s \in Requests : broker[s].status \in Decided => broker'[s] = broker[s]
    BY <2>4, <2>5 DEF NoResult, Decided
  <2>7. \A s \in Requests : /\ status[s] = "NONE" \/ req'[s].pc = "prepared" =>
                                  broker'[s] = NoResult /\ s \notin late'
                            /\ s \in late' => broker'[s] = NoResult
    BY <2>2, <2>3, <2>4, <2>5 DEF BrokerInv
  <2>8. QED
    BY <2>2, <2>3, <2>5, <2>6, <2>7, BrokerFrame
<1>8. ASSUME NEW r \in Requests, SubmitFails(r) PROVE BrokerInv'
  <2>1. /\ req'[r].pc = "answered" /\ req'[r].answer = Transport
        /\ \A s \in Requests \ {r} : req'[s] = req[s]
    BY <1>8, HearTypes, ResultsAnswer DEF SubmitFails, IInv, TypeOK
  <2>2. /\ req[r].pc = "prepared" /\ UNCHANGED <<broker, wk, status, execution>>
        /\ status[r] = "PENDING_SUBMISSION" /\ late' \in {late, late \cup {r}}
    BY <1>8 DEF SubmitFails, platform, funds, outcomes, IInv, RequestsInv
  <2>3. broker[r] = NoResult
    BY <2>2 DEF BrokerInv
  <2>4. \A s \in Requests : /\ status[s] = "NONE" \/ req'[s].pc = "prepared" =>
                                  broker'[s] = NoResult /\ s \notin late'
                            /\ s \in late' => broker'[s] = NoResult
    BY <2>1, <2>2, <2>3 DEF BrokerInv
  <2>5. QED
    BY <2>1, <2>2, <2>4, BrokerFrame DEF Transport, Decided
<1>9. ASSUME NEW o \in Requests, LateSubmit(o) PROVE BrokerInv'
  <2>1. PICK result \in Results : broker' = [broker EXCEPT ![o] = result]
    BY <1>9 DEF LateSubmit
  <2>2. o \in late /\ late' = late \ {o} /\ UNCHANGED <<req, wk, status, execution>>
    BY <1>9 DEF LateSubmit, platform, funds, outcomes
  <2>3. broker[o] = NoResult /\ \A s \in Requests \ {o} : broker'[s] = broker[s]
    BY <2>1, <2>2 DEF BrokerInv, IInv, TypeOK, ProcessTypes
  <2>4. \A s \in Requests : broker[s].status \in Decided => broker'[s] = broker[s]
    BY <2>3 DEF NoResult, Decided
  <2>5. \A s \in Requests : /\ status[s] = "NONE" \/ req'[s].pc = "prepared" =>
                                  broker'[s] = NoResult /\ s \notin late'
                            /\ s \in late' => broker'[s] = NoResult
    BY <2>2, <2>3 DEF BrokerInv
  <2>6. QED
    BY <2>2, <2>4, <2>5, BrokerFrame
<1>10. ASSUME NEW r \in Requests, SubmissionApplies(r) PROVE BrokerInv'
  <2>1. /\ status[r] = "PENDING_SUBMISSION" /\ req[r].pc = "answered"
        /\ req[r].answer \in Answers /\ req[r].answer.status \in Decided
        /\ UNCHANGED <<broker, late, wk>> /\ req' = [req EXCEPT ![r].pc = "done"]
    BY <1>1, <1>10 DEF SubmissionApplies, IInv, RequestsInv, RequestStates, Decided
  <2>2. req[r].answer \in Results /\ broker[r] = req[r].answer
    BY <2>1 DEF Answers, NoResult, Transport, BrokerInv, Decided
  <2>3. ApplyOutcome(r, req[r].answer, <<>>)
    BY <1>10, <2>1 DEF SubmissionApplies, Final, Terminal
  <2>4. \A s \in Requests : req'[s] = req[s] \/ req'[s].pc = "done"
    BY <2>1, RequestMoves DEF IInv, TypeOK
  <2>5. QED
    BY <2>1, <2>2, <2>3, <2>4, BrokerEnds DEF Open
<1>11. ASSUME NEW r \in Requests, SubmissionUnknown(r) PROVE BrokerInv'
  <2>1. /\ status[r] = "PENDING_SUBMISSION" /\ status' = [status EXCEPT ![r] = "UNKNOWN"]
        /\ UNCHANGED <<broker, late, wk, execution>> /\ req' = [req EXCEPT ![r].pc = "done"]
    BY <1>11 DEF SubmissionUnknown, MarkUnknown, Open, funds, IInv, RequestsInv
  <2>2. /\ req'[r].pc = "done" /\ \A s \in Requests \ {r} : req'[s] = req[s]
    BY <2>1, RequestMoves DEF IInv, TypeOK
  <2>3. /\ status'[r] = "UNKNOWN" /\ \A s \in Requests \ {r} : status'[s] = status[s]
    BY <2>1 DEF IInv, TypeOK, RowTypes
  <2>4. QED
    BY <2>1, <2>2, <2>3 DEF BrokerInv, Decided
<1>12. ASSUME NEW r \in Requests, SubmissionThrows(r) \/ RequestStops(r) PROVE BrokerInv'
  <2>1. /\ UNCHANGED <<broker, late, status, execution, wk>>
        /\ req' = [req EXCEPT ![r].pc = "failed"]
    BY <1>12 DEF SubmissionThrows, RequestStops, platform, funds, outcomes
  <2>2. \A s \in Requests : req'[s] = req[s] \/ req'[s].pc = "failed"
    BY <2>1, RequestMoves DEF IInv, TypeOK
  <2>3. QED
    BY <1>2, <2>1, <2>2
<1>13. ASSUME NEW w \in Workers, NEW expired, LeasesExpire(w, expired) PROVE BrokerInv'
  BY <1>2, <1>13 DEF LeasesExpire, funds, outcomes
<1>14. ASSUME NEW w \in Workers, wk' = [wk EXCEPT ![w] = IdleWorker]
       PROVE  \A v \in Workers : wk'[v] = wk[v] \/ wk'[v].pc = "idle"
  BY <1>14 DEF IdleWorker, IInv, TypeOK, ProcessTypes
<1>15. ASSUME NEW w \in Workers, NEW o \in Requests, Claim(w, o) PROVE BrokerInv'
  <2>1. \A v \in Workers : wk'[v] = wk[v] \/ wk'[v].pc = "claimed"
    BY <1>15 DEF Claim, IInv, TypeOK, ProcessTypes
  <2>2. QED
    BY <1>3, <1>15, <2>1 DEF Claim, funds, outcomes
<1>16. ASSUME NEW w \in Workers, Find(w) PROVE BrokerInv'
  <2> DEFINE o == wk[w].order
  <2>1. /\ o \in Requests /\ wk[w].pc = "claimed"
        /\ UNCHANGED <<late, req, status, execution>>
    BY <1>16 DEF Find, IInv, WorkersInv, platform, funds, outcomes
  <2>2. status[o] # "NONE" /\ req[o].pc # "prepared"
    BY <2>1 DEF IInv, WorkersInv, OrdersInv, OrderInv, RequestsInv
  <2>3. /\ \A s \in Requests \ {o} : broker'[s] = broker[s]
        /\ broker[o].status # "UNKNOWN" => broker'[o] = broker[o]
    BY <1>16 DEF Find, IInv, TypeOK, ProcessTypes
  <2>4. \A s \in Requests : broker[s].status \in Decided => broker'[s] = broker[s]
    BY <2>3 DEF Decided
  <2>5. \A s \in Requests : broker[s] = NoResult => broker'[s] = NoResult
    BY <2>3 DEF NoResult
  <2>6. \A s \in Requests : /\ status[s] = "NONE" \/ req'[s].pc = "prepared" =>
                                  broker'[s] = NoResult /\ s \notin late'
                            /\ s \in late' => broker'[s] = NoResult
    BY <2>1, <2>5 DEF BrokerInv
  <2>7. \E answer : Told(w, answer) /\ (answer = broker'[o] \/ answer = Transport)
    BY <1>16 DEF Find
  <2>8. PICK answer : Told(w, answer) /\ (answer = broker'[o] \/ answer = Transport)
    BY <2>7
  <2>9. \A v \in Workers : \/ wk'[v] = wk[v]
                           \/ /\ wk'[v].order = wk[v].order
                              /\ wk'[v].answer.status \in Decided =>
                                    broker'[wk[v].order] = wk'[v].answer
    <3>1. \A v \in Workers \ {w} : wk'[v] = wk[v]
      BY <2>8 DEF Told, IInv, TypeOK, ProcessTypes
    <3>2. wk'[w].order = o /\ wk'[w].answer = answer
      BY <2>8 DEF Told, IInv, TypeOK, ProcessTypes, WorkerStates
    <3>3. answer.status \in Decided => broker'[o] = answer
      BY <2>8 DEF Transport, Decided
    <3>4. QED
      BY <3>1, <3>2, <3>3
  <2>10. QED
    BY <2>1, <2>4, <2>6, <2>9, BrokerFrame
<1>17. ASSUME NEW w \in Workers, ReconcileApplies(w) PROVE BrokerInv'
  <2> DEFINE o == wk[w].order
             answer == wk[w].answer
  <2>1. /\ o \in Requests /\ wk[w].pc = "answered" /\ answer \in Answers
        /\ answer.status \in Decided /\ UNCHANGED <<broker, late, req>>
        /\ wk' = [wk EXCEPT ![w] = IdleWorker]
    BY <1>17 DEF ReconcileApplies, Retire, IInv, WorkersInv, TypeOK, ProcessTypes, WorkerStates, Decided
  <2>2. answer \in Results /\ broker[o] = answer
    BY <2>1 DEF Answers, NoResult, Transport, BrokerInv, Decided
  <2>3. \A v \in Workers : wk'[v] = wk[v] \/ wk'[v].pc = "idle"
    BY <1>14, <2>1
  <2>4. CASE Final(o)
    <3>1. UNCHANGED <<status, execution>>
      BY <1>17, <2>4 DEF ReconcileApplies, funds, outcomes
    <3>2. QED
      BY <1>3, <2>1, <2>3, <3>1
  <2>5. CASE ~ Final(o)
    <3>1. PICK tail : ApplyOutcome(o, answer, tail)
      BY <1>17, <2>5 DEF ReconcileApplies
    <3>2. status[o] \in Open
      BY <2>1, <2>5 DEF Final, IInv, WorkersInv, OrdersInv, OrderInv, TypeOK, RowTypes
    <3>3. QED
      BY <2>1, <2>2, <2>3, <3>1, <3>2, BrokerEnds
  <2>6. QED
    BY <2>4, <2>5
<1>18. ASSUME NEW w \in Workers, ReconcileThrows(w) \/ ReconcileAborts(w) PROVE BrokerInv'
  <2>1. Told(w, Transport) /\ UNCHANGED <<broker, late, status, execution, req>>
    BY <1>18 DEF ReconcileThrows, ReconcileAborts, platform, funds, outcomes
  <2>2. \A v \in Workers : \/ wk'[v] = wk[v]
                           \/ wk'[v].answer = Transport /\ wk'[v].order = wk[v].order
    BY <2>1 DEF Told, IInv, TypeOK, ProcessTypes, WorkerStates
  <2>3. QED
    BY <1>3, <2>1, <2>2 DEF Transport, Decided
<1>19. ASSUME NEW w \in Workers, Requeue(w) \/ WorkerStops(w) PROVE BrokerInv'
  <2>1. wk' = [wk EXCEPT ![w] = IdleWorker] /\ UNCHANGED <<broker, late, status, execution, req>>
    BY <1>19 DEF Requeue, WorkerStops, Retire, platform, funds, outcomes
  <2>2. QED
    BY <1>3, <1>14, <2>1
<1>20. ASSUME NEW w \in Workers, GiveUp(w) PROVE BrokerInv'
  <2> DEFINE o == wk[w].order
  <2>1. /\ o \in Requests /\ wk[w].pc = "answered" /\ UNCHANGED <<broker, late, req>>
        /\ wk' = [wk EXCEPT ![w] = IdleWorker]
    BY <1>20 DEF GiveUp, MustReschedule, Retire, IInv, WorkersInv
  <2>2. \A v \in Workers : wk'[v] = wk[v] \/ wk'[v].pc = "idle"
    BY <1>14, <2>1
  <2>3. CASE UNCHANGED <<funds, outcomes>>
    BY <1>3, <2>1, <2>2, <2>3 DEF funds, outcomes
  <2>4. CASE /\ status' = [status EXCEPT ![o] = GivenUp(status[o])]
             /\ ReleaseFunds(o)
    <3>1. /\ UNCHANGED execution
          /\ \A s \in Requests : \/ status'[s] = status[s]
                                 \/ status[s] = "UNKNOWN" /\ status'[s] = "FAILED"
      BY <2>4 DEF ReleaseFunds, GivenUp, IInv, TypeOK, RowTypes
    <3>2. QED
      BY <2>1, <2>2, <3>1 DEF BrokerInv, Decided
  <2>5. QED
    BY <1>20, <2>3, <2>4 DEF GiveUp
<1>21. CASE UNCHANGED vars
  BY <1>2, <1>21 DEF vars, platform, funds, outcomes
<1>22. QED
  BY <1>4, <1>5, <1>6, <1>7, <1>8, <1>9, <1>10, <1>11, <1>12, <1>13, <1>15, <1>16, <1>17,
     <1>18, <1>19, <1>20, <1>21 DEF Next, Customer, Submission, Reconciliation, Faults

\* What the rows say of an order's end is what the brokerage has recorded of
\* it, at the same amount, whether the answer came in time, late or by a worker
\* that had outlived its lease.
THEOREM OutcomesAreBrokers == Spec => []OutcomeIsBrokers
<1>1. Init => IInv /\ BrokerInv
  <2>1. Init => BrokerInv
    BY DEF Init, BrokerInv, NewRequest, IdleWorker, NoResult, Decided
  <2>2. QED
    BY <2>1, InitInv
<1>2. (IInv /\ BrokerInv) /\ [Next]_vars => (IInv /\ BrokerInv)'
  BY StepInv, BrokerStep
<1>3. BrokerInv => OutcomeIsBrokers
  BY DEF BrokerInv, OutcomeIsBrokers, Filled, Decided
<1>4. QED
  BY <1>1, <1>2, <1>3, PTL DEF Spec
=============================================================================
