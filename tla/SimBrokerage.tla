---------------------------- MODULE SimBrokerage ----------------------------
(***************************************************************************)
(* The brokerage of the institution simulator (modules/trading and         *)
(* modules/scenario): POST and GET of orders, processes that interleave    *)
(* with each other and with the administrator of the demo, who changes the *)
(* scenario and resets the dataset.                                        *)
(*                                                                         *)
(* A POST reads the scenario twice before its transaction.  A transaction  *)
(* takes an advisory lock on the client order id before it reads, and      *)
(* holds it to its end; a reset deletes the orders without that lock, but  *)
(* waits for a row that a GET has read FOR UPDATE.  Quantities and prices  *)
(* are the body of a call.                                                 *)
(***************************************************************************)
EXTENDS Naturals

CONSTANTS
    Calls,     \* POSTs and GETs, each made once
    Orders,    \* client order ids
    Bodies,    \* what a valid POST carries beside its client order id
    Listed,    \* bodies whose account and instrument are active
    MaxAdmin,  \* bound on the steps of the administrator
    MaxFaults, \* bound on failures of the database
    NoBody

ASSUME BodiesAssumption == NoBody \notin Bodies /\ Listed \subseteq Bodies
ASSUME BoundsAssumption == MaxAdmin \in Nat /\ MaxFaults \in Nat

VARIABLES
    scenario,  \* finapp_sim_scenario.mode of the GLOBAL scope
    row,       \* finapp_sim_order: [body, status, mode] of each order
    call,      \* the process of each call
    admin,     \* steps of the administrator so far
    faults     \* failures of the database so far

vars == <<scenario, row, call, admin, faults>>

SCENARIO_MODES == {"NORMAL", "TIMEOUT", "HTTP_500", "MALFORMED_RESPONSE",
                   "ORDER_REJECT", "ORDER_UNKNOWN_THEN_FILLED"}

NoRow   == [body |-> NoBody, status |-> "NONE", mode |-> "NONE"]
NewCall == [pc |-> "new", order |-> "NONE", body |-> NoBody, mode |-> "NONE",
            answer |-> "NONE"]

Init == /\ scenario = "NORMAL"
        /\ row = [o \in Orders |-> NoRow]
        /\ call = [c \in Calls |-> NewCall]
        /\ admin = 0 /\ faults = 0

At(c, pc) == call[c].pc = pc
Go(c, pc) == call' = [call EXCEPT ![c].pc = pc]
Ends(c, answer) == call' = [call EXCEPT ![c].pc = "done", ![c].answer = answer]

-----------------------------------------------------------------------------
(* Before the transaction *)

\* submit with a body that validate accepts.
Post(c, o, b) ==
    /\ At(c, "new")
    /\ call' = [call EXCEPT ![c].pc = "beforeRead", ![c].order = o, ![c].body = b]
    /\ UNCHANGED <<scenario, row, admin, faults>>

\* A GET asks for an order whatever the scenario is.
Get(c, o) ==
    /\ At(c, "new")
    /\ call' = [call EXCEPT ![c].pc = "find", ![c].order = o]
    /\ UNCHANGED <<scenario, row, admin, faults>>

\* beforeRead: the scenario may delay the call, fail it or spoil its answer.
BeforeRead(c) ==
    /\ At(c, "beforeRead")
    /\ CASE scenario = "TIMEOUT"            -> Go(c, "sleep")
         [] scenario = "HTTP_500"           -> Ends(c, "ERROR")
         [] scenario = "MALFORMED_RESPONSE" -> Ends(c, "MALFORMED")
         [] OTHER                           -> Go(c, "current")
    /\ UNCHANGED <<scenario, row, admin, faults>>

\* The delay ends, for a caller that may have stopped waiting.
Wake(c) ==
    /\ At(c, "sleep")
    /\ Go(c, "current")
    /\ UNCHANGED <<scenario, row, admin, faults>>

\* The second read of the scenario, which decides what is recorded.
Current(c) ==
    /\ At(c, "current")
    /\ call' = [call EXCEPT ![c].pc = "submit", ![c].mode = scenario]
    /\ UNCHANGED <<scenario, row, admin, faults>>

-----------------------------------------------------------------------------
(* The transactions *)

\* A row that find has read FOR UPDATE.  Mutant of Locked: a POST takes no
\* lock on the id.
RowHeld(o) == \E d \in Calls : At(d, "fill") /\ call[d].order = o
\* pg_advisory_xact_lock, held by a transaction that is about to write.
Locked(o) == \E d \in Calls : call[d].pc \in {"insert", "fill"} /\ call[d].order = o

StatusUnder(mode) == CASE mode = "ORDER_REJECT"              -> "REJECTED"
                       [] mode = "ORDER_UNKNOWN_THEN_FILLED" -> "UNKNOWN"
                       [] OTHER                              -> "FILLED"

\* submit locks the id and looks for a record of it; without one it checks
\* that account and instrument are active and goes on to insert.
SubmitReads(c) ==
    LET o == call[c].order
        r == row[o]
    IN  /\ At(c, "submit")
        /\ ~Locked(o)
        /\ \/ r # NoRow /\ r.body = call[c].body /\ Ends(c, r.status)
           \/ r # NoRow /\ r.body # call[c].body /\ Ends(c, "CONFLICT")
           \/ r = NoRow /\ call[c].body \notin Listed /\ Ends(c, "NOT_FOUND")
           \/ r = NoRow /\ call[c].body \in Listed /\ Go(c, "insert")
        /\ UNCHANGED <<scenario, row, admin, faults>>

NewRow(c) == [body |-> call[c].body, status |-> StatusUnder(call[c].mode),
              mode |-> call[c].mode]

\* The caller hears the answer, or the database loses it after the commit.
Tells(c, answer) ==
    \/ Ends(c, answer) /\ UNCHANGED faults
    \/ faults < MaxFaults /\ Ends(c, "BROKEN") /\ faults' = faults + 1

\* The insert commits, or fails on finapp_uq_sim_order_client_id.
SubmitInserts(c) ==
    LET o == call[c].order
    IN  /\ At(c, "insert")
        /\ row' = [row EXCEPT ![o] = IF @ = NoRow THEN NewRow(c) ELSE @]
        /\ Tells(c, IF row[o] = NoRow THEN NewRow(c).status ELSE "DUPLICATE")
        /\ UNCHANGED <<scenario, admin>>

\* Mutant: find completes an order that is not filled, whatever its outcome.
CompletesAny(o) == row[o].status \in {"UNKNOWN", "REJECTED"}
\* The order that find completes.
Completes(o) == /\ row[o].status = "UNKNOWN"
                /\ row[o].mode = "ORDER_UNKNOWN_THEN_FILLED"

\* find locks the id and reads the row FOR UPDATE.
FindReads(c) ==
    LET o == call[c].order
    IN  /\ At(c, "find")
        /\ ~Locked(o)
        /\ \/ row[o] = NoRow /\ Ends(c, "NOT_FOUND")
           \/ row[o] # NoRow /\ ~Completes(o) /\ Ends(c, row[o].status)
           \/ Completes(o) /\ Go(c, "fill")
        /\ UNCHANGED <<scenario, row, admin, faults>>

FindFills(c) ==
    /\ At(c, "fill")
    /\ row' = [row EXCEPT ![call[c].order].status = "FILLED"]
    /\ Tells(c, "FILLED")
    /\ UNCHANGED <<scenario, admin>>

\* ROLLBACK: nothing was written and the lock is free.
Aborts(c) ==
    /\ call[c].pc \in {"submit", "insert", "find", "fill"}
    /\ faults < MaxFaults
    /\ faults' = faults + 1
    /\ Ends(c, "BROKEN")
    /\ UNCHANGED <<scenario, row, admin>>

-----------------------------------------------------------------------------
(* The administrator *)

SetScenario(mode) ==
    /\ admin < MaxAdmin
    /\ admin' = admin + 1
    /\ scenario' = mode
    /\ UNCHANGED <<row, call, faults>>

\* Rows that find has read FOR UPDATE keep the DELETE waiting.
Reset ==
    /\ admin < MaxAdmin
    /\ \A o \in Orders : ~RowHeld(o)
    /\ admin' = admin + 1
    /\ scenario' = "NORMAL"
    /\ row' = [o \in Orders |-> NoRow]
    /\ UNCHANGED <<call, faults>>

Next ==
    \/ \E c \in Calls, o \in Orders : Get(c, o) \/ \E b \in Bodies : Post(c, o, b)
    \/ \E c \in Calls :
           \/ BeforeRead(c) \/ Wake(c) \/ Current(c)
           \/ SubmitReads(c) \/ SubmitInserts(c)
           \/ FindReads(c) \/ FindFills(c)
           \/ Aborts(c)
    \/ \E mode \in SCENARIO_MODES : SetScenario(mode)
    \/ Reset

Spec == Init /\ [][Next]_vars

-----------------------------------------------------------------------------
(* Properties *)

\* An order without its scenario, and a failure without its reason.
Heard(answer) == IF answer \in {"ERROR", "MALFORMED", "DUPLICATE", "BROKEN"}
                 THEN "FAILED" ELSE answer
Book == [o \in Orders |-> [body |-> row[o].body, status |-> row[o].status]]
Said == [c \in Calls |-> Heard(call[c].answer)]
Contract == INSTANCE Brokerage WITH book <- Book, said <- Said

\* brokerage.service.ts:34-62: with the scenario changing between its two
\* reads, resets in the middle of calls, lost answers and racing POSTs, the
\* simulator is a brokerage: one record per client order id, answers that
\* tell what is recorded, outcomes that stay.
ContractKept == Contract!Spec

\* API_CONTRACTS.md:510 and postgres-brokerage.repository.ts:77-92: a GET
\* that finds an order always settles it, in whatever scenario the order was
\* recorded and whichever calls came before: the platform's reconciliation
\* of an UNKNOWN order needs one answered GET.
FindDecides == \A c \in Calls : At(c, "done") /\ call[c].body = NoBody
                                => call[c].answer # "UNKNOWN"

\* postgres-brokerage.repository.ts:111-128: POSTs that race for one client
\* order id all hear of the one order; none runs into the unique key and is
\* answered 500.
RacersAreAnswered == \A c \in Calls : call[c].answer # "DUPLICATE"
=============================================================================
