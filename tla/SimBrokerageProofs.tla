------------------------- MODULE SimBrokerageProofs -------------------------
(***************************************************************************)
(* Proofs about SimBrokerage, for every number of calls, orders, bodies,   *)
(* steps of the administrator and failures of the database.                *)
(***************************************************************************)
EXTENDS SimBrokerage, TLAPS

Statuses  == {"FILLED", "REJECTED", "UNKNOWN"}
Answers   == Statuses \cup {"NONE", "ERROR", "MALFORMED", "CONFLICT", "NOT_FOUND", "BROKEN"}
Posting   == {"beforeRead", "sleep", "current", "submit", "insert"}
Finding   == {"find", "fill"}
Writing   == {"insert", "fill"}

Rows == [body : Bodies \cup {NoBody}, status : Statuses \cup {"NONE"},
         mode : SCENARIO_MODES \cup {"NONE"}]
Processes == [pc : {"new", "done"} \cup Posting \cup Finding,
              order : Orders \cup {"NONE"}, body : Bodies \cup {NoBody},
              mode : SCENARIO_MODES \cup {"NONE"}, answer : Answers]

TypeOK == /\ scenario \in SCENARIO_MODES
          /\ row \in [Orders -> Rows]
          /\ call \in [Calls -> Processes]
          /\ admin \in Nat /\ faults \in Nat

\* An order that is recorded has a body and an outcome, and is in doubt only
\* if a GET can settle it.
RowsAreWhole ==
    \A o \in Orders :
        \/ row[o] = NoRow
        \/ /\ row[o].body \in Bodies /\ row[o].status \in Statuses
           /\ row[o].status = "UNKNOWN" => row[o].mode = "ORDER_UNKNOWN_THEN_FILLED"

\* A call under way has what its next step needs and no answer.
CallsAreWhole ==
    \A c \in Calls :
        /\ call[c].pc # "new" => call[c].order \in Orders
        /\ call[c].pc \in Posting => call[c].body \in Bodies
        /\ call[c].pc \in {"submit", "insert"} => call[c].mode \in SCENARIO_MODES
        /\ call[c].pc \in Finding \cup {"new"} => call[c].body = NoBody
        /\ call[c].pc # "done" => call[c].answer = "NONE"

\* The advisory lock: one transaction at a time is about to write an order.
OneWriter == \A c, d \in Calls :
    (/\ call[c].pc \in Writing /\ call[d].pc \in Writing
     /\ call[c].order = call[d].order) => c = d

\* What a transaction has read still holds when it writes, although resets
\* do not take its lock.
ReadsAreCurrent ==
    \A c \in Calls :
        /\ call[c].pc = "insert" => row[call[c].order] = NoRow
        /\ call[c].pc = "fill" => Completes(call[c].order)

IInv == /\ TypeOK /\ RowsAreWhole /\ CallsAreWhole /\ OneWriter /\ ReadsAreCurrent
        /\ FindDecides /\ RacersAreAnswered

USE BodiesAssumption, BoundsAssumption

-----------------------------------------------------------------------------
(* The inductive invariant *)

\* What a call may become, when the rows are r and c is the call.
Sound(c, p, r) ==
    /\ p \in Processes
    /\ p.pc # "new" => p.order \in Orders
    /\ p.pc \in Posting => p.body \in Bodies
    /\ p.pc \in {"submit", "insert"} => p.mode \in SCENARIO_MODES
    /\ p.pc \in Finding \cup {"new"} => p.body = NoBody
    /\ p.pc # "done" => p.answer = "NONE"
    /\ p.pc = "done" /\ p.body = NoBody => p.answer # "UNKNOWN"
    /\ p.pc \in Writing => \A d \in Calls : d # c /\ call[d].pc \in Writing
                                            => call[d].order # p.order
    /\ p.pc = "insert" => r[p.order] = NoRow
    /\ p.pc = "fill" => /\ r[p.order].status = "UNKNOWN"
                        /\ r[p.order].mode = "ORDER_UNKNOWN_THEN_FILLED"

\* A step of one call that writes no row keeps the invariant.
LEMMA CallMoves ==
    ASSUME IInv, NEW c \in Calls, NEW p, Sound(c, p, row),
           call' = [call EXCEPT ![c] = p], row' = row, scenario' = scenario,
           admin' = admin, faults' \in Nat
    PROVE  IInv'
<1> USE DEF IInv, Sound
<1>1. call' \in [Calls -> Processes] /\ call'[c] = p
      /\ \A d \in Calls : d # c => call'[d] = call[d]
  BY DEF TypeOK
<1>2. TypeOK'
  BY <1>1 DEF TypeOK
<1>3. RowsAreWhole'
  BY DEF RowsAreWhole
<1>4. CallsAreWhole'
  BY <1>1 DEF CallsAreWhole
<1>5. OneWriter'
  BY <1>1 DEF OneWriter
<1>6. ReadsAreCurrent'
  BY <1>1 DEF ReadsAreCurrent, Completes
<1>7. FindDecides' /\ RacersAreAnswered'
  BY <1>1, <1>2 DEF FindDecides, RacersAreAnswered, At, TypeOK, Processes, Answers, Statuses
<1>8. QED
  BY <1>2, <1>3, <1>4, <1>5, <1>6, <1>7

\* A transaction that holds the lock of its order and writes the order keeps
\* the invariant: no other transaction has read that row to write it.
LEMMA WriterWrites ==
    ASSUME IInv, NEW c \in Calls, NEW p, Sound(c, p, row), p.pc = "done",
           call[c].pc \in Writing, NEW r \in Rows,
           r.body \in Bodies, r.status \in Statuses,
           r.status = "UNKNOWN" => r.mode = "ORDER_UNKNOWN_THEN_FILLED",
           call' = [call EXCEPT ![c] = p], row' = [row EXCEPT ![call[c].order] = r],
           scenario' = scenario, admin' = admin, faults' \in Nat
    PROVE  IInv'
<1> USE DEF IInv, Sound
<1>1. call' \in [Calls -> Processes] /\ call'[c] = p
      /\ \A d \in Calls : d # c => call'[d] = call[d]
  BY DEF TypeOK
<1>2. call[c].order \in Orders
  BY DEF CallsAreWhole, Writing
<1>3. row' \in [Orders -> Rows] /\ row'[call[c].order] = r
      /\ \A o \in Orders : o # call[c].order => row'[o] = row[o]
  BY <1>2 DEF TypeOK
<1>4. TypeOK'
  BY <1>1, <1>3 DEF TypeOK
<1>5. RowsAreWhole'
  BY <1>3 DEF RowsAreWhole
<1>6. CallsAreWhole'
  BY <1>1 DEF CallsAreWhole
<1>7. OneWriter'
  BY <1>1 DEF OneWriter, Writing
<1>8. ReadsAreCurrent'
  <2> SUFFICES ASSUME NEW d \in Calls, call'[d].pc \in Writing
               PROVE  /\ call'[d].pc = "insert" => row'[call'[d].order] = NoRow
                      /\ call'[d].pc = "fill" =>
                            /\ row'[call'[d].order].status = "UNKNOWN"
                            /\ row'[call'[d].order].mode = "ORDER_UNKNOWN_THEN_FILLED"
    BY DEF ReadsAreCurrent, Completes, Writing
  <2>1. d # c /\ call'[d] = call[d]
    BY <1>1 DEF Writing
  <2>2. call[d].order \in Orders /\ call[d].order # call[c].order
    BY <2>1 DEF OneWriter, CallsAreWhole, Writing
  <2>3. row'[call[d].order] = row[call[d].order]
    BY <2>2, <1>3
  <2>4. QED
    BY <2>1, <2>3 DEF ReadsAreCurrent, Completes
<1>9. FindDecides' /\ RacersAreAnswered'
  BY <1>1 DEF FindDecides, RacersAreAnswered, At, TypeOK, Processes, Answers, Statuses
<1>10. QED
  BY <1>4, <1>5, <1>6, <1>7, <1>8, <1>9

\* The empty book of the start satisfies the inductive invariant.
LEMMA InitEstablishes == Init => IInv
<1> SUFFICES ASSUME Init PROVE IInv
  OBVIOUS
<1> USE DEF Init, NoRow, NewCall
<1>1. TypeOK
  BY DEF TypeOK, Rows, Processes, Answers, SCENARIO_MODES
<1>2. RowsAreWhole /\ CallsAreWhole /\ OneWriter /\ ReadsAreCurrent
  BY DEF RowsAreWhole, CallsAreWhole, OneWriter, ReadsAreCurrent, Posting, Finding, Writing
<1>3. FindDecides /\ RacersAreAnswered
  BY DEF FindDecides, RacersAreAnswered, At
<1>4. QED
  BY <1>1, <1>2, <1>3 DEF IInv

\* The process of a call is a record of its fields.
LEMMA CallFields ==
    ASSUME IInv, NEW c \in Calls
    PROVE  /\ call[c] \in Processes
           /\ call[c].pc # "new" => call[c].order \in Orders
           /\ call[c].pc \in Posting => call[c].body \in Bodies
           /\ call[c].pc \in {"submit", "insert"} => call[c].mode \in SCENARIO_MODES
           /\ call[c].pc \in Finding \cup {"new"} => call[c].body = NoBody
           /\ call[c].pc # "done" => call[c].answer = "NONE"
BY DEF IInv, TypeOK, CallsAreWhole

\* A call that goes on keeps the invariant, if the next place is not one of
\* a transaction that is about to write.
LEMMA GoesOn ==
    ASSUME IInv, NEW c \in Calls, NEW pc \in (Posting \cup Finding) \ Writing, Go(c, pc),
           call[c].pc \in Posting <=> pc \in Posting,
           call[c].pc \in Finding <=> pc \in Finding,
           pc = "submit" => call[c].pc = "submit",
           UNCHANGED <<scenario, row, admin, faults>>
    PROVE  IInv'
<1> DEFINE p == [call[c] EXCEPT !.pc = pc]
<1>1. call' = [call EXCEPT ![c] = p]
  BY DEF Go
<1>2. p \in Processes /\ p.pc = pc /\ p.order = call[c].order /\ p.body = call[c].body
      /\ p.mode = call[c].mode /\ p.answer = call[c].answer
  BY CallFields DEF Processes
<1>3. Sound(c, p, row)
  BY <1>2, CallFields DEF Sound, Posting, Finding, Writing
<1>4. faults' \in Nat
  BY DEF IInv, TypeOK
<1>5. QED
  BY <1>1, <1>3, <1>4, CallMoves

\* A call under way that ends without writing keeps the invariant.
LEMMA EndsWell ==
    ASSUME IInv, NEW c \in Calls, NEW answer \in Answers, Ends(c, answer),
           call[c].pc \in Posting \cup Finding,
           call[c].pc \in Posting \/ answer # "UNKNOWN",
           faults' \in Nat, UNCHANGED <<scenario, row, admin>>
    PROVE  IInv'
<1> DEFINE p == [call[c] EXCEPT !.pc = "done", !.answer = answer]
<1>1. call' = [call EXCEPT ![c] = p]
  BY DEF Ends
<1>2. p \in Processes /\ p.pc = "done" /\ p.order = call[c].order /\ p.body = call[c].body
      /\ p.mode = call[c].mode /\ p.answer = answer
  BY CallFields DEF Processes
<1>3. NoBody \notin Bodies /\ call[c].pc # "new"
  BY DEF Posting, Finding
<1>4. Sound(c, p, row)
  BY <1>2, <1>3, CallFields DEF Sound, Posting, Finding, Writing
<1>5. QED
  BY <1>1, <1>4, CallMoves

\* A transaction that has read takes the lock, which is free, and goes on to
\* write what it has read.
LEMMA Locks ==
    ASSUME IInv, NEW c \in Calls, NEW pc \in Writing, Go(c, pc), ~Locked(call[c].order),
           \/ pc = "insert" /\ call[c].pc = "submit" /\ row[call[c].order] = NoRow
           \/ pc = "fill" /\ call[c].pc = "find" /\ Completes(call[c].order),
           UNCHANGED <<scenario, row, admin, faults>>
    PROVE  IInv'
<1> DEFINE p == [call[c] EXCEPT !.pc = pc]
<1>1. call' = [call EXCEPT ![c] = p]
  BY DEF Go
<1>2. p \in Processes /\ p.pc = pc /\ p.order = call[c].order /\ p.body = call[c].body
      /\ p.mode = call[c].mode /\ p.answer = call[c].answer
  BY CallFields DEF Processes, Writing, Posting, Finding
<1>3. \A d \in Calls : call[d].pc \in Writing => call[d].order # p.order
  BY <1>2 DEF Locked, Writing
<1>4. Sound(c, p, row)
  BY <1>2, <1>3, CallFields DEF Sound, Posting, Finding, Writing, Completes
<1>5. faults' \in Nat
  BY DEF IInv, TypeOK
<1>6. QED
  BY <1>1, <1>4, <1>5, CallMoves

\* A transaction that commits a row and tells its outcome keeps the invariant,
\* whether or not the caller hears of it.
LEMMA Commits ==
    ASSUME IInv, NEW c \in Calls, call[c].pc \in Writing, NEW r \in Rows,
           r.body \in Bodies, r.status \in Statuses,
           r.status = "UNKNOWN" => r.mode = "ORDER_UNKNOWN_THEN_FILLED",
           call[c].pc = "fill" => r.status # "UNKNOWN",
           Tells(c, r.status), row' = [row EXCEPT ![call[c].order] = r],
           UNCHANGED <<scenario, admin>>
    PROVE  IInv'
<1>1. PICK answer \in {r.status, "BROKEN"} : Ends(c, answer) /\ faults' \in Nat
  BY DEF Tells, IInv, TypeOK
<1> DEFINE p == [call[c] EXCEPT !.pc = "done", !.answer = answer]
<1>2. call' = [call EXCEPT ![c] = p]
  BY <1>1 DEF Ends
<1>3. answer \in Answers /\ (call[c].pc = "fill" => answer # "UNKNOWN")
  BY DEF Answers
<1>4. p \in Processes /\ p.pc = "done" /\ p.order = call[c].order /\ p.body = call[c].body
      /\ p.mode = call[c].mode /\ p.answer = answer
  BY <1>3, CallFields DEF Processes
<1>5. NoBody \notin Bodies /\ call[c].pc # "new"
  BY DEF Writing
<1>6. Sound(c, p, row)
  BY <1>3, <1>4, <1>5, CallFields DEF Sound, Posting, Finding, Writing
<1>7. QED
  BY <1>1, <1>2, <1>4, <1>6, WriterWrites

\* Every step of the simulator keeps the inductive invariant.
LEMMA NextKeeps == IInv /\ [Next]_vars => IInv'
<1> SUFFICES ASSUME IInv, [Next]_vars PROVE IInv'
  OBVIOUS
<1>1. ASSUME NEW c \in Calls, NEW o \in Orders, Get(c, o) PROVE IInv'
  <2> DEFINE p == [call[c] EXCEPT !.pc = "find", !.order = o]
  <2>1. call' = [call EXCEPT ![c] = p] /\ call[c].pc = "new"
    BY <1>1 DEF Get, At
  <2>2. p \in Processes /\ p.pc = "find" /\ p.order = o /\ p.body = call[c].body
        /\ p.mode = call[c].mode /\ p.answer = call[c].answer
    BY CallFields DEF Processes, Finding
  <2>3. Sound(c, p, row)
    BY <2>1, <2>2, CallFields DEF Sound, Posting, Finding, Writing
  <2>4. QED
    BY <1>1, <2>1, <2>3, CallMoves DEF Get, IInv, TypeOK
<1>2. ASSUME NEW c \in Calls, NEW o \in Orders, NEW b \in Bodies, Post(c, o, b) PROVE IInv'
  <2> DEFINE p == [call[c] EXCEPT !.pc = "beforeRead", !.order = o, !.body = b]
  <2>1. call' = [call EXCEPT ![c] = p] /\ call[c].pc = "new"
    BY <1>2 DEF Post, At
  <2>2. p \in Processes /\ p.pc = "beforeRead" /\ p.order = o /\ p.body = b
        /\ p.mode = call[c].mode /\ p.answer = call[c].answer
    BY CallFields DEF Processes, Posting
  <2>3. Sound(c, p, row)
    BY <2>1, <2>2, CallFields DEF Sound, Posting, Finding, Writing
  <2>4. QED
    BY <1>2, <2>1, <2>3, CallMoves DEF Post, IInv, TypeOK
<1>3. ASSUME NEW c \in Calls, BeforeRead(c) PROVE IInv'
  <2>1. \/ \E pc \in {"sleep", "current"} : Go(c, pc)
        \/ \E answer \in {"ERROR", "MALFORMED"} : Ends(c, answer)
    BY <1>3 DEF BeforeRead
  <2>2. CASE \E pc \in {"sleep", "current"} : Go(c, pc)
    BY <1>3, <2>2, GoesOn DEF BeforeRead, At, Posting, Finding, Writing
  <2>3. CASE \E answer \in {"ERROR", "MALFORMED"} : Ends(c, answer)
    BY <1>3, <2>3, EndsWell DEF BeforeRead, At, Posting, Finding, Answers, IInv, TypeOK
  <2>4. QED
    BY <2>1, <2>2, <2>3
<1>4. ASSUME NEW c \in Calls, Wake(c) PROVE IInv'
  BY <1>4, GoesOn DEF Wake, At, Posting, Finding, Writing
<1>5. ASSUME NEW c \in Calls, Current(c) PROVE IInv'
  <2> DEFINE p == [call[c] EXCEPT !.pc = "submit", !.mode = scenario]
  <2>1. call' = [call EXCEPT ![c] = p] /\ call[c].pc = "current"
    BY <1>5 DEF Current, At
  <2>2. p \in Processes /\ p.pc = "submit" /\ p.order = call[c].order /\ p.body = call[c].body
        /\ p.mode = scenario /\ p.answer = call[c].answer
    BY CallFields DEF Processes, Posting, IInv, TypeOK
  <2>3. scenario \in SCENARIO_MODES
    BY DEF IInv, TypeOK
  <2>4. Sound(c, p, row)
    BY <2>1, <2>2, <2>3, CallFields DEF Sound, Posting, Finding, Writing
  <2>5. QED
    BY <1>5, <2>1, <2>4, CallMoves DEF Current, IInv, TypeOK
<1>6. ASSUME NEW c \in Calls, SubmitReads(c) PROVE IInv'
  <2> DEFINE o == call[c].order
  <2>1. call[c].pc = "submit" /\ ~Locked(o) /\ UNCHANGED <<scenario, row, admin, faults>>
        /\ o \in Orders
    BY <1>6, CallFields DEF SubmitReads, At
  <2>2. \/ \E answer \in {"CONFLICT", "NOT_FOUND"} : Ends(c, answer)
        \/ row[o] # NoRow /\ Ends(c, row[o].status)
        \/ row[o] = NoRow /\ Go(c, "insert")
    BY <1>6 DEF SubmitReads
  <2>3. CASE \E answer \in {"CONFLICT", "NOT_FOUND"} : Ends(c, answer)
    BY <2>1, <2>3, EndsWell DEF Posting, Answers, IInv, TypeOK
  <2>4. CASE row[o] # NoRow /\ Ends(c, row[o].status)
    <3>1. row[o].status \in Answers /\ faults' \in Nat
      BY <2>1, <2>4 DEF IInv, RowsAreWhole, Answers, TypeOK
    <3>2. QED
      BY <2>1, <2>4, <3>1, EndsWell DEF Posting
  <2>5. CASE row[o] = NoRow /\ Go(c, "insert")
    BY <2>1, <2>5, Locks DEF Writing
  <2>6. QED
    BY <2>2, <2>3, <2>4, <2>5
<1>7. ASSUME NEW c \in Calls, SubmitInserts(c) PROVE IInv'
  <2> DEFINE o == call[c].order
  <2>1. call[c].pc = "insert" /\ row[o] = NoRow /\ o \in Orders /\ call[c].body \in Bodies
        /\ call[c].mode \in SCENARIO_MODES
    BY <1>7, CallFields DEF SubmitInserts, At, IInv, ReadsAreCurrent, Posting
  <2>2. row' = [row EXCEPT ![o] = NewRow(c)] /\ Tells(c, NewRow(c).status)
        /\ UNCHANGED <<scenario, admin>>
    BY <1>7, <2>1 DEF SubmitInserts, IInv, TypeOK
  <2>3. StatusUnder(call[c].mode) \in Statuses
        /\ (StatusUnder(call[c].mode) = "UNKNOWN"
            => call[c].mode = "ORDER_UNKNOWN_THEN_FILLED")
    BY DEF StatusUnder, Statuses
  <2>4. NewRow(c) \in Rows /\ NewRow(c).body \in Bodies /\ NewRow(c).status \in Statuses
        /\ (NewRow(c).status = "UNKNOWN" => NewRow(c).mode = "ORDER_UNKNOWN_THEN_FILLED")
    BY <2>1, <2>3 DEF NewRow, Rows
  <2>5. QED
    BY <2>1, <2>2, <2>4, Commits DEF Writing
<1>8. ASSUME NEW c \in Calls, FindReads(c) PROVE IInv'
  <2> DEFINE o == call[c].order
  <2>1. call[c].pc = "find" /\ ~Locked(o) /\ UNCHANGED <<scenario, row, admin, faults>>
        /\ o \in Orders
    BY <1>8, CallFields DEF FindReads, At
  <2>2. \/ Ends(c, "NOT_FOUND")
        \/ row[o] # NoRow /\ ~Completes(o) /\ Ends(c, row[o].status)
        \/ Completes(o) /\ Go(c, "fill")
    BY <1>8 DEF FindReads
  <2>3. CASE Ends(c, "NOT_FOUND")
    BY <2>1, <2>3, EndsWell DEF Finding, Answers, IInv, TypeOK
  <2>4. CASE row[o] # NoRow /\ ~Completes(o) /\ Ends(c, row[o].status)
    <3>1. row[o].status \in Answers \ {"UNKNOWN"} /\ faults' \in Nat
      BY <2>1, <2>4 DEF IInv, RowsAreWhole, Answers, TypeOK, Completes
    <3>2. QED
      BY <2>1, <2>4, <3>1, EndsWell DEF Finding
  <2>5. CASE Completes(o) /\ Go(c, "fill")
    BY <2>1, <2>5, Locks DEF Writing
  <2>6. QED
    BY <2>2, <2>3, <2>4, <2>5
<1>9. ASSUME NEW c \in Calls, FindFills(c) PROVE IInv'
  <2> DEFINE o == call[c].order
             r == [row[o] EXCEPT !.status = "FILLED"]
  <2>1. call[c].pc = "fill" /\ Completes(o) /\ o \in Orders
    BY <1>9, CallFields DEF FindFills, At, IInv, ReadsAreCurrent
  <2>2. row' = [row EXCEPT ![o] = r] /\ Tells(c, "FILLED") /\ UNCHANGED <<scenario, admin>>
    BY <1>9 DEF FindFills
  <2>3. row[o] \in Rows /\ row[o].body \in Bodies
    BY <2>1 DEF IInv, TypeOK, RowsAreWhole, Completes, NoRow
  <2>4. r \in Rows /\ r.body \in Bodies /\ r.status = "FILLED"
    BY <2>3 DEF Rows, Statuses
  <2>5. QED
    BY <2>1, <2>2, <2>4, Commits DEF Writing, Statuses
<1>10. ASSUME NEW c \in Calls, Aborts(c) PROVE IInv'
  BY <1>10, EndsWell DEF Aborts, Posting, Finding, Answers, IInv, TypeOK
<1>11. ASSUME NEW mode \in SCENARIO_MODES, SetScenario(mode) PROVE IInv'
  BY <1>11 DEF SetScenario, IInv, TypeOK, RowsAreWhole, CallsAreWhole, OneWriter,
               ReadsAreCurrent, Completes, FindDecides, RacersAreAnswered, At
<1>12. ASSUME Reset PROVE IInv'
  <2>1. row' = [o \in Orders |-> NoRow] /\ scenario' = "NORMAL" /\ UNCHANGED <<call, faults>>
        /\ admin' \in Nat /\ \A o \in Orders : ~RowHeld(o)
    BY <1>12 DEF Reset, IInv, TypeOK
  <2>2. TypeOK' /\ RowsAreWhole'
    BY <2>1 DEF IInv, TypeOK, RowsAreWhole, NoRow, Rows, SCENARIO_MODES
  <2>3. CallsAreWhole' /\ OneWriter' /\ FindDecides' /\ RacersAreAnswered'
    BY <2>1 DEF IInv, CallsAreWhole, OneWriter, FindDecides, RacersAreAnswered, At
  <2>4. \A c \in Calls : call[c].pc # "fill"
    BY <2>1, CallFields DEF RowHeld, At
  <2>5. \A c \in Calls : call[c].pc = "insert" => call[c].order \in Orders
    BY CallFields
  <2>6. ReadsAreCurrent'
    BY <2>1, <2>4, <2>5 DEF ReadsAreCurrent
  <2>7. QED
    BY <2>2, <2>3, <2>6 DEF IInv
<1>13. CASE UNCHANGED vars
  BY <1>13 DEF vars, IInv, TypeOK, RowsAreWhole, CallsAreWhole, OneWriter, ReadsAreCurrent,
               Completes, FindDecides, RacersAreAnswered, At
<1>14. QED
  BY <1>1, <1>2, <1>3, <1>4, <1>5, <1>6, <1>7, <1>8, <1>9, <1>10, <1>11, <1>12, <1>13 DEF Next

\* The inductive invariant holds in every reachable state of the simulator.
LEMMA Invariance == Spec => []IInv
BY InitEstablishes, NextKeeps, PTL DEF Spec

\* A GET that finds an order settles it, for any number of calls and orders.
THEOREM FindSettles == Spec => []FindDecides
<1>1. IInv => FindDecides
  BY DEF IInv
<1>2. QED
  BY <1>1, Invariance, PTL

\* No POST runs into the unique key of the orders, however many race.
THEOREM NoDuplicateKey == Spec => []RacersAreAnswered
<1>1. IInv => RacersAreAnswered
  BY DEF IInv
<1>2. QED
  BY <1>1, Invariance, PTL

-----------------------------------------------------------------------------
(* The simulator implements Brokerage *)

\* An order is recorded in the book as it is in the table.
LEMMA BookReadsRows ==
    ASSUME IInv, NEW o \in Orders
    PROVE  /\ Book[o] = [body |-> row[o].body, status |-> row[o].status]
           /\ row[o] = NoRow => Book[o] = Contract!NoOrder
           /\ row[o] # NoRow => Book[o] # Contract!NoOrder /\ row[o].status \in Statuses
BY DEF Book, NoRow, Contract!NoOrder, IInv, RowsAreWhole, Statuses

\* A call that ends says its answer, once.
LEMMA EndsSays ==
    ASSUME IInv, NEW c \in Calls, NEW answer \in Answers, call[c].pc # "done", Ends(c, answer)
    PROVE  Contract!Says(c, Heard(answer))
<1>1. call[c].answer = "NONE" /\ \A d \in Calls : call[d] \in Processes
  BY CallFields
<1>2. call'[c].answer = answer /\ \A d \in Calls : d # c => call'[d] = call[d]
  BY <1>1 DEF Ends, IInv, TypeOK, Processes
<1>3. Said' = [Said EXCEPT ![c] = Heard(answer)]
  BY <1>2 DEF Said
<1>4. Said[c] = "NONE"
  BY <1>1 DEF Said, Heard
<1>5. QED
  BY <1>3, <1>4 DEF Contract!Says

\* A step in which no call gets an answer and no row changes.
LEMMA Silent ==
    ASSUME row' = row, \A c \in Calls : call'[c].answer = call[c].answer
    PROVE  UNCHANGED Contract!brokerageVars
BY DEF Book, Said, Contract!brokerageVars

\* A call under way that gets no answer changes nothing that is promised.
LEMMA SilentCall ==
    ASSUME IInv, NEW c \in Calls, NEW p, p.answer = call[c].answer,
           call' = [call EXCEPT ![c] = p], row' = row
    PROVE  UNCHANGED Contract!brokerageVars
<1>1. \A d \in Calls : call'[d].answer = call[d].answer
  BY DEF IInv, TypeOK
<1>2. QED
  BY <1>1, Silent

\* A transaction that writes a row of one order changes the book there.
LEMMA BookChanges ==
    ASSUME IInv, NEW o \in Orders, NEW r \in Rows, row' = [row EXCEPT ![o] = r]
    PROVE  Book' = [Book EXCEPT ![o] = [body |-> r.body, status |-> r.status]]
<1>1. row'[o] = r /\ \A q \in Orders : q # o => row'[q] = row[q]
  BY DEF IInv, TypeOK
<1>2. QED
  BY <1>1 DEF Book

\* An answer without an effect is one that the contract allows.
LEMMA FailureIsAllowed ==
    ASSUME IInv, NEW c \in Calls, NEW answer \in {"ERROR", "MALFORMED", "BROKEN"},
           call[c].pc # "done", Ends(c, answer), row' = row
    PROVE  Contract!Next
<1>1. Contract!Says(c, "FAILED")
  BY EndsSays DEF Heard, Answers
<1>2. Contract!Fails(c)
  BY <1>1 DEF Contract!Fails, Book
<1>3. QED
  BY <1>2 DEF Contract!Next

\* So does the answer that no order is recorded.
LEMMA MissingIsAllowed ==
    ASSUME IInv, NEW c \in Calls, call[c].pc \notin {"new", "done"}, Ends(c, "NOT_FOUND"),
           row[call[c].order] = NoRow, row' = row
    PROVE  Contract!Next
<1>1. Contract!Says(c, "NOT_FOUND") /\ call[c].order \in Orders
  BY EndsSays, CallFields DEF Heard, Answers
<1>2. Contract!Missing(c, call[c].order)
  BY <1>1, BookReadsRows DEF Contract!Missing, Book
<1>3. QED
  BY <1>1, <1>2 DEF Contract!Next

\* A call that reads a recorded order hears what the contract says.
LEMMA RereadIsAllowed ==
    ASSUME IInv, NEW c \in Calls, call[c].pc \in {"submit", "find"}, row' = row,
           row[call[c].order] # NoRow,
           \/ call[c].pc = "find" /\ Ends(c, row[call[c].order].status)
           \/ /\ call[c].pc = "submit" /\ row[call[c].order].body = call[c].body
              /\ Ends(c, row[call[c].order].status)
           \/ /\ call[c].pc = "submit" /\ row[call[c].order].body # call[c].body
              /\ Ends(c, "CONFLICT")
    PROVE  Contract!Next
<1> DEFINE o == call[c].order
<1>1. o \in Orders /\ (call[c].pc = "submit" => call[c].body \in Bodies)
  BY CallFields DEF Posting
<1>2. /\ Book[o] = [body |-> row[o].body, status |-> row[o].status]
      /\ Book[o] # Contract!NoOrder /\ row[o].status \in Statuses /\ Book' = Book
  BY <1>1, BookReadsRows DEF Book
<1>3. ASSUME NEW answer \in Answers, Ends(c, answer), Heard(answer) = answer
      PROVE  Contract!Says(c, answer)
  BY <1>3, EndsSays
<1>4. CASE Ends(c, row[o].status)
  <2>1. row[o].status \in Answers /\ Heard(row[o].status) = row[o].status
    BY <1>2 DEF Answers, Statuses, Heard
  <2>2. Contract!Says(c, row[o].status)
    BY <1>3, <1>4, <2>1
  <2>3. CASE call[c].pc = "find"
    <3>1. Contract!Find(c, o)
      BY <1>2, <2>2 DEF Contract!Find
    <3>2. QED
      BY <1>1, <3>1 DEF Contract!Next
  <2>4. CASE call[c].pc = "submit" /\ row[o].body = call[c].body
    <3>1. Contract!Resubmit(c, o, call[c].body)
      BY <1>2, <2>2, <2>4 DEF Contract!Resubmit
    <3>2. QED
      BY <1>1, <2>4, <3>1 DEF Contract!Next
  <2>5. CASE Ends(c, "CONFLICT")
    <3>1. call'[c].answer = "CONFLICT" /\ call'[c].answer = row[o].status
      BY <1>4, <2>5, CallFields DEF Ends, IInv, TypeOK, Processes
    <3>2. QED
      BY <1>2, <3>1 DEF Statuses
  <2>6. QED
    BY <2>3, <2>4, <2>5
<1>5. CASE Ends(c, "CONFLICT") /\ call[c].pc = "submit" /\ row[o].body # call[c].body
  <2>1. Contract!Says(c, "CONFLICT")
    BY <1>3, <1>5 DEF Answers, Heard
  <2>2. Contract!Resubmit(c, o, call[c].body)
    BY <1>2, <1>5, <2>1 DEF Contract!Resubmit
  <2>3. QED
    BY <1>1, <1>5, <2>2 DEF Contract!Next
<1>6. QED
  BY <1>4, <1>5

\* The simulator is a brokerage: with the scenario changing between its two
\* reads, resets in the middle of calls, lost answers and racing POSTs, it
\* records an order once, tells what is recorded and keeps its outcomes.
THEOREM SimulatorIsBrokerage == Spec => ContractKept
<1>1. Init => Contract!Init
  BY DEF Init, Contract!Init, Contract!NoOrder, Book, Said, Heard, NoRow, NewCall
<1>2. ASSUME IInv, [Next]_vars PROVE [Contract!Next]_Contract!brokerageVars
  <2>1. ASSUME NEW c \in Calls, NEW o \in Orders, Get(c, o)
        PROVE  UNCHANGED Contract!brokerageVars
    <3> DEFINE p == [call[c] EXCEPT !.pc = "find", !.order = o]
    <3>1. p.answer = call[c].answer
      BY <1>2, CallFields DEF Processes
    <3>2. call' = [call EXCEPT ![c] = p] /\ row' = row
      BY <2>1 DEF Get
    <3>3. QED
      BY <1>2, <3>1, <3>2, SilentCall
  <2>2. ASSUME NEW c \in Calls, NEW o \in Orders, NEW b \in Bodies, Post(c, o, b)
        PROVE  UNCHANGED Contract!brokerageVars
    <3> DEFINE p == [call[c] EXCEPT !.pc = "beforeRead", !.order = o, !.body = b]
    <3>1. p.answer = call[c].answer
      BY <1>2, CallFields DEF Processes
    <3>2. call' = [call EXCEPT ![c] = p] /\ row' = row
      BY <2>2 DEF Post
    <3>3. QED
      BY <1>2, <3>1, <3>2, SilentCall
  <2>3. ASSUME NEW c \in Calls, NEW pc, Go(c, pc), row' = row
        PROVE  UNCHANGED Contract!brokerageVars
    <3> DEFINE p == [call[c] EXCEPT !.pc = pc]
    <3>1. p.answer = call[c].answer
      BY <1>2, CallFields DEF Processes
    <3>2. QED
      BY <1>2, <2>3, <3>1, SilentCall DEF Go
  <2>4. ASSUME NEW c \in Calls, BeforeRead(c)
        PROVE  Contract!Next \/ UNCHANGED Contract!brokerageVars
    <3>1. \/ \E pc \in {"sleep", "current"} : Go(c, pc)
          \/ \E answer \in {"ERROR", "MALFORMED"} : Ends(c, answer)
      BY <2>4 DEF BeforeRead
    <3>2. row' = row /\ call[c].pc # "done"
      BY <2>4 DEF BeforeRead, At
    <3>3. QED
      BY <1>2, <2>3, <3>1, <3>2, FailureIsAllowed
  <2>5. ASSUME NEW c \in Calls, Wake(c) PROVE UNCHANGED Contract!brokerageVars
    BY <2>3, <2>5 DEF Wake
  <2>6. ASSUME NEW c \in Calls, Current(c) PROVE UNCHANGED Contract!brokerageVars
    <3> DEFINE p == [call[c] EXCEPT !.pc = "submit", !.mode = scenario]
    <3>1. p.answer = call[c].answer
      BY <1>2, CallFields DEF Processes
    <3>2. call' = [call EXCEPT ![c] = p] /\ row' = row
      BY <2>6 DEF Current
    <3>3. QED
      BY <1>2, <3>1, <3>2, SilentCall
  <2>7. ASSUME NEW c \in Calls, SubmitReads(c)
        PROVE  Contract!Next \/ UNCHANGED Contract!brokerageVars
    <3>1. call[c].pc = "submit" /\ row' = row
      BY <2>7 DEF SubmitReads, At
    <3>2. CASE row[call[c].order] # NoRow
      BY <1>2, <2>7, <3>1, <3>2, RereadIsAllowed DEF SubmitReads
    <3>3. CASE row[call[c].order] = NoRow
      <4>1. Ends(c, "NOT_FOUND") \/ Go(c, "insert")
        BY <2>7, <3>3 DEF SubmitReads
      <4>2. QED
        BY <1>2, <2>3, <3>1, <3>3, <4>1, MissingIsAllowed
    <3>4. QED
      BY <3>2, <3>3
  <2>8. ASSUME NEW c \in Calls, SubmitInserts(c) PROVE Contract!Next
    <3> DEFINE o == call[c].order
               r == NewRow(c)
    <3>1. call[c].pc = "insert" /\ row[o] = NoRow /\ o \in Orders /\ call[c].body \in Bodies
          /\ call[c].mode \in SCENARIO_MODES
      BY <1>2, <2>8, CallFields DEF SubmitInserts, At, IInv, ReadsAreCurrent, Posting
    <3>2. row' = [row EXCEPT ![o] = r] /\ Tells(c, r.status)
      BY <1>2, <2>8, <3>1 DEF SubmitInserts, IInv, TypeOK
    <3>3. r \in Rows /\ r.status \in Statuses /\ r.body = call[c].body
      BY <3>1 DEF NewRow, Rows, StatusUnder, Statuses
    <3>4. Book' = [Book EXCEPT ![o] = [body |-> call[c].body, status |-> r.status]]
      BY <1>2, <3>1, <3>2, <3>3, BookChanges
    <3>5. Book[o] = Contract!NoOrder
      BY <1>2, <3>1, BookReadsRows
    <3>6. Contract!Says(c, r.status) \/ Contract!Says(c, "FAILED")
      <4>1. PICK answer \in {r.status, "BROKEN"} : Ends(c, answer)
        BY <3>2 DEF Tells
      <4>2. Contract!Says(c, Heard(answer))
        BY <1>2, <3>1, <3>3, <4>1, EndsSays DEF Answers
      <4>3. Heard(answer) = r.status \/ Heard(answer) = "FAILED"
        BY <3>3 DEF Heard, Statuses
      <4>4. QED
        BY <4>2, <4>3
    <3>7. Contract!Submit(c, o, call[c].body)
      BY <3>3, <3>4, <3>5, <3>6 DEF Contract!Submit, Contract!Records, Contract!Outcomes, Statuses
    <3>8. QED
      BY <3>1, <3>7 DEF Contract!Next
  <2>9. ASSUME NEW c \in Calls, FindReads(c)
        PROVE  Contract!Next \/ UNCHANGED Contract!brokerageVars
    <3>1. call[c].pc = "find" /\ row' = row
      BY <2>9 DEF FindReads, At
    <3>2. CASE row[call[c].order] = NoRow /\ Ends(c, "NOT_FOUND")
      BY <1>2, <3>1, <3>2, MissingIsAllowed
    <3>3. CASE row[call[c].order] # NoRow /\ Ends(c, row[call[c].order].status)
      BY <1>2, <3>1, <3>3, RereadIsAllowed
    <3>4. CASE Go(c, "fill")
      BY <2>3, <3>1, <3>4
    <3>5. QED
      BY <2>9, <3>2, <3>3, <3>4 DEF FindReads
  <2>10. ASSUME NEW c \in Calls, FindFills(c) PROVE Contract!Next
    <3> DEFINE o == call[c].order
               r == [row[o] EXCEPT !.status = "FILLED"]
    <3>1. call[c].pc = "fill" /\ row[o].status = "UNKNOWN" /\ o \in Orders /\ row[o] \in Rows
      BY <1>2, <2>10, CallFields DEF FindFills, At, IInv, ReadsAreCurrent, Completes, TypeOK
    <3>2. row' = [row EXCEPT ![o] = r] /\ Tells(c, "FILLED")
      BY <2>10 DEF FindFills
    <3>3. r \in Rows /\ r.status = "FILLED" /\ r.body = row[o].body
      BY <3>1 DEF Rows, Statuses
    <3>4. /\ Book[o] = [body |-> row[o].body, status |-> "UNKNOWN"]
          /\ Book' = [Book EXCEPT ![o] = [body |-> row[o].body, status |-> "FILLED"]]
      <4>1. Book[o] = [body |-> row[o].body, status |-> row[o].status]
        BY <1>2, <3>1, BookReadsRows
      <4>2. Book' = [Book EXCEPT ![o] = [body |-> r.body, status |-> r.status]]
        <5> HIDE DEF r
        <5>1. QED
          BY <1>2, <3>1, <3>2, <3>3, BookChanges
      <4>3. QED
        BY <3>1, <3>3, <4>1, <4>2
    <3>5. Contract!Fills(o)
      <4>1. Book[o].status = "UNKNOWN"
        BY <3>4
      <4>2. [Book[o] EXCEPT !.status = "FILLED"] = [body |-> row[o].body, status |-> "FILLED"]
        BY <3>4
      <4>3. QED
        BY <3>4, <4>1, <4>2 DEF Contract!Fills
    <3>6. Contract!Says(c, "FILLED") \/ Contract!Says(c, "FAILED")
      <4>1. PICK answer \in {"FILLED", "BROKEN"} : Ends(c, answer)
        BY <3>2 DEF Tells
      <4>2. Contract!Says(c, Heard(answer))
        BY <1>2, <3>1, <4>1, EndsSays DEF Answers, Statuses
      <4>3. QED
        BY <4>2 DEF Heard
    <3>7. Contract!Find(c, o)
      BY <3>5, <3>6 DEF Contract!Find
    <3>8. QED
      BY <3>1, <3>7 DEF Contract!Next
  <2>11. ASSUME NEW c \in Calls, Aborts(c) PROVE Contract!Next
    BY <1>2, <2>11, FailureIsAllowed DEF Aborts
  <2>12. ASSUME NEW mode \in SCENARIO_MODES, SetScenario(mode)
         PROVE  UNCHANGED Contract!brokerageVars
    BY <2>12, Silent DEF SetScenario
  <2>13. ASSUME Reset PROVE Contract!Next
    <3>1. Book' = [o \in Orders |-> Contract!NoOrder] /\ Said' = Said
      BY <2>13 DEF Reset, Book, Said, NoRow, Contract!NoOrder
    <3>2. QED
      BY <3>1 DEF Contract!Forget, Contract!Next
  <2>14. CASE UNCHANGED vars
    BY <2>14, Silent DEF vars
  <2>15. QED
    BY <1>2, <2>1, <2>2, <2>4, <2>5, <2>6, <2>7, <2>8, <2>9, <2>10, <2>11, <2>12, <2>13, <2>14
       DEF Next
<1>3. IInv /\ [Next]_vars => [Contract!Next]_Contract!brokerageVars
  BY <1>2
<1>4. QED
  BY <1>1, <1>3, Invariance, PTL DEF Spec, ContractKept, Contract!Spec
=============================================================================
