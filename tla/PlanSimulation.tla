---------------------------- MODULE PlanSimulation ----------------------------
(***************************************************************************)
(* The preview of a customer's plan: the draft on the phone, the request,  *)
(* the Monte Carlo engine of the platform, the run it stores, and the      *)
(* result the phone fetches for the id it was given                        *)
(* (features/simulation, modules/simulation).                              *)
(*                                                                         *)
(* The amounts of a plan and of a stored result are whole numbers of the   *)
(* smallest amount that can be written, 0.0001.  The engine computes with  *)
(* parts of it, Grain to the whole.  A month multiplies the value of a     *)
(* path by one of Factors, in parts of FactorUnit, which stand for the     *)
(* correlated draws from the seed; the factor of an allocation is not told *)
(* from that of another.                                                   *)
(***************************************************************************)
EXTENDS Naturals, Sequences, FiniteSets

CONSTANTS
    Inputs,     \* plans: [initial, contribution, target, months]
    TooMuch,    \* an amount above the maximum of the service
    Grain,      \* parts of the smallest amount that the engine tells apart
    Factors,    \* what a month may multiply a value by
    FactorUnit, \* the factor that leaves a value as it is
    Paths,      \* SIMULATION_PATH_COUNT
    Ceiling,    \* the numeric range of the engine
    MaxRuns     \* bound on the runs that are stored

VARIABLES
    create,      \* the mutation of the screen: [pc, input, run]
    result,      \* the query of the run it shows: [run, pc, data], run 0 for none
    runs,        \* stored runs: [input, goals, points]
    auditEvents  \* audit events: indexes of runs

vars == <<create, result, runs, auditEvents>>

NoInput == [initial |-> 0, contribution |-> 0, target |-> 0, months |-> 0]
NoCreate == [pc |-> "idle", input |-> NoInput, run |-> 0]
NoResult == [run |-> 0, pc |-> "idle", data |-> <<>>]

Init ==
    /\ create = NoCreate
    /\ result = NoResult
    /\ runs = <<>> /\ auditEvents = {}

-----------------------------------------------------------------------------
(* The engine *)

\* Growths of a path: one factor for every month.
Growths(input) == [1..input.months -> Factors]

\* The values of a path, in parts, from the initial assets on.
Values(input, growth) ==
    LET value[m \in 0..input.months] ==
          IF m = 0 THEN input.initial * Grain
          ELSE (value[m - 1] * growth[m]) \div FactorUnit + input.contribution * Grain
    IN  value

Digits(n) == IF n < 10 THEN 1 ELSE 2
\* Mutant: sort without a comparator, which compares numbers as text.
AscendAsText(values, order) ==
    LET text(n) == IF Digits(n) = 1 THEN 10 * n ELSE n
    IN  \A i, j \in DOMAIN values : i < j => text(values[order[i]]) <= text(values[order[j]])
\* No value is followed by a smaller one when they are taken in the order.
Ascend(values, order) ==
    \A i, j \in DOMAIN values : i < j => values[order[i]] <= values[order[j]]

\* Sorting with (a, b) => a - b.
Orders(S) == {order \in [S -> S] : \A i, j \in S : i # j => order[i] # order[j]}
Sorted(values) ==
    LET order == CHOOSE order \in Orders(DOMAIN values) : Ascend(values, order)
    IN  [i \in DOMAIN values |-> values[order[i]]]

\* percentile: Math.round rounds a half up.
Percentile(sorted, tenths) == sorted[(tenths * (Len(sorted) - 1) + 5) \div 10 + 1]

\* money: what is stored of a value is rounded, a half up.
money(value) == (2 * value + Grain) \div (2 * Grain)

Point(values) ==
    LET sorted == Sorted(values)
    IN  [p10 |-> money(Percentile(sorted, 1)), p50 |-> money(Percentile(sorted, 5)),
         p90 |-> money(Percentile(sorted, 9))]

\* runSimulation and what save stores of it, from the growth of every path.  The
\* goals are counted before anything is rounded.  A value outside the range is
\* an error.
InRange(input, growths) ==
    \A p \in 1..Paths, m \in 0..input.months : Values(input, growths[p])[m] <= Ceiling * Grain
Reached(input, growths) ==
    {p \in 1..Paths : Values(input, growths[p])[input.months] >= input.target * Grain}
runSimulation(input, growths) ==
    [input |-> input,
     goals |-> Cardinality(Reached(input, growths)),
     points |-> [m \in 1..(input.months + 1) |->
                    Point([p \in 1..Paths |-> Values(input, growths[p])[m - 1]])]]

-----------------------------------------------------------------------------
(* The phone *)

\* submit: the draft as it is now, if its amounts are whole numbers; the button
\* waits for the answer.
Submit(input) ==
    /\ create.pc = "idle"
    /\ create' = [NoCreate EXCEPT !.pc = "sent", !.input = input]
    /\ UNCHANGED <<result, runs, auditEvents>>

\* onSuccess: the screen shows the new run, whose query starts without data.
Created ==
    /\ create.pc = "created"
    /\ create' = NoCreate
    /\ result' = [run |-> create.run, pc |-> "fetching", data |-> <<>>]
    /\ UNCHANGED <<runs, auditEvents>>

\* The request fails, or its answer is lost: a mutation is not repeated.
CreateFails ==
    /\ create.pc # "idle"
    /\ create' = NoCreate
    /\ UNCHANGED <<result, runs, auditEvents>>

\* GET /simulations/:id reads the run of the customer, and its points after it.
Fetched ==
    /\ result.pc = "fetching"
    /\ result' = [result EXCEPT !.pc = "idle", !.data = <<runs[result.run]>>]
    /\ UNCHANGED <<create, runs, auditEvents>>

\* It fails, or is due again.
FetchFails ==
    /\ result.pc = "fetching"
    /\ result' = [result EXCEPT !.pc = "idle"]
    /\ UNCHANGED <<create, runs, auditEvents>>

Refetch ==
    /\ result.run # 0 /\ result.pc = "idle"
    /\ result' = [result EXCEPT !.pc = "fetching"]
    /\ UNCHANGED <<create, runs, auditEvents>>

-----------------------------------------------------------------------------
(* The service *)

\* validate; the phone knows no maximum.
Valid(input) == TooMuch \notin {input.initial, input.contribution, input.target}

\* create, up to the transaction that stores the run.
Run ==
    /\ create.pc = "sent" /\ Valid(create.input) /\ Len(runs) < MaxRuns
    /\ \E growths \in [1..Paths -> Growths(create.input)] :
          /\ InRange(create.input, growths)
          /\ runs' = Append(runs, runSimulation(create.input, growths))
    /\ create' = [create EXCEPT !.pc = "saved", !.run = Len(runs) + 1]
    /\ UNCHANGED <<result, auditEvents>>

\* An input the service refuses, or a value that leaves the range: 400 and 500.
Refuse ==
    /\ create.pc = "sent"
    /\ \/ ~Valid(create.input)
       \/ \E growths \in [1..Paths -> Growths(create.input)] : ~InRange(create.input, growths)
    /\ create' = [create EXCEPT !.pc = "refused"]
    /\ UNCHANGED <<result, runs, auditEvents>>

\* The audit event is a statement of its own: if it fails the run stays.
Audit ==
    /\ create.pc = "saved"
    /\ \/ auditEvents' = auditEvents \cup {create.run} /\ create' = [create EXCEPT !.pc = "created"]
       \/ UNCHANGED auditEvents /\ create' = [create EXCEPT !.pc = "refused"]
    /\ UNCHANGED <<result, runs>>

Next ==
    \/ \E input \in Inputs : Submit(input)
    \/ Created \/ CreateFails \/ Fetched \/ FetchFails \/ Refetch
    \/ Run \/ Refuse \/ Audit

Spec == Init /\ [][Next]_vars

-----------------------------------------------------------------------------
(* Properties *)

\* What the screen puts side by side fits together, though the spread is
\* rounded and the goals are not: the chart begins at the initial assets and is
\* ordered in every month, and the probability of the goal agrees with where
\* the target lies in the spread of the last month.  Of a percentile that is
\* shown equal to the target nothing is said: it may lie on either side of it.
ResultIsConsistent ==
    \A i \in DOMAIN result.data :
        LET run == result.data[i]
            last == run.points[run.input.months + 1]
            first == run.points[1]
        IN  /\ {first.p10, first.p50, first.p90} = {run.input.initial}
            /\ \A m \in DOMAIN run.points :
                  run.points[m].p10 <= run.points[m].p50 /\ run.points[m].p50 <= run.points[m].p90
            /\ last.p50 > run.input.target => 2 * run.goals >= Paths
            /\ last.p50 < run.input.target => 2 * run.goals <= Paths
            /\ last.p10 > run.input.target => 10 * run.goals >= 9 * Paths - 4
            /\ last.p90 < run.input.target => 10 * run.goals <= Paths + 4
=============================================================================
