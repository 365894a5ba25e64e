----------------------------- MODULE CashHolds -----------------------------
(***************************************************************************)
(* What the trading module promises a customer about the cash of one       *)
(* account: each order holds an amount once, and what it holds ends once,  *)
(* either spent up to that amount with the rest given back, or given back  *)
(* entirely.  No process, no lease, no brokerage: OrderSettlement is shown *)
(* to implement this.                                                      *)
(***************************************************************************)
EXTENDS Naturals

CONSTANTS Orders, Amounts, InitialCash

VARIABLES
    phase,      \* "none", "held", "spent" or "returned"
    held,       \* the amount an order holds or held
    spent,      \* the amount it was filled for
    available,
    reserved

cashVars == <<phase, held, spent, available, reserved>>

Init ==
    /\ phase = [o \in Orders |-> "none"]
    /\ held = [o \in Orders |-> 0]
    /\ spent = [o \in Orders |-> 0]
    /\ available = InitialCash
    /\ reserved = 0

\* An order takes what it needs out of the available cash.
Hold(o, a) ==
    /\ phase[o] = "none"
    /\ a <= available
    /\ phase' = [phase EXCEPT ![o] = "held"]
    /\ held' = [held EXCEPT ![o] = a]
    /\ available' = available - a
    /\ reserved' = reserved + a
    /\ UNCHANGED spent

\* A fill never costs more than was held.
Spend(o, cost) ==
    /\ phase[o] = "held"
    /\ cost <= held[o]
    /\ phase' = [phase EXCEPT ![o] = "spent"]
    /\ spent' = [spent EXCEPT ![o] = cost]
    /\ available' = available + (held[o] - cost)
    /\ reserved' = reserved - held[o]
    /\ UNCHANGED held

GiveBack(o) ==
    /\ phase[o] = "held"
    /\ phase' = [phase EXCEPT ![o] = "returned"]
    /\ available' = available + held[o]
    /\ reserved' = reserved - held[o]
    /\ UNCHANGED <<held, spent>>

Next == \E o \in Orders :
            \/ \E a \in Amounts : Hold(o, a) \/ Spend(o, a)
            \/ GiveBack(o)

Spec == Init /\ [][Next]_cashVars
=============================================================================
