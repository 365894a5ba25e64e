------------------------------ MODULE Brokerage ------------------------------
(***************************************************************************)
(* What a brokerage promises the platform: a client order id names one     *)
(* order, recorded once with the body of the call that recorded it; an     *)
(* order that is UNKNOWN may be filled later and no other outcome ever     *)
(* changes; an answer tells what is recorded at the moment it is made; a   *)
(* failed call says nothing.  SimBrokerage is shown to implement this.     *)
(***************************************************************************)
CONSTANTS Calls, Orders, Bodies, NoBody

VARIABLES
    book,   \* [body, status] of each order
    said    \* the answer of each call, "NONE" before it

brokerageVars == <<book, said>>

Outcomes == {"FILLED", "REJECTED", "UNKNOWN"}
NoOrder  == [body |-> NoBody, status |-> "NONE"]

Init == /\ book = [o \in Orders |-> NoOrder]
        /\ said = [c \in Calls |-> "NONE"]

Says(c, answer) == /\ said[c] = "NONE"
                   /\ said' = [said EXCEPT ![c] = answer]

\* A call for an order that is recorded hears its outcome, or of a conflict.
Resubmit(c, o, b) ==
    /\ book[o] # NoOrder
    /\ Says(c, IF book[o].body = b THEN book[o].status ELSE "CONFLICT")
    /\ UNCHANGED book

Records(o, b, outcome) ==
    /\ book[o] = NoOrder
    /\ book' = [book EXCEPT ![o] = [body |-> b, status |-> outcome]]

\* The first call decides; its answer may be lost.
Submit(c, o, b) ==
    \E outcome \in Outcomes : /\ Records(o, b, outcome)
                              /\ Says(c, outcome) \/ Says(c, "FAILED")

Fills(o) == /\ book[o].status = "UNKNOWN"
            /\ book' = [book EXCEPT ![o].status = "FILLED"]

\* A query tells the outcome, and may be what completes the order.
Find(c, o) ==
    \/ /\ book[o] # NoOrder
       /\ Says(c, book[o].status)
       /\ UNCHANGED book
    \/ Fills(o) /\ (Says(c, "FILLED") \/ Says(c, "FAILED"))

Missing(c, o) == book[o] = NoOrder /\ Says(c, "NOT_FOUND") /\ UNCHANGED book

Fails(c) == Says(c, "FAILED") /\ UNCHANGED book

\* The operator of a demo puts everything back to the start.
Forget == book' = [o \in Orders |-> NoOrder] /\ UNCHANGED said

Next == \/ \E c \in Calls, o \in Orders :
               \/ \E b \in Bodies : Submit(c, o, b) \/ Resubmit(c, o, b)
               \/ Find(c, o) \/ Missing(c, o)
        \/ \E c \in Calls : Fails(c)
        \/ Forget

Spec == Init /\ [][Next]_brokerageVars
=============================================================================
