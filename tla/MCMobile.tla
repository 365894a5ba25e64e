------------------------------ MODULE MCMobile ------------------------------
(***************************************************************************)
(* What the customer of the mobile app waits for, checked in one run: the  *)
(* access to the app, its session, its order screen, and behind that the   *)
(* reconciliation of an order by workers that outlive their leases.        *)
(* `part` says which of them this behaviour is about, and the others stay  *)
(* as they began.  AppAccess is extended, the other three are instances    *)
(* with the bounds of the run.                                             *)
(***************************************************************************)
EXTENDS AppAccess

VARIABLES
    part,
    \* AuthSession
    accessToken, storedToken, presence, op, activeRefresh, sending, newestToken, user,
    broken, disturbed, rotatedAway,
    \* OrderFlow
    asked, made, latest, current, key, confirm, delayed, order, orderId, closed, renewed,
    moved,
    \* OrderSettlement
    quote, idem, status, amount, reservation, available, reserved, ledger, execution,
    position, job, outbox, audit, broker, late, req, wk, faults

sessionVars == <<accessToken, storedToken, presence, op, activeRefresh, sending, newestToken,
                 user, broken, disturbed, rotatedAway>>
screenVars == <<asked, made, latest, current, key, confirm, delayed, order, orderId, closed,
                renewed, moved>>
settlementVars == <<quote, idem, status, amount, reservation, available, reserved, ledger,
                    execution, position, job, outbox, audit, broker, late, req, wk, faults>>
all == <<part, vars, sessionVars, screenVars, settlementVars>>

Session == INSTANCE AuthSession
    WITH Sessions <- {"s1"}, Requests <- {"r1", "r2"}, MaxRefreshes <- 2

Ordering == INSTANCE OrderFlow
    WITH Quotes <- {"q1", "q2"}, Keys <- {"k1", "k2"}, Confirms <- {"c1"}, Unset <- "none"

Reconcilers == {"w1", "w2"}
Settlement == INSTANCE OrderSettlement
    WITH Requests <- {"r1"}, Keys <- {"k1"}, Quotes <- {"q1"}, Workers <- Reconcilers,
         Amounts <- {1, 2}, InitialCash <- 3, MaxAttempts <- 2, LeasesHold <- FALSE,
         MaxFaults <- 3, NoOrder <- "none"

OnlyAccess  == part = "access"  /\ UNCHANGED <<part, sessionVars, screenVars, settlementVars>>
OnlySession == part = "session" /\ UNCHANGED <<part, vars, screenVars, settlementVars>>
OnlyScreen  == part = "screen"  /\ UNCHANGED <<part, vars, sessionVars, settlementVars>>
OnlyOrders  == part = "orders"  /\ UNCHANGED <<part, vars, sessionVars, screenVars>>

MobileInit ==
    /\ part \in {"access", "session", "screen", "orders"}
    /\ Init /\ Session!Init /\ Ordering!Init /\ Settlement!Init

MobileNext ==
    \/ OnlyAccess  /\ Next
    \/ OnlySession /\ Session!Next
    \/ OnlyScreen  /\ Ordering!Next
    \/ OnlyOrders  /\ Settlement!Next

\* The fairness of the four modules: a step of a part leaves the others alone.
MobileFairness ==
    /\ \A p \in Prompts : WF_vars(part = "access" /\ PromptEnds(p))
    /\ WF_vars(part = "access" /\ Save)
    /\ \A e \in Exits : WF_vars(part = "access" /\ Exiting(e))
    /\ WF_sessionVars(part = "session" /\ Session!Refreshing)
    /\ \A r \in {"r1", "r2"} : WF_sessionVars(part = "session" /\ Session!Going(r))
    /\ WF_screenVars(part = "screen" /\ Ordering!Poll)
    /\ WF_settlementVars(part = "orders" /\ Settlement!Submitting("r1"))
    /\ SF_settlementVars(/\ part = "orders"
                         /\ \E w \in Reconcilers : Settlement!LeasesExpire(w, {"r1"}))
    /\ SF_settlementVars(part = "orders" /\ \E w \in Reconcilers : Settlement!Claim(w, "r1"))
    /\ \A w \in Reconcilers : WF_settlementVars(part = "orders" /\ Settlement!Reconciling(w))

MobileSpec == MobileInit /\ [][MobileNext]_all /\ MobileFairness

-----------------------------------------------------------------------------
(* Properties of the parts *)

RequestsEnd  == Session!RequestsEnd
FillsAreSeen == Ordering!FillsAreSeen
UnknownEnds  == Settlement!UnknownEnds
=============================================================================
