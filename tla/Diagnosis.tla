------------------------------ MODULE Diagnosis ------------------------------
(***************************************************************************)
(* The coach's diagnosis of how a customer's assets are spread             *)
(* (features/coach): two queries, the summary of the assets and the risk   *)
(* profile, and the comparison of the two, made anew whenever one of them  *)
(* brings something.                                                       *)
(*                                                                         *)
(* The weights of a summary are whole numbers in any scale.  A percentage  *)
(* is not rounded: it is compared by its multiple of the total.            *)
(***************************************************************************)
EXTENDS Integers, FiniteSets

CONSTANT Weights  \* weights an item of a summary may have

PLANNING_ASSET_CLASSES == {"CASH", "BOND", "EQUITY"}

VARIABLES
    assetSummary, \* query of the summary: [data, isError, isFetching]
    riskProfile   \* query of the profile

vars == <<assetSummary, riskProfile>>

NoSummary == [c \in {} |-> 0]
Started(data) == [data |-> data, isError |-> FALSE, isFetching |-> TRUE]

\* Both queries start when the screen is mounted.
Init == assetSummary = Started(NoSummary) /\ riskProfile = Started("none")

-----------------------------------------------------------------------------
(* The comparison *)

\* RISK_PROFILE_ALLOCATIONS, in percent.
Suggested ==
    [CONSERVATIVE |-> [CASH |-> 20, BOND |-> 50, EQUITY |-> 30],
     BALANCED     |-> [CASH |-> 10, BOND |-> 30, EQUITY |-> 60],
     GROWTH       |-> [CASH |-> 5,  BOND |-> 15, EQUITY |-> 80]]

\* normalizeAssetAllocation: other classes do not count.  A summary has one
\* item of a class, none is a weight of 0.
Normalized(items) ==
    [weight |-> items, total |-> items["CASH"] + items["BOND"] + items["EQUITY"]]

\* How far class c is from its suggestion, in hundredths of the total; when
\* there are no assets every class is at zero percent.
Off(current, suggested, c) ==
    IF current.total = 0 THEN -suggested[c]
    ELSE 100 * current.weight[c] - suggested[c] * current.total
Scale(current) == IF current.total = 0 THEN 1 ELSE current.total

FOCUS_PRIORITY == <<"EQUITY", "BOND", "CASH">>
Magnitude(n) == IF n < 0 THEN -n ELSE n

\* The first of those in FOCUS_PRIORITY of which nothing is greater.
FirstGreatest(of(_)) ==
    FOCUS_PRIORITY[CHOOSE i \in 1..3 : \A j \in 1..3 :
        LET a == of(FOCUS_PRIORITY[i])  b == of(FOCUS_PRIORITY[j])
        IN  a > b \/ (a = b /\ i <= j)]

\* Mutant: the sign of the difference is kept.
LargestExcess(current, suggested) ==
    FirstGreatest(LAMBDA c : Off(current, suggested, c))
\* The class that is furthest off.
focusAssetClassFor(current, suggested) ==
    FirstGreatest(LAMBDA c : Magnitude(Off(current, suggested, c)))

ALIGNED_THRESHOLD_PERCENTAGE_POINTS == 5

createCoachDiagnosis(items, level) ==
    LET current == Normalized(items)
        suggested == Suggested[level]
        focus == focusAssetClassFor(current, suggested)
        off == Off(current, suggested, focus)
    IN  [status |-> IF Magnitude(off) <= ALIGNED_THRESHOLD_PERCENTAGE_POINTS * Scale(current)
                    THEN "ALIGNED" ELSE "NEEDS_ATTENTION",
         direction |-> IF Magnitude(off) <= ALIGNED_THRESHOLD_PERCENTAGE_POINTS * Scale(current)
                       THEN "ALIGNED" ELSE IF off > 0 THEN "OVER" ELSE "UNDER",
         focus |-> focus]

-----------------------------------------------------------------------------
(* The screen *)

hasData == assetSummary.data # NoSummary /\ riskProfile.data # "none"
viewModel == createCoachDiagnosis(assetSummary.data, riskProfile.data)

\* A query brings data, or fails and keeps what it had.
Brought(data) == [data |-> data, isError |-> FALSE, isFetching |-> FALSE]

SummaryArrives ==
    /\ assetSummary.isFetching
    /\ \E w \in [{"CASH", "BOND", "EQUITY", "OTHER"} -> Weights] :
          assetSummary' = Brought(w)
    /\ UNCHANGED riskProfile

ProfileArrives ==
    /\ riskProfile.isFetching
    /\ \E level \in DOMAIN Suggested : riskProfile' = Brought(level)
    /\ UNCHANGED assetSummary

SummaryFails ==
    /\ assetSummary.isFetching
    /\ assetSummary' = [assetSummary EXCEPT !.isError = TRUE, !.isFetching = FALSE]
    /\ UNCHANGED riskProfile

ProfileFails ==
    /\ riskProfile.isFetching
    /\ riskProfile' = [riskProfile EXCEPT !.isError = TRUE, !.isFetching = FALSE]
    /\ UNCHANGED assetSummary

\* retry, and every event that has the query client fetch again.
Retry ==
    /\ assetSummary' = [assetSummary EXCEPT !.isFetching = TRUE]
    /\ riskProfile' = [riskProfile EXCEPT !.isFetching = TRUE]

Next == SummaryArrives \/ ProfileArrives \/ SummaryFails \/ ProfileFails \/ Retry

Spec == Init /\ [][Next]_vars

-----------------------------------------------------------------------------
(* Properties *)

\* The verdict holds for all classes though it looks at one: a customer told
\* to be aligned is within five points everywhere, and one told to have too
\* much or too little of a class has too little or too much of another, unless
\* there is nothing to spread.
VerdictHolds ==
    hasData =>
        LET current == Normalized(assetSummary.data)
            suggested == Suggested[riskProfile.data]
            off(c) == Off(current, suggested, c)
        IN  /\ viewModel.status = "ALIGNED" =>
                  \A c \in PLANNING_ASSET_CLASSES : Magnitude(off(c)) <= 5 * Scale(current)
            /\ viewModel.direction = "OVER" =>
                  \E c \in PLANNING_ASSET_CLASSES : off(c) < 0
            /\ viewModel.direction = "UNDER" =>
                  \/ current.total = 0
                  \/ \E c \in PLANNING_ASSET_CLASSES : off(c) > 0
=============================================================================
