----------------------------- MODULE MCPlatform -----------------------------
(***************************************************************************)
(* Platform with small sets and bounds for TLC.                            *)
(***************************************************************************)
EXTENDS Platform, TLC

\* The calls of MarketCache are interchangeable, and so are those of Identity.
\* They have the same names: one permutation serves both.
CallSymmetry == Permutations(Gets)

Plan(initial, contribution, target, months) ==
    [initial |-> initial, contribution |-> contribution, target |-> target, months |-> months]
\* Of the first plan's values after two months, 7 parts are shown as the target.
MCInputs == {Plan(1, 2, 4, 2), Plan(9, 0, 9, 1), Plan(1, 0, 99, 1)}

MCKeypad == <<"a", "b", "c">>
=============================================================================
