------------------------- MODULE MCOrderSettlement -------------------------
(* OrderSettlement with the permutations TLC may use: requests, keys, quotes *)
(* and workers are interchangeable in every definition.                      *)
EXTENDS OrderSettlement, TLC

Interchangeable ==
    Permutations(Requests) \cup Permutations(Keys)
        \cup Permutations(Quotes) \cup Permutations(Workers)
=============================================================================
