------------------------------- MODULE MCTrade -------------------------------
(* Model checking Trade: players and items are interchangeable. *)
EXTENDS Trade, TLC

CONSTANTS a, b, c, i, j

ThreePlayers == {a, b, c}
TwoItems == {i, j}
Symmetry == Permutations(Players) \cup Permutations(Items)
==============================================================================
