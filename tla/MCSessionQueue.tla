---------------------------- MODULE MCSessionQueue ---------------------------
(* Instances of SessionQueue for TLC.                                        *)
EXTENDS SessionQueue

Symmetry == Permutations(Accounts)
==============================================================================
