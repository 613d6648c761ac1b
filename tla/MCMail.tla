------------------------------- MODULE MCMail --------------------------------
(* Instances of Mail for TLC: money and its widths are scaled down.          *)
EXTENDS Mail, TLC

Symmetry == Permutations(Players) \cup Permutations(Items)

MailIds2 == 1..2
==============================================================================
