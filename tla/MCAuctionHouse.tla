---------------------------- MODULE MCAuctionHouse ---------------------------
(* Instances of AuctionHouse for TLC: money and its widths are scaled down.   *)
EXTENDS AuctionHouse

Symmetry == Permutations(Players)

MailIds3 == 1..3
==============================================================================
