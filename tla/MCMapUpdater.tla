---------------------------- MODULE MCMapUpdater ----------------------------
(* Two workers, an ordinary map, an instanced map and its instances. *)
EXTENDS MapUpdater, TLC

CONSTANTS w1, w2, continent, dungeon, i1, i2

MCParent == [i \in Instances |-> dungeon]
==============================================================================
