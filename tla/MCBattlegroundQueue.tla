-------------------------- MODULE MCBattlegroundQueue -------------------------
\* Two players of one team and one of the other, for TLC.
EXTENDS BattlegroundQueue, TLC

CONSTANTS a1, a2, h1

MCTeam == (a1 :> "alliance") @@ (a2 :> "alliance") @@ (h1 :> "horde")
==============================================================================
