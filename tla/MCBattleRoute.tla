---------------------------- MODULE MCBattleRoute ----------------------------
(* Two players, reads enough to fill the window of a proxy and go past it. *)
EXTENDS BattleRoute, TLC

CONSTANTS amuro, char
=============================================================================
