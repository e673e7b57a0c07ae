---------------------------- MODULE MCSpectator ----------------------------
(* Three spectators ask for a battle that two may watch. *)
EXTENDS Spectator

CONSTANTS k1, w1, w2, w3
=============================================================================
