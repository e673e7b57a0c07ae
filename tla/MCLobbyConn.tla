----------------------------- MODULE MCLobbyConn -----------------------------
(* A connection whose client sends two messages of three bytes, of which   *)
(* the header is two.                                                      *)
EXTENDS LobbyConn

CONSTANT c1
=============================================================================
