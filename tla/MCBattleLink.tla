---------------------------- MODULE MCBattleLink ----------------------------
(* A link between the server and one player: the player's own messages go  *)
(* up, another player's messages come down.                                *)
EXTENDS BattleLink

CONSTANTS client, server, alice, bob,
  MCUp, MCDown  \* bounds: messages pushed at the client and at the server

MCEnds == {client, server}

(* In both directions: alice's messages go up, bob's come down. *)
MCAuthors == {alice, bob}
MCWriterAt == [a \in MCAuthors |-> IF a = alice THEN client ELSE server]

MCPushed == [p \in MCEnds |-> IF p = client THEN MCUp ELSE MCDown]

=============================================================================
