--------------------------- MODULE MCBattleServer ---------------------------
(* Three connections of three logged in players; bob is on UDP. *)
EXTENDS BattleServer, TLC

CONSTANTS pa, pb, pc, alice, bob, carol

MCPeers == {pa, pb, pc}
MCSessions == {alice, bob, carol}

(* alice may also present her session id on carol's connection. *)
MCPresents == (pa :> {alice}) @@ (pb :> {bob}) @@ (pc :> {alice, carol})

MCOneBattle == <<{alice, bob, carol}>>
MCThreeBattles == <<{alice, bob}, {carol}, {alice}>>
=============================================================================
