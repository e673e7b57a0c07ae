------------------------------ MODULE MCLobby ------------------------------
(* Up to three connections, each of another user. *)
EXTENDS Lobby, TLC

CONSTANTS c1, c2, c3, alice, bob, carol, x, y

MCThreeUsers == (c1 :> alice) @@ (c2 :> bob) @@ (c3 :> carol)
MCTwoUsers == (c1 :> alice) @@ (c2 :> bob)

MCOneSync == [c \in Conns |-> {x}]

(* Connections that differ in name only, renamed with their users. *)
MCRenamings(cs, us) ==
  {[v \in ToSet(cs) \cup ToSet(us) |->
      IF v \in ToSet(cs) THEN cs[f[CHOOSE i \in DOMAIN cs : cs[i] = v]]
      ELSE us[f[CHOOSE i \in DOMAIN us : us[i] = v]]] : f \in Permutations(DOMAIN cs)}

(* The two sides differ in name only, too. *)
MCSidesAlike == Permutations({Aeug, Titans})
MCTwoAlike == MCRenamings(<<c1, c2>>, <<alice, bob>>) \cup MCSidesAlike
=============================================================================
