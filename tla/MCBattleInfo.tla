---------------------------- MODULE MCBattleInfo ----------------------------
(* Three emulators; two of them near the lobby or not. *)
EXTENDS BattleInfo, MCLobby

MCInfo(sync, rtt, n1, n2) ==
  [sync |-> sync, udp |-> TRUE, ggpo |-> TRUE, rtt |-> rtt, relay |-> TRUE,
   near |-> [r \in Relays |-> IF r = 1 THEN n1 ELSE n2]]

(* c1 has two infos, with different fingerprints.  The first relay is the  *)
(* better one for c1 and either of the others, not for all three.          *)
MCInfosOf ==
  [p \in Conns |-> IF p = c1 THEN {MCInfo(x, 10, 5, 30), MCInfo(y, Unknown, 5, 0)}
                   ELSE {MCInfo(x, 20, 20, 9)}]
MCSyncsOf == [p \in Conns |-> {i.sync : i \in MCInfosOf[p]}]
MCIpOf == [p \in Conns |-> p]
MCOthersAlike == MCRenamings(<<c2, c3>>, <<bob, carol>>) \cup MCSidesAlike
=============================================================================
