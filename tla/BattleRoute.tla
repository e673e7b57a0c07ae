---------------------------- MODULE BattleRoute -----------------------------
(***************************************************************************)
(* What a player's PS2 hears of the others in a battle over UDP: zproxy    *)
(* (src/zproxy) registers at the lobby and finds out whom it reaches       *)
(* directly, greets the battle server, and then sends what its PS2 writes  *)
(* both through the server (pkg/battle) and to the proxies it reaches,     *)
(* which merge the two paths with one filter (pkg/proto).                  *)
(*                                                                         *)
(* A path is what BattleLink shows of it: the far end is presented the     *)
(* messages put into it in order and without a hole, each perhaps again.   *)
(* One battle is modelled; a proxy that fails before its PS2 has written   *)
(* starts over, as often as it likes.                                      *)
(***************************************************************************)
EXTENDS FinScanner

CONSTANTS
  Players,  \* the players of the battle, each with a PS2 and a zproxy
  Window,   \* messages of a packet (50): what is sent without being acknowledged
  MaxData   \* bound: reads from a PS2; the first is the join

ASSUME RouteAssumption == Window \in Nat \ {0} /\ MaxData \in Nat

VARIABLES
  phase,    \* phase[p]: what the main loop of p's zproxy does
  session,  \* session[p]: Zproxy.sessionID is known
  ponged,   \* ponged[p]: pongReceived
  direct,   \* direct[p]: p2pAddr, those p reaches; it has a buffer for each
  sent,     \* sent[p]: reads of p's PS2 so far, numbered by GenerateMessage
  member,   \* member[p]: what p is to the battle server
  up,       \* up[p]: the last of p's messages the server has taken
  relayed,  \* relayed[p][q]: the next of q's messages the server presents to p
  posted,   \* posted[p][q]: the next of q's messages q's proxy presents to p
  recvSeq,  \* recvSeq[p][q]: the filter of p, the last it took of q's messages
  written   \* history: written[p][q], the numbers of q's written to p's PS2

lobbyVars == <<session, ponged, direct>>
pathVars == <<up, relayed, posted>>
earVars == <<recvSeq, written>>
routeVars == <<phase, lobbyVars, sent, member, pathVars, earVars>>

Others(p) == Players \ {p}
Every(value) == [p \in Players |-> [q \in Others(p) |-> value]]
Join == 1   \* the first message, which the server reads and does not relay

RouteInit ==
  /\ phase = [p \in Players |-> "poll"]
  /\ session = [p \in Players |-> FALSE]
  /\ ponged = [p \in Players |-> {}] /\ direct = [p \in Players |-> {}]
  /\ sent = [p \in Players |-> 0] /\ up = [p \in Players |-> 0]
  /\ member = [p \in Players |-> "none"]
  /\ relayed = Every(0) /\ posted = Every(Join + 1)
  /\ recvSeq = Every(0) /\ written = Every(<<>>)

Goes(p, there) == phase' = [phase EXCEPT ![p] = there]

-----------------------------------------------------------------------------
(* Polling the lobby.                                                      *)

(* register: the lobby knows the PS2 behind the proxy and names the others. *)
Register(p) ==
  /\ phase[p] = "poll" /\ ~session[p]
  /\ session' = [session EXCEPT ![p] = TRUE]
  /\ UNCHANGED <<phase, ponged, direct, sent, member, pathVars, earVars>>

(* A ping of p reached q, which polls as well, and the pong came back.     *)
Pong(p, q) ==
  /\ phase[p] = "poll" /\ phase[q] = "poll"
  /\ session[p] /\ session[q] /\ q \notin ponged[p]
  /\ ponged' = [ponged EXCEPT ![p] = @ \cup {q}]
  /\ UNCHANGED <<phase, session, direct, sent, member, pathVars, earVars>>

(* The PS2 connects and prepareBattle asks for its battle: pongs that are  *)
(* a minute old no longer count.                                           *)
PrepareBattle(p) ==
  /\ phase[p] = "poll" /\ session[p]
  /\ \E fresh \in SUBSET ponged[p] : direct' = [direct EXCEPT ![p] = fresh]
  /\ Goes(p, "greet")
  /\ UNCHANGED <<session, ponged, sent, member, pathVars, earVars>>

(* The battle is the test of a connection: the PS2 plays alone.            *)
PrepareTest(p) ==
  /\ phase[p] = "poll" /\ session[p] /\ Goes(p, "test")
  /\ UNCHANGED <<lobbyVars, sent, member, pathVars, earVars>>

(* A call to the lobby failed, or there is no battle for the session.      *)
PollFails(p) ==
  /\ phase[p] = "poll" /\ Goes(p, "over")
  /\ UNCHANGED <<lobbyVars, sent, member, pathVars, earVars>>

(* Reset, back in main: nothing of the attempt is kept.  After a battle    *)
(* the proxy polls for another one, which is not modelled.                 *)
Reset(p) ==
  /\ phase[p] = "over" /\ sent[p] = 0
  /\ Goes(p, "poll")
  /\ session' = [session EXCEPT ![p] = FALSE]
  /\ ponged' = [ponged EXCEPT ![p] = {}] /\ direct' = [direct EXCEPT ![p] = {}]
  /\ UNCHANGED <<sent, member, pathVars, earVars>>

-----------------------------------------------------------------------------
(* Greeting the battle server.                                             *)

(* A hello arrives: a session the server waits for gets a peer.            *)
HelloArrives(p) ==
  /\ phase[p] = "greet" /\ member[p] = "none"
  /\ member' = [member EXCEPT ![p] = "peer"]
  /\ UNCHANGED <<phase, lobbyVars, sent, pathVars, earVars>>

(* The answer arrives, Ok as long as the server waits for the session.     *)
Greeted(p) ==
  /\ phase[p] = "greet" /\ member[p] = "peer" /\ Goes(p, "battle")
  /\ UNCHANGED <<lobbyVars, sent, member, pathVars, earVars>>

(* Ten hellos in a second brought no answer that was Ok.                   *)
GreetFails(p) ==
  /\ phase[p] = "greet" /\ Goes(p, "over")
  /\ UNCHANGED <<lobbyVars, sent, member, pathVars, earVars>>

-----------------------------------------------------------------------------
(* The battle.                                                             *)

(* A read from the PS2: it goes to the server, and unless it is the join   *)
(* to the proxies p reaches; the buffers hold what is sent but not up or   *)
(* posted.                                                                 *)
PS2Data(p) ==
  /\ phase[p] = "battle" /\ sent[p] < MaxData
  /\ sent' = [sent EXCEPT ![p] = @ + 1]
  /\ UNCHANGED <<phase, lobbyVars, member, pathVars, earVars>>

(* The server takes the join: p joins the room and is sent what the others *)
(* write from now on, but never their joins.                               *)
TakeJoin(p) ==
  /\ phase[p] = "battle" /\ member[p] = "peer" /\ Join <= sent[p]
  /\ member' = [member EXCEPT ![p] = "joined"]
  /\ up' = [up EXCEPT ![p] = Join]
  /\ relayed' = [relayed EXCEPT ![p] = [q \in Others(p) |-> Max({up[q], Join}) + 1]]
  /\ UNCHANGED <<phase, lobbyVars, sent, posted, earVars>>

(* The first message is no join: a read held a part of it, or more.        *)
RefuseJoin(p) ==
  /\ phase[p] = "battle" /\ member[p] = "peer" /\ Join <= sent[p]
  /\ member' = [member EXCEPT ![p] = "none"]
  /\ UNCHANGED <<phase, lobbyVars, sent, pathVars, earVars>>

(* Whatever comes after goes to the members of the room.                   *)
Take(p) ==
  /\ phase[p] = "battle" /\ member[p] = "joined" /\ up[p] < sent[p]
  /\ up' = [up EXCEPT ![p] = @ + 1]
  /\ UNCHANGED <<phase, lobbyVars, sent, member, relayed, posted, earVars>>

(* The peer was silent for five seconds, or its end frame was taken.       *)
Leave(p) ==
  /\ \/ member[p] = "peer" /\ member' = [member EXCEPT ![p] = "none"]
     \/ member[p] = "joined" /\ member' = [member EXCEPT ![p] = "left"]
  /\ UNCHANGED <<phase, lobbyVars, sent, pathVars, earVars>>

(* Mutants of Accepts: a filter that takes whatever is newer; one that     *)
(* takes only the next, also first.                                        *)
AcceptsNewer(p, q, n) == recvSeq[p][q] < n
AcceptsNext(p, q, n) == n = recvSeq[p][q] + 1
Accepts(p, q, n) == recvSeq[p][q] = 0 \/ n = recvSeq[p][q] + 1

(* The subscriber "battle": whichever path presents message n of q, it is  *)
(* acknowledged, and written to the PS2 only if the filter takes it.       *)
Hear(p, q, n) ==
  IF Accepts(p, q, n)
  THEN /\ recvSeq' = [recvSeq EXCEPT ![p][q] = n]
       /\ written' = [written EXCEPT ![p][q] = Append(@, n)]
  ELSE UNCHANGED earVars

(* The server's packet holds message n of q: the next, or one again.       *)
ServerPresents(p, q, n) ==
  /\ phase[p] = "battle" /\ member[p] = "joined" /\ n \in Join + 1 .. up[q]
  /\ n <= relayed[p][q] /\ relayed[p][q] <= n + 1
  /\ relayed' = [relayed EXCEPT ![p][q] = Max({@, n + 1})]
  /\ Hear(p, q, n)
  /\ UNCHANGED <<phase, lobbyVars, sent, member, up, posted>>

(* A packet of q's proxy holds it.  A proxy that does not reach q has no   *)
(* buffer for q and acknowledges nothing, so that q's window never moves.  *)
DirectPresents(p, q, n) ==
  /\ phase[p] = "battle" /\ phase[q] = "battle" /\ p \in direct[q]
  /\ n \in Join + 1 .. sent[q] /\ n <= posted[p][q]
  /\ q \in direct[p] \/ n <= Join + Window
  /\ posted' = [posted EXCEPT ![p][q] = Max({@, n + 1})]
  /\ Hear(p, q, n)
  /\ UNCHANGED <<phase, lobbyVars, sent, member, up, relayed>>

(* The end frame was seen in what the PS2 wrote (FinScanner), or the PS2   *)
(* is gone: what is still in the buffers is not sent.                      *)
End(p) ==
  /\ phase[p] \in {"battle", "test"} /\ Goes(p, "over")
  /\ UNCHANGED <<lobbyVars, sent, member, pathVars, earVars>>

-----------------------------------------------------------------------------
Poll(p) == Register(p) \/ PrepareBattle(p) \/ PrepareTest(p) \/ PollFails(p)
             \/ Reset(p) \/ \E q \in Others(p) : Pong(p, q)
Greet(p) == HelloArrives(p) \/ Greeted(p) \/ GreetFails(p)
ServerReads(p) == TakeJoin(p) \/ RefuseJoin(p) \/ Take(p) \/ Leave(p)
PathPresents(p, q) == \E n \in 1 .. MaxData : ServerPresents(p, q, n) \/ DirectPresents(p, q, n)

RouteNext ==
  \E p \in Players :
    \/ Poll(p) \/ Greet(p) \/ PS2Data(p) \/ ServerReads(p) \/ End(p)
    \/ \E q \in Others(p) : PathPresents(p, q)

(* Both ends of the server's paths send every 16 or 30 milliseconds        *)
(* whatever else happens, and a packet arrives now and then: BattleLink.   *)
(* Nothing is asked of the direct paths.                                   *)
Fairness ==
  \A p \in Players :
    /\ WF_routeVars(Take(p))
    /\ \A q \in Others(p) :
         WF_routeVars(\E n \in 1 .. MaxData : n = relayed[p][q] /\ ServerPresents(p, q, n))

RouteSpec == RouteInit /\ [][RouteNext]_routeVars
FairSpec == RouteSpec /\ Fairness

-----------------------------------------------------------------------------
RouteTypeOK ==
  /\ phase \in [Players -> {"poll", "greet", "battle", "test", "over"}]
  /\ session \in [Players -> BOOLEAN]
  /\ \A p \in Players : direct[p] \subseteq ponged[p] /\ ponged[p] \subseteq Others(p)
  /\ member \in [Players -> {"none", "peer", "joined", "left"}]
  /\ sent \in [Players -> 0 .. MaxData] /\ up \in [Players -> 0 .. MaxData]
  /\ \A p \in Players : up[p] <= sent[p]

(* Whatever the two paths lose, repeat or bring late, and whenever players *)
(* join and leave: a PS2 is written a run of another's messages, each once *)
(* and none left out from the first it was written.  A game in step with   *)
(* the others cannot be played with a gap.                                 *)
HeardInOrder ==
  \A p \in Players : \A q \in Others(p) : \A i \in 1 .. Len(written[p][q]) :
    written[p][q][i] = written[p][q][1] + i - 1

(* The paths within their bounds, and what is heard on them. *)
HeardRight == RouteTypeOK /\ HeardInOrder

(* Once a PS2 plays its proxy finds the end of the battle, and only that,  *)
(* in whatever reads it gets what the PS2 writes.                          *)
EndIsFound == \A p \in Players : phase[p] \in {"battle", "test"} => FinsFound

(* p and q play, the server relays q to p, and the filter of p is not      *)
(* behind the server's path: what that path has yet to present is what the *)
(* filter waits for, or older.  (While the filter is behind, because q's   *)
(* proxy spoke first and fell silent, what the server presents is dropped  *)
(* and acknowledged, and the two never meet.)                              *)
Relays(p, q) ==
  phase[p] = "battle" /\ phase[q] = "battle" /\ member[p] = "joined" /\ member[q] = "joined"
CaughtUp(p, q) ==
  IF recvSeq[p][q] = 0 THEN p \notin direct[q] ELSE relayed[p][q] <= recvSeq[p][q] + 1

(* The server alone suffices: with nothing asked of the direct path, which *)
(* may never carry anything, stop half way or be acknowledged by nobody,   *)
(* everything q's PS2 writes is heard while both play.                     *)
ServerSuffices ==
  \A p \in Players : \A q \in Others(p) : \A n \in 1 .. MaxData :
    Relays(p, q) /\ CaughtUp(p, q) /\ relayed[p][q] <= n /\ n <= sent[q]
      ~> ~Relays(p, q) \/ n <= recvSeq[p][q]
=============================================================================
