------------------------------- MODULE Relay -------------------------------
(***************************************************************************)
(* The GGPO packet relay (pkg/lobby/relay.go), one instance of which runs  *)
(* in the lobby or, fed by SetSessionToken, in a region.                   *)
(*                                                                         *)
(* A session is one battle.  A player binds a UDP address to a peer slot   *)
(* of a session by pinging with the session's token; a slot holds one      *)
(* address per IP family.  Game packets are then forwarded between the     *)
(* slots of a session, to the address of the destination that it last      *)
(* used (active).  Every operation holds Relay.mtx from start to end, so   *)
(* each is one action; the interest is in the long sequences of them.      *)
(*                                                                         *)
(* A relaySession is a pointer in the code and bindings keep such          *)
(* pointers, so here it is an entry of the heap store, which is never      *)
(* reused: sessions and bindings refer to entries.                         *)
(***************************************************************************)
EXTENDS Naturals, FiniteSets

CONSTANTS
  Ids,            \* session ids (a battle's ggpo_session)
  Tokens,         \* session tokens
  IdOf,           \* [Tokens -> Ids]: the id a random token is drawn for
  Addrs,          \* UDP addresses and ports
  Family,         \* [Addrs -> {0, 1}]: IPv4 or IPv6
  MaxPeers,       \* relayMaxPeers (4)
  IdleTimeout,    \* relayIdleTimeout, in ticks
  MaxLifetime,    \* relayMaxLifetime, in ticks
  MaxSessions,    \* bound: sessions ever made
  None

ASSUME RelayAssumption ==
  /\ IdOf \in [Tokens -> Ids]
  /\ Family \in [Addrs -> {0, 1}]
  /\ None \notin Addrs /\ None \notin Tokens
  /\ {MaxPeers, IdleTimeout, MaxLifetime, MaxSessions} \subseteq Nat

VARIABLES
  store,     \* the sessions ever made, 1 .. made
  made,
  sessions,  \* sessions[id]: the store entry registered under id, or 0
  bindings,  \* bindings[a]: the slot address a is bound to, or NoBinding
  issued,    \* the tokens drawn so far
  shown      \* history: the tokens of registered sessions each address pinged with

vars == <<store, made, sessions, bindings, issued, shown>>

Slots == 0 .. MaxPeers - 1
Instances == 1 .. MaxSessions
Families == {0, 1}

Unbound == [addrs |-> [f \in Families |-> None], active |-> None, playing |-> FALSE]
(* Mutant of NewSession: slots are numbered from 1. *)
NewSessionFromOne(id, token) ==
  [id |-> id, token |-> token, peers |-> [p \in 1 .. MaxPeers |-> Unbound],
   idle |-> 0, age |-> 0]

NewSession(id, token) ==
  [id |-> id, token |-> token, peers |-> [p \in Slots |-> Unbound],
   idle |-> 0, age |-> 0]
NoSession == [id |-> None, token |-> None, peers |-> [p \in Slots |-> Unbound],
              idle |-> 0, age |-> 0]
NoBinding == [session |-> 0, peer |-> 0]

Init ==
  /\ store = [s \in Instances |-> NoSession]
  /\ made = 0
  /\ sessions = [id \in Ids |-> 0]
  /\ bindings = [a \in Addrs |-> NoBinding]
  /\ issued = {}
  /\ shown = [a \in Addrs |-> {}]

-----------------------------------------------------------------------------
(* Mutant of Unbind: the slot goes on sending to a. *)
UnbindKeepsActive(peer, a) ==
  [peer EXCEPT !.addrs[Family[a]] = None, !.playing = @ /\ peer.active # a]

(* relayPeer.unbind: the slot no longer has address a. *)
Unbind(peer, a) ==
  [addrs   |-> [peer.addrs EXCEPT ![Family[a]] = None],
   active  |-> IF peer.active = a THEN None ELSE peer.active,
   playing |-> peer.playing /\ peer.active # a]

(* The addresses in the slots of a session. *)
AddrsOf(s) == {store[s].peers[p].addrs[f] : p \in Slots, f \in Families} \ {None}

(* Mutant of BindingsWithout: byAddr is not swept. *)
BindingsUnswept(gone) == bindings

(* bindings, sessions and store as removeSessionLocked leaves them, for    *)
(* each of the sessions in gone.  A removed session is garbage unless a    *)
(* binding still points to it.                                             *)
BindingsWithout(gone) ==
  [a \in Addrs |-> IF \E s \in gone : a \in AddrsOf(s) THEN NoBinding
                   ELSE bindings[a]]
SessionsWithout(gone) ==
  [id \in Ids |-> IF \E s \in gone : store[s].id = id THEN 0 ELSE sessions[id]]
StoreWithout(gone) ==
  [s \in Instances |->
     IF s \in gone /\ \A a \in Addrs : BindingsWithout(gone)[a].session # s
     THEN NoSession ELSE store[s]]
ShownWithout(gone) ==
  [a \in Addrs |-> shown[a] \ {store[s].token : s \in gone}]

-----------------------------------------------------------------------------
(* A player's battle info names the relay: a token is drawn for an id that *)
(* has no session; one that has is answered with its token.                *)
SessionToken(id) ==
  /\ sessions[id] = 0 /\ made < MaxSessions
  /\ \E token \in Tokens \ issued :
       /\ IdOf[token] = id
       /\ store' = [store EXCEPT ![made + 1] = NewSession(id, token)]
       /\ issued' = issued \cup {token}
  /\ made' = made + 1
  /\ sessions' = [sessions EXCEPT ![id] = made + 1]
  /\ UNCHANGED <<bindings, shown>>

(* The lobby's control connection tells a regional relay a token. *)
SetSessionToken(id, token) ==
  /\ IdOf[token] = id
  /\ sessions[id] # 0 => store[sessions[id]].token # token
  /\ made < MaxSessions
  /\ bindings' = BindingsWithout({sessions[id]} \ {0})
  /\ store' = [StoreWithout({sessions[id]} \ {0}) EXCEPT
                 ![made + 1] = NewSession(id, token)]
  /\ shown' = ShownWithout({sessions[id]} \ {0})
  /\ made' = made + 1
  /\ sessions' = [sessions EXCEPT ![id] = made + 1]
  /\ issued' = issued \cup {token}

(* Mutant of Pinged: every ping moves the player. *)
PingedAlwaysMoves(peer, a) ==
  [peer EXCEPT !.addrs[Family[a]] = a, !.active = a]

(* The slot that address a was bound to: a ping moves it until it plays.   *)
Pinged(peer, a) ==
  [peer EXCEPT !.addrs[Family[a]] = a,
               !.active = IF peer.playing THEN @ ELSE a]

(* A ping from address a for a slot of session id. *)
HandlePing(a, id, token, p) ==
  LET s   == sessions[id]
      old == store[s].peers[p].addrs[Family[a]]
      b   == bindings[a]
      moved == old # a
      \* the pinged slot without its old address
      slotFreed == IF moved /\ old # None
                   THEN [store EXCEPT ![s].peers[p] = Unbind(@, old)] ELSE store
      \* and the slot that had the pinging address without it
      bothFreed == IF moved /\ b # NoBinding
                   THEN [slotFreed EXCEPT ![b.session].peers[b.peer] = Unbind(@, a)]
                   ELSE slotFreed
      bound == [bothFreed EXCEPT ![s].peers[p] = Pinged(@, a), ![s].idle = 0]
  IN  /\ s # 0 /\ store[s].token = token
      /\ store' = bound
      /\ bindings' = [c \in Addrs |->
                        IF c = a THEN [session |-> s, peer |-> p]
                        ELSE IF moved /\ c = old THEN NoBinding
                        ELSE bindings[c]]
      /\ shown' = [shown EXCEPT ![a] = @ \cup {token}]
      /\ UNCHANGED <<made, sessions, issued>>

(* Where a game packet from address a for slot to goes; None: nowhere. *)
Forward(a, to) ==
  LET b == bindings[a]
  IN  IF b = NoBinding \/ to = b.peer THEN None
      ELSE store[b.session].peers[to].active

(* A game packet moves the player, who plays from now on. *)
Played(peer, a) == [peer EXCEPT !.active = a, !.playing = TRUE]

(* A game packet from address a for slot to of a's session. *)
HandleGgpo(a, to) ==
  LET b == bindings[a]
  IN  /\ b # NoBinding /\ to # b.peer
      /\ store' = [store EXCEPT
                     ![b.session].peers[b.peer] = Played(@, a),
                     ![b.session].idle = IF Forward(a, to) = None THEN @ ELSE 0]
      /\ UNCHANGED <<made, sessions, bindings, issued, shown>>

Registered == {sessions[id] : id \in Ids} \ {0}

(* Mutant of Stale: no limit to a session's life. *)
StaleWhenIdle(s) == IdleTimeout < store[s].idle

(* RemoveStaleSessions, from the maintenance ticker. *)
Stale(s) == IdleTimeout < store[s].idle \/ MaxLifetime < store[s].age
RemoveStaleSessions ==
  LET gone == {s \in Registered : Stale(s)}
  IN  /\ gone # {}
      /\ bindings' = BindingsWithout(gone)
      /\ sessions' = SessionsWithout(gone)
      /\ store' = StoreWithout(gone)
      /\ shown' = ShownWithout(gone)
      /\ UNCHANGED <<made, issued>>

(* Time passes; the two ages stop counting where they no longer matter. *)
Tick ==
  /\ \E s \in Registered : ~ Stale(s)
  /\ store' = [s \in Instances |->
       IF s \in Registered
       THEN [store[s] EXCEPT
               !.idle = IF @ <= IdleTimeout THEN @ + 1 ELSE @,
               !.age = IF @ <= MaxLifetime THEN @ + 1 ELSE @]
       ELSE store[s]]
  /\ UNCHANGED <<made, sessions, bindings, issued, shown>>

Packets ==
  \/ \E a \in Addrs, id \in Ids, token \in Tokens, p \in Slots :
       HandlePing(a, id, token, p)
  \/ \E a \in Addrs, to \in Slots : HandleGgpo(a, to)

(* The lobby's own relay draws its tokens; a regional one is told them.    *)
LobbyNext ==
  \/ \E id \in Ids : SessionToken(id)
  \/ Packets \/ RemoveStaleSessions \/ Tick
Next ==
  \/ LobbyNext
  \/ \E id \in Ids, token \in Tokens : SetSessionToken(id, token)

Spec == Init /\ [][Next]_vars

(* The clock and the 10 s maintenance ticker go on. *)
FairSpec == Spec /\ WF_vars(Tick) /\ WF_vars(RemoveStaleSessions)

-----------------------------------------------------------------------------
Peers == [addrs : [Families -> Addrs \cup {None}],
          active : Addrs \cup {None}, playing : BOOLEAN]
Sessions == [id : Ids \cup {None}, token : Tokens \cup {None},
             peers : [Slots -> Peers], idle : Nat, age : Nat]

TypeOK ==
  /\ store \in [Instances -> Sessions]
  /\ made \in 0 .. MaxSessions
  /\ sessions \in [Ids -> 0 .. made]
  /\ bindings \in [Addrs -> [session : 0 .. made, peer : Slots \cup {0}]]
  /\ issued \in SUBSET Tokens
  /\ shown \in [Addrs -> SUBSET Tokens]

(* The two directions of the address book agree: an address is bound to    *)
(* exactly the slot of a registered session that holds it.  Both are       *)
(* updated in three places, on a rebinding, on an address changing hands   *)
(* and on a removal; a leftover would keep a departed address relaying.    *)
BindingsMatchSlots ==
  \A a \in Addrs, s \in Instances, p \in Slots :
    (bindings[a] = [session |-> s, peer |-> p])
      <=> (s \in Registered /\ store[s].peers[p].addrs[Family[a]] = a)

(* A slot's packets go to an address the slot still holds, also after that *)
(* address moved to another player; a playing slot has such an address.    *)
ActiveIsHeld ==
  \A s \in Registered : \A p \in Slots :
    LET peer == store[s].peers[p]
    IN  /\ peer.active # None => \E f \in Families : peer.addrs[f] = peer.active
        /\ peer.playing => peer.active # None

(* Only members of one session relay to each other: a game packet passes   *)
(* between two different addresses that have both pinged with the token of *)
(* one registered session, also when its id was registered anew.           *)
OnlyMembersRelay ==
  \A a \in Addrs, to \in Slots :
    LET dst == Forward(a, to)
    IN  dst # None =>
          /\ dst # a
          /\ \E s \in Registered : /\ store[s].token \in shown[a] \cap shown[dst]
                                   /\ {a, dst} \subseteq AddrsOf(s)

(* A ping over the other family does not move a player whose game packets  *)
(* use this one: while it keeps the address it plays from, only its own    *)
(* game packet from another address changes where packets for it go.       *)
PlayingPathKept ==
  [][\A s \in Registered : \A p \in Slots :
       LET peer == store[s].peers[p]
           next == store'[s].peers[p]
       IN  peer.playing /\ (\E f \in Families : next.addrs[f] = peer.active)
             => /\ next.playing
                /\ next.active = peer.active
                     \/ \E to \in Slots : HandleGgpo(next.active, to)]_vars

(* No session outlives its battle for ever, however busily it is pinged.   *)
SessionsEnd ==
  \A s \in Instances : []<>(s \notin Registered)

=============================================================================
