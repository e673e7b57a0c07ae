---------------------------- MODULE BattleServer ----------------------------
(***************************************************************************)
(* The battle server (pkg/battle): the lobby announces battles over RPC,   *)
(* players' connections join the room of their battle, a room relays each  *)
(* member's messages to the others, and members leave.                     *)
(*                                                                         *)
(* Every connection has its own goroutine, and a join takes four locks one *)
(* after another, a departure three: each region under a lock is an action *)
(* here, at[p] says which one goroutine p comes to next, and every order   *)
(* of the goroutines is possible.  A Peer is a TCP connection or a UDP     *)
(* address; it may be used again once the server has forgotten it.         *)
(***************************************************************************)
EXTENDS Naturals, SequencesExt

CONSTANTS
  Peers,       \* TCP connections and UDP addresses
  UDPPeers,    \* those that must say hello first
  Sessions,    \* session ids of logged in players
  Presents,    \* [Peers -> SUBSET Sessions]: the ids a peer may present
  Users,       \* Seq of sets of sessions: the players of each battle, in order
  MaxRoom,     \* battlerpc.MaxRoom (128)
  MaxMessages, \* bound: messages relayed for one peer
  None

ASSUME ServerAssumption ==
  /\ UDPPeers \subseteq Peers /\ None \notin Peers
  /\ Presents \in [Peers -> SUBSET Sessions]
  /\ Users \in Seq(SUBSET Sessions)
  /\ MaxRoom \in Nat \ {0} /\ MaxMessages \in Nat

VARIABLES
  notified,    \* battles announced so far
  nextRoomID,
  sessionMap,  \* sessionMap[s]: the BattleInfo waiting for session s
  rooms,       \* rooms[r]: Room.peers, with None for nil
  peer,        \* peer[p]: its BasePeer, the BattleInfo its Join holds, and
               \* its count of messages
  at,          \* at[p]: where the goroutine of p is
  heard        \* history: heard[q][p], the numbers of p's messages q was sent

vars == <<notified, nextRoomID, sessionMap, rooms, peer, at, heard>>

Battles == 1 .. Len(Users)
RoomIDs == 0 .. MaxRoom - 1
NoInfo == [battle |-> 0, roomID |-> 0]
NewPeer == [session |-> None, info |-> NoInfo, position |-> 0, seq |-> 0]

Init ==
  /\ notified = 0 /\ nextRoomID = 0
  /\ sessionMap = [s \in Sessions |-> NoInfo]
  /\ rooms = [r \in RoomIDs |-> <<>>]
  /\ peer = [p \in Peers |-> NewPeer]
  /\ at = [p \in Peers |-> "away"]
  /\ heard = [q \in Peers |-> [p \in Peers |-> <<>>]]

(* A nil dereference in any goroutine ends the process. *)
Up == \A p \in Peers : at[p] # "panic"

Goto(p, there) == at' = [at EXCEPT ![p] = there]

-----------------------------------------------------------------------------
(* Mutant of NextRoom: wrapping one room too early. *)
NextRoomShort(r) == (r + 1) % (MaxRoom - 1)

NextRoom(r) == (r + 1) % MaxRoom

(* The lobby's RPC call: the next room in turn, used or not. *)
NotifyBattleUsers ==
  /\ Up /\ notified < Len(Users)
  /\ notified' = notified + 1
  /\ nextRoomID' = NextRoom(nextRoomID)
  /\ sessionMap' = [s \in Sessions |->
                      IF s \in Users[notified + 1]
                      THEN [battle |-> notified + 1, roomID |-> nextRoomID]
                      ELSE sessionMap[s]]
  /\ UNCHANGED <<rooms, peer, at, heard>>

(* A TCP connection is accepted as it comes; a UDP address gets a peer     *)
(* once it says hello with the session id of a waiting user.               *)
Arrive(p, s) ==
  /\ Up /\ at[p] = "away" /\ s \in Presents[p]
  /\ p \in UDPPeers => sessionMap[s] # NoInfo
  /\ peer' = [peer EXCEPT ![p] = [NewPeer EXCEPT !.session = s]]
  /\ Goto(p, "serving")
  /\ UNCHANGED <<notified, nextRoomID, sessionMap, rooms, heard>>

-----------------------------------------------------------------------------
(* Logic.Join, one action per lock it takes. *)
FindWaitingUser(p) ==
  /\ Up /\ at[p] = "serving"
  /\ Goto(p, IF sessionMap[peer[p].session] = NoInfo THEN "left" ELSE "found")
  /\ UNCHANGED <<notified, nextRoomID, sessionMap, rooms, peer, heard>>

GetBattleInfo(p) ==
  /\ Up /\ at[p] = "found"
  /\ peer' = [peer EXCEPT ![p].info = sessionMap[peer[p].session]]
  /\ Goto(p, "informed")
  /\ UNCHANGED <<notified, nextRoomID, sessionMap, rooms, heard>>

ClearBattleInfo(p) ==
  /\ Up /\ at[p] = "informed"
  /\ sessionMap' = [sessionMap EXCEPT ![peer[p].session] = NoInfo]
  /\ Goto(p, IF peer[p].info = NoInfo THEN "panic" ELSE "cleared")
  /\ UNCHANGED <<notified, nextRoomID, rooms, peer, heard>>

(* Room.Join; the room object itself is made on first use and kept. *)
JoinRoom(p) ==
  /\ Up /\ at[p] = "cleared"
  /\ LET r == peer[p].info.roomID
     IN  /\ peer' = [peer EXCEPT ![p].position = Len(rooms[r])]
         /\ rooms' = [rooms EXCEPT ![r] = Append(@, p)]
  /\ Goto(p, "joined")
  /\ UNCHANGED <<notified, nextRoomID, sessionMap, heard>>

-----------------------------------------------------------------------------
(* Mutant of Recipients: sending ends at the first empty slot. *)
RecipientsToFirstNil(p) ==
  LET slots == rooms[peer[p].info.roomID]
      full  == {i \in DOMAIN slots : \A j \in 1 .. i : slots[j] # None}
  IN  {slots[i] : i \in full \ {peer[p].position + 1}}

(* Room.SendMessage: every slot but the one at the sender's position. *)
Recipients(p) ==
  LET slots == rooms[peer[p].info.roomID]
  IN  {slots[i] : i \in DOMAIN slots \ {peer[p].position + 1}} \ {None}

SendMessage(p) ==
  /\ Up /\ at[p] = "joined" /\ peer[p].seq < MaxMessages
  /\ peer' = [peer EXCEPT ![p].seq = @ + 1]
  /\ heard' = [q \in Peers |->
                 IF q \in Recipients(p)
                 THEN [heard[q] EXCEPT ![p] = Append(@, peer[p].seq + 1)]
                 ELSE heard[q]]
  /\ UNCHANGED <<notified, nextRoomID, sessionMap, rooms, at>>

(* Mutant of WithoutPeer: the slot is cut out. *)
WithoutSlot(slots, p) ==
  LET pos == peer[p].position
  IN  IF pos < Len(slots) THEN RemoveAt(slots, pos + 1) ELSE slots

(* Room.Leave, first lock: a fin, an error or silence ended the peer. *)
WithoutPeer(slots, p) ==
  LET pos == peer[p].position
  IN  IF pos < Len(slots) THEN [slots EXCEPT ![pos + 1] = None] ELSE slots

Vacant(slots) == \A i \in DOMAIN slots : slots[i] = None

LeaveRoom(p) ==
  /\ Up /\ at[p] = "joined"
  /\ LET r    == peer[p].info.roomID
         left == WithoutPeer(rooms[r], p)
     IN  /\ rooms' = [rooms EXCEPT ![r] = left]
         /\ Goto(p, IF Vacant(left) THEN "clearing" ELSE "left")
  /\ UNCHANGED <<notified, nextRoomID, sessionMap, peer, heard>>

(* Room.Leave, second lock, when it saw the room empty. *)
Clear(p) ==
  /\ Up /\ at[p] = "clearing"
  /\ rooms' = [rooms EXCEPT ![peer[p].info.roomID] = <<>>]
  /\ Goto(p, "left")
  /\ UNCHANGED <<notified, nextRoomID, sessionMap, peer, heard>>

(* A peer that never joined a room goes; the server forgets the peer. *)
GiveUp(p) ==
  /\ Up /\ at[p] = "serving"
  /\ Goto(p, "left")
  /\ UNCHANGED <<notified, nextRoomID, sessionMap, rooms, peer, heard>>

Forget(p) ==
  /\ Up /\ at[p] = "left"
  /\ peer' = [peer EXCEPT ![p] = NewPeer]
  /\ heard' = [q \in Peers |-> [o \in Peers |->
                 IF p \in {q, o} THEN <<>> ELSE heard[q][o]]]
  /\ Goto(p, "away")
  /\ UNCHANGED <<notified, nextRoomID, sessionMap, rooms>>

-----------------------------------------------------------------------------
Next ==
  \/ NotifyBattleUsers
  \/ \E p \in Peers :
       \/ \E s \in Sessions : Arrive(p, s)
       \/ FindWaitingUser(p) \/ GetBattleInfo(p) \/ ClearBattleInfo(p)
       \/ JoinRoom(p) \/ SendMessage(p) \/ LeaveRoom(p) \/ Clear(p)
       \/ GiveUp(p) \/ Forget(p)

Spec == Init /\ [][Next]_vars

-----------------------------------------------------------------------------
Infos == [battle : 0 .. Len(Users), roomID : RoomIDs]

TypeOK ==
  /\ notified \in 0 .. Len(Users)
  /\ nextRoomID \in RoomIDs
  /\ sessionMap \in [Sessions -> Infos]
  /\ rooms \in [RoomIDs -> Seq(Peers \cup {None})]
  /\ peer \in [Peers -> [session : Sessions \cup {None}, info : Infos,
                         position : Nat, seq : 0 .. MaxMessages]]
  /\ at \in [Peers -> {"away", "serving", "found", "informed", "cleared",
                       "joined", "clearing", "left", "panic"}]
  /\ heard \in [Peers -> [Peers -> Seq(1 .. MaxMessages)]]

(* Where the slot of p is, if it has one. *)
Holds(p) ==
  LET slots == rooms[peer[p].info.roomID]
  IN  /\ at[p] = "joined"
      /\ peer[p].position < Len(slots) /\ slots[peer[p].position + 1] = p

(* Whoever is in a slot is a member still, and the slot is the one of its  *)
(* position: nobody who left is sent anything, nobody is sent a message    *)
(* twice, and nobody hears itself.                                         *)
SlotsHoldMembers ==
  \A r \in RoomIDs : \A i \in DOMAIN rooms[r] :
    LET p == rooms[r][i]
    IN  p # None => /\ Holds(p)
                    /\ peer[p].info.roomID = r /\ peer[p].position + 1 = i

(* A room is given back: once everybody has left it has no slots, and its  *)
(* next battle starts at position 0.                                       *)
RoomsAreEmptied ==
  \A r \in RoomIDs :
    rooms[r] # <<>> =>
      \E p \in Peers : peer[p].info.roomID = r /\ at[p] \in {"joined", "clearing"}

(* The slots of a room are its members', and none are left behind. *)
RoomsSound == TypeOK /\ SlotsHoldMembers /\ RoomsAreEmptied

(* What one member hears of another is an unbroken run of its messages, up *)
(* to the last one while both are in the room.  A client's MessageFilter   *)
(* would drop everything after a gap.                                      *)
StreamsUnbroken ==
  \A p, q \in Peers :
    LET run == heard[q][p]
    IN  run # <<>> =>
          /\ \A i \in 1 .. Len(run) - 1 : run[i + 1] = run[i] + 1
          /\ Holds(p) /\ Holds(q) => Last(run) = peer[p].seq

(* Rooms are dealt out in turn and never asked for, so two battles meet in *)
(* one room only when MaxRoom or more battles apart.  Nothing else than    *)
(* the distance of the battles under way keeps them separate.              *)
Underway(b) ==
  \/ \E s \in Sessions : sessionMap[s].battle = b
  \/ \E p \in Peers : peer[p].info.battle = b
BattlesApart ==
  (\A b, c \in Battles : Underway(b) /\ Underway(c) => b < c + MaxRoom)
    => \A p \in Peers : \A q \in Recipients(p) :
         at[p] = "joined" => peer[p].info.battle = peer[q].info.battle

=============================================================================
