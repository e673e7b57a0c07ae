------------------------- MODULE BattleServerProofs -------------------------
(***************************************************************************)
(* Proofs about the battle server, for any number of peers, sessions,      *)
(* battles and rooms, and about the two paths to a player (BattleRoute).   *)
(*                                                                         *)
(* The slots of a room are its members' by an invariant that is nearly     *)
(* inductive as it stands.  What a member hears of another is not: two     *)
(* peers may meet in a room although one of them has lost its slot there   *)
(* to a clearing that was under way as it joined.  It keeps hearing        *)
(* nothing, or all, and which of the two depends on whether the other got  *)
(* the position that it still holds itself to have.                        *)
(*                                                                         *)
(* The last two parts are about zproxy.  The filter of a player stands at  *)
(* what its PS2 was written last, whichever path it came by.  The scanner  *)
(* for the end of the battle holds the part of a frame that it has read,   *)
(* whichever reads that came in.                                           *)
(***************************************************************************)
EXTENDS BattleServer, BattleRoute, SequenceTheorems, FiniteSetTheorems, WellFoundedInduction, TLAPS

-----------------------------------------------------------------------------
(* The parts of the inductive invariant.                                   *)

(* Who has not joined a room yet has not heard or been heard. *)
Outside == {"away", "serving", "found", "informed", "cleared", "panic"}
Unheard ==
  \A p, q \in Peers : at[p] \in Outside => heard[q][p] = <<>> /\ heard[p][q] = <<>>

(* A stream that began has no gap, and goes on while the sender is joined  *)
(* and the hearer has its slot: that is in the same room, and not at the   *)
(* position where the sender would be.                                     *)
Unbroken(run) == \A i \in 1 .. Len(run) - 1 : run[i + 1] = run[i] + 1
StreamsGoOn ==
  \A p, q \in Peers :
    heard[q][p] # <<>> =>
      /\ Unbroken(heard[q][p])
      /\ at[p] = "joined" /\ Holds(q) =>
           /\ heard[q][p][Len(heard[q][p])] = peer[p].seq
           /\ peer[p].info.roomID = peer[q].info.roomID
           /\ peer[p].position # peer[q].position

(* Which room a battle is in follows from its number. *)
InTurn(info) ==
  \/ info = NoInfo
  \/ info.battle \in 1 .. notified /\ info.roomID = (info.battle - 1) % MaxRoom
RoomsInTurn ==
  /\ nextRoomID = notified % MaxRoom
  /\ \A s \in Sessions : InTurn(sessionMap[s])
  /\ \A p \in Peers : InTurn(peer[p].info)
  /\ \A p \in Peers : at[p] \in {"cleared", "joined"} => peer[p].info # NoInfo

(* A peer that is about to join presents a session. *)
SessionsKnown ==
  \A p \in Peers : at[p] \in {"serving", "found", "informed"} => peer[p].session \in Sessions

IInv ==
  /\ TypeOK
  /\ SessionsKnown
  /\ SlotsHoldMembers
  /\ RoomsAreEmptied
  /\ Unheard
  /\ StreamsGoOn
  /\ RoomsInTurn

-----------------------------------------------------------------------------
(* Numbers, sequences and records.                                         *)

(* The constants, one by one. *)
LEMMA Constants ==
  /\ MaxRoom \in Nat \ {0} /\ MaxMessages \in Nat /\ Len(Users) \in Nat
  /\ None \notin Peers /\ Users \in Seq(SUBSET Sessions)
  BY ServerAssumption

(* Quotient and remainder. *)
LEMMA ModDef ==
  ASSUME NEW n \in Nat, NEW r \in Nat \ {0}
  PROVE  /\ n % r \in 0 .. r - 1
         /\ n = (r * (n \div r)) + (n % r)
         /\ n \div r \in Nat
  OBVIOUS

(* Numbers with one remainder are at least r apart. *)
LEMMA ModApart ==
  ASSUME NEW r \in Nat \ {0}, NEW b \in Nat, NEW e \in Nat, b < e, e - b < r
  PROVE  b % r # e % r
<1> SUFFICES ASSUME b % r = e % r PROVE FALSE
  OBVIOUS
<1> DEFINE p == b \div r
           q == e \div r
           x == b % r
<1>1. x \in 0 .. r - 1 /\ b = r * p + x /\ p \in Nat
  BY ModDef
<1>2. e = r * q + x /\ q \in Nat
  BY ModDef
<1> HIDE DEF p, q, x
<1>3. r * (q - p) = e - b
  BY <1>1, <1>2
<1>4. q - p \in Int /\ (q - p <= 0 \/ q - p >= 1)
  BY <1>1, <1>2
<1>5. q - p >= 1 => r * (q - p) >= r
  BY <1>4
<1>6. q - p <= 0 => r * (q - p) <= 0
  BY <1>4
<1> QED
  BY <1>3, <1>4, <1>5, <1>6

(* The next number has the next remainder. *)
LEMMA ModNext ==
  ASSUME NEW r \in Nat \ {0}, NEW n \in Nat
  PROVE  ((n % r) + 1) % r = (n + 1) % r
<1> DEFINE q == n \div r
           x == n % r
<1>1. x \in 0 .. r - 1 /\ n = r * q + x /\ q \in Nat
  BY ModDef
<1> HIDE DEF q, x
<1>2. CASE x + 1 = r
  <2>1. n + 1 = r * (q + 1) + 0
    BY <1>1, <1>2
  <2>2. (n + 1) % r = 0
    BY <2>1, <1>1
  <2>3. r % r = 0
    OBVIOUS
  <2> QED BY <2>2, <2>3, <1>2 DEF x
<1>3. CASE x + 1 # r
  <2>1. x + 1 \in 0 .. r - 1 /\ n + 1 = r * q + (x + 1)
    BY <1>1, <1>3
  <2>2. (x + 1) % r = x + 1
    BY <2>1
  <2>3. (n + 1) % r = x + 1
    BY <2>1, <1>1
  <2> QED BY <2>2, <2>3 DEF x
<1> QED BY <1>2, <1>3

States == {"away", "serving", "found", "informed", "cleared",
           "joined", "clearing", "left", "panic"}
PeerRecs == [session : Sessions \cup {None}, info : Infos,
             position : Nat, seq : 0 .. MaxMessages]
Slots == Seq(Peers \cup {None})

(* TypeOK, with names for its sets. *)
LEMMA Typed ==
  TypeOK <=>
    /\ notified \in 0 .. Len(Users) /\ nextRoomID \in RoomIDs
    /\ sessionMap \in [Sessions -> Infos]
    /\ rooms \in [RoomIDs -> Slots]
    /\ peer \in [Peers -> PeerRecs]
    /\ at \in [Peers -> States]
    /\ heard \in [Peers -> [Peers -> Seq(1 .. MaxMessages)]]
  BY DEF TypeOK, States, PeerRecs, Slots

TypedNext ==
  /\ notified' \in 0 .. Len(Users) /\ nextRoomID' \in RoomIDs
  /\ sessionMap' \in [Sessions -> Infos]
  /\ rooms' \in [RoomIDs -> Slots]
  /\ peer' \in [Peers -> PeerRecs]
  /\ at' \in [Peers -> States]
  /\ heard' \in [Peers -> [Peers -> Seq(1 .. MaxMessages)]]

(* No info. *)
LEMMA NoInfoFields ==
  /\ NoInfo \in Infos /\ NoInfo.battle = 0
  /\ NewPeer \in PeerRecs /\ NewPeer.info = NoInfo
<1>1. 0 \in 0 .. Len(Users) /\ 0 \in RoomIDs /\ 0 \in 0 .. MaxMessages
  BY Constants DEF RoomIDs
<1>2. NoInfo \in Infos /\ NoInfo.battle = 0
  BY <1>1 DEF NoInfo, Infos
<1>3. None \in Sessions \cup {None} /\ 0 \in Nat
  OBVIOUS
<1> QED
  BY <1>1, <1>2, <1>3 DEF NewPeer, PeerRecs

(* A peer's record has its fields in their types. *)
LEMMA PeerFields ==
  ASSUME NEW x \in PeerRecs
  PROVE  /\ x.info \in Infos /\ x.info.roomID \in RoomIDs /\ x.position \in Nat
         /\ x.seq \in 0 .. MaxMessages /\ x.seq \in Nat
  BY Constants DEF PeerRecs, Infos

(* What Arrive, GetBattleInfo, JoinRoom and SendMessage make of a peer. *)
Arrived(s) == [NewPeer EXCEPT !.session = s]
Informed(x, info) == [x EXCEPT !.info = info]
Placed(x, n) == [x EXCEPT !.position = n]
Counted(x) == [x EXCEPT !.seq = x.seq + 1]

(* Their fields. *)
LEMMA ChangedFields ==
  ASSUME NEW x \in PeerRecs
  PROVE  /\ \A s \in Sessions : Arrived(s) \in PeerRecs /\ Arrived(s).info = NoInfo /\ Arrived(s).session = s
         /\ \A info \in Infos : LET y == Informed(x, info)
                              IN  y \in PeerRecs /\ y.info = info /\ y.session = x.session
         /\ \A n \in Nat : LET y == Placed(x, n)
                           IN  y \in PeerRecs /\ y.info = x.info /\ y.position = n
         /\ x.seq < MaxMessages => LET y == Counted(x)
                                   IN  /\ y \in PeerRecs /\ y.info = x.info
                                       /\ y.position = x.position /\ y.seq = x.seq + 1
<1>1. \A s \in Sessions : Arrived(s) \in PeerRecs /\ Arrived(s).info = NoInfo /\ Arrived(s).session = s
  BY NoInfoFields DEF Arrived, PeerRecs
<1>2. \A info \in Infos : LET y == Informed(x, info)
                              IN  y \in PeerRecs /\ y.info = info /\ y.session = x.session
  BY DEF Informed, PeerRecs
<1>3. \A n \in Nat : LET y == Placed(x, n)
                     IN  y \in PeerRecs /\ y.info = x.info /\ y.position = n
  BY DEF Placed, PeerRecs
<1>4. ASSUME x.seq < MaxMessages
      PROVE  LET y == Counted(x)
             IN  /\ y \in PeerRecs /\ y.info = x.info
                 /\ y.position = x.position /\ y.seq = x.seq + 1
  <2>1. x.seq + 1 \in 0 .. MaxMessages
    BY <1>4, PeerFields, Constants
  <2> QED BY <2>1 DEF Counted, PeerRecs
<1> QED
  BY <1>1, <1>2, <1>3, <1>4

(* The slots without those of a peer at position pos. *)
LEMMA WithoutFields ==
  ASSUME TypeOK, NEW slots \in Slots, NEW p \in Peers
  PROVE  LET t == WithoutPeer(slots, p)
         IN  /\ t \in Slots /\ Len(t) = Len(slots)
             /\ \A i \in 1 .. Len(slots) :
                  t[i] = IF i = peer[p].position + 1 THEN None ELSE slots[i]
<1> DEFINE pos == peer[p].position
           n == Len(slots)
<1>1. pos \in Nat /\ n \in Nat
  BY Typed, PeerFields DEF Slots
<1>2. CASE pos < n
  <2> DEFINE t == [slots EXCEPT ![pos + 1] = None]
  <2>1. slots \in [1 .. n -> Peers \cup {None}]
    BY DEF Slots
  <2>2. t \in [1 .. n -> Peers \cup {None}]
    BY <2>1
  <2>3. t \in Slots /\ Len(t) = n
    BY <2>2, <1>1 DEF Slots
  <2>4. \A i \in 1 .. n : t[i] = IF i = pos + 1 THEN None ELSE slots[i]
    BY <2>1
  <2>5. WithoutPeer(slots, p) = t
    BY <1>2 DEF WithoutPeer
  <2> QED BY <2>3, <2>4, <2>5
<1>3. CASE ~ (pos < n)
  <2>1. WithoutPeer(slots, p) = slots
    BY <1>3 DEF WithoutPeer
  <2>2. \A i \in 1 .. n : i # pos + 1
    BY <1>1, <1>3
  <2> QED BY <2>1, <2>2
<1> QED BY <1>2, <1>3

-----------------------------------------------------------------------------
(* What the steps do.                                                      *)

Moved(p, there) ==
  at' \in [Peers -> States] /\ at'[p] = there /\ \A q \in Peers : q # p => at'[q] = at[q]
Rewritten(p, x) ==
  /\ peer' \in [Peers -> PeerRecs] /\ peer'[p] = x
  /\ \A q \in Peers : q # p => peer'[q] = peer[q]

(* Goto moves one peer's goroutine and no other. *)
LEMMA GotoMoves ==
  ASSUME TypeOK, NEW p \in Peers, NEW there \in States, Goto(p, there)
  PROVE  Moved(p, there)
<1>1. at \in [Peers -> States]
  BY Typed
<1> QED BY <1>1 DEF Goto, Moved

(* An assignment to one peer keeps the others. *)
LEMMA Rewrites ==
  ASSUME TypeOK, NEW p \in Peers, NEW x \in PeerRecs, peer' = [peer EXCEPT ![p] = x]
  PROVE  Rewritten(p, x)
<1>1. peer \in [Peers -> PeerRecs]
  BY Typed
<1> QED BY <1>1 DEF Rewritten

(* A peer that has not joined a room yet goes on, or gives up. *)
Before == {"away", "serving", "found", "informed"}
QuietStep(p) ==
  /\ UNCHANGED <<rooms, heard>>
  /\ at[p] \in Before
  /\ \E there \in {"serving", "found", "informed", "cleared", "left", "panic"} : Moved(p, there)
  /\ peer' = peer \/ \E x \in PeerRecs : Rewritten(p, x)

(* Who arrives is a new peer that presents s. *)
LEMMA ArriveEffect ==
  ASSUME TypeOK, NEW p \in Peers, NEW s \in Sessions, Arrive(p, s)
  PROVE  /\ at[p] = "away" /\ Moved(p, "serving") /\ Rewritten(p, Arrived(s))
         /\ UNCHANGED <<notified, nextRoomID, sessionMap, rooms, heard>>
<1>1. peer' = [peer EXCEPT ![p] = Arrived(s)] /\ Goto(p, "serving")
  BY DEF Arrive, Arrived
<1>2. Arrived(s) \in PeerRecs
  BY NoInfoFields, ChangedFields
<1>3. "serving" \in States
  BY DEF States
<1> QED BY <1>1, <1>2, <1>3, Rewrites, GotoMoves DEF Arrive

(* What is read is the info that waits for the session now, if any. *)
LEMMA GetBattleInfoEffect ==
  ASSUME TypeOK, SessionsKnown, NEW p \in Peers, GetBattleInfo(p)
  PROVE  /\ at[p] = "found" /\ Moved(p, "informed")
         /\ \E s \in Sessions : Rewritten(p, Informed(peer[p], sessionMap[s]))
         /\ UNCHANGED <<notified, nextRoomID, sessionMap, rooms, heard>>
<1> DEFINE s == peer[p].session
<1>1. s \in Sessions
  BY DEF GetBattleInfo, SessionsKnown
<1>2. peer[p] \in PeerRecs /\ sessionMap[s] \in Infos
  BY <1>1, Typed
<1>3. peer' = [peer EXCEPT ![p] = Informed(peer[p], sessionMap[s])]
  BY DEF GetBattleInfo, Informed
<1> HIDE DEF s
<1>4. Informed(peer[p], sessionMap[s]) \in PeerRecs
  BY <1>2, ChangedFields
<1>5. Rewritten(p, Informed(peer[p], sessionMap[s]))
  BY <1>3, <1>4, Rewrites
<1>6. "informed" \in States
  BY DEF States
<1> QED BY <1>1, <1>5, <1>6, GotoMoves DEF GetBattleInfo

(* No info is made by clearing one; who holds none does not come through. *)
LEMMA ClearBattleInfoEffect ==
  ASSUME TypeOK, SessionsKnown, NEW p \in Peers, ClearBattleInfo(p)
  PROVE  /\ at[p] = "informed"
         /\ Moved(p, IF peer[p].info = NoInfo THEN "panic" ELSE "cleared")
         /\ sessionMap' \in [Sessions -> Infos]
         /\ \A s \in Sessions : sessionMap'[s] = NoInfo \/ sessionMap'[s] = sessionMap[s]
         /\ UNCHANGED <<notified, nextRoomID, rooms, peer, heard>>
<1>1. (IF peer[p].info = NoInfo THEN "panic" ELSE "cleared") \in States
  BY DEF States
<1>2. sessionMap \in [Sessions -> Infos]
  BY Typed
<1> QED BY <1>1, <1>2, GotoMoves, NoInfoFields DEF ClearBattleInfo

(* Who joins a room gets the slot after its last. *)
LEMMA JoinRoomEffect ==
  ASSUME TypeOK, NEW p \in Peers, JoinRoom(p)
  PROVE  LET r == peer[p].info.roomID
             n == Len(rooms[r])
         IN  /\ r \in RoomIDs /\ n \in Nat /\ at[p] = "cleared" /\ Moved(p, "joined")
             /\ Rewritten(p, Placed(peer[p], n))
             /\ rooms' \in [RoomIDs -> Slots] /\ Len(rooms'[r]) = n + 1
             /\ rooms'[r][n + 1] = p /\ \A i \in 1 .. n : rooms'[r][i] = rooms[r][i]
             /\ \A k \in RoomIDs : k # r => rooms'[k] = rooms[k]
             /\ UNCHANGED <<notified, nextRoomID, sessionMap, heard>>
<1> DEFINE r == peer[p].info.roomID
           n == Len(rooms[r])
           slots == Append(rooms[r], p)
<1>1. peer[p] \in PeerRecs /\ rooms \in [RoomIDs -> Slots] /\ r \in RoomIDs
  BY Typed, PeerFields
<1>2. rooms[r] \in Seq(Peers \cup {None}) /\ p \in Peers \cup {None}
  BY <1>1 DEF Slots
<1>3. /\ n \in Nat /\ slots \in Slots /\ Len(slots) = n + 1 /\ slots[n + 1] = p
      /\ \A i \in 1 .. n : slots[i] = rooms[r][i]
  <2> DEFINE old == rooms[r]
  <2>1. old \in Seq(Peers \cup {None}) /\ p \in Peers \cup {None}
    BY <1>2
  <2> HIDE DEF old
  <2>2. /\ Append(old, p) \in Seq(Peers \cup {None}) /\ Len(Append(old, p)) = Len(old) + 1
        /\ Append(old, p)[Len(old) + 1] = p
        /\ \A i \in 1 .. Len(old) : Append(old, p)[i] = old[i]
    BY <2>1, AppendProperties
  <2>3. Len(old) \in Nat
    BY <2>1
  <2> QED BY <2>2, <2>3 DEF old, Slots
<1>4. rooms' = [rooms EXCEPT ![r] = slots]
  BY DEF JoinRoom
<1>5. peer' = [peer EXCEPT ![p] = Placed(peer[p], n)]
  BY DEF JoinRoom, Placed
<1> HIDE DEF r, n, slots
<1>6. Placed(peer[p], n) \in PeerRecs
  BY <1>1, <1>3, ChangedFields
<1>7. Rewritten(p, Placed(peer[p], n))
  BY <1>5, <1>6, Rewrites
<1>8. "joined" \in States
  BY DEF States
<1>9. /\ rooms' \in [RoomIDs -> Slots] /\ rooms'[r] = slots
      /\ \A k \in RoomIDs : k # r => rooms'[k] = rooms[k]
  BY <1>1, <1>3, <1>4
<1>10. at[p] = "cleared" /\ Moved(p, "joined") /\ UNCHANGED <<notified, nextRoomID, sessionMap, heard>>
  BY <1>8, GotoMoves DEF JoinRoom
<1> QED BY <1>1, <1>3, <1>7, <1>9, <1>10 DEF r, n

(* Who sends is heard by the others in the room's slots. *)
LEMMA SendMessageEffect ==
  ASSUME TypeOK, NEW p \in Peers, SendMessage(p)
  PROVE  /\ at[p] = "joined" /\ peer[p].seq < MaxMessages /\ Rewritten(p, Counted(peer[p]))
         /\ heard' \in [Peers -> [Peers -> Seq(1 .. MaxMessages)]]
         /\ \A q, o \in Peers :
              heard'[q][o] = IF q \in Recipients(p) /\ o = p
                             THEN Append(heard[q][p], peer[p].seq + 1) ELSE heard[q][o]
         /\ UNCHANGED <<notified, nextRoomID, sessionMap, rooms, at>>
<1>1. /\ peer[p] \in PeerRecs /\ heard \in [Peers -> [Peers -> Seq(1 .. MaxMessages)]]
      /\ peer[p].seq < MaxMessages
  BY Typed DEF SendMessage
<1>2. peer[p].seq + 1 \in 1 .. MaxMessages
  BY <1>1, PeerFields, Constants
<1>3. peer' = [peer EXCEPT ![p] = Counted(peer[p])]
  BY DEF SendMessage, Counted
<1>4. Counted(peer[p]) \in PeerRecs
  BY <1>1, ChangedFields
<1>5. Rewritten(p, Counted(peer[p]))
  BY <1>3, <1>4, Rewrites
<1> DEFINE m == peer[p].seq + 1
           H(q) == IF q \in Recipients(p)
                   THEN [heard[q] EXCEPT ![p] = Append(heard[q][p], m)] ELSE heard[q]
<1>6. heard' = [q \in Peers |-> H(q)]
  BY DEF SendMessage
<1> HIDE DEF m
<1>7. ASSUME NEW q \in Peers
      PROVE  /\ H(q) \in [Peers -> Seq(1 .. MaxMessages)]
             /\ \A o \in Peers : H(q)[o] = IF q \in Recipients(p) /\ o = p
                                           THEN Append(heard[q][p], m) ELSE heard[q][o]
  <2>1. heard[q] \in [Peers -> Seq(1 .. MaxMessages)]
    BY <1>1
  <2>2. Append(heard[q][p], m) \in Seq(1 .. MaxMessages)
    BY <2>1, <1>2, AppendProperties DEF m
  <2> QED BY <2>1, <2>2
<1> HIDE DEF H
<1>8. /\ heard' \in [Peers -> [Peers -> Seq(1 .. MaxMessages)]]
      /\ \A q, o \in Peers :
              heard'[q][o] = IF q \in Recipients(p) /\ o = p
                             THEN Append(heard[q][p], m) ELSE heard[q][o]
  BY <1>6, <1>7
<1> QED BY <1>1, <1>5, <1>8 DEF m, SendMessage

(* Who leaves a room empties its slot, and then sees whether all are. *)
LEMMA LeaveRoomEffect ==
  ASSUME TypeOK, NEW p \in Peers, LeaveRoom(p)
  PROVE  LET r == peer[p].info.roomID
         IN  /\ r \in RoomIDs /\ at[p] = "joined"
             /\ rooms' \in [RoomIDs -> Slots] /\ rooms'[r] = WithoutPeer(rooms[r], p)
             /\ \A k \in RoomIDs : k # r => rooms'[k] = rooms[k]
             /\ Moved(p, IF Vacant(rooms'[r]) THEN "clearing" ELSE "left")
             /\ UNCHANGED <<notified, nextRoomID, sessionMap, peer, heard>>
<1> DEFINE r == peer[p].info.roomID
<1>1. peer[p] \in PeerRecs /\ rooms \in [RoomIDs -> Slots] /\ r \in RoomIDs
  BY Typed, PeerFields
<1>2. WithoutPeer(rooms[r], p) \in Slots
  BY <1>1, WithoutFields
<1>3. rooms' = [rooms EXCEPT ![r] = WithoutPeer(rooms[r], p)]
  BY DEF LeaveRoom
<1>4. Goto(p, IF Vacant(WithoutPeer(rooms[r], p)) THEN "clearing" ELSE "left")
  BY DEF LeaveRoom
<1> HIDE DEF r
<1>5. /\ rooms' \in [RoomIDs -> Slots] /\ rooms'[r] = WithoutPeer(rooms[r], p)
      /\ \A k \in RoomIDs : k # r => rooms'[k] = rooms[k]
  BY <1>1, <1>2, <1>3
<1>6. (IF Vacant(rooms'[r]) THEN "clearing" ELSE "left") \in States
  BY DEF States
<1>7. Moved(p, IF Vacant(rooms'[r]) THEN "clearing" ELSE "left")
  BY <1>4, <1>5, <1>6, GotoMoves
<1>8. at[p] = "joined" /\ UNCHANGED <<notified, nextRoomID, sessionMap, peer, heard>>
  BY DEF LeaveRoom
<1> QED BY <1>1, <1>5, <1>7, <1>8 DEF r

(* Who saw the room empty clears it, whatever is in it by now. *)
LEMMA ClearEffect ==
  ASSUME TypeOK, NEW p \in Peers, Clear(p)
  PROVE  LET r == peer[p].info.roomID
         IN  /\ r \in RoomIDs /\ at[p] = "clearing" /\ Moved(p, "left")
             /\ rooms' \in [RoomIDs -> Slots] /\ rooms'[r] = <<>>
             /\ \A k \in RoomIDs : k # r => rooms'[k] = rooms[k]
             /\ UNCHANGED <<notified, nextRoomID, sessionMap, peer, heard>>
<1> DEFINE r == peer[p].info.roomID
<1>1. peer[p] \in PeerRecs /\ rooms \in [RoomIDs -> Slots] /\ r \in RoomIDs
  BY Typed, PeerFields
<1>2. <<>> \in Slots /\ "left" \in States
  BY DEF Slots, States
<1>3. rooms' = [rooms EXCEPT ![r] = <<>>]
  BY DEF Clear
<1> HIDE DEF r
<1>4. /\ rooms' \in [RoomIDs -> Slots] /\ rooms'[r] = <<>>
      /\ \A k \in RoomIDs : k # r => rooms'[k] = rooms[k]
  BY <1>1, <1>2, <1>3
<1> QED BY <1>1, <1>2, <1>4, GotoMoves DEF Clear, r

(* Who left is forgotten, with all it heard and said. *)
LEMMA ForgetEffect ==
  ASSUME TypeOK, NEW p \in Peers, Forget(p)
  PROVE  /\ at[p] = "left" /\ Moved(p, "away") /\ Rewritten(p, NewPeer)
         /\ heard' \in [Peers -> [Peers -> Seq(1 .. MaxMessages)]]
         /\ \A q, o \in Peers : heard'[q][o] = IF p = q \/ p = o THEN <<>> ELSE heard[q][o]
         /\ UNCHANGED <<notified, nextRoomID, sessionMap, rooms>>
<1>1. peer' = [peer EXCEPT ![p] = NewPeer] /\ Goto(p, "away") /\ "away" \in States
  BY DEF Forget, States
<1>2. Rewritten(p, NewPeer) /\ Moved(p, "away")
  BY <1>1, NoInfoFields, Rewrites, GotoMoves
<1>3. heard \in [Peers -> [Peers -> Seq(1 .. MaxMessages)]] /\ <<>> \in Seq(1 .. MaxMessages)
  BY Typed
<1>4. heard' = [q \in Peers |-> [o \in Peers |->
                 IF p \in {q, o} THEN <<>> ELSE heard[q][o]]]
  BY DEF Forget
<1>5. /\ heard' \in [Peers -> [Peers -> Seq(1 .. MaxMessages)]]
      /\ \A q, o \in Peers : heard'[q][o] = IF p = q \/ p = o THEN <<>> ELSE heard[q][o]
  BY <1>3, <1>4
<1> QED BY <1>2, <1>5 DEF Forget

(* Every step is of one of these kinds. *)
LEMMA Kinds ==
  ASSUME TypeOK, SessionsKnown, [Next]_vars
  PROVE  \/ UNCHANGED <<rooms, peer, at, heard>>
         \/ \E p \in Peers : \/ QuietStep(p) \/ JoinRoom(p) \/ SendMessage(p)
                             \/ LeaveRoom(p) \/ Clear(p) \/ Forget(p)
<1>1. ASSUME NotifyBattleUsers \/ UNCHANGED vars
      PROVE  UNCHANGED <<rooms, peer, at, heard>>
  BY <1>1 DEF NotifyBattleUsers, vars
<1>2. ASSUME NEW p \in Peers, NEW s \in Sessions, Arrive(p, s)
      PROVE  QuietStep(p)
  BY <1>2, ArriveEffect DEF QuietStep, Before, Rewritten
<1>3. ASSUME NEW p \in Peers, FindWaitingUser(p) \/ GiveUp(p)
      PROVE  QuietStep(p)
  <2>1. PICK there \in {"found", "left"} : Goto(p, there)
    BY <1>3 DEF FindWaitingUser, GiveUp
  <2>2. Moved(p, there)
    BY <2>1, GotoMoves DEF States
  <2> QED BY <2>2, <1>3 DEF FindWaitingUser, GiveUp, QuietStep, Before
<1>4. ASSUME NEW p \in Peers, GetBattleInfo(p)
      PROVE  QuietStep(p)
  BY <1>4, GetBattleInfoEffect DEF QuietStep, Before, Rewritten
<1>5. ASSUME NEW p \in Peers, ClearBattleInfo(p)
      PROVE  QuietStep(p)
  <2>1. \/ Moved(p, "panic") \/ Moved(p, "cleared")
    BY <1>5, ClearBattleInfoEffect
  <2> QED BY <2>1, <1>5, ClearBattleInfoEffect DEF QuietStep, Before
<1> QED
  BY <1>1, <1>2, <1>3, <1>4, <1>5 DEF Next

-----------------------------------------------------------------------------
(* The parts of the invariant are kept, one at a time.                     *)

(* Every step keeps the types. *)
LEMMA TypeStep ==
  ASSUME IInv, [Next]_vars
  PROVE  TypeOK'
<1> SUFFICES TypedNext
  BY DEF TypedNext, TypeOK, States, PeerRecs, Slots
<1>0. /\ TypeOK /\ SessionsKnown
      /\ notified \in 0 .. Len(Users) /\ nextRoomID \in RoomIDs
      /\ sessionMap \in [Sessions -> Infos]
      /\ rooms \in [RoomIDs -> Slots]
      /\ peer \in [Peers -> PeerRecs]
      /\ at \in [Peers -> States]
      /\ heard \in [Peers -> [Peers -> Seq(1 .. MaxMessages)]]
  BY Typed DEF IInv
<1>1. ASSUME NotifyBattleUsers
      PROVE  TypedNext
  <2> DEFINE info == [battle |-> notified + 1, roomID |-> nextRoomID]
  <2>1. notified' \in 0 .. Len(Users) /\ notified + 1 \in 0 .. Len(Users)
    BY <1>0, <1>1, Constants DEF NotifyBattleUsers
  <2>2. nextRoomID' \in RoomIDs
    <3>1. nextRoomID + 1 \in Nat
      BY <1>0, Constants DEF RoomIDs
    <3>2. (nextRoomID + 1) % MaxRoom \in 0 .. MaxRoom - 1
      BY <3>1, Constants, ModDef
    <3> QED BY <3>2, <1>1 DEF NotifyBattleUsers, NextRoom, RoomIDs
  <2>3. info \in Infos
    BY <1>0, <2>1 DEF Infos
  <2>4. sessionMap' = [s \in Sessions |-> IF s \in Users[notified + 1] THEN info
                                          ELSE sessionMap[s]]
    BY <1>1 DEF NotifyBattleUsers
  <2> HIDE DEF info
  <2>5. sessionMap' \in [Sessions -> Infos]
    BY <1>0, <2>3, <2>4
  <2> QED BY <2>1, <2>2, <2>5, <1>0, <1>1 DEF NotifyBattleUsers, TypedNext
<1>2. ASSUME NEW p \in Peers, \E s \in Sessions : Arrive(p, s)
      PROVE  TypedNext
  BY <1>0, <1>2, ArriveEffect DEF Moved, Rewritten, TypedNext
<1>3. ASSUME NEW p \in Peers, FindWaitingUser(p) \/ GiveUp(p)
      PROVE  TypedNext
  <2>1. PICK there \in {"found", "left"} : Goto(p, there)
    BY <1>3 DEF FindWaitingUser, GiveUp
  <2>2. Moved(p, there)
    BY <2>1, <1>0, GotoMoves DEF States
  <2> QED BY <2>2, <1>0, <1>3 DEF FindWaitingUser, GiveUp, Moved, TypedNext
<1>4. ASSUME NEW p \in Peers, GetBattleInfo(p)
      PROVE  TypedNext
  BY <1>0, <1>4, GetBattleInfoEffect DEF Moved, Rewritten, TypedNext
<1>5. ASSUME NEW p \in Peers, ClearBattleInfo(p)
      PROVE  TypedNext
  BY <1>0, <1>5, ClearBattleInfoEffect DEF Moved, TypedNext
<1>6. ASSUME NEW p \in Peers, JoinRoom(p)
      PROVE  TypedNext
  BY <1>0, <1>6, JoinRoomEffect DEF Moved, Rewritten, TypedNext
<1>7. ASSUME NEW p \in Peers, SendMessage(p)
      PROVE  TypedNext
  BY <1>0, <1>7, SendMessageEffect DEF Rewritten, TypedNext
<1>8. ASSUME NEW p \in Peers, LeaveRoom(p)
      PROVE  TypedNext
  BY <1>0, <1>8, LeaveRoomEffect DEF Moved, TypedNext
<1>9. ASSUME NEW p \in Peers, Clear(p)
      PROVE  TypedNext
  BY <1>0, <1>9, ClearEffect DEF Moved, TypedNext
<1>10. ASSUME NEW p \in Peers, Forget(p)
       PROVE  TypedNext
  BY <1>0, <1>10, ForgetEffect DEF Moved, Rewritten, TypedNext
<1>11. ASSUME UNCHANGED vars
       PROVE  TypedNext
  BY <1>0, <1>11 DEF vars, TypedNext
<1> QED
  BY <1>1, <1>2, <1>3, <1>4, <1>5, <1>6, <1>7, <1>8, <1>9, <1>10, <1>11 DEF Next

(* A goroutine changes nothing of the other peers. *)
LEMMA OthersStay ==
  ASSUME TypeOK, SessionsKnown, NEW p \in Peers, NEW q \in Peers, q # p,
         \/ \E s \in Sessions : Arrive(p, s)
         \/ FindWaitingUser(p) \/ GetBattleInfo(p) \/ ClearBattleInfo(p)
         \/ JoinRoom(p) \/ SendMessage(p) \/ LeaveRoom(p) \/ Clear(p)
         \/ GiveUp(p) \/ Forget(p)
  PROVE  peer'[q] = peer[q] /\ at'[q] = at[q]
<1> DEFINE Same == peer'[q] = peer[q] /\ at'[q] = at[q]
<1>1. ASSUME NEW s \in Sessions, Arrive(p, s) PROVE Same
  BY <1>1, ArriveEffect DEF Moved, Rewritten
<1>2. ASSUME FindWaitingUser(p) \/ GiveUp(p) PROVE Same
  <2>1. PICK there \in {"found", "left"} : Goto(p, there)
    BY <1>2 DEF FindWaitingUser, GiveUp
  <2>2. Moved(p, there)
    BY <2>1, GotoMoves DEF States
  <2> QED BY <2>2, <1>2 DEF FindWaitingUser, GiveUp, Moved
<1>3. ASSUME GetBattleInfo(p) PROVE Same
  BY <1>3, GetBattleInfoEffect DEF Moved, Rewritten
<1>4. ASSUME ClearBattleInfo(p) PROVE Same
  BY <1>4, ClearBattleInfoEffect DEF Moved
<1>5. ASSUME JoinRoom(p) PROVE Same
  BY <1>5, JoinRoomEffect DEF Moved, Rewritten
<1>6. ASSUME SendMessage(p) PROVE Same
  BY <1>6, SendMessageEffect DEF Rewritten
<1>7. ASSUME LeaveRoom(p) PROVE Same
  BY <1>7, LeaveRoomEffect DEF Moved
<1>8. ASSUME Clear(p) PROVE Same
  BY <1>8, ClearEffect DEF Moved
<1>9. ASSUME Forget(p) PROVE Same
  BY <1>9, ForgetEffect DEF Moved, Rewritten
<1> QED
  BY <1>1, <1>2, <1>3, <1>4, <1>5, <1>6, <1>7, <1>8, <1>9

(* A session is presented on arrival and kept until the room is joined. *)
LEMMA SessionsKnownStep ==
  ASSUME IInv, [Next]_vars
  PROVE  SessionsKnown'
<1>0. TypeOK /\ SessionsKnown /\ \A p \in Peers : peer[p] \in PeerRecs
  BY Typed DEF IInv
<1> SUFFICES ASSUME NEW q \in Peers, at'[q] \in {"serving", "found", "informed"}
             PROVE  peer'[q].session \in Sessions
  BY DEF SessionsKnown
<1>1. ASSUME peer'[q] = peer[q], at[q] \in {"serving", "found", "informed"}
      PROVE  peer'[q].session \in Sessions
  BY <1>0, <1>1 DEF SessionsKnown
<1>2. ASSUME NEW s \in Sessions, Arrive(q, s)
      PROVE  peer'[q].session \in Sessions
  BY <1>0, <1>2, ArriveEffect, ChangedFields DEF Rewritten
<1>3. ASSUME GetBattleInfo(q)
      PROVE  peer'[q].session \in Sessions
  <2>1. PICK s \in Sessions : peer'[q] = Informed(peer[q], sessionMap[s])
    BY <1>0, <1>3, GetBattleInfoEffect DEF Rewritten
  <2>2. sessionMap[s] \in Infos
    BY <1>0, Typed
  <2>3. peer'[q].session = peer[q].session
    BY <2>1, <2>2, <1>0, ChangedFields
  <2> QED BY <2>3, <1>0, <1>3 DEF GetBattleInfo, SessionsKnown
<1>4. ASSUME FindWaitingUser(q) \/ GiveUp(q) \/ ClearBattleInfo(q)
      PROVE  peer'[q].session \in Sessions
  BY <1>0, <1>4 DEF FindWaitingUser, GiveUp, ClearBattleInfo, SessionsKnown
<1>5. ASSUME JoinRoom(q) \/ SendMessage(q) \/ LeaveRoom(q) \/ Clear(q) \/ Forget(q)
      PROVE  FALSE
  <2>1. ASSUME JoinRoom(q) PROVE FALSE
    BY <1>0, <2>1, JoinRoomEffect DEF Moved
  <2>2. ASSUME SendMessage(q) PROVE FALSE
    BY <1>0, <2>2, SendMessageEffect
  <2>3. ASSUME LeaveRoom(q) PROVE FALSE
    BY <1>0, <2>3, LeaveRoomEffect DEF Moved
  <2>4. ASSUME Clear(q) PROVE FALSE
    BY <1>0, <2>4, ClearEffect DEF Moved
  <2>5. ASSUME Forget(q) PROVE FALSE
    BY <1>0, <2>5, ForgetEffect DEF Moved
  <2> QED BY <1>5, <2>1, <2>2, <2>3, <2>4, <2>5
<1>6. ASSUME NEW p \in Peers, p # q,
             \/ \E s \in Sessions : Arrive(p, s)
             \/ FindWaitingUser(p) \/ GetBattleInfo(p) \/ ClearBattleInfo(p)
             \/ JoinRoom(p) \/ SendMessage(p) \/ LeaveRoom(p) \/ Clear(p)
             \/ GiveUp(p) \/ Forget(p)
      PROVE  peer'[q].session \in Sessions
  BY <1>0, <1>1, <1>6, OthersStay
<1>7. ASSUME NotifyBattleUsers \/ UNCHANGED vars
      PROVE  peer'[q].session \in Sessions
  BY <1>1, <1>7 DEF NotifyBattleUsers, vars
<1> QED
  BY <1>2, <1>3, <1>4, <1>5, <1>6, <1>7 DEF Next

(* Who is in a slot is joined, in that room and at that position. *)
Member(p, r, i) ==
  at[p] = "joined" /\ peer[p].info.roomID = r /\ peer[p].position + 1 = i

(* The invariant of the slots says no more than that, *)
LEMMA SlotsAre ==
  ASSUME TypeOK, SlotsHoldMembers, NEW r \in RoomIDs, NEW i \in 1 .. Len(rooms[r]),
         rooms[r][i] # None
  PROVE  rooms[r][i] \in Peers /\ Member(rooms[r][i], r, i) /\ Holds(rooms[r][i])
<1>1. rooms[r] \in Seq(Peers \cup {None})
  BY Typed DEF Slots
<1>2. i \in DOMAIN rooms[r] /\ rooms[r][i] \in Peers
  BY <1>1
<1> QED
  BY <1>2 DEF SlotsHoldMembers, Holds, Member

(* and holds after a step if it does. *)
LEMMA SlotsNext ==
  ASSUME TypeOK',
         \A r \in RoomIDs : \A i \in 1 .. Len(rooms'[r]) :
           rooms'[r][i] # None => Member(rooms[r][i], r, i)'
  PROVE  SlotsHoldMembers'
<1> DEFINE Slot(p, r, i) ==
             /\ at'[p] = "joined" /\ peer'[p].info.roomID = r /\ peer'[p].position + 1 = i
             /\ peer'[p].position < Len(rooms'[peer'[p].info.roomID])
             /\ rooms'[peer'[p].info.roomID][peer'[p].position + 1] = p
<1> SUFFICES ASSUME NEW r \in RoomIDs, NEW i \in DOMAIN rooms'[r], rooms'[r][i] # None
             PROVE  Slot(rooms'[r][i], r, i)
  <2>1. \A r \in RoomIDs : \A i \in DOMAIN rooms'[r] :
          rooms'[r][i] # None => Slot(rooms'[r][i], r, i)
    OBVIOUS
  <2> QED BY <2>1 DEF SlotsHoldMembers, Holds
<1>1. rooms' \in [RoomIDs -> Slots] /\ peer' \in [Peers -> PeerRecs]
  BY DEF TypeOK, Slots, PeerRecs
<1>2. rooms'[r] \in Seq(Peers \cup {None})
  BY <1>1 DEF Slots
<1>3. i \in 1 .. Len(rooms'[r]) /\ Len(rooms'[r]) \in Nat /\ rooms'[r][i] \in Peers
  BY <1>2
<1> DEFINE p == rooms'[r][i]
<1>4. /\ at'[p] = "joined" /\ peer'[p].info.roomID = r
      /\ peer'[p].position + 1 = i
  BY <1>3 DEF Member
<1>5. peer'[p].position \in Nat
  BY <1>1, <1>3, PeerFields
<1>6. peer'[p].position < Len(rooms'[r])
  BY <1>3, <1>4, <1>5
<1> QED
  BY <1>3, <1>4, <1>6

(* No step moves the member of a slot elsewhere or leaves it behind. *)
LEMMA SlotsHoldMembersStep ==
  ASSUME IInv, [Next]_vars
  PROVE  SlotsHoldMembers'
<1>0. /\ TypeOK /\ SessionsKnown /\ SlotsHoldMembers
      /\ rooms \in [RoomIDs -> Slots] /\ peer \in [Peers -> PeerRecs]
  BY Typed DEF IInv
<1> SUFFICES ASSUME NEW k \in RoomIDs, NEW i \in 1 .. Len(rooms'[k]), rooms'[k][i] # None
             PROVE  Member(rooms[k][i], k, i)'
  BY TypeStep, SlotsNext
<1> DEFINE Old == i \in 1 .. Len(rooms[k]) /\ rooms'[k][i] = rooms[k][i]
           q   == rooms[k][i]
           New == Member(rooms[k][i], k, i)'
<1>1. ASSUME Old
      PROVE  q \in Peers /\ Member(q, k, i)
  BY <1>0, <1>1, SlotsAre
<1>2. ASSUME Old, peer'[q] = peer[q], at'[q] = at[q]
      PROVE  New
  BY <1>1, <1>2 DEF Member
<1>3. ASSUME UNCHANGED <<rooms, peer, at, heard>>
      PROVE  New
  <2>1. Old
    BY <1>3
  <2> QED BY <2>1, <1>2, <1>3
<1>4. ASSUME NEW p \in Peers, QuietStep(p)
      PROVE  New
  <2>1. Old
    BY <1>4 DEF QuietStep
  <2>2. q # p
    BY <2>1, <1>1, <1>4 DEF QuietStep, Before, Member
  <2>3. peer'[q] = peer[q] /\ at'[q] = at[q]
    BY <2>1, <2>2, <1>1, <1>4 DEF QuietStep, Moved, Rewritten
  <2> QED BY <2>1, <2>3, <1>2
<1>5. ASSUME NEW p \in Peers, JoinRoom(p)
      PROVE  New
  <2> DEFINE r == peer[p].info.roomID
             n == Len(rooms[r])
  <2>1. /\ r \in RoomIDs /\ n \in Nat /\ at[p] = "cleared" /\ Moved(p, "joined")
        /\ Rewritten(p, Placed(peer[p], n))
        /\ Len(rooms'[r]) = n + 1 /\ rooms'[r][n + 1] = p
        /\ \A j \in 1 .. n : rooms'[r][j] = rooms[r][j]
        /\ \A j \in RoomIDs : j # r => rooms'[j] = rooms[j]
    BY <1>0, <1>5, JoinRoomEffect
  <2>2. Placed(peer[p], n).info = peer[p].info /\ Placed(peer[p], n).position = n
    BY <1>0, <2>1, ChangedFields
  <2>3. CASE k = r /\ i = n + 1
    BY <2>1, <2>2, <2>3 DEF Moved, Rewritten, Member
  <2>4. CASE ~ (k = r /\ i = n + 1)
    <3>1. Old
      <4>1. CASE k = r
        BY <4>1, <2>4, <2>1
      <4>2. CASE k # r
        BY <4>2, <2>1
      <4> QED BY <4>1, <4>2
    <3>2. q # p
      BY <3>1, <1>1, <2>1 DEF Member
    <3> QED BY <3>1, <3>2, <1>0, <1>1, <1>2, <1>5, OthersStay
  <2> QED BY <2>3, <2>4
<1>6. ASSUME NEW p \in Peers, SendMessage(p)
      PROVE  New
  <2>1. /\ peer[p].seq < MaxMessages /\ Rewritten(p, Counted(peer[p]))
        /\ rooms' = rooms /\ at' = at
    BY <1>0, <1>6, SendMessageEffect
  <2>2. Counted(peer[p]).info = peer[p].info /\ Counted(peer[p]).position = peer[p].position
    BY <1>0, <2>1, ChangedFields
  <2>3. Old
    BY <2>1
  <2> QED BY <2>1, <2>2, <2>3, <1>1 DEF Rewritten, Member
<1>7. ASSUME NEW p \in Peers, LeaveRoom(p)
      PROVE  New
  <2> DEFINE r == peer[p].info.roomID
  <2>1. /\ r \in RoomIDs /\ rooms'[r] = WithoutPeer(rooms[r], p)
        /\ \A j \in RoomIDs : j # r => rooms'[j] = rooms[j]
    BY <1>0, <1>7, LeaveRoomEffect
  <2>2. /\ Len(rooms'[r]) = Len(rooms[r])
        /\ \A j \in 1 .. Len(rooms[r]) :
             rooms'[r][j] = IF j = peer[p].position + 1 THEN None ELSE rooms[r][j]
    BY <1>0, <2>1, WithoutFields
  <2>3. Old /\ (k = r => i # peer[p].position + 1)
    <3>1. CASE k = r
      BY <3>1, <2>2
    <3>2. CASE k # r
      BY <3>2, <2>1
    <3> QED BY <3>1, <3>2
  <2>4. q # p
    BY <2>3, <1>1 DEF Member
  <2> QED BY <2>3, <2>4, <1>0, <1>1, <1>2, <1>7, OthersStay
<1>8. ASSUME NEW p \in Peers, Clear(p)
      PROVE  New
  <2> DEFINE r == peer[p].info.roomID
  <2>1. /\ r \in RoomIDs /\ at[p] = "clearing" /\ rooms'[r] = <<>>
        /\ \A j \in RoomIDs : j # r => rooms'[j] = rooms[j]
    BY <1>0, <1>8, ClearEffect
  <2>2. k # r /\ Old
    BY <2>1
  <2>3. q # p
    BY <2>1, <2>2, <1>1 DEF Member
  <2> QED BY <2>2, <2>3, <1>0, <1>1, <1>2, <1>8, OthersStay
<1>9. ASSUME NEW p \in Peers, Forget(p)
      PROVE  New
  <2>1. at[p] = "left" /\ rooms' = rooms
    BY <1>0, <1>9, ForgetEffect
  <2>2. Old
    BY <2>1
  <2>3. q # p
    BY <2>1, <2>2, <1>1 DEF Member
  <2> QED BY <2>2, <2>3, <1>0, <1>1, <1>2, <1>9, OthersStay
<1> QED
  BY <1>0, <1>3, <1>4, <1>5, <1>6, <1>7, <1>8, <1>9, Kinds

(* The last to leave a room sees it vacant, and is clearing it. *)
LEMMA RoomsAreEmptiedStep ==
  ASSUME IInv, [Next]_vars
  PROVE  RoomsAreEmptied'
<1>0. /\ TypeOK /\ SessionsKnown /\ SlotsHoldMembers /\ RoomsAreEmptied
      /\ rooms \in [RoomIDs -> Slots] /\ peer \in [Peers -> PeerRecs]
  BY Typed DEF IInv
<1> DEFINE Keeps(q, k) == peer'[q].info.roomID = k /\ at'[q] \in {"joined", "clearing"}
<1> SUFFICES ASSUME NEW k \in RoomIDs, rooms'[k] # <<>>
             PROVE  \E q \in Peers : Keeps(q, k)
  BY DEF RoomsAreEmptied
<1>1. ASSUME rooms[k] # <<>>
      PROVE  \E q \in Peers : peer[q].info.roomID = k /\ at[q] \in {"joined", "clearing"}
  BY <1>0, <1>1 DEF RoomsAreEmptied
<1>2. ASSUME UNCHANGED <<rooms, peer, at, heard>>
      PROVE  \E q \in Peers : Keeps(q, k)
  BY <1>1, <1>2
<1>3. ASSUME NEW p \in Peers, QuietStep(p)
      PROVE  \E q \in Peers : Keeps(q, k)
  <2>1. PICK q \in Peers : peer[q].info.roomID = k /\ at[q] \in {"joined", "clearing"}
    BY <1>1, <1>3 DEF QuietStep
  <2>2. q # p
    BY <2>1, <1>3 DEF QuietStep, Before
  <2>3. peer'[q] = peer[q] /\ at'[q] = at[q]
    BY <2>2, <1>3 DEF QuietStep, Moved, Rewritten
  <2> QED BY <2>1, <2>3
<1>4. ASSUME NEW p \in Peers, JoinRoom(p)
      PROVE  \E q \in Peers : Keeps(q, k)
  <2> DEFINE r == peer[p].info.roomID
             n == Len(rooms[r])
  <2>1. /\ n \in Nat /\ at[p] = "cleared" /\ Moved(p, "joined")
        /\ Rewritten(p, Placed(peer[p], n))
        /\ \A j \in RoomIDs : j # r => rooms'[j] = rooms[j]
    BY <1>0, <1>4, JoinRoomEffect
  <2>2. Placed(peer[p], n).info = peer[p].info
    BY <1>0, <2>1, ChangedFields
  <2>3. CASE k = r
    <3>1. Keeps(p, k)
      BY <2>1, <2>2, <2>3 DEF Moved, Rewritten
    <3> QED BY <3>1
  <2>4. CASE k # r
    <3>1. PICK q \in Peers : peer[q].info.roomID = k /\ at[q] \in {"joined", "clearing"}
      BY <1>1, <2>1, <2>4
    <3>2. q # p
      BY <2>1, <3>1
    <3>3. peer'[q] = peer[q] /\ at'[q] = at[q]
      BY <1>0, <1>4, <3>2, OthersStay
    <3> QED BY <3>1, <3>3
  <2> QED BY <2>3, <2>4
<1>5. ASSUME NEW p \in Peers, SendMessage(p)
      PROVE  \E q \in Peers : Keeps(q, k)
  <2>1. /\ peer[p].seq < MaxMessages /\ Rewritten(p, Counted(peer[p]))
        /\ rooms' = rooms /\ at' = at
    BY <1>0, <1>5, SendMessageEffect
  <2>2. Counted(peer[p]).info = peer[p].info
    BY <1>0, <2>1, ChangedFields
  <2>3. PICK q \in Peers : peer[q].info.roomID = k /\ at[q] \in {"joined", "clearing"}
    BY <1>1, <2>1
  <2>4. peer'[q].info = peer[q].info
    BY <2>1, <2>2 DEF Rewritten
  <2> QED BY <2>1, <2>3, <2>4
<1>6. ASSUME NEW p \in Peers, LeaveRoom(p)
      PROVE  \E q \in Peers : Keeps(q, k)
  <2> DEFINE r == peer[p].info.roomID
  <2>1. /\ r \in RoomIDs /\ rooms'[r] = WithoutPeer(rooms[r], p)
        /\ rooms' \in [RoomIDs -> Slots]
        /\ \A j \in RoomIDs : j # r => rooms'[j] = rooms[j]
        /\ Moved(p, IF Vacant(rooms'[r]) THEN "clearing" ELSE "left") /\ peer' = peer
    BY <1>0, <1>6, LeaveRoomEffect
  <2>2. /\ Len(rooms'[r]) = Len(rooms[r])
        /\ \A j \in 1 .. Len(rooms[r]) :
             rooms'[r][j] = IF j = peer[p].position + 1 THEN None ELSE rooms[r][j]
    BY <1>0, <2>1, WithoutFields
  <2>3. CASE k # r
    <3>1. PICK q \in Peers : peer[q].info.roomID = k /\ at[q] \in {"joined", "clearing"}
      BY <1>1, <2>1, <2>3
    <3>2. at'[q] = at[q]
      BY <3>1, <2>1, <2>3 DEF Moved
    <3> QED BY <3>1, <3>2, <2>1
  <2>4. CASE k = r /\ Vacant(rooms'[r])
    <3>1. Keeps(p, k)
      BY <2>1, <2>4 DEF Moved
    <3> QED BY <3>1
  <2>5. CASE k = r /\ ~ Vacant(rooms'[r])
    <3>1. DOMAIN rooms'[r] = 1 .. Len(rooms'[r])
      BY <2>1 DEF Slots
    <3>2. PICK i \in 1 .. Len(rooms[r]) : rooms'[r][i] # None
      BY <2>2, <2>5, <3>1 DEF Vacant
    <3>3. i # peer[p].position + 1 /\ rooms[r][i] # None
      BY <3>2, <2>2
    <3> DEFINE q == rooms[r][i]
    <3>4. q \in Peers /\ Member(q, r, i)
      BY <3>3, <1>0, <2>1, SlotsAre
    <3>5. q # p
      BY <3>3, <3>4 DEF Member
    <3>6. Keeps(q, k)
      BY <3>4, <3>5, <2>1, <2>5 DEF Member, Moved
    <3> QED BY <3>4, <3>6
  <2> QED BY <2>3, <2>4, <2>5
<1>7. ASSUME NEW p \in Peers, Clear(p)
      PROVE  \E q \in Peers : Keeps(q, k)
  <2> DEFINE r == peer[p].info.roomID
  <2>1. /\ r \in RoomIDs /\ rooms'[r] = <<>> /\ Moved(p, "left") /\ peer' = peer
        /\ \A j \in RoomIDs : j # r => rooms'[j] = rooms[j]
    BY <1>0, <1>7, ClearEffect
  <2>2. PICK q \in Peers : peer[q].info.roomID = k /\ at[q] \in {"joined", "clearing"}
    BY <1>1, <2>1
  <2>3. q # p
    BY <2>1, <2>2
  <2> QED BY <2>1, <2>2, <2>3 DEF Moved
<1>8. ASSUME NEW p \in Peers, Forget(p)
      PROVE  \E q \in Peers : Keeps(q, k)
  <2>1. at[p] = "left" /\ rooms' = rooms
    BY <1>0, <1>8, ForgetEffect
  <2>2. PICK q \in Peers : peer[q].info.roomID = k /\ at[q] \in {"joined", "clearing"}
    BY <1>1, <2>1
  <2>3. q # p
    BY <2>1, <2>2
  <2>4. peer'[q] = peer[q] /\ at'[q] = at[q]
    BY <1>0, <1>8, <2>3, OthersStay
  <2> QED BY <2>2, <2>4
<1> QED
  BY <1>0, <1>2, <1>3, <1>4, <1>5, <1>6, <1>7, <1>8, Kinds

(* Who is sent a message holds another slot of the room, and who holds one *)
(* is sent it.                                                             *)
LEMMA RecipientsAre ==
  ASSUME TypeOK, SlotsHoldMembers, NEW p \in Peers, NEW q \in Peers
  PROVE  /\ q \in Recipients(p) =>
              /\ Holds(q) /\ peer[q].info.roomID = peer[p].info.roomID
              /\ peer[q].position # peer[p].position
         /\ (/\ Holds(q) /\ peer[q].info.roomID = peer[p].info.roomID
             /\ peer[q].position # peer[p].position) => q \in Recipients(p)
<1> DEFINE r == peer[p].info.roomID
           slots == rooms[r]
<1>1. /\ r \in RoomIDs /\ slots \in Slots /\ peer[p].position \in Nat
      /\ peer[q].position \in Nat /\ q # None
  BY Typed, PeerFields, Constants
<1>2. DOMAIN slots = 1 .. Len(slots) /\ Len(slots) \in Nat
  BY <1>1 DEF Slots
<1>3. q \in Recipients(p) <=> \E i \in DOMAIN slots : i # peer[p].position + 1 /\ slots[i] = q
  BY <1>1 DEF Recipients
<1>4. ASSUME NEW i \in DOMAIN slots, i # peer[p].position + 1, slots[i] = q
      PROVE  /\ Holds(q) /\ peer[q].info.roomID = r
             /\ peer[q].position # peer[p].position
  <2>1. i \in 1 .. Len(rooms[r]) /\ rooms[r][i] # None
    BY <1>1, <1>2, <1>4
  <2>2. Member(q, r, i) /\ Holds(q)
    BY <2>1, <1>1, <1>4, SlotsAre
  <2> QED BY <2>2, <1>4 DEF Member
<1>5. ASSUME Holds(q), peer[q].info.roomID = r, peer[q].position # peer[p].position
      PROVE  \E i \in DOMAIN slots : i # peer[p].position + 1 /\ slots[i] = q
  <2>1. peer[q].position < Len(slots) /\ slots[peer[q].position + 1] = q
    BY <1>5 DEF Holds
  <2>2. peer[q].position + 1 \in DOMAIN slots
    BY <1>1, <1>2, <2>1
  <2>3. peer[q].position + 1 # peer[p].position + 1
    BY <1>1, <1>5
  <2> QED BY <2>1, <2>2, <2>3
<1> HIDE DEF slots
<1> QED BY <1>3, <1>4, <1>5

(* Nobody outside a room hears or is heard after a step.                   *)
LEMMA UnheardStep ==
  ASSUME IInv, [Next]_vars
  PROVE  Unheard'
<1>0. TypeOK /\ SessionsKnown /\ SlotsHoldMembers /\ Unheard
  BY DEF IInv
<1> SUFFICES ASSUME NEW q \in Peers, NEW o \in Peers, at'[q] \in Outside
             PROVE  heard'[o][q] = <<>> /\ heard'[q][o] = <<>>
  BY DEF Unheard
<1>1. ASSUME at[q] \in Outside
      PROVE  heard[o][q] = <<>> /\ heard[q][o] = <<>>
  BY <1>0, <1>1 DEF Unheard
<1>2. ASSUME UNCHANGED <<rooms, peer, at, heard>>
      PROVE  heard'[o][q] = <<>> /\ heard'[q][o] = <<>>
  BY <1>1, <1>2
<1>3. ASSUME NEW p \in Peers, QuietStep(p)
      PROVE  heard'[o][q] = <<>> /\ heard'[q][o] = <<>>
  <2>1. at[q] \in Outside
    BY <1>3 DEF QuietStep, Moved, Before, Outside
  <2> QED BY <2>1, <1>1, <1>3 DEF QuietStep
<1>4. ASSUME NEW p \in Peers, JoinRoom(p)
      PROVE  heard'[o][q] = <<>> /\ heard'[q][o] = <<>>
  <2>1. Moved(p, "joined") /\ heard' = heard
    BY <1>0, <1>4, JoinRoomEffect
  <2>2. at[q] \in Outside
    BY <2>1 DEF Moved, Outside
  <2> QED BY <2>1, <2>2, <1>1
<1>5. ASSUME NEW p \in Peers, SendMessage(p)
      PROVE  heard'[o][q] = <<>> /\ heard'[q][o] = <<>>
  <2>1. /\ at[p] = "joined" /\ at' = at
        /\ \A x, y \in Peers : ~ (x \in Recipients(p) /\ y = p) => heard'[x][y] = heard[x][y]
    BY <1>0, <1>5, SendMessageEffect
  <2>2. q # p /\ at[q] # "joined"
    BY <2>1 DEF Outside
  <2>3. q \notin Recipients(p)
    BY <2>2, <1>0, RecipientsAre DEF Holds
  <2> QED BY <2>1, <2>2, <2>3, <1>1
<1>6. ASSUME NEW p \in Peers, LeaveRoom(p)
      PROVE  heard'[o][q] = <<>> /\ heard'[q][o] = <<>>
  <2>1. (Moved(p, "clearing") \/ Moved(p, "left")) /\ heard' = heard
    BY <1>0, <1>6, LeaveRoomEffect
  <2>2. at[q] \in Outside
    BY <2>1 DEF Moved, Outside
  <2> QED BY <2>1, <2>2, <1>1
<1>7. ASSUME NEW p \in Peers, Clear(p)
      PROVE  heard'[o][q] = <<>> /\ heard'[q][o] = <<>>
  <2>1. Moved(p, "left") /\ heard' = heard
    BY <1>0, <1>7, ClearEffect
  <2>2. at[q] \in Outside
    BY <2>1 DEF Moved, Outside
  <2> QED BY <2>1, <2>2, <1>1
<1>8. ASSUME NEW p \in Peers, Forget(p)
      PROVE  heard'[o][q] = <<>> /\ heard'[q][o] = <<>>
  <2>1. /\ Moved(p, "away")
        /\ \A x, y \in Peers : heard'[x][y] = IF p = x \/ p = y THEN <<>> ELSE heard[x][y]
    BY <1>0, <1>8, ForgetEffect
  <2>2. q # p => at[q] \in Outside
    BY <2>1 DEF Moved
  <2> QED BY <2>1, <2>2, <1>1
<1> QED
  BY <1>0, <1>2, <1>3, <1>4, <1>5, <1>6, <1>7, <1>8, Kinds

(* Only by joining does a peer get a slot.                                 *)
LEMMA SlotsAreNotGained ==
  ASSUME IInv, [Next]_vars, NEW q \in Peers, ~ JoinRoom(q), Holds(q)'
  PROVE  /\ Holds(q) /\ peer'[q].info = peer[q].info
         /\ peer'[q].position = peer[q].position
<1>0. /\ TypeOK /\ SessionsKnown /\ rooms \in [RoomIDs -> Slots]
      /\ peer \in [Peers -> PeerRecs]
  BY Typed DEF IInv
<1> DEFINE Goal == /\ Holds(q) /\ peer'[q].info = peer[q].info
                   /\ peer'[q].position = peer[q].position
           k == peer[q].info.roomID
           i == peer[q].position
<1>1. at'[q] = "joined" /\ k \in RoomIDs /\ i \in Nat
  BY <1>0, PeerFields DEF Holds
<1>2. ASSUME at'[q] = at[q], peer'[q].info = peer[q].info,
             peer'[q].position = peer[q].position,
             i < Len(rooms'[k]) /\ rooms'[k][i + 1] = q
               => i < Len(rooms[k]) /\ rooms[k][i + 1] = q
      PROVE  Goal
  BY <1>2 DEF Holds
<1>3. ASSUME UNCHANGED <<rooms, peer, at, heard>>
      PROVE  Goal
  BY <1>2, <1>3
<1>4. ASSUME NEW p \in Peers, QuietStep(p)
      PROVE  Goal
  <2>1. q # p
    BY <1>1, <1>4 DEF QuietStep, Moved
  <2> QED BY <2>1, <1>2, <1>4 DEF QuietStep, Moved, Rewritten
<1>5. ASSUME NEW p \in Peers, JoinRoom(p)
      PROVE  Goal
  <2>1. q # p
    BY <1>5
  <2>2. peer'[q] = peer[q] /\ at'[q] = at[q]
    BY <2>1, <1>0, <1>5, OthersStay
  <2> DEFINE r == peer[p].info.roomID
             n == Len(rooms[r])
  <2>3. /\ r \in RoomIDs /\ n \in Nat /\ Len(rooms'[r]) = n + 1 /\ rooms'[r][n + 1] = p
        /\ \A j \in 1 .. n : rooms'[r][j] = rooms[r][j]
        /\ \A j \in RoomIDs : j # r => rooms'[j] = rooms[j]
    BY <1>0, <1>5, JoinRoomEffect
  <2>4. ASSUME i < Len(rooms'[k]) /\ rooms'[k][i + 1] = q
        PROVE  i < Len(rooms[k]) /\ rooms[k][i + 1] = q
    <3>1. CASE k = r
      <4>1. i # n
        BY <3>1, <2>1, <2>3, <2>4
      <4>2. i < n /\ i + 1 \in 1 .. n
        BY <3>1, <4>1, <2>3, <2>4, <1>1, SMTT(30)
      <4> QED BY <4>2, <3>1, <2>3, <2>4
    <3>2. CASE k # r
      BY <3>2, <2>3, <2>4, <1>1
    <3> QED BY <3>1, <3>2
  <2> QED BY <2>2, <2>4, <1>2
<1>6. ASSUME NEW p \in Peers, SendMessage(p)
      PROVE  Goal
  <2>1. /\ peer[p].seq < MaxMessages /\ Rewritten(p, Counted(peer[p]))
        /\ rooms' = rooms /\ at' = at
    BY <1>0, <1>6, SendMessageEffect
  <2>2. Counted(peer[p]).info = peer[p].info /\ Counted(peer[p]).position = peer[p].position
    BY <1>0, <2>1, ChangedFields
  <2>3. peer'[q].info = peer[q].info /\ peer'[q].position = peer[q].position
    BY <2>1, <2>2 DEF Rewritten
  <2> QED BY <2>1, <2>3, <1>2
<1>7. ASSUME NEW p \in Peers, LeaveRoom(p)
      PROVE  Goal
  <2> DEFINE r == peer[p].info.roomID
  <2>1. /\ r \in RoomIDs /\ rooms'[r] = WithoutPeer(rooms[r], p)
        /\ \A j \in RoomIDs : j # r => rooms'[j] = rooms[j]
        /\ (Moved(p, "clearing") \/ Moved(p, "left")) /\ peer' = peer
    BY <1>0, <1>7, LeaveRoomEffect
  <2>2. /\ Len(rooms'[r]) = Len(rooms[r])
        /\ \A j \in 1 .. Len(rooms[r]) :
             rooms'[r][j] = IF j = peer[p].position + 1 THEN None ELSE rooms[r][j]
    BY <1>0, <2>1, WithoutFields
  <2>3. q # p /\ at'[q] = at[q]
    BY <2>1, <1>1 DEF Moved
  <2>4. ASSUME i < Len(rooms'[k]) /\ rooms'[k][i + 1] = q
        PROVE  i < Len(rooms[k]) /\ rooms[k][i + 1] = q
    <3>1. CASE k = r
      <4>0. rooms[r] \in Slots
        BY <1>0, <2>1
      <4>1. i + 1 \in 1 .. Len(rooms[r]) /\ i < Len(rooms[r])
        BY <4>0, <3>1, <2>2, <2>4, <1>1 DEF Slots
      <4>2. q # None
        BY Constants
      <4> QED BY <4>1, <4>2, <3>1, <2>2, <2>4
    <3>2. CASE k # r
      BY <3>2, <2>1, <2>4, <1>1
    <3> QED BY <3>1, <3>2
  <2> QED BY <2>1, <2>3, <2>4, <1>2
<1>8. ASSUME NEW p \in Peers, Clear(p)
      PROVE  Goal
  <2> DEFINE r == peer[p].info.roomID
  <2>1. /\ r \in RoomIDs /\ rooms'[r] = <<>> /\ Moved(p, "left") /\ peer' = peer
        /\ \A j \in RoomIDs : j # r => rooms'[j] = rooms[j]
    BY <1>0, <1>8, ClearEffect
  <2>2. q # p /\ at'[q] = at[q]
    BY <2>1, <1>1 DEF Moved
  <2>3. ASSUME i < Len(rooms'[k]) PROVE k # r
    BY <2>1, <2>3, <1>1
  <2> QED BY <2>1, <2>2, <2>3, <1>1, <1>2
<1>9. ASSUME NEW p \in Peers, Forget(p)
      PROVE  Goal
  <2>1. Moved(p, "away") /\ rooms' = rooms
    BY <1>0, <1>9, ForgetEffect
  <2>2. q # p
    BY <2>1, <1>1 DEF Moved
  <2>3. peer'[q] = peer[q] /\ at'[q] = at[q]
    BY <2>2, <1>0, <1>9, OthersStay
  <2> QED BY <2>1, <2>3, <1>2
<1> QED
  BY <1>0, <1>3, <1>4, <1>5, <1>6, <1>7, <1>8, <1>9, Kinds

(* One message more, with the next number, leaves no gap. *)
LEMMA UnbrokenAppend ==
  ASSUME NEW run \in Seq(Nat), Unbroken(run), NEW n \in Nat,
         run # <<>> => run[Len(run)] = n
  PROVE  LET more == Append(run, n + 1)
         IN  Unbroken(more) /\ more[Len(more)] = n + 1
<1> DEFINE more == Append(run, n + 1)
<1>1. /\ Len(more) = Len(run) + 1 /\ more[Len(run) + 1] = n + 1 /\ Len(run) \in Nat
      /\ \A i \in 1 .. Len(run) : more[i] = run[i]
  BY AppendProperties
<1>2. ASSUME NEW i \in 1 .. Len(run)
      PROVE  more[i + 1] = more[i] + 1
  <2>1. run # <<>>
    BY <1>2
  <2>2. CASE i = Len(run)
    BY <1>1, <2>1, <2>2
  <2>3. CASE i # Len(run)
    <3>1. i \in 1 .. Len(run) - 1 /\ i + 1 \in 1 .. Len(run)
      BY <2>3, <1>1
    <3>2. run[i + 1] = run[i] + 1
      BY <3>1 DEF Unbroken
    <3> QED BY <3>1, <3>2, <1>1
  <2> QED BY <2>2, <2>3
<1> HIDE DEF more
<1>3. Unbroken(more)
  BY <1>1, <1>2 DEF Unbroken
<1> QED BY <1>1, <1>3 DEF more

(* A message goes to everybody who holds a slot, or begins a stream. *)
LEMMA StreamsGoOnStep ==
  ASSUME IInv, [Next]_vars
  PROVE  StreamsGoOn'
<1>0. /\ TypeOK /\ SessionsKnown /\ SlotsHoldMembers /\ Unheard /\ StreamsGoOn
      /\ peer \in [Peers -> PeerRecs]
      /\ heard \in [Peers -> [Peers -> Seq(1 .. MaxMessages)]]
  BY Typed DEF IInv
<1> DEFINE Follows(q, o) ==
             /\ Unbroken(heard'[q][o])
             /\ at'[o] = "joined" /\ Holds(q)' =>
                  /\ heard'[q][o][Len(heard'[q][o])] = peer'[o].seq
                  /\ peer'[o].info.roomID = peer'[q].info.roomID
                  /\ peer'[o].position # peer'[q].position
<1> SUFFICES ASSUME NEW q \in Peers, NEW o \in Peers, heard'[q][o] # <<>>
             PROVE  Follows(q, o)
  BY DEF StreamsGoOn, Unbroken
<1>1. ASSUME heard[q][o] # <<>>
      PROVE  /\ Unbroken(heard[q][o])
             /\ at[o] \notin Outside /\ at[q] \notin Outside
             /\ at[o] = "joined" /\ Holds(q) =>
                  /\ heard[q][o][Len(heard[q][o])] = peer[o].seq
                  /\ peer[o].info.roomID = peer[q].info.roomID
                  /\ peer[o].position # peer[q].position
  BY <1>0, <1>1 DEF StreamsGoOn, Unheard
<1>2. (* A step that leaves this stream and its sender alone. *)
      ASSUME heard'[q][o] = heard[q][o], ~ JoinRoom(q),
             at'[o] = "joined" => at[o] = "joined" /\ peer'[o] = peer[o]
      PROVE  Follows(q, o)
  <2>1. Holds(q)' => /\ Holds(q) /\ peer'[q].info = peer[q].info
                     /\ peer'[q].position = peer[q].position
    BY <1>2, SlotsAreNotGained
  <2> QED BY <2>1, <1>1, <1>2
<1>3. ASSUME UNCHANGED <<rooms, peer, at, heard>>, ~ JoinRoom(q)
      PROVE  Follows(q, o)
  BY <1>2, <1>3
<1>4. ASSUME NEW p \in Peers, QuietStep(p)
      PROVE  Follows(q, o)
  <2>1. heard'[q][o] = heard[q][o]
    BY <1>4 DEF QuietStep
  <2>2. at[p] \in Outside /\ o # p /\ q # p
    BY <2>1, <1>1, <1>4 DEF QuietStep, Before, Outside
  <2>3. at'[o] = at[o] /\ peer'[o] = peer[o]
    BY <2>2, <1>4 DEF QuietStep, Moved, Rewritten
  <2>4. ~ JoinRoom(q)
    BY <2>1, <1>1 DEF JoinRoom, Outside
  <2> QED BY <2>1, <2>3, <2>4, <1>2
<1>5. ASSUME NEW p \in Peers, JoinRoom(p)
      PROVE  Follows(q, o)
  <2>1. heard' = heard /\ at[p] = "cleared"
    BY <1>0, <1>5, JoinRoomEffect
  <2>2. at[o] # "cleared" /\ at[q] # "cleared"
    BY <2>1, <1>1 DEF Outside
  <2>3. at'[o] = at[o] /\ peer'[o] = peer[o]
    BY <2>1, <2>2, <1>0, <1>5, OthersStay
  <2>4. ~ JoinRoom(q)
    BY <2>2 DEF JoinRoom
  <2> QED BY <2>1, <2>3, <2>4, <1>2
<1>6. ASSUME NEW p \in Peers, SendMessage(p)
      PROVE  Follows(q, o)
  <2>1. /\ at[p] = "joined" /\ peer[p].seq < MaxMessages /\ Rewritten(p, Counted(peer[p]))
        /\ heard'[q][o] = IF q \in Recipients(p) /\ o = p
                          THEN Append(heard[q][p], peer[p].seq + 1) ELSE heard[q][o]
        /\ rooms' = rooms /\ at' = at
    BY <1>0, <1>6, SendMessageEffect
  <2>2. Counted(peer[p]).info = peer[p].info /\ Counted(peer[p]).position = peer[p].position
        /\ Counted(peer[p]).seq = peer[p].seq + 1
    BY <1>0, <2>1, ChangedFields
  <2>3. ~ JoinRoom(q)
    <3>1. CASE at[q] = "cleared"
      <4>1. at'[q] = "cleared"
        BY <2>1, <3>1
      <4>2. JoinRoom(q) => at'[q] = "joined"
        BY <1>0, JoinRoomEffect DEF Moved
      <4> QED BY <4>1, <4>2
    <3>2. CASE at[q] # "cleared"
      BY <3>2 DEF JoinRoom
    <3> QED BY <3>1, <3>2
  <2>4. Holds(q)' => /\ Holds(q) /\ peer'[q].info = peer[q].info
                     /\ peer'[q].position = peer[q].position
    BY <2>3, SlotsAreNotGained
  <2>5. CASE o = p /\ q \in Recipients(p)
    <3> DEFINE run == heard[q][p]
               n == peer[p].seq
    <3>1. run \in Seq(1 .. MaxMessages) /\ n \in Nat
      BY <1>0, PeerFields
    <3>2. run \in Seq(Nat)
      BY <3>1, Constants
    <3>3. /\ Holds(q) /\ peer[q].info.roomID = peer[p].info.roomID
          /\ peer[q].position # peer[p].position
      BY <2>5, <1>0, RecipientsAre
    <3>4. CASE run = <<>>
      <4>1. Unbroken(run)
        BY <3>4 DEF Unbroken
      <4>2. Unbroken(Append(run, n + 1)) /\ Append(run, n + 1)[Len(Append(run, n + 1))] = n + 1
        BY <4>1, <3>1, <3>2, <3>4, UnbrokenAppend
      <4> QED BY <4>2, <3>3, <2>1, <2>2, <2>4, <2>5 DEF Rewritten
    <3>5. CASE run # <<>>
      <4>1. Unbroken(run) /\ run[Len(run)] = n
        BY <3>5, <3>3, <2>1, <2>5, <1>1
      <4>2. Unbroken(Append(run, n + 1)) /\ Append(run, n + 1)[Len(Append(run, n + 1))] = n + 1
        BY <4>1, <3>1, <3>2, UnbrokenAppend
      <4> QED BY <4>2, <3>3, <2>1, <2>2, <2>4, <2>5 DEF Rewritten
    <3> QED BY <3>4, <3>5
  <2>6. CASE o = p /\ q \notin Recipients(p)
    <3>1. heard[q][o] # <<>> /\ heard'[q][o] = heard[q][o]
      BY <2>1, <2>6
    <3>2. ~ Holds(q)
      BY <3>1, <2>1, <2>6, <1>0, <1>1, RecipientsAre
    <3> QED BY <3>1, <3>2, <2>4, <1>1
  <2>7. CASE o # p
    <3>1. heard'[q][o] = heard[q][o] /\ peer'[o] = peer[o] /\ at'[o] = at[o]
      BY <2>1, <2>7 DEF Rewritten
    <3> QED BY <3>1, <2>3, <1>2
  <2> QED BY <2>5, <2>6, <2>7
<1>7. ASSUME NEW p \in Peers, LeaveRoom(p) \/ Clear(p)
      PROVE  Follows(q, o)
  <2>1. (Moved(p, "clearing") \/ Moved(p, "left")) /\ heard' = heard /\ peer' = peer
    BY <1>0, <1>7, LeaveRoomEffect, ClearEffect
  <2>2. at'[o] = "joined" => at[o] = "joined"
    BY <2>1 DEF Moved
  <2>3. at[q] # "cleared"
    BY <2>1, <1>1 DEF Outside
  <2> QED BY <2>1, <2>2, <2>3, <1>2 DEF JoinRoom
<1>8. ASSUME NEW p \in Peers, Forget(p)
      PROVE  Follows(q, o)
  <2>1. /\ Moved(p, "away") /\ Rewritten(p, NewPeer)
        /\ heard'[q][o] = IF p = q \/ p = o THEN <<>> ELSE heard[q][o]
    BY <1>0, <1>8, ForgetEffect
  <2>2. heard'[q][o] = heard[q][o] /\ o # p
    BY <2>1
  <2>3. at[q] # "cleared"
    BY <2>2, <1>1 DEF Outside
  <2> QED BY <2>1, <2>2, <2>3, <1>2 DEF JoinRoom, Moved, Rewritten
<1>9. JoinRoom(q) \/ ~ JoinRoom(q)
  OBVIOUS
<1> QED
  BY <1>0, <1>3, <1>4, <1>5, <1>6, <1>7, <1>8, <1>9, Kinds

(* Infos that were in turn are so when battles have been added. *)
LEMMA InTurnStays ==
  ASSUME NEW info \in Infos, InTurn(info), notified \in Nat, notified' \in Nat,
         notified <= notified'
  PROVE  InTurn(info)'
<1>1. CASE info = NoInfo
  BY <1>1 DEF InTurn, NoInfo
<1>2. CASE info # NoInfo
  BY <1>2 DEF InTurn, NoInfo, Infos
<1> QED BY <1>1, <1>2

(* Rooms are dealt out in turn, and infos only copied or dropped. *)
LEMMA RoomsInTurnStep ==
  ASSUME IInv, [Next]_vars
  PROVE  RoomsInTurn'
<1>0. /\ TypeOK /\ SessionsKnown /\ RoomsInTurn
      /\ notified \in Nat /\ nextRoomID = notified % MaxRoom
      /\ sessionMap \in [Sessions -> Infos] /\ peer \in [Peers -> PeerRecs]
      /\ \A s \in Sessions : InTurn(sessionMap[s])
      /\ \A p \in Peers : peer[p] \in PeerRecs /\ peer[p].info \in Infos /\ InTurn(peer[p].info)
      /\ \A p \in Peers : at[p] \in {"cleared", "joined"} => peer[p].info # NoInfo
  BY Typed, PeerFields, Constants DEF IInv, RoomsInTurn
<1>1. ASSUME NotifyBattleUsers
      PROVE  RoomsInTurn'
  <2>0. PICK info : info = [battle |-> notified + 1, roomID |-> nextRoomID]
    OBVIOUS
  <2>1. /\ notified' = notified + 1 /\ nextRoomID' = (nextRoomID + 1) % MaxRoom
        /\ sessionMap' = [s \in Sessions |-> IF s \in Users[notified + 1] THEN info
                                             ELSE sessionMap[s]]
        /\ UNCHANGED <<peer, at>>
    BY <1>1, <2>0 DEF NotifyBattleUsers, NextRoom
  <2>2. nextRoomID' = notified' % MaxRoom
    BY <2>1, <1>0, Constants, ModNext
  <2>3. info.battle \in 1 .. notified' /\ info.roomID = (info.battle - 1) % MaxRoom
    BY <2>0, <2>1, <1>0
  <2>4. InTurn(info)'
    BY <2>3 DEF InTurn
  <2>5. \A i \in Infos : InTurn(i) => InTurn(i)'
    BY <2>1, <1>0, InTurnStays
  <2>6. ASSUME NEW s \in Sessions
        PROVE  InTurn(sessionMap[s])'
    <3>1. sessionMap[s] \in Infos /\ InTurn(sessionMap[s])
      BY <1>0
    <3>3. CASE s \in Users[notified + 1]
      <4>1. sessionMap'[s] = info
        BY <2>1, <3>3
      <4> QED BY <4>1, <2>4 DEF InTurn
    <3>4. CASE s \notin Users[notified + 1]
      <4>1. sessionMap'[s] = sessionMap[s]
        BY <2>1, <3>4
      <4> QED BY <4>1, <3>1, <2>5 DEF InTurn
    <3> QED BY <3>3, <3>4
  <2>7. ASSUME NEW p \in Peers
        PROVE  InTurn(peer[p].info)'
    BY <1>0, <2>1, <2>5 DEF InTurn
  <2> QED BY <2>1, <2>2, <2>6, <2>7, <1>0 DEF RoomsInTurn
<1>2. (* A step that announces nothing: infos are forgotten or copied. *)
      ASSUME UNCHANGED <<notified, nextRoomID>>,
             \A s \in Sessions : sessionMap'[s] = NoInfo \/ sessionMap'[s] = sessionMap[s],
             \A p \in Peers : \/ peer'[p].info = peer[p].info \/ peer'[p].info = NoInfo
                              \/ \E s \in Sessions : peer'[p].info = sessionMap[s],
             \A p \in Peers : at'[p] \in {"cleared", "joined"} => peer'[p].info # NoInfo
      PROVE  RoomsInTurn'
  BY <1>0, <1>2 DEF RoomsInTurn, InTurn, NoInfo
<1>3. ASSUME UNCHANGED <<notified, nextRoomID, sessionMap>>,
             NEW p \in Peers,
             \/ peer'[p].info = peer[p].info \/ peer'[p].info = NoInfo
             \/ \E s \in Sessions : peer'[p].info = sessionMap[s],
             at'[p] \in {"cleared", "joined"} => peer'[p].info # NoInfo,
             \A q \in Peers : q # p => peer'[q] = peer[q] /\ at'[q] = at[q]
      PROVE  RoomsInTurn'
  BY <1>0, <1>2, <1>3
<1>4. ASSUME NEW p \in Peers, NEW s \in Sessions, Arrive(p, s)
      PROVE  RoomsInTurn'
  <2>1. /\ Moved(p, "serving") /\ Rewritten(p, Arrived(s))
        /\ UNCHANGED <<notified, nextRoomID, sessionMap>>
    BY <1>0, <1>4, ArriveEffect
  <2>2. Arrived(s).info = NoInfo
    BY <1>0, ChangedFields
  <2> QED BY <2>1, <2>2, <1>3 DEF Moved, Rewritten
<1>5. ASSUME NEW p \in Peers, FindWaitingUser(p) \/ GiveUp(p)
      PROVE  RoomsInTurn'
  <2>1. PICK there \in {"found", "left"} : Goto(p, there)
    BY <1>5 DEF FindWaitingUser, GiveUp
  <2>2. Moved(p, there)
    BY <2>1, <1>0, GotoMoves DEF States
  <2>3. UNCHANGED <<notified, nextRoomID, sessionMap, peer>>
    BY <1>5 DEF FindWaitingUser, GiveUp
  <2> QED BY <2>2, <2>3, <1>3 DEF Moved
<1>6. ASSUME NEW p \in Peers, GetBattleInfo(p)
      PROVE  RoomsInTurn'
  <2>1. /\ Moved(p, "informed") /\ UNCHANGED <<notified, nextRoomID, sessionMap>>
    BY <1>0, <1>6, GetBattleInfoEffect
  <2>2. PICK s \in Sessions : Rewritten(p, Informed(peer[p], sessionMap[s]))
    BY <1>0, <1>6, GetBattleInfoEffect
  <2>3. sessionMap[s] \in Infos /\ peer[p] \in PeerRecs
    BY <1>0
  <2>4. Informed(peer[p], sessionMap[s]).info = sessionMap[s]
    BY <2>3, ChangedFields
  <2> QED BY <2>1, <2>2, <2>4, <1>3 DEF Moved, Rewritten
<1>7. ASSUME NEW p \in Peers, ClearBattleInfo(p)
      PROVE  RoomsInTurn'
  <2>1. /\ Moved(p, IF peer[p].info = NoInfo THEN "panic" ELSE "cleared")
        /\ \A s \in Sessions : sessionMap'[s] = NoInfo \/ sessionMap'[s] = sessionMap[s]
        /\ UNCHANGED <<notified, nextRoomID, peer>>
    BY <1>0, <1>7, ClearBattleInfoEffect
  <2>2. \A q \in Peers : at'[q] \in {"cleared", "joined"} => peer'[q].info # NoInfo
    BY <2>1, <1>0 DEF Moved
  <2> QED BY <2>1, <2>2, <1>2
<1>8. ASSUME NEW p \in Peers, JoinRoom(p)
      PROVE  RoomsInTurn'
  <2> DEFINE n == Len(rooms[peer[p].info.roomID])
  <2>1. /\ n \in Nat /\ at[p] = "cleared" /\ Moved(p, "joined")
        /\ Rewritten(p, Placed(peer[p], n))
        /\ UNCHANGED <<notified, nextRoomID, sessionMap>>
    BY <1>0, <1>8, JoinRoomEffect
  <2> HIDE DEF n
  <2>2. Placed(peer[p], n).info = peer[p].info
    BY <1>0, <2>1, ChangedFields
  <2>3. peer[p].info # NoInfo
    BY <1>0, <2>1
  <2> QED BY <2>1, <2>2, <2>3, <1>3 DEF Moved, Rewritten
<1>9. ASSUME NEW p \in Peers, SendMessage(p)
      PROVE  RoomsInTurn'
  <2>1. /\ at[p] = "joined" /\ peer[p].seq < MaxMessages /\ Rewritten(p, Counted(peer[p]))
        /\ UNCHANGED <<notified, nextRoomID, sessionMap, at>>
    BY <1>0, <1>9, SendMessageEffect
  <2>2. Counted(peer[p]).info = peer[p].info
    BY <1>0, <2>1, ChangedFields
  <2> QED BY <2>1, <2>2, <1>0, <1>3 DEF Rewritten
<1>10. ASSUME NEW p \in Peers, LeaveRoom(p) \/ Clear(p)
       PROVE  RoomsInTurn'
  <2>1. /\ Moved(p, "clearing") \/ Moved(p, "left")
        /\ UNCHANGED <<notified, nextRoomID, sessionMap, peer>>
    BY <1>0, <1>10, LeaveRoomEffect, ClearEffect
  <2> QED BY <2>1, <1>3 DEF Moved
<1>11. ASSUME NEW p \in Peers, Forget(p)
       PROVE  RoomsInTurn'
  <2>1. /\ Moved(p, "away") /\ Rewritten(p, NewPeer)
        /\ UNCHANGED <<notified, nextRoomID, sessionMap>>
    BY <1>0, <1>11, ForgetEffect
  <2> QED BY <2>1, NoInfoFields, <1>3 DEF Moved, Rewritten
<1>12. ASSUME UNCHANGED vars
       PROVE  RoomsInTurn'
  BY <1>0, <1>2, <1>12 DEF vars
<1> QED
  BY <1>1, <1>4, <1>5, <1>6, <1>7, <1>8, <1>9, <1>10, <1>11, <1>12 DEF Next

-----------------------------------------------------------------------------
(* The theorems.                                                           *)

(* The server starts with nothing announced and nobody there. *)
LEMMA InitHolds ==
  ASSUME Init
  PROVE  IInv
<1>1. /\ 0 \in 0 .. Len(Users) /\ 0 \in RoomIDs /\ <<>> \in Slots
      /\ <<>> \in Seq(1 .. MaxMessages) /\ "away" \in States
  BY Constants DEF RoomIDs, Slots, States
<1>2. TypeOK
  BY <1>1, NoInfoFields, Typed DEF Init
<1>3. \A p \in Peers : at[p] = "away" /\ peer[p].info = NoInfo
  BY NoInfoFields DEF Init
<1>4. \A p, q \in Peers : heard[q][p] = <<>>
  BY DEF Init
<1>5. \A r \in RoomIDs : rooms[r] = <<>>
  BY DEF Init
<1>6. nextRoomID = notified % MaxRoom
  BY Constants DEF Init
<1>7. \A s \in Sessions : sessionMap[s] = NoInfo
  BY DEF Init
<1>8. SlotsHoldMembers
  BY <1>5 DEF SlotsHoldMembers
<1>9. RoomsInTurn
  BY <1>3, <1>6, <1>7 DEF RoomsInTurn, InTurn
<1> QED
  BY <1>2, <1>3, <1>4, <1>5, <1>8, <1>9
     DEF IInv, SessionsKnown, RoomsAreEmptied, Unheard, StreamsGoOn

(* Every step keeps the invariant. *)
LEMMA StepHolds ==
  ASSUME IInv, [Next]_vars
  PROVE  IInv'
  BY TypeStep, SessionsKnownStep, SlotsHoldMembersStep, RoomsAreEmptiedStep,
     UnheardStep, StreamsGoOnStep, RoomsInTurnStep DEF IInv

(* Whoever is in a slot of a room (Room.peers) is a member of it, at the   *)
(* position it holds itself to have, and a room that everybody has left    *)
(* has no slots: for any number of peers, battles and rooms.               *)
THEOREM RoomsAreSound == Spec => []RoomsSound
<1>1. IInv => RoomsSound
  BY DEF IInv, RoomsSound
<1> QED
  BY InitHolds, StepHolds, <1>1, PTL DEF Spec

(* A member hears of another an unbroken run of its messages, up to the    *)
(* last while both hold a slot: Room.SendMessage skips nobody.             *)
THEOREM StreamsAreUnbroken == Spec => []StreamsUnbroken
<1>1. ASSUME IInv
      PROVE  StreamsUnbroken
  <2>0. StreamsGoOn /\ TypeOK
    BY <1>1 DEF IInv
  <2> SUFFICES ASSUME NEW p \in Peers, NEW q \in Peers, heard[q][p] # <<>>
               PROVE  /\ \A i \in 1 .. Len(heard[q][p]) - 1 :
                           heard[q][p][i + 1] = heard[q][p][i] + 1
                      /\ Holds(p) /\ Holds(q) => Last(heard[q][p]) = peer[p].seq
    BY DEF StreamsUnbroken
  <2>1. Holds(p) => at[p] = "joined"
    BY DEF Holds
  <2>2. Last(heard[q][p]) = heard[q][p][Len(heard[q][p])]
    BY DEF Last
  <2> QED BY <2>0, <2>1, <2>2 DEF StreamsGoOn, Unbroken
<1> QED
  BY InitHolds, StepHolds, <1>1, PTL DEF Spec

(* While the battles under way are fewer than MaxRoom apart, nobody is     *)
(* sent a message of another battle, although no room is ever asked for.   *)
THEOREM BattlesStayApart == Spec => []BattlesApart
<1>1. ASSUME IInv
      PROVE  BattlesApart
  <2>0. TypeOK /\ SlotsHoldMembers /\ RoomsInTurn /\ notified \in 0 .. Len(Users)
    BY <1>1, Typed DEF IInv
  <2> SUFFICES ASSUME \A b, c \in Battles : Underway(b) /\ Underway(c) => b < c + MaxRoom,
                      NEW p \in Peers, NEW q \in Recipients(p), at[p] = "joined"
               PROVE  peer[p].info.battle = peer[q].info.battle
    BY DEF BattlesApart
  <2>1. q \in Peers
    <3> DEFINE slots == rooms[peer[p].info.roomID]
    <3>1. slots \in Seq(Peers \cup {None})
      BY <2>0, Typed, PeerFields DEF Slots
    <3>2. \A i \in DOMAIN slots : slots[i] \in Peers \cup {None}
      BY <3>1
    <3> QED BY <3>2 DEF Recipients
  <2>2. at[q] = "joined" /\ peer[q].info.roomID = peer[p].info.roomID
    BY <2>0, <2>1, RecipientsAre DEF Holds
  <2> DEFINE b == peer[p].info.battle
             c == peer[q].info.battle
  <2>3. /\ b \in 1 .. notified /\ peer[p].info.roomID = (b - 1) % MaxRoom
        /\ c \in 1 .. notified /\ peer[q].info.roomID = (c - 1) % MaxRoom
    BY <2>0, <2>1, <2>2 DEF RoomsInTurn, InTurn
  <2>4. b \in Battles /\ c \in Battles /\ Underway(b) /\ Underway(c)
    BY <2>0, <2>1, <2>3, Constants DEF Battles, Underway
  <2>5. b < c + MaxRoom /\ c < b + MaxRoom
    BY <2>4
  <2> HIDE DEF b, c
  <2>6. b \in Nat /\ c \in Nat /\ b - 1 \in Nat /\ c - 1 \in Nat /\ MaxRoom \in Nat
    BY <2>0, <2>3, Constants
  <2>7. (b - 1) % MaxRoom = (c - 1) % MaxRoom
    BY <2>2, <2>3
  <2>8. ~ (b < c)
    <3> SUFFICES ASSUME b < c PROVE FALSE
      OBVIOUS
    <3>1. b - 1 < c - 1 /\ (c - 1) - (b - 1) < MaxRoom
      BY <2>5, <2>6
    <3> QED BY <3>1, <2>6, <2>7, ModApart, Constants
  <2>9. ~ (c < b)
    <3> SUFFICES ASSUME c < b PROVE FALSE
      OBVIOUS
    <3>1. c - 1 < b - 1 /\ (b - 1) - (c - 1) < MaxRoom
      BY <2>5, <2>6
    <3> QED BY <3>1, <2>6, <2>7, ModApart, Constants
  <2>10. b = c
    BY <2>6, <2>8, <2>9
  <2> QED BY <2>10 DEF b, c
<1> QED
  BY InitHolds, StepHolds, <1>1, PTL DEF Spec

-----------------------------------------------------------------------------
(* BattleRoute: what a PS2 hears of another.                               *)

(* The filter of p stands at what its PS2 was written last; zero stands    *)
(* for nothing, which is why a message has a number above zero.            *)
FilterAtLast ==
  \A p \in Players : \A q \in Others(p) :
    /\ written[p][q] \in Seq(Nat \ {0})
    /\ recvSeq[p][q] =
         IF written[p][q] = <<>> THEN 0 ELSE written[p][q][Len(written[p][q])]

(* The state as functions; who the filters are for.                        *)
RouteShape ==
  /\ ponged \in [Players -> SUBSET Players]
  /\ direct \in [Players -> SUBSET Players]
  /\ recvSeq = [r \in Players |-> recvSeq[r]]
  /\ written = [r \in Players |-> written[r]]
  /\ \A p \in Players : recvSeq[p] \in [Others(p) -> Nat]
  /\ \A p \in Players : written[p] \in [Others(p) -> Seq(Nat)]

RouteInv == RouteShape /\ FilterAtLast /\ HeardRight

(* The parts of the invariant an action keeps that writes nothing to a PS2. *)
LEMMA UnheardKeeps ==
  ASSUME RouteInv, UNCHANGED earVars,
         ponged' \in [Players -> SUBSET Players],
         direct' \in [Players -> SUBSET Players],
         RouteTypeOK'
  PROVE  RouteInv'
BY DEF RouteInv, RouteShape, FilterAtLast, HeardRight, HeardInOrder, earVars

(* The parts that speak of the lobby and the paths, when they do not change. *)
LEMMA UnmovedKeeps ==
  ASSUME RouteTypeOK, RouteShape, UNCHANGED lobbyVars,
         phase' \in [Players -> {"poll", "greet", "battle", "test", "over"}],
         member' \in [Players -> {"none", "peer", "joined", "left"}],
         sent' \in [Players -> 0 .. MaxData], up' \in [Players -> 0 .. MaxData],
         \A p \in Players : up'[p] <= sent'[p]
  PROVE  /\ RouteTypeOK'
         /\ ponged' \in [Players -> SUBSET Players]
         /\ direct' \in [Players -> SUBSET Players]
BY DEF RouteTypeOK, RouteShape, lobbyVars

(* The filter takes the first message, or the one after the last written. *)
LEMMA HearKeeps ==
  ASSUME RouteInv, NEW p \in Players, NEW q \in Others(p), NEW n \in Nat \ {0},
         Hear(p, q, n)
  PROVE  /\ recvSeq' = [r \in Players |-> recvSeq'[r]]
         /\ written' = [r \in Players |-> written'[r]]
         /\ \A r \in Players : recvSeq'[r] \in [Others(r) -> Nat]
         /\ \A r \in Players : written'[r] \in [Others(r) -> Seq(Nat)]
         /\ FilterAtLast'
         /\ HeardInOrder'
<1>1. CASE ~Accepts(p, q, n)
  BY <1>1 DEF Hear, earVars, RouteInv, RouteShape, FilterAtLast, HeardRight, HeardInOrder
<1>2. CASE Accepts(p, q, n)
  <2> DEFINE old == written[p][q]
             new == Append(old, n)
  <2>1. /\ recvSeq' = [recvSeq EXCEPT ![p][q] = n]
        /\ written' = [written EXCEPT ![p][q] = new]
    BY <1>2 DEF Hear
  <2>2. /\ old \in Seq(Nat \ {0}) /\ Len(old) \in Nat
        /\ recvSeq[p][q] = IF old = <<>> THEN 0 ELSE old[Len(old)]
    BY DEF RouteInv, FilterAtLast
  <2>3. /\ new \in Seq(Nat \ {0}) /\ Len(new) = Len(old) + 1 /\ new[Len(new)] = n
        /\ \A i \in 1 .. Len(old) : new[i] = old[i]
        /\ new # <<>> /\ new \in Seq(Nat)
    BY <2>2
  <2>4. \A i \in 1 .. Len(new) : new[i] = new[1] + i - 1
    <3>1. CASE old = <<>>
      BY <2>2, <2>3, <3>1
    <3>2. CASE old # <<>>
      <4>1. Len(old) >= 1 /\ old[Len(old)] \in Nat \ {0}
        BY <2>2, <3>2
      <4>2. n = old[Len(old)] + 1
        BY <1>2, <2>2, <3>2, <4>1 DEF Accepts
      <4>3. \A i \in 1 .. Len(old) : old[i] = old[1] + i - 1
        BY DEF RouteInv, HeardRight, HeardInOrder
      <4>4. new[1] = old[1] /\ old[1] \in Nat
        BY <2>2, <2>3, <4>1
      <4> HIDE DEF old, new
      <4>5. SUFFICES ASSUME NEW i \in 1 .. Len(new)  PROVE new[i] = new[1] + i - 1
        OBVIOUS
      <4>6. CASE i \in 1 .. Len(old)
        BY <2>3, <4>3, <4>4, <4>6
      <4>7. CASE i = Len(new)
        <5>1. old[Len(old)] = old[1] + Len(old) - 1
          BY <2>2, <4>1, <4>3
        <5> QED BY <2>2, <2>3, <4>1, <4>2, <4>4, <4>7, <5>1
      <4> QED BY <2>2, <2>3, <4>6, <4>7
    <3> QED BY <3>1, <3>2
  <2>5. /\ recvSeq = [r \in Players |-> recvSeq[r]]
        /\ written = [r \in Players |-> written[r]]
        /\ \A r \in Players : recvSeq[r] \in [Others(r) -> Nat]
        /\ \A r \in Players : written[r] \in [Others(r) -> Seq(Nat)]
        /\ \A r \in Players : Others(r) \in SUBSET Players
    BY DEF RouteInv, RouteShape, Others
  <2> HIDE DEF old, new
  <2>6. \A r \in Players : \A s \in Others(r) :
          /\ recvSeq'[r][s] = IF r = p /\ s = q THEN n ELSE recvSeq[r][s]
          /\ written'[r][s] = IF r = p /\ s = q THEN new ELSE written[r][s]
    BY <2>1, <2>5
  <2>7. /\ \A r \in Players : recvSeq'[r] \in [Others(r) -> Nat]
        /\ \A r \in Players : written'[r] \in [Others(r) -> Seq(Nat)]
    BY <2>1, <2>3, <2>5
  <2>8. /\ recvSeq' = [r \in Players |-> recvSeq'[r]]
        /\ written' = [r \in Players |-> written'[r]]
    BY <2>1, <2>5
  <2>9. FilterAtLast'
    BY <2>2, <2>3, <2>6 DEF RouteInv, FilterAtLast
  <2>10. HeardInOrder'
    BY <2>4, <2>6 DEF RouteInv, HeardRight, HeardInOrder
  <2> QED BY <2>7, <2>8, <2>9, <2>10
<1> QED BY <1>1, <1>2

(* A presented message that is heard, or dropped, keeps the invariant. *)
LEMMA PresentsKeeps ==
  ASSUME RouteInv, NEW p \in Players, NEW q \in Others(p), PathPresents(p, q)
  PROVE  RouteInv'
<1>1. PICK n \in 1 .. MaxData : ServerPresents(p, q, n) \/ DirectPresents(p, q, n)
  BY DEF PathPresents
<1>2. n \in Nat \ {0} /\ Hear(p, q, n) /\ UNCHANGED <<phase, lobbyVars, sent, member, up>>
  BY <1>1, RouteAssumption DEF ServerPresents, DirectPresents
<1>3. RouteTypeOK' /\ UNCHANGED <<ponged, direct>>
  BY <1>2 DEF lobbyVars, RouteInv, HeardRight, RouteTypeOK
<1>4. QED
  BY <1>2, <1>3, HearKeeps DEF RouteInv, RouteShape, HeardRight

(* It holds at first: nothing is known, sent or heard. *)
LEMMA RouteInitially == RouteInit => RouteInv
<1> SUFFICES ASSUME RouteInit PROVE RouteInv
  OBVIOUS
<1>1. RouteTypeOK
  BY RouteAssumption DEF RouteInit, RouteTypeOK
<1>2. \A p \in Players : Others(p) \in SUBSET Players
  BY DEF Others
<1>3. \A p \in Players : /\ recvSeq[p] = [q \in Others(p) |-> 0]
                         /\ written[p] = [q \in Others(p) |-> <<>>]
  BY DEF RouteInit, Every
<1>4. RouteShape
  <2>1. \A p \in Players : recvSeq[p] \in [Others(p) -> Nat]
                             /\ written[p] \in [Others(p) -> Seq(Nat)]
    <3>1. <<>> \in Seq(Nat) /\ 0 \in Nat
      OBVIOUS
    <3> QED BY <1>3, <3>1
  <2> QED BY <1>2, <2>1 DEF RouteInit, RouteShape, Every
<1>5. FilterAtLast /\ HeardInOrder
  <2>1. /\ <<>> \in Seq(Nat \ {0}) /\ Len(<<>>) = 0
    OBVIOUS
  <2>2. \A p \in Players : \A q \in Others(p) : written[p][q] = <<>> /\ recvSeq[p][q] = 0
    BY <1>3
  <2>3. FilterAtLast
    BY <2>1, <2>2 DEF FilterAtLast
  <2>4. HeardInOrder
    BY <2>1, <2>2 DEF HeardInOrder
  <2> QED BY <2>3, <2>4
<1> QED BY <1>1, <1>4, <1>5 DEF RouteInv, HeardRight

(* Every step keeps it. *)
LEMMA RouteStep == RouteInv /\ [RouteNext]_routeVars => RouteInv'
<1> SUFFICES ASSUME RouteInv, [RouteNext]_routeVars PROVE RouteInv'
  OBVIOUS
<1>0. RouteTypeOK /\ RouteShape
  BY DEF RouteInv, HeardRight
<1>1. CASE UNCHANGED routeVars
  BY <1>0, <1>1, UnmovedKeeps, UnheardKeeps
     DEF routeVars, lobbyVars, pathVars, RouteTypeOK
<1>2. CASE RouteNext
  <2>1. PICK p \in Players :
          \/ Poll(p) \/ Greet(p) \/ PS2Data(p) \/ ServerReads(p) \/ End(p)
          \/ \E q \in Others(p) : PathPresents(p, q)
    BY <1>2 DEF RouteNext
  <2>2. CASE Register(p) \/ PrepareTest(p) \/ PollFails(p)
    <3>1. RouteTypeOK' /\ UNCHANGED <<ponged, direct, earVars>>
      BY <1>0, <2>2 DEF Register, PrepareTest, PollFails, Goes, RouteTypeOK, lobbyVars,
         pathVars
    <3> QED BY <1>0, <3>1, UnheardKeeps DEF RouteShape
  <2>3. CASE PrepareBattle(p)
    <3>1. PICK fresh \in SUBSET ponged[p] : direct' = [direct EXCEPT ![p] = fresh]
      BY <2>3 DEF PrepareBattle
    <3>2. direct' \in [Players -> SUBSET Players] /\ UNCHANGED <<ponged, earVars>>
      BY <1>0, <2>3, <3>1 DEF PrepareBattle, RouteShape
    <3>3. RouteTypeOK'
      <4>1. \A r \in Players : direct'[r] \subseteq ponged'[r] /\ ponged'[r] \subseteq Others(r)
        BY <1>0, <3>1, <3>2 DEF RouteShape, RouteTypeOK
      <4>2. phase' \in [Players -> {"poll", "greet", "battle", "test", "over"}]
        BY <1>0, <2>3 DEF PrepareBattle, Goes, RouteTypeOK
      <4> QED BY <1>0, <2>3, <4>1, <4>2 DEF PrepareBattle, RouteTypeOK, pathVars
    <3> QED BY <1>0, <3>2, <3>3, UnheardKeeps DEF RouteShape
  <2>4. CASE Reset(p)
    <3>1. /\ ponged' = [ponged EXCEPT ![p] = {}] /\ direct' = [direct EXCEPT ![p] = {}]
          /\ session' = [session EXCEPT ![p] = FALSE] /\ phase' = [phase EXCEPT ![p] = "poll"]
          /\ UNCHANGED <<sent, member, up, earVars>>
      BY <2>4 DEF Reset, Goes, pathVars
    <3>2. ponged' \in [Players -> SUBSET Players] /\ direct' \in [Players -> SUBSET Players]
      BY <1>0, <3>1 DEF RouteShape
    <3>3. RouteTypeOK'
      BY <1>0, <3>1 DEF RouteShape, RouteTypeOK
    <3> QED BY <3>1, <3>2, <3>3, UnheardKeeps
  <2>5. CASE \E q \in Others(p) : Pong(p, q)
    <3>1. PICK q \in Others(p) : Pong(p, q)
      BY <2>5
    <3>2. /\ ponged' = [ponged EXCEPT ![p] = @ \cup {q}] /\ q \in Players
          /\ UNCHANGED <<phase, session, direct, sent, member, up, earVars>>
      BY <3>1 DEF Pong, pathVars, Others
    <3>3. ponged' \in [Players -> SUBSET Players]
      BY <1>0, <3>2 DEF RouteShape
    <3>4. RouteTypeOK'
      <4>1. \A r \in Players : direct'[r] \subseteq ponged'[r] /\ ponged'[r] \subseteq Others(r)
        BY <1>0, <3>2 DEF RouteShape, RouteTypeOK
      <4> QED BY <1>0, <3>2, <4>1 DEF RouteTypeOK
    <3> QED BY <1>0, <3>2, <3>3, <3>4, UnheardKeeps DEF RouteShape
  <2>6. CASE Greet(p) \/ PS2Data(p) \/ ServerReads(p) \/ End(p)
    <3>1. /\ UNCHANGED <<lobbyVars, earVars>>
          /\ phase' \in [Players -> {"poll", "greet", "battle", "test", "over"}]
          /\ member' \in [Players -> {"none", "peer", "joined", "left"}]
      BY <1>0, <2>6 DEF Greet, HelloArrives, Greeted, GreetFails, PS2Data, ServerReads,
         TakeJoin, RefuseJoin, Take, Leave, End, Goes, RouteTypeOK, lobbyVars
    <3>2. /\ sent' \in [Players -> 0 .. MaxData] /\ up' \in [Players -> 0 .. MaxData]
          /\ \A r \in Players : up'[r] <= sent'[r]
      <4>1. CASE Greet(p) \/ RefuseJoin(p) \/ Leave(p) \/ End(p)
        BY <1>0, <4>1 DEF Greet, HelloArrives, Greeted, GreetFails, RefuseJoin, Leave, End,
           RouteTypeOK, pathVars
      <4>2. CASE PS2Data(p)
        BY <1>0, <4>2, RouteAssumption DEF PS2Data, RouteTypeOK, pathVars
      <4>3. CASE TakeJoin(p)
        BY <1>0, <4>3, RouteAssumption DEF TakeJoin, RouteTypeOK, Join
      <4>4. CASE Take(p)
        BY <1>0, <4>4, RouteAssumption DEF Take, RouteTypeOK
      <4> QED BY <2>6, <4>1, <4>2, <4>3, <4>4 DEF ServerReads
    <3> QED BY <1>0, <3>1, <3>2, UnmovedKeeps, UnheardKeeps
  <2>7. CASE \E q \in Others(p) : PathPresents(p, q)
    BY <2>7, PresentsKeeps
  <2> QED BY <2>1, <2>2, <2>3, <2>4, <2>5, <2>6, <2>7 DEF Poll
<1> QED BY <1>1, <1>2

(* HeardRight.  Whatever is lost, repeated or late on the two paths, and   *)
(* whenever players join, leave or start over: a PS2 is written a run of   *)
(* another's messages, each once and none left out after the first.        *)
THEOREM PlayersHearInOrder == RouteSpec => []HeardRight
<1>1. RouteInv => HeardRight
  BY DEF RouteInv
<1> QED BY <1>1, RouteInitially, RouteStep, PTL DEF RouteSpec

-----------------------------------------------------------------------------
(* The scanner (FinScanner).  What a recursive function is, is found in    *)
(* two steps: some function is what its definition says; and what holds of *)
(* its first values holds of all, or there were a least for which it does  *)
(* not.                                                                    *)

(* A non-empty set of natural numbers has a least element. *)
LEMMA LeastOf ==
  ASSUME NEW T \in SUBSET Nat, T # {}
  PROVE  \E n \in T : \A m \in T : n <= m
<1> DEFINE R == OpToRel(<, Nat)
<1>1. IsWellFoundedOn(R, Nat)
  BY NatLessThanWellFounded
<1>2. \E n \in T : \A m \in T : ~ (<<m, n>> \in R)
  <2> HIDE DEF R
  <2> QED BY <1>1, WFMin
<1>3. R = {ss \in Nat \X Nat : ss[1] < ss[2]}
  BY Zenon DEF OpToRel
<1> HIDE DEF R
<1>4. \A n, m \in T : m < n => <<m, n>> \in R
  BY <1>3
<1>5. PICK n \in T : \A m \in T : ~ (<<m, n>> \in R)
  BY <1>2
<1>6. \A m \in T : ~ (m < n)
  BY <1>4, <1>5
<1>7. \A m \in T : n <= m
  BY <1>6
<1> QED  BY <1>7

(* A bounded one has a greatest. *)
LEMMA GreatestOf ==
  ASSUME NEW n \in Nat, NEW T \in SUBSET (0 .. n), T # {}
  PROVE  Max(T) \in T /\ \A m \in T : Max(T) >= m
<1> DEFINE D == {n - m : m \in T}
<1>1. D \in SUBSET Nat /\ D # {}
  <2>1. \A m \in T : m \in 0 .. n /\ n - m \in Nat
    OBVIOUS
  <2> QED  BY <2>1
<1>2. PICK d \in D : \A e \in D : d <= e
  <2> HIDE DEF D
  <2> QED  BY <1>1, LeastOf
<1>3. PICK x \in T : d = n - x
  BY <1>2
<1>4. \A m \in T : x >= m
  BY <1>2, <1>3
<1> QED  BY <1>4 DEF Max

(* The scanner from s on, after a read and byte by byte. *)
Read(s, data) == FoldLeft(Framed, s, data)
Run(s, data, run) ==
  /\ run[0] = s
  /\ \A i \in 1 .. Len(data) : run[i] = Framed(run[i - 1], data[i])

(* What a fold over data takes of the indices S, and the folds g[S] over   *)
(* subsets of n indices.                                                   *)
Fold(s, data, S, g) == IF S = {} THEN s ELSE Framed(g[S \ {Max(S)}], data[Max(S)])
Folds(s, data, g) ==
  g = [S \in SUBSET DOMAIN data |->
         IF S = {} THEN s ELSE Framed(g[S \ {Max(S)}], data[Max(S)])]

(* A fold is one of those, if there are any. *)
LEMMA FoldIs ==
  ASSUME NEW s, NEW data, \E g : Folds(s, data, g)
  PROVE  \E g : Folds(s, data, g) /\ FoldLeft(Framed, s, data) = g[DOMAIN data]
<1> DEFINE iter[S \in SUBSET DOMAIN data] ==
        IF S = {} THEN s
        ELSE LET x == Max(S)
             IN  Framed(iter[S \ {x}], data[x])
<1>1. FoldLeft(Framed, s, data) = iter[DOMAIN data]
  BY Zenon DEF FoldLeft, MapThenFoldSet
<1>2. iter = CHOOSE g : Folds(s, data, g)
  BY Zenon DEF Folds
<1> HIDE DEF iter
<1>3. Folds(s, data, iter)
  BY <1>2
<1> QED  BY <1>1, <1>3

(* There are such folds. *)
LEMMA FoldDefined ==
  ASSUME NEW s, NEW n \in Nat, NEW data, DOMAIN data = 1 .. n
  PROVE  \E g : Folds(s, data, g)
<1> DEFINE I == 1 .. n
           Defined(m, g) == \A S \in SUBSET I : Cardinality(S) <= m => g[S] = Fold(s, data, S, g)
           T == {m \in Nat : ~ \E g : Defined(m, g)}
<1>0. IsFiniteSet(I) /\ Cardinality(I) \in Nat
  BY FS_Interval, FS_CardinalityType
<1>1. \A S \in SUBSET I : /\ IsFiniteSet(S) /\ Cardinality(S) \in Nat /\ (Cardinality(S) = 0 <=> S = {})
                          /\ Cardinality(S) <= Cardinality(I)
  BY <1>0, FS_Subset, FS_CardinalityType, FS_EmptySet
<1>2. ASSUME NEW S \in SUBSET I, S # {}
      PROVE  /\ Max(S) \in S /\ S \ {Max(S)} \in SUBSET I
             /\ Cardinality(S \ {Max(S)}) = Cardinality(S) - 1
  <2>1. S \in SUBSET (0 .. n)
    OBVIOUS
  <2>2. Max(S) \in S
    BY <1>2, <2>1, GreatestOf
  <2> QED  BY <1>1, <2>2, FS_RemoveElement
<1>3. T = {}
  <2> SUFFICES ASSUME T # {}  PROVE FALSE
    OBVIOUS
  <2>1. PICK m \in T : \A k \in T : m <= k
    BY LeastOf
  <2>2. CASE m = 0
    <3> DEFINE g == [S \in SUBSET I |-> s]
    <3>1. Defined(0, g)
      BY <1>1 DEF Fold
    <3> QED  BY <2>1, <2>2, <3>1
  <2>3. CASE m # 0
    <3>1. m - 1 \in Nat /\ m - 1 \notin T
      <4>1. m \in Nat /\ m - 1 \in Nat /\ ~ (m <= m - 1)
        BY <2>3
      <4> HIDE DEF T
      <4> QED  BY <2>1, <4>1
    <3>2. PICK g : Defined(m - 1, g)
      BY <3>1
    <3> DEFINE h == [S \in SUBSET I |-> IF Cardinality(S) <= m - 1 THEN g[S] ELSE Fold(s, data, S, g)]
    <3>3. ASSUME NEW S \in SUBSET I, Cardinality(S) <= m  PROVE h[S] = Fold(s, data, S, h)
      <4>1. h[S] = Fold(s, data, S, g)
        BY <3>2
      <4>2. ASSUME S # {}  PROVE h[S \ {Max(S)}] = g[S \ {Max(S)}]
        <5> DEFINE S1 == S \ {Max(S)}
        <5>1. S1 \in SUBSET I /\ Cardinality(S1) = Cardinality(S) - 1
          BY <1>2, <4>2
        <5>2. Cardinality(S1) <= m - 1
          BY <1>1, <2>1, <3>3, <5>1
        <5> HIDE DEF S1
        <5>3. h[S1] = g[S1]
          BY <5>1, <5>2
        <5> QED  BY <5>3 DEF S1
      <4> QED  BY <4>1, <4>2 DEF Fold
    <3>4. Defined(m, h)
      BY <3>3
    <3> QED  BY <2>1, <3>4
  <2> QED  BY <2>2, <2>3
<1>5. PICK g : Defined(Cardinality(I), g)
  BY <1>0, <1>3
<1> DEFINE h == [S \in SUBSET I |-> g[S]]
<1>6. ASSUME NEW S \in SUBSET I  PROVE h[S] = Fold(s, data, S, h)
  <2>1. h[S] = Fold(s, data, S, g)
    BY <1>1, <1>5
  <2>2. S # {} => h[S \ {Max(S)}] = g[S \ {Max(S)}]
    BY <1>2
  <2> QED  BY <2>1, <2>2 DEF Fold
<1>7. h = [S \in SUBSET DOMAIN data |->
             IF S = {} THEN s ELSE Framed(h[S \ {Max(S)}], data[Max(S)])]
  BY <1>6 DEF Fold
<1> QED  BY <1>7 DEF Folds

(* A fold over a read is a run over its bytes. *)
LEMMA FoldRuns ==
  ASSUME NEW s, NEW n \in Nat, NEW data, DOMAIN data = 1 .. n, Len(data) = n
  PROVE  \E run : Run(s, data, run) /\ Read(s, data) = run[n]
<1>1. PICK g : Folds(s, data, g) /\ Read(s, data) = g[1 .. n]
  BY FoldDefined, FoldIs DEF Read
<1> DEFINE run == [i \in 0 .. n |-> g[1 .. i]]
<1>2. run[0] = s
  <2>1. 1 .. 0 = {} /\ {} \in SUBSET (1 .. n)
    OBVIOUS
  <2>2. g[{}] = s
    BY <1>1, <2>1 DEF Folds
  <2> QED  BY <2>1, <2>2
<1>3. ASSUME NEW i \in 1 .. n  PROVE run[i] = Framed(run[i - 1], data[i])
  <2>1. 1 .. i \in SUBSET (1 .. n) /\ 1 .. i # {} /\ i \in 1 .. i
    OBVIOUS
  <2>2. Max(1 .. i) = i
    <3>1. 1 .. i \in SUBSET (0 .. n)
      OBVIOUS
    <3>2. Max(1 .. i) \in 1 .. i /\ \A m \in 1 .. i : Max(1 .. i) >= m
      BY <2>1, <3>1, GreatestOf
    <3> QED  BY <2>1, <3>2
  <2>3. (1 .. i) \ {i} = 1 .. (i - 1)
    OBVIOUS
  <2>4. g[1 .. i] = Framed(g[(1 .. i) \ {Max(1 .. i)}], data[Max(1 .. i)])
    BY <1>1, <2>1 DEF Folds
  <2>5. g[1 .. i] = Framed(g[1 .. (i - 1)], data[i])
    BY <2>2, <2>3, <2>4
  <2> QED  BY <2>5
<1>4. Run(s, data, run)
  <2> HIDE DEF run
  <2> QED  BY <1>2, <1>3 DEF Run
<1>5. run[n] = g[1 .. n]
  OBVIOUS
<1> QED  BY <1>1, <1>4, <1>5

(* A stream without its join. *)
Streams == [1 .. MaxBytes -> Bytes]

(* Its length, and its bytes. *)
LEMMA StreamIs ==
  ASSUME NEW stream \in Streams
  PROVE  /\ MaxBytes \in Nat /\ MaxBytes > 0 /\ Len(stream) = MaxBytes
         /\ \A i \in 1 .. MaxBytes : stream[i] \in Nat /\ (stream[i] # 0 => stream[i] > 0)
<1>1. MaxBytes \in Nat /\ MaxBytes > 0 /\ Bytes \subseteq Nat
  BY FinAssumption
<1>2. stream \in Seq(Bytes)
  BY <1>1, SeqDef DEF Streams
<1>3. Len(stream) = MaxBytes
  BY <1>1, <1>2 DEF Streams
<1>4. \A i \in 1 .. MaxBytes : stream[i] \in Bytes
  BY DEF Streams
<1>5. \A b \in Bytes : b \in Nat /\ (b # 0 => b > 0)
  BY <1>1
<1> QED  BY <1>1, <1>3, <1>4, <1>5

(* A frame begins at i: first of all, or behind one that begins in B. *)
BeginsAt(stream, B, i) == i = 1 \/ \E j \in B : stream[j] # 0 /\ j + stream[j] = i

(* The functions that are as the one Begins is defined by. *)
Begun(stream, g) ==
  g = [i \in 1 .. Len(stream) |->
         i = 1 \/ \E j \in 1 .. i - 1 : g[j] /\ stream[j] # 0 /\ j + stream[j] = i]
(* Begins is what such a function says, if there is one. *)
LEMMA BeginsIs ==
  ASSUME NEW stream, \E g : Begun(stream, g)
  PROVE  \E g : Begun(stream, g) /\ Begins(stream) = {i \in 1 .. Len(stream) : g[i]}
<1> DEFINE begins[i \in 1 .. Len(stream)] ==
        i = 1 \/ \E j \in 1 .. i - 1 : begins[j] /\ stream[j] # 0 /\ j + stream[j] = i
<1>1. Begins(stream) = {i \in 1 .. Len(stream) : begins[i]}
  BY Zenon DEF Begins
<1>2. begins = CHOOSE g : Begun(stream, g)
  BY Zenon DEF Begun
<1> HIDE DEF begins
<1>3. Begun(stream, begins)
  BY <1>2
<1> QED  BY <1>1, <1>3

(* Frames begin in the least set of positions that is closed.              *)
LEMMA BeginsDefined ==
  ASSUME NEW stream \in Streams
  PROVE  \E g : Begun(stream, g)
<1> DEFINE I == 1 .. MaxBytes
           Closed(S) == \A i \in I : BeginsAt(stream, S, i) => i \in S
           B == {i \in I : \A S \in SUBSET I : Closed(S) => i \in S}
           g == [i \in I |-> i \in B]
<1>1. /\ MaxBytes \in Nat /\ MaxBytes > 0 /\ Len(stream) = MaxBytes
      /\ \A i \in I : stream[i] \in Nat /\ (stream[i] # 0 => stream[i] > 0)
  BY StreamIs
<1>2. ASSUME NEW i \in I, BeginsAt(stream, B, i)  PROVE i \in B
  BY <1>2 DEF BeginsAt
<1>3. ASSUME NEW i \in B  PROVE BeginsAt(stream, B, i)
  <2> SUFFICES ASSUME ~ BeginsAt(stream, B, i)  PROVE FALSE
    OBVIOUS
  <2> DEFINE S == B \ {i}
  <2>1. ASSUME NEW k \in I, BeginsAt(stream, S, k)  PROVE k \in S
    <3>1. BeginsAt(stream, B, k)
      BY <2>1 DEF BeginsAt
    <3>2. k \in B
      <4> HIDE DEF B
      <4> QED  BY <1>2, <3>1
    <3>3. k # i
      BY <3>1
    <3> QED  BY <3>2, <3>3
  <2>2. S \in SUBSET I /\ Closed(S)
    BY <2>1
  <2>3. i \in S
    BY <2>2
  <2> QED  BY <2>3
<1>4. B \subseteq I
  OBVIOUS
<1> HIDE DEF B
<1>5. ASSUME NEW i \in I
      PROVE  (i \in B) <=> (i = 1 \/ \E j \in 1 .. i - 1 : g[j] /\ stream[j] # 0 /\ j + stream[j] = i)
  <2>1. ASSUME NEW j \in B, stream[j] # 0, j + stream[j] = i
        PROVE  j \in 1 .. i - 1 /\ g[j]
    <3>1. j \in I /\ g[j]
      BY <1>4
    <3>2. j \in Nat /\ stream[j] \in Nat /\ stream[j] > 0 /\ j >= 1
      BY <1>1, <2>1, <3>1
    <3>3. i \in Nat /\ j < i
      BY <1>1, <2>1, <3>2
    <3> QED  BY <3>1, <3>2, <3>3
  <2>2. ASSUME NEW j \in 1 .. i - 1, g[j]  PROVE j \in B
    <3>1. j \in I
      BY <1>1
    <3> QED  BY <2>2, <3>1
  <2>3. (i \in B) <=> BeginsAt(stream, B, i)
    BY <1>2, <1>3
  <2> QED  BY <2>1, <2>2, <2>3 DEF BeginsAt
<1>6. g = [i \in I |-> (i = 1 \/ \E j \in 1 .. i - 1 : g[j] /\ stream[j] # 0 /\ j + stream[j] = i)]
  <2>1. ASSUME NEW i \in I
        PROVE  (i \in B) = (i = 1 \/ \E j \in 1 .. i - 1 : g[j] /\ stream[j] # 0 /\ j + stream[j] = i)
    <3> HIDE DEF g, I
    <3>1. (i \in B) <=> (i = 1 \/ \E j \in 1 .. i - 1 : g[j] /\ stream[j] # 0 /\ j + stream[j] = i)
      BY <1>5, Zenon
    <3> QED  BY <3>1
  <2>2. DOMAIN g = I /\ \A i \in I : g[i] = (i \in B)
    OBVIOUS
  <2>3. g = [i \in I |-> g[i]]
    OBVIOUS
  <2> HIDE DEF g, I
  <2>4. \A i \in I : g[i] = (i = 1 \/ \E j \in 1 .. i - 1 : g[j] /\ stream[j] # 0 /\ j + stream[j] = i)
    BY <2>1, <2>2, Zenon
  <2> QED  BY <2>3, <2>4, Zenon
<1>7. Begun(stream, g)
  <2> HIDE DEF g
  <2> QED  BY <1>1, <1>6 DEF Begun
<1> QED  BY <1>7

(* Frames begin where they should, and nowhere else. *)
LEMMA BeginsAre ==
  ASSUME NEW stream \in Streams
  PROVE  /\ Begins(stream) \subseteq 1 .. MaxBytes
         /\ \A i \in 1 .. MaxBytes : i \in Begins(stream) <=> BeginsAt(stream, Begins(stream), i)
<1> DEFINE B == Begins(stream)
<1>1. PICK g : Begun(stream, g) /\ B = {i \in 1 .. Len(stream) : g[i]}
  BY BeginsDefined, BeginsIs
<1>2. /\ MaxBytes \in Nat /\ Len(stream) = MaxBytes
      /\ \A i \in 1 .. MaxBytes : stream[i] \in Nat /\ (stream[i] # 0 => stream[i] > 0)
  BY StreamIs
<1>3. B \subseteq 1 .. MaxBytes /\ \A i \in 1 .. MaxBytes : i \in B <=> g[i]
  BY <1>1, <1>2
<1> HIDE DEF B
<1>4. ASSUME NEW i \in 1 .. MaxBytes  PROVE i \in B <=> BeginsAt(stream, B, i)
  <2>1. g[i] <=> (i = 1 \/ \E j \in 1 .. i - 1 : g[j] /\ stream[j] # 0 /\ j + stream[j] = i)
    BY <1>1, <1>2, Zenon DEF Begun
  <2>2. \A j \in 1 .. i - 1 : j \in 1 .. MaxBytes
    BY <1>2
  <2>3. \A j \in B : stream[j] # 0 /\ j + stream[j] = i => j \in 1 .. i - 1
    BY <1>2, <1>3
  <2> QED  BY <1>3, <2>1, <2>2, <2>3 DEF BeginsAt
<1> QED  BY <1>3, <1>4 DEF B

(* Frames do not overlap: the next begins behind the last byte of the one  *)
(* before; and there is none behind one of size zero.                      *)
LEMMA NoOverlap ==
  ASSUME NEW stream \in Streams, NEW j \in Begins(stream),
         NEW i \in Nat, BeginsAt(stream, Begins(stream), i), j < i
  PROVE  stream[j] # 0 /\ i >= j + stream[j]
<1> DEFINE B == Begins(stream)
           Wrong(k) == \E h \in B : h < k /\ ~ (stream[h] # 0 /\ k >= h + stream[h])
           T == {k \in Nat : BeginsAt(stream, B, k) /\ Wrong(k)}
<1>1. /\ B \subseteq 1 .. MaxBytes /\ MaxBytes \in Nat
      /\ \A k \in 1 .. MaxBytes : k \in B <=> BeginsAt(stream, B, k)
      /\ \A k \in 1 .. MaxBytes : stream[k] \in Nat /\ (stream[k] # 0 => stream[k] > 0)
  BY BeginsAre, StreamIs
<1> HIDE DEF B
<1>2. T = {}
  <2> SUFFICES ASSUME T # {}  PROVE FALSE
    OBVIOUS
  <2>1. PICK k \in T : \A m \in T : k <= m
    <3>1. T \in SUBSET Nat
      OBVIOUS
    <3> HIDE DEF T
    <3> QED  BY <3>1, LeastOf
  <2>2. PICK h \in B : h < k /\ ~ (stream[h] # 0 /\ k >= h + stream[h])
    BY <2>1
  <2>3. k # 1
    BY <1>1, <2>2
  <2>4. PICK p \in B : stream[p] # 0 /\ p + stream[p] = k
    BY <2>1, <2>3 DEF BeginsAt
  <2>5. /\ h \in Nat /\ p \in Nat /\ p < k /\ h # p /\ stream[p] \in Nat /\ stream[h] \in Nat
        /\ BeginsAt(stream, B, p) /\ BeginsAt(stream, B, h) /\ p \notin T /\ h \notin T
    <3>1. /\ h \in Nat /\ p \in Nat /\ p < k /\ h # p /\ stream[p] \in Nat /\ stream[h] \in Nat
          /\ BeginsAt(stream, B, p) /\ BeginsAt(stream, B, h)
      BY <1>1, <2>2, <2>4
    <3>2. k \in Nat /\ \A m \in T : k <= m
      BY <2>1
    <3> HIDE DEF T
    <3> QED  BY <3>1, <3>2, <2>2
  <2>6. ~ Wrong(p) /\ ~ Wrong(h)
    BY <2>5
  <2>7. CASE h < p
    <3>1. stream[h] # 0 /\ p >= h + stream[h]
      BY <2>6, <2>7
    <3> QED  BY <2>2, <2>5, <3>1
  <2>8. CASE p < h
    <3>1. h >= p + stream[p]
      BY <2>6, <2>8
    <3> QED  BY <2>2, <2>4, <2>5, <3>1
  <2> QED  BY <2>5, <2>7, <2>8
<1>3. ~ Wrong(i)
  BY <1>2 DEF B
<1> QED  BY <1>3 DEF B

(* A part of a stream, and with one more byte. *)
LEMMA Parts ==
  ASSUME NEW stream \in Streams, NEW i \in Nat, i + 1 <= MaxBytes, NEW b \in 1 .. i + 1
  PROVE  /\ SubSeq(stream, b, i) \in Seq(Bytes)
         /\ SubSeq(stream, b, i) = <<>> <=> b = i + 1
         /\ Append(SubSeq(stream, b, i), stream[i + 1]) = SubSeq(stream, b, i + 1)
         /\ SubSeq(stream, b, i + 1) \in Seq(Bytes)
         /\ Len(SubSeq(stream, b, i + 1)) = i - b + 2
         /\ SubSeq(stream, b, i + 1)[1] = stream[b]
<1>1. MaxBytes \in Nat /\ stream \in Seq(Bytes) /\ Len(stream) = MaxBytes
  <2>1. stream \in Seq(Bytes)
    BY StreamIs, SeqDef DEF Streams
  <2> QED  BY <2>1, StreamIs
<1>2. /\ SubSeq(stream, b, i) \in Seq(Bytes)
      /\ Len(SubSeq(stream, b, i)) = i - b + 1
      /\ \A k \in 1 .. i - b + 1 : SubSeq(stream, b, i)[k] = stream[b + k - 1]
  BY <1>1, SubSeqProperties
<1>3. /\ SubSeq(stream, b, i + 1) \in Seq(Bytes)
      /\ Len(SubSeq(stream, b, i + 1)) = i - b + 2
      /\ \A k \in 1 .. i - b + 2 : SubSeq(stream, b, i + 1)[k] = stream[b + k - 1]
  BY <1>1, SubSeqProperties
<1>4. SubSeq(stream, b, i) = <<>> <=> b = i + 1
  <2> DEFINE x == SubSeq(stream, b, i)
  <2> HIDE DEF x
  <2>1. x \in Seq(Bytes) /\ Len(x) = i - b + 1
    BY <1>2 DEF x
  <2>2. x = <<>> <=> b = i + 1
    BY <2>1
  <2> QED  BY <2>2 DEF x
<1>5. Append(SubSeq(stream, b, i), stream[i + 1]) = SubSeq(stream, b, i + 1)
  <2> DEFINE x == Append(SubSeq(stream, b, i), stream[i + 1])
             y == SubSeq(stream, b, i + 1)
  <2>1. x \in Seq(Bytes) /\ Len(x) = i - b + 2
    BY <1>1, <1>2
  <2>2. ASSUME NEW k \in 1 .. i - b + 2  PROVE x[k] = y[k]
    BY <1>1, <1>2, <1>3
  <2> HIDE DEF x, y
  <2>3. Len(y) = i - b + 2 /\ y \in Seq(Bytes)
    BY <1>3 DEF y
  <2>4. x = y
    BY <2>1, <2>2, <2>3, SeqEqual
  <2> QED  BY <2>4 DEF x, y
<1> QED  BY <1>2, <1>3, <1>4, <1>5

(* An end frame has four bytes, of which the first says so. *)
LEMMA FinParts ==
  ASSUME NEW stream \in Streams, NEW h \in 1 .. MaxBytes, h + 3 <= MaxBytes,
         SubSeq(stream, h, h + 3) = FinFrame
  PROVE  stream[h] = 4
<1>1. h + 2 \in Nat /\ h \in 1 .. (h + 2) + 1 /\ (h + 2) + 1 <= MaxBytes
  BY StreamIs
<1>2. SubSeq(stream, h, (h + 2) + 1)[1] = stream[h]
  BY <1>1, Parts
<1>3. (h + 2) + 1 = h + 3
  BY StreamIs
<1>4. FinFrame[1] = 4
  BY DEF FinFrame
<1> QED  BY <1>2, <1>3, <1>4, Zenon

(* The scanner after i bytes of a stream: it is at a place b where a frame *)
(* begins, holds what it read of it, and no frame began after it; or it    *)
(* met a frame of size zero.                                               *)
Scanners == [joined : Nat, frame : Seq(Bytes), lost : BOOLEAN, fin : BOOLEAN]
IsAt(stream, i, s, b) ==
  /\ s.frame = SubSeq(stream, b, i)
  /\ BeginsAt(stream, Begins(stream), b)
  /\ b <= i => i - b + 1 < stream[b]
  /\ \A k \in Begins(stream) : k <= i => k <= b /\ stream[k] # 0
Follows(stream, i, s) ==
  /\ s \in Scanners /\ s.joined >= PS2JoinSize
  /\ s.lost => \E z \in Begins(stream) : z <= i /\ stream[z] = 0
  /\ ~ s.lost => \E b \in 1 .. i + 1 : IsAt(stream, i, s, b)

(* An end frame ends in the bytes from .. i. *)
FinIn(stream, from, i) ==
  \E h \in Begins(stream) : h + 3 \in from .. i /\ SubSeq(stream, h, h + 3) = FinFrame

(* Byte by byte the scanner follows the frames of the stream, and has seen *)
(* those end frames that ended in the read.                                *)
LEMMA ByteStep ==
  ASSUME NEW stream \in Streams, NEW i \in Nat, i + 1 <= MaxBytes, NEW s,
         Follows(stream, i, s), NEW from \in 1 .. i + 1, s.fin <=> FinIn(stream, from, i)
  PROVE  LET t == Framed(s, stream[i + 1])
         IN  Follows(stream, i + 1, t) /\ (t.fin <=> FinIn(stream, from, i + 1))
<1> DEFINE B == Begins(stream)
           byte == stream[i + 1]
           t == Framed(s, byte)
           Ends(h) == h \in B /\ h + 3 = i + 1 /\ SubSeq(stream, h, h + 3) = FinFrame
<1>1. /\ B \subseteq 1 .. MaxBytes /\ MaxBytes \in Nat
      /\ \A k \in 1 .. MaxBytes : k \in B <=> BeginsAt(stream, B, k)
      /\ \A k \in 1 .. MaxBytes : stream[k] \in Nat /\ (stream[k] # 0 => stream[k] > 0)
      /\ i + 1 \in 1 .. MaxBytes
  BY BeginsAre, StreamIs
<1>2. \A j \in B, k \in Nat : BeginsAt(stream, B, k) /\ j < k => stream[j] # 0 /\ k >= j + stream[j]
  BY NoOverlap
<1>3. FinIn(stream, from, i + 1) <=> FinIn(stream, from, i) \/ \E h \in B : Ends(h)
  <2>1. \A h \in B : h + 3 \in from .. i + 1 <=> h + 3 \in from .. i \/ h + 3 = i + 1
    BY <1>1
  <2> QED  BY <2>1 DEF FinIn
<1>4. ASSUME NEW h, Ends(h)  PROVE stream[h] = 4 /\ h \in 1 .. MaxBytes /\ BeginsAt(stream, B, h)
  BY <1>1, <1>4, FinParts
<1>5. s \in Scanners /\ s.joined >= PS2JoinSize
  BY DEF Follows
<1>6. CASE s.lost
  <2>1. PICK z \in B : z <= i /\ stream[z] = 0
    BY <1>6 DEF Follows
  <2>2. ~ \E h \in B : Ends(h)
    <3> SUFFICES ASSUME NEW h, Ends(h)  PROVE FALSE
      OBVIOUS
    <3>1. stream[h] = 4 /\ h \in B /\ h \in Nat /\ z \in Nat /\ BeginsAt(stream, B, h)
          /\ BeginsAt(stream, B, z)
      BY <1>1, <1>4
    <3>2. h < z
      BY <1>2, <2>1, <3>1
    <3>3. z >= h + 4
      BY <1>2, <3>1, <3>2
    <3> QED  BY <2>1, <3>1, <3>3
  <2>3. t = [s EXCEPT !.lost = TRUE]
    BY <1>6 DEF Framed
  <2>4. t = s
    BY <1>5, <1>6, <2>3 DEF Scanners
  <2>5. Follows(stream, i + 1, t)
    BY <1>1, <1>5, <1>6, <2>1, <2>4 DEF Follows
  <2> QED  BY <1>3, <2>2, <2>4, <2>5
<1>7. CASE ~ s.lost
  <2>1. PICK b \in 1 .. i + 1 : IsAt(stream, i, s, b)
    BY <1>7 DEF Follows
  <2> DEFINE frame == SubSeq(stream, b, i + 1)
  <2>2. /\ s.frame = <<>> <=> b = i + 1
        /\ Append(s.frame, byte) = frame
        /\ frame \in Seq(Bytes) /\ Len(frame) = i - b + 2 /\ frame[1] = stream[b]
    <3>1. s.frame = SubSeq(stream, b, i)
      BY <2>1 DEF IsAt
    <3>2. /\ SubSeq(stream, b, i) = <<>> <=> b = i + 1
          /\ Append(SubSeq(stream, b, i), byte) = frame
          /\ frame \in Seq(Bytes) /\ Len(frame) = i - b + 2 /\ frame[1] = stream[b]
      BY Parts
    <3> HIDE DEF byte, frame
    <3> QED  BY <3>1, <3>2, Zenon
  <2>3. b \in B /\ b \in 1 .. MaxBytes /\ b \in Nat
    BY <1>1, <2>1 DEF IsAt
  <2>4. \A k \in B : k <= i + 1 => k <= b
    <3> SUFFICES ASSUME NEW k \in B, k = i + 1, b < k  PROVE FALSE
      BY <1>1, <2>1, <2>3 DEF IsAt
    <3>1. k >= b + stream[b]
      BY <1>1, <1>2, <2>3
    <3> QED  BY <1>1, <2>1, <2>3, <3>1 DEF IsAt
  <2>5. ASSUME NEW h, Ends(h)  PROVE h = b
    <3>1. h \in Nat /\ h <= b /\ stream[h] = 4
      BY <1>1, <1>4, <2>4, <2>5
    <3>2. h < b => b >= h + 4
      BY <1>1, <1>2, <2>1, <2>3, <2>5, <3>1 DEF IsAt
    <3> QED  BY <2>3, <2>5, <3>1, <3>2
  <2>6. CASE s.frame = <<>> /\ byte = 0
    <3>1. b = i + 1 /\ stream[b] = 0
      BY <2>2, <2>6
    <3>2. ~ \E h \in B : Ends(h)
      BY <1>4, <2>5, <3>1
    <3>3. t = [s EXCEPT !.lost = TRUE]
      BY <2>6 DEF Framed
    <3>4. t \in Scanners /\ t.joined = s.joined /\ t.lost /\ t.fin = s.fin
      BY <1>5, <3>3 DEF Scanners
    <3>5. Follows(stream, i + 1, t)
      <4> HIDE DEF t
      <4> QED  BY <1>5, <2>3, <3>1, <3>4 DEF Follows
    <3>6. t.fin <=> FinIn(stream, from, i + 1)
      <4> HIDE DEF t
      <4> QED  BY <1>3, <3>2, <3>4
    <3> QED  BY <3>5, <3>6
  <2>7. CASE ~ (s.frame = <<>> /\ byte = 0)
    <3>1. stream[b] # 0 /\ \A k \in B : k <= i + 1 => stream[k] # 0
      <4>1. stream[b] # 0
        <5>1. CASE b = i + 1
          BY <2>2, <2>7, <5>1
        <5>2. CASE b # i + 1
          <6>1. b \in B /\ b <= i
            BY <2>3, <5>2
          <6> QED  BY <2>1, <6>1 DEF IsAt
        <5> QED  BY <5>1, <5>2
      <4>2. ASSUME NEW k \in B, k <= i + 1  PROVE stream[k] # 0
        <5>1. k \in Nat /\ k <= b
          BY <1>1, <2>4, <4>2
        <5>2. CASE k = b
          BY <4>1, <5>2
        <5>3. CASE k # b
          <6>1. k <= i
            BY <2>3, <5>1, <5>3
          <6> QED  BY <2>1, <6>1 DEF IsAt
        <5> QED  BY <5>2, <5>3
      <4> QED  BY <4>1, <4>2
    <3>2. i - b + 2 <= stream[b]
      BY <1>1, <2>1, <2>2, <2>3, <3>1 DEF IsAt
    <3>3. CASE i - b + 2 < stream[b]
      <4>1. t = [s EXCEPT !.frame = frame]
        BY <1>7, <2>2, <2>7, <3>3 DEF Framed
      <4>2. t \in Scanners /\ t.joined = s.joined /\ ~ t.lost /\ t.fin = s.fin /\ t.frame = frame
        BY <1>5, <1>7, <2>2, <4>1 DEF Scanners
      <4>3. ~ \E h \in B : Ends(h)
        <5> SUFFICES ASSUME NEW h, Ends(h)  PROVE FALSE
          OBVIOUS
        <5>1. h = b /\ stream[h] = 4
          BY <1>4, <2>5
        <5>2. b + 3 = i + 1
          BY <5>1
        <5> HIDE DEF Ends
        <5> QED  BY <2>3, <3>3, <5>1, <5>2
      <4>4. Follows(stream, i + 1, t) /\ (t.fin <=> FinIn(stream, from, i + 1))
        <5> HIDE DEF t
        <5>1. IsAt(stream, i + 1, t, b)
          BY <2>1, <2>3, <2>4, <3>1, <3>3, <4>2 DEF IsAt
        <5>2. Follows(stream, i + 1, t)
          BY <1>5, <2>3, <4>2, <5>1 DEF Follows
        <5> QED  BY <1>3, <4>2, <4>3, <5>2
      <4> QED  BY <4>4
    <3>4. CASE i - b + 2 = stream[b]
      <4>1. t = [s EXCEPT !.frame = <<>>, !.fin = @ \/ frame = FinFrame]
        BY <1>7, <2>2, <2>7, <3>4 DEF Framed
      <4>2. /\ t \in Scanners /\ t.joined = s.joined /\ ~ t.lost /\ t.frame = <<>>
            /\ t.fin <=> s.fin \/ frame = FinFrame
        <5> DEFINE fin == s.fin \/ frame = FinFrame
        <5>1. fin \in BOOLEAN /\ <<>> \in Seq(Bytes)
          OBVIOUS
        <5> HIDE DEF fin, frame
        <5>2. t = [s EXCEPT !.frame = <<>>, !.fin = fin]
          BY <4>1 DEF fin
        <5> HIDE DEF t
        <5>3. t \in Scanners /\ t.joined = s.joined /\ ~ t.lost /\ t.frame = <<>> /\ t.fin = fin
          BY <1>5, <1>7, <5>1, <5>2 DEF Scanners
        <5> QED  BY <5>3 DEF fin
      <4>3. frame = FinFrame <=> \E h \in B : Ends(h)
        <5>1. ASSUME frame = FinFrame  PROVE Ends(b)
          <6>1. Len(frame) = 4
            BY <5>1 DEF FinFrame
          <6>2. b + 3 = i + 1
            BY <2>2, <2>3, <6>1
          <6> QED  BY <2>3, <5>1, <6>2
        <5>2. ASSUME Ends(b)  PROVE frame = FinFrame
          BY <5>2
        <5> QED  BY <2>5, <5>1, <5>2
      <4>4. BeginsAt(stream, B, i + 2)
        BY <2>3, <3>1, <3>4 DEF BeginsAt
      <4>5. SubSeq(stream, i + 2, i + 1) = <<>>
        OBVIOUS
      <4>6. Follows(stream, i + 1, t) /\ (t.fin <=> FinIn(stream, from, i + 1))
        <5> HIDE DEF t
        <5>1. i + 2 \in 1 .. (i + 1) + 1
          OBVIOUS
        <5>2. IsAt(stream, i + 1, t, i + 2)
          BY <1>1, <2>3, <2>4, <3>1, <4>2, <4>4, <4>5 DEF IsAt
        <5>3. Follows(stream, i + 1, t)
          BY <1>5, <4>2, <5>1, <5>2 DEF Follows
        <5> QED  BY <1>3, <4>2, <4>3, <5>3
      <4> QED  BY <4>6
    <3> QED  BY <1>1, <2>3, <3>2, <3>3, <3>4
  <2> QED  BY <2>6, <2>7
<1> QED  BY <1>6, <1>7

(* A scanner whose frames are those of the first bytes of the stream       *)
(* follows it through a read.                                              *)
LEMMA ReadStep ==
  ASSUME NEW stream \in Streams, NEW from \in 1 .. MaxBytes, NEW k \in from .. MaxBytes, NEW s,
         Follows(stream, from - 1, s)
  PROVE  LET t == Scan(s, SubSeq(stream, from, k))
         IN  Follows(stream, k, t) /\ (t.fin <=> HoldsFin(stream, from, k))
<1> DEFINE B == Begins(stream)
           data == SubSeq(stream, from, k)
           n == k - from + 1
           t == Scan(s, data)
           Lost == \E z \in B : z < from /\ stream[z] = 0
<1>1. /\ B \subseteq 1 .. MaxBytes /\ MaxBytes \in Nat
      /\ \A i \in 1 .. MaxBytes : i \in B <=> BeginsAt(stream, B, i)
  BY BeginsAre, StreamIs
<1>2. /\ n \in Nat /\ DOMAIN data = 1 .. n /\ Len(data) = n
      /\ \A i \in 1 .. n : data[i] = stream[from + i - 1]
  <2>1. stream \in Seq(Bytes) /\ Len(stream) = MaxBytes
    BY StreamIs, SeqDef DEF Streams
  <2>2. from \in 1 .. MaxBytes /\ k \in from - 1 .. MaxBytes /\ n \in Nat
    BY <1>1
  <2>3. /\ data \in Seq(Bytes) /\ Len(data) = n
        /\ \A i \in 1 .. n : data[i] = stream[from + i - 1]
    BY <2>1, <2>2, SubSeqProperties
  <2>4. DOMAIN data = 1 .. Len(data)
    <3> HIDE DEF data
    <3> QED  BY <2>3
  <2> QED  BY <2>2, <2>3, <2>4
<1>3. s \in Scanners /\ s.joined >= PS2JoinSize /\ ~ (s.joined < PS2JoinSize)
  BY FinAssumption DEF Follows, Scanners
<1>4. HoldsFin(stream, from, k) <=> FinIn(stream, from, k) \/ (Lost /\ data = FinFrame)
  BY Zenon DEF HoldsFin, FinIn
<1> HIDE DEF data, n
<1>5. CASE s.lost
  <2>1. t = [s EXCEPT !.fin = data = FinFrame]
    BY <1>3, <1>5 DEF Scan
  <2>2. t \in Scanners /\ t.joined = s.joined /\ t.lost /\ (t.fin <=> data = FinFrame)
    <3> DEFINE fin == data = FinFrame
    <3>1. fin \in BOOLEAN /\ t = [s EXCEPT !.fin = fin]
      BY <2>1
    <3> HIDE DEF fin, t
    <3>2. t \in Scanners /\ t.joined = s.joined /\ t.lost /\ t.fin = fin
      BY <1>3, <1>5, <3>1 DEF Scanners
    <3> QED  BY <3>2 DEF fin
  <2>3. PICK z \in B : z <= from - 1 /\ stream[z] = 0
    BY <1>5 DEF Follows
  <2>4. Lost /\ z <= k
    BY <1>1, <2>3
  <2>5. ~ FinIn(stream, from, k)
    <3> SUFFICES ASSUME NEW h \in B, h + 3 \in from .. k, SubSeq(stream, h, h + 3) = FinFrame
                 PROVE  FALSE
      BY DEF FinIn
    <3>1. h \in Nat /\ z \in Nat /\ h \in 1 .. MaxBytes /\ h + 3 <= MaxBytes
          /\ BeginsAt(stream, B, h) /\ BeginsAt(stream, B, z)
      BY <1>1
    <3>2. stream[h] = 4
      BY <3>1, FinParts
    <3>3. h < z => z >= h + 4
      BY <3>1, <3>2, NoOverlap
    <3>4. z < h => stream[z] # 0
      BY <3>1, NoOverlap
    <3> QED  BY <2>3, <3>1, <3>2, <3>3, <3>4
  <2>6. Follows(stream, k, t)
    <3> HIDE DEF t
    <3> QED  BY <1>3, <2>2, <2>3, <2>4 DEF Follows
  <2>7. t.fin <=> HoldsFin(stream, from, k)
    <3> HIDE DEF t, Lost
    <3> QED  BY <1>4, <2>2, <2>4, <2>5
  <2> QED  BY <2>6, <2>7 DEF data
<1>6. CASE ~ s.lost
  <2> DEFINE s0 == [s EXCEPT !.fin = FALSE]
  <2>1. t = Read(s0, data)
    BY <1>3, <1>6 DEF Scan, Read
  <2>2. s0 \in Scanners /\ s0.joined = s.joined /\ s0.frame = s.frame /\ ~ s0.lost /\ ~ s0.fin
    BY <1>3, <1>6 DEF Scanners
  <2>3. PICK b \in 1 .. from : IsAt(stream, from - 1, s, b)
    BY <1>6 DEF Follows
  <2> HIDE DEF s0
  <2>4. Follows(stream, from - 1, s0) /\ (s0.fin <=> FinIn(stream, from, from - 1))
    <3>1. IsAt(stream, from - 1, s0, b)
      BY <2>2, <2>3 DEF IsAt
    <3>2. ~ FinIn(stream, from, from - 1)
      BY <1>1 DEF FinIn
    <3>3. b \in 1 .. (from - 1) + 1
      OBVIOUS
    <3> QED  BY <1>3, <2>2, <3>1, <3>2, <3>3 DEF Follows
  <2>5. PICK run : Run(s0, data, run) /\ t = run[n]
    BY <1>2, <2>1, FoldRuns
  <2> DEFINE Right(i) == /\ Follows(stream, from - 1 + i, run[i])
                         /\ run[i].fin <=> FinIn(stream, from, from - 1 + i)
             T == {i \in 0 .. n : ~ Right(i)}
  <2>6. T = {}
    <3> SUFFICES ASSUME T # {}  PROVE FALSE
      OBVIOUS
    <3>1. PICK i \in T : \A m \in T : i <= m
      <4>1. T \in SUBSET Nat
        BY <1>2
      <4> HIDE DEF T
      <4> QED  BY <4>1, LeastOf
    <3>2. Right(0)
      BY <2>4, <2>5 DEF Run
    <3>3. i \in 1 .. n /\ i - 1 \in 0 .. n /\ ~ Right(i)
      BY <1>2, <3>1, <3>2
    <3>4. Right(i - 1)
      BY <1>2, <3>1, <3>3
    <3> DEFINE j == from - 1 + (i - 1)
    <3>5. j \in Nat /\ j + 1 = from - 1 + i /\ j + 1 <= MaxBytes /\ from \in 1 .. j + 1
          /\ j + 1 = from + i - 1
      BY <1>1, <3>3 DEF n
    <3>6. run[i] = Framed(run[i - 1], stream[j + 1])
      BY <1>2, <2>5, <3>3, <3>5 DEF Run
    <3>7. Follows(stream, j, run[i - 1]) /\ (run[i - 1].fin <=> FinIn(stream, from, j))
      BY <3>4
    <3> HIDE DEF j
    <3>8. Follows(stream, j + 1, run[i]) /\ (run[i].fin <=> FinIn(stream, from, j + 1))
      BY <3>5, <3>6, <3>7, ByteStep
    <3> QED  BY <3>3, <3>5, <3>8
  <2>7. Right(n)
    BY <1>2, <2>6
  <2>8. ~ Lost
    BY <1>1, <2>3 DEF IsAt
  <2>9. from - 1 + n = k
    BY <1>1 DEF n
  <2>10. Follows(stream, k, t) /\ (t.fin <=> FinIn(stream, from, k))
    BY <2>5, <2>7, <2>9
  <2> HIDE DEF t, Lost
  <2>11. t.fin <=> HoldsFin(stream, from, k)
    BY <1>4, <2>8, <2>10
  <2> QED  BY <2>10, <2>11 DEF t, data
<1> QED  BY <1>5, <1>6

(* A scanner that read a join. *)
LEMMA JoinedAre ==
  ASSUME NEW joined \in Joined, NEW stream \in Streams
  PROVE  Follows(stream, 0, joined) /\ ~ joined.fin
<1> DEFINE After(n) == [joined |-> n, frame |-> <<>>, lost |-> FALSE, fin |-> FALSE]
<1>1. PS2JoinSize \in Nat /\ PS2JoinSize > 0
  BY FinAssumption
<1>2. ASSUME NEW n \in Nat  PROVE Len(JoinBytes(n)) = n
  BY DEF JoinBytes
<1>3. ASSUME NEW m \in Nat, m < PS2JoinSize, NEW n \in Nat
      PROVE  Scan(After(m), JoinBytes(n)) = After(m + n)
  BY <1>1, <1>2, <1>3 DEF Scan
<1>4. FinScanner = After(0)
  BY DEF FinScanner
<1>5. PICK n \in Nat : joined = After(n) /\ n >= PS2JoinSize
  <2>1. \A n \in Nat : Scan(FinScanner, JoinBytes(n)) = After(n)
    BY <1>1, <1>3, <1>4
  <2> HIDE DEF After
  <2>2. CASE joined = Scan(FinScanner, JoinBytes(PS2JoinSize))
    BY <1>1, <2>1, <2>2
  <2>3. CASE joined = Scan(FinScanner, JoinBytes(PS2JoinSize + 1))
    BY <1>1, <2>1, <2>3
  <2>4. ASSUME NEW n \in 1 .. PS2JoinSize - 1,
               joined = Scan(Scan(FinScanner, JoinBytes(n)), JoinBytes(PS2JoinSize - n))
        PROVE  joined = After(PS2JoinSize)
    <3>1. n \in Nat /\ n < PS2JoinSize /\ PS2JoinSize - n \in Nat /\ n + (PS2JoinSize - n) = PS2JoinSize
      BY <1>1
    <3>2. joined = Scan(After(n), JoinBytes(PS2JoinSize - n))
      BY <2>1, <2>4, <3>1
    <3>3. Scan(After(n), JoinBytes(PS2JoinSize - n)) = After(n + (PS2JoinSize - n))
      BY <1>3, <3>1
    <3> QED  BY <3>1, <3>2, <3>3
  <2> QED  BY <1>1, <2>2, <2>3, <2>4 DEF Joined
<1>6. /\ joined \in Scanners /\ joined.joined >= PS2JoinSize
      /\ joined.frame = <<>> /\ ~ joined.lost /\ ~ joined.fin
  BY <1>5 DEF Scanners
<1>7. SubSeq(stream, 1, 0) = <<>> /\ BeginsAt(stream, Begins(stream), 1)
  BY DEF BeginsAt
<1>8. \A k \in Begins(stream) : k \in Nat /\ k > 0
  BY BeginsAre, StreamIs
<1>9. IsAt(stream, 0, joined, 1)
  BY <1>6, <1>7, <1>8 DEF IsAt
<1> QED  BY <1>6, <1>9 DEF Follows

(* The first byte of a read, and the scanners behind the reads of a stream *)
(* that is cut at ends.                                                    *)
From(ends, k) == Max({0} \cup {e \in ends : e < k}) + 1
Scanned(stream, ends, joined, g) ==
  g = [k \in 0 .. MaxBytes |->
         IF k = 0 THEN joined
         ELSE Scan(g[From(ends, k) - 1], SubSeq(stream, From(ends, k), k))]

(* A read begins behind the end of another, or of the join. *)
LEMMA FromIs ==
  ASSUME NEW ends \in SUBSET (1 .. MaxBytes), NEW k \in 1 .. MaxBytes
  PROVE  From(ends, k) \in 1 .. k /\ From(ends, k) - 1 \in {0} \cup ends
<1> DEFINE T == {0} \cup {e \in ends : e < k}
<1>1. k \in Nat /\ MaxBytes \in Nat
  BY FinAssumption
<1>2. \A e \in T : e \in 0 .. k /\ e \in Nat /\ e < k /\ e \in {0} \cup ends
  <2>1. \A e \in ends : e \in Nat
    BY <1>1
  <2> QED  BY <1>1, <2>1
<1>3. Max(T) \in T
  <2>1. T \in SUBSET (0 .. k) /\ T # {}
    BY <1>2
  <2> HIDE DEF T
  <2> QED  BY <1>1, <2>1, GreatestOf
<1> DEFINE m == Max(T)
<1>5. m \in Nat /\ m < k /\ m \in {0} \cup ends
  <2> HIDE DEF T
  <2> QED  BY <1>2, <1>3
<1>4. From(ends, k) = m + 1
  BY DEF From
<1> HIDE DEF m
<1> QED  BY <1>1, <1>4, <1>5

(* There are such scanners. *)
LEMMA ScannedDefined ==
  ASSUME NEW stream, NEW ends \in SUBSET (1 .. MaxBytes), NEW joined
  PROVE  \E g : Scanned(stream, ends, joined, g)
<1> DEFINE After(k, g) == IF k = 0 THEN joined
                         ELSE Scan(g[From(ends, k) - 1], SubSeq(stream, From(ends, k), k))
           Defined(n, g) == \A k \in 0 .. n : g[k] = After(k, g)
           T == {n \in 0 .. MaxBytes : ~ \E g : Defined(n, g)}
<1>1. MaxBytes \in Nat
  BY FinAssumption
<1>2. ASSUME NEW k \in 1 .. MaxBytes  PROVE From(ends, k) - 1 \in 0 .. k - 1
  <2>1. From(ends, k) \in 1 .. k /\ k \in Nat
    BY <1>1, FromIs
  <2> QED  BY <2>1
<1>3. T = {}
  <2> SUFFICES ASSUME T # {}  PROVE FALSE
    OBVIOUS
  <2>1. PICK n \in T : \A m \in T : n <= m
    <3>1. T \in SUBSET Nat
      BY <1>1
    <3> HIDE DEF T
    <3> QED  BY <3>1, LeastOf
  <2>2. n \in 0 .. MaxBytes /\ ~ \E g : Defined(n, g)
    BY <2>1
  <2>3. CASE n = 0
    <3>1. Defined(0, [k \in 0 .. 0 |-> joined])
      OBVIOUS
    <3> HIDE DEF Defined
    <3> QED  BY <2>2, <2>3, <3>1
  <2>4. CASE n # 0
    <3>1. n - 1 \in 0 .. MaxBytes /\ n - 1 \notin T /\ n \in 1 .. MaxBytes
      <4>1. n - 1 \in 0 .. MaxBytes /\ n \in 1 .. MaxBytes /\ ~ (n <= n - 1)
        BY <1>1, <2>2, <2>4
      <4> HIDE DEF T
      <4> QED  BY <2>1, <4>1
    <3>2. PICK g : Defined(n - 1, g)
      BY <3>1
    <3> DEFINE h == [k \in 0 .. n |-> IF k <= n - 1 THEN g[k] ELSE After(n, g)]
    <3>3. ASSUME NEW k \in 0 .. n  PROVE h[k] = After(k, h)
      <4>1. h[k] = After(k, g)
        <5> HIDE DEF After
        <5> QED  BY <1>1, <3>1, <3>2
      <4>2. ASSUME k # 0  PROVE h[From(ends, k) - 1] = g[From(ends, k) - 1]
        <5> DEFINE m == From(ends, k) - 1
        <5>1. m \in 0 .. k - 1
          BY <1>1, <1>2, <3>1, <4>2
        <5> HIDE DEF m
        <5>2. h[m] = g[m]
          BY <1>1, <3>1, <5>1
        <5> QED  BY <5>2 DEF m
      <4> HIDE DEF h
      <4> QED  BY <4>1, <4>2, Zenon
    <3>4. Defined(n, h)
      <4> HIDE DEF h, After
      <4> QED  BY <3>3
    <3> HIDE DEF Defined
    <3> QED  BY <2>2, <3>4
  <2> QED  BY <2>3, <2>4
<1>4. PICK g : Defined(MaxBytes, g)
  <2>1. MaxBytes \in 0 .. MaxBytes /\ MaxBytes \notin T
    BY <1>1, <1>3
  <2> HIDE DEF Defined
  <2> QED  BY <2>1
<1> DEFINE h == [k \in 0 .. MaxBytes |-> g[k]]
<1>5. ASSUME NEW k \in 0 .. MaxBytes  PROVE h[k] = After(k, h)
  <2>1. h[k] = After(k, g)
    <3> HIDE DEF After
    <3> QED  BY <1>4
  <2>2. ASSUME k # 0  PROVE h[From(ends, k) - 1] = g[From(ends, k) - 1]
    <3> DEFINE m == From(ends, k) - 1
    <3>1. m \in 0 .. k - 1
      BY <1>1, <1>2, <2>2
    <3> HIDE DEF m
    <3>2. h[m] = g[m]
      BY <1>1, <3>1
    <3> QED  BY <3>2 DEF m
  <2> HIDE DEF h
  <2> QED  BY <2>1, <2>2, Zenon
<1>6. DOMAIN h = 0 .. MaxBytes /\ h = [k \in 0 .. MaxBytes |-> h[k]]
  OBVIOUS
<1>7. h = [k \in 0 .. MaxBytes |-> After(k, h)]
  <2> HIDE DEF h, After
  <2> QED  BY <1>5, <1>6, Zenon
<1> HIDE DEF h
<1> QED  BY <1>7, Zenon DEF Scanned

(* FinsFound.  However a stream is cut into reads, the scanner reports its *)
(* end frames in the reads that complete them, and nothing else.           *)
THEOREM ScannerIsRight == FinsFound
<1> SUFFICES ASSUME NEW stream \in Streams, NEW cuts \in SUBSET (1 .. MaxBytes - 1), NEW joined \in Joined
             PROVE  LET ends == cuts \cup {MaxBytes}
                        from(k) == Max({0} \cup {e \in ends : e < k}) + 1
                        scanned[k \in 0 .. MaxBytes] ==
                          IF k = 0 THEN joined
                          ELSE Scan(scanned[from(k) - 1], SubSeq(stream, from(k), k))
                    IN  ~ joined.fin /\ \A k \in ends : scanned[k].fin <=> HoldsFin(stream, from(k), k)
  BY Zenon DEF FinsFound, Streams
<1> DEFINE ends == cuts \cup {MaxBytes}
           from(k) == Max({0} \cup {e \in ends : e < k}) + 1
           scanned[k \in 0 .. MaxBytes] ==
             IF k = 0 THEN joined
             ELSE Scan(scanned[from(k) - 1], SubSeq(stream, from(k), k))
<1>1. MaxBytes \in Nat /\ MaxBytes > 0 /\ ends \in SUBSET (1 .. MaxBytes)
  BY FinAssumption
<1>2. scanned = CHOOSE g : Scanned(stream, ends, joined, g)
  BY Zenon DEF Scanned, From
<1>3. \A k : from(k) = From(ends, k)
  BY Zenon DEF From
<1> HIDE DEF ends, from, scanned
<1>4. Scanned(stream, ends, joined, scanned)
  BY <1>1, <1>2, ScannedDefined
<1>5. scanned[0] = joined /\ \A k \in 1 .. MaxBytes :
         scanned[k] = Scan(scanned[From(ends, k) - 1], SubSeq(stream, From(ends, k), k))
  <2>1. 0 \in 0 .. MaxBytes /\ \A k \in 1 .. MaxBytes : k \in 0 .. MaxBytes /\ k # 0
    BY <1>1
  <2>2. \A k \in 0 .. MaxBytes :
          scanned[k] = IF k = 0 THEN joined
                       ELSE Scan(scanned[From(ends, k) - 1], SubSeq(stream, From(ends, k), k))
    BY <1>4, Zenon DEF Scanned
  <2> QED  BY <2>1, <2>2
<1> DEFINE T == {k \in {0} \cup ends : ~ Follows(stream, k, scanned[k])}
<1>6. T = {}
  <2> SUFFICES ASSUME T # {}  PROVE FALSE
    OBVIOUS
  <2>1. PICK k \in T : \A m \in T : k <= m
    <3>1. \A m \in {0} \cup ends : m \in Nat
      BY <1>1
    <3>2. T \in SUBSET Nat
      BY <3>1
    <3> HIDE DEF T
    <3> QED  BY <3>2, LeastOf
  <2>2. k # 0
    BY <1>5, <2>1, JoinedAre
  <2>3. k \in 1 .. MaxBytes /\ k \in Nat
    BY <1>1, <2>1, <2>2
  <2> DEFINE f == From(ends, k)
  <2>4. f \in 1 .. k /\ f - 1 \in {0} \cup ends
    BY <1>1, <2>3, FromIs
  <2> HIDE DEF f
  <2>5. f \in 1 .. MaxBytes /\ k \in f .. MaxBytes /\ f - 1 < k
    BY <1>1, <2>3, <2>4
  <2>6. Follows(stream, f - 1, scanned[f - 1])
    BY <2>1, <2>3, <2>4, <2>5
  <2>7. Follows(stream, k, Scan(scanned[f - 1], SubSeq(stream, f, k)))
    BY <2>5, <2>6, ReadStep
  <2> QED  BY <1>5, <2>1, <2>3, <2>7 DEF f
<1>7. ASSUME NEW k \in ends  PROVE scanned[k].fin <=> HoldsFin(stream, from(k), k)
  <2>1. k \in 1 .. MaxBytes /\ k \in Nat
    BY <1>1
  <2> DEFINE f == From(ends, k)
  <2>2. f \in 1 .. k /\ f - 1 \in {0} \cup ends
    BY <1>1, <2>1, FromIs
  <2>3. f \in 1 .. MaxBytes /\ k \in f .. MaxBytes
    BY <1>1, <2>1, <2>2
  <2>4. Follows(stream, f - 1, scanned[f - 1])
    BY <1>6, <2>2
  <2>5. scanned[k] = Scan(scanned[f - 1], SubSeq(stream, f, k))
    BY <1>5, <2>1
  <2> HIDE DEF f
  <2>6. scanned[k].fin <=> HoldsFin(stream, f, k)
    BY <2>3, <2>4, <2>5, ReadStep
  <2> QED  BY <1>3, <2>6 DEF f
<1>8. ~ joined.fin
  BY JoinedAre
<1> QED  BY <1>7, <1>8, Zenon DEF ends, from, scanned

(* EndIsFound.  The proxy of a player that fights finds the end of the     *)
(* battle in whatever reads it gets, and no other.                         *)
THEOREM EndsAreFound == RouteSpec => []EndIsFound
<1>1. EndIsFound
  BY ScannerIsRight DEF EndIsFound
<1> QED  BY <1>1, PTL
=============================================================================
