-------------------------- MODULE BattleLinkProofs --------------------------
(***************************************************************************)
(* Proofs about a link of a battle, for all sets of authors and of their   *)
(* first numbers, any ring and window, and any loss, repetition and        *)
(* reordering of packets: what the filters pass on is what was pushed, and *)
(* the link implements a pair of FIFO channels.                            *)
(*                                                                         *)
(* That a filter lets through the next message and no other is a matter of *)
(* four things together: authors number their messages without a gap, the  *)
(* filter remembers the last number of each author, a packet carries a     *)
(* stretch of what was pushed, and the stretch begins no further on than   *)
(* where its receiver is.  The last holds because what an end counts as    *)
(* acknowledged is at its peer, although the counts move backwards; that a *)
(* packet carries what was pushed, because the ring still has it.  IInv    *)
(* says all of this.                                                       *)
(***************************************************************************)
EXTENDS BattleLink, SequenceTheorems, TLAPS

-----------------------------------------------------------------------------
(* The parts of the inductive invariant.                                   *)

(* The end of a buffer counts what was pushed. *)
EndCounts == \A p \in Ends : buf[p].end = Len(pushed[p]) + 1

(* The ring has the last RingSize messages, each in its cell. *)
RingKeeps ==
  \A p \in Ends : \A i \in 1 .. Len(pushed[p]) :
    buf[p].end - i <= RingSize => buf[p].rbuf[i % RingSize] = pushed[p][i]

(* The ring has all that may have to be sent again. *)
RoomLeft ==
  \A p \in Ends : \A a \in AcksTowards(p) : buf[p].end - a <= RingSize + 1

(* data is the stretch of the sequence all that ends at position seq. *)
IsStretch(data, seq, all) ==
  /\ seq <= Len(all) /\ Len(data) <= seq
  /\ \A i \in 1 .. Len(data) : data[i] = all[seq - Len(data) + i]

PacketsCarry == \A k \in net : IsStretch(k.data, k.seq, pushed[Peer(k.to)])

(* The same of a packet being worked through, and the next message of it   *)
(* is no further on than the first that is lacking.                        *)
Position(p) == handling[p].seq - Len(handling[p].data) + handling[p].at
HandsCarry ==
  \A p \in Ends : handling[p] # Idle =>
    /\ IsStretch(handling[p].data, handling[p].seq, pushed[Peer(p)])
    /\ Position(p) <= Len(accepted[p]) + 1

(* An author pushes at its own end, and numbers its messages upwards       *)
(* without a gap; nextSeq is the next number.                              *)
Numbered ==
  /\ \A p \in Ends : \A i \in 1 .. Len(pushed[p]) : WriterAt[pushed[p][i].author] = p
  /\ \A p \in Ends : \A j \in 1 .. Len(pushed[p]) : \A i \in 1 .. j - 1 :
       pushed[p][i].author = pushed[p][j].author =>
         /\ pushed[p][i].seq < pushed[p][j].seq
         /\ \E n \in 1 .. j - 1 : /\ pushed[p][n].author = pushed[p][j].author
                                  /\ pushed[p][n].seq = pushed[p][j].seq - 1
  /\ \A p \in Ends : \A i \in 1 .. Len(pushed[p]) :
       LET a == pushed[p][i].author
       IN  /\ pushed[p][i].seq < nextSeq[a]
           /\ \E n \in 1 .. Len(pushed[p]) : /\ pushed[p][n].author = a
                                             /\ pushed[p][n].seq = nextSeq[a] - 1

(* InOrderOnce, position by position. *)
Agree ==
  \A p \in Ends :
    /\ Len(accepted[p]) <= Len(pushed[Peer(p)])
    /\ \A i \in 1 .. Len(accepted[p]) : accepted[p][i] = pushed[Peer(p)][i]

(* A filter has the number of the last message of each author. *)
FilterKnows ==
  \A p \in Ends : \A a \in Authors :
    /\ filter[p][a] # 0 =>
         \E i \in 1 .. Len(accepted[p]) : /\ accepted[p][i].author = a
                                          /\ accepted[p][i].seq = filter[p][a]
    /\ \A i \in 1 .. Len(accepted[p]) :
         accepted[p][i].author = a => accepted[p][i].seq <= filter[p][a]

(* What is acknowledged is at the end that acknowledges it. *)
AcksAreDelivered ==
  /\ \A p \in Ends : buf[p].ack <= Reach(p)
  /\ \A k \in net : k.ack <= Reach(Peer(k.to))

IInv ==
  /\ TypeOK
  /\ EndCounts
  /\ RingKeeps
  /\ RoomLeft
  /\ PacketsCarry
  /\ HandsCarry
  /\ Numbered
  /\ Agree
  /\ FilterKnows
  /\ PacketsLeaveNoHole
  /\ DroppedIsDelivered
  /\ AcksAreDelivered
-----------------------------------------------------------------------------
(* Quotient and remainder. *)
LEMMA ModDef ==
  ASSUME NEW n \in Nat, NEW r \in Nat \ {0}
  PROVE  /\ n % r \in 0 .. r - 1
         /\ n = (r * (n \div r)) + (n % r)
         /\ n \div r \in Nat
  OBVIOUS

(* A remainder is determined. *)
LEMMA ModUnique ==
  ASSUME NEW r \in Nat \ {0}, NEW a \in Int, NEW b \in Int, NEW x \in 0 .. r - 1, NEW y \in 0 .. r - 1,
         r * a + x = r * b + y
  PROVE  x = y
  OBVIOUS

(* The remainder of a number not far beyond another: it wraps at most once. *)
LEMMA ModNear ==
  ASSUME NEW r \in Nat \ {0}, NEW b \in Nat, NEW d \in 0 .. r - 1
  PROVE  (b + d) % r = IF (b % r) + d < r THEN (b % r) + d ELSE (b % r) + d - r
<1> DEFINE q == b \div r
           x == b % r
           s == (b + d) \div r
           y == (b + d) % r
<1>1. x \in 0 .. r - 1 /\ b = r * q + x /\ q \in Nat
  BY ModDef
<1>2. b + d \in Nat
  OBVIOUS
<1>3. y \in 0 .. r - 1 /\ b + d = r * s + y /\ s \in Nat
  BY ModDef, <1>2
<1> HIDE DEF q, x, s, y
<1>4. CASE x + d < r
  <2>1. x + d \in 0 .. r - 1 /\ r * q + (x + d) = r * s + y
    BY <1>1, <1>3, <1>4
  <2>2. x + d = y
    BY <2>1, <1>1, <1>3, ModUnique
  <2> QED BY <2>2, <1>4 DEF x, y
<1>5. CASE ~ (x + d < r)
  <2>1. x + d - r \in 0 .. r - 1
    BY <1>1, <1>5
  <2>2. r * (q + 1) = r * q + r
    BY <1>1
  <2>3. r * (q + 1) + (x + d - r) = r * s + y
    BY <1>1, <1>3, <2>2
  <2>4. q + 1 \in Int /\ s \in Int
    BY <1>1, <1>3
  <2>5. x + d - r = y
    BY <2>1, <2>3, <2>4, <1>3, ModUnique
  <2> QED BY <2>5, <1>5 DEF x, y
<1> QED BY <1>4, <1>5

(* A remainder may be taken before an addition. *)
LEMMA ModShift ==
  ASSUME NEW r \in Nat \ {0}, NEW b \in Nat, NEW d \in Nat
  PROVE  ((b % r) + d) % r = (b + d) % r
<1> DEFINE q == b \div r
           x == b % r
           s == (b + d) \div r
           y == (b + d) % r
           t == (x + d) \div r
           z == (x + d) % r
<1>1. x \in 0 .. r - 1 /\ b = r * q + x /\ q \in Nat
  BY ModDef
<1>2. b + d \in Nat /\ x + d \in Nat
  BY <1>1
<1>3. y \in 0 .. r - 1 /\ b + d = r * s + y /\ s \in Nat
  BY ModDef, <1>2
<1>4. z \in 0 .. r - 1 /\ x + d = r * t + z /\ t \in Nat
  BY ModDef, <1>2
<1> HIDE DEF q, x, s, y, t, z
<1>5. r * (q + t) = r * q + r * t
  BY <1>1, <1>4
<1>6. r * (q + t) + z = r * s + y
  BY <1>1, <1>3, <1>4, <1>5
<1>7. q + t \in Int /\ s \in Int
  BY <1>1, <1>3, <1>4
<1>8. z = y
  BY <1>6, <1>7, <1>3, <1>4, ModUnique
<1> QED BY <1>8 DEF x, y, z
(* Positions less than a ring apart have cells of their own. *)
LEMMA ModApart ==
  ASSUME NEW r \in Nat \ {0}, NEW b \in Nat, NEW e \in Nat, b < e, e - b < r
  PROVE  b % r # e % r
<1> DEFINE d == e - b
<1>1. d \in 0 .. r - 1 /\ d > 0 /\ b + d = e
  OBVIOUS
<1>2. b % r \in 0 .. r - 1
  BY ModDef
<1>3. (b + d) % r = IF (b % r) + d < r THEN (b % r) + d ELSE (b % r) + d - r
  BY ONLY <1>1, ModNear, r \in Nat \ {0}, b \in Nat
<1> QED BY <1>1, <1>2, <1>3

-----------------------------------------------------------------------------
(* What TypeOK says of a buffer. *)
Rings == [0 .. RingSize - 1 -> Msgs \cup {NoMsg}]
Buffers == [ack : Nat, begin : Nat \ {0}, end : Nat \ {0}, rbuf : Rings]

(* What ApplySeqAck and PushBattleMessage make of a buffer. *)
WithCounts(b, begin, ack) == [b EXCEPT !.begin = begin, !.ack = ack]
WithRing(b, rbuf, end) == [b EXCEPT !.rbuf = rbuf, !.end = end]

(* Two fields of a buffer replaced. *)
LEMMA CountsStored ==
  ASSUME NEW b \in Buffers, NEW x \in Nat, NEW y \in Nat \ {0}
  PROVE  LET c == WithCounts(b, y, x)
         IN  c \in Buffers /\ c.ack = x /\ c.begin = y /\ c.end = b.end /\ c.rbuf = b.rbuf
<1>1. [b EXCEPT !.begin = y] \in Buffers
  BY DEF Buffers
<1>2. [[b EXCEPT !.begin = y] EXCEPT !.ack = x] \in Buffers
  BY <1>1 DEF Buffers
<1>3. WithCounts(b, y, x) = [[b EXCEPT !.begin = y] EXCEPT !.ack = x]
  BY DEF Buffers, WithCounts
<1> QED
  BY <1>2, <1>3 DEF Buffers

(* The same, of the ring and its end. *)
LEMMA MessageStored ==
  ASSUME NEW b \in Buffers, NEW r \in Rings, NEW e \in Nat \ {0}
  PROVE  LET c == WithRing(b, r, e)
         IN  c \in Buffers /\ c.ack = b.ack /\ c.begin = b.begin /\ c.end = e /\ c.rbuf = r
<1>1. [b EXCEPT !.rbuf = r] \in Buffers
  BY DEF Buffers
<1>2. [[b EXCEPT !.rbuf = r] EXCEPT !.end = e] \in Buffers
  BY <1>1 DEF Buffers
<1>3. WithRing(b, r, e) = [[b EXCEPT !.rbuf = r] EXCEPT !.end = e]
  BY DEF Buffers, WithRing
<1> QED
  BY <1>2, <1>3 DEF Buffers

(* The two ends. *)
LEMMA Peers ==
  ASSUME NEW p \in Ends
  PROVE  /\ Peer(p) \in Ends /\ Peer(p) # p /\ Peer(Peer(p)) = p
         /\ \A q \in Ends : q = p \/ q = Peer(p)
<1>1. Peer(p) \in Ends /\ Peer(p) # p
  BY EndsAssumption DEF Peer
<1>2. Peer(Peer(p)) \in Ends /\ Peer(Peer(p)) # Peer(p)
  BY <1>1, EndsAssumption DEF Peer
<1> QED
  BY <1>1, <1>2, EndsAssumption

(* The types of an end's variables, one by one. *)
LEMMA EndTypes ==
  ASSUME TypeOK, NEW p \in Ends
  PROVE  /\ buf[p] \in Buffers
         /\ buf[p].ack \in Nat /\ buf[p].begin \in Nat \ {0} /\ buf[p].end \in Nat \ {0}
         /\ buf[p].rbuf \in Rings
         /\ pushed[p] \in Seq(Msgs) /\ Len(pushed[p]) \in Nat
         /\ accepted[p] \in Seq(Msgs) /\ Len(accepted[p]) \in Nat
         /\ handling[p] \in [data : Seq(Msgs), seq : Nat, at : Nat]
         /\ handling[p].data \in Seq(Msgs) /\ Len(handling[p].data) \in Nat
         /\ handling[p].seq \in Nat /\ handling[p].at \in Nat
         /\ handling[p] # Idle => handling[p].at \in 1 .. Len(handling[p].data)
         /\ filter[p] \in [Authors -> Nat]
<1>1. buf[p] \in Buffers
  BY DEF TypeOK, Buffers, Rings
<1>2. handling[p] \in [data : Seq(Msgs), seq : Nat, at : Nat]
  BY DEF TypeOK
<1>3. pushed[p] \in Seq(Msgs) /\ accepted[p] \in Seq(Msgs)
  BY DEF TypeOK
<1>4. filter[p] \in [Authors -> Nat]
  BY DEF TypeOK
<1>5. handling[p] # Idle => handling[p].at \in 1 .. Len(handling[p].data)
  BY DEF TypeOK
<1> QED
  BY <1>1, <1>2, <1>3, <1>4, <1>5 DEF Buffers

(* The types of a packet. *)
LEMMA PacketTypes ==
  ASSUME TypeOK, NEW k \in net
  PROVE  /\ k \in [to : Ends, data : Seq(Msgs), seq : Nat, ack : Nat]
         /\ k.to \in Ends /\ k.data \in Seq(Msgs) /\ Len(k.data) \in Nat
         /\ k.seq \in Nat /\ k.ack \in Nat
<1>1. k \in [to : Ends, data : Seq(Msgs), seq : Nat, ack : Nat]
  BY DEF TypeOK
<1> QED BY <1>1

(* The types of a message at a position. *)
LEMMA MsgTypes ==
  ASSUME NEW s \in Seq(Msgs), NEW i \in 1 .. Len(s)
  PROVE  /\ s[i] \in Msgs /\ s[i].author \in Authors /\ s[i].seq \in Nat \ {0}
<1>1. s[i] \in Msgs
  OBVIOUS
<1> QED BY <1>1 DEF Msgs

(* How far an end will have come is no further than what was pushed. *)
LEMMA ReachBound ==
  ASSUME TypeOK, HandsCarry, Agree, NEW p \in Ends
  PROVE  /\ Reach(p) \in Nat /\ Reach(p) >= Len(accepted[p])
         /\ Reach(p) <= Len(pushed[Peer(p)])
<1>1. /\ Len(accepted[p]) \in Nat /\ handling[p].seq \in Nat
      /\ Len(pushed[Peer(p)]) \in Nat
  BY EndTypes, Peers
<1>2. Len(accepted[p]) <= Len(pushed[Peer(p)])
  BY DEF Agree
<1>3. handling[p] # Idle => handling[p].seq <= Len(pushed[Peer(p)])
  BY DEF HandsCarry, IsStretch
<1> QED
  BY <1>1, <1>2, <1>3 DEF Reach

(* So begin does not pass the end. *)
LEMMA BeginBound ==
  ASSUME TypeOK, EndCounts, HandsCarry, Agree, DroppedIsDelivered, NEW p \in Ends
  PROVE  buf[p].begin <= buf[p].end
<1>1. buf[p].begin - 1 <= Reach(Peer(p))
  BY DEF DroppedIsDelivered
<1>2. Reach(Peer(p)) \in Nat /\ Reach(Peer(p)) <= Len(pushed[p])
  BY Peers, ReachBound
<1> QED
  BY <1>1, <1>2, EndTypes DEF EndCounts

(* GetSendData: the packet carries the oldest messages that were not       *)
(* acknowledged, as they were pushed.                                      *)
LEMMA PacketMade ==
  ASSUME TypeOK, EndCounts, RingKeeps, RoomLeft, HandsCarry, Agree,
         DroppedIsDelivered, NEW p \in Ends
  PROVE  LET k == Packet(p)
         IN  /\ k \in [to : Ends, data : Seq(Msgs), seq : Nat, ack : Nat]
             /\ k.to = Peer(p) /\ k.ack = buf[p].ack
             /\ k.seq - Len(k.data) = buf[p].begin - 1
             /\ IsStretch(k.data, k.seq, pushed[p])
<1> DEFINE R == RingSize
           b == buf[p].begin
           e == SendEnd(buf[p])
           d == e - b
           ring == buf[p].rbuf
           data == Slots(ring, b % R, e % R)
<1>1. /\ R \in Nat \ {0} /\ Window \in Nat \ {0} /\ Window < R
  BY NumbersAssumption
<1>2. /\ b \in Nat \ {0} /\ buf[p].end \in Nat \ {0} /\ buf[p].ack \in Nat
      /\ pushed[p] \in Seq(Msgs) /\ Len(pushed[p]) \in Nat
      /\ buf[p].end = Len(pushed[p]) + 1
  BY EndTypes DEF EndCounts
<1>3. b <= buf[p].end
  BY BeginBound
<1>4. e \in Nat \ {0} /\ b <= e /\ e <= buf[p].end /\ d \in 0 .. R - 1 /\ b + d = e
  <2>1. e = IF b + Window < buf[p].end THEN b + Window ELSE buf[p].end
    BY DEF SendEnd
  <2> HIDE DEF e, b
  <2> QED BY <2>1, <1>1, <1>2, <1>3
<1>5. buf[p].end - b <= R
  <2>1. b - 1 \in AcksTowards(p)
    BY DEF AcksTowards
  <2>2. buf[p].end - (b - 1) <= R + 1
    BY <2>1 DEF RoomLeft
  <2> QED BY <2>2, <1>1, <1>2
<1> HIDE DEF R, b, e, d, ring
<1>6. data = [i \in 1 .. d |-> ring[((b % R) + i - 1) % R]]
  <2>1. b % R \in 0 .. R - 1
    BY <1>1, <1>2, ModDef
  <2>2. (b + d) % R = IF (b % R) + d < R THEN (b % R) + d ELSE (b % R) + d - R
    BY <1>1, <1>2, <1>4, ModNear
  <2>3. e % R = IF (b % R) + d < R THEN (b % R) + d ELSE (b % R) + d - R
    BY <2>2, <1>4
  <2>4. (IF b % R <= e % R THEN (e % R) - (b % R) ELSE R - (b % R) + (e % R)) = d
    BY <2>1, <2>3, <1>1, <1>4
  <2> QED BY <2>4 DEF Slots, R
<1>7. ASSUME NEW i \in 1 .. d
      PROVE  /\ ring[((b % R) + i - 1) % R] = pushed[p][b - 1 + i]
             /\ pushed[p][b - 1 + i] \in Msgs
  <2> DEFINE j == b - 1 + i
  <2>1. j \in 1 .. Len(pushed[p]) /\ buf[p].end - j <= R
    BY <1>2, <1>3, <1>4, <1>5, <1>1
  <2>2. ring[j % R] = pushed[p][j]
    BY <2>1 DEF RingKeeps, R, ring
  <2>b. b \in Nat /\ b % R \in 0 .. R - 1
    BY <1>1, <1>2, ModDef
  <2>3. i - 1 \in Nat /\ b % R \in 0 .. R - 1 /\ d \in Nat
    BY <2>b, <1>1, <1>4
  <2>4. ((b % R) + (i - 1)) % R = (b + (i - 1)) % R
    BY <2>3, <1>1, <1>2, ModShift
  <2>5. (b % R) + i - 1 = (b % R) + (i - 1) /\ b + (i - 1) = j
    BY <2>3, <1>1, <1>2
  <2>6. pushed[p][j] \in Msgs
    BY <2>1, <1>2
  <2> QED BY <2>2, <2>4, <2>5, <2>6
<1> HIDE DEF data
<1>8. /\ data \in [1 .. d -> Msgs] /\ d \in Nat
      /\ \A i \in 1 .. d : data[i] = pushed[p][b - 1 + i]
  <2>1. d \in Nat
    BY <1>4, <1>1
  <2>2. \A i \in 1 .. d : data[i] = ring[((b % R) + i - 1) % R]
    BY <1>6
  <2>3. \A i \in 1 .. d : data[i] = pushed[p][b - 1 + i] /\ data[i] \in Msgs
    BY <2>2, <1>7
  <2>4. DOMAIN data = 1 .. d /\ data = [i \in 1 .. d |-> data[i]]
    BY <1>6
  <2> QED BY <2>1, <2>3, <2>4
<1>9. data \in Seq(Msgs) /\ Len(data) = d
  BY <1>8
<1>10. Packet(p) = [to |-> Peer(p), data |-> data, seq |-> e - 1, ack |-> buf[p].ack]
  BY DEF Packet, data, e, b, ring, R
<1>11. e - 1 \in Nat /\ (e - 1) - d = b - 1 /\ e - 1 <= Len(pushed[p]) /\ d <= e - 1
  BY <1>4, <1>2
<1>12. IsStretch(data, e - 1, pushed[p])
  BY <1>8, <1>9, <1>11 DEF IsStretch
<1>13. Peer(p) \in Ends
  BY Peers
<1> QED
  BY <1>2, <1>9, <1>10, <1>11, <1>12, <1>13 DEF b

-----------------------------------------------------------------------------
(* What each action does to the parts of the state.                        *)

(* A pushed message goes into the cell of the end, which moves on. *)
LEMMA PushEffect ==
  ASSUME TypeOK, NEW a \in Authors, PushBattleMessage(a)
  PROVE  LET p == WriterAt[a]
             m == [author |-> a, seq |-> nextSeq[a]]
         IN  /\ p \in Ends /\ m \in Msgs /\ nextSeq[a] \in Nat \ {0}
             /\ buf' \in [Ends -> Buffers]
             /\ buf'[p].ack = buf[p].ack /\ buf'[p].begin = buf[p].begin
             /\ buf'[p].end = buf[p].end + 1
             /\ buf'[p].rbuf = [buf[p].rbuf EXCEPT ![buf[p].end % RingSize] = m]
             /\ \A q \in Ends : q # p => buf'[q] = buf[q] /\ pushed'[q] = pushed[q]
             /\ nextSeq' = [nextSeq EXCEPT ![a] = nextSeq[a] + 1]
             /\ pushed'[p] = Append(pushed[p], m) /\ pushed' \in [Ends -> Seq(Msgs)]
             /\ Len(pushed'[p]) = Len(pushed[p]) + 1
             /\ pushed'[p][Len(pushed[p]) + 1] = m
             /\ \A i \in 1 .. Len(pushed[p]) : pushed'[p][i] = pushed[p][i]
             /\ UNCHANGED <<filter, handling, net, accepted>>
<1> DEFINE p == WriterAt[a]
           m == [author |-> a, seq |-> nextSeq[a]]
           c == buf[p].end % RingSize
           r == [buf[p].rbuf EXCEPT ![c] = m]
           b == WithRing(buf[p], r, buf[p].end + 1)
<1>1. p \in Ends
  BY AuthorsAssumption
<1>2. nextSeq[a] \in Nat \ {0} /\ m \in Msgs
  BY DEF TypeOK, Msgs
<1>3. /\ buf[p] \in Buffers
      /\ buf[p].end \in Nat \ {0} /\ buf[p].rbuf \in Rings
      /\ pushed[p] \in Seq(Msgs)
  BY <1>1, EndTypes
<1>4. r \in Rings
  BY <1>2, <1>3 DEF Rings
<1>5. buf' = [buf EXCEPT ![p] = b]
  BY DEF PushBattleMessage, WithRing
<1>6. /\ b \in Buffers
      /\ b.ack = buf[p].ack /\ b.begin = buf[p].begin /\ b.end = buf[p].end + 1 /\ b.rbuf = r
  <2>1. buf[p].end + 1 \in Nat \ {0}
    BY <1>3
  <2>2. buf[p] \in Buffers /\ r \in Rings
    BY <1>3, <1>4
  <2> HIDE DEF r
  <2> QED BY <2>1, <2>2, MessageStored
<1>7. pushed' = [pushed EXCEPT ![p] = Append(pushed[p], m)]
  BY DEF PushBattleMessage
<1>8. /\ nextSeq' = [nextSeq EXCEPT ![a] = nextSeq[a] + 1]
      /\ UNCHANGED <<filter, handling, net, accepted>>
  BY DEF PushBattleMessage
<1> HIDE DEF p, m, r, b
<1>9. buf \in [Ends -> Buffers]
      /\ pushed \in [Ends -> Seq(Msgs)]
  BY DEF TypeOK, Buffers, Rings
<1>10. /\ buf' \in [Ends -> Buffers]
       /\ buf'[p] = b /\ \A q \in Ends : q # p => buf'[q] = buf[q]
  BY <1>1, <1>5, <1>6, <1>9
<1>11. /\ Append(pushed[p], m) \in Seq(Msgs)
       /\ Len(Append(pushed[p], m)) = Len(pushed[p]) + 1
       /\ Append(pushed[p], m)[Len(pushed[p]) + 1] = m
       /\ \A i \in 1 .. Len(pushed[p]) : Append(pushed[p], m)[i] = pushed[p][i]
  BY <1>2, <1>3, AppendProperties
<1>12. /\ pushed' \in [Ends -> Seq(Msgs)] /\ pushed'[p] = Append(pushed[p], m)
       /\ \A q \in Ends : q # p => pushed'[q] = pushed[q]
  BY <1>1, <1>7, <1>9, <1>11
<1> QED
  BY <1>1, <1>2, <1>6, <1>8, <1>10, <1>11, <1>12 DEF p, m, r, c

(* ApplySeqAck stores the two counts of the packet. *)
LEMMA ApplyEffect ==
  ASSUME TypeOK, NEW p \in Ends, NEW k \in net, ApplySeqAck(p, k)
  PROVE  /\ k.to = p /\ handling[p] = Idle
         /\ buf' \in [Ends -> Buffers]
         /\ buf'[p].ack = k.seq /\ buf'[p].begin = k.ack + 1
         /\ buf'[p].end = buf[p].end /\ buf'[p].rbuf = buf[p].rbuf
         /\ \A q \in Ends : q # p => buf'[q] = buf[q] /\ handling'[q] = handling[q]
         /\ handling'[p] = IF k.data = <<>> THEN Idle
                           ELSE [data |-> k.data, seq |-> k.seq, at |-> 1]
         /\ handling' \in [Ends -> [data : Seq(Msgs), seq : Nat, at : Nat]]
         /\ net' \subseteq net
         /\ UNCHANGED <<filter, nextSeq, pushed, accepted>>
<1> DEFINE b == WithCounts(buf[p], k.ack + 1, k.seq)
           h == IF k.data = <<>> THEN Idle ELSE [data |-> k.data, seq |-> k.seq, at |-> 1]
<1>1. buf[p] \in Buffers
  BY EndTypes
<1>2. k.data \in Seq(Msgs) /\ k.seq \in Nat /\ k.ack \in Nat
  BY PacketTypes
<1>3. /\ b \in Buffers
      /\ b.ack = k.seq /\ b.begin = k.ack + 1 /\ b.end = buf[p].end /\ b.rbuf = buf[p].rbuf
  <2>1. k.ack + 1 \in Nat \ {0}
    BY <1>2
  <2>2. \A y \in Nat \ {0} :
          LET c == WithCounts(buf[p], y, k.seq)
          IN  c \in Buffers /\ c.ack = k.seq /\ c.begin = y
              /\ c.end = buf[p].end /\ c.rbuf = buf[p].rbuf
    BY <1>1, <1>2, CountsStored
  <2> QED BY <2>1, <2>2
<1>4. h \in [data : Seq(Msgs), seq : Nat, at : Nat]
  BY <1>2 DEF Idle
<1>5. buf' = [buf EXCEPT ![p] = b]
  BY DEF ApplySeqAck, WithCounts
<1>6. handling' = [handling EXCEPT ![p] = h]
  BY DEF ApplySeqAck
<1>7. /\ k.to = p /\ handling[p] = Idle /\ net' \subseteq net
      /\ UNCHANGED <<filter, nextSeq, pushed, accepted>>
  BY DEF ApplySeqAck
<1> HIDE DEF b, h
<1>8. /\ buf \in [Ends -> Buffers]
      /\ handling \in [Ends -> [data : Seq(Msgs), seq : Nat, at : Nat]]
  BY DEF TypeOK, Buffers, Rings
<1>9. /\ buf' \in [Ends -> Buffers]
      /\ buf'[p] = b /\ \A q \in Ends : q # p => buf'[q] = buf[q]
  BY <1>3, <1>5, <1>8
<1>10. /\ handling' \in [Ends -> [data : Seq(Msgs), seq : Nat, at : Nat]]
       /\ handling'[p] = h /\ \A q \in Ends : q # p => handling'[q] = handling[q]
  BY <1>4, <1>6, <1>8
<1> QED
  BY <1>3, <1>7, <1>9, <1>10 DEF h

(* The next message of a packet is one the end has, and is not let         *)
(* through, or the first it lacks, and is.                                 *)
LEMMA Verdict ==
  ASSUME TypeOK, Numbered, Agree, FilterKnows, HandsCarry,
         NEW p \in Ends, handling[p] # Idle
  PROVE  LET m == handling[p].data[handling[p].at]
         IN  /\ m \in Msgs /\ Position(p) \in 1 .. Len(pushed[Peer(p)])
             /\ m = pushed[Peer(p)][Position(p)]
             /\ \/ ~ Accepts(p, m) /\ Position(p) <= Len(accepted[p])
                \/ Accepts(p, m) /\ Position(p) = Len(accepted[p]) + 1
<1> DEFINE h == handling[p]
           q == Peer(p)
           L == Len(accepted[p])
           pos == Position(p)
           m == pushed[q][pos]
           f == filter[p][m.author]
<1>1. /\ q \in Ends /\ pushed[q] \in Seq(Msgs) /\ Len(pushed[q]) \in Nat
      /\ accepted[p] \in Seq(Msgs) /\ L \in Nat
      /\ h.data \in Seq(Msgs) /\ Len(h.data) \in Nat /\ h.seq \in Nat
      /\ h.at \in Nat /\ h.at \in 1 .. Len(h.data)
      /\ filter[p] \in [Authors -> Nat]
  BY EndTypes, Peers
<1>2. IsStretch(h.data, h.seq, pushed[q]) /\ pos <= L + 1
  BY DEF HandsCarry
<1>3. pos = h.seq - Len(h.data) + h.at
  BY DEF Position
<1> HIDE DEF h, q, L, pos
<1>4. pos \in 1 .. Len(pushed[q]) /\ h.data[h.at] = m
  <2>1. /\ h.seq <= Len(pushed[q]) /\ Len(h.data) <= h.seq
        /\ h.data[h.at] = pushed[q][h.seq - Len(h.data) + h.at]
    BY <1>1, <1>2 DEF IsStretch
  <2> QED BY <2>1, <1>1, <1>3
<1>5. m \in Msgs /\ m.author \in Authors /\ m.seq \in Nat \ {0}
  BY <1>1, <1>4, MsgTypes
<1> HIDE DEF m
<1>6. f \in Nat
  BY <1>1, <1>5
<1>7. /\ L <= Len(pushed[q])
      /\ \A i \in 1 .. L : accepted[p][i] = pushed[q][i]
  BY DEF Agree, L, q
<1>8. /\ f # 0 => \E i \in 1 .. L : pushed[q][i].author = m.author /\ pushed[q][i].seq = f
      /\ \A i \in 1 .. L : pushed[q][i].author = m.author => pushed[q][i].seq <= f
  <2>1. /\ f # 0 => \E i \in 1 .. L : accepted[p][i].author = m.author
                                       /\ accepted[p][i].seq = f
        /\ \A i \in 1 .. L : accepted[p][i].author = m.author => accepted[p][i].seq <= f
    BY <1>5 DEF FilterKnows, L
  <2> QED BY <2>1, <1>7
<1> HIDE DEF f
<1>9. CASE pos <= L
  <2>1. pos \in 1 .. L
    BY <1>1, <1>4, <1>9
  <2>2. m.seq <= f
    BY <1>8, <2>1 DEF m
  <2>3. ~ Accepts(p, m)
    BY <2>2, <1>5, <1>6 DEF Accepts, f
  <2> QED BY <2>3, <1>9, <1>4, <1>5 DEF h, m, pos, q, L
<1>10. CASE pos = L + 1
  <2>1. ASSUME f # 0 PROVE m.seq = f + 1
    <3>1. PICK i \in 1 .. L : pushed[q][i].author = m.author /\ pushed[q][i].seq = f
      BY <1>8, <2>1
    <3>2. i \in 1 .. pos - 1
      BY <1>1, <1>10
    <3>3. /\ pushed[q][i].seq < m.seq
          /\ \E n \in 1 .. pos - 1 : pushed[q][n].author = m.author
                                     /\ pushed[q][n].seq = m.seq - 1
      BY <1>1, <1>4, <3>1, <3>2 DEF Numbered, m
    <3>4. m.seq - 1 <= f
      BY <3>3, <1>8, <1>10, <1>1
    <3> QED BY <3>1, <3>3, <3>4, <1>5, <1>6
  <2>2. Accepts(p, m)
    BY <2>1 DEF Accepts, f
  <2> QED BY <2>2, <1>10, <1>4, <1>5 DEF h, m, pos, q, L
<1> QED
  BY <1>1, <1>2, <1>4, <1>9, <1>10

(* So Filter drops a message the end has, or passes on the first it lacks; *)
(* and it goes to the next message of the packet.                          *)
LEMMA FilterEffect ==
  ASSUME TypeOK, Numbered, Agree, FilterKnows, HandsCarry, NEW p \in Ends, Filter(p)
  PROVE  LET h == handling[p]
             m == pushed[Peer(p)][Position(p)]
             L == Len(accepted[p])
         IN  /\ h # Idle /\ m \in Msgs /\ Position(p) \in 1 .. Len(pushed[Peer(p)])
             /\ \/ Position(p) <= L /\ UNCHANGED <<filter, accepted>>
                \/ /\ Position(p) = L + 1
                   /\ filter' = [filter EXCEPT ![p][m.author] = m.seq]
                   /\ accepted' = [accepted EXCEPT ![p] = Append(accepted[p], m)]
             /\ handling'[p] = IF h.at = Len(h.data) THEN Idle ELSE [h EXCEPT !.at = h.at + 1]
             /\ \A q \in Ends : q # p => handling'[q] = handling[q]
             /\ handling' \in [Ends -> [data : Seq(Msgs), seq : Nat, at : Nat]]
             /\ UNCHANGED <<buf, nextSeq, net, pushed>>
<1> DEFINE h == handling[p]
           m == h.data[h.at]
           n == IF h.at = Len(h.data) THEN Idle ELSE [h EXCEPT !.at = h.at + 1]
<1>1. h # Idle /\ UNCHANGED <<buf, nextSeq, net, pushed>>
  BY DEF Filter
<1>2. /\ m \in Msgs /\ Position(p) \in 1 .. Len(pushed[Peer(p)])
      /\ m = pushed[Peer(p)][Position(p)]
      /\ \/ ~ Accepts(p, m) /\ Position(p) <= Len(accepted[p])
         \/ Accepts(p, m) /\ Position(p) = Len(accepted[p]) + 1
  BY <1>1, Verdict
<1>3. /\ IF Accepts(p, m)
         THEN /\ filter' = [filter EXCEPT ![p][m.author] = m.seq]
              /\ accepted' = [accepted EXCEPT ![p] = Append(accepted[p], m)]
         ELSE UNCHANGED <<filter, accepted>>
      /\ handling' = [handling EXCEPT ![p] = n]
  BY DEF Filter
<1>4. h \in [data : Seq(Msgs), seq : Nat, at : Nat] /\ h.at \in Nat
  BY EndTypes
<1>5. Idle \in [data : Seq(Msgs), seq : Nat, at : Nat]
  BY DEF Idle
<1>6. n \in [data : Seq(Msgs), seq : Nat, at : Nat]
  BY <1>4, <1>5
<1> HIDE DEF h, m, n
<1>7. handling \in [Ends -> [data : Seq(Msgs), seq : Nat, at : Nat]]
  BY DEF TypeOK
<1>8. /\ handling' \in [Ends -> [data : Seq(Msgs), seq : Nat, at : Nat]]
      /\ handling'[p] = n /\ \A q \in Ends : q # p => handling'[q] = handling[q]
  BY <1>3, <1>6, <1>7
<1>9. \/ Position(p) <= Len(accepted[p]) /\ UNCHANGED <<filter, accepted>>
      \/ /\ Position(p) = Len(accepted[p]) + 1
         /\ filter' = [filter EXCEPT ![p][m.author] = m.seq]
         /\ accepted' = [accepted EXCEPT ![p] = Append(accepted[p], m)]
  BY <1>2, <1>3
<1>10. m = pushed[Peer(p)][Position(p)]
  BY <1>2
<1> QED
  BY <1>1, <1>2, <1>8, <1>9, <1>10 DEF h, n

(* What is accepted only grows, by one message at most. *)
LEMMA AcceptedGrows ==
  ASSUME TypeOK, Numbered, Agree, FilterKnows, HandsCarry, NEW p \in Ends, Filter(p)
  PROVE  /\ \A q \in Ends : q # p => accepted'[q] = accepted[q] /\ filter'[q] = filter[q]
         /\ accepted' \in [Ends -> Seq(Msgs)] /\ filter' \in [Ends -> [Authors -> Nat]]
         /\ \/ /\ Position(p) <= Len(accepted[p])
               /\ accepted'[p] = accepted[p] /\ filter'[p] = filter[p]
            \/ LET L == Len(accepted[p])
                   m == pushed[Peer(p)][L + 1]
               IN  /\ Position(p) = L + 1 /\ L + 1 <= Len(pushed[Peer(p)]) /\ m \in Msgs
                   /\ Len(accepted'[p]) = L + 1 /\ accepted'[p][L + 1] = m
                   /\ \A i \in 1 .. L : accepted'[p][i] = accepted[p][i]
                   /\ filter'[p] = [filter[p] EXCEPT ![m.author] = m.seq]
<1> DEFINE m == pushed[Peer(p)][Position(p)]
           L == Len(accepted[p])
           s == Append(accepted[p], m)
           f == [filter[p] EXCEPT ![m.author] = m.seq]
<1>1. /\ m \in Msgs /\ Position(p) \in 1 .. Len(pushed[Peer(p)])
      /\ \/ Position(p) <= L /\ UNCHANGED <<filter, accepted>>
         \/ /\ Position(p) = L + 1
            /\ filter' = [filter EXCEPT ![p][m.author] = m.seq]
            /\ accepted' = [accepted EXCEPT ![p] = s]
  BY FilterEffect
<1>2. /\ accepted \in [Ends -> Seq(Msgs)] /\ filter \in [Ends -> [Authors -> Nat]]
      /\ accepted[p] \in Seq(Msgs) /\ filter[p] \in [Authors -> Nat] /\ L \in Nat
  BY EndTypes DEF TypeOK
<1>3. CASE Position(p) <= L /\ UNCHANGED <<filter, accepted>>
  BY <1>2, <1>3
<1>4. CASE /\ Position(p) = L + 1
           /\ filter' = [filter EXCEPT ![p][m.author] = m.seq]
           /\ accepted' = [accepted EXCEPT ![p] = s]
  <2>1. /\ s \in Seq(Msgs) /\ Len(s) = L + 1 /\ s[L + 1] = m
        /\ \A i \in 1 .. L : s[i] = accepted[p][i]
    BY <1>1, <1>2, AppendProperties
  <2>2. m.author \in Authors /\ m.seq \in Nat
    BY <1>1 DEF Msgs
  <2>3. f \in [Authors -> Nat]
    BY <1>2, <2>2
  <2>4. filter' = [filter EXCEPT ![p] = f]
    BY <1>4
  <2>5. m = pushed[Peer(p)][L + 1] /\ L + 1 <= Len(pushed[Peer(p)])
    <3>1. Len(pushed[Peer(p)]) \in Nat
      BY Peers, EndTypes
    <3> QED BY <3>1, <1>1, <1>4, <1>2
  <2> HIDE DEF s, f, m, L
  <2>6. /\ accepted' \in [Ends -> Seq(Msgs)] /\ accepted'[p] = s
        /\ \A q \in Ends : q # p => accepted'[q] = accepted[q]
    BY <1>2, <1>4, <2>1
  <2>7. /\ filter' \in [Ends -> [Authors -> Nat]] /\ filter'[p] = f
        /\ \A q \in Ends : q # p => filter'[q] = filter[q]
    BY <1>2, <2>3, <2>4
  <2>8. m \in Msgs
    BY <1>1
  <2>9. /\ Position(p) = L + 1 /\ L + 1 <= Len(pushed[Peer(p)])
        /\ Len(accepted'[p]) = L + 1 /\ accepted'[p][L + 1] = m
        /\ \A i \in 1 .. L : accepted'[p][i] = accepted[p][i]
        /\ filter'[p] = [filter[p] EXCEPT ![m.author] = m.seq]
    BY <1>4, <2>1, <2>5, <2>6, <2>7 DEF f
  <2> QED
    BY <2>5, <2>6, <2>7, <2>8, <2>9 DEF L
<1> QED
  BY <1>1, <1>3, <1>4

(* A packet is added to the network, with nothing else changed. *)
LEMMA FlushEffect ==
  ASSUME NEW p \in Ends, Flush(p)
  PROVE  /\ net' = net \cup {Packet(p)}
         /\ UNCHANGED <<buf, filter, nextSeq, handling, pushed, accepted>>
  BY DEF Flush

-----------------------------------------------------------------------------
(* Each part of the invariant is kept by each action.                      *)

(* Types. *)
LEMMA TypeStep ==
  ASSUME IInv, [Next]_vars
  PROVE  TypeOK'
<1> USE DEF IInv
<1>1. ASSUME NEW a \in Authors, PushBattleMessage(a)
      PROVE  TypeOK'
  <2>1. nextSeq' \in [Authors -> Nat \ {0}]
    <3>1. nextSeq' = [nextSeq EXCEPT ![a] = nextSeq[a] + 1] /\ nextSeq[a] \in Nat \ {0}
      BY <1>1, PushEffect
    <3>2. nextSeq[a] + 1 \in Nat \ {0} /\ nextSeq \in [Authors -> Nat \ {0}]
      BY <3>1 DEF TypeOK
    <3> QED BY <3>1, <3>2
  <2>2. /\ buf' \in [Ends -> Buffers] /\ pushed' \in [Ends -> Seq(Msgs)]
        /\ UNCHANGED <<filter, handling, net, accepted>>
    BY <1>1, PushEffect
  <2> QED BY <2>1, <2>2 DEF TypeOK, Buffers, Rings
<1>2. ASSUME NEW p \in Ends, Flush(p)
      PROVE  TypeOK'
  <2>1. Packet(p) \in [to : Ends, data : Seq(Msgs), seq : Nat, ack : Nat]
    BY PacketMade
  <2>2. /\ net' = net \cup {Packet(p)}
        /\ UNCHANGED <<buf, filter, nextSeq, handling, pushed, accepted>>
    BY <1>2, FlushEffect
  <2> QED BY <2>1, <2>2 DEF TypeOK
<1>3. ASSUME NEW p \in Ends, NEW k \in net, ApplySeqAck(p, k)
      PROVE  TypeOK'
  <2>1. /\ buf' \in [Ends -> Buffers]
        /\ handling' \in [Ends -> [data : Seq(Msgs), seq : Nat, at : Nat]]
        /\ net' \subseteq net /\ UNCHANGED <<filter, nextSeq, pushed, accepted>>
    BY <1>3, ApplyEffect
  <2>2. ASSUME NEW q \in Ends
        PROVE  handling'[q] = Idle \/ handling'[q].at \in 1 .. Len(handling'[q].data)
    <3>1. CASE q = p
      <4>1. handling'[p] = IF k.data = <<>> THEN Idle
                           ELSE [data |-> k.data, seq |-> k.seq, at |-> 1]
        BY <1>3, ApplyEffect
      <4>2. k.data \in Seq(Msgs) /\ (k.data # <<>> => Len(k.data) \in Nat \ {0})
        BY PacketTypes, EmptySeq
      <4>3. k.data # <<>> => 1 \in 1 .. Len(k.data)
        BY <4>2
      <4> QED BY <3>1, <4>1, <4>3
    <3>2. CASE q # p
      <4>1. handling'[q] = handling[q]
        BY <1>3, <3>2, ApplyEffect
      <4> QED BY <4>1 DEF TypeOK
    <3> QED BY <3>1, <3>2
  <2> QED BY <2>1, <2>2 DEF TypeOK, Buffers, Rings
<1>4. ASSUME NEW p \in Ends, Filter(p)
      PROVE  TypeOK'
  <2>1. /\ handling' \in [Ends -> [data : Seq(Msgs), seq : Nat, at : Nat]]
        /\ UNCHANGED <<buf, nextSeq, net, pushed>>
    BY <1>4, FilterEffect
  <2>2. accepted' \in [Ends -> Seq(Msgs)] /\ filter' \in [Ends -> [Authors -> Nat]]
    BY <1>4, AcceptedGrows
  <2>3. ASSUME NEW q \in Ends
        PROVE  handling'[q] = Idle \/ handling'[q].at \in 1 .. Len(handling'[q].data)
    <3>1. CASE q = p
      <4>1. /\ handling[p] # Idle
            /\ handling'[p] = IF handling[p].at = Len(handling[p].data) THEN Idle
                              ELSE [handling[p] EXCEPT !.at = handling[p].at + 1]
        BY <1>4, FilterEffect
      <4>2. /\ handling[p] \in [data : Seq(Msgs), seq : Nat, at : Nat]
            /\ handling[p].at \in 1 .. Len(handling[p].data) /\ Len(handling[p].data) \in Nat
        BY <4>1, EndTypes
      <4> QED BY <3>1, <4>1, <4>2
    <3>2. CASE q # p
      <4>1. handling'[q] = handling[q]
        BY <1>4, <3>2, FilterEffect
      <4> QED BY <4>1 DEF TypeOK
    <3> QED BY <3>1, <3>2
  <2> QED BY <2>1, <2>2, <2>3 DEF TypeOK
<1>5. ASSUME NEW k \in net, Lose(k)
      PROVE  TypeOK'
  BY <1>5 DEF Lose, TypeOK
<1>6. CASE UNCHANGED vars
  BY <1>6 DEF vars, TypeOK
<1> QED
  BY <1>1, <1>2, <1>3, <1>4, <1>5, <1>6 DEF Next, Receive

(* The end of a buffer, and its ring. *)
LEMMA RingStep ==
  ASSUME IInv, [Next]_vars
  PROVE  EndCounts' /\ RingKeeps'
<1> USE DEF IInv
<1> DEFINE Holds(q) ==
      /\ buf'[q].end = Len(pushed'[q]) + 1
      /\ \A i \in 1 .. Len(pushed'[q]) :
           buf'[q].end - i <= RingSize => buf'[q].rbuf[i % RingSize] = pushed'[q][i]
<1>1. ASSUME NEW q \in Ends,
             buf'[q].end = buf[q].end, buf'[q].rbuf = buf[q].rbuf, pushed'[q] = pushed[q]
      PROVE  Holds(q)
  BY <1>1 DEF EndCounts, RingKeeps
<1>2. ASSUME NEW a \in Authors, PushBattleMessage(a), NEW q \in Ends
      PROVE  Holds(q)
  <2> DEFINE p == WriterAt[a]
             m == [author |-> a, seq |-> nextSeq[a]]
             n == Len(pushed[p])
             R == RingSize
  <2>1. /\ p \in Ends
        /\ buf'[p].end = buf[p].end + 1
        /\ buf'[p].rbuf = [buf[p].rbuf EXCEPT ![buf[p].end % R] = m]
        /\ \A r \in Ends : r # p => buf'[r] = buf[r] /\ pushed'[r] = pushed[r]
        /\ Len(pushed'[p]) = n + 1 /\ pushed'[p][n + 1] = m
        /\ \A i \in 1 .. n : pushed'[p][i] = pushed[p][i]
    BY <1>2, PushEffect
  <2>2. /\ buf[p].end = n + 1 /\ n \in Nat /\ buf[p].rbuf \in Rings
        /\ \A i \in 1 .. n : buf[p].end - i <= R => buf[p].rbuf[i % R] = pushed[p][i]
    BY <2>1, EndTypes DEF EndCounts, RingKeeps
  <2>3. R \in Nat \ {0}
    BY NumbersAssumption
  <2> HIDE DEF p, m, n, R
  <2>4. CASE q # p
    BY <2>1, <2>4, <1>1
  <2>5. CASE q = p
    <3>1. (n + 1) % R \in 0 .. R - 1
      BY <2>2, <2>3, ModDef
    <3>2. buf'[p].rbuf[(n + 1) % R] = m
      BY <2>1, <2>2, <3>1 DEF Rings, R
    <3>3. ASSUME NEW i \in 1 .. n + 1, buf'[p].end - i <= R
          PROVE  buf'[p].rbuf[i % R] = pushed'[p][i]
      <4>1. CASE i = n + 1
        BY <4>1, <3>2, <2>1
      <4>2. CASE i # n + 1
        <5>1. i \in 1 .. n /\ i \in Nat /\ n + 1 \in Nat /\ i < n + 1 /\ (n + 1) - i < R
          BY <4>2, <3>3, <2>1, <2>2, <2>3
        <5>2. i % R # (n + 1) % R
          BY <5>1, <2>3, ModApart
        <5>3. i % R \in 0 .. R - 1
          BY <5>1, <2>3, ModDef
        <5>4. buf'[p].rbuf[i % R] = buf[p].rbuf[i % R]
          BY <2>1, <2>2, <5>2, <5>3 DEF Rings, R
        <5>5. buf[p].end - i <= R
          BY <5>1, <2>2, <2>3
        <5> QED BY <5>1, <5>4, <5>5, <2>1, <2>2
      <4> QED BY <4>1, <4>2
    <3> QED BY <2>1, <2>2, <2>5, <3>3 DEF R
  <2> QED BY <2>4, <2>5
<1>3. ASSUME NEW p \in Ends, Flush(p), NEW q \in Ends
      PROVE  Holds(q)
  BY <1>1, <1>3, FlushEffect
<1>4. ASSUME NEW p \in Ends, NEW k \in net, ApplySeqAck(p, k), NEW q \in Ends
      PROVE  Holds(q)
  <2>1. buf'[q].end = buf[q].end /\ buf'[q].rbuf = buf[q].rbuf /\ pushed'[q] = pushed[q]
    BY <1>4, ApplyEffect
  <2> QED BY <2>1, <1>1
<1>5. ASSUME NEW p \in Ends, Filter(p), NEW q \in Ends
      PROVE  Holds(q)
  BY <1>1, <1>5 DEF Filter
<1>6. ASSUME NEW k \in net, Lose(k), NEW q \in Ends
      PROVE  Holds(q)
  BY <1>1, <1>6 DEF Lose
<1>7. ASSUME UNCHANGED vars, NEW q \in Ends
      PROVE  Holds(q)
  BY <1>1, <1>7 DEF vars
<1> HIDE DEF Holds
<1>8. \A q \in Ends : Holds(q)
  BY <1>2, <1>3, <1>4, <1>5, <1>6, <1>7 DEF Next, Receive
<1> QED
  BY <1>8 DEF Holds, EndCounts, RingKeeps

(* What may be told to have been received only becomes less, except that a *)
(* push, which looks first, moves the end on.                              *)
LEMMA RoomStep ==
  ASSUME IInv, [Next]_vars
  PROVE  RoomLeft'
<1> USE DEF IInv
<1> DEFINE Holds(q) == \A a \in AcksTowards(q)' : buf'[q].end - a <= RingSize + 1
<1>1. ASSUME NEW q \in Ends, buf'[q].end = buf[q].end, AcksTowards(q)' \subseteq AcksTowards(q)
      PROVE  Holds(q)
  BY <1>1 DEF RoomLeft
<1>2. ASSUME NEW a \in Authors, PushBattleMessage(a), NEW q \in Ends
      PROVE  Holds(q)
  <2> DEFINE p == WriterAt[a]
  <2>1. /\ p \in Ends /\ net' = net
        /\ buf'[p].ack = buf[p].ack /\ buf'[p].begin = buf[p].begin
        /\ buf'[p].end = buf[p].end + 1
        /\ \A r \in Ends : r # p => buf'[r] = buf[r]
    BY <1>2, PushEffect
  <2> HIDE DEF p
  <2>2. buf'[q].begin = buf[q].begin /\ buf'[Peer(q)].ack = buf[Peer(q)].ack
    BY <2>1, Peers
  <2>3. AcksTowards(q)' = AcksTowards(q)
    BY <2>1, <2>2 DEF AcksTowards
  <2>4. CASE q # p
    BY <1>1, <2>1, <2>3, <2>4
  <2>5. CASE q = p
    <3>1. \A b \in AcksTowards(p) : buf[p].end - b <= RingSize
      BY <1>2 DEF PushBattleMessage, RingHasRoom, p
    <3>2. AcksTowards(p) \subseteq Int
      BY <2>1, EndTypes, PacketTypes, Peers DEF AcksTowards
    <3> QED BY <2>1, <2>3, <2>5, <3>1, <3>2, EndTypes, NumbersAssumption
  <2> QED BY <2>4, <2>5
<1>3. ASSUME NEW p \in Ends, Flush(p), NEW q \in Ends
      PROVE  Holds(q)
  <2>1. /\ net' = net \cup {Packet(p)} /\ buf' = buf
    BY <1>3, FlushEffect
  <2>2. /\ Packet(p).to = Peer(p) /\ Packet(p).ack = buf[p].ack
        /\ Packet(p) \in [to : Ends, data : Seq(Msgs), seq : Nat, ack : Nat]
        /\ Packet(p).seq - Len(Packet(p).data) = buf[p].begin - 1
    BY PacketMade
  <2>3. CASE q # p
    <3>1. p = Peer(q) /\ Peer(p) = q /\ q # Peer(q)
      BY <2>3, Peers
    <3>2. AcksTowards(q)' = AcksTowards(q) \cup {buf[Peer(q)].ack}
      BY <2>1, <2>2, <3>1 DEF AcksTowards
    <3>3. buf[Peer(q)].ack \in AcksTowards(q)
      BY DEF AcksTowards
    <3> QED BY <1>1, <2>1, <3>2, <3>3
  <2>4. CASE q = p
    <3>1. Peer(p) # p
      BY Peers
    <3>2. AcksTowards(p)' = AcksTowards(p) \cup {Packet(p).seq}
      BY <2>1, <2>2, <3>1 DEF AcksTowards
    <3>3. Packet(p).seq \in Nat /\ Len(Packet(p).data) \in Nat /\ buf[p].begin \in Nat
          /\ buf[p].end \in Nat
      BY <2>2, EndTypes
    <3>4. Packet(p).seq >= buf[p].begin - 1
      BY <2>2, <3>3
    <3>5. buf[p].begin - 1 \in AcksTowards(p)
      BY DEF AcksTowards
    <3>6. buf[p].end - (buf[p].begin - 1) <= RingSize + 1
      BY <3>5 DEF RoomLeft
    <3>7. buf[p].end - Packet(p).seq <= RingSize + 1
      BY <3>3, <3>4, <3>6, NumbersAssumption
    <3> QED BY <2>1, <2>4, <3>2, <3>7 DEF RoomLeft
  <2> QED BY <2>3, <2>4
<1>4. ASSUME NEW p \in Ends, NEW k \in net, ApplySeqAck(p, k), NEW q \in Ends
      PROVE  Holds(q)
  <2>1. /\ k.to = p /\ net' \subseteq net
        /\ buf'[p].ack = k.seq /\ buf'[p].begin = k.ack + 1 /\ buf'[p].end = buf[p].end
        /\ \A r \in Ends : r # p => buf'[r] = buf[r]
    BY <1>4, ApplyEffect
  <2>2. k.ack \in Nat
    BY PacketTypes
  <2>3. CASE q = p
    <3>1. Peer(p) \in Ends /\ Peer(p) # p
      BY Peers
    <3>2. buf'[p].begin - 1 = k.ack
      BY <2>1, <2>2
    <3>3. AcksTowards(p)' \subseteq AcksTowards(p)
      BY <2>1, <3>1, <3>2 DEF AcksTowards
    <3> QED BY <1>1, <2>1, <2>3, <3>3
  <2>4. CASE q # p
    <3>1. p = Peer(q)
      BY <2>4, Peers
    <3>2. AcksTowards(q)' \subseteq AcksTowards(q)
      BY <2>1, <2>4, <3>1 DEF AcksTowards
    <3> QED BY <1>1, <2>1, <2>4, <3>2
  <2> QED BY <2>3, <2>4
<1>5. ASSUME NEW p \in Ends, Filter(p), NEW q \in Ends
      PROVE  Holds(q)
  <2>1. buf' = buf /\ net' = net
    BY <1>5 DEF Filter
  <2> QED BY <1>1, <2>1 DEF AcksTowards
<1>6. ASSUME NEW k \in net, Lose(k), NEW q \in Ends
      PROVE  Holds(q)
  <2>1. buf' = buf /\ net' \subseteq net
    BY <1>6 DEF Lose
  <2>2. AcksTowards(q)' \subseteq AcksTowards(q)
    BY <2>1 DEF AcksTowards
  <2> QED BY <1>1, <2>1, <2>2
<1>7. ASSUME UNCHANGED vars, NEW q \in Ends
      PROVE  Holds(q)
  <2>1. buf' = buf /\ net' = net
    BY <1>7 DEF vars
  <2> QED BY <1>1, <2>1 DEF AcksTowards
<1> HIDE DEF Holds
<1>8. \A q \in Ends : Holds(q)
  BY <1>2, <1>3, <1>4, <1>5, <1>6, <1>7 DEF Next, Receive
<1> QED
  BY <1>8 DEF Holds, RoomLeft

(* A stretch of a sequence is one of a longer sequence. *)
LEMMA StretchKept ==
  ASSUME NEW all, NEW more, NEW data \in Seq(Msgs), NEW seq \in Nat,
         Len(all) \in Nat, Len(more) \in Nat, Len(all) <= Len(more),
         \A i \in 1 .. Len(all) : more[i] = all[i],
         IsStretch(data, seq, all)
  PROVE  IsStretch(data, seq, more)
<1>1. Len(data) \in Nat
  OBVIOUS
<1>2. \A i \in 1 .. Len(data) : seq - Len(data) + i \in 1 .. Len(all)
  BY <1>1 DEF IsStretch
<1> QED
  BY <1>1, <1>2 DEF IsStretch

(* What was pushed only grows. *)
LEMMA PushedGrows ==
  ASSUME TypeOK, [Next]_vars, NEW p \in Ends
  PROVE  /\ Len(pushed[p]) \in Nat /\ Len(pushed'[p]) \in Nat
         /\ Len(pushed[p]) <= Len(pushed'[p])
         /\ \A i \in 1 .. Len(pushed[p]) : pushed'[p][i] = pushed[p][i]
<1>1. Len(pushed[p]) \in Nat
  BY EndTypes
<1>2. ASSUME NEW a \in Authors, PushBattleMessage(a)
      PROVE  /\ Len(pushed'[p]) \in Nat /\ Len(pushed[p]) <= Len(pushed'[p])
             /\ \A i \in 1 .. Len(pushed[p]) : pushed'[p][i] = pushed[p][i]
  <2>1. CASE p = WriterAt[a]
    <3>1. /\ Len(pushed'[p]) = Len(pushed[p]) + 1
          /\ \A i \in 1 .. Len(pushed[p]) : pushed'[p][i] = pushed[p][i]
      BY <1>2, <2>1, PushEffect
    <3> QED BY <1>1, <3>1
  <2>2. CASE p # WriterAt[a]
    <3>1. pushed'[p] = pushed[p]
      BY <1>2, <2>2, PushEffect
    <3> QED BY <1>1, <3>1
  <2> QED BY <2>1, <2>2
<1>3. CASE UNCHANGED pushed
  BY <1>1, <1>3
<1>4. (\A a \in Authors : ~ PushBattleMessage(a)) => UNCHANGED pushed
  BY DEF Next, Receive, Flush, ApplySeqAck, Filter, Lose, vars
<1> QED
  BY <1>1, <1>2, <1>3, <1>4

(* Packets carry what was pushed. *)
LEMMA PacketsStep ==
  ASSUME IInv, [Next]_vars
  PROVE  PacketsCarry'
<1> USE DEF IInv
<1>1. ASSUME NEW k \in net
      PROVE  IsStretch(k.data, k.seq, pushed'[Peer(k.to)])
  <2>1. k.data \in Seq(Msgs) /\ k.seq \in Nat /\ Peer(k.to) \in Ends
    BY PacketTypes, Peers
  <2>2. IsStretch(k.data, k.seq, pushed[Peer(k.to)])
    BY DEF PacketsCarry
  <2>3. /\ Len(pushed[Peer(k.to)]) \in Nat /\ Len(pushed'[Peer(k.to)]) \in Nat
        /\ Len(pushed[Peer(k.to)]) <= Len(pushed'[Peer(k.to)])
        /\ \A i \in 1 .. Len(pushed[Peer(k.to)]) :
             pushed'[Peer(k.to)][i] = pushed[Peer(k.to)][i]
    BY <2>1, PushedGrows
  <2> QED BY <2>1, <2>2, <2>3, StretchKept
<1>2. CASE net' \subseteq net
  BY <1>1, <1>2 DEF PacketsCarry
<1>3. ASSUME NEW p \in Ends, Flush(p)
      PROVE  PacketsCarry'
  <2>1. net' = net \cup {Packet(p)} /\ pushed' = pushed
    BY <1>3, FlushEffect
  <2>2. Packet(p).to = Peer(p) /\ Peer(Peer(p)) = p
    BY PacketMade, Peers
  <2>3. IsStretch(Packet(p).data, Packet(p).seq, pushed[p])
    BY PacketMade
  <2> QED BY <1>1, <2>1, <2>2, <2>3 DEF PacketsCarry
<1>4. (\A p \in Ends : ~ Flush(p)) => net' \subseteq net
  BY DEF Next, Receive, PushBattleMessage, ApplySeqAck, Filter, Lose, vars
<1> QED
  BY <1>2, <1>3, <1>4

(* Of an end that is not in the middle of a packet. *)
LEMMA HandsKept ==
  ASSUME IInv, [Next]_vars, NEW q \in Ends,
         handling'[q] = handling[q], accepted'[q] = accepted[q], handling[q] # Idle
  PROVE  /\ IsStretch(handling'[q].data, handling'[q].seq, pushed'[Peer(q)])
         /\ Position(q)' <= Len(accepted'[q]) + 1
<1>1. /\ handling[q].data \in Seq(Msgs) /\ handling[q].seq \in Nat /\ Peer(q) \in Ends
  BY EndTypes, Peers DEF IInv
<1>2. /\ IsStretch(handling[q].data, handling[q].seq, pushed[Peer(q)])
      /\ Position(q) <= Len(accepted[q]) + 1
  BY DEF HandsCarry, IInv
<1>3. /\ Len(pushed[Peer(q)]) \in Nat /\ Len(pushed'[Peer(q)]) \in Nat
      /\ Len(pushed[Peer(q)]) <= Len(pushed'[Peer(q)])
      /\ \A i \in 1 .. Len(pushed[Peer(q)]) : pushed'[Peer(q)][i] = pushed[Peer(q)][i]
  BY <1>1, PushedGrows DEF IInv
<1>4. IsStretch(handling[q].data, handling[q].seq, pushed'[Peer(q)])
  BY <1>1, <1>2, <1>3, StretchKept
<1>5. Position(q)' = Position(q)
  BY DEF Position
<1> QED
  BY <1>2, <1>4, <1>5

(* A packet being worked through carries what was pushed, and from where   *)
(* its receiver is.                                                        *)
LEMMA HandsStep ==
  ASSUME IInv, [Next]_vars
  PROVE  HandsCarry'
<1> DEFINE Holds(q) ==
      handling'[q] # Idle =>
        /\ IsStretch(handling'[q].data, handling'[q].seq, pushed'[Peer(q)])
        /\ Position(q)' <= Len(accepted'[q]) + 1
<1>1. ASSUME NEW q \in Ends, handling'[q] = handling[q], accepted'[q] = accepted[q]
      PROVE  Holds(q)
  BY <1>1, HandsKept
<1>2. ASSUME NEW a \in Authors, PushBattleMessage(a), NEW q \in Ends
      PROVE  Holds(q)
  BY <1>1, <1>2 DEF PushBattleMessage
<1>3. ASSUME NEW p \in Ends, Flush(p), NEW q \in Ends
      PROVE  Holds(q)
  BY <1>1, <1>3 DEF Flush
<1>4. ASSUME NEW p \in Ends, NEW k \in net, ApplySeqAck(p, k), NEW q \in Ends
      PROVE  Holds(q)
  <2>1. /\ k.to = p /\ handling[p] = Idle
        /\ handling'[p] = IF k.data = <<>> THEN Idle
                          ELSE [data |-> k.data, seq |-> k.seq, at |-> 1]
        /\ \A r \in Ends : r # p => handling'[r] = handling[r]
        /\ pushed' = pushed /\ accepted' = accepted
    BY <1>4, ApplyEffect DEF IInv
  <2>2. CASE q # p
    BY <1>1, <2>1, <2>2
  <2>3. CASE q = p /\ k.data # <<>>
    <3>1. handling'[p].data = k.data /\ handling'[p].seq = k.seq /\ handling'[p].at = 1
      BY <2>1, <2>3
    <3>2. IsStretch(k.data, k.seq, pushed[Peer(p)])
      BY <2>1 DEF PacketsCarry, IInv
    <3>3. k.seq - Len(k.data) <= Reach(p)
      BY <2>1 DEF PacketsLeaveNoHole, IInv
    <3>4. Reach(p) = Len(accepted[p])
      BY <2>1 DEF Reach
    <3>5. k.seq \in Nat /\ Len(k.data) \in Nat /\ Len(accepted[p]) \in Nat
      BY PacketTypes, EndTypes DEF IInv
    <3>6. Position(p)' = k.seq - Len(k.data) + 1
      BY <3>1 DEF Position
    <3>7. Position(p)' <= Len(accepted[p]) + 1
      BY <3>3, <3>4, <3>5, <3>6
    <3> QED BY <2>1, <2>3, <3>1, <3>2, <3>7
  <2>4. CASE q = p /\ k.data = <<>>
    BY <2>1, <2>4
  <2> QED BY <2>2, <2>3, <2>4
<1>5. ASSUME NEW p \in Ends, Filter(p), NEW q \in Ends
      PROVE  Holds(q)
  <2> DEFINE h == handling[p]
  <2>1. /\ h # Idle
        /\ handling'[p] = IF h.at = Len(h.data) THEN Idle ELSE [h EXCEPT !.at = h.at + 1]
        /\ \A r \in Ends : r # p => handling'[r] = handling[r]
        /\ pushed' = pushed
    BY <1>5, FilterEffect DEF IInv
  <2>2. /\ \A r \in Ends : r # p => accepted'[r] = accepted[r]
        /\ \/ Position(p) <= Len(accepted[p]) /\ accepted'[p] = accepted[p]
           \/ Position(p) = Len(accepted[p]) + 1 /\ Len(accepted'[p]) = Len(accepted[p]) + 1
    BY <1>5, AcceptedGrows DEF IInv
  <2>3. CASE q # p
    BY <1>1, <2>1, <2>2, <2>3
  <2>4. CASE q = p /\ h.at # Len(h.data)
    <3>1. /\ h \in [data : Seq(Msgs), seq : Nat, at : Nat]
          /\ h.seq \in Nat /\ h.at \in Nat /\ Len(h.data) \in Nat /\ Len(accepted[p]) \in Nat
      BY EndTypes DEF IInv
    <3>2. handling'[p].data = h.data /\ handling'[p].seq = h.seq /\ handling'[p].at = h.at + 1
      BY <2>1, <2>4, <3>1
    <3>3. IsStretch(h.data, h.seq, pushed[Peer(p)])
      BY <2>1 DEF HandsCarry, IInv
    <3>4. Position(p)' = Position(p) + 1 /\ Position(p) \in Int
      BY <3>1, <3>2 DEF Position
    <3>5. Position(p)' <= Len(accepted'[p]) + 1
      BY <2>2, <3>1, <3>4
    <3> QED BY <2>1, <2>4, <3>2, <3>3, <3>5
  <2>5. CASE q = p /\ h.at = Len(h.data)
    BY <2>1, <2>5
  <2> QED BY <2>3, <2>4, <2>5
<1>6. ASSUME NEW k \in net, Lose(k), NEW q \in Ends
      PROVE  Holds(q)
  BY <1>1, <1>6 DEF Lose
<1>7. ASSUME UNCHANGED vars, NEW q \in Ends
      PROVE  Holds(q)
  BY <1>1, <1>7 DEF vars
<1> HIDE DEF Holds
<1>8. \A q \in Ends : Holds(q)
  BY <1>2, <1>3, <1>4, <1>5, <1>6, <1>7 DEF Next, Receive
<1> QED
  BY <1>8 DEF Holds, HandsCarry

(* Authors number their messages without a gap. *)
LEMMA NumbersStep ==
  ASSUME IInv, [Next]_vars
  PROVE  Numbered'
<1> USE DEF IInv
<1>1. CASE UNCHANGED <<pushed, nextSeq>>
  BY <1>1 DEF Numbered
<1>2. ASSUME NEW a \in Authors, PushBattleMessage(a)
      PROVE  Numbered'
  <2> DEFINE p == WriterAt[a]
             m == [author |-> a, seq |-> nextSeq[a]]
             n == Len(pushed[p])
             old == pushed[p]
             new == pushed'[p]
  <2>1. /\ p \in Ends /\ nextSeq[a] \in Nat \ {0}
        /\ nextSeq' = [nextSeq EXCEPT ![a] = nextSeq[a] + 1]
        /\ \A q \in Ends : q # p => pushed'[q] = pushed[q]
        /\ Len(new) = n + 1 /\ new[n + 1] = m
        /\ \A i \in 1 .. n : new[i] = old[i]
    BY <1>2, PushEffect
  <2>2. /\ n \in Nat /\ old \in Seq(Msgs) /\ nextSeq \in [Authors -> Nat \ {0}]
    BY <2>1, EndTypes DEF TypeOK
  <2>3. m.author = a /\ m.seq = nextSeq[a] /\ WriterAt[a] = p
    OBVIOUS
  <2>4. \A i \in 1 .. n : /\ WriterAt[old[i].author] = p
                          /\ old[i].author \in Authors /\ old[i].seq \in Nat \ {0}
    BY <2>1, <2>2, MsgTypes DEF Numbered
  <2>5. \A j \in 1 .. n : \A i \in 1 .. j - 1 :
          old[i].author = old[j].author =>
            /\ old[i].seq < old[j].seq
            /\ \E k \in 1 .. j - 1 : old[k].author = old[j].author /\ old[k].seq = old[j].seq - 1
    BY <2>1 DEF Numbered
  <2>6. \A i \in 1 .. n :
          /\ old[i].seq < nextSeq[old[i].author]
          /\ \E k \in 1 .. n : /\ old[k].author = old[i].author
                               /\ old[k].seq = nextSeq[old[i].author] - 1
    BY <2>1 DEF Numbered
  <2> HIDE DEF m, n, old, new
  <2>7. \A q \in Ends : \A i \in 1 .. Len(pushed'[q]) : WriterAt[pushed'[q][i].author] = q
    <3>1. ASSUME NEW i \in 1 .. n + 1 PROVE WriterAt[new[i].author] = p
      <4>1. CASE i = n + 1
        BY <4>1, <2>1, <2>3
      <4>2. CASE i # n + 1
        BY <4>2, <2>1, <2>2, <2>4
      <4> QED BY <4>1, <4>2
    <3> QED BY <2>1, <3>1 DEF Numbered, new
  <2>8. ASSUME NEW q \in Ends, NEW j \in 1 .. Len(pushed'[q]), NEW i \in 1 .. j - 1,
               pushed'[q][i].author = pushed'[q][j].author
        PROVE  /\ pushed'[q][i].seq < pushed'[q][j].seq
               /\ \E k \in 1 .. j - 1 : /\ pushed'[q][k].author = pushed'[q][j].author
                                        /\ pushed'[q][k].seq = pushed'[q][j].seq - 1
    <3>1. CASE q # p
      <4>1. pushed'[q] = pushed[q]
        BY <3>1, <2>1
      <4>2. /\ j \in 1 .. Len(pushed[q]) /\ i \in 1 .. j - 1
            /\ pushed[q][i].author = pushed[q][j].author
        BY <4>1, <2>8
      <4>3. /\ pushed[q][i].seq < pushed[q][j].seq
            /\ \E k \in 1 .. j - 1 : /\ pushed[q][k].author = pushed[q][j].author
                                     /\ pushed[q][k].seq = pushed[q][j].seq - 1
        BY <4>2 DEF Numbered
      <4> QED BY <4>1, <4>3
    <3>2. CASE q = p /\ j # n + 1
      <4>1. j \in 1 .. n /\ i \in 1 .. n /\ \A k \in 1 .. j - 1 : k \in 1 .. n
        BY <3>2, <2>1, <2>2 DEF new
      <4>2. old[i].author = old[j].author
        BY <3>2, <4>1, <2>1, <2>8 DEF new
      <4>3. /\ old[i].seq < old[j].seq
            /\ \E k \in 1 .. j - 1 : old[k].author = old[j].author /\ old[k].seq = old[j].seq - 1
        BY <4>1, <4>2, <2>5
      <4> QED BY <3>2, <4>1, <4>3, <2>1 DEF new
    <3>3. CASE q = p /\ j = n + 1
      <4>1. i \in 1 .. n /\ j - 1 = n
        BY <3>3, <2>1, <2>2
      <4>2. old[i].author = a
        BY <3>3, <4>1, <2>1, <2>3, <2>8 DEF new
      <4>3. /\ old[i].seq < nextSeq[a]
            /\ \E k \in 1 .. n : old[k].author = a /\ old[k].seq = nextSeq[a] - 1
        BY <4>1, <4>2, <2>6
      <4> QED BY <3>3, <4>1, <4>3, <2>1, <2>3 DEF new
    <3> QED BY <3>1, <3>2, <3>3
  <2>9. ASSUME NEW q \in Ends, NEW i \in 1 .. Len(pushed'[q])
        PROVE  LET b == pushed'[q][i].author
               IN  /\ pushed'[q][i].seq < nextSeq'[b]
                   /\ \E k \in 1 .. Len(pushed'[q]) : /\ pushed'[q][k].author = b
                                                      /\ pushed'[q][k].seq = nextSeq'[b] - 1
    <3> DEFINE b == pushed'[q][i].author
    <3>1. CASE q # p
      <4>1. pushed'[q] = pushed[q] /\ WriterAt[b] = q
        BY <3>1, <2>1, <2>7
      <4>2. b # a
        BY <4>1, <3>1
      <4>3. nextSeq'[b] = nextSeq[b]
        <5>1. b \in Authors
          BY <4>1, EndTypes, MsgTypes
        <5> QED BY <5>1, <4>2, <2>1, <2>2
      <4> QED BY <4>1, <4>3 DEF Numbered
    <3>2. CASE q = p /\ b = a
      <4>1. nextSeq'[a] = nextSeq[a] + 1
        BY <2>1, <2>2
      <4>2. n + 1 \in 1 .. Len(new) /\ new[n + 1].author = a
            /\ new[n + 1].seq = nextSeq'[a] - 1
        BY <4>1, <2>1, <2>2, <2>3
      <4>3. new[i].seq < nextSeq'[a]
        <5>1. CASE i = n + 1
          BY <5>1, <4>1, <2>1, <2>3
        <5>2. CASE i # n + 1
          <6>1. i \in 1 .. n
            BY <5>2, <3>2, <2>1, <2>2 DEF new
          <6>2. old[i].author = a /\ new[i] = old[i]
            BY <6>1, <3>2, <2>1 DEF new
          <6>3. old[i].seq < nextSeq[a] /\ old[i].seq \in Nat
            BY <6>1, <6>2, <2>4, <2>6
          <6> QED BY <6>2, <6>3, <4>1, <2>1
        <5> QED BY <5>1, <5>2
      <4> QED BY <3>2, <4>2, <4>3 DEF new
    <3>3. CASE q = p /\ b # a
      <4>1. i \in 1 .. n /\ new[i] = old[i]
        BY <3>3, <2>1, <2>2, <2>3 DEF new
      <4>2. b = old[i].author /\ b \in Authors
        BY <4>1, <3>3, <2>4 DEF new
      <4>3. nextSeq'[b] = nextSeq[b]
        BY <4>2, <3>3, <2>1, <2>2
      <4>4. /\ old[i].seq < nextSeq[b]
            /\ \E k \in 1 .. n : old[k].author = b /\ old[k].seq = nextSeq[b] - 1
        BY <4>1, <4>2, <2>6
      <4>5. \A k \in 1 .. n : k \in 1 .. Len(new) /\ new[k] = old[k]
        BY <2>1, <2>2
      <4> QED BY <3>3, <4>1, <4>3, <4>4, <4>5 DEF new
    <3> QED BY <3>1, <3>2, <3>3
  <2> QED
    BY <2>7, <2>8, <2>9 DEF Numbered
<1>3. (\A a \in Authors : ~ PushBattleMessage(a)) => UNCHANGED <<pushed, nextSeq>>
  BY DEF Next, Receive, Flush, ApplySeqAck, Filter, Lose, vars
<1> QED
  BY <1>1, <1>2, <1>3

(* Accepted is what was pushed, so far. *)
LEMMA AgreeStep ==
  ASSUME IInv, [Next]_vars
  PROVE  Agree'
<1> USE DEF IInv
<1> DEFINE Holds(q) ==
      /\ Len(accepted'[q]) <= Len(pushed'[Peer(q)])
      /\ \A i \in 1 .. Len(accepted'[q]) : accepted'[q][i] = pushed'[Peer(q)][i]
<1>1. ASSUME NEW q \in Ends
      PROVE  /\ Len(accepted[q]) \in Nat /\ Len(accepted[q]) <= Len(pushed'[Peer(q)])
             /\ \A i \in 1 .. Len(accepted[q]) : accepted[q][i] = pushed'[Peer(q)][i]
  <2>1. Peer(q) \in Ends /\ Len(accepted[q]) \in Nat
    BY Peers, EndTypes
  <2>2. /\ Len(accepted[q]) <= Len(pushed[Peer(q)])
        /\ \A i \in 1 .. Len(accepted[q]) : accepted[q][i] = pushed[Peer(q)][i]
    BY DEF Agree
  <2>3. /\ Len(pushed[Peer(q)]) \in Nat /\ Len(pushed'[Peer(q)]) \in Nat
        /\ Len(pushed[Peer(q)]) <= Len(pushed'[Peer(q)])
        /\ \A i \in 1 .. Len(pushed[Peer(q)]) : pushed'[Peer(q)][i] = pushed[Peer(q)][i]
    BY <2>1, PushedGrows
  <2> QED BY <2>1, <2>2, <2>3
<1>2. ASSUME NEW q \in Ends, accepted'[q] = accepted[q]
      PROVE  Holds(q)
  BY <1>1, <1>2
<1>3. ASSUME NEW p \in Ends, Filter(p), NEW q \in Ends
      PROVE  Holds(q)
  <2>1. CASE accepted'[q] = accepted[q]
    BY <1>2, <2>1
  <2>2. CASE accepted'[q] # accepted[q]
    <3> DEFINE L == Len(accepted[p])
    <3>0. pushed' = pushed /\ (q # p => accepted'[q] = accepted[q])
      BY <1>3, AcceptedGrows DEF Filter
    <3>1. /\ q = p /\ pushed' = pushed
          /\ L + 1 <= Len(pushed[Peer(p)])
          /\ Len(accepted'[p]) = L + 1 /\ accepted'[p][L + 1] = pushed[Peer(p)][L + 1]
          /\ \A i \in 1 .. L : accepted'[p][i] = accepted[p][i]
      BY <3>0, <1>3, <2>2, AcceptedGrows
    <3>2. L \in Nat /\ \A i \in 1 .. L : accepted[p][i] = pushed'[Peer(p)][i]
      BY <1>1
    <3> HIDE DEF L
    <3> QED BY <3>1, <3>2
  <2> QED BY <2>1, <2>2
<1>4. (\A p \in Ends : ~ Filter(p)) => UNCHANGED accepted
  BY DEF Next, Receive, Flush, ApplySeqAck, PushBattleMessage, Lose, vars
<1>5. \A q \in Ends : Holds(q)
  BY <1>2, <1>3, <1>4
<1> QED
  BY <1>5 DEF Agree

(* A filter has the number of the last message of each author. *)
LEMMA FilterStep ==
  ASSUME IInv, [Next]_vars
  PROVE  FilterKnows'
<1> USE DEF IInv
<1> DEFINE Holds(q) == \A a \in Authors :
      /\ filter'[q][a] # 0 =>
           \E i \in 1 .. Len(accepted'[q]) : /\ accepted'[q][i].author = a
                                             /\ accepted'[q][i].seq = filter'[q][a]
      /\ \A i \in 1 .. Len(accepted'[q]) :
           accepted'[q][i].author = a => accepted'[q][i].seq <= filter'[q][a]
<1>1. ASSUME NEW q \in Ends, accepted'[q] = accepted[q], filter'[q] = filter[q]
      PROVE  Holds(q)
  BY <1>1 DEF FilterKnows
<1>2. ASSUME NEW p \in Ends, Filter(p), NEW q \in Ends
      PROVE  Holds(q)
  <2> DEFINE L == Len(accepted[p])
             all == pushed[Peer(p)]
             m == all[L + 1]
  <2>1. /\ \A r \in Ends : r # p => accepted'[r] = accepted[r] /\ filter'[r] = filter[r]
        /\ \/ accepted'[p] = accepted[p] /\ filter'[p] = filter[p]
           \/ /\ L + 1 <= Len(all) /\ m \in Msgs
              /\ Len(accepted'[p]) = L + 1 /\ accepted'[p][L + 1] = m
              /\ \A i \in 1 .. L : accepted'[p][i] = accepted[p][i]
              /\ filter'[p] = [filter[p] EXCEPT ![m.author] = m.seq]
    BY <1>2, AcceptedGrows
  <2>2. CASE q # p
    BY <1>1, <2>1, <2>2
  <2>3. CASE accepted'[p] = accepted[p] /\ filter'[p] = filter[p]
    BY <1>1, <2>2, <2>3
  <2>4. CASE /\ q = p /\ L + 1 <= Len(all) /\ m \in Msgs
             /\ Len(accepted'[p]) = L + 1 /\ accepted'[p][L + 1] = m
             /\ \A i \in 1 .. L : accepted'[p][i] = accepted[p][i]
             /\ filter'[p] = [filter[p] EXCEPT ![m.author] = m.seq]
    <3>1. /\ L \in Nat /\ Len(all) \in Nat /\ filter[p] \in [Authors -> Nat]
          /\ m.author \in Authors /\ m.seq \in Nat \ {0}
      BY <2>4, EndTypes, Peers DEF Msgs
    <3>2. L + 1 \in 1 .. Len(all) /\ (L + 1) - 1 = L
      BY <2>4, <3>1
    <3>3. \A i \in 1 .. L : all[i].author = m.author => all[i].seq < m.seq
      <4>1. Peer(p) \in Ends
        BY Peers
      <4> QED BY <4>1, <3>2 DEF Numbered
    <3>4. \A i \in 1 .. L : accepted[p][i] = all[i] /\ all[i].seq \in Nat
      <4>1. all \in Seq(Msgs)
        BY EndTypes, Peers
      <4>2. \A i \in 1 .. L : i \in 1 .. Len(all)
        BY <2>4, <3>1
      <4> QED BY <4>1, <4>2, MsgTypes DEF Agree
    <3>5. \A a \in Authors :
            /\ filter[p][a] # 0 =>
                 \E i \in 1 .. L : accepted[p][i].author = a /\ accepted[p][i].seq = filter[p][a]
            /\ \A i \in 1 .. L : accepted[p][i].author = a => accepted[p][i].seq <= filter[p][a]
      BY DEF FilterKnows
    <3> HIDE DEF L, all, m
    <3>6. ASSUME NEW a \in Authors, a = m.author
          PROVE  /\ \E i \in 1 .. L + 1 : accepted'[p][i].author = a
                                          /\ accepted'[p][i].seq = filter'[p][a]
                 /\ \A i \in 1 .. L + 1 : accepted'[p][i].author = a
                                            => accepted'[p][i].seq <= filter'[p][a]
      <4>1. filter'[p][a] = m.seq
        BY <2>4, <3>1, <3>6
      <4>2. L + 1 \in 1 .. L + 1
        BY <3>1
      <4>3. \A i \in 1 .. L + 1 : i = L + 1 \/ i \in 1 .. L
        BY <3>1
      <4>4. ASSUME NEW i \in 1 .. L + 1, accepted'[p][i].author = a
            PROVE  accepted'[p][i].seq <= m.seq
        <5>1. CASE i = L + 1
          BY <5>1, <2>4, <3>1
        <5>2. CASE i \in 1 .. L
          <6>1. accepted'[p][i] = all[i] /\ all[i].seq \in Nat
            BY <5>2, <2>4, <3>4
          <6>2. all[i].seq < m.seq
            BY <6>1, <5>2, <4>4, <3>3, <3>6
          <6> QED BY <6>1, <6>2, <3>1
        <5> QED BY <4>3, <5>1, <5>2
      <4> QED BY <4>1, <4>2, <4>4, <2>4, <3>6
    <3>7. ASSUME NEW a \in Authors, a # m.author
          PROVE  /\ filter'[p][a] # 0 =>
                      \E i \in 1 .. L + 1 : accepted'[p][i].author = a
                                            /\ accepted'[p][i].seq = filter'[p][a]
                 /\ \A i \in 1 .. L + 1 : accepted'[p][i].author = a
                                            => accepted'[p][i].seq <= filter'[p][a]
      <4>1. filter'[p][a] = filter[p][a]
        BY <2>4, <3>1, <3>7
      <4>2. \A i \in 1 .. L : i \in 1 .. L + 1
        BY <3>1
      <4>3. \A i \in 1 .. L + 1 : i = L + 1 \/ i \in 1 .. L
        BY <3>1
      <4> QED BY <4>1, <4>2, <4>3, <2>4, <3>5, <3>7
    <3> QED BY <2>4, <3>6, <3>7
  <2> HIDE DEF Holds, L, m, all
  <2> QED BY <2>1, <2>2, <2>3, <2>4, <1>1
<1>3. (\A p \in Ends : ~ Filter(p)) => UNCHANGED <<accepted, filter>>
  BY DEF Next, Receive, Flush, ApplySeqAck, PushBattleMessage, Lose, vars
<1> HIDE DEF Holds
<1>4. \A q \in Ends : Holds(q)
  BY <1>1, <1>2, <1>3
<1> QED
  BY <1>4 DEF Holds, FilterKnows

(* How far an end will have come never becomes less, and after ApplySeqAck *)
(* it is as far as the packet goes.                                        *)
LEMMA ReachGrows ==
  ASSUME IInv, [Next]_vars, NEW q \in Ends
  PROVE  Reach(q) \in Nat /\ Reach(q)' \in Nat /\ Reach(q) <= Reach(q)'
<1> USE DEF IInv
<1>0. Reach(q) \in Nat /\ Len(accepted[q]) \in Nat /\ handling[q].seq \in Nat
  BY ReachBound, EndTypes
<1>1. ASSUME handling'[q] = handling[q], accepted'[q] = accepted[q]
      PROVE  Reach(q)' = Reach(q)
  BY <1>1 DEF Reach
<1>2. ASSUME NEW p \in Ends, NEW k \in net, ApplySeqAck(p, k)
      PROVE  Reach(q)' \in Nat /\ Reach(q) <= Reach(q)'
  <2>1. /\ handling[p] = Idle
        /\ handling'[p] = IF k.data = <<>> THEN Idle
                          ELSE [data |-> k.data, seq |-> k.seq, at |-> 1]
        /\ \A r \in Ends : r # p => handling'[r] = handling[r]
        /\ accepted' = accepted
    BY <1>2, ApplyEffect
  <2>2. CASE q # p
    BY <1>0, <1>1, <2>1, <2>2
  <2>3. CASE q = p
    <3>1. Reach(q) = Len(accepted[q])
      BY <2>1, <2>3 DEF Reach
    <3>2. handling'[q].seq \in Nat
      BY <2>1, <2>3, PacketTypes DEF Idle
    <3>3. Reach(q)' = Len(accepted[q]) \/ (Reach(q)' = handling'[q].seq
                                            /\ handling'[q].seq > Len(accepted[q]))
      BY <2>1 DEF Reach
    <3> QED BY <1>0, <3>1, <3>2, <3>3
  <2> QED BY <2>2, <2>3
<1>3. ASSUME NEW p \in Ends, Filter(p)
      PROVE  Reach(q)' \in Nat /\ Reach(q) <= Reach(q)'
  <2> DEFINE h == handling[p]
             L == Len(accepted[p])
  <2>1. /\ h # Idle
        /\ handling'[p] = IF h.at = Len(h.data) THEN Idle ELSE [h EXCEPT !.at = h.at + 1]
        /\ \A r \in Ends : r # p => handling'[r] = handling[r]
    BY <1>3, FilterEffect
  <2>2. /\ \A r \in Ends : r # p => accepted'[r] = accepted[r]
        /\ \/ Position(p) <= L /\ accepted'[p] = accepted[p]
           \/ Position(p) = L + 1 /\ Len(accepted'[p]) = L + 1
    BY <1>3, AcceptedGrows
  <2>3. CASE q # p
    BY <1>0, <1>1, <2>1, <2>2, <2>3
  <2>4. CASE q = p
    <3>1. /\ h \in [data : Seq(Msgs), seq : Nat, at : Nat] /\ h.at \in Nat
          /\ h.seq \in Nat /\ Len(h.data) \in Nat /\ L \in Nat
          /\ Position(p) = h.seq - Len(h.data) + h.at
      BY EndTypes DEF Position
    <3>2. Len(accepted'[p]) \in Nat /\ L <= Len(accepted'[p])
          /\ Position(p) <= Len(accepted'[p])
      BY <2>2, <3>1
    <3>3. Reach(p) = IF h.seq > L THEN h.seq ELSE L
      BY <2>1 DEF Reach
    <3>4. CASE h.at = Len(h.data)
      <4>1. Reach(p)' = Len(accepted'[p])
        BY <2>1, <3>4 DEF Reach
      <4> QED BY <4>1, <3>1, <3>2, <3>3, <3>4, <2>4
    <3>5. CASE h.at # Len(h.data)
      <4>1. handling'[p].seq = h.seq /\ handling'[p].at = h.at + 1
        BY <2>1, <3>1, <3>5
      <4>2. handling'[p] # Idle
        BY <4>1, <3>1 DEF Idle
      <4>3. Reach(p)' = IF h.seq > Len(accepted'[p]) THEN h.seq ELSE Len(accepted'[p])
        BY <4>1, <4>2 DEF Reach
      <4> QED BY <4>3, <3>1, <3>2, <3>3, <2>4
    <3> QED BY <3>4, <3>5
  <2> QED BY <2>3, <2>4
<1>4. \/ UNCHANGED <<handling, accepted>>
      \/ \E p \in Ends : Filter(p)
      \/ \E p \in Ends, k \in net : ApplySeqAck(p, k)
  BY DEF Next, Receive, Flush, PushBattleMessage, Lose, vars
<1> QED
  BY <1>0, <1>1, <1>2, <1>3, <1>4

(* No packet leaves a hole, what is dropped is delivered, and so is what   *)
(* is acknowledged.                                                        *)
LEMMA DeliveredStep ==
  ASSUME IInv, [Next]_vars
  PROVE  PacketsLeaveNoHole' /\ DroppedIsDelivered' /\ AcksAreDelivered'
<1> USE DEF IInv
<1> DEFINE PacketFits(k) ==
             k.seq - Len(k.data) <= Reach(k.to)' /\ k.ack <= Reach(Peer(k.to))'
           BufferFits(q) ==
             buf'[q].begin - 1 <= Reach(Peer(q))' /\ buf'[q].ack <= Reach(q)'
<1>1. ASSUME NEW k \in net
      PROVE  PacketFits(k)
  <2>1. /\ k.to \in Ends /\ Peer(k.to) \in Ends /\ k.ack \in Nat /\ k.seq \in Nat
        /\ Len(k.data) \in Nat
    BY PacketTypes, Peers
  <2>2. k.seq - Len(k.data) <= Reach(k.to) /\ k.ack <= Reach(Peer(k.to))
    BY DEF PacketsLeaveNoHole, AcksAreDelivered
  <2>3. /\ Reach(k.to) \in Nat /\ Reach(k.to)' \in Nat /\ Reach(k.to) <= Reach(k.to)'
    BY <2>1, ReachGrows
  <2>4. /\ Reach(Peer(k.to)) \in Nat /\ Reach(Peer(k.to))' \in Nat
        /\ Reach(Peer(k.to)) <= Reach(Peer(k.to))'
    BY <2>1, ReachGrows
  <2> QED BY <2>1, <2>2, <2>3, <2>4
<1>2. ASSUME NEW q \in Ends, buf'[q].begin = buf[q].begin, buf'[q].ack = buf[q].ack
      PROVE  BufferFits(q)
  <2>1. Peer(q) \in Ends /\ buf[q].begin \in Nat /\ buf[q].ack \in Nat
    BY Peers, EndTypes
  <2>2. buf[q].begin - 1 <= Reach(Peer(q)) /\ buf[q].ack <= Reach(q)
    BY DEF DroppedIsDelivered, AcksAreDelivered
  <2>3. /\ Reach(q) \in Nat /\ Reach(q)' \in Nat /\ Reach(q) <= Reach(q)'
    BY ReachGrows
  <2>4. /\ Reach(Peer(q)) \in Nat /\ Reach(Peer(q))' \in Nat
        /\ Reach(Peer(q)) <= Reach(Peer(q))'
    BY <2>1, ReachGrows
  <2> QED BY <1>2, <2>1, <2>2, <2>3, <2>4
<1> HIDE DEF PacketFits, BufferFits
<1>3. CASE /\ \A k \in net' : PacketFits(k)
           /\ \A q \in Ends : BufferFits(q)
  BY <1>3 DEF PacketFits, BufferFits, PacketsLeaveNoHole, DroppedIsDelivered, AcksAreDelivered
<1>4. ASSUME NEW a \in Authors, PushBattleMessage(a)
      PROVE  (\A k \in net' : PacketFits(k)) /\ (\A q \in Ends : BufferFits(q))
  <2>1. /\ net' = net
        /\ buf'[WriterAt[a]].ack = buf[WriterAt[a]].ack
        /\ buf'[WriterAt[a]].begin = buf[WriterAt[a]].begin
        /\ \A q \in Ends : q # WriterAt[a] => buf'[q] = buf[q]
    BY <1>4, PushEffect
  <2>2. \A q \in Ends : buf'[q].begin = buf[q].begin /\ buf'[q].ack = buf[q].ack
    BY <2>1
  <2> QED BY <2>1, <2>2, <1>1, <1>2
<1>5. ASSUME NEW p \in Ends, Flush(p)
      PROVE  (\A k \in net' : PacketFits(k)) /\ (\A q \in Ends : BufferFits(q))
  <2>1. net' = net \cup {Packet(p)} /\ buf' = buf
    BY <1>5, FlushEffect
  <2>2. /\ Packet(p).to = Peer(p) /\ Packet(p).ack = buf[p].ack
        /\ Packet(p).seq - Len(Packet(p).data) = buf[p].begin - 1
        /\ Peer(Peer(p)) = p
    BY PacketMade, Peers
  <2>3. BufferFits(p)
    BY <1>2, <2>1
  <2>4. ASSUME NEW k, k = Packet(p)
        PROVE  PacketFits(k)
    <3>1. /\ k.to = Peer(p) /\ Peer(k.to) = p /\ k.ack = buf'[p].ack
          /\ k.seq - Len(k.data) = buf'[p].begin - 1
      BY <2>1, <2>2, <2>4
    <3> QED BY <2>3, <3>1 DEF PacketFits, BufferFits
  <2> QED BY <2>1, <2>4, <1>1, <1>2
<1>6. ASSUME NEW p \in Ends, NEW k \in net, ApplySeqAck(p, k)
      PROVE  (\A l \in net' : PacketFits(l)) /\ (\A q \in Ends : BufferFits(q))
  <2>1. /\ k.to = p /\ handling[p] = Idle /\ net' \subseteq net
        /\ buf'[p].ack = k.seq /\ buf'[p].begin = k.ack + 1
        /\ \A q \in Ends : q # p => buf'[q] = buf[q]
        /\ handling'[p] = IF k.data = <<>> THEN Idle
                          ELSE [data |-> k.data, seq |-> k.seq, at |-> 1]
        /\ accepted' = accepted
    BY <1>6, ApplyEffect
  <2>2. k.ack \in Nat /\ k.seq \in Nat /\ k.data \in Seq(Msgs) /\ Len(k.data) \in Nat
        /\ Len(accepted[p]) \in Nat
    BY PacketTypes, EndTypes
  <2>3. k.seq - Len(k.data) <= Reach(p)' /\ k.ack <= Reach(Peer(p))'
    BY <1>1, <2>1 DEF PacketFits
  <2>4. k.seq <= Reach(p)'
    <3>1. CASE k.data = <<>>
      <4>1. Len(k.data) = 0
        BY <3>1, <2>2, EmptySeq
      <4> QED BY <4>1, <2>2, <2>3
    <3>2. CASE k.data # <<>>
      <4>1. handling'[p].seq = k.seq /\ handling'[p] # Idle
        BY <2>1, <3>2 DEF Idle
      <4>2. Reach(p)' = IF k.seq > Len(accepted[p]) THEN k.seq ELSE Len(accepted[p])
        BY <2>1, <4>1 DEF Reach
      <4> QED BY <4>2, <2>2
    <3> QED BY <3>1, <3>2
  <2>5. BufferFits(p)
    <3>1. buf'[p].begin - 1 = k.ack
      BY <2>1, <2>2
    <3> QED BY <2>1, <2>3, <2>4, <3>1 DEF BufferFits
  <2>6. \A q \in Ends : q # p => BufferFits(q)
    BY <2>1, <1>2
  <2> QED BY <2>1, <2>5, <2>6, <1>1
<1>7. ASSUME NEW p \in Ends, Filter(p)
      PROVE  (\A k \in net' : PacketFits(k)) /\ (\A q \in Ends : BufferFits(q))
  BY <1>1, <1>2, <1>7 DEF Filter
<1>8. ASSUME NEW l \in net, Lose(l)
      PROVE  (\A k \in net' : PacketFits(k)) /\ (\A q \in Ends : BufferFits(q))
  BY <1>1, <1>2, <1>8 DEF Lose
<1>9. ASSUME UNCHANGED vars
      PROVE  (\A k \in net' : PacketFits(k)) /\ (\A q \in Ends : BufferFits(q))
  BY <1>1, <1>2, <1>9 DEF vars
<1> QED
  BY <1>3, <1>4, <1>5, <1>6, <1>7, <1>8, <1>9 DEF Next, Receive

-----------------------------------------------------------------------------
(* The invariant holds at the beginning. *)
LEMMA InitHolds == Init => IInv
<1> SUFFICES ASSUME Init PROVE IInv
  OBVIOUS
<1> USE DEF Init
<1>1. /\ RingSize \in Nat \ {0} /\ \A n \in FirstSeqs : n \in Nat \ {0}
  BY NumbersAssumption
<1>2. NewBuffer \in Buffers /\ NewBuffer.ack = 0 /\ NewBuffer.begin = 1 /\ NewBuffer.end = 1
  BY DEF NewBuffer, Buffers, Rings
<1>3. /\ <<>> \in Seq(Msgs) /\ Len(<<>>) = 0
      /\ Idle \in [data : Seq(Msgs), seq : Nat, at : Nat]
  BY DEF Idle
<1>4. TypeOK
  BY <1>1, <1>2, <1>3 DEF TypeOK, Buffers, Rings
<1>5. ASSUME NEW p \in Ends
      PROVE  /\ buf[p] = NewBuffer /\ pushed[p] = <<>> /\ accepted[p] = <<>>
             /\ handling[p] = Idle /\ filter[p] = [a \in Authors |-> 0]
             /\ Peer(p) \in Ends
  BY Peers
<1>6. EndCounts /\ RingKeeps /\ Numbered /\ Agree /\ FilterKnows
  BY <1>2, <1>3, <1>5 DEF EndCounts, RingKeeps, Numbered, Agree, FilterKnows
<1>7. RoomLeft
  <2>1. \A p \in Ends : AcksTowards(p) = {0}
    BY <1>2, <1>5 DEF AcksTowards
  <2> QED BY <2>1, <1>1, <1>2, <1>5 DEF RoomLeft
<1>8. PacketsCarry /\ HandsCarry /\ PacketsLeaveNoHole
  BY <1>5 DEF PacketsCarry, HandsCarry, PacketsLeaveNoHole
<1>9. DroppedIsDelivered /\ AcksAreDelivered
  <2>1. \A p \in Ends : Reach(p) = 0
    BY <1>3, <1>5 DEF Reach
  <2> QED BY <2>1, <1>2, <1>5 DEF DroppedIsDelivered, AcksAreDelivered
<1> QED
  BY <1>4, <1>6, <1>7, <1>8, <1>9 DEF IInv

(* And every step keeps it. *)
LEMMA StepHolds == IInv /\ [Next]_vars => IInv'
<1> SUFFICES ASSUME IInv, [Next]_vars PROVE IInv'
  OBVIOUS
<1> QED
  BY TypeStep, RingStep, RoomStep, PacketsStep, HandsStep, NumbersStep, AgreeStep,
     FilterStep, DeliveredStep DEF IInv

(* Agreement position by position is what IsPrefix says. *)
LEMMA AgreeIsPrefix == TypeOK /\ Agree => InOrderOnce
<1> SUFFICES ASSUME TypeOK, Agree, NEW p \in Ends
             PROVE  IsPrefix(accepted[p], pushed[Peer(p)])
  BY DEF InOrderOnce
<1> DEFINE s == accepted[p]
           t == pushed[Peer(p)]
<1>1. /\ s \in Seq(Msgs) /\ t \in Seq(Msgs) /\ Len(s) \in Nat /\ Len(t) \in Nat
  BY EndTypes, Peers
<1>2. Len(s) <= Len(t) /\ \A i \in 1 .. Len(s) : s[i] = t[i]
  BY DEF Agree
<1> HIDE DEF s, t
<1>3. SubSeq(s, 1, Len(s)) = SubSeq(t, 1, Len(s))
  BY <1>1, <1>2
<1> QED
  BY <1>2, <1>3 DEF IsPrefix, s, t

(* What an end passes on is what the other end pushed, in the same order,  *)
(* each once; no packet leaves a hole, and nothing leaves the window of    *)
(* its sender that is not at the receiver (BattleBuffer, MessageFilter).   *)
THEOREM LinkIsSound == Spec => []LinkSound
<1>1. IInv => LinkSound
  BY AgreeIsPrefix DEF IInv, LinkSound
<1> QED
  BY InitHolds, StepHolds, <1>1, PTL DEF Spec

-----------------------------------------------------------------------------
(* A push is a Put, a message that is let through a Take, and every other  *)
(* step leaves the channels as they are.                                   *)
LEMMA StepIsChannelStep ==
  ASSUME IInv, [Next]_vars
  PROVE  Channel!Next \/ UNCHANGED <<pushed, accepted>>
<1> USE DEF IInv
<1>1. ASSUME NEW a \in Authors, PushBattleMessage(a)
      PROVE  Channel!Next
  <2> DEFINE p == WriterAt[a]
             m == [author |-> a, seq |-> nextSeq[a]]
  <2>1. /\ p \in Ends /\ Len(pushed'[p]) = Len(pushed[p]) + 1
        /\ pushed'[p][Len(pushed[p]) + 1] = m /\ accepted' = accepted
    BY <1>1, PushEffect
  <2>2. pushed' = [pushed EXCEPT ![p] = Append(pushed[p], m)]
    BY <1>1 DEF PushBattleMessage
  <2> HIDE DEF p, m
  <2>3. Channel!Put(p)
    BY <2>1, <2>2 DEF Channel!Put
  <2> QED BY <2>1, <2>3 DEF Channel!Next
<1>2. ASSUME NEW p \in Ends, Filter(p)
      PROVE  Channel!Next \/ UNCHANGED <<pushed, accepted>>
  <2> DEFINE m == pushed[Peer(p)][Position(p)]
             L == Len(accepted[p])
  <2>1. /\ pushed' = pushed
        /\ Position(p) \in 1 .. Len(pushed[Peer(p)])
        /\ \/ UNCHANGED accepted
           \/ /\ Position(p) = L + 1
              /\ accepted' = [accepted EXCEPT ![p] = Append(accepted[p], m)]
    BY <1>2, FilterEffect
  <2>2. CASE UNCHANGED accepted
    BY <2>1, <2>2
  <2>3. CASE /\ Position(p) = L + 1
             /\ accepted' = [accepted EXCEPT ![p] = Append(accepted[p], m)]
    <3>1. L \in Nat /\ Len(pushed[Peer(p)]) \in Nat
      BY EndTypes, Peers
    <3>2. L < Len(pushed[Peer(p)])
      BY <2>1, <2>3, <3>1
    <3>3. accepted' = [accepted EXCEPT ![p] = Append(accepted[p], pushed[Peer(p)][L + 1])]
      BY <2>3
    <3>4. Channel!Take(p)
      BY <2>1, <3>2, <3>3 DEF Channel!Take, Channel!Peer, Peer
    <3> QED BY <3>4 DEF Channel!Next
  <2> QED BY <2>1, <2>2, <2>3
<1>3. \/ \E a \in Authors : PushBattleMessage(a)
      \/ \E p \in Ends : Filter(p)
      \/ UNCHANGED <<pushed, accepted>>
  BY DEF Next, Receive, Flush, ApplySeqAck, Lose, vars
<1> QED
  BY <1>1, <1>2, <1>3

(* The link implements a pair of first-in-first-out channels. *)
THEOREM LinkIsChannel == Spec => ChannelSpec
<1>1. Init => Channel!Init
  BY DEF Init, Channel!Init
<1>2. IInv /\ [Next]_vars => [Channel!Next]_<<pushed, accepted>>
  BY StepIsChannelStep
<1> QED
  BY InitHolds, StepHolds, <1>1, <1>2, PTL DEF Spec, ChannelSpec, Channel!Spec

=============================================================================
