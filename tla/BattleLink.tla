----------------------------- MODULE BattleLink -----------------------------
(***************************************************************************)
(* One link of a battle: two BattleBuffers and two MessageFilters          *)
(* (pkg/proto/battlebuf.go) joined by UDP.                                 *)
(*                                                                         *)
(* An end is the battle server's UDPPeer, or a zproxy talking to the       *)
(* server or to another zproxy.  Each end numbers the messages it pushes   *)
(* by their position on the link (1, 2, ...), keeps them in a ring, and    *)
(* again and again sends the Window oldest ones the other end has not      *)
(* acknowledged.  A packet carries the position of its last message (seq)  *)
(* and the seq of the packet last received (ack).  ApplySeqAck stores both *)
(* without a comparison, so a late packet moves begin and ack backwards.   *)
(*                                                                         *)
(* Independently of positions, a message carries its author and that       *)
(* author's own sequence number; MessageFilter accepts an author's first   *)
(* message whatever its number, and from then on only the next number.     *)
(* The numbers of an author may start above 1 on a link: a player who      *)
(* joins a room late sees the others' streams from the middle.             *)
(*                                                                         *)
(* Receiving is two steps of the reading goroutine, as in the code, with   *)
(* the sending goroutine free to run in between: ApplySeqAck under the     *)
(* buffer's mutex, then one Filter per message of the packet.              *)
(***************************************************************************)
EXTENDS Integers, SequencesExt

CONSTANTS
  Ends,        \* the two ends of the link
  Authors,     \* user ids that appear in messages
  WriterAt,    \* [Authors -> Ends]: the end that pushes an author's messages
  FirstSeqs,   \* an author's first sequence number on this link
  RingSize,    \* ringSize (4096)
  Window,      \* most messages of one packet (50)
  MaxPushed,   \* bound: [Ends -> Nat], messages an end may push
  MaxInFlight, \* bound: packets in the network towards one end
  MayStay      \* whether a packet that was received may arrive again

ASSUME EndsAssumption ==
  /\ \A p \in Ends : \E q \in Ends : q # p
  /\ \A p, q, r \in Ends : p = q \/ q = r \/ p = r
ASSUME AuthorsAssumption == WriterAt \in [Authors -> Ends]
ASSUME NumbersAssumption ==
  /\ FirstSeqs \subseteq Nat \ {0}
  /\ RingSize \in Nat /\ Window \in Nat \ {0} /\ Window < RingSize
  /\ MaxPushed \in [Ends -> Nat] /\ MaxInFlight \in Nat
  /\ MayStay \subseteq BOOLEAN

VARIABLES
  buf,      \* buf[p]: the BattleBuffer of end p
  filter,   \* filter[p]: the recvSeq map of the MessageFilter of end p
  nextSeq,  \* nextSeq[a]: the sequence number of author a's next message
  handling, \* handling[p]: what p's reading goroutine holds of a packet
  net,      \* the packets in the network
  pushed,   \* history: pushed[p] is every message pushed at p, by position
  accepted  \* history: accepted[p] is every message p's filter let through

vars == <<buf, filter, nextSeq, handling, net, pushed, accepted>>

Peer(p) == CHOOSE q \in Ends : q # p

Msgs == [author : Authors, seq : Nat \ {0}]
NoMsg == [author |-> "none", seq |-> 0]
Idle == [data |-> <<>>, seq |-> 0, at |-> 0]

NewBuffer ==
  [ack |-> 0, begin |-> 1, end |-> 1, rbuf |-> [i \in 0 .. RingSize - 1 |-> NoMsg]]

Init ==
  /\ buf = [p \in Ends |-> NewBuffer]
  /\ filter = [p \in Ends |-> [a \in Authors |-> 0]]
  /\ nextSeq \in [Authors -> FirstSeqs]
  /\ handling = [p \in Ends |-> Idle]
  /\ net = {}
  /\ pushed = [p \in Ends |-> <<>>]
  /\ accepted = [p \in Ends |-> <<>>]

-----------------------------------------------------------------------------
(***************************************************************************)
(* What p's buffer may still be told was received: what the other end will *)
(* acknowledge now, or after a late packet, and the acknowledgements       *)
(* already in the network.                                                 *)
(***************************************************************************)
AcksTowards(p) ==
  {buf[p].begin - 1, buf[Peer(p)].ack}
    \cup {k.ack : k \in {k \in net : k.to = p}}
    \cup {k.seq : k \in {k \in net : k.to = Peer(p)}}

(***************************************************************************)
(* PushBattleMessage never looks at begin: nothing in the code stops the   *)
(* ring from overwriting a message that may have to be sent again.  The    *)
(* model assumes what the pace of a battle gives: at most RingSize         *)
(* messages are pushed while a packet or its acknowledgement is under way  *)
(* (4096; a peer that is silent for 5 seconds is dropped).                 *)
(***************************************************************************)
RingHasRoom(p) == \A a \in AcksTowards(p) : buf[p].end - a <= RingSize

(***************************************************************************)
(* GenerateMessage followed by PushBattleMessage at the author's own end;  *)
(* PushBattleMessage of a forwarded message at the server.                 *)
(***************************************************************************)
PushBattleMessage(a) ==
  LET p == WriterAt[a]
      m == [author |-> a, seq |-> nextSeq[a]]
  IN  /\ buf[p].end <= MaxPushed[p]
      /\ RingHasRoom(p)
      /\ buf' = [buf EXCEPT ![p].rbuf[buf[p].end % RingSize] = m,
                            ![p].end = @ + 1]
      /\ nextSeq' = [nextSeq EXCEPT ![a] = @ + 1]
      /\ pushed' = [pushed EXCEPT ![p] = Append(@, m)]
      /\ UNCHANGED <<filter, handling, net, accepted>>

(* Mutant of Slots: the newest message comes first. *)
SlotsReversed(rbuf, l, r) ==
  LET count == IF l <= r THEN r - l ELSE RingSize - l + r
  IN  [i \in 1 .. count |-> rbuf[(l + count - i) % RingSize]]

(***************************************************************************)
(* The ring cells from l up to but not including r, wrapping around.       *)
(***************************************************************************)
Slots(rbuf, l, r) ==
  LET count == IF l <= r THEN r - l ELSE RingSize - l + r
  IN  [i \in 1 .. count |-> rbuf[(l + i - 1) % RingSize]]

SendEnd(b) == IF b.begin + Window < b.end THEN b.begin + Window ELSE b.end

(* The packet made of GetSendData; an empty one still acknowledges. *)
Packet(p) ==
  LET b == buf[p]
      e == SendEnd(b)
  IN  [to   |-> Peer(p),
       data |-> Slots(b.rbuf, b.begin % RingSize, e % RingSize),
       seq  |-> e - 1,
       ack  |-> b.ack]

(* Mutant of Flush: what was sent once is not sent again. *)
FlushOnce(p) ==
  /\ Cardinality({k \in net : k.to = Peer(p)}) < MaxInFlight
  /\ net' = net \cup {Packet(p)}
  /\ buf' = [buf EXCEPT ![p].begin = SendEnd(buf[p])]
  /\ UNCHANGED <<filter, nextSeq, handling, pushed, accepted>>

(* chFlush: a timer or a push has asked for a packet. *)
Flush(p) ==
  /\ Cardinality({k \in net : k.to = Peer(p)}) < MaxInFlight
  /\ net' = net \cup {Packet(p)}
  /\ UNCHANGED <<buf, filter, nextSeq, handling, pushed, accepted>>

Lose(k) ==
  /\ net' = net \ {k}
  /\ UNCHANGED <<buf, filter, nextSeq, handling, pushed, accepted>>

-----------------------------------------------------------------------------
(* The first half of receiving a packet: ApplySeqAck. *)
ApplySeqAck(p, k) ==
  /\ k.to = p
  /\ handling[p] = Idle
  /\ buf' = [buf EXCEPT ![p].begin = k.ack + 1, ![p].ack = k.seq]
  /\ handling' = [handling EXCEPT
                    ![p] = IF k.data = <<>> THEN Idle
                           ELSE [data |-> k.data, seq |-> k.seq, at |-> 1]]
  /\ \E stays \in MayStay : net' = IF stays THEN net ELSE net \ {k}
  /\ UNCHANGED <<filter, nextSeq, pushed, accepted>>

(* Mutant of Accepts: a repeated message passes. *)
AcceptsAgain(p, m) ==
  LET recvSeq == filter[p][m.author]
  IN  recvSeq = 0 \/ m.seq \in {recvSeq, recvSeq + 1}

(* MessageFilter.Filter's verdict on message m at end p. *)
Accepts(p, m) ==
  LET recvSeq == filter[p][m.author]
  IN  recvSeq = 0 \/ m.seq = recvSeq + 1

(* The second half, once per message: Filter, and use the message. *)
Filter(p) ==
  /\ handling[p] # Idle
  /\ LET h == handling[p]
         m == h.data[h.at]
     IN  /\ IF Accepts(p, m)
            THEN /\ filter' = [filter EXCEPT ![p][m.author] = m.seq]
                 /\ accepted' = [accepted EXCEPT ![p] = Append(@, m)]
            ELSE UNCHANGED <<filter, accepted>>
         /\ handling' = [handling EXCEPT
                           ![p] = IF h.at = Len(h.data) THEN Idle
                                  ELSE [h EXCEPT !.at = @ + 1]]
  /\ UNCHANGED <<buf, nextSeq, net, pushed>>

-----------------------------------------------------------------------------
Receive(p) == \E k \in net : ApplySeqAck(p, k)

Next ==
  \/ \E a \in Authors : PushBattleMessage(a)
  \/ \E p \in Ends : Flush(p) \/ Receive(p) \/ Filter(p)
  \/ \E k \in net : Lose(k)

Spec == Init /\ [][Next]_vars

(***************************************************************************)
(* Flush is driven by a 16 ms ticker at both ends and Filter by a loop, so *)
(* both are weakly fair.  The network may lose any packet but not all of   *)
(* them: an end that is sent packets again and again receives again and    *)
(* again.                                                                  *)
(***************************************************************************)
Fairness ==
  \A p \in Ends : WF_vars(Flush(p)) /\ WF_vars(Filter(p)) /\ SF_vars(Receive(p))

FairSpec == Spec /\ Fairness

-----------------------------------------------------------------------------
TypeOK ==
  /\ buf \in [Ends -> [ack : Nat, begin : Nat \ {0}, end : Nat \ {0},
                       rbuf : [0 .. RingSize - 1 -> Msgs \cup {NoMsg}]]]
  /\ filter \in [Ends -> [Authors -> Nat]]
  /\ nextSeq \in [Authors -> Nat \ {0}]
  /\ handling \in [Ends -> [data : Seq(Msgs), seq : Nat, at : Nat]]
  /\ \A p \in Ends : handling[p] = Idle
                       \/ handling[p].at \in 1 .. Len(handling[p].data)
  /\ net \subseteq [to : Ends, data : Seq(Msgs), seq : Nat, ack : Nat]
  /\ pushed \in [Ends -> Seq(Msgs)]
  /\ accepted \in [Ends -> Seq(Msgs)]

(* What an end has passed on is what the other end pushed: the same        *)
(* messages in the same order, none missing, none twice, although packets  *)
(* are lost, repeated and reordered and acknowledgements move backwards.   *)
InOrderOnce ==
  \A p \in Ends : IsPrefix(accepted[p], pushed[Peer(p)])

(* How far end p's reading goroutine will have come when it has worked     *)
(* through the packet in its hands.                                        *)
Reach(p) ==
  IF handling[p] # Idle /\ handling[p].seq > Len(accepted[p])
  THEN handling[p].seq ELSE Len(accepted[p])

(* No packet begins beyond the first message its receiver still lacks:     *)
(* accepting an author's first message whatever its number, and skipping   *)
(* over what was acknowledged, can therefore leave no hole.                *)
PacketsLeaveNoHole ==
  \A k \in net : k.seq - Len(k.data) <= Reach(k.to)

(* A message leaves the sender's window only when the receiving goroutine  *)
(* has it: passed on already, or in the packet it is working through.      *)
DroppedIsDelivered ==
  \A p \in Ends : buf[p].begin - 1 <= Reach(Peer(p))

(* What holds of the buffers, the filters and the packets in every state.  *)
LinkSound == TypeOK /\ InOrderOnce /\ PacketsLeaveNoHole /\ DroppedIsDelivered

(* Whatever is pushed is eventually passed on at the other end. *)
EverythingArrives ==
  \A p \in Ends : \A n \in 1 .. MaxPushed[p] :
    Len(pushed[p]) = n ~> Len(accepted[Peer(p)]) >= n

-----------------------------------------------------------------------------
(* The link implements a pair of FIFO channels. *)
Channel == INSTANCE OrderedChannel WITH sent <- pushed, received <- accepted
ChannelSpec == Channel!Spec

=============================================================================
