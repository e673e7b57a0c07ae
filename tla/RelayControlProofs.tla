------------------------- MODULE RelayControlProofs -------------------------
(***************************************************************************)
(* Proofs about regional relays, for any number of relays, regions,        *)
(* sessions and players, any queue and any timeouts.                       *)
(***************************************************************************)
EXTENDS RelayControl, SequenceTheorems, FiniteSetTheorems, TLAPS

(* A relay reads a connection of its own. *)
DialsOwn == \A r \in Relays : dialed[r] # 0 => conns[dialed[r]].relay = r

(* Who is known by a connection is known by one that was made. *)
KnownByConn == \A r \in Relays : byAddr[r] # NoRelay <=> byAddr[r].conn # 0

(* The inductive invariant. That tokens reach a relay is stated of the      *)
(* connection it reads, and would be lost if two relays read one, or a     *)
(* relay read another's: hence DialsOwn. That a relay is offered while its *)
(* connection is served needs that what is known names a connection that   *)
(* was made: hence KnownByConn.                                            *)
IInv == TypeOK /\ DialsOwn /\ KnownByConn /\ OfferedIsServed /\ TokensReach

-----------------------------------------------------------------------------
(* What a relay that reads a connection holds of its tokens: the last of a *)
(* session that is in the queue, or what was there last, is the one that   *)
(* players know.                                                           *)
Reach(out, t, id, token) ==
  /\ (\A i \in DOMAIN out : out[i].id # id) => t[id] \in {0, token}
  /\ \A i \in DOMAIN out :
       out[i].id = id /\ (\A j \in DOMAIN out : out[j].id = id => j <= i) => out[i].token = token
Reaches(x, t) ==
  x.served => \A id \in Ids : x.tokens[id] # 0 /\ id \notin x.lost => Reach(x.out, t, id, x.tokens[id])

(* TokensReach, relay by relay. *)
LEMMA TokensReachIs ==
  TokensReach <=> \A r \in Relays : dialed[r] # 0 => Reaches(conns[dialed[r]], table[r])
<1>1. ASSUME NEW r \in Relays, NEW id \in Ids
      PROVE  LET c == dialed[r]
                 way == UnderWay(c, id)
             IN  Reach(conns[c].out, table[r], id, conns[c].tokens[id]) <=>
                 IF way = {} THEN table[r][id] \in {0, conns[c].tokens[id]}
                 ELSE \A i \in way : IsLast(i, way) => conns[c].out[i].token = conns[c].tokens[id]
  BY DEF Reach, UnderWay, IsLast
<1> QED  BY <1>1 DEF TokensReach, Reaches

(* The constants, one by one. *)
LEMMA Constants ==
  /\ RegionOf \in [Relays -> Regions] /\ IsFiniteSet(Ids) /\ 0 \notin Ids
  /\ MinUsers \in Nat /\ QueueLen \in Nat /\ IdleShutdown \in Nat /\ StartRetry \in Nat
  /\ MaxConns \in Nat /\ MaxTokens \in Nat /\ Never \in Nat /\ Cardinality(Ids) \in Nat
  BY ControlAssumption, FS_CardinalityType DEF Never

(* A connection's fields. *)
LEMMA ConnFields ==
  ASSUME NEW n \in Nat, NEW x \in Connections(n)
  PROVE  /\ x.relay \in Relays /\ x.served \in BOOLEAN /\ x.registered \in BOOLEAN
         /\ x.tokens \in [Ids -> 0 .. n] /\ x.out \in Seq(Controls(n))
         /\ x.statuses = <<>> \/ \E k \in Counts : x.statuses = <<k>>
         /\ x.held = <<>> \/ \E k \in Counts : x.held = <<k>>
         /\ x.lost \subseteq Ids \cup {0}
  BY DEF Connections

(* A connection with its fields. *)
LEMMA ConnMade ==
  ASSUME NEW n \in Nat, NEW r \in Relays, NEW s \in BOOLEAN, NEW g \in BOOLEAN,
         NEW t \in [Ids -> 0 .. n], NEW o \in Seq(Controls(n)),
         NEW a \in {<<>>} \cup {<<k>> : k \in Counts}, NEW h \in {<<>>} \cup {<<k>> : k \in Counts},
         NEW l \in SUBSET (Ids \cup {0})
  PROVE  [relay |-> r, served |-> s, registered |-> g, tokens |-> t, out |-> o,
          statuses |-> a, held |-> h, lost |-> l] \in Connections(n)
  BY DEF Connections

(* More tokens may be drawn. *)
LEMMA ConnsGrow ==
  ASSUME NEW n \in Nat, NEW m \in Nat, n <= m
  PROVE  Controls(n) \subseteq Controls(m) /\ Connections(n) \subseteq Connections(m)
<1>1. 1 .. n \subseteq 1 .. m /\ 0 .. n \subseteq 0 .. m
  OBVIOUS
<1>2. Controls(n) \subseteq Controls(m)
  BY <1>1 DEF Controls
<1>3. \A o \in Seq(Controls(n)) : o \in Seq(Controls(m))
  BY <1>2, SeqMonotonic
<1>4. \A t \in [Ids -> 0 .. n] : t \in [Ids -> 0 .. m]
  BY <1>1
<1>5. ASSUME NEW x \in Connections(n)  PROVE x \in Connections(m)
  BY <1>3, <1>4 DEF Connections
<1> QED  BY <1>2, <1>5

(* The connections made. *)
LEMMA ConnsTyped ==
  ASSUME TypeOK
  PROVE  /\ drawn \in Nat /\ Len(conns) \in Nat /\ DOMAIN conns = 1 .. Len(conns)
         /\ conns \in Seq(Connections(drawn))
         /\ \A c \in 1 .. Len(conns) :
              conns[c] \in Connections(drawn) /\ Len(conns[c].out) \in 0 .. QueueLen
<1>1. drawn \in Nat /\ conns \in Seq(Connections(drawn))
  BY Constants DEF TypeOK
<1>2. Len(conns) \in Nat /\ DOMAIN conns = 1 .. Len(conns)
  BY <1>1, LenProperties
<1>3. ASSUME NEW c \in 1 .. Len(conns)
      PROVE  conns[c] \in Connections(drawn) /\ Len(conns[c].out) \in 0 .. QueueLen
  <2>1. conns[c] \in Connections(drawn)
    BY <1>1, <1>3, ElementOfSeq
  <2>2. conns[c].out \in Seq(Controls(drawn))
    BY <1>1, <2>1, ConnFields
  <2>3. Len(conns[c].out) \in Nat
    BY <2>2, LenProperties
  <2>4. Len(conns[c].out) <= QueueLen
    BY <1>2 DEF TypeOK
  <2> QED  BY <2>1, <2>3, <2>4, Constants
<1> QED  BY <1>1, <1>2, <1>3

(* A sequence given by its members. *)
LEMMA SeqMade ==
  ASSUME NEW S, NEW n \in Nat, NEW f \in [1 .. n -> S]
  PROVE  f \in Seq(S) /\ Len(f) = n
<1>1. f \in Seq(S)
  BY SeqDef
<1>2. Len(f) \in Nat /\ DOMAIN f = 1 .. Len(f)
  BY <1>1, LenProperties
<1>3. 1 .. n = 1 .. Len(f)
  BY <1>2
<1> QED  BY <1>1, <1>2, <1>3

-----------------------------------------------------------------------------
(* What becomes of one connection.                                         *)

(* A queue with one more: what is in it, and that the new one is last. *)
LEMMA AppendReaches ==
  ASSUME NEW S, NEW out \in Seq(S), NEW ctl, NEW t, NEW id \in Ids, NEW token
  PROVE  /\ ctl.id # id /\ Reach(out, t, id, token) => Reach(Append(out, ctl), t, id, token)
         /\ ctl.id = id /\ ctl.token = token => Reach(Append(out, ctl), t, id, token)
<1> DEFINE o == Append(out, ctl)
           n == Len(out)
<1>1. n \in Nat /\ DOMAIN out = 1 .. n /\ DOMAIN o = 1 .. n + 1
  BY LenProperties
<1>2. \A i \in 1 .. n : o[i] = out[i]
  OBVIOUS
<1>3. o[n + 1] = ctl
  OBVIOUS
<1> HIDE DEF o, n
<1>4. ASSUME ctl.id # id, Reach(out, t, id, token)  PROVE Reach(o, t, id, token)
  BY <1>1, <1>2, <1>3, <1>4 DEF Reach
<1>5. ASSUME ctl.id = id, ctl.token = token  PROVE Reach(o, t, id, token)
  <2>1. ASSUME NEW i \in 1 .. n + 1, \A j \in 1 .. n + 1 : o[j].id = id => j <= i
        PROVE  i = n + 1
    BY <1>1, <1>3, <1>5, <2>1
  <2> QED  BY <1>1, <1>3, <1>5, <2>1 DEF Reach
<1> QED  BY <1>4, <1>5 DEF o

(* The head of a queue goes into the relay's table. *)
LEMMA TailReaches ==
  ASSUME NEW S, NEW out \in Seq(S), out # <<>>, NEW t, NEW u, NEW id \in Ids, NEW token,
         Reach(out, t, id, token), u[id] = IF Head(out).id = id THEN Head(out).token ELSE t[id]
  PROVE  Reach(Tail(out), u, id, token)
<1> DEFINE o == Tail(out)
           n == Len(out)
<1>1. n \in Nat \ {0} /\ DOMAIN out = 1 .. n /\ DOMAIN o = 1 .. n - 1
  BY LenProperties, EmptySeq, HeadTailProperties
<1>2. \A i \in 1 .. n - 1 : o[i] = out[i + 1]
  BY HeadTailProperties
<1>3. Head(out) = out[1]
  OBVIOUS
<1> HIDE DEF o, n
<1>4. ASSUME \A i \in DOMAIN o : o[i].id # id  PROVE u[id] \in {0, token}
  <2>1. \A i \in 2 .. n : i - 1 \in 1 .. n - 1 /\ out[i] = o[i - 1]
    BY <1>1, <1>2
  <2>2. \A i \in 2 .. n : out[i].id # id
    BY <1>1, <1>4, <2>1
  <2>3. CASE out[1].id = id
    <3>1. \A j \in DOMAIN out : out[j].id = id => j <= 1
      BY <1>1, <2>2
    <3> QED  BY <1>1, <1>3, <2>3, <3>1 DEF Reach
  <2>4. CASE out[1].id # id
    <3>1. \A i \in DOMAIN out : out[i].id # id
      BY <1>1, <2>2, <2>4
    <3> QED  BY <1>3, <2>4, <3>1 DEF Reach
  <2> QED  BY <2>3, <2>4
<1>5. ASSUME NEW i \in DOMAIN o, o[i].id = id, \A j \in DOMAIN o : o[j].id = id => j <= i
      PROVE  o[i].token = token
  <2>1. i + 1 \in DOMAIN out /\ out[i + 1] = o[i]
    BY <1>1, <1>2
  <2>2. ASSUME NEW j \in DOMAIN out, out[j].id = id  PROVE j <= i + 1
    <3>1. CASE j = 1
      BY <1>1, <3>1
    <3>2. CASE j # 1
      <4>1. j - 1 \in DOMAIN o /\ o[j - 1] = out[j]
        BY <1>1, <1>2, <3>2
      <4>2. j - 1 <= i
        BY <1>5, <2>2, <4>1
      <4> QED  BY <1>1, <4>2
    <3> QED  BY <3>1, <3>2
  <2> QED  BY <1>5, <2>1, <2>2 DEF Reach
<1> QED  BY <1>4, <1>5 DEF Reach, o

(* Pushed: what becomes of a connection when a control is pushed. *)
LEMMA PushedFits ==
  ASSUME NEW n \in Nat, NEW x \in Connections(n), Len(x.out) \in 0 .. QueueLen,
         NEW ctl \in Controls(n)
  PROVE  LET y == Pushed(x, ctl)
         IN  /\ y \in Connections(n) /\ Len(y.out) \in 0 .. QueueLen
             /\ y.relay = x.relay /\ y.served = x.served /\ y.registered = x.registered
             /\ y.tokens = x.tokens /\ y.held = x.held /\ y.statuses = x.statuses
             /\ \/ ~ x.served /\ y = x
                \/ y.out = Append(x.out, ctl) /\ y.lost = x.lost
                \/ y.out = x.out /\ y.lost = x.lost \cup {ctl.id}
<1> DEFINE y == Pushed(x, ctl)
<1>n. QueueLen \in Nat
  BY Constants
<1>f. x.out \in Seq(Controls(n)) /\ x.lost \in SUBSET (Ids \cup {0}) /\ x.served \in BOOLEAN
  BY ConnFields
<1>1. CASE ~ x.served
  BY <1>1 DEF Pushed
<1>2. CASE x.served /\ Len(x.out) < QueueLen
  <2>1. PICK o \in Seq(Controls(n)) : o = Append(x.out, ctl)
    <3>1. Append(x.out, ctl) \in Seq(Controls(n))
      BY <1>f, AppendProperties
    <3> QED  BY <3>1
  <2>2. y = [x EXCEPT !.out = o]
    BY <1>2, <2>1 DEF Pushed
  <2>3. Len(o) = Len(x.out) + 1
    BY <1>f, <2>1
  <2>4. Len(o) \in 0 .. QueueLen
    BY <1>n, <1>2, <2>3
  <2>5. y \in Connections(n) /\ y.out = o /\ y.lost = x.lost
        /\ y.relay = x.relay /\ y.served = x.served /\ y.registered = x.registered
        /\ y.tokens = x.tokens /\ y.held = x.held /\ y.statuses = x.statuses
    BY <2>2 DEF Connections
  <2> QED  BY <2>1, <2>4, <2>5
<1>3. CASE x.served /\ ~ (Len(x.out) < QueueLen)
  <2>0. ctl.id \in Ids \cup {0}
    BY DEF Controls, Shutdown
  <2>1. PICK l \in SUBSET (Ids \cup {0}) : l = x.lost \cup {ctl.id}
    BY <1>f, <2>0
  <2>2. y = [x EXCEPT !.lost = l]
    BY <1>3, <2>1 DEF Pushed
  <2>5. y \in Connections(n) /\ y.out = x.out /\ y.lost = l
        /\ y.relay = x.relay /\ y.served = x.served /\ y.registered = x.registered
        /\ y.tokens = x.tokens /\ y.held = x.held /\ y.statuses = x.statuses
    BY <2>2 DEF Connections
  <2> QED  BY <2>1, <2>5
<1> QED  BY <1>f, <1>1, <1>2, <1>3

(* A shutdown that is pushed leaves the tokens as they are under way. *)
LEMMA ShutdownReaches ==
  ASSUME NEW n \in Nat, NEW x \in Connections(n), Len(x.out) \in 0 .. QueueLen,
         NEW t, Reaches(x, t)
  PROVE  Reaches(Pushed(x, Shutdown), t)
<1>1. Shutdown \in Controls(n) /\ Shutdown.id = 0
  BY DEF Controls, Shutdown
<1>2. PICK y : y = Pushed(x, Shutdown)
  OBVIOUS
<1>3. /\ y.served = x.served /\ y.tokens = x.tokens
      /\ \/ ~ x.served /\ y = x
         \/ y.out = Append(x.out, Shutdown) /\ y.lost = x.lost
         \/ y.out = x.out /\ y.lost = x.lost \cup {Shutdown.id}
  BY <1>1, <1>2, PushedFits
<1>4. ASSUME y.served, NEW id \in Ids, y.tokens[id] # 0, id \notin y.lost
      PROVE  Reach(y.out, t, id, y.tokens[id])
  <2>1. Reach(x.out, t, id, x.tokens[id])
    BY <1>3, <1>4 DEF Reaches
  <2>2. x.out \in Seq(Controls(n)) /\ Shutdown.id # id
    BY <1>1, ConnFields, Constants
  <2>3. Reach(Append(x.out, Shutdown), t, id, x.tokens[id])
    BY <2>1, <2>2, AppendReaches
  <2> QED  BY <1>3, <1>4, <2>1, <2>3
<1> QED  BY <1>2, <1>4 DEF Reaches

(* SessionToken draws a token and pushes it: the relay will hold it, or it *)
(* is lost.                                                                *)
LEMMA TokenFits ==
  ASSUME NEW n \in Nat, NEW x \in Connections(n), Len(x.out) \in 0 .. QueueLen,
         NEW id \in Ids, NEW old \in SUBSET (Ids \ {id})
  PROVE  LET y == [x EXCEPT !.tokens = [k \in Ids |-> IF k = id THEN n + 1
                                         ELSE IF k \in old THEN 0 ELSE x.tokens[k]],
                            !.lost = x.lost \ {id}]
             z == Pushed(y, [id |-> id, token |-> n + 1])
         IN  /\ z \in Connections(n + 1) /\ Len(z.out) \in 0 .. QueueLen
             /\ z.relay = x.relay /\ z.served = x.served /\ z.registered = x.registered
             /\ \A t : Reaches(x, t) => Reaches(z, t)
<1> DEFINE ctl == [id |-> id, token |-> n + 1]
<1>1. PICK tokens \in [Ids -> 0 .. n + 1] :
        tokens = [k \in Ids |-> IF k = id THEN n + 1 ELSE IF k \in old THEN 0 ELSE x.tokens[k]]
  <2>1. \A k \in Ids : x.tokens[k] \in 0 .. n
    BY ConnFields
  <2>2. \A k \in Ids : (IF k = id THEN n + 1 ELSE IF k \in old THEN 0 ELSE x.tokens[k]) \in 0 .. n + 1
    BY <2>1
  <2> QED  BY <2>2
<1>2. PICK lost \in SUBSET (Ids \cup {0}) : lost = x.lost \ {id}
  BY ConnFields
<1>3. PICK y : y = [x EXCEPT !.tokens = tokens, !.lost = lost]
  OBVIOUS
<1>4. x \in Connections(n + 1) /\ ctl \in Controls(n + 1) /\ n + 1 \in Nat
  <2>1. n + 1 \in Nat /\ n <= n + 1 /\ n + 1 \in 1 .. n + 1
    OBVIOUS
  <2> QED  BY <2>1, ConnsGrow DEF Controls
<1>5. /\ y \in Connections(n + 1) /\ y.tokens = tokens /\ y.lost = lost /\ y.out = x.out
      /\ y.relay = x.relay /\ y.served = x.served /\ y.registered = x.registered
  BY <1>3, <1>4 DEF Connections
<1>6. PICK z : z = Pushed(y, ctl)
  OBVIOUS
<1> HIDE DEF ctl
<1>7. /\ z \in Connections(n + 1) /\ Len(z.out) \in 0 .. QueueLen
      /\ z.relay = y.relay /\ z.served = y.served /\ z.registered = y.registered
      /\ z.tokens = y.tokens
      /\ \/ ~ y.served /\ z = y
         \/ z.out = Append(y.out, ctl) /\ z.lost = y.lost
         \/ z.out = y.out /\ z.lost = y.lost \cup {ctl.id}
  BY <1>4, <1>5, <1>6, PushedFits, SMTT(30)
<1>8. ASSUME NEW t, Reaches(x, t), z.served, NEW k \in Ids, z.tokens[k] # 0, k \notin z.lost
      PROVE  Reach(z.out, t, k, z.tokens[k])
  <2>1. ctl.id = id /\ ctl.token = n + 1
    BY DEF ctl
  <2>2. x.out \in Seq(Controls(n)) /\ x.served
    BY <1>5, <1>7, <1>8, ConnFields
  <2>3. CASE k = id
    <3>1. z.out = Append(x.out, ctl) /\ z.tokens[k] = n + 1
      BY <1>1, <1>5, <1>7, <1>8, <2>1, <2>3
    <3>2. Reach(Append(x.out, ctl), t, k, n + 1)
      BY <2>1, <2>2, <2>3, AppendReaches
    <3> QED  BY <3>1, <3>2
  <2>4. CASE k # id
    <3>1. z.tokens[k] = x.tokens[k]
      BY <1>1, <1>5, <1>7, <1>8, <2>4
    <3>2. k \notin x.lost
      BY <1>2, <1>5, <1>7, <1>8, <2>4
    <3>3. Reach(x.out, t, k, x.tokens[k])
      BY <1>8, <2>2, <3>1, <3>2 DEF Reaches
    <3>4. Reach(Append(x.out, ctl), t, k, x.tokens[k])
      BY <2>1, <2>2, <2>4, <3>3, AppendReaches
    <3> QED  BY <1>5, <1>7, <1>8, <3>1, <3>3, <3>4
  <2> QED  BY <2>3, <2>4
<1>9. \A t : Reaches(x, t) => Reaches(z, t)
  BY <1>8 DEF Reaches
<1> QED  BY <1>1, <1>2, <1>3, <1>5, <1>6, <1>7, <1>9 DEF ctl

(* Ended: a connection that ended at the lobby. *)
LEMMA EndedFits ==
  ASSUME NEW n \in Nat, NEW x \in Connections(n), Len(x.out) \in 0 .. QueueLen,
         NEW written \in 0 .. Len(x.out)
  PROVE  LET y == Ended(x, written)
         IN  /\ y \in Connections(n) /\ Len(y.out) \in 0 .. QueueLen
             /\ y.relay = x.relay /\ ~ y.served
<1>1. x.relay \in Relays /\ x.tokens \in [Ids -> 0 .. n] /\ x.out \in Seq(Controls(n))
  BY ConnFields
<1>2. /\ SubSeq(x.out, 1, written) \in Seq(Controls(n))
      /\ Len(SubSeq(x.out, 1, written)) \in 0 .. QueueLen
  <2>1. \A i \in 1 .. written : x.out[i] \in Controls(n)
    BY <1>1, ElementOfSeq
  <2>2. Len(x.out) \in Nat /\ 1 \in Int /\ written \in Int
    BY <1>1, LenProperties
  <2>3. /\ SubSeq(x.out, 1, written) \in Seq(Controls(n))
        /\ Len(SubSeq(x.out, 1, written)) = IF 1 <= written THEN written - 1 + 1 ELSE 0
    BY <2>1, <2>2, SubSeqProperties
  <2>4. QueueLen \in Nat /\ (IF 1 <= written THEN written - 1 + 1 ELSE 0) \in 0 .. QueueLen
    BY <2>2, Constants
  <2> QED  BY <2>3, <2>4
<1>3. PICK out \in Seq(Controls(n)) : out = SubSeq(x.out, 1, written)
  BY <1>2
<1>a. PICK z : z = NewConn(x.relay)
  OBVIOUS
<1>b. z \in Connections(n)
  <2>1. NoTokens \in [Ids -> 0 .. n] /\ <<>> \in Seq(Controls(n))
    BY EmptySeq DEF NoTokens
  <2> QED  BY <1>1, <1>a, <2>1, ConnMade DEF NewConn
<1>c. z.relay = x.relay
  BY <1>a DEF NewConn
<1>4. Ended(x, written) = [z EXCEPT !.served = FALSE, !.tokens = x.tokens, !.out = out]
  BY <1>3, <1>a DEF Ended
<1>5. /\ Ended(x, written) \in Connections(n) /\ Ended(x, written).out = out
      /\ Ended(x, written).relay = x.relay /\ Ended(x, written).served = FALSE
  BY <1>1, <1>4, <1>b, <1>c DEF Connections
<1> QED  BY <1>2, <1>3, <1>5

(* NewConn: a connection that is new. *)
LEMMA NewConnFits ==
  ASSUME NEW n \in Nat, NEW r \in Relays
  PROVE  LET x == NewConn(r)
         IN  /\ x \in Connections(n) /\ Len(x.out) = 0 /\ x.relay = r
             /\ \A t : Reaches(x, t)
<1>1. NoTokens \in [Ids -> 0 .. n] /\ <<>> \in Seq(Controls(n)) /\ Len(<<>>) = 0
  BY EmptySeq DEF NoTokens
<1>2. NewConn(r) \in Connections(n)
  BY <1>1, ConnMade DEF NewConn
<1>3. \A t : Reaches(NewConn(r), t)
  BY DEF Reaches, NewConn, NoTokens
<1> QED  BY <1>1, <1>2, <1>3 DEF NewConn

-----------------------------------------------------------------------------
(* What becomes of the connections.                                        *)

(* One of them is another now. *)
LEMMA OneChanged ==
  ASSUME TypeOK, NEW c \in 1 .. Len(conns), NEW n \in Nat, drawn <= n,
         NEW x \in Connections(n), Len(x.out) \in 0 .. QueueLen,
         conns' = [conns EXCEPT ![c] = x]
  PROVE  /\ conns' \in Seq(Connections(n)) /\ Len(conns') = Len(conns)
         /\ DOMAIN conns' = 1 .. Len(conns)
         /\ \A d \in 1 .. Len(conns) : conns'[d] = IF d = c THEN x ELSE conns[d]
         /\ \A d \in 1 .. Len(conns) : Len(conns'[d].out) <= QueueLen
<1>1. /\ drawn \in Nat /\ Len(conns) \in Nat /\ conns \in Seq(Connections(drawn))
      /\ \A d \in 1 .. Len(conns) : Len(conns[d].out) \in 0 .. QueueLen
  BY ConnsTyped
<1>2. conns \in Seq(Connections(n))
  BY <1>1, ConnsGrow, SeqMonotonic
<1>3. /\ conns' \in Seq(Connections(n)) /\ Len(conns') = Len(conns)
      /\ \A d \in 1 .. Len(conns) : conns'[d] = IF d = c THEN x ELSE conns[d]
  BY <1>2, ExceptSeq
<1>4. DOMAIN conns' = 1 .. Len(conns)
  BY <1>3, LenProperties
<1>5. \A d \in 1 .. Len(conns) : Len(conns'[d].out) <= QueueLen
  BY <1>1, <1>3, Constants
<1> QED  BY <1>3, <1>4, <1>5

(* Each of them may be another now. *)
LEMMA AllChanged ==
  ASSUME TypeOK, NEW f, conns' = [c \in DOMAIN conns |-> f[c]],
         \A c \in 1 .. Len(conns) : f[c] \in Connections(drawn) /\ Len(f[c].out) \in 0 .. QueueLen
  PROVE  /\ conns' \in Seq(Connections(drawn)) /\ Len(conns') = Len(conns)
         /\ DOMAIN conns' = 1 .. Len(conns)
         /\ \A c \in 1 .. Len(conns) : conns'[c] = f[c]
         /\ \A c \in 1 .. Len(conns) : Len(conns'[c].out) <= QueueLen
<1>1. Len(conns) \in Nat /\ DOMAIN conns = 1 .. Len(conns)
  BY ConnsTyped
<1>2. conns' \in [1 .. Len(conns) -> Connections(drawn)]
  BY <1>1
<1>3. conns' \in Seq(Connections(drawn)) /\ Len(conns') = Len(conns)
  BY <1>1, <1>2, SeqMade
<1>4. DOMAIN conns' = 1 .. Len(conns) /\ \A c \in 1 .. Len(conns) : conns'[c] = f[c]
  BY <1>1
<1> QED  BY <1>3, <1>4, Constants

-----------------------------------------------------------------------------
(* The invariant, relay by relay: what it reads, and what is known of it.  *)
Link(r) == dialed[r] # 0 => conns[dialed[r]].relay = r /\ Reaches(conns[dialed[r]], table[r])
Known(r) ==
  /\ byAddr[r] = NoRelay <=> byAddr[r].conn = 0
  /\ byAddr[r] # NoRelay =>
       LET x == conns[byAddr[r].conn] IN x.served /\ x.registered /\ x.relay = r

(* The inductive invariant, relay by relay. *)
LEMMA IInvIs == IInv <=> TypeOK /\ \A r \in Relays : Link(r) /\ Known(r)
  BY TokensReachIs DEF IInv, DialsOwn, KnownByConn, OfferedIsServed, Offered, Link, Known

(* The same of the next state. *)
LEMMA IInvNext ==
  ASSUME TypeOK', \A r \in Relays : Link(r)' /\ Known(r)'
  PROVE  IInv'
<1>1. IInv' <=> (TypeOK /\ \A r \in Relays : Link(r) /\ Known(r))'
  BY IInvIs, PTL
<1> QED  BY <1>1

(* What relays and the lobby know of connections. *)
LEMMA Pointers ==
  ASSUME TypeOK, NEW r \in Relays
  PROVE  /\ dialed[r] \in 0 .. Len(conns) /\ byAddr[r].conn \in 0 .. Len(conns)
         /\ byAddr[r] \in [conn : 0 .. Len(conns), active : Counts, canStop : BOOLEAN]
         /\ table[r] \in [Ids -> 0 .. drawn]
  BY DEF TypeOK

(* A relay goes on reading a connection that keeps what is to be read. *)
LEMMA LinkKept ==
  ASSUME TypeOK, NEW r \in Relays, Link(r), dialed'[r] = dialed[r], table'[r] = table[r],
         \A c \in 1 .. Len(conns) :
           conns'[c].relay = conns[c].relay /\ \A t : Reaches(conns[c], t) => Reaches(conns'[c], t)
  PROVE  Link(r)'
<1>1. dialed[r] # 0 => dialed[r] \in 1 .. Len(conns)
  BY Pointers, ConnsTyped
<1> QED  BY <1>1 DEF Link

(* What the lobby knows of a relay goes on to be so while the connection   *)
(* is served.                                                              *)
LEMMA KnownKept ==
  ASSUME TypeOK, NEW r \in Relays, Known(r), byAddr'[r] = byAddr[r],
         \A c \in 1 .. Len(conns) :
           /\ conns'[c].relay = conns[c].relay /\ conns'[c].served = conns[c].served
           /\ conns[c].registered => conns'[c].registered
  PROVE  Known(r)'
<1>1. byAddr[r].conn # 0 => byAddr[r].conn \in 1 .. Len(conns)
  BY Pointers, ConnsTyped
<1>2. NoRelay' = NoRelay
  OBVIOUS
<1> QED  BY <1>1 DEF Known

-----------------------------------------------------------------------------
(* The steps, one by one.                                                  *)

(* Whatever leaves connections, tables and what is known as they are. *)
LEMMA StandsStill ==
  ASSUME IInv, UNCHANGED <<dialed, table, conns, byAddr>>, TypeOK'
  PROVE  IInv'
<1>1. TypeOK /\ \A r \in Relays : Link(r) /\ Known(r)
  BY IInvIs
<1>2. \A r \in Relays : Link(r)' /\ Known(r)'
  BY <1>1 DEF Link, Known
<1> QED  BY <1>2, IInvNext

(* A player's question for a relay moves none of what the invariant relates. *)
LEMMA AskHolds == ASSUME IInv, NEW id \in Ids, Ask(id)  PROVE IInv'
<1>1. TypeOK /\ \A r \in Relays : Known(r)
  BY IInvIs
<1>2. DOMAIN conns = 1 .. Len(conns) /\ Len(conns) \in Nat
  BY <1>1, ConnsTyped
<1>3. {byAddr[r].conn : r \in Offered} \in SUBSET DOMAIN conns
  <2>1. ASSUME NEW r \in Offered  PROVE byAddr[r].conn \in 1 .. Len(conns)
    <3>1. r \in Relays /\ byAddr[r].conn # 0
      BY <1>1, <2>1 DEF Offered, Known
    <3> QED  BY <1>1, <1>2, <3>1, Pointers
  <2> QED  BY <1>2, <2>1
<1>4. asking' \in [id : Ids, todo : SUBSET DOMAIN conns]
  BY <1>3 DEF Ask
<1>5. UNCHANGED <<up, table, dialed, conns, byAddr, sinceNeeded, sinceStart, online, drawn, starting>>
  BY DEF Ask, relayVars
<1>6. TypeOK'
  BY <1>1, <1>4, <1>5 DEF TypeOK
<1> QED  BY <1>5, <1>6, StandsStill

(* Who logs in or leaves is no matter to the relays. *)
LEMMA LoginHolds == ASSUME IInv, NEW crowd \in Crowds, Login(crowd)  PROVE IInv'
<1>1. TypeOK
  BY IInvIs
<1>2. TypeOK' /\ UNCHANGED <<dialed, table, conns, byAddr>>
  BY <1>1 DEF Login, TypeOK, relayVars
<1> QED  BY <1>2, StandsStill

(* A relay that comes up dials nobody yet. *)
LEMMA StartRelayHolds == ASSUME IInv, NEW g \in Regions, StartRelay(g)  PROVE IInv'
<1>1. TypeOK
  BY IInvIs
<1>2. TypeOK' /\ UNCHANGED <<dialed, table, conns, byAddr>>
  BY <1>1 DEF StartRelay, TypeOK, lobbyVars
<1> QED  BY <1>2, StandsStill

(* A token is drawn, or there is one. *)
LEMMA SessionTokenHolds == ASSUME IInv, NEW c \in asking.todo, SessionToken(c)  PROVE IInv'
<1>1. TypeOK /\ \A r \in Relays : Link(r) /\ Known(r)
  BY IInvIs
<1>2. /\ DOMAIN conns = 1 .. Len(conns) /\ Len(conns) \in Nat /\ drawn \in Nat
      /\ \A d \in 1 .. Len(conns) : conns[d] \in Connections(drawn) /\ Len(conns[d].out) \in 0 .. QueueLen
  BY <1>1, ConnsTyped
<1>3. asking \in [id : Ids, todo : SUBSET DOMAIN conns] /\ c \in 1 .. Len(conns)
  BY <1>1, <1>2 DEF TypeOK, Nobody
<1>4. UNCHANGED <<up, table, dialed, byAddr, sinceNeeded, sinceStart, online, starting>>
  BY DEF SessionToken, relayVars
<1>5. asking' = Nobody \/ asking' \in [id : Ids, todo : SUBSET DOMAIN conns]
  <2>1. asking' = Nobody \/ asking' = [asking EXCEPT !.todo = @ \ {c}]
    BY DEF SessionToken
  <2> QED  BY <1>3, <2>1
<1>6. CASE UNCHANGED <<conns, drawn>>
  <2>1. TypeOK'
    BY <1>1, <1>4, <1>5, <1>6 DEF TypeOK
  <2> QED  BY <1>4, <1>6, <2>1, StandsStill
<1>7. CASE ~ UNCHANGED <<conns, drawn>>
  <2> DEFINE id == asking.id
             x == conns[c]
  <2>1. id \in Ids
    BY <1>3
  <2>2. /\ drawn < MaxTokens /\ drawn' = drawn + 1
        /\ \E old \in SUBSET (Ids \ {id}) :
             conns' = [conns EXCEPT ![c] = Pushed(
               [x EXCEPT !.tokens = [k \in Ids |-> IF k = id THEN drawn + 1
                                       ELSE IF k \in old THEN 0 ELSE x.tokens[k]],
                         !.lost = x.lost \ {id}], [id |-> id, token |-> drawn + 1])]
    BY <1>7 DEF SessionToken
  <2>3. PICK z : /\ conns' = [conns EXCEPT ![c] = z]
                 /\ z \in Connections(drawn + 1) /\ Len(z.out) \in 0 .. QueueLen
                 /\ z.relay = x.relay /\ z.served = x.served /\ z.registered = x.registered
                 /\ \A t : Reaches(x, t) => Reaches(z, t)
    <3>1. PICK old \in SUBSET (Ids \ {id}) :
             conns' = [conns EXCEPT ![c] = Pushed(
               [x EXCEPT !.tokens = [k \in Ids |-> IF k = id THEN drawn + 1
                                       ELSE IF k \in old THEN 0 ELSE x.tokens[k]],
                         !.lost = x.lost \ {id}], [id |-> id, token |-> drawn + 1])]
      BY <2>2
    <3>2. x \in Connections(drawn) /\ Len(x.out) \in 0 .. QueueLen
      BY <1>2, <1>3
    <3> DEFINE z == Pushed([x EXCEPT !.tokens = [k \in Ids |-> IF k = id THEN drawn + 1
                                                    ELSE IF k \in old THEN 0 ELSE x.tokens[k]],
                                     !.lost = x.lost \ {id}], [id |-> id, token |-> drawn + 1])
    <3>3. conns' = [conns EXCEPT ![c] = z]
      BY <3>1
    <3> HIDE DEF x, id
    <3>4. /\ z \in Connections(drawn + 1) /\ Len(z.out) \in 0 .. QueueLen
          /\ z.relay = x.relay /\ z.served = x.served /\ z.registered = x.registered
          /\ \A t : Reaches(x, t) => Reaches(z, t)
      BY <1>2, <2>1, <3>2, TokenFits
    <3> HIDE DEF z
    <3> QED  BY <3>3, <3>4
  <2>4. drawn + 1 \in Nat /\ drawn <= drawn + 1 /\ drawn' \in 0 .. MaxTokens
        /\ 0 .. drawn \subseteq 0 .. drawn'
    BY <1>2, <2>2, Constants
  <2>5. /\ conns' \in Seq(Connections(drawn')) /\ Len(conns') = Len(conns)
        /\ DOMAIN conns' = 1 .. Len(conns)
        /\ \A d \in 1 .. Len(conns) : conns'[d] = IF d = c THEN z ELSE conns[d]
        /\ \A d \in 1 .. Len(conns) : Len(conns'[d].out) <= QueueLen
    BY <1>1, <1>3, <2>2, <2>3, <2>4, OneChanged
  <2>6. table' \in [Relays -> [Ids -> 0 .. drawn']]
    <3>1. table \in [Relays -> [Ids -> 0 .. drawn]]
      BY <1>1 DEF TypeOK
    <3>2. \A t \in [Ids -> 0 .. drawn] : t \in [Ids -> 0 .. drawn']
      BY <2>4
    <3>3. table' = table
      BY <1>4
    <3> QED  BY <3>1, <3>2, <3>3
  <2>7. TypeOK'
    BY <1>1, <1>2, <1>4, <1>5, <2>4, <2>5, <2>6 DEF TypeOK
  <2>8. \A d \in 1 .. Len(conns) :
          /\ conns'[d].relay = conns[d].relay /\ conns'[d].served = conns[d].served
          /\ conns[d].registered => conns'[d].registered
          /\ \A t : Reaches(conns[d], t) => Reaches(conns'[d], t)
    BY <2>3, <2>5
  <2>9. \A r \in Relays : Link(r)' /\ Known(r)'
    BY <1>1, <1>4, <2>8, LinkKept, KnownKept
  <2> QED  BY <2>7, <2>9, IInvNext
<1> QED  BY <1>6, <1>7

(* What updateRelays makes of the times it keeps by region. *)
LEMMA Ages ==
  ASSUME NEW rounds \in Nat, NEW most \in Nat
  PROVE  Aged(rounds, most) \in Nat /\ (rounds <= most => Aged(rounds, most) <= most)
         /\ (rounds <= most + 1 => Aged(rounds, most) <= most + 1)
  BY DEF Aged

(* Starts and shutdowns: what a full queue drops is no session. *)
LEMMA UpdateRelaysHolds == ASSUME IInv, UpdateRelays  PROVE IInv'
<1>1. TypeOK /\ \A r \in Relays : Link(r) /\ Known(r)
  BY IInvIs
<1>2. /\ DOMAIN conns = 1 .. Len(conns) /\ Len(conns) \in Nat /\ drawn \in Nat
      /\ \A d \in 1 .. Len(conns) : conns[d] \in Connections(drawn) /\ Len(conns[d].out) \in 0 .. QueueLen
  BY <1>1, ConnsTyped
<1>3. UNCHANGED <<up, table, dialed, asking, online, drawn>>
  BY DEF UpdateRelays, relayVars
<1>4. PICK stops \in SUBSET Relays :
        /\ conns' = [c \in DOMAIN conns |-> IF \E r \in stops : byAddr[r].conn = c
                                            THEN Pushed(conns[c], Shutdown) ELSE conns[c]]
        /\ byAddr' = [r \in Relays |-> [byAddr[r] EXCEPT !.canStop = @ /\ r \notin stops]]
  <2> DEFINE stops == {r \in Offered : /\ LastNeeded({RegionOf[q] : q \in Offered})[RegionOf[r]] = IdleShutdown
                                       /\ byAddr[r].active = 0 /\ byAddr[r].canStop}
  <2>1. stops \in SUBSET Relays
    BY DEF Offered
  <2>2. /\ conns' = [c \in DOMAIN conns |-> IF \E r \in stops : byAddr[r].conn = c
                                            THEN Pushed(conns[c], Shutdown) ELSE conns[c]]
        /\ byAddr' = [r \in Relays |-> [byAddr[r] EXCEPT !.canStop = @ /\ r \notin stops]]
    BY DEF UpdateRelays
  <2> HIDE DEF stops
  <2> QED  BY <2>1, <2>2
<1>5. PICK f : f = [c \in DOMAIN conns |-> IF \E r \in stops : byAddr[r].conn = c
                                           THEN Pushed(conns[c], Shutdown) ELSE conns[c]]
  OBVIOUS
<1>6. ASSUME NEW c \in 1 .. Len(conns)
      PROVE  /\ f[c] \in Connections(drawn) /\ Len(f[c].out) \in 0 .. QueueLen
             /\ f[c].relay = conns[c].relay /\ f[c].served = conns[c].served
             /\ f[c].registered = conns[c].registered
             /\ \A t : Reaches(conns[c], t) => Reaches(f[c], t)
  <2>1. Shutdown \in Controls(drawn)
    BY DEF Controls
  <2>2. PICK x : x = conns[c]
    OBVIOUS
  <2>3. x \in Connections(drawn) /\ Len(x.out) \in 0 .. QueueLen
    BY <1>2, <2>2
  <2>4. CASE f[c] = x
    BY <2>2, <2>3, <2>4
  <2>5. CASE f[c] = Pushed(x, Shutdown)
    <3>1. PICK y : y = Pushed(x, Shutdown)
      OBVIOUS
    <3>2. /\ y \in Connections(drawn) /\ Len(y.out) \in 0 .. QueueLen
          /\ y.relay = x.relay /\ y.served = x.served /\ y.registered = x.registered
      BY <1>2, <2>1, <2>3, <3>1, PushedFits
    <3>3. \A t : Reaches(x, t) => Reaches(y, t)
      BY <1>2, <2>3, <3>1, ShutdownReaches
    <3> QED  BY <2>2, <2>5, <3>1, <3>2, <3>3
  <2>6. f[c] = x \/ f[c] = Pushed(x, Shutdown)
    BY <1>2, <1>5, <2>2
  <2> QED  BY <2>4, <2>5, <2>6
<1>7. /\ conns' \in Seq(Connections(drawn)) /\ Len(conns') = Len(conns)
      /\ DOMAIN conns' = 1 .. Len(conns)
      /\ \A c \in 1 .. Len(conns) : conns'[c] = f[c]
      /\ \A c \in 1 .. Len(conns) : Len(conns'[c].out) <= QueueLen
  <2>1. conns' = [c \in DOMAIN conns |-> f[c]]
    BY <1>4, <1>5
  <2>2. \A c \in 1 .. Len(conns) : f[c] \in Connections(drawn) /\ Len(f[c].out) \in 0 .. QueueLen
    BY <1>6
  <2> HIDE <1>4, <1>5
  <2> QED  BY <1>1, <2>1, <2>2, AllChanged
<1>8. ASSUME NEW r \in Relays
      PROVE  /\ byAddr'[r] \in [conn : 0 .. Len(conns), active : Counts, canStop : BOOLEAN]
             /\ byAddr'[r].conn = byAddr[r].conn
             /\ byAddr'[r] = NoRelay <=> byAddr[r] = NoRelay
  <2>1. PICK x \in [conn : 0 .. Len(conns), active : Counts, canStop : BOOLEAN] : x = byAddr[r]
    BY <1>1, Pointers
  <2>2. PICK b \in BOOLEAN : b = (x.canStop /\ r \notin stops)
    OBVIOUS
  <2>3. byAddr'[r] = [x EXCEPT !.canStop = b]
    BY <1>4, <2>1, <2>2
  <2>4. x = NoRelay <=> x.conn = 0
    BY <1>1, <2>1 DEF Known
  <2>5. x = NoRelay => b = FALSE
    <3>1. x = NoRelay => ~ x.canStop
      BY DEF NoRelay
    <3>2. ~ x.canStop => ~ b
      BY <2>2, Zenon
    <3> QED  BY <3>1, <3>2
  <2> QED  BY <2>1, <2>3, <2>4, <2>5 DEF NoRelay
<1>9. byAddr' \in [Relays -> [conn : 0 .. Len(conns), active : Counts, canStop : BOOLEAN]]
  <2>1. DOMAIN byAddr' = Relays /\ byAddr' = [r \in Relays |-> byAddr'[r]]
    BY <1>4
  <2> HIDE <1>4
  <2> QED  BY <1>8, <2>1
<1>10. sinceNeeded' \in [Regions -> 0 .. Never]
  <2>1. PICK running : sinceNeeded' = LastNeeded(running)
    BY DEF UpdateRelays
  <2>2. sinceNeeded \in [Regions -> 0 .. Never] /\ Never = IdleShutdown + 1 /\ IdleShutdown \in Nat
    BY <1>1, Constants DEF TypeOK, Never
  <2>3. ASSUME NEW g \in Regions  PROVE Aged(sinceNeeded[g], IdleShutdown) \in 0 .. Never
    <3>1. PICK n \in 0 .. Never : n = sinceNeeded[g]
      BY <2>2
    <3>2. n \in Nat /\ n <= IdleShutdown + 1
      BY <2>2
    <3>3. Aged(n, IdleShutdown) \in Nat /\ Aged(n, IdleShutdown) <= IdleShutdown + 1
      BY <2>2, <3>2, Ages
    <3> QED  BY <2>2, <3>1, <3>3
  <2>4. 0 \in 0 .. Never
    BY <2>2
  <2> QED  BY <2>1, <2>3, <2>4 DEF LastNeeded
<1>11. sinceStart' \in [Regions -> 0 .. StartRetry]
  <2>1. sinceStart \in [Regions -> 0 .. StartRetry] /\ StartRetry \in Nat
    BY <1>1, Constants DEF TypeOK
  <2>2. ASSUME NEW g \in Regions  PROVE Aged(sinceStart[g], StartRetry) \in 0 .. StartRetry
    <3>1. sinceStart[g] \in 0 .. StartRetry
      BY <2>1
    <3>2. sinceStart[g] \in Nat /\ sinceStart[g] <= StartRetry
      BY <2>1, <3>1
    <3> QED  BY <2>1, <3>2, Ages
  <2>3. PICK starts : sinceStart' = [g \in Regions |-> IF g \in starts THEN 0
                                       ELSE [h \in Regions |-> Aged(sinceStart[h], StartRetry)][g]]
    BY DEF UpdateRelays
  <2> QED  BY <2>1, <2>2, <2>3
<1>12. starting' \subseteq Regions
  <2>1. starting' \subseteq starting \cup Regions
    BY DEF UpdateRelays
  <2> QED  BY <1>1, <2>1 DEF TypeOK
<1>13. TypeOK'
  <2>1. up' \subseteq Relays /\ online' \in Crowds \cup {{}} /\ table' \in [Relays -> [Ids -> 0 .. drawn']]
        /\ drawn' \in 0 .. MaxTokens /\ dialed' \in [Relays -> 0 .. Len(conns')] /\ Len(conns') <= MaxConns
    BY <1>1, <1>3, <1>7 DEF TypeOK
  <2>2. asking' = Nobody \/ asking' \in [id : Ids, todo : SUBSET DOMAIN conns']
    BY <1>1, <1>2, <1>3, <1>7 DEF TypeOK
  <2> HIDE <1>4
  <2> QED  BY <1>3, <1>7, <1>9, <1>10, <1>11, <1>12, <2>1, <2>2 DEF TypeOK
<1>14. ASSUME NEW r \in Relays  PROVE Link(r)' /\ Known(r)'
  <2>1. \A c \in 1 .. Len(conns) :
          /\ conns'[c].relay = conns[c].relay /\ conns'[c].served = conns[c].served
          /\ conns'[c].registered = conns[c].registered
          /\ \A t : Reaches(conns[c], t) => Reaches(conns'[c], t)
    BY <1>6, <1>7
  <2>2. Link(r)'
    BY <1>1, <1>3, <2>1, LinkKept
  <2>3. byAddr[r].conn # 0 => byAddr[r].conn \in 1 .. Len(conns)
    BY <1>1, <1>2, Pointers
  <2>4. Known(r)'
    BY <1>1, <1>8, <2>1, <2>3 DEF Known
  <2> QED  BY <2>2, <2>4
<1> QED  BY <1>13, <1>14, IInvNext

(* A relay dials: nothing is known of the connection yet. *)
LEMMA DialHolds == ASSUME IInv, NEW r \in Relays, Dial(r)  PROVE IInv'
<1>1. TypeOK /\ \A q \in Relays : Link(q) /\ Known(q)
  BY IInvIs
<1>2. /\ DOMAIN conns = 1 .. Len(conns) /\ Len(conns) \in Nat /\ drawn \in Nat
      /\ conns \in Seq(Connections(drawn))
      /\ \A d \in 1 .. Len(conns) : conns[d] \in Connections(drawn) /\ Len(conns[d].out) \in 0 .. QueueLen
  BY <1>1, ConnsTyped
<1>3. /\ UNCHANGED <<up, table, byAddr, asking, sinceNeeded, sinceStart, online, drawn, starting>>
      /\ Len(conns) < MaxConns /\ dialed' = [dialed EXCEPT ![r] = Len(conns) + 1]
  BY DEF Dial, lobbyVars
<1>4. PICK x : x = NewConn(r)
  OBVIOUS
<1>5. x \in Connections(drawn) /\ Len(x.out) = 0 /\ x.relay = r /\ \A t : Reaches(x, t)
  BY <1>2, <1>4, NewConnFits
<1>6. /\ conns' \in Seq(Connections(drawn)) /\ Len(conns') = Len(conns) + 1
      /\ \A d \in 1 .. Len(conns) : conns'[d] = conns[d]
      /\ conns'[Len(conns) + 1] = x
  <2>1. conns' = Append(conns, x)
    BY <1>4 DEF Dial
  <2> QED  BY <1>2, <1>5, <2>1, AppendProperties
<1>7. /\ DOMAIN conns' = 1 .. Len(conns) + 1 /\ Len(conns') <= MaxConns
      /\ \A d \in 1 .. Len(conns) + 1 : Len(conns'[d].out) <= QueueLen
      /\ 0 .. Len(conns) \subseteq 0 .. Len(conns')
      /\ DOMAIN conns \subseteq DOMAIN conns'
  <2>1. DOMAIN conns' = 1 .. Len(conns) + 1
    BY <1>6, LenProperties
  <2>2. ASSUME NEW d \in 1 .. Len(conns) + 1  PROVE Len(conns'[d].out) <= QueueLen
    <3>1. CASE d = Len(conns) + 1
      BY <1>5, <1>6, <3>1, Constants
    <3>2. CASE d # Len(conns) + 1
      <4>1. d \in 1 .. Len(conns)
        BY <1>2, <3>2
      <4> QED  BY <1>2, <1>6, <4>1, Constants
    <3> QED  BY <3>1, <3>2
  <2> QED  BY <1>2, <1>3, <1>6, <2>1, <2>2, Constants
<1>8. dialed' \in [Relays -> 0 .. Len(conns')]
  <2>1. dialed \in [Relays -> 0 .. Len(conns)] /\ Len(conns) + 1 \in 0 .. Len(conns')
    BY <1>1, <1>2, <1>6 DEF TypeOK
  <2> QED  BY <1>3, <1>7, <2>1
<1>9. byAddr' \in [Relays -> [conn : 0 .. Len(conns'), active : Counts, canStop : BOOLEAN]]
  <2>1. byAddr \in [Relays -> [conn : 0 .. Len(conns), active : Counts, canStop : BOOLEAN]]
    BY <1>1 DEF TypeOK
  <2>2. \A y \in [conn : 0 .. Len(conns), active : Counts, canStop : BOOLEAN] :
          y \in [conn : 0 .. Len(conns'), active : Counts, canStop : BOOLEAN]
    BY <1>7
  <2> QED  BY <1>3, <2>1, <2>2
<1>10. asking' = Nobody \/ asking' \in [id : Ids, todo : SUBSET DOMAIN conns']
  BY <1>1, <1>3, <1>7 DEF TypeOK
<1>11. TypeOK'
  BY <1>1, <1>3, <1>6, <1>7, <1>8, <1>9, <1>10 DEF TypeOK
<1>12. ASSUME NEW q \in Relays  PROVE Link(q)' /\ Known(q)'
  <2>1. \A d \in 1 .. Len(conns) :
          /\ conns'[d].relay = conns[d].relay /\ conns'[d].served = conns[d].served
          /\ conns[d].registered => conns'[d].registered
          /\ \A t : Reaches(conns[d], t) => Reaches(conns'[d], t)
    BY <1>6
  <2>2. Known(q)'
    BY <1>1, <1>3, <2>1, KnownKept
  <2>3. CASE q = r
    <3>1. dialed'[q] = Len(conns) + 1
      BY <1>1, <1>3, <2>3 DEF TypeOK
    <3> QED  BY <1>5, <1>6, <2>2, <2>3, <3>1 DEF Link
  <2>4. CASE q # r
    <3>1. dialed'[q] = dialed[q] /\ table'[q] = table[q]
      BY <1>1, <1>3, <2>4 DEF TypeOK
    <3> QED  BY <1>1, <2>1, <2>2, <3>1, LinkKept
  <2> QED  BY <2>3, <2>4
<1> QED  BY <1>11, <1>12, IInvNext

(* A relay stops reading: what was written to it is lost with the          *)
(* connection, if that has ended at the lobby.                             *)
LEMMA UnreadFits ==
  ASSUME TypeOK, NEW r \in Relays, conns' = Unread(r)
  PROVE  /\ conns' \in Seq(Connections(drawn)) /\ Len(conns') = Len(conns)
         /\ DOMAIN conns' = 1 .. Len(conns)
         /\ \A c \in 1 .. Len(conns) : Len(conns'[c].out) <= QueueLen
         /\ \A c \in 1 .. Len(conns) :
              /\ conns'[c].relay = conns[c].relay /\ conns'[c].served = conns[c].served
              /\ conns'[c].registered = conns[c].registered
              /\ \A t : Reaches(conns[c], t) => Reaches(conns'[c], t)
<1>1. /\ DOMAIN conns = 1 .. Len(conns) /\ Len(conns) \in Nat /\ drawn \in Nat
      /\ \A d \in 1 .. Len(conns) : conns[d] \in Connections(drawn) /\ Len(conns[d].out) \in 0 .. QueueLen
  BY ConnsTyped
<1>2. PICK f : f = [c \in DOMAIN conns |-> IF c = dialed[r] /\ ~ conns[c].served
                                           THEN [conns[c] EXCEPT !.out = <<>>] ELSE conns[c]]
  OBVIOUS
<1>3. conns' = [c \in DOMAIN conns |-> f[c]]
  BY <1>2 DEF Unread
<1>4. ASSUME NEW c \in 1 .. Len(conns)
      PROVE  /\ f[c] \in Connections(drawn) /\ Len(f[c].out) \in 0 .. QueueLen
             /\ f[c].relay = conns[c].relay /\ f[c].served = conns[c].served
             /\ f[c].registered = conns[c].registered
             /\ \A t : Reaches(conns[c], t) => Reaches(f[c], t)
  <2>1. PICK x : x = conns[c]
    OBVIOUS
  <2>2. x \in Connections(drawn) /\ Len(x.out) \in 0 .. QueueLen
    BY <1>1, <2>1
  <2>3. CASE f[c] = x
    BY <2>1, <2>2, <2>3
  <2>4. CASE ~ x.served /\ f[c] = [x EXCEPT !.out = <<>>]
    <3>1. <<>> \in Seq(Controls(drawn)) /\ Len(<<>>) = 0
      BY EmptySeq
    <3>2. PICK y : y = [x EXCEPT !.out = <<>>]
      OBVIOUS
    <3>3. /\ y \in Connections(drawn) /\ y.out = <<>>
          /\ y.relay = x.relay /\ y.served = x.served /\ y.registered = x.registered
      BY <2>2, <3>1, <3>2 DEF Connections
    <3>4. \A t : Reaches(y, t)
      BY <2>4, <3>3 DEF Reaches
    <3> QED  BY <2>1, <2>4, <3>1, <3>2, <3>3, <3>4, Constants
  <2>5. f[c] = x \/ (~ x.served /\ f[c] = [x EXCEPT !.out = <<>>])
    BY <1>1, <1>2, <2>1
  <2> QED  BY <2>3, <2>4, <2>5
<1>5. /\ conns' \in Seq(Connections(drawn)) /\ Len(conns') = Len(conns)
      /\ DOMAIN conns' = 1 .. Len(conns)
      /\ \A c \in 1 .. Len(conns) : conns'[c] = f[c]
      /\ \A c \in 1 .. Len(conns) : Len(conns'[c].out) <= QueueLen
  <2>1. \A c \in 1 .. Len(conns) : f[c] \in Connections(drawn) /\ Len(f[c].out) \in 0 .. QueueLen
    BY <1>4
  <2> HIDE <1>2
  <2> QED  BY <1>3, <2>1, AllChanged
<1> QED  BY <1>4, <1>5

(* A relay that hangs up or ends, by itself: it reads nothing any more. *)
LEMMA AwayHolds ==
  ASSUME IInv, NEW r \in Relays, conns' = Unread(r), dialed' = [dialed EXCEPT ![r] = 0],
         UNCHANGED <<lobbyVars, starting>>,
         \/ UNCHANGED <<up, table>>
         \/ up' = up \ {r} /\ table' = [table EXCEPT ![r] = NoTokens]
  PROVE  IInv'
<1>1. TypeOK /\ \A q \in Relays : Link(q) /\ Known(q)
  BY IInvIs
<1>2. /\ DOMAIN conns = 1 .. Len(conns) /\ Len(conns) \in Nat /\ drawn \in Nat
      /\ conns \in Seq(Connections(drawn))
  BY <1>1, ConnsTyped
<1>3. UNCHANGED <<byAddr, asking, sinceNeeded, sinceStart, online, drawn, starting>>
  BY DEF lobbyVars
<1>4. /\ conns' \in Seq(Connections(drawn)) /\ Len(conns') = Len(conns)
      /\ DOMAIN conns' = 1 .. Len(conns)
      /\ \A c \in 1 .. Len(conns) : Len(conns'[c].out) <= QueueLen
      /\ \A c \in 1 .. Len(conns) :
           /\ conns'[c].relay = conns[c].relay /\ conns'[c].served = conns[c].served
           /\ conns'[c].registered = conns[c].registered
           /\ \A t : Reaches(conns[c], t) => Reaches(conns'[c], t)
  BY <1>1, UnreadFits
<1>5. /\ dialed \in [Relays -> 0 .. Len(conns)] /\ table \in [Relays -> [Ids -> 0 .. drawn]]
      /\ up \subseteq Relays
  BY <1>1 DEF TypeOK
<1>6. up' \subseteq Relays /\ dialed' \in [Relays -> 0 .. Len(conns)]
  BY <1>2, <1>5
<1>7. table' \in [Relays -> [Ids -> 0 .. drawn]]
  <2>1. NoTokens \in [Ids -> 0 .. drawn]
    BY <1>2 DEF NoTokens
  <2> QED  BY <1>5, <2>1
<1>8. TypeOK'
  BY <1>1, <1>2, <1>3, <1>4, <1>6, <1>7 DEF TypeOK
<1>9. ASSUME NEW q \in Relays  PROVE Link(q)' /\ Known(q)'
  <2>1. Known(q)'
    BY <1>1, <1>3, <1>4, KnownKept
  <2>2. CASE q = r
    <3>1. dialed'[q] = 0
      BY <1>5, <2>2
    <3> QED  BY <2>1, <3>1 DEF Link
  <2>3. CASE q # r
    <3>1. dialed'[q] = dialed[q] /\ table'[q] = table[q]
      BY <1>5, <2>3
    <3> QED  BY <1>1, <1>4, <2>1, <3>1, LinkKept
  <2> QED  BY <2>2, <2>3
<1> QED  BY <1>8, <1>9, IInvNext

(* A relay that closes its connection reads none. *)
LEMMA HangUpHolds == ASSUME IInv, NEW r \in Relays, HangUp(r)  PROVE IInv'
  BY AwayHolds DEF HangUp

(* Neither does one that is gone, with its table. *)
LEMMA CrashHolds == ASSUME IInv, NEW r \in Relays, Crash(r)  PROVE IInv'
  BY AwayHolds DEF Crash, Stops

(* What one step makes of a connection that keeps what is to be read. *)
LEMMA OneKept ==
  ASSUME IInv, NEW c \in 1 .. Len(conns), NEW x \in Connections(drawn), Len(x.out) \in 0 .. QueueLen,
         conns' = [conns EXCEPT ![c] = x], x.relay = conns[c].relay,
         \A t : Reaches(conns[c], t) => Reaches(x, t),
         UNCHANGED <<relayVars, asking, sinceNeeded, sinceStart, online, drawn, starting>>,
         byAddr' \in [Relays -> [conn : 0 .. Len(conns), active : Counts, canStop : BOOLEAN]]
  PROVE  /\ TypeOK' /\ \A r \in Relays : Link(r)'
         /\ Len(conns') = Len(conns)
         /\ \A d \in 1 .. Len(conns) : conns'[d] = IF d = c THEN x ELSE conns[d]
<1>1. TypeOK /\ \A q \in Relays : Link(q) /\ Known(q)
  BY IInvIs
<1>2. /\ DOMAIN conns = 1 .. Len(conns) /\ Len(conns) \in Nat /\ drawn \in Nat
  BY <1>1, ConnsTyped
<1>3. UNCHANGED <<up, table, dialed, asking, sinceNeeded, sinceStart, online, drawn, starting>>
  BY DEF relayVars
<1>4. /\ conns' \in Seq(Connections(drawn)) /\ Len(conns') = Len(conns)
      /\ DOMAIN conns' = 1 .. Len(conns)
      /\ \A d \in 1 .. Len(conns) : conns'[d] = IF d = c THEN x ELSE conns[d]
      /\ \A d \in 1 .. Len(conns) : Len(conns'[d].out) <= QueueLen
  <2>1. drawn <= drawn
    BY <1>2
  <2> QED  BY <1>1, <1>2, <2>1, OneChanged
<1>5. TypeOK'
  BY <1>1, <1>2, <1>3, <1>4 DEF TypeOK
<1>6. \A r \in Relays : Link(r)'
  <2>1. \A d \in 1 .. Len(conns) :
          conns'[d].relay = conns[d].relay /\ \A t : Reaches(conns[d], t) => Reaches(conns'[d], t)
    BY <1>4
  <2> QED  BY <1>1, <1>3, <2>1, LinkKept
<1> QED  BY <1>4, <1>5, <1>6

(* A status is sent. *)
LEMMA SendStatusHolds == ASSUME IInv, NEW r \in Relays, SendStatus(r)  PROVE IInv'
<1>1. TypeOK /\ \A q \in Relays : Link(q) /\ Known(q)
  BY IInvIs
<1>2. /\ Len(conns) \in Nat /\ drawn \in Nat
      /\ \A d \in 1 .. Len(conns) : conns[d] \in Connections(drawn) /\ Len(conns[d].out) \in 0 .. QueueLen
  BY <1>1, ConnsTyped
<1>3. PICK c, x, n :
        /\ c \in 1 .. Len(conns) /\ x \in Connections(drawn) /\ c = dialed[r]
        /\ x = conns[c] /\ Len(x.out) \in 0 .. QueueLen
        /\ n = Cardinality({id \in Ids : table[r][id] # 0})
  <2>1. dialed[r] \in 1 .. Len(conns)
    BY <1>1, <1>2, Pointers DEF SendStatus
  <2> QED  BY <1>2, <2>1
<1>4. n \in Counts
  <2>1. {id \in Ids : table[r][id] # 0} \subseteq Ids
    OBVIOUS
  <2>2. IsFiniteSet({id \in Ids : table[r][id] # 0}) /\ n <= Cardinality(Ids)
    BY <1>3, <2>1, Constants, FS_Subset
  <2>3. n \in Nat
    BY <1>3, <2>2, FS_CardinalityType
  <2> QED  BY <2>2, <2>3, Constants DEF Counts
<1>5. PICK a \in {<<>>} \cup {<<k>> : k \in Counts} : a = <<n>>
  BY <1>4
<1>6. PICK y : y = [x EXCEPT !.statuses = a]
  OBVIOUS
<1>7. /\ y \in Connections(drawn) /\ y.out = x.out /\ y.relay = x.relay /\ y.served = x.served
      /\ y.registered = x.registered /\ y.tokens = x.tokens /\ y.lost = x.lost
  <2>1. x \in Connections(drawn)
    BY <1>3
  <2> QED  BY <1>6, <2>1 DEF Connections
<1>8. conns' = [conns EXCEPT ![c] = y]
  BY <1>3, <1>5, <1>6 DEF SendStatus
<1>9. \A t : Reaches(x, t) => Reaches(y, t)
  BY <1>7 DEF Reaches
<1>10. UNCHANGED <<relayVars, byAddr, asking, sinceNeeded, sinceStart, online, drawn, starting>>
  BY DEF SendStatus, lobbyVars
<1>11. byAddr' \in [Relays -> [conn : 0 .. Len(conns), active : Counts, canStop : BOOLEAN]]
  BY <1>1, <1>10 DEF TypeOK
<1>12. /\ TypeOK' /\ \A q \in Relays : Link(q)'
       /\ \A d \in 1 .. Len(conns) : conns'[d] = IF d = c THEN y ELSE conns[d]
  BY <1>3, <1>7, <1>8, <1>9, <1>10, <1>11, OneKept
<1>13. \A q \in Relays : Known(q)'
  <2>1. \A d \in 1 .. Len(conns) :
          /\ conns'[d].relay = conns[d].relay /\ conns'[d].served = conns[d].served
          /\ conns[d].registered => conns'[d].registered
    BY <1>3, <1>7, <1>12
  <2> QED  BY <1>1, <1>10, <2>1, KnownKept
<1> QED  BY <1>12, <1>13, IInvNext

(* A relay takes the next control off the queue. *)
LEMMA ReceiveHolds == ASSUME IInv, NEW r \in Relays, Receive(r)  PROVE IInv'
<1>1. TypeOK /\ \A q \in Relays : Link(q) /\ Known(q)
  BY IInvIs
<1>2. /\ DOMAIN conns = 1 .. Len(conns) /\ Len(conns) \in Nat /\ drawn \in Nat
      /\ \A d \in 1 .. Len(conns) : conns[d] \in Connections(drawn) /\ Len(conns[d].out) \in 0 .. QueueLen
  BY <1>1, ConnsTyped
<1>3. PICK c \in 1 .. Len(conns), x \in Connections(drawn) :
        /\ c = dialed[r] /\ x = conns[c] /\ Len(x.out) \in 0 .. QueueLen /\ x.out # <<>>
  <2>1. dialed[r] \in 1 .. Len(conns)
    BY <1>1, <1>2, Pointers DEF Receive
  <2> QED  BY <1>2, <2>1 DEF Receive
<1>4. /\ UNCHANGED <<byAddr, asking, sinceNeeded, sinceStart, online, drawn, starting>>
      /\ conns' = [conns EXCEPT ![c].out = Tail(@)]
      /\ IF Head(x.out) = Shutdown THEN Stops(r)
         ELSE table' = [table EXCEPT ![r] = SetSessionToken(@, Head(x.out))] /\ UNCHANGED <<up, dialed>>
  BY <1>3 DEF Receive, lobbyVars
<1>5. x.out \in Seq(Controls(drawn))
  BY <1>2, ConnFields
<1>6. PICK out \in Seq(Controls(drawn)), ctl \in Controls(drawn) :
        out = Tail(x.out) /\ ctl = Head(x.out) /\ Len(out) \in 0 .. QueueLen
  <2>1. /\ Tail(x.out) \in Seq(Controls(drawn)) /\ Head(x.out) \in Controls(drawn)
        /\ Len(Tail(x.out)) = Len(x.out) - 1
    BY <1>3, <1>5, HeadTailProperties
  <2>2. Len(Tail(x.out)) \in Nat
    BY <2>1, LenProperties
  <2>3. Len(Tail(x.out)) \in 0 .. QueueLen
    BY <1>3, <2>1, <2>2, Constants
  <2> QED  BY <2>1, <2>3
<1>7. PICK y : y = [x EXCEPT !.out = out]
  OBVIOUS
<1>8. /\ y \in Connections(drawn) /\ y.out = out /\ y.relay = x.relay /\ y.served = x.served
      /\ y.registered = x.registered /\ y.tokens = x.tokens /\ y.lost = x.lost
  BY <1>7 DEF Connections
<1>9. /\ conns' \in Seq(Connections(drawn)) /\ Len(conns') = Len(conns)
      /\ DOMAIN conns' = 1 .. Len(conns)
      /\ \A d \in 1 .. Len(conns) : conns'[d] = IF d = c THEN y ELSE conns[d]
      /\ \A d \in 1 .. Len(conns) : Len(conns'[d].out) <= QueueLen
  <2>1. conns' = [conns EXCEPT ![c] = y]
    BY <1>3, <1>4, <1>6, <1>7
  <2>2. drawn <= drawn /\ Len(y.out) \in 0 .. QueueLen
    BY <1>2, <1>6, <1>8
  <2> QED  BY <1>1, <1>2, <1>8, <2>1, <2>2, OneChanged
<1>10. /\ dialed \in [Relays -> 0 .. Len(conns)] /\ table \in [Relays -> [Ids -> 0 .. drawn]]
       /\ up \subseteq Relays
  BY <1>1 DEF TypeOK
<1>11. ASSUME up' \subseteq Relays, dialed' \in [Relays -> 0 .. Len(conns)],
              table' \in [Relays -> [Ids -> 0 .. drawn]]
       PROVE  TypeOK'
  BY <1>1, <1>2, <1>4, <1>9, <1>11 DEF TypeOK
<1>12. \A q \in Relays : Known(q)'
  <2>1. \A d \in 1 .. Len(conns) :
          /\ conns'[d].relay = conns[d].relay /\ conns'[d].served = conns[d].served
          /\ conns[d].registered => conns'[d].registered
    BY <1>3, <1>8, <1>9
  <2> QED  BY <1>1, <1>4, <2>1, KnownKept
\* nobody else reads that connection
<1>13. ASSUME NEW q \in Relays, q # r, dialed'[q] = dialed[q], table'[q] = table[q]
       PROVE  Link(q)'
  <2>1. CASE dialed[q] = 0
    BY <1>13, <2>1 DEF Link
  <2>2. CASE dialed[q] # 0
    <3>1. dialed[q] \in 1 .. Len(conns)
      BY <1>2, <1>10, <2>2
    <3>2. dialed[q] # c
      BY <1>1, <1>2, <1>3, <1>13 DEF Link
    <3> QED  BY <1>1, <1>9, <1>13, <3>1, <3>2 DEF Link
  <2> QED  BY <2>1, <2>2
<1>14. CASE ctl = Shutdown
  <2>1. up' = up \ {r} /\ table' = [table EXCEPT ![r] = NoTokens] /\ dialed' = [dialed EXCEPT ![r] = 0]
    BY <1>4, <1>6, <1>14 DEF Stops
  <2>2. NoTokens \in [Ids -> 0 .. drawn] /\ 0 \in 0 .. Len(conns)
    BY <1>2 DEF NoTokens
  <2>3. TypeOK'
    BY <1>10, <1>11, <2>1, <2>2
  <2>4. ASSUME NEW q \in Relays  PROVE Link(q)'
    <3>1. CASE q = r
      <4>1. dialed'[q] = 0
        BY <1>10, <2>1, <3>1
      <4> QED  BY <4>1 DEF Link
    <3>2. CASE q # r
      BY <1>10, <1>13, <2>1, <3>2
    <3> QED  BY <3>1, <3>2
  <2> QED  BY <1>12, <2>3, <2>4, IInvNext
<1>15. CASE ctl # Shutdown
  <2>1. ctl.id \in Ids /\ ctl.token \in 1 .. drawn
    BY <1>15 DEF Controls
  <2>2. PICK t : t = [table[r] EXCEPT ![ctl.id] = ctl.token]
    OBVIOUS
  <2>3. table' = [table EXCEPT ![r] = t] /\ UNCHANGED <<up, dialed>>
    BY <1>4, <1>6, <1>15, <2>2 DEF SetSessionToken
  <2>4. /\ t \in [Ids -> 0 .. drawn]
        /\ \A id \in Ids : t[id] = IF ctl.id = id THEN ctl.token ELSE table[r][id]
    BY <1>2, <1>10, <2>1, <2>2
  <2>5. TypeOK'
    BY <1>10, <1>11, <2>3, <2>4
  <2>6. Reaches(y, t)
    <3>1. SUFFICES ASSUME y.served, NEW id \in Ids, y.tokens[id] # 0, id \notin y.lost
                   PROVE  Reach(y.out, t, id, y.tokens[id])
      BY DEF Reaches
    <3>2. Reach(x.out, table[r], id, x.tokens[id])
      <4>1. Reaches(x, table[r])
        BY <1>1, <1>3 DEF Link
      <4> QED  BY <1>8, <3>1, <4>1 DEF Reaches
    <3>3. t[id] = IF Head(x.out).id = id THEN Head(x.out).token ELSE table[r][id]
      BY <1>6, <2>4
    <3>4. Reach(Tail(x.out), t, id, x.tokens[id])
      BY <1>3, <1>5, <3>2, <3>3, TailReaches
    <3> QED  BY <1>6, <1>8, <3>4
  <2>7. ASSUME NEW q \in Relays  PROVE Link(q)'
    <3>1. CASE q = r
      <4>1. dialed'[q] = c /\ table'[q] = t
        BY <1>3, <1>10, <2>3, <3>1
      <4>2. y.relay = r
        BY <1>1, <1>3, <1>8 DEF Link
      <4> QED  BY <1>9, <2>6, <3>1, <4>1, <4>2 DEF Link
    <3>2. CASE q # r
      BY <1>10, <1>13, <2>3, <3>2
    <3> QED  BY <3>1, <3>2
  <2> QED  BY <1>12, <2>5, <2>7, IInvNext
<1> QED  BY <1>14, <1>15

(* A relay removes a session that is idle or too old. *)
LEMMA RemoveStaleSessionHolds ==
  ASSUME IInv, NEW r \in Relays, NEW id \in Ids, RemoveStaleSession(r, id)
  PROVE  IInv'
<1>1. TypeOK /\ \A q \in Relays : Link(q) /\ Known(q)
  BY IInvIs
<1>2. table \in [Relays -> [Ids -> 0 .. drawn]] /\ drawn \in Nat
  BY <1>1, ConnsTyped DEF TypeOK
<1>3. PICK t : t = [table[r] EXCEPT ![id] = 0]
  OBVIOUS
<1>4. /\ table' = [table EXCEPT ![r] = t]
      /\ UNCHANGED <<up, dialed, conns, byAddr, asking, sinceNeeded, sinceStart, online, drawn, starting>>
  BY <1>3 DEF RemoveStaleSession, lobbyVars
<1>5. t \in [Ids -> 0 .. drawn] /\ \A k \in Ids : t[k] = IF k = id THEN 0 ELSE table[r][k]
  BY <1>2, <1>3
<1>6. TypeOK'
  BY <1>1, <1>2, <1>4, <1>5 DEF TypeOK
<1>7. \A x : Reaches(x, table[r]) => Reaches(x, t)
  BY <1>5 DEF Reaches, Reach
<1>8. ASSUME NEW q \in Relays  PROVE Link(q)' /\ Known(q)'
  <2>1. Known(q)'
    BY <1>1, <1>4 DEF Known
  <2>2. Link(q)'
    BY <1>1, <1>2, <1>4, <1>7 DEF Link
  <2> QED  BY <2>1, <2>2
<1> QED  BY <1>6, <1>8, IInvNext

(* A status is read: a first one makes the relay known by the connection.  *)
LEMMA ReadStatusHolds == ASSUME IInv, NEW c \in DOMAIN conns, ReadStatus(c)  PROVE IInv'
<1>1. TypeOK /\ \A q \in Relays : Link(q) /\ Known(q)
  BY IInvIs
<1>2. /\ DOMAIN conns = 1 .. Len(conns) /\ Len(conns) \in Nat /\ drawn \in Nat
      /\ \A d \in 1 .. Len(conns) : conns[d] \in Connections(drawn) /\ Len(conns[d].out) \in 0 .. QueueLen
  BY <1>1, ConnsTyped
<1>3. PICK x \in Connections(drawn) : x = conns[c] /\ Len(x.out) \in 0 .. QueueLen
  BY <1>2
<1>4. /\ x.served
      /\ conns' = [conns EXCEPT ![c].held = x.statuses, ![c].statuses = <<>>, ![c].registered = TRUE]
      /\ byAddr' = IF x.registered THEN byAddr
                   ELSE [byAddr EXCEPT ![x.relay] = [conn |-> c, active |-> 0, canStop |-> TRUE]]
      /\ UNCHANGED <<relayVars, asking, sinceNeeded, sinceStart, online, drawn, starting>>
  BY <1>3 DEF ReadStatus
<1>5. PICK a \in {<<>>} \cup {<<k>> : k \in Counts}, h \in {<<>>} \cup {<<k>> : k \in Counts} :
        a = <<>> /\ h = x.statuses
  BY DEF Connections
<1>6. PICK y : y = [x EXCEPT !.held = h, !.statuses = a, !.registered = TRUE]
  OBVIOUS
<1>7. /\ y \in Connections(drawn) /\ y.out = x.out /\ y.relay = x.relay /\ y.served = x.served
      /\ y.registered = TRUE /\ y.tokens = x.tokens /\ y.lost = x.lost
  BY <1>6 DEF Connections
<1>8. conns' = [conns EXCEPT ![c] = y]
  BY <1>3, <1>4, <1>5, <1>6
<1>9. \A t : Reaches(x, t) => Reaches(y, t)
  BY <1>7 DEF Reaches
<1>10. PICK e \in [conn : 0 .. Len(conns), active : Counts, canStop : BOOLEAN] :
         e = [conn |-> c, active |-> 0, canStop |-> TRUE]
  <2>1. c \in 0 .. Len(conns) /\ 0 \in Counts
    BY <1>2, Constants DEF Counts
  <2> QED  BY <2>1
<1>11. byAddr \in [Relays -> [conn : 0 .. Len(conns), active : Counts, canStop : BOOLEAN]]
  BY <1>1 DEF TypeOK
<1>12. x.relay \in Relays
  BY DEF Connections
<1>13. byAddr' \in [Relays -> [conn : 0 .. Len(conns), active : Counts, canStop : BOOLEAN]]
  BY <1>4, <1>10, <1>11, <1>12
<1>14. /\ TypeOK' /\ \A q \in Relays : Link(q)'
       /\ \A d \in 1 .. Len(conns) : conns'[d] = IF d = c THEN y ELSE conns[d]
  <2>1. c \in 1 .. Len(conns) /\ Len(y.out) \in 0 .. QueueLen /\ y.relay = conns[c].relay
    BY <1>2, <1>3, <1>7
  <2>2. \A t : Reaches(conns[c], t) => Reaches(y, t)
    BY <1>3, <1>9
  <2>3. UNCHANGED <<relayVars, asking, sinceNeeded, sinceStart, online, drawn, starting>>
    BY <1>4
  <2> QED  BY <1>7, <1>8, <1>13, <2>1, <2>2, <2>3, OneKept, Zenon
<1>15. ASSUME NEW q \in Relays  PROVE Known(q)'
  <2>1. \A d \in 1 .. Len(conns) :
          /\ conns'[d].relay = conns[d].relay /\ conns'[d].served = conns[d].served
          /\ conns[d].registered => conns'[d].registered
    BY <1>3, <1>7, <1>14
  <2>2. CASE byAddr'[q] = byAddr[q]
    BY <1>1, <2>1, <2>2, KnownKept
  <2>3. CASE byAddr'[q] # byAddr[q]
    <3>1. q = x.relay /\ byAddr'[q] = e
      BY <1>4, <1>10, <1>11, <2>3
    <3>2. e # NoRelay /\ e.conn = c /\ c # 0
      BY <1>2, <1>10 DEF NoRelay
    <3>3. conns'[c] = y
      BY <1>2, <1>14
    <3> QED  BY <1>4, <1>7, <3>1, <3>2, <3>3 DEF Known
  <2> QED  BY <2>2, <2>3
<1> QED  BY <1>14, <1>15, IInvNext

(* The count of the status that was read is noted, where its connection is *)
(* still the one.                                                          *)
LEMMA SetActiveHolds == ASSUME IInv, NEW c \in DOMAIN conns, SetActive(c)  PROVE IInv'
<1>1. TypeOK /\ \A q \in Relays : Link(q) /\ Known(q)
  BY IInvIs
<1>2. /\ DOMAIN conns = 1 .. Len(conns) /\ Len(conns) \in Nat /\ drawn \in Nat
      /\ \A d \in 1 .. Len(conns) : conns[d] \in Connections(drawn) /\ Len(conns[d].out) \in 0 .. QueueLen
  BY <1>1, ConnsTyped
<1>3. PICK x \in Connections(drawn) : x = conns[c] /\ Len(x.out) \in 0 .. QueueLen
  BY <1>2
<1>4. /\ x.held # <<>> /\ conns' = [conns EXCEPT ![c].held = <<>>]
      /\ byAddr' = [byAddr EXCEPT ![x.relay].active =
                      IF byAddr[x.relay].conn = c THEN Head(x.held) ELSE @]
      /\ UNCHANGED <<relayVars, asking, sinceNeeded, sinceStart, online, drawn, starting>>
  BY <1>3 DEF SetActive
<1>5. PICK h \in {<<>>} \cup {<<k>> : k \in Counts} : h = <<>>
  OBVIOUS
<1>6. PICK y : y = [x EXCEPT !.held = h]
  OBVIOUS
<1>7. /\ y \in Connections(drawn) /\ y.out = x.out /\ y.relay = x.relay /\ y.served = x.served
      /\ y.registered = x.registered /\ y.tokens = x.tokens /\ y.lost = x.lost
  BY <1>6 DEF Connections
<1>8. conns' = [conns EXCEPT ![c] = y]
  BY <1>3, <1>4, <1>5, <1>6
<1>9. \A t : Reaches(x, t) => Reaches(y, t)
  BY <1>7 DEF Reaches
<1>10. x.relay \in Relays /\ \E k \in Counts : x.held = <<k>>
  BY <1>2, <1>4, ConnFields
<1>11. PICK e \in [conn : 0 .. Len(conns), active : Counts, canStop : BOOLEAN] : e = byAddr[x.relay]
  BY <1>1, <1>10, Pointers
<1>12. PICK n \in Counts : n = IF e.conn = c THEN Head(x.held) ELSE e.active
  BY <1>10
<1>13. PICK f : f = [e EXCEPT !.active = n]
  OBVIOUS
<1>14. /\ f \in [conn : 0 .. Len(conns), active : Counts, canStop : BOOLEAN]
       /\ f.conn = e.conn /\ (e.conn # c => f = e)
  BY <1>12, <1>13
<1>15. byAddr \in [Relays -> [conn : 0 .. Len(conns), active : Counts, canStop : BOOLEAN]]
  BY <1>1 DEF TypeOK
<1>16. byAddr' = [byAddr EXCEPT ![x.relay] = f]
  BY <1>4, <1>11, <1>12, <1>13
<1>17. byAddr' \in [Relays -> [conn : 0 .. Len(conns), active : Counts, canStop : BOOLEAN]]
  BY <1>10, <1>14, <1>15, <1>16
<1>18. /\ TypeOK' /\ \A q \in Relays : Link(q)'
       /\ \A d \in 1 .. Len(conns) : conns'[d] = IF d = c THEN y ELSE conns[d]
  <2>1. c \in 1 .. Len(conns) /\ Len(y.out) \in 0 .. QueueLen /\ y.relay = conns[c].relay
    BY <1>2, <1>3, <1>7
  <2>2. \A t : Reaches(conns[c], t) => Reaches(y, t)
    BY <1>3, <1>9
  <2>3. UNCHANGED <<relayVars, asking, sinceNeeded, sinceStart, online, drawn, starting>>
    BY <1>4
  <2> QED  BY <1>7, <1>8, <1>17, <2>1, <2>2, <2>3, OneKept, Zenon
<1>19. ASSUME NEW q \in Relays  PROVE Known(q)'
  <2>1. \A d \in 1 .. Len(conns) :
          /\ conns'[d].relay = conns[d].relay /\ conns'[d].served = conns[d].served
          /\ conns[d].registered => conns'[d].registered
    BY <1>3, <1>7, <1>18
  <2>2. CASE byAddr'[q] = byAddr[q]
    BY <1>1, <2>1, <2>2, KnownKept
  <2>3. CASE byAddr'[q] # byAddr[q]
    <3>1. q = x.relay /\ byAddr'[q] = f /\ byAddr[q] = e
      BY <1>11, <1>15, <1>16, <2>3
    <3>2. e.conn = c /\ c # 0
      BY <1>2, <1>14, <2>3, <3>1
    <3>3. f # NoRelay /\ f.conn = c /\ e # NoRelay
      BY <1>14, <3>2 DEF NoRelay
    <3>4. x.served /\ x.registered /\ x.relay = q
      BY <1>1, <1>3, <3>1, <3>2, <3>3 DEF Known
    <3> QED  BY <1>2, <1>7, <1>18, <3>1, <3>2, <3>3, <3>4 DEF Known
  <2> QED  BY <2>2, <2>3
<1> QED  BY <1>18, <1>19, IInvNext

(* A connection ends at the lobby: a relay that is known by it is no more. *)
LEMMA EndHolds == ASSUME IInv, NEW c \in DOMAIN conns, End(c)  PROVE IInv'
<1>1. TypeOK /\ \A q \in Relays : Link(q) /\ Known(q)
  BY IInvIs
<1>2. /\ DOMAIN conns = 1 .. Len(conns) /\ Len(conns) \in Nat /\ drawn \in Nat
      /\ \A d \in 1 .. Len(conns) : conns[d] \in Connections(drawn) /\ Len(conns[d].out) \in 0 .. QueueLen
  BY <1>1, ConnsTyped
<1>3. PICK x \in Connections(drawn) : x = conns[c] /\ Len(x.out) \in 0 .. QueueLen
  BY <1>2
<1>4. /\ x.served /\ byAddr' = IF x.registered THEN UnregisterRelayIf(c) ELSE byAddr
      /\ UNCHANGED <<relayVars, asking, sinceNeeded, sinceStart, online, drawn, starting>>
  BY <1>3 DEF End
<1>5. PICK written \in 0 .. Len(x.out) : conns' = [conns EXCEPT ![c] = Ended(x, written)]
  <2>1. 0 \in 0 .. Len(x.out)
    BY <1>3, Constants
  <2>2. \E written \in 0 .. Len(x.out) :
          conns' = [conns EXCEPT ![c] = IF dialed[x.relay] = c THEN Ended(x, written) ELSE Ended(x, 0)]
    BY <1>3 DEF End
  <2> QED  BY <2>1, <2>2
<1>6. PICK y : y = Ended(x, written)
  OBVIOUS
<1>7. y \in Connections(drawn) /\ Len(y.out) \in 0 .. QueueLen /\ y.relay = x.relay /\ ~ y.served
  BY <1>2, <1>3, <1>6, EndedFits
<1>8. \A t : Reaches(y, t)
  BY <1>7 DEF Reaches
<1>9. x.relay \in Relays
  BY DEF Connections
<1>10. byAddr \in [Relays -> [conn : 0 .. Len(conns), active : Counts, canStop : BOOLEAN]]
  BY <1>1 DEF TypeOK
<1>11. NoRelay \in [conn : 0 .. Len(conns), active : Counts, canStop : BOOLEAN] /\ NoRelay.conn = 0
  BY <1>2, Constants DEF NoRelay, Counts
<1>12. UnregisterRelayIf(c) =
         [byAddr EXCEPT ![x.relay] = IF byAddr[x.relay].conn = c THEN NoRelay ELSE byAddr[x.relay]]
  BY <1>3 DEF UnregisterRelayIf
<1>13. byAddr' \in [Relays -> [conn : 0 .. Len(conns), active : Counts, canStop : BOOLEAN]]
  BY <1>4, <1>9, <1>10, <1>11, <1>12
<1>14. /\ TypeOK' /\ \A q \in Relays : Link(q)'
       /\ \A d \in 1 .. Len(conns) : conns'[d] = IF d = c THEN y ELSE conns[d]
  BY <1>2, <1>3, <1>4, <1>5, <1>6, <1>7, <1>8, <1>13, OneKept
<1>15. ASSUME NEW q \in Relays  PROVE Known(q)'
  <2>1. CASE byAddr[q].conn = c
    <3>1. c # 0 /\ byAddr[q] # NoRelay
      BY <1>2, <1>11, <2>1
    <3>2. x.registered /\ x.relay = q
      BY <1>1, <1>3, <2>1, <3>1 DEF Known
    <3>3. byAddr'[q] = NoRelay
      BY <1>4, <1>10, <1>12, <2>1, <3>2
    <3> QED  BY <1>11, <3>3 DEF Known
  <2>2. CASE byAddr[q].conn # c
    <3>1. byAddr'[q] = byAddr[q]
      BY <1>4, <1>9, <1>10, <1>12, <2>2
    <3>2. byAddr[q].conn # 0 => byAddr[q].conn \in 1 .. Len(conns)
      BY <1>1, <1>2, Pointers
    <3> QED  BY <1>1, <1>14, <2>2, <3>1, <3>2 DEF Known
  <2> QED  BY <2>1, <2>2
<1> QED  BY <1>14, <1>15, IInvNext

(* The lobby is started anew: no connection is served. *)
LEMMA RestartHolds == ASSUME IInv, Restart  PROVE IInv'
<1>1. TypeOK /\ \A q \in Relays : Link(q) /\ Known(q)
  BY IInvIs
<1>2. /\ DOMAIN conns = 1 .. Len(conns) /\ Len(conns) \in Nat /\ drawn \in Nat
      /\ \A d \in 1 .. Len(conns) : conns[d] \in Connections(drawn) /\ Len(conns[d].out) \in 0 .. QueueLen
  BY <1>1, ConnsTyped
<1>3. PICK f : f = [c \in DOMAIN conns |-> Ended(conns[c], 0)]
  OBVIOUS
<1>4. ASSUME NEW c \in 1 .. Len(conns)
      PROVE  /\ f[c] \in Connections(drawn) /\ Len(f[c].out) \in 0 .. QueueLen
             /\ f[c].relay = conns[c].relay /\ ~ f[c].served
  <2>1. PICK x : x = conns[c]
    OBVIOUS
  <2>2. x \in Connections(drawn) /\ Len(x.out) \in 0 .. QueueLen /\ 0 \in 0 .. Len(x.out)
    BY <1>2, <2>1, Constants
  <2>3. /\ Ended(x, 0) \in Connections(drawn) /\ Len(Ended(x, 0).out) \in 0 .. QueueLen
        /\ Ended(x, 0).relay = x.relay /\ ~ Ended(x, 0).served
    BY <1>2, <2>2, EndedFits
  <2> QED  BY <1>2, <1>3, <2>1, <2>3
<1>5. /\ conns' \in Seq(Connections(drawn)) /\ Len(conns') = Len(conns)
      /\ DOMAIN conns' = 1 .. Len(conns)
      /\ \A c \in 1 .. Len(conns) : conns'[c] = f[c]
      /\ \A c \in 1 .. Len(conns) : Len(conns'[c].out) <= QueueLen
  <2>1. conns' = [c \in DOMAIN conns |-> f[c]]
    BY <1>3 DEF Restart
  <2>2. \A c \in 1 .. Len(conns) : f[c] \in Connections(drawn) /\ Len(f[c].out) \in 0 .. QueueLen
    BY <1>4
  <2> HIDE <1>3
  <2> QED  BY <1>1, <2>1, <2>2, AllChanged
<1>6. UNCHANGED <<up, table, dialed, drawn, starting>>
  BY DEF Restart, relayVars
<1>7. byAddr' = [r \in Relays |-> NoRelay] /\ asking' = Nobody /\ online' = {}
  BY DEF Restart
<1>8. NoRelay \in [conn : 0 .. Len(conns), active : Counts, canStop : BOOLEAN] /\ NoRelay.conn = 0
  BY <1>2, Constants DEF NoRelay, Counts
<1>9. sinceNeeded' \in [Regions -> 0 .. Never] /\ sinceStart' \in [Regions -> 0 .. StartRetry]
  BY Constants DEF Restart
<1>10. TypeOK'
  BY <1>1, <1>5, <1>6, <1>7, <1>8, <1>9 DEF TypeOK
<1>11. ASSUME NEW r \in Relays  PROVE Link(r)' /\ Known(r)'
  <2>1. \A d \in 1 .. Len(conns) :
          conns'[d].relay = conns[d].relay /\ \A t : Reaches(conns[d], t) => Reaches(conns'[d], t)
    BY <1>4, <1>5 DEF Reaches
  <2>2. Link(r)'
    BY <1>1, <1>6, <2>1, LinkKept
  <2>3. Known(r)'
    BY <1>7, <1>8 DEF Known
  <2> QED  BY <2>2, <2>3
<1> QED  BY <1>10, <1>11, IInvNext

-----------------------------------------------------------------------------
(* The invariant holds where the lobby starts. *)
LEMMA InitHolds == Init => IInv
<1> SUFFICES ASSUME Init  PROVE IInv
  OBVIOUS
<1>1. /\ up \in SUBSET Relays /\ table = [r \in Relays |-> NoTokens] /\ dialed = [r \in Relays |-> 0]
      /\ conns = <<>> /\ byAddr = [r \in Relays |-> NoRelay] /\ asking = Nobody
      /\ starting = {} /\ online = {} /\ drawn = 0
  BY DEF Init
<1>2. Len(conns) = 0 /\ DOMAIN conns = {} /\ conns \in Seq(Connections(0))
  BY <1>1, EmptySeq
<1>3. NoTokens \in [Ids -> 0 .. 0]
  BY DEF NoTokens
<1>4. NoRelay \in [conn : 0 .. 0, active : Counts, canStop : BOOLEAN] /\ NoRelay.conn = 0
  BY Constants DEF NoRelay, Counts
<1>5. sinceNeeded \in [Regions -> 0 .. Never] /\ sinceStart \in [Regions -> 0 .. StartRetry]
  BY Constants DEF Init
<1>6. TypeOK
  BY <1>1, <1>2, <1>3, <1>4, <1>5, Constants DEF TypeOK
<1>7. \A r \in Relays : Link(r) /\ Known(r)
  BY <1>1, <1>4 DEF Link, Known
<1> QED  BY <1>6, <1>7, IInvIs

(* Every step of the lobby, a connection or a relay keeps it. *)
LEMMA StepHolds == IInv /\ [Next]_vars => IInv'
<1> SUFFICES ASSUME IInv, [Next]_vars  PROVE IInv'
  OBVIOUS
<1>1. CASE EventLoop
  BY <1>1, AskHolds, SessionTokenHolds, LoginHolds, UpdateRelaysHolds DEF EventLoop
<1>2. CASE Restart
  BY <1>2, RestartHolds
<1>3. CASE \E g \in Regions : StartRelay(g)
  BY <1>3, StartRelayHolds
<1>4. ASSUME NEW r \in Relays, Relay(r)  PROVE IInv'
  BY <1>4, DialHolds, HangUpHolds, SendStatusHolds, ReceiveHolds, CrashHolds,
     RemoveStaleSessionHolds DEF Relay
<1>5. ASSUME NEW c \in DOMAIN conns, Connection(c)  PROVE IInv'
  BY <1>5, ReadStatusHolds, SetActiveHolds, EndHolds DEF Connection
<1>6. CASE UNCHANGED vars
  <2>1. UNCHANGED <<up, table, dialed, conns, byAddr, asking, sinceNeeded, sinceStart, starting, online, drawn>>
    BY <1>6 DEF vars, relayVars, lobbyVars
  <2>2. TypeOK
    BY IInvIs
  <2>3. TypeOK'
    BY <2>1, <2>2 DEF TypeOK
  <2> QED  BY <2>1, <2>3, StandsStill
<1> QED  BY <1>1, <1>2, <1>3, <1>4, <1>5, <1>6 DEF Next

(* The inductive invariant holds in every state. *)
THEOREM InvariantHolds == Spec => []IInv
  BY InitHolds, StepHolds, PTL DEF Spec

(* What the lobby knows of relays is bounded, and of relays whose own      *)
(* connection is served and was registered (serveRelayControlConn,         *)
(* RegisterRelay and UnregisterRelayIf), however connections of one        *)
(* address overlap.                                                        *)
THEOREM RelaysAreKnown == Spec => []RelaysKnown
<1>1. IInv => RelaysKnown
  BY DEF IInv, RelaysKnown
<1> QED  BY InvariantHolds, <1>1, PTL

(* What players were told last is what their relay will hold: the queue of *)
(* a connection, its table of tokens at the lobby and the relay's own      *)
(* table stay in step (remoteRelaySessions.SessionToken, push,             *)
(* SetSessionToken), over any number of connections and full queues.       *)
THEOREM TokensWillReach == Spec => []TokensReach
<1>1. IInv => TokensReach
  BY DEF IInv
<1> QED  BY InvariantHolds, <1>1, PTL

(* A step in which a relay is no longer offered ends its own connection.   *)
LEMMA KeptStep ==
  ASSUME IInv, [Next]_vars, NEW r \in Relays, r \in Offered, r \notin Offered'
  PROVE  ~ conns'[byAddr[r].conn].served
<1>1. TypeOK /\ \A q \in Relays : Known(q)
  BY IInvIs
<1>2. DOMAIN conns = 1 .. Len(conns) /\ Len(conns) \in Nat /\ drawn \in Nat
  BY <1>1, ConnsTyped
<1>3. byAddr \in [Relays -> [conn : 0 .. Len(conns), active : Counts, canStop : BOOLEAN]]
  BY <1>1 DEF TypeOK
<1>4. byAddr[r] # NoRelay /\ byAddr[r].conn # 0 /\ byAddr'[r] = NoRelay
  BY <1>1 DEF Offered, Known
<1>5. byAddr[r].conn \in 1 .. Len(conns)
  BY <1>1, <1>2, <1>4, Pointers
<1>6. byAddr'[r] # byAddr[r] /\ byAddr'[r].conn = 0
  BY <1>4 DEF NoRelay
<1>7. ASSUME NEW c \in DOMAIN conns, End(c)  PROVE ~ conns'[byAddr[r].conn].served
  <2>1. byAddr[r].conn = c
    BY <1>3, <1>6, <1>7 DEF End, UnregisterRelayIf
  <2>2. \E written : conns'[c] = Ended(conns[c], written)
    BY <1>2, <1>7 DEF End
  <2> QED  BY <2>1, <2>2 DEF Ended, NewConn
<1>8. CASE Restart
  <2>1. conns'[byAddr[r].conn] = Ended(conns[byAddr[r].conn], 0)
    BY <1>2, <1>5, <1>8 DEF Restart
  <2> QED  BY <2>1 DEF Ended, NewConn
<1>9. CASE UpdateRelays
  <2>1. \E b : byAddr'[r] = [byAddr[r] EXCEPT !.canStop = b]
    BY <1>9 DEF UpdateRelays
  <2>2. byAddr'[r].conn = byAddr[r].conn
    BY <1>3, <2>1
  <2> QED  BY <1>4, <1>6, <2>2
<1>10. ASSUME NEW c \in DOMAIN conns, SetActive(c)  PROVE FALSE
  <2>1. byAddr'[r] = byAddr[r] \/ \E n : byAddr'[r] = [byAddr[r] EXCEPT !.active = n]
    BY <1>3, <1>10 DEF SetActive
  <2>2. byAddr'[r].conn = byAddr[r].conn
    BY <1>3, <2>1
  <2> QED  BY <1>4, <1>6, <2>2
<1>11. ASSUME NEW c \in DOMAIN conns, ReadStatus(c)  PROVE FALSE
  <2>1. byAddr'[r] = byAddr[r] \/ byAddr'[r] = [conn |-> c, active |-> 0, canStop |-> TRUE]
    BY <1>3, <1>11 DEF ReadStatus
  <2> QED  BY <1>2, <1>6, <1>11, <2>1
<1>12. ASSUME byAddr' = byAddr  PROVE FALSE
  BY <1>6, <1>12
<1>13. CASE EventLoop
  BY <1>9, <1>12, <1>13 DEF EventLoop, Ask, SessionToken, Login
<1>14. CASE \E g \in Regions : StartRelay(g)
  BY <1>12, <1>14 DEF StartRelay, lobbyVars
<1>15. CASE \E q \in Relays : Relay(q)
  BY <1>12, <1>15
     DEF Relay, Dial, HangUp, SendStatus, Receive, Crash, RemoveStaleSession, lobbyVars
<1>16. CASE UNCHANGED vars
  BY <1>12, <1>16 DEF vars, lobbyVars
<1>17. CASE \E c \in DOMAIN conns : Connection(c)
  BY <1>7, <1>10, <1>11, <1>17 DEF Connection
<1> QED  BY <1>8, <1>13, <1>14, <1>15, <1>16, <1>17 DEF Next

(* A relay is no longer offered only as its own connection ends: the late  *)
(* end of an earlier one does not take it away (UnregisterRelayIf).        *)
THEOREM KeptUntilTheEnd == Spec => KeptUntilEnd
<1>1. IInv /\ [Next]_vars =>
        [\A r \in Relays : r \in Offered /\ r \notin Offered' => ~ conns'[byAddr[r].conn].served]_vars
  BY KeptStep
<1> QED  BY InvariantHolds, <1>1, PTL DEF Spec, KeptUntilEnd
=============================================================================
