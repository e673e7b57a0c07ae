---------------------------- MODULE RelayProofs ----------------------------
(***************************************************************************)
(* Proofs about the relay, for all sets of ids, tokens and addresses, any  *)
(* number of slots and any timeouts.                                       *)
(*                                                                         *)
(* The properties of Relay are not inductive by themselves: that an address*)
(* bound to a slot is held by it survives a rebinding only if slots hold   *)
(* addresses of their own family, and survives a removal only if no two    *)
(* ids share a session.  IInv adds these facts.                            *)
(***************************************************************************)
EXTENDS Relay, TLAPS

(* A session is registered under its own id, with a token drawn for it. *)
IdsAgree ==
  \A id \in Ids : sessions[id] # 0 =>
    LET s == sessions[id]
    IN  /\ s \in Instances /\ store[s].id = id
        /\ store[s].token \in Tokens /\ IdOf[store[s].token] = id

(* Addresses are kept by their family. *)
FamiliesAgree ==
  \A s \in Registered : \A p \in Slots : \A f \in Families :
    LET a == store[s].peers[p].addrs[f] IN a # None => Family[a] = f

(* A binding is to a slot of a registered session. *)
BoundToRegistered ==
  \A a \in Addrs : bindings[a] # NoBinding =>
    bindings[a].session \in Registered /\ bindings[a].peer \in Slots

(* An address in a slot has shown the token of the slot's session. *)
ShownAgree ==
  \A s \in Registered : \A p \in Slots : \A f \in Families :
    LET a == store[s].peers[p].addrs[f]
    IN  a # None => store[s].token \in shown[a]

IInv ==
  /\ TypeOK
  /\ IdsAgree
  /\ FamiliesAgree
  /\ BoundToRegistered
  /\ BindingsMatchSlots
  /\ ActiveIsHeld
  /\ ShownAgree

-----------------------------------------------------------------------------
(* What a session looks like when its entry of the heap has its type. *)
LEMMA StoreTypes ==
  ASSUME NEW st \in [Instances -> Sessions], NEW s \in Instances, NEW p \in Slots
  PROVE  /\ st[s] \in Sessions
         /\ st[s].peers \in [Slots -> Peers]
         /\ st[s].peers[p] \in Peers
         /\ st[s].peers[p].addrs \in [Families -> Addrs \cup {None}]
         /\ st[s].peers[p].active \in Addrs \cup {None}
         /\ st[s].peers[p].playing \in BOOLEAN
  BY DEF Sessions, Peers

(* Registered sessions are entries of the heap that have been made. *)
LEMMA RegisteredMade ==
  ASSUME TypeOK
  PROVE  /\ Registered \subseteq 1 .. made
         /\ Registered \subseteq Instances
<1>1. made \in 0 .. MaxSessions /\ MaxSessions \in Nat
  BY RelayAssumption DEF TypeOK
<1>2. \A id \in Ids : sessions[id] \in 0 .. made
  BY DEF TypeOK
<1>3. \A s \in Registered : s \in 0 .. made /\ s # 0
  BY <1>2 DEF Registered
<1> QED
  BY <1>1, <1>3 DEF Instances

(* The slot an address is bound to holds it, and its session is registered. *)
LEMMA BoundIsHeld ==
  ASSUME BindingsMatchSlots, NEW a \in Addrs, NEW s \in Instances, NEW p \in Slots,
         bindings[a] = [session |-> s, peer |-> p]
  PROVE  s \in Registered /\ store[s].peers[p].addrs[Family[a]] = a
BY DEF BindingsMatchSlots

(* Replacing one slot of a session, and setting its idle time. *)
WithSlot(st, s, p, peer) == [st EXCEPT ![s].peers[p] = peer]
WithIdle(st, s, i) == [st EXCEPT ![s].idle = i]

(* The replaced slot is the only one that differs. *)
LEMMA SlotReplaced ==
  ASSUME NEW st \in [Instances -> Sessions], NEW s \in Instances,
         NEW p \in Slots, NEW peer \in Peers
  PROVE  LET next == WithSlot(st, s, p, peer)
         IN  /\ next \in [Instances -> Sessions]
             /\ \A t \in Instances : next[t].id = st[t].id /\ next[t].token = st[t].token
             /\ \A t \in Instances, q \in Slots :
                  next[t].peers[q] = IF t = s /\ q = p THEN peer ELSE st[t].peers[q]
<1> DEFINE next == WithSlot(st, s, p, peer)
<1>1. st[s] \in Sessions /\ st[s].peers \in [Slots -> Peers]
  BY DEF Sessions
<1>2. [st[s].peers EXCEPT ![p] = peer] \in [Slots -> Peers]
  BY <1>1
<1>3. [st[s] EXCEPT !.peers = [st[s].peers EXCEPT ![p] = peer]] \in Sessions
  BY <1>1, <1>2 DEF Sessions
<1>4. next = [st EXCEPT ![s] = [st[s] EXCEPT !.peers = [st[s].peers EXCEPT ![p] = peer]]]
  BY DEF WithSlot
<1> HIDE DEF next
<1>5. next \in [Instances -> Sessions]
  BY <1>3, <1>4
<1>6. \A t \in Instances : next[t].id = st[t].id /\ next[t].token = st[t].token
  BY <1>1, <1>4 DEF Sessions
<1>7. ASSUME NEW t \in Instances, NEW q \in Slots
      PROVE  next[t].peers[q] = IF t = s /\ q = p THEN peer ELSE st[t].peers[q]
  BY <1>1, <1>4 DEF Sessions
<1> QED
  BY <1>5, <1>6, <1>7 DEF next

(* The same, of setting a session's idle time. *)
LEMMA IdleReplaced ==
  ASSUME NEW st \in [Instances -> Sessions], NEW s \in Instances, NEW i \in Nat
  PROVE  LET next == WithIdle(st, s, i)
         IN  /\ next \in [Instances -> Sessions]
             /\ \A t \in Instances : /\ next[t].id = st[t].id
                                     /\ next[t].token = st[t].token
                                     /\ next[t].peers = st[t].peers
<1>1. st[s] \in Sessions
  OBVIOUS
<1>2. [st[s] EXCEPT !.idle = i] \in Sessions
  BY <1>1 DEF Sessions
<1>3. /\ [st[s] EXCEPT !.idle = i].id = st[s].id
      /\ [st[s] EXCEPT !.idle = i].token = st[s].token
      /\ [st[s] EXCEPT !.idle = i].peers = st[s].peers
  BY <1>1 DEF Sessions
<1>4. WithIdle(st, s, i) = [st EXCEPT ![s] = [st[s] EXCEPT !.idle = i]]
  BY DEF WithIdle
<1> QED
  BY <1>2, <1>3, <1>4

(* Unbinding an address of its own family takes it out of that family and  *)
(* out of active, and touches nothing else.                                *)
LEMMA UnbindLemma ==
  ASSUME NEW peer \in Peers, NEW a \in Addrs
  PROVE  /\ Unbind(peer, a) \in Peers
         /\ \A f \in Families : Unbind(peer, a).addrs[f]
              = IF f = Family[a] THEN None ELSE peer.addrs[f]
         /\ Unbind(peer, a).active = IF peer.active = a THEN None ELSE peer.active
         /\ Unbind(peer, a).playing <=> (peer.playing /\ peer.active # a)
<1>1. Family[a] \in Families
  BY RelayAssumption DEF Families
<1>2. peer.addrs \in [Families -> Addrs \cup {None}]
  BY DEF Peers
<1>3. [peer.addrs EXCEPT ![Family[a]] = None] \in [Families -> Addrs \cup {None}]
  BY <1>1, <1>2
<1>4. Unbind(peer, a) \in Peers
  BY <1>3 DEF Unbind, Peers
<1>5. \A f \in Families : Unbind(peer, a).addrs[f]
        = IF f = Family[a] THEN None ELSE peer.addrs[f]
  BY <1>1, <1>2 DEF Unbind
<1> QED
  BY <1>4, <1>5 DEF Unbind

(* A ping puts the address in its family's place. *)
LEMMA PingedLemma ==
  ASSUME NEW peer \in Peers, NEW a \in Addrs
  PROVE  /\ Pinged(peer, a) \in Peers
         /\ \A f \in Families : Pinged(peer, a).addrs[f]
              = IF f = Family[a] THEN a ELSE peer.addrs[f]
         /\ Pinged(peer, a).active = IF peer.playing THEN peer.active ELSE a
         /\ Pinged(peer, a).playing <=> peer.playing
<1>1. Family[a] \in Families
  BY RelayAssumption DEF Families
<1>2. peer.addrs \in [Families -> Addrs \cup {None}]
  BY DEF Peers
<1> QED
  BY <1>1, <1>2 DEF Pinged, Peers

-----------------------------------------------------------------------------
(* What a ping from a, bound to b before, does to the slots: a takes its   *)
(* place in slot p of session s; if it was not there already, it leaves    *)
(* the slot of b.  Nothing else moves.                                     *)
PingMoves(a, id, token, p) ==
  LET s == sessions[id]
      old == store[s].peers[p].addrs[Family[a]]
      b == bindings[a]
  IN
  /\ s \in Registered /\ s \in Instances
  /\ store[s].token = token
  /\ store' \in [Instances -> Sessions]
  /\ \A t \in Instances : /\ store'[t].id = store[t].id
                          /\ store'[t].token = store[t].token
  /\ \A t \in Instances, q \in Slots, f \in Families :
       store'[t].peers[q].addrs[f] =
         IF t = s /\ q = p /\ f = Family[a] THEN a
         ELSE IF old # a /\ t = b.session /\ q = b.peer /\ f = Family[a] THEN None
         ELSE store[t].peers[q].addrs[f]
  /\ \A t \in Instances, q \in Slots :
       LET peer == store[t].peers[q]
           next == store'[t].peers[q]
       IN  IF t = s /\ q = p
           THEN LET freed == old # a /\ old # None /\ peer.active = old
                IN  IF peer.playing /\ ~ freed
                    THEN next.playing /\ next.active = peer.active
                    ELSE ~ next.playing /\ next.active = a
           ELSE IF old # a /\ t = b.session /\ q = b.peer /\ peer.active = a
           THEN ~ next.playing /\ next.active = None
           ELSE (next.playing <=> peer.playing) /\ next.active = peer.active

(* A ping that the relay takes has this effect. *)
LEMMA PingEffect ==
  ASSUME IInv, NEW a \in Addrs, NEW id \in Ids, NEW token \in Tokens,
         NEW p \in Slots, HandlePing(a, id, token, p)
  PROVE  PingMoves(a, id, token, p)
<1> DEFINE s == sessions[id]
           old == store[s].peers[p].addrs[Family[a]]
           b == bindings[a]
           slotFreed == IF old # a /\ old # None
                        THEN [store EXCEPT ![s].peers[p] = Unbind(@, old)] ELSE store
           bothFreed == IF old # a /\ b # NoBinding
                        THEN [slotFreed EXCEPT ![b.session].peers[b.peer] = Unbind(@, a)]
                        ELSE slotFreed
           placed == [bothFreed EXCEPT ![s].peers[p] = Pinged(@, a)]
<1>1. /\ s \in Registered /\ s \in Instances /\ store[s].token = token
      /\ store \in [Instances -> Sessions] /\ Family[a] \in Families
  BY RegisteredMade, RelayAssumption
  DEF IInv, TypeOK, HandlePing, Registered, Families
<1>2. store' = WithIdle(placed, s, 0)
  BY DEF HandlePing, WithIdle
<1> HIDE DEF s, old, b
<1>3. /\ old \in Addrs \cup {None}
      /\ old # None => Family[old] = Family[a]
  BY <1>1, StoreTypes DEF IInv, FamiliesAgree, old
<1>4. old # a /\ b # NoBinding =>
        /\ b.session \in Instances /\ b.peer \in Slots
        /\ ~ (b.session = s /\ b.peer = p)
  <2> SUFFICES ASSUME old # a, b # NoBinding
               PROVE  /\ b.session \in Instances /\ b.peer \in Slots
                      /\ ~ (b.session = s /\ b.peer = p)
    OBVIOUS
  <2>1. b.session \in Instances /\ b.peer \in Slots
    BY RegisteredMade DEF IInv, BoundToRegistered, b
  <2>2. b = [session |-> b.session, peer |-> b.peer]
    BY DEF IInv, TypeOK, b
  <2>3. store[b.session].peers[b.peer].addrs[Family[a]] = a
    BY <2>1, <2>2, BoundIsHeld DEF IInv, b
  <2> QED
    BY <2>1, <2>3 DEF old
<1>5. b = NoBinding => b.session \notin Instances
  BY DEF NoBinding, Instances
<1>6. store[s].peers[p] \in Peers
  BY <1>1, StoreTypes
<1>7. /\ slotFreed \in [Instances -> Sessions]
      /\ \A t \in Instances : /\ slotFreed[t].id = store[t].id
                              /\ slotFreed[t].token = store[t].token
      /\ \A t \in Instances, q \in Slots :
           slotFreed[t].peers[q] = IF t = s /\ q = p /\ old # a /\ old # None
                                   THEN Unbind(store[s].peers[p], old)
                                   ELSE store[t].peers[q]
  <2>1. CASE old # a /\ old # None
    <3>1. old \in Addrs /\ Unbind(store[s].peers[p], old) \in Peers
      BY <1>3, <1>6, <2>1, UnbindLemma
    <3>2. slotFreed = WithSlot(store, s, p, Unbind(store[s].peers[p], old))
      BY <2>1 DEF WithSlot
    <3> DEFINE freed == Unbind(store[s].peers[p], old)
    <3> HIDE DEF slotFreed, freed
    <3>3. slotFreed = WithSlot(store, s, p, freed) /\ freed \in Peers
      BY <3>1, <3>2 DEF freed
    <3>4. /\ slotFreed \in [Instances -> Sessions]
          /\ \A t \in Instances : /\ slotFreed[t].id = store[t].id
                                  /\ slotFreed[t].token = store[t].token
          /\ \A t \in Instances, q \in Slots :
               slotFreed[t].peers[q] = IF t = s /\ q = p THEN freed ELSE store[t].peers[q]
      BY <1>1, <3>3, SlotReplaced
    <3> QED
      BY <2>1, <3>4 DEF freed
  <2>2. CASE ~ (old # a /\ old # None)
    BY <2>2, <1>1
  <2> QED
    BY <2>1, <2>2
<1> HIDE DEF slotFreed
<1>8. /\ bothFreed \in [Instances -> Sessions]
      /\ \A t \in Instances : /\ bothFreed[t].id = store[t].id
                              /\ bothFreed[t].token = store[t].token
      /\ \A t \in Instances, q \in Slots :
           bothFreed[t].peers[q] = IF old # a /\ t = b.session /\ q = b.peer
                                   THEN Unbind(store[t].peers[q], a)
                                   ELSE slotFreed[t].peers[q]
  <2>1. CASE old # a /\ b # NoBinding
    <3>1. slotFreed[b.session].peers[b.peer] = store[b.session].peers[b.peer]
      BY <1>4, <1>7, <2>1
    <3>2. Unbind(store[b.session].peers[b.peer], a) \in Peers
      BY <1>1, <1>4, <2>1, StoreTypes, UnbindLemma
    <3>3. bothFreed = WithSlot(slotFreed, b.session, b.peer,
                               Unbind(store[b.session].peers[b.peer], a))
      BY <2>1, <3>1 DEF WithSlot
    <3> DEFINE freed == Unbind(store[b.session].peers[b.peer], a)
    <3>4. slotFreed \in [Instances -> Sessions] /\ freed \in Peers
      BY <1>7, <3>2
    <3>5. b.session \in Instances /\ b.peer \in Slots
      BY <1>4, <2>1
    <3>6. bothFreed = WithSlot(slotFreed, b.session, b.peer, freed)
      BY <3>3
    <3> HIDE DEF bothFreed, freed
    <3>7. /\ bothFreed \in [Instances -> Sessions]
          /\ \A t \in Instances : /\ bothFreed[t].id = slotFreed[t].id
                                  /\ bothFreed[t].token = slotFreed[t].token
          /\ \A t \in Instances, q \in Slots :
               bothFreed[t].peers[q] = IF t = b.session /\ q = b.peer THEN freed
                                       ELSE slotFreed[t].peers[q]
      BY <3>4, <3>5, <3>6, SlotReplaced
    <3>8. \A t \in Instances : /\ bothFreed[t].id = store[t].id
                              /\ bothFreed[t].token = store[t].token
      BY <1>7, <3>7
    <3>9. \A t \in Instances, q \in Slots :
            bothFreed[t].peers[q] = IF t = b.session /\ q = b.peer
                                    THEN Unbind(store[t].peers[q], a)
                                    ELSE slotFreed[t].peers[q]
      BY <3>7 DEF freed
    <3> QED
      BY <2>1, <3>7, <3>8, <3>9
  <2>2. CASE ~ (old # a /\ b # NoBinding)
    BY <2>2, <1>5, <1>7
  <2> QED
    BY <2>1, <2>2
<1> HIDE DEF bothFreed
<1> DEFINE mine == bothFreed[s].peers[p]
<1>9. mine \in Peers
  BY <1>1, <1>8, StoreTypes
<1>10. mine = IF old # a /\ old # None THEN Unbind(store[s].peers[p], old)
              ELSE store[s].peers[p]
  BY <1>1, <1>4, <1>5, <1>7, <1>8
<1> HIDE DEF mine
<1>11. /\ placed \in [Instances -> Sessions]
       /\ \A t \in Instances : /\ placed[t].id = bothFreed[t].id
                               /\ placed[t].token = bothFreed[t].token
       /\ \A t \in Instances, q \in Slots :
            placed[t].peers[q] = IF t = s /\ q = p THEN Pinged(mine, a)
                                 ELSE bothFreed[t].peers[q]
  <2>1. placed = WithSlot(bothFreed, s, p, Pinged(mine, a))
    BY DEF mine, WithSlot
  <2>2. Pinged(mine, a) \in Peers
    BY <1>9, PingedLemma
  <2> HIDE DEF placed
  <2> QED
    BY <1>1, <1>8, <2>1, <2>2, SlotReplaced
<1> HIDE DEF placed
<1>12. /\ store' \in [Instances -> Sessions]
       /\ \A t \in Instances : /\ store'[t].id = placed[t].id
                               /\ store'[t].token = placed[t].token
                               /\ store'[t].peers = placed[t].peers
  BY <1>1, <1>2, <1>11, IdleReplaced
<1>13. \A t \in Instances, q \in Slots :
         store'[t].peers[q] = IF t = s /\ q = p THEN Pinged(mine, a)
                              ELSE IF old # a /\ t = b.session /\ q = b.peer
                              THEN Unbind(store[t].peers[q], a)
                              ELSE store[t].peers[q]
  BY <1>7, <1>8, <1>11, <1>12
<1>14. /\ \A f \in Families : Pinged(mine, a).addrs[f] =
            IF f = Family[a] THEN a ELSE store[s].peers[p].addrs[f]
       /\ LET peer == store[s].peers[p]
              freed == old # a /\ old # None /\ peer.active = old
          IN  IF peer.playing /\ ~ freed
              THEN Pinged(mine, a).playing /\ Pinged(mine, a).active = peer.active
              ELSE ~ Pinged(mine, a).playing /\ Pinged(mine, a).active = a
  <2>1. CASE old # a /\ old # None
    <3> DEFINE peer == store[s].peers[p]
    <3>1. old \in Addrs /\ Family[old] = Family[a] /\ mine = Unbind(peer, old)
      BY <2>1, <1>3, <1>10
    <3>2. /\ \A f \in Families : mine.addrs[f] = IF f = Family[a] THEN None
                                                 ELSE peer.addrs[f]
          /\ mine.active = IF peer.active = old THEN None ELSE peer.active
          /\ mine.playing <=> (peer.playing /\ peer.active # old)
      BY <3>1, <1>6, UnbindLemma
    <3>3. /\ \A f \in Families : Pinged(mine, a).addrs[f]
               = IF f = Family[a] THEN a ELSE mine.addrs[f]
          /\ Pinged(mine, a).active = IF mine.playing THEN mine.active ELSE a
          /\ Pinged(mine, a).playing <=> mine.playing
      BY <1>9, PingedLemma
    <3> HIDE DEF peer
    <3>4. \A f \in Families : Pinged(mine, a).addrs[f]
            = IF f = Family[a] THEN a ELSE peer.addrs[f]
      BY <3>2, <3>3
    <3>5. IF peer.playing /\ peer.active # old
          THEN Pinged(mine, a).playing /\ Pinged(mine, a).active = peer.active
          ELSE ~ Pinged(mine, a).playing /\ Pinged(mine, a).active = a
      BY <3>2, <3>3
    <3> QED
      BY <2>1, <3>4, <3>5 DEF peer
  <2>2. CASE ~ (old # a /\ old # None)
    BY <2>2, <1>6, <1>9, <1>10, PingedLemma
  <2> QED
    BY <2>1, <2>2
<1>15. \A t \in Instances, q \in Slots :
         LET peer == store[t].peers[q]
         IN  /\ \A f \in Families : Unbind(peer, a).addrs[f] =
                  IF f = Family[a] THEN None ELSE peer.addrs[f]
             /\ IF peer.active = a
                THEN ~ Unbind(peer, a).playing /\ Unbind(peer, a).active = None
                ELSE /\ Unbind(peer, a).playing <=> peer.playing
                     /\ Unbind(peer, a).active = peer.active
  BY <1>1, StoreTypes, UnbindLemma
<1>16. ASSUME NEW t \in Instances, NEW q \in Slots, NEW f \in Families
       PROVE  store'[t].peers[q].addrs[f] =
                IF t = s /\ q = p /\ f = Family[a] THEN a
                ELSE IF old # a /\ t = b.session /\ q = b.peer /\ f = Family[a] THEN None
                ELSE store[t].peers[q].addrs[f]
  <2>1. CASE t = s /\ q = p
    BY <2>1, <1>4, <1>5, <1>13, <1>14
  <2>2. CASE ~ (t = s /\ q = p)
    BY <2>2, <1>13, <1>15
  <2> QED
    BY <2>1, <2>2
<1>17. ASSUME NEW t \in Instances, NEW q \in Slots
       PROVE  LET peer == store[t].peers[q]
                  next == store'[t].peers[q]
              IN  IF t = s /\ q = p
                  THEN LET freed == old # a /\ old # None /\ peer.active = old
                       IN  IF peer.playing /\ ~ freed
                           THEN next.playing /\ next.active = peer.active
                           ELSE ~ next.playing /\ next.active = a
                  ELSE IF old # a /\ t = b.session /\ q = b.peer /\ peer.active = a
                  THEN ~ next.playing /\ next.active = None
                  ELSE (next.playing <=> peer.playing) /\ next.active = peer.active
  <2>1. CASE t = s /\ q = p
    BY <2>1, <1>13, <1>14
  <2>2. CASE ~ (t = s /\ q = p) /\ old # a /\ t = b.session /\ q = b.peer
    <3>1. store'[t].peers[q] = Unbind(store[t].peers[q], a)
      BY <2>2, <1>13
    <3> DEFINE was == store[t].peers[q]
    <3>2. IF was.active = a
          THEN ~ Unbind(was, a).playing /\ Unbind(was, a).active = None
          ELSE /\ Unbind(was, a).playing <=> was.playing
               /\ Unbind(was, a).active = was.active
      BY <1>15
    <3> QED
      BY <2>2, <3>1, <3>2
  <2>3. CASE ~ (t = s /\ q = p) /\ ~ (old # a /\ t = b.session /\ q = b.peer)
    <3>1. store'[t].peers[q] = store[t].peers[q]
      BY <2>3, <1>13
    <3> QED
      BY <2>3, <3>1
  <2> QED
    BY <2>1, <2>2, <2>3
<1>18. \A t \in Instances : /\ store'[t].id = store[t].id
                           /\ store'[t].token = store[t].token
  BY <1>8, <1>11, <1>12
<1> QED
  BY <1>1, <1>12, <1>16, <1>17, <1>18 DEF PingMoves, s, old, b

-----------------------------------------------------------------------------
(* A new session has its type and no addresses. *)
LEMMA NewSessionLemma ==
  ASSUME NEW id \in Ids, NEW token \in Tokens
  PROVE  /\ NewSession(id, token) \in Sessions
         /\ NewSession(id, token).id = id
         /\ NewSession(id, token).token = token
         /\ \A p \in Slots :
              /\ \A f \in Families : NewSession(id, token).peers[p].addrs[f] = None
              /\ NewSession(id, token).peers[p].active = None
              /\ ~ NewSession(id, token).peers[p].playing
<1>1. Unbound \in Peers
  BY DEF Unbound, Peers
<1>2. [p \in Slots |-> Unbound] \in [Slots -> Peers]
  BY <1>1
<1>3. NewSession(id, token) \in Sessions
  BY <1>2 DEF NewSession, Sessions
<1> QED
  BY <1>3 DEF NewSession, Unbound

(* A garbage entry has its type. *)
LEMMA NoSessionLemma == NoSession \in Sessions
<1>1. Unbound \in Peers
  BY DEF Unbound, Peers
<1>2. [p \in Slots |-> Unbound] \in [Slots -> Peers]
  BY <1>1
<1> QED
  BY <1>2 DEF NoSession, Sessions

(* What removing some registered sessions does: the bindings to them go,   *)
(* and no others; the other sessions and what was shown for them stay.     *)
RemovesOnly(gone) ==
  /\ BindingsWithout(gone) =
       [a \in Addrs |-> IF bindings[a].session \in gone THEN NoBinding
                        ELSE bindings[a]]
  /\ SessionsWithout(gone) =
       [id \in Ids |-> IF sessions[id] \in gone THEN 0 ELSE sessions[id]]
  /\ StoreWithout(gone) \in [Instances -> Sessions]
  /\ \A s \in Instances \ gone : StoreWithout(gone)[s] = store[s]
  /\ ShownWithout(gone) \in [Addrs -> SUBSET Tokens]
  /\ \A s \in Registered \ gone, a \in Addrs :
       store[s].token \in shown[a] => store[s].token \in ShownWithout(gone)[a]

(* removeSessionLocked, for a set of registered sessions, does just that. *)
LEMMA Removal ==
  ASSUME IInv, NEW gone, gone \subseteq Registered
  PROVE  RemovesOnly(gone)
<1>1. gone \subseteq Instances /\ 0 \notin gone
  BY RegisteredMade DEF IInv, Instances
<1>2. ASSUME NEW a \in Addrs
      PROVE  (\E s \in gone : a \in AddrsOf(s)) <=> bindings[a].session \in gone
  <2>1. Family[a] \in Families
    BY RelayAssumption DEF Families
  <2>2. ASSUME NEW s \in gone, a \in AddrsOf(s)
        PROVE  bindings[a].session \in gone
    <3>1. PICK p \in Slots, f \in Families : store[s].peers[p].addrs[f] = a
      BY <2>2 DEF AddrsOf
    <3>2. f = Family[a]
      BY <3>1, <2>2, RelayAssumption DEF IInv, FamiliesAgree
    <3>3. bindings[a] = [session |-> s, peer |-> p]
      BY <1>1, <3>1, <3>2 DEF IInv, BindingsMatchSlots
    <3> QED
      BY <3>3
  <2>3. ASSUME bindings[a].session \in gone
        PROVE  \E s \in gone : a \in AddrsOf(s)
    <3> DEFINE s == bindings[a].session
               p == bindings[a].peer
    <3>1. bindings[a] # NoBinding /\ bindings[a] = [session |-> s, peer |-> p]
      BY <1>1, <2>3 DEF NoBinding, IInv, TypeOK
    <3>2. p \in Slots
      BY <3>1 DEF IInv, BoundToRegistered
    <3>3. store[s].peers[p].addrs[Family[a]] = a
      BY <1>1, <2>3, <3>1, <3>2, BoundIsHeld, Zenon DEF IInv
    <3>4. a \in AddrsOf(s)
      <4>1. a # None
        BY <2>3, RelayAssumption
      <4>2. \E q \in Slots, f \in Families : a = store[s].peers[q].addrs[f]
        BY <2>1, <3>2, <3>3, RelayAssumption, Zenon
      <4> QED BY <4>1, <4>2 DEF AddrsOf
    <3> QED
      BY <2>3, <3>4
  <2> QED
    BY <2>2, <2>3
<1>3. BindingsWithout(gone) =
        [a \in Addrs |-> IF bindings[a].session \in gone THEN NoBinding ELSE bindings[a]]
  BY <1>2 DEF BindingsWithout
<1>4. ASSUME NEW id \in Ids
      PROVE  (\E s \in gone : store[s].id = id) <=> sessions[id] \in gone
  BY <1>1 DEF Registered, IInv, IdsAgree
<1>5. SessionsWithout(gone) =
        [id \in Ids |-> IF sessions[id] \in gone THEN 0 ELSE sessions[id]]
  BY <1>4 DEF SessionsWithout
<1>6. /\ StoreWithout(gone) \in [Instances -> Sessions]
      /\ \A s \in Instances \ gone : StoreWithout(gone)[s] = store[s]
  BY NoSessionLemma DEF StoreWithout, IInv, TypeOK
<1>7. ShownWithout(gone) \in [Addrs -> SUBSET Tokens]
  BY DEF ShownWithout, IInv, TypeOK
<1>8. ASSUME NEW s \in Registered \ gone, NEW t \in gone
      PROVE  store[s].token # store[t].token
  BY <1>1 DEF Registered, IInv, IdsAgree
<1>9. \A s \in Registered \ gone, a \in Addrs :
        store[s].token \in shown[a] => store[s].token \in ShownWithout(gone)[a]
  BY <1>8 DEF ShownWithout
<1> QED
  BY <1>3, <1>5, <1>6, <1>7, <1>9 DEF RemovesOnly

-----------------------------------------------------------------------------
(* The relay starts in IInv. *)
LEMMA InitIInv == Init => IInv
<1> SUFFICES ASSUME Init PROVE IInv
  OBVIOUS
<1>1. Registered = {}
  BY DEF Init, Registered
<1>2. TypeOK
  BY NoSessionLemma, RelayAssumption DEF Init, TypeOK, NoBinding
<1>3. IdsAgree /\ FamiliesAgree /\ BoundToRegistered /\ ActiveIsHeld /\ ShownAgree
  BY <1>1 DEF Init, IdsAgree, FamiliesAgree, BoundToRegistered, ActiveIsHeld, ShownAgree
<1>4. BindingsMatchSlots
  BY <1>1 DEF Init, BindingsMatchSlots, NoBinding, Instances
<1> QED
  BY <1>2, <1>3, <1>4 DEF IInv

(* The session an id is registered with, if any. *)
SessionOf(id) == {sessions[id]} \ {0}

(* A session made at the next entry of the heap in place of an id's last.  *)
LEMMA NewSessionKeepsIInv ==
  ASSUME IInv, NEW id \in Ids, NEW token \in Tokens, IdOf[token] = id,
         made < MaxSessions,
         bindings' = BindingsWithout(SessionOf(id)),
         store' = [StoreWithout(SessionOf(id)) EXCEPT ![made + 1] = NewSession(id, token)],
         shown' = ShownWithout(SessionOf(id)),
         made' = made + 1,
         sessions' = [sessions EXCEPT ![id] = made + 1],
         issued' \in SUBSET Tokens
  PROVE  IInv'
<1> DEFINE n == made + 1
           gone == SessionOf(id)
           left == StoreWithout(gone)
<1>0a. /\ gone \subseteq Registered
       /\ sessions[id] = 0 \/ sessions[id] \in gone
       /\ \A i \in Ids \ {id} : sessions[i] \notin gone
  BY DEF IInv, IdsAgree, Registered, SessionOf
<1>0b. /\ BindingsWithout(gone) =
            [a \in Addrs |-> IF bindings[a].session \in gone THEN NoBinding
                             ELSE bindings[a]]
       /\ left \in [Instances -> Sessions]
       /\ \A s \in Instances \ gone : left[s] = store[s]
       /\ ShownWithout(gone) \in [Addrs -> SUBSET Tokens]
       /\ \A s \in Registered \ gone, a \in Addrs :
            store[s].token \in shown[a] => store[s].token \in ShownWithout(gone)[a]
  <2>1. RemovesOnly(gone)
    BY <1>0a, Removal
  <2> QED
    BY <2>1, Zenon DEF RemovesOnly
<1>0c. /\ bindings' = BindingsWithout(gone) /\ shown' = ShownWithout(gone)
       /\ store' = [left EXCEPT ![made + 1] = NewSession(id, token)]
  OBVIOUS
<1> HIDE DEF gone, left
<1>1. /\ n \in Instances /\ made \in Nat /\ n # 0
      /\ Registered \subseteq 1 .. made /\ Registered \subseteq Instances
      /\ n \notin Registered /\ made' = n
  BY RegisteredMade, RelayAssumption DEF IInv, TypeOK, Instances
<1> HIDE DEF n
<1>2. Registered' = (Registered \ gone) \cup {n}
  <2>1. sessions \in [Ids -> Nat] /\ sessions' = [sessions EXCEPT ![id] = n]
    BY <1>1 DEF IInv, TypeOK, n
  <2>2. \A i \in Ids : sessions'[i] = IF i = id THEN n ELSE sessions[i]
    BY <2>1
  <2> QED
    BY <1>1, <1>0a, <2>2 DEF Registered
<1>3. /\ store' \in [Instances -> Sessions]
      /\ store'[n] = NewSession(id, token)
      /\ \A s \in Registered \ gone : store'[s] = store[s]
  <2>1. NewSession(id, token) \in Sessions
    BY NewSessionLemma
  <2>2. left \in [Instances -> Sessions] /\ \A s \in Instances \ gone : left[s] = store[s]
    BY <1>0b
  <2>3. store' = [left EXCEPT ![n] = NewSession(id, token)]
    BY <1>0c DEF n
  <2> DEFINE fresh == NewSession(id, token)
  <2> HIDE DEF fresh
  <2>7. store' = [left EXCEPT ![n] = fresh] /\ fresh \in Sessions
    BY <2>1, <2>3 DEF fresh
  <2>4. store' \in [Instances -> Sessions] /\ store'[n] = fresh
    BY <1>1, <2>2, <2>7
  <2>5. \A s \in Instances : s # n => store'[s] = left[s]
    BY <2>2, <2>7
  <2>6. \A s \in Registered \ gone : s \in Instances \ gone /\ s # n
    BY <1>1
  <2> QED
    BY <2>2, <2>4, <2>5, <2>6 DEF fresh
<1>4. \A a \in Addrs : bindings'[a] = IF bindings[a].session \in gone THEN NoBinding
                                      ELSE bindings[a]
  BY <1>0b, <1>0c
<1>5. TypeOK'
  <2>1. sessions' \in [Ids -> 0 .. made']
    BY <1>1 DEF IInv, TypeOK, n
  <2>2. bindings' \in [Addrs -> [session : 0 .. made', peer : Slots \cup {0}]]
    <3>1. made \in Nat /\ bindings \in [Addrs -> [session : 0 .. made, peer : Slots \cup {0}]]
      BY <1>1 DEF IInv, TypeOK
    <3>2. [session : 0 .. made, peer : Slots \cup {0}]
            \subseteq [session : 0 .. made', peer : Slots \cup {0}]
      BY <1>1, <3>1 DEF n
    <3>3. NoBinding \in [session : 0 .. made', peer : Slots \cup {0}]
      BY <1>1, <3>1 DEF NoBinding, n
    <3>4. bindings' = [a \in Addrs |-> IF bindings[a].session \in gone THEN NoBinding
                                       ELSE bindings[a]]
      BY <1>0b, <1>0c
    <3> QED
      BY <3>1, <3>2, <3>3, <3>4
  <2>3. made' \in 0 .. MaxSessions
    BY <1>1 DEF Instances
  <2>4. shown' \in [Addrs -> SUBSET Tokens]
    BY <1>0b, <1>0c
  <2> QED
    BY <1>3, <2>1, <2>2, <2>3, <2>4 DEF TypeOK
<1>6. IdsAgree'
  <2> SUFFICES ASSUME NEW i \in Ids, sessions'[i] # 0
               PROVE  LET s == sessions'[i]
                      IN  /\ s \in Instances /\ store'[s].id = i
                          /\ store'[s].token \in Tokens /\ IdOf[store'[s].token] = i
    BY DEF IdsAgree
  <2>1. CASE i = id
    BY <1>1, <1>3, <2>1, NewSessionLemma DEF IInv, TypeOK, n
  <2>2. CASE i # id
    <3>1. sessions'[i] = sessions[i] /\ sessions[i] \in Registered \ gone
      BY <1>0a, <2>2 DEF IInv, TypeOK, Registered
    <3> QED
      BY <1>3, <3>1 DEF IInv, IdsAgree
  <2> QED
    BY <2>1, <2>2
<1>7. FamiliesAgree'
  BY <1>2, <1>3, NewSessionLemma DEF IInv, FamiliesAgree
<1>8. BoundToRegistered'
  <2> SUFFICES ASSUME NEW a \in Addrs, bindings'[a] # NoBinding
               PROVE  bindings'[a].session \in Registered' /\ bindings'[a].peer \in Slots
    BY DEF BoundToRegistered
  <2> QED
    BY <1>2, <1>4 DEF IInv, BoundToRegistered
<1>9. BindingsMatchSlots'
  <2> SUFFICES ASSUME NEW a \in Addrs, NEW s \in Instances, NEW p \in Slots
               PROVE  (bindings'[a] = [session |-> s, peer |-> p])
                        <=> (s \in Registered' /\ store'[s].peers[p].addrs[Family[a]] = a)
    BY DEF BindingsMatchSlots
  <2>1. Family[a] \in Families /\ a # None
    BY RelayAssumption DEF Families
  <2>2. NoBinding # [session |-> s, peer |-> p]
    BY DEF NoBinding, Instances
  <2>3. bindings[a] = [session |-> s, peer |-> p]
          <=> (s \in Registered /\ store[s].peers[p].addrs[Family[a]] = a)
    BY DEF IInv, BindingsMatchSlots
  <2>4. bindings[a] = [session |-> s, peer |-> p] => bindings[a].session = s
    OBVIOUS
  <2>5. CASE s = n
    BY <1>1, <1>3, <1>4, <2>1, <2>2, <2>3, <2>5, NewSessionLemma
  <2>6. CASE s \in gone /\ s # n
    BY <1>1, <1>2, <1>4, <2>2, <2>4, <2>6
  <2>7. CASE s \notin gone /\ s # n
    <3>1. bindings'[a] = [session |-> s, peer |-> p] <=> bindings[a] = [session |-> s, peer |-> p]
      BY <1>4, <2>2, <2>4, <2>7
    <3> QED
      BY <1>2, <1>3, <2>3, <2>7, <3>1
  <2> QED
    BY <2>5, <2>6, <2>7
<1>10. ActiveIsHeld'
  <2> SUFFICES ASSUME NEW s \in Registered', NEW p \in Slots
               PROVE  LET peer == store'[s].peers[p]
                      IN  /\ peer.active # None => \E f \in Families : peer.addrs[f] = peer.active
                          /\ peer.playing => peer.active # None
    BY DEF ActiveIsHeld
  <2>1. CASE s = n
    BY <1>3, <2>1, NewSessionLemma
  <2>2. CASE s \in Registered \ gone
    BY <1>3, <2>2 DEF IInv, ActiveIsHeld
  <2> QED
    BY <1>2, <2>1, <2>2
<1>11. ShownAgree'
  <2> SUFFICES ASSUME NEW s \in Registered', NEW p \in Slots, NEW f \in Families
               PROVE  LET a == store'[s].peers[p].addrs[f]
                      IN  a # None => store'[s].token \in shown'[a]
    BY DEF ShownAgree
  <2>1. CASE s = n
    BY <1>3, <2>1, NewSessionLemma
  <2>2. CASE s \in Registered \ gone
    <3>1. store'[s] = store[s] /\ store[s].peers[p].addrs[f] \in Addrs \cup {None}
      BY <1>1, <1>3, <2>2, StoreTypes DEF IInv, TypeOK
    <3> QED
      BY <1>0b, <1>0c, <2>2, <3>1 DEF IInv, ShownAgree
  <2> QED
    BY <1>2, <2>1, <2>2
<1> QED
  BY <1>5, <1>6, <1>7, <1>8, <1>9, <1>10, <1>11 DEF IInv

(* Asking for a token that has to be drawn. *)
LEMMA SessionTokenKeepsIInv ==
  ASSUME IInv, NEW id \in Ids, SessionToken(id)
  PROVE  IInv'
<1>1. PICK token \in Tokens \ issued :
        /\ IdOf[token] = id
        /\ store' = [store EXCEPT ![made + 1] = NewSession(id, token)]
        /\ issued' = issued \cup {token}
  BY DEF SessionToken
<1>2. /\ sessions[id] = 0 /\ made < MaxSessions /\ made' = made + 1
      /\ sessions' = [sessions EXCEPT ![id] = made + 1]
      /\ UNCHANGED <<bindings, shown>>
  BY DEF SessionToken
<1>3. issued' \in SUBSET Tokens
  BY <1>1 DEF IInv, TypeOK
<1>4. SessionOf(id) = {}
  BY <1>2 DEF SessionOf
<1>5. bindings' = BindingsWithout({}) /\ shown' = ShownWithout({})
  BY <1>2 DEF BindingsWithout, ShownWithout, IInv, TypeOK
<1>6. store = StoreWithout({})
  BY DEF StoreWithout, IInv, TypeOK
<1> QED
  BY <1>1, <1>2, <1>3, <1>4, <1>5, <1>6, NewSessionKeepsIInv

(* Being told a token, in place of an earlier one or not. *)
LEMMA SetSessionTokenKeepsIInv ==
  ASSUME IInv, NEW id \in Ids, NEW token \in Tokens, SetSessionToken(id, token)
  PROVE  IInv'
<1>1. /\ IdOf[token] = id /\ made < MaxSessions
      /\ bindings' = BindingsWithout(SessionOf(id))
      /\ store' = [StoreWithout(SessionOf(id)) EXCEPT ![made + 1] = NewSession(id, token)]
      /\ shown' = ShownWithout(SessionOf(id))
      /\ made' = made + 1
      /\ sessions' = [sessions EXCEPT ![id] = made + 1]
      /\ issued' = issued \cup {token}
  BY DEF SetSessionToken, SessionOf
<1>2. issued' \in SUBSET Tokens
  BY <1>1 DEF IInv, TypeOK
<1> QED
  BY <1>1, <1>2, NewSessionKeepsIInv

(* A ping: the addresses of at most two slots change, and the bindings of *)
(* exactly the addresses that come or go.                                  *)
LEMMA HandlePingKeepsIInv ==
  ASSUME IInv, NEW a \in Addrs, NEW id \in Ids, NEW token \in Tokens,
         NEW p \in Slots, HandlePing(a, id, token, p)
  PROVE  IInv'
<1> DEFINE s == sessions[id]
           old == store[s].peers[p].addrs[Family[a]]
           b == bindings[a]
<1>0. PingMoves(a, id, token, p)
  BY PingEffect
<1>1. /\ s \in Registered /\ s \in Instances /\ store[s].token = token
      /\ store' \in [Instances -> Sessions]
      /\ \A t \in Instances : /\ store'[t].id = store[t].id
                              /\ store'[t].token = store[t].token
  BY <1>0 DEF PingMoves
<1>2. \A t \in Instances, q \in Slots, f \in Families :
        store'[t].peers[q].addrs[f] =
          IF t = s /\ q = p /\ f = Family[a] THEN a
          ELSE IF old # a /\ t = b.session /\ q = b.peer /\ f = Family[a] THEN None
          ELSE store[t].peers[q].addrs[f]
  BY <1>0 DEF PingMoves
<1>3. \A t \in Instances, q \in Slots :
        LET peer == store[t].peers[q]
            next == store'[t].peers[q]
        IN  IF t = s /\ q = p
            THEN LET freed == old # a /\ old # None /\ peer.active = old
                 IN  IF peer.playing /\ ~ freed
                     THEN next.playing /\ next.active = peer.active
                     ELSE ~ next.playing /\ next.active = a
            ELSE IF old # a /\ t = b.session /\ q = b.peer /\ peer.active = a
            THEN ~ next.playing /\ next.active = None
            ELSE (next.playing <=> peer.playing) /\ next.active = peer.active
  BY <1>0 DEF PingMoves
<1>4. \A c \in Addrs : bindings'[c] = IF c = a THEN [session |-> s, peer |-> p]
                                      ELSE IF old # a /\ c = old THEN NoBinding
                                      ELSE bindings[c]
  BY DEF HandlePing
<1>5. /\ bindings' \in [Addrs -> [session : 0 .. made, peer : Slots \cup {0}]]
      /\ shown' = [shown EXCEPT ![a] = @ \cup {token}]
      /\ UNCHANGED <<made, sessions, issued>>
  <2>1. UNCHANGED <<made, sessions, issued>>
        /\ shown' = [shown EXCEPT ![a] = @ \cup {token}]
    BY DEF HandlePing
  <2>2. [session |-> s, peer |-> p] \in [session : 0 .. made, peer : Slots \cup {0}]
    BY DEF IInv, TypeOK
  <2>3. NoBinding \in [session : 0 .. made, peer : Slots \cup {0}]
    BY RelayAssumption DEF NoBinding, IInv, TypeOK
  <2>4. bindings' = [c \in Addrs |-> bindings'[c]]
    BY DEF HandlePing
  <2>5. \A c \in Addrs : bindings'[c] \in [session : 0 .. made, peer : Slots \cup {0}]
    BY <1>4, <2>2, <2>3 DEF IInv, TypeOK
  <2> QED
    BY <2>1, <2>4, <2>5
<1>6. /\ Registered' = Registered /\ Registered \subseteq Instances
      /\ Family[a] \in Families /\ a # None /\ store \in [Instances -> Sessions]
  <2>1. Registered' = Registered
    BY <1>5 DEF Registered
  <2>2. Registered \subseteq Instances /\ store \in [Instances -> Sessions]
    BY RegisteredMade DEF IInv, TypeOK
  <2>3. Family[a] \in Families /\ a # None
    BY RelayAssumption DEF Families
  <2> QED
    BY <2>1, <2>2, <2>3
<1>7. /\ b # NoBinding => b.session \in Registered /\ b.peer \in Slots
      /\ b = [session |-> b.session, peer |-> b.peer]
      /\ b = NoBinding => b.session \notin Instances
  BY DEF IInv, BoundToRegistered, TypeOK, NoBinding, Instances
<1> HIDE DEF s, old, b
<1>8. TypeOK'
  <2>1. shown' \in [Addrs -> SUBSET Tokens]
    BY <1>5 DEF IInv, TypeOK
  <2> QED
    BY <1>1, <1>5, <2>1 DEF IInv, TypeOK
<1>9. IdsAgree'
  BY <1>1, <1>5 DEF IInv, IdsAgree
<1>10. FamiliesAgree'
  <2> SUFFICES ASSUME NEW t \in Registered, NEW q \in Slots, NEW f \in Families,
                      store'[t].peers[q].addrs[f] # None
               PROVE  Family[store'[t].peers[q].addrs[f]] = f
    BY <1>6 DEF FamiliesAgree
  <2> QED
    BY <1>2, <1>6 DEF IInv, FamiliesAgree
<1>11. BoundToRegistered'
  <2> SUFFICES ASSUME NEW c \in Addrs, bindings'[c] # NoBinding
               PROVE  bindings'[c].session \in Registered /\ bindings'[c].peer \in Slots
    BY <1>6 DEF BoundToRegistered
  <2> QED
    BY <1>1, <1>4 DEF IInv, BoundToRegistered
<1>12. BindingsMatchSlots'
  <2> SUFFICES ASSUME NEW c \in Addrs, NEW t \in Instances, NEW q \in Slots
               PROVE  (bindings'[c] = [session |-> t, peer |-> q])
                        <=> (t \in Registered' /\ store'[t].peers[q].addrs[Family[c]] = c)
    BY DEF BindingsMatchSlots
  <2> SUFFICES (bindings'[c] = [session |-> t, peer |-> q])
                 <=> (t \in Registered /\ store'[t].peers[q].addrs[Family[c]] = c)
    BY <1>6
  <2>1. \A d \in Addrs : (bindings[d] = [session |-> t, peer |-> q])
          <=> (t \in Registered /\ store[t].peers[q].addrs[Family[d]] = d)
    BY DEF IInv, BindingsMatchSlots
  <2>2. \A d \in Addrs : (bindings[d] = [session |-> s, peer |-> p])
          <=> store[s].peers[p].addrs[Family[d]] = d
    BY <1>1 DEF IInv, BindingsMatchSlots
  <2>3. \A d \in Addrs : Family[d] \in Families /\ d # None
    BY RelayAssumption DEF Families
  <2>4. NoBinding # [session |-> t, peer |-> q]
    BY DEF NoBinding, Instances
  <2>5. store'[t].peers[q].addrs[Family[c]] =
          IF t = s /\ q = p /\ Family[c] = Family[a] THEN a
          ELSE IF old # a /\ t = b.session /\ q = b.peer /\ Family[c] = Family[a] THEN None
          ELSE store[t].peers[q].addrs[Family[c]]
    BY <1>2, <2>3
  <2>6. [session |-> t, peer |-> q] = [session |-> s, peer |-> p] <=> t = s /\ q = p
    OBVIOUS
  <2>7. CASE c = a
    <3>1. CASE t = s /\ q = p
      BY <1>1, <1>4, <2>5, <2>7, <3>1
    <3>2. CASE ~ (t = s /\ q = p)
      <4>1. bindings'[c] # [session |-> t, peer |-> q]
        BY <1>4, <2>6, <2>7, <3>2
      <4>2. CASE t = b.session /\ q = b.peer
        <5>1. b = [session |-> t, peer |-> q]
          BY <1>7, <4>2
        <5>2. old # a
          <6> SUFFICES ASSUME old = a PROVE FALSE
            OBVIOUS
          <6>1. bindings[a] = [session |-> s, peer |-> p]
            BY <2>2 DEF old
          <6> QED
            BY <5>1, <6>1, <2>6, <3>2 DEF b
        <5> QED
          BY <2>3, <2>5, <2>7, <3>2, <4>1, <4>2, <5>2
      <4>3. CASE ~ (t = b.session /\ q = b.peer)
        <5>1. bindings[a] # [session |-> t, peer |-> q]
          BY <4>3 DEF b
        <5> QED
          BY <2>1, <2>5, <2>7, <3>2, <4>1, <4>3, <5>1
      <4> QED
        BY <4>2, <4>3
    <3> QED
      BY <3>1, <3>2
  <2>8. CASE c # a /\ old # a /\ c = old
    <3>1. bindings'[c] # [session |-> t, peer |-> q]
      BY <1>4, <2>4, <2>8
    <3>2. Family[c] = Family[a] /\ store[s].peers[p].addrs[Family[c]] = c
      BY <1>1, <1>6, <2>3, <2>8 DEF IInv, FamiliesAgree, old
    <3>3. bindings[c] = [session |-> s, peer |-> p]
      BY <2>2, <3>2
    <3> QED
      BY <2>1, <2>3, <2>5, <2>6, <2>8, <3>1, <3>2, <3>3
  <2>9. CASE c # a /\ ~ (old # a /\ c = old)
    <3>1. bindings'[c] = bindings[c]
      BY <1>4, <2>9
    <3>2. CASE t = s /\ q = p /\ Family[c] = Family[a]
      <4>1. old # c
        BY <2>9
      <4>2. bindings[c] # [session |-> t, peer |-> q]
        BY <2>2, <3>2, <4>1 DEF old
      <4> QED
        BY <2>5, <2>9, <3>1, <3>2, <4>2
    <3>3. CASE /\ ~ (t = s /\ q = p /\ Family[c] = Family[a])
               /\ old # a /\ t = b.session /\ q = b.peer /\ Family[c] = Family[a]
      <4>1. bindings[a] = [session |-> t, peer |-> q]
        BY <1>7, <3>3 DEF b
      <4>2. store[t].peers[q].addrs[Family[a]] = a
        BY <2>1, <4>1
      <4>3. bindings[c] # [session |-> t, peer |-> q]
        BY <2>1, <2>9, <3>3, <4>2
      <4> QED
        BY <2>3, <2>5, <3>1, <3>3, <4>3
    <3>4. CASE /\ ~ (t = s /\ q = p /\ Family[c] = Family[a])
               /\ ~ (old # a /\ t = b.session /\ q = b.peer /\ Family[c] = Family[a])
      BY <2>1, <2>5, <3>1, <3>4
    <3> QED
      BY <3>2, <3>3, <3>4
  <2> QED
    BY <2>7, <2>8, <2>9
<1>13. ActiveIsHeld'
  <2> SUFFICES ASSUME NEW t \in Registered, NEW q \in Slots
               PROVE  LET peer == store'[t].peers[q]
                      IN  /\ peer.active # None => \E f \in Families : peer.addrs[f] = peer.active
                          /\ peer.playing => peer.active # None
    BY <1>6 DEF ActiveIsHeld
  <2> DEFINE was == store[t].peers[q]
             is == store'[t].peers[q]
  <2>1. /\ was.active # None => \E f \in Families : was.addrs[f] = was.active
        /\ was.playing => was.active # None
    BY DEF IInv, ActiveIsHeld
  <2>2. t \in Instances
    BY <1>6
  <2>3. CASE t = s /\ q = p
    <3>1. \A f \in Families : is.addrs[f] = IF f = Family[a] THEN a ELSE was.addrs[f]
      BY <1>2, <2>2, <2>3, <1>7 DEF old
    <3>2. IF was.playing /\ ~ (old # a /\ old # None /\ was.active = old)
          THEN is.playing /\ is.active = was.active
          ELSE ~ is.playing /\ is.active = a
      BY <1>3, <2>2, <2>3
    <3>3. old = was.addrs[Family[a]]
      BY <2>3 DEF old
    <3> HIDE DEF was, is
    <3>4. CASE is.active = a
      BY <1>6, <3>1, <3>4 DEF is
    <3>5. CASE is.active # a
      <4>1. was.playing /\ is.active = was.active /\ was.active # None
        BY <2>1, <3>2, <3>5
      <4>2. PICK f \in Families : was.addrs[f] = was.active
        BY <2>1, <4>1
      <4>3. f # Family[a]
        BY <3>2, <3>3, <3>5, <4>1, <4>2
      <4> QED
        BY <3>1, <4>1, <4>2, <4>3 DEF is
    <3> QED
      BY <3>4, <3>5 DEF is
  <2>4. CASE ~ (t = s /\ q = p) /\ old # a /\ t = b.session /\ q = b.peer
    <3>1. \A f \in Families : is.addrs[f] = IF f = Family[a] THEN None ELSE was.addrs[f]
      BY <1>2, <2>2, <2>4
    <3>2. IF was.active = a THEN ~ is.playing /\ is.active = None
          ELSE (is.playing <=> was.playing) /\ is.active = was.active
      BY <1>3, <2>2, <2>4
    <3>3. was.addrs[Family[a]] = a
      BY <1>7, <2>2, <2>4, BoundIsHeld DEF b, IInv
    <3> HIDE DEF was, is
    <3>4. is.active # None => \E f \in Families : is.addrs[f] = is.active
      BY <2>1, <3>1, <3>2, <3>3
    <3>5. is.playing => is.active # None
      BY <2>1, <3>2
    <3> QED
      BY <3>4, <3>5 DEF is
  <2>5. CASE ~ (t = s /\ q = p) /\ ~ (old # a /\ t = b.session /\ q = b.peer)
    <3>1. \A f \in Families : is.addrs[f] = was.addrs[f]
      BY <1>2, <2>2, <2>5
    <3>2. (is.playing <=> was.playing) /\ is.active = was.active
      BY <1>3, <2>2, <2>5
    <3> HIDE DEF was, is
    <3>3. is.active # None => \E f \in Families : is.addrs[f] = is.active
      BY <2>1, <3>1, <3>2
    <3> QED
      BY <2>1, <3>2, <3>3 DEF is
  <2> QED
    BY <2>3, <2>4, <2>5
<1>14. ShownAgree'
  <2> SUFFICES ASSUME NEW t \in Registered, NEW q \in Slots, NEW f \in Families,
                      store'[t].peers[q].addrs[f] # None
               PROVE  store'[t].token \in shown'[store'[t].peers[q].addrs[f]]
    BY <1>6 DEF ShownAgree
  <2>1. /\ t \in Instances /\ store'[t].token = store[t].token
        /\ store[t].peers[q].addrs[f] \in Addrs \cup {None}
    BY <1>1, <1>6, StoreTypes
  <2>2. \A c \in Addrs : shown[c] \subseteq shown'[c] /\ token \in shown'[a]
    BY <1>5 DEF IInv, TypeOK
  <2>3. CASE store'[t].peers[q].addrs[f] = store[t].peers[q].addrs[f]
    BY <2>1, <2>2, <2>3 DEF IInv, ShownAgree
  <2>4. CASE t = s /\ q = p /\ f = Family[a]
    BY <1>1, <1>2, <2>1, <2>2, <2>4
  <2> QED
    BY <1>2, <2>1, <2>3, <2>4
<1> QED
  BY <1>8, <1>9, <1>10, <1>11, <1>12, <1>13, <1>14 DEF IInv

(* A game packet moves its sender's slot to the sending address, and that  *)
(* is all.                                                                 *)
LEMMA GgpoEffect ==
  ASSUME IInv, NEW a \in Addrs, NEW to \in Slots, HandleGgpo(a, to)
  PROVE  LET b == bindings[a]
         IN
         /\ b.session \in Registered /\ b.session \in Instances /\ b.peer \in Slots
         /\ store[b.session].peers[b.peer].addrs[Family[a]] = a
         /\ store' \in [Instances -> Sessions]
         /\ \A t \in Instances : /\ store'[t].id = store[t].id
                                 /\ store'[t].token = store[t].token
         /\ \A t \in Instances, q \in Slots :
              /\ store'[t].peers[q].addrs = store[t].peers[q].addrs
              /\ IF t = b.session /\ q = b.peer
                 THEN store'[t].peers[q].playing /\ store'[t].peers[q].active = a
                 ELSE store'[t].peers[q] = store[t].peers[q]
<1> DEFINE s == bindings[a].session
           p == bindings[a].peer
           peer == store[s].peers[p]
           placed == WithSlot(store, s, p, Played(peer, a))
           idle == IF Forward(a, to) = None THEN placed[s].idle ELSE 0
<1>1. /\ s \in Registered /\ s \in Instances /\ p \in Slots
      /\ bindings[a] = [session |-> s, peer |-> p]
  BY RegisteredMade DEF HandleGgpo, IInv, BoundToRegistered, TypeOK
<1>2. peer.addrs[Family[a]] = a
  BY <1>1, BoundIsHeld DEF IInv
<1>3. store \in [Instances -> Sessions] /\ peer \in Peers
  BY <1>1, StoreTypes DEF IInv, TypeOK
<1>4. store' = WithIdle(placed, s, idle)
  BY DEF HandleGgpo, WithIdle, WithSlot
<1> HIDE DEF s, p, peer
<1>5. /\ Played(peer, a) \in Peers /\ Played(peer, a).addrs = peer.addrs
      /\ Played(peer, a).active = a /\ Played(peer, a).playing
  BY <1>3 DEF Played, Peers
<1>6. /\ placed \in [Instances -> Sessions]
      /\ \A t \in Instances : placed[t].id = store[t].id /\ placed[t].token = store[t].token
      /\ \A t \in Instances, q \in Slots :
           placed[t].peers[q] = IF t = s /\ q = p THEN Played(peer, a)
                                ELSE store[t].peers[q]
  BY <1>1, <1>3, <1>5, SlotReplaced
<1> HIDE DEF placed
<1>7. idle \in Nat
  BY <1>1, <1>6 DEF Sessions
<1> HIDE DEF idle
<1>8. /\ store' \in [Instances -> Sessions]
      /\ \A t \in Instances : /\ store'[t].id = placed[t].id
                              /\ store'[t].token = placed[t].token
                              /\ store'[t].peers = placed[t].peers
  BY <1>1, <1>4, <1>6, <1>7, IdleReplaced
<1>9. \A t \in Instances, q \in Slots :
        /\ store'[t].peers[q].addrs = store[t].peers[q].addrs
        /\ IF t = s /\ q = p
           THEN store'[t].peers[q].playing /\ store'[t].peers[q].active = a
           ELSE store'[t].peers[q] = store[t].peers[q]
  BY <1>5, <1>6, <1>8 DEF peer
<1> QED
  BY <1>1, <1>2, <1>6, <1>8, <1>9 DEF s, p, peer

(* A game packet. *)
LEMMA HandleGgpoKeepsIInv ==
  ASSUME IInv, NEW a \in Addrs, NEW to \in Slots, HandleGgpo(a, to)
  PROVE  IInv'
<1> DEFINE s == bindings[a].session
           p == bindings[a].peer
<1>1. /\ s \in Registered /\ s \in Instances /\ p \in Slots
      /\ store[s].peers[p].addrs[Family[a]] = a
      /\ store' \in [Instances -> Sessions]
      /\ \A t \in Instances : store'[t].id = store[t].id /\ store'[t].token = store[t].token
  BY GgpoEffect
<1>2. \A t \in Instances, q \in Slots :
        /\ store'[t].peers[q].addrs = store[t].peers[q].addrs
        /\ IF t = s /\ q = p
           THEN store'[t].peers[q].playing /\ store'[t].peers[q].active = a
           ELSE store'[t].peers[q] = store[t].peers[q]
  BY GgpoEffect
<1> HIDE DEF s, p
<1>3. UNCHANGED <<made, sessions, bindings, issued, shown>>
  BY DEF HandleGgpo
<1>4. Registered' = Registered /\ Registered \subseteq Instances
  BY <1>3, RegisteredMade DEF Registered, IInv
<1>5. TypeOK'
  BY <1>1, <1>3 DEF IInv, TypeOK
<1>6. IdsAgree'
  BY <1>1, <1>3 DEF IInv, IdsAgree
<1>7. FamiliesAgree'
  BY <1>2, <1>4 DEF IInv, FamiliesAgree
<1>8. BoundToRegistered'
  BY <1>3, <1>4 DEF IInv, BoundToRegistered
<1>9. BindingsMatchSlots'
  <2> SUFFICES ASSUME NEW c \in Addrs, NEW t \in Instances, NEW q \in Slots
               PROVE  (bindings'[c] = [session |-> t, peer |-> q])
                        <=> (t \in Registered' /\ store'[t].peers[q].addrs[Family[c]] = c)
    BY DEF BindingsMatchSlots
  <2>1. (bindings[c] = [session |-> t, peer |-> q])
          <=> (t \in Registered /\ store[t].peers[q].addrs[Family[c]] = c)
    BY DEF IInv, BindingsMatchSlots
  <2> QED
    BY <1>2, <1>3, <1>4, <2>1
<1>10. ActiveIsHeld'
  <2> SUFFICES ASSUME NEW t \in Registered, NEW q \in Slots
               PROVE  LET peer == store'[t].peers[q]
                      IN  /\ peer.active # None => \E f \in Families : peer.addrs[f] = peer.active
                          /\ peer.playing => peer.active # None
    BY <1>4 DEF ActiveIsHeld
  <2>1. CASE t = s /\ q = p
    BY <1>1, <1>2, <2>1, RelayAssumption DEF Families
  <2>2. CASE ~ (t = s /\ q = p)
    BY <1>2, <1>4, <2>2 DEF IInv, ActiveIsHeld
  <2> QED
    BY <2>1, <2>2
<1>11. ShownAgree'
  BY <1>1, <1>2, <1>3, <1>4 DEF IInv, ShownAgree
<1> QED
  BY <1>5, <1>6, <1>7, <1>8, <1>9, <1>10, <1>11 DEF IInv

(* The removal of any set of stale sessions at once. *)
LEMMA RemoveStaleSessionsKeepsIInv ==
  ASSUME IInv, RemoveStaleSessions
  PROVE  IInv'
<1> DEFINE gone == {s \in Registered : Stale(s)}
<1>1. /\ bindings' = BindingsWithout(gone) /\ sessions' = SessionsWithout(gone)
      /\ store' = StoreWithout(gone) /\ shown' = ShownWithout(gone)
      /\ UNCHANGED <<made, issued>>
  BY DEF RemoveStaleSessions
<1>2. gone \subseteq Registered
  OBVIOUS
<1> HIDE DEF gone
<1>3. RemovesOnly(gone)
  BY <1>2, Removal
<1>4. /\ \A a \in Addrs : bindings'[a] = IF bindings[a].session \in gone THEN NoBinding
                                         ELSE bindings[a]
      /\ \A id \in Ids : sessions'[id] = IF sessions[id] \in gone THEN 0 ELSE sessions[id]
      /\ \A s \in Instances \ gone : store'[s] = store[s]
  BY <1>1, <1>3 DEF RemovesOnly
<1>5. Registered' = Registered \ gone /\ Registered \subseteq Instances
  BY <1>4, RegisteredMade DEF Registered, IInv
<1>6. TypeOK'
  <2>1. store' \in [Instances -> Sessions] /\ shown' \in [Addrs -> SUBSET Tokens]
    BY <1>1, <1>3 DEF RemovesOnly
  <2>2. sessions' \in [Ids -> 0 .. made]
    BY <1>1, <1>3, RelayAssumption DEF RemovesOnly, IInv, TypeOK
  <2>3. NoBinding \in [session : 0 .. made, peer : Slots \cup {0}]
    BY RelayAssumption DEF NoBinding, IInv, TypeOK
  <2>4. bindings' \in [Addrs -> [session : 0 .. made, peer : Slots \cup {0}]]
    BY <1>1, <1>3, <2>3 DEF RemovesOnly, IInv, TypeOK
  <2> QED
    BY <1>1, <2>1, <2>2, <2>4 DEF IInv, TypeOK
<1>7. IdsAgree'
  <2> SUFFICES ASSUME NEW i \in Ids, sessions'[i] # 0
               PROVE  LET s == sessions'[i]
                      IN  /\ s \in Instances /\ store'[s].id = i
                          /\ store'[s].token \in Tokens /\ IdOf[store'[s].token] = i
    BY DEF IdsAgree
  <2>1. sessions'[i] = sessions[i] /\ sessions[i] \notin gone
    BY <1>4
  <2> QED
    BY <1>4, <2>1 DEF IInv, IdsAgree
<1>8. FamiliesAgree'
  BY <1>4, <1>5 DEF IInv, FamiliesAgree
<1>9. BoundToRegistered'
  <2> SUFFICES ASSUME NEW a \in Addrs, bindings'[a] # NoBinding
               PROVE  bindings'[a].session \in Registered' /\ bindings'[a].peer \in Slots
    BY DEF BoundToRegistered
  <2> QED
    BY <1>4, <1>5 DEF IInv, BoundToRegistered
<1>10. BindingsMatchSlots'
  <2> SUFFICES ASSUME NEW a \in Addrs, NEW s \in Instances, NEW p \in Slots
               PROVE  (bindings'[a] = [session |-> s, peer |-> p])
                        <=> (s \in Registered' /\ store'[s].peers[p].addrs[Family[a]] = a)
    BY DEF BindingsMatchSlots
  <2>1. NoBinding # [session |-> s, peer |-> p]
    BY DEF NoBinding, Instances
  <2>2. (bindings[a] = [session |-> s, peer |-> p])
          <=> (s \in Registered /\ store[s].peers[p].addrs[Family[a]] = a)
    BY DEF IInv, BindingsMatchSlots
  <2>3. bindings[a] = [session |-> s, peer |-> p] => bindings[a].session = s
    OBVIOUS
  <2>4. CASE s \in gone
    BY <1>4, <1>5, <2>1, <2>3, <2>4
  <2>5. CASE s \notin gone
    BY <1>4, <1>5, <2>1, <2>2, <2>3, <2>5
  <2> QED
    BY <2>4, <2>5
<1>11. ActiveIsHeld'
  BY <1>4, <1>5 DEF IInv, ActiveIsHeld
<1>12. ShownAgree'
  <2> SUFFICES ASSUME NEW s \in Registered \ gone, NEW p \in Slots, NEW f \in Families,
                      store'[s].peers[p].addrs[f] # None
               PROVE  store'[s].token \in shown'[store'[s].peers[p].addrs[f]]
    BY <1>5 DEF ShownAgree
  <2>1. store'[s] = store[s] /\ store[s].peers[p].addrs[f] \in Addrs \cup {None}
    BY <1>4, <1>5, StoreTypes DEF IInv, TypeOK
  <2>2. store[s].token \in shown[store[s].peers[p].addrs[f]]
    BY <2>1 DEF IInv, ShownAgree
  <2> QED
    BY <1>1, <1>3, <2>1, <2>2 DEF RemovesOnly
<1> QED
  BY <1>6, <1>7, <1>8, <1>9, <1>10, <1>11, <1>12 DEF IInv

(* Time changes ages only. *)
LEMMA TickKeepsIInv ==
  ASSUME IInv, Tick
  PROVE  IInv'
<1>1. UNCHANGED <<made, sessions, bindings, issued, shown>>
  BY DEF Tick
<1>2. /\ store' \in [Instances -> Sessions]
      /\ \A t \in Instances : /\ store'[t].id = store[t].id
                              /\ store'[t].token = store[t].token
                              /\ store'[t].peers = store[t].peers
  <2>1. store \in [Instances -> Sessions]
    BY DEF IInv, TypeOK
  <2>2. ASSUME NEW t \in Instances
        PROVE  /\ store'[t] \in Sessions /\ store'[t].id = store[t].id
               /\ store'[t].token = store[t].token /\ store'[t].peers = store[t].peers
    <3> DEFINE i == IF store[t].idle <= IdleTimeout THEN store[t].idle + 1 ELSE store[t].idle
               n == IF store[t].age <= MaxLifetime THEN store[t].age + 1 ELSE store[t].age
    <3>1. store[t] \in Sessions /\ i \in Nat /\ n \in Nat
      BY <2>1, RelayAssumption DEF Sessions
    <3>2. store'[t] = [store[t] EXCEPT !.idle = i, !.age = n] \/ store'[t] = store[t]
      BY <3>1 DEF Tick, Sessions
    <3> HIDE DEF i, n
    <3> QED
      BY <3>1, <3>2 DEF Sessions
  <2>3. store' = [t \in Instances |-> store'[t]]
    BY DEF Tick
  <2> QED
    BY <2>2, <2>3
<1>3. Registered' = Registered /\ Registered \subseteq Instances
  BY <1>1, RegisteredMade DEF Registered, IInv
<1>4. TypeOK'
  BY <1>1, <1>2 DEF IInv, TypeOK
<1>5. IdsAgree'
  BY <1>1, <1>2 DEF IInv, IdsAgree
<1>6. FamiliesAgree' /\ ActiveIsHeld'
  BY <1>2, <1>3 DEF IInv, FamiliesAgree, ActiveIsHeld
<1>7. BoundToRegistered'
  BY <1>1, <1>3 DEF IInv, BoundToRegistered
<1>8. BindingsMatchSlots'
  <2> SUFFICES ASSUME NEW c \in Addrs, NEW t \in Instances, NEW q \in Slots
               PROVE  (bindings'[c] = [session |-> t, peer |-> q])
                        <=> (t \in Registered' /\ store'[t].peers[q].addrs[Family[c]] = c)
    BY DEF BindingsMatchSlots
  <2>1. (bindings[c] = [session |-> t, peer |-> q])
          <=> (t \in Registered /\ store[t].peers[q].addrs[Family[c]] = c)
    BY DEF IInv, BindingsMatchSlots
  <2> QED
    BY <1>1, <1>2, <1>3, <2>1
<1>9. ShownAgree'
  BY <1>1, <1>2, <1>3 DEF IInv, ShownAgree
<1> QED
  BY <1>4, <1>5, <1>6, <1>7, <1>8, <1>9 DEF IInv

-----------------------------------------------------------------------------
(* Every operation of the relay keeps IInv. *)
LEMMA NextIInv == IInv /\ [Next]_vars => IInv'
<1> SUFFICES ASSUME IInv, [Next]_vars PROVE IInv'
  OBVIOUS
<1>1. CASE UNCHANGED vars
  <2>1. UNCHANGED <<sessions, store, made, bindings, shown, issued>>
    BY <1>1 DEF vars
  <2>2. Registered' = Registered
    BY <2>1 DEF Registered
  <2>3. TypeOK' /\ IdsAgree' /\ FamiliesAgree'
    BY <2>1, <2>2 DEF IInv, TypeOK, IdsAgree, FamiliesAgree
  <2>4. BoundToRegistered' /\ BindingsMatchSlots'
    BY <2>1, <2>2 DEF IInv, BoundToRegistered, BindingsMatchSlots
  <2>5. ActiveIsHeld' /\ ShownAgree'
    BY <2>1, <2>2 DEF IInv, ActiveIsHeld, ShownAgree
  <2> QED
    BY <2>3, <2>4, <2>5 DEF IInv
<1>2. CASE \E id \in Ids : SessionToken(id)
  BY <1>2, SessionTokenKeepsIInv
<1>3. CASE \E id \in Ids, token \in Tokens : SetSessionToken(id, token)
  BY <1>3, SetSessionTokenKeepsIInv
<1>4. CASE \E a \in Addrs, id \in Ids, token \in Tokens, p \in Slots :
             HandlePing(a, id, token, p)
  BY <1>4, HandlePingKeepsIInv
<1>5. CASE \E a \in Addrs, to \in Slots : HandleGgpo(a, to)
  BY <1>5, HandleGgpoKeepsIInv
<1>6. CASE RemoveStaleSessions
  BY <1>6, RemoveStaleSessionsKeepsIInv
<1>7. CASE Tick
  BY <1>7, TickKeepsIInv
<1> QED
  BY <1>1, <1>2, <1>3, <1>4, <1>5, <1>6, <1>7 DEF Next, LobbyNext, Packets

(* The inductive invariant holds of every relay, the lobby's and a         *)
(* region's.                                                               *)
THEOREM InductiveInvariant == Spec => []IInv
<1>1. Init => IInv
  BY InitIInv
<1>2. IInv /\ [Next]_vars => IInv'
  BY NextIInv
<1> QED
  BY <1>1, <1>2, PTL DEF Spec

(* The state of the relay keeps its types. *)
THEOREM TypesHold == Spec => []TypeOK
<1>1. IInv => TypeOK
  BY DEF IInv
<1> QED
  BY <1>1, InductiveInvariant, PTL

(* byAddr and the slots agree after any sequence of pings, removals and    *)
(* registrations anew.                                                     *)
THEOREM BindingsMatch == Spec => []BindingsMatchSlots
<1>1. IInv => BindingsMatchSlots
  BY DEF IInv
<1> QED
  BY <1>1, InductiveInvariant, PTL

(* A slot sends to an address that it holds. *)
THEOREM ActiveHeld == Spec => []ActiveIsHeld
<1>1. IInv => ActiveIsHeld
  BY DEF IInv
<1> QED
  BY <1>1, InductiveInvariant, PTL

(* The relay passes packets between two different addresses only that both *)
(* know the token of one registered session.                               *)
THEOREM MembersOnly == Spec => []OnlyMembersRelay
<1>1. IInv => OnlyMembersRelay
  <2> SUFFICES ASSUME IInv, NEW a \in Addrs, NEW to \in Slots,
                      Forward(a, to) # None
               PROVE  LET dst == Forward(a, to)
                      IN  /\ dst # a
                          /\ \E s \in Registered :
                               /\ store[s].token \in shown[a] \cap shown[dst]
                               /\ {a, dst} \subseteq AddrsOf(s)
    BY DEF OnlyMembersRelay
  <2> DEFINE dst == Forward(a, to)
             s == bindings[a].session
             p == bindings[a].peer
  <2>1. bindings[a] # NoBinding /\ to # p /\ dst = store[s].peers[to].active
    BY DEF Forward
  <2>2. /\ s \in Registered /\ s \in Instances /\ p \in Slots
        /\ bindings[a] = [session |-> s, peer |-> p]
    BY <2>1, RegisteredMade DEF IInv, BoundToRegistered, TypeOK
  <2>3. store[s].peers[p].addrs[Family[a]] = a
    BY <2>2, BoundIsHeld DEF IInv
  <2>4. PICK f \in Families : store[s].peers[to].addrs[f] = dst
    BY <2>1, <2>2 DEF IInv, ActiveIsHeld
  <2>5. dst \in Addrs /\ Family[dst] = f
    BY <2>2, <2>4, StoreTypes DEF IInv, TypeOK, FamiliesAgree
  <2>6. dst # a
    <3> SUFFICES ASSUME dst = a PROVE FALSE
      OBVIOUS
    <3>1. bindings[a] = [session |-> s, peer |-> to]
      BY <2>2, <2>4, <2>5 DEF IInv, BindingsMatchSlots
    <3>2. [session |-> s, peer |-> to].peer = to
      OBVIOUS
    <3>3. bindings[a].peer = to
      BY <3>1, <3>2, SMT
    <3> QED
      BY <2>1, <3>3
  <2>7. Family[a] \in Families /\ a # None
    BY RelayAssumption DEF Families
  <2>8. {a, dst} \subseteq AddrsOf(s)
    <3> HIDE DEF dst, s
    <3>1. a \in {store[s].peers[q].addrs[g] : q \in Slots, g \in Families}
      BY <2>2, <2>3, <2>7
    <3>2. dst \in {store[s].peers[q].addrs[g] : q \in Slots, g \in Families}
      BY <2>4
    <3>3. dst # None
      BY <2>5, RelayAssumption
    <3> QED
      BY <2>7, <3>1, <3>2, <3>3 DEF AddrsOf
  <2>9. store[s].token \in shown[a] /\ store[s].token \in shown[dst]
    BY <2>2, <2>3, <2>4, <2>7 DEF IInv, ShownAgree
  <2> QED
    BY <2>2, <2>6, <2>8, <2>9
<1> QED
  BY <1>1, InductiveInvariant, PTL

-----------------------------------------------------------------------------
(* PlayingPathKept speaks of one slot of one session at a time. *)
PathKept(s, p) ==
  LET peer == store[s].peers[p]
      next == store'[s].peers[p]
  IN  peer.playing /\ (\E f \in Families : next.addrs[f] = peer.active)
        => /\ next.playing
           /\ next.active = peer.active
                \/ \E to \in Slots : HandleGgpo(next.active, to)

(* A ping leaves a playing slot's path alone, unless it takes the address. *)
LEMMA PingKeepsPath ==
  ASSUME IInv, NEW a \in Addrs, NEW id \in Ids, NEW token \in Tokens,
         NEW q \in Slots, HandlePing(a, id, token, q),
         NEW s \in Registered, NEW p \in Slots
  PROVE  PathKept(s, p)
<1> DEFINE peer == store[s].peers[p]
           next == store'[s].peers[p]
           t == sessions[id]
           old == store[t].peers[q].addrs[Family[a]]
           b == bindings[a]
<1>0. PingMoves(a, id, token, q)
  BY PingEffect
<1>1. SUFFICES ASSUME peer.playing, NEW f \in Families, next.addrs[f] = peer.active
               PROVE  next.playing /\ next.active = peer.active
  BY DEF PathKept
<1>2. s \in Instances /\ Family[a] \in Families /\ a # None
  BY RegisteredMade, RelayAssumption DEF IInv, Families
<1>3. next.addrs[f] = IF s = t /\ p = q /\ f = Family[a] THEN a
                      ELSE IF old # a /\ s = b.session /\ p = b.peer /\ f = Family[a] THEN None
                      ELSE peer.addrs[f]
  <2>1. \A i \in Instances, r \in Slots, g \in Families :
          store'[i].peers[r].addrs[g] =
            IF i = t /\ r = q /\ g = Family[a] THEN a
            ELSE IF old # a /\ i = b.session /\ r = b.peer /\ g = Family[a] THEN None
            ELSE store[i].peers[r].addrs[g]
    BY <1>0 DEF PingMoves
  <2> HIDE DEF t, old, b
  <2> QED
    BY <1>2, <2>1
<1>4. IF s = t /\ p = q
      THEN IF peer.playing /\ ~ (old # a /\ old # None /\ peer.active = old)
           THEN next.playing /\ next.active = peer.active
           ELSE ~ next.playing /\ next.active = a
      ELSE IF old # a /\ s = b.session /\ p = b.peer /\ peer.active = a
      THEN ~ next.playing /\ next.active = None
      ELSE (next.playing <=> peer.playing) /\ next.active = peer.active
  <2>1. \A i \in Instances, r \in Slots :
          LET was == store[i].peers[r]
              then == store'[i].peers[r]
          IN  IF i = t /\ r = q
              THEN LET freed == old # a /\ old # None /\ was.active = old
                   IN  IF was.playing /\ ~ freed
                       THEN then.playing /\ then.active = was.active
                       ELSE ~ then.playing /\ then.active = a
              ELSE IF old # a /\ i = b.session /\ r = b.peer /\ was.active = a
              THEN ~ then.playing /\ then.active = None
              ELSE (then.playing <=> was.playing) /\ then.active = was.active
    BY <1>0 DEF PingMoves
  <2> HIDE DEF t, old, b
  <2> QED
    BY <1>2, <2>1
<1>5. peer.active # None /\ \E g \in Families : peer.addrs[g] = peer.active
  BY <1>1 DEF IInv, ActiveIsHeld
<1>6. \A g \in Families : peer.addrs[g] = None \/ Family[peer.addrs[g]] = g
  BY DEF IInv, FamiliesAgree
<1>7. s = t /\ p = q => old = peer.addrs[Family[a]]
  OBVIOUS
<1> HIDE DEF peer, next, t, old, b
<1>8. ~ (s = t /\ p = q /\ old # a /\ old # None /\ peer.active = old)
  BY <1>1, <1>2, <1>3, <1>5, <1>6, <1>7
<1>9. ~ (~ (s = t /\ p = q) /\ old # a /\ s = b.session /\ p = b.peer /\ peer.active = a)
  BY <1>1, <1>2, <1>3, <1>5, <1>6
<1> QED
  BY <1>1, <1>4, <1>8, <1>9

(* While a player's address stays in its slot, no ping and no removal      *)
(* changes where packets for it go; only its own game packet does.         *)
THEOREM PathKeptAlways == Spec => PlayingPathKept
<1>1. IInv /\ [Next]_vars => [\A s \in Registered : \A p \in Slots : PathKept(s, p)]_vars
  <2> SUFFICES ASSUME IInv, Next, NEW s \in Registered, NEW p \in Slots
               PROVE  PathKept(s, p)
    OBVIOUS
  <2>1. store \in [Instances -> Sessions] /\ s \in Instances /\ s \in 1 .. made
    BY RegisteredMade DEF IInv, TypeOK
  <2>2. store'[s].peers = store[s].peers => PathKept(s, p)
    BY DEF PathKept
  <2>3. (\A q \in Slots, f \in Families : store'[s].peers[q].addrs[f] = None) => PathKept(s, p)
    BY DEF PathKept, IInv, ActiveIsHeld
  <2>4. ASSUME NEW gone, gone \subseteq Registered
        PROVE  \/ StoreWithout(gone)[s] = store[s]
               \/ StoreWithout(gone)[s] = NoSession
    BY <2>1 DEF StoreWithout
  <2>5. \A q \in Slots, f \in Families : NoSession.peers[q].addrs[f] = None
    BY DEF NoSession, Unbound
  <2>6. s # made + 1
    BY <2>1, RelayAssumption DEF IInv, TypeOK
  <2>7. CASE \E id \in Ids : SessionToken(id)
    BY <2>1, <2>2, <2>6, <2>7 DEF SessionToken
  <2>8. CASE \E id \in Ids, token \in Tokens : SetSessionToken(id, token)
    <3>1. PICK id \in Ids, token \in Tokens : SetSessionToken(id, token)
      BY <2>8
    <3>2. SessionOf(id) \subseteq Registered
      BY DEF SessionOf, Registered
    <3>3. store'[s] = StoreWithout(SessionOf(id))[s]
      BY <2>1, <2>6, <3>1 DEF SetSessionToken, SessionOf, StoreWithout
    <3> QED
      BY <2>2, <2>3, <2>4, <2>5, <3>2, <3>3
  <2>9. CASE \E a \in Addrs, id \in Ids, token \in Tokens, q \in Slots :
               HandlePing(a, id, token, q)
    BY <2>9, PingKeepsPath
  <2>10. CASE \E a \in Addrs, to \in Slots : HandleGgpo(a, to)
    <3>1. PICK a \in Addrs, to \in Slots : HandleGgpo(a, to)
      BY <2>10
    <3>2. IF s = bindings[a].session /\ p = bindings[a].peer
          THEN store'[s].peers[p].playing /\ store'[s].peers[p].active = a
          ELSE store'[s].peers[p] = store[s].peers[p]
      <4>1. \A t \in Instances, q \in Slots :
              IF t = bindings[a].session /\ q = bindings[a].peer
              THEN store'[t].peers[q].playing /\ store'[t].peers[q].active = a
              ELSE store'[t].peers[q] = store[t].peers[q]
        BY <3>1, GgpoEffect, SMTT(30)
      <4> QED
        BY <2>1, <4>1, SMTT(30)
    <3> QED
      BY <3>1, <3>2 DEF PathKept
  <2>11. CASE RemoveStaleSessions
    <3> DEFINE gone == {t \in Registered : Stale(t)}
    <3>1. store' = StoreWithout(gone) /\ gone \subseteq Registered
      BY <2>11 DEF RemoveStaleSessions
    <3> HIDE DEF gone
    <3> QED
      BY <2>2, <2>3, <2>4, <2>5, <3>1
  <2>12. CASE Tick
    <3>1. store'[s].peers = store[s].peers
      BY <2>1, <2>12 DEF Tick, Sessions
    <3> QED
      BY <2>2, <3>1
  <2> QED
    BY <2>7, <2>8, <2>9, <2>10, <2>11, <2>12 DEF Next, LobbyNext, Packets
<1>2. Spec => [][\A s \in Registered : \A p \in Slots : PathKept(s, p)]_vars
  BY <1>1, InductiveInvariant, PTL DEF Spec
<1> QED
  BY <1>2 DEF PlayingPathKept, PathKept

=============================================================================
