--------------------------- MODULE RecordsProofs ---------------------------
(***************************************************************************)
(* Proofs about records, totals, rankings and replays, for any users,      *)
(* battles, results and uploads.                                           *)
(***************************************************************************)
EXTENDS Records, SequenceTheorems, FiniteSetTheorems, WellFoundedInduction, TLAPS

Answered == [battle : Battles, result : Outcomes]
Handling == [user : Users, at : {"read", "written"}, row : Rows \cup {None}]
Reading == [board : Boards, page : Nat, of : SUBSET Users, read : Seq(Users), more : BOOLEAN]
UploadStates == {"idle", "writing", "conflict", "stored", "failed", "done"}

(* The types. *)
TypeOK ==
  /\ DOMAIN record = Battles
  /\ \A b \in Battles : record[b] \in [DOMAIN SideOf[b] -> Rows \cup {None}]
  /\ DOMAIN snapshot = Battles
  /\ \A b \in Battles : snapshot[b] \in Copies(b) \cup {None}
  /\ stored \in [Users -> AllTotals \cup {None}]
  /\ cache \in [Boards -> Ranked \cup {None}]
  /\ session \in [Users -> Battles \cup {0}]
  /\ peer \in [Users -> Peers \cup {None}]
  /\ client \in [Users -> Answered \cup {None}]
  /\ loop \in Handling \cup {None}
  /\ upload \in [Uploads -> [state : UploadStates, battle : Battles \cup {0}]]
  /\ files \subseteq Battles
  /\ walk \in Reading \cup {None}
  /\ owed \subseteq Users

(* Users come back from battles that they fought and that have their rows. *)
Fought(u, b) ==
  b \in Battles /\ u \in DOMAIN SideOf[b] /\ record[b][u] \in Rows /\ snapshot[b] \in Copies(b)
PlayersFought ==
  \A u \in Users :
    /\ session[u] # 0 => Fought(u, session[u])
    /\ peer[u] # None => peer[u].battle = 0 \/ Fought(u, peer[u].battle)
    /\ client[u] # None => Fought(u, client[u].battle)

(* Rows are made with their battle, and for users who are registered. *)
NotYetFought ==
  \A b \in Battles : snapshot[b] = None => \A u \in DOMAIN SideOf[b] : record[b][u] = None
NewUsers ==
  \A u \in Users : stored[u] = None =>
    peer[u] = None /\ \A b \in Battles : u \in DOMAIN SideOf[b] => record[b][u] = None

(* The handler of a result has a peer, and from the row to the totals no   *)
(* ranking is cached.                                                      *)
LoopFits ==
  loop # None =>
    /\ client[loop.user] # None /\ peer[loop.user] \in Peers
    /\ loop.at = "written" => loop.user \in owed /\ \A k \in Boards : cache[k] = None

(* A cached ranking holds registered users, each once. *)
CacheFits ==
  \A k \in Boards : cache[k] # None =>
    /\ IsInjective(cache[k].users) /\ Len(cache[k].counts) = Len(cache[k].users)
    /\ \A i \in DOMAIN cache[k].users : stored[cache[k].users[i]] # None

(* A reader has read a ranking that is still cached, up to its page. *)
Upto(page, n) == IF (page + 1) * PageSize <= n THEN (page + 1) * PageSize ELSE n
WalkFits ==
  walk # None =>
    LET users == cache[walk.board].users
    IN  /\ cache[walk.board] # None /\ walk.of = ToSet(users)
        /\ walk.read = SubSeq(users, 1, Upto(walk.page, Len(users)))
        /\ walk.more <=> walk.page < LastPage(Len(users))

(* Of the uploads of a battle one is taken; what is recorded is there. *)
Taken == {"stored", "done"}
OneTaken ==
  /\ \A g, h \in Uploads :
       upload[g].state \in Taken /\ upload[h].state \in Taken
         /\ upload[g].battle = upload[h].battle => g = h
  /\ \A h \in Uploads : upload[h].state # "idle" => upload[h].battle \in Battles
  /\ \A h \in Uploads : upload[h].state \in Taken => upload[h].battle \in files
UrlStored ==
  \A b \in Battles : \A u \in DOMAIN SideOf[b] :
    record[b][u] # None /\ record[b][u].url => b \in files

(* The inductive invariant. *)
IInv ==
  /\ TypeOK /\ PlayersFought /\ NotYetFought /\ NewUsers /\ LoopFits
  /\ CacheFits /\ WalkFits /\ OneTaken /\ UrlStored
  /\ TotalsRight /\ PagesShowCounts

-----------------------------------------------------------------------------
(* A non-empty set of natural numbers has a least element. *)
LEMMA LeastOf ==
  ASSUME NEW T \in SUBSET Nat, T # {}
  PROVE  \E n \in T : \A m \in T : n <= m
<1> DEFINE R == OpToRel(<, Nat)
<1>1. IsWellFoundedOn(R, Nat)
  BY NatLessThanWellFounded
<1>2. \E n \in T : \A m \in T : ~ (<<m, n>> \in R)
  <2> HIDE DEF R
  <2> QED BY <1>1, WFMin
<1>3. R = {ss \in Nat \X Nat : ss[1] < ss[2]}
  BY Zenon DEF OpToRel
<1> HIDE DEF R
<1>4. \A n, m \in T : m < n => <<m, n>> \in R
  BY <1>3
<1>5. PICK n \in T : \A m \in T : ~ (<<m, n>> \in R)
  BY <1>2
<1>6. \A m \in T : ~ (m < n)
  BY <1>4, <1>5
<1>7. \A m \in T : n <= m
  BY <1>6
<1> QED  BY <1>7

(* What a sum takes next, and the sums g[s] over subsets s of S. *)
One(s) == CHOOSE x \in s : TRUE
Sums(f, S, g) ==
  g = [s \in SUBSET S |-> IF s = {} THEN 0 ELSE f[One(s)] + g[s \ {One(s)}]]

(* A sum is one of those, if there are any. *)
LEMMA SumIs ==
  ASSUME NEW f, NEW S, \E g : Sums(f, S, g)
  PROVE  \E g : Sums(f, S, g) /\ SumFunctionOnSet(f, S) = g[S]
<1> DEFINE iter[s \in SUBSET S] ==
        IF s = {} THEN 0
        ELSE LET x == CHOOSE x \in s : TRUE
             IN  f[x] + iter[s \ {x}]
<1>1. SumFunctionOnSet(f, S) = iter[S]
  BY Zenon DEF SumFunctionOnSet, FoldFunctionOnSet, MapThenFoldSet
<1>2. iter = CHOOSE g : Sums(f, S, g)
  BY Zenon DEF Sums, One
<1> HIDE DEF iter
<1>3. Sums(f, S, iter)
  BY <1>2
<1> QED  BY <1>1, <1>3

(* What g[s] is to be. *)
Rec(f, s, g) == IF s = {} THEN 0 ELSE f[One(s)] + g[s \ {One(s)}]

(* Over a finite set there are. *)
LEMMA SumDefined ==
  ASSUME NEW f, NEW S, IsFiniteSet(S)
  PROVE  \E g : Sums(f, S, g)
<1> DEFINE Defined(n, g) == \A s \in SUBSET S : Cardinality(s) <= n => g[s] = Rec(f, s, g)
           T == {n \in Nat : ~ \E g : Defined(n, g)}
<1>1. \A s \in SUBSET S : /\ IsFiniteSet(s) /\ Cardinality(s) \in Nat /\ (Cardinality(s) = 0 <=> s = {})
                          /\ Cardinality(s) <= Cardinality(S)
  BY FS_Subset, FS_CardinalityType, FS_EmptySet
<1>2. \A s \in SUBSET S : s # {} => /\ One(s) \in s /\ s \ {One(s)} \in SUBSET S
                                    /\ Cardinality(s \ {One(s)}) = Cardinality(s) - 1
  <2> TAKE s \in SUBSET S
  <2> HAVE s # {}
  <2>1. One(s) \in s
    BY DEF One
  <2>2. Cardinality(s \ {One(s)}) = Cardinality(s) - 1
    BY <1>1, <2>1, FS_RemoveElement
  <2> QED  BY <2>1, <2>2
<1>3. T = {}
  <2> SUFFICES ASSUME T # {}  PROVE FALSE
    OBVIOUS
  <2>1. PICK n \in T : \A m \in T : n <= m
    BY LeastOf
  <2>2. CASE n = 0
    <3> DEFINE g == [s \in SUBSET S |-> 0]
    <3>1. Defined(0, g)
      BY <1>1 DEF Rec
    <3> QED  BY <2>1, <2>2, <3>1
  <2>3. CASE n # 0
    <3>1. n - 1 \in Nat /\ n - 1 \notin T
      BY <2>1, <2>3
    <3>2. PICK g : Defined(n - 1, g)
      BY <3>1
    <3> DEFINE h == [s \in SUBSET S |-> IF Cardinality(s) <= n - 1 THEN g[s] ELSE Rec(f, s, g)]
    <3>3. ASSUME NEW s \in SUBSET S, Cardinality(s) <= n  PROVE h[s] = Rec(f, s, h)
      <4>1. h[s] = Rec(f, s, g)
        BY <3>2
      <4>2. s # {} => h[s \ {One(s)}] = g[s \ {One(s)}]
        BY <1>1, <1>2, <2>1, <3>3
      <4> QED  BY <4>1, <4>2 DEF Rec
    <3>4. Defined(n, h)
      BY <3>3
    <3> QED  BY <2>1, <3>4
  <2> QED  BY <2>2, <2>3
<1>4. Cardinality(S) \in Nat
  BY <1>1
<1>5. PICK g : Defined(Cardinality(S), g)
  BY <1>3, <1>4
<1> DEFINE h == [s \in SUBSET S |-> g[s]]
<1>6. ASSUME NEW s \in SUBSET S  PROVE h[s] = Rec(f, s, h)
  <2>1. h[s] = Rec(f, s, g)
    BY <1>1, <1>5
  <2>2. s # {} => h[s \ {One(s)}] = g[s \ {One(s)}]
    BY <1>2
  <2> QED  BY <2>1, <2>2 DEF Rec
<1>7. h = [s \in SUBSET S |-> IF s = {} THEN 0 ELSE f[One(s)] + h[s \ {One(s)}]]
  BY <1>6 DEF Rec
<1> QED  BY <1>7 DEF Sums

(* The sum of natural numbers is one, and 0 if all of them are. *)
LEMMA SumOfNats ==
  ASSUME NEW S, IsFiniteSet(S), NEW f \in [S -> Nat]
  PROVE  /\ SumFunction(f) \in Nat
         /\ (\A x \in S : f[x] = 0) => SumFunction(f) = 0
<1>1. PICK g : Sums(f, S, g) /\ SumFunctionOnSet(f, S) = g[S]
  BY SumDefined, SumIs
<1> DEFINE Right(n) == n \in Nat /\ ((\A x \in S : f[x] = 0) => n = 0)
           Bad == {s \in SUBSET S : ~ Right(g[s])}
           T == {Cardinality(s) : s \in Bad}
<1>2. \A s \in SUBSET S : /\ IsFiniteSet(s) /\ Cardinality(s) \in Nat
  BY FS_Subset, FS_CardinalityType
<1>3. Bad = {}
  <2> SUFFICES ASSUME Bad # {}  PROVE FALSE
    OBVIOUS
  <2>1. T \in SUBSET Nat /\ T # {}
    BY <1>2
  <2>2. PICK s \in Bad : \A r \in Bad : Cardinality(s) <= Cardinality(r)
    <3>1. PICK n \in T : \A m \in T : n <= m
      <4> HIDE DEF T
      <4> QED  BY <2>1, LeastOf
    <3> QED  BY <3>1
  <2>3. s # {}
    BY <1>1 DEF Sums
  <2>4. One(s) \in s /\ s \ {One(s)} \in SUBSET S
    BY <2>3 DEF One
  <2>5. Cardinality(s \ {One(s)}) = Cardinality(s) - 1
    BY <1>2, <2>4, FS_RemoveElement
  <2>6. s \ {One(s)} \notin Bad
    BY <1>2, <2>2, <2>5
  <2>7. g[s] = f[One(s)] + g[s \ {One(s)}]
    BY <1>1, <2>3 DEF Sums
  <2>8. Right(g[s \ {One(s)}]) /\ f[One(s)] \in Nat /\ ((\A x \in S : f[x] = 0) => f[One(s)] = 0)
    BY <2>4, <2>6
  <2>9. Right(g[s])
    BY <2>7, <2>8
  <2> QED  BY <2>9
<1> QED  BY <1>1, <1>3 DEF SumFunction
-----------------------------------------------------------------------------
(* The constants, one by one. *)
LEMMA Constants ==
  /\ IsFiniteSet(Users) /\ IsFiniteSet(Battles) /\ Cardinality(Users) \in Nat
  /\ 0 \notin Battles /\ Results \subseteq Outcomes /\ PageSize \in Nat /\ PageSize > 0
  /\ None \notin Rows /\ None \notin AllTotals /\ None \notin Ranked /\ None \notin Peers
  /\ \A b \in Battles : None \notin Copies(b)
  /\ Counted \subseteq Battles /\ Emulated \subseteq Battles /\ Boards \subseteq Counts
  /\ Guests \subseteq Users /\ \A b \in Battles : DOMAIN SideOf[b] \subseteq Users
  BY RecordsAssumption, FS_CardinalityType

(* The result of a row that has none. *)
NoResult == [win |-> 0, kill |-> 0]
(* Points are natural numbers, one for each battle of the user that counts. *)
LEMMA PointsAre ==
  ASSUME NEW rs, NEW u, NEW k \in Counts,
         \A b \in Battles : u \in DOMAIN SideOf[b] => rs[b][u] \in Rows \cup {None}
  PROVE  LET S == {c \in Counted : u \in DOMAIN SideOf[c]}
         IN  IsFiniteSet(S) /\ Points(rs, u, k) \in [S -> Nat]
<1> DEFINE S == {c \in Counted : u \in DOMAIN SideOf[c]}
<1>1. IsFiniteSet(S)
  BY Constants, FS_Subset
<1>2. ASSUME NEW b \in S, rs[b][u] # None  PROVE rs[b][u].result[k[1]] \in Nat
  <2>1. rs[b][u].result \in Outcomes
    BY <1>2, Constants DEF Rows
  <2>2. k[1] \in {"win", "kill"}
    BY DEF Counts
  <2> QED  BY <2>1, <2>2 DEF Outcomes
<1> QED  BY <1>1, <1>2 DEF Points

(* Totals are natural numbers, and 0 without rows. *)
LEMMA TotalsTyped ==
  ASSUME NEW rs, NEW u,
         \A b \in Battles : u \in DOMAIN SideOf[b] => rs[b][u] \in Rows \cup {None}
  PROVE  /\ Totals(rs, u) \in AllTotals
         /\ (\A b \in Battles : u \in DOMAIN SideOf[b] => rs[b][u] = None) => Totals(rs, u) = NoTotals
<1> DEFINE S == {c \in Counted : u \in DOMAIN SideOf[c]}
<1>1. ASSUME NEW k \in Counts
      PROVE  /\ Total(rs, u, k) \in Nat
             /\ (\A b \in Battles : u \in DOMAIN SideOf[b] => rs[b][u] = None) => Total(rs, u, k) = 0
  <2>1. IsFiniteSet(S) /\ Points(rs, u, k) \in [S -> Nat]
    BY PointsAre
  <2>2. (\A b \in Battles : u \in DOMAIN SideOf[b] => rs[b][u] = None) =>
           \A b \in S : Points(rs, u, k)[b] = 0
    BY Constants DEF Points
  <2>3. PICK f \in [S -> Nat] : f = Points(rs, u, k)
    BY <2>1
  <2>4. SumFunction(f) \in Nat /\ ((\A b \in S : f[b] = 0) => SumFunction(f) = 0)
    BY <2>1, SumOfNats
  <2> QED  BY <2>2, <2>3, <2>4 DEF Total
<1> QED  BY <1>1 DEF Totals, AllTotals, NoTotals

(* The result in a row, or in no row. *)
ResultIn(row) == IF row = None THEN NoResult ELSE row.result
(* Totals depend on nothing but the results. *)
LEMMA TotalsSame ==
  ASSUME NEW rs, NEW qs, NEW u,
         \A b \in Battles : u \in DOMAIN SideOf[b] => ResultIn(rs[b][u]) = ResultIn(qs[b][u])
  PROVE  Totals(rs, u) = Totals(qs, u)
<1>1. ASSUME NEW k \in Counts  PROVE Points(rs, u, k) = Points(qs, u, k)
  <2>1. ASSUME NEW b \in Counted, u \in DOMAIN SideOf[b]
        PROVE  (IF rs[b][u] # None /\ k[2] \in {0, SideOf[b][u]} THEN rs[b][u].result[k[1]] ELSE 0)
                 = (IF qs[b][u] # None /\ k[2] \in {0, SideOf[b][u]} THEN qs[b][u].result[k[1]] ELSE 0)
    <3>1. ResultIn(rs[b][u]) = ResultIn(qs[b][u])
      BY <2>1, Constants
    <3>2. NoResult[k[1]] = 0
      BY DEF NoResult, Counts
    <3> QED  BY <3>1, <3>2 DEF ResultIn
  <2> QED  BY <2>1 DEF Points
<1> QED  BY <1>1 DEF Totals, Total

-----------------------------------------------------------------------------
(* What a step does to a row: it makes it, with its battle, or writes one  *)
(* of its columns.                                                         *)
RowGoesOn(b, u) ==
  LET row == record[b][u]
  IN  \/ record'[b][u] = row
      \/ /\ row = None /\ snapshot[b] = None /\ snapshot'[b] \in Copies(b)
         /\ stored[u] # None /\ record'[b][u] = NewRecord
      \/ /\ row # None
         /\ \/ /\ u \in owed'
               /\ \E result \in Outcomes : record'[b][u] = [row EXCEPT !.result = result]
            \/ b \in files /\ record'[b][u] = [row EXCEPT !.url = TRUE]
            \/ record'[b][u] = [row EXCEPT !.plays = @ + 1]
            \/ record'[b][u] = [row EXCEPT !.ms = TRUE]
RowsGoOn ==
  /\ DOMAIN record' = Battles
  /\ \A b \in Battles : /\ record'[b] = [u \in DOMAIN SideOf[b] |-> record'[b][u]]
                        /\ \A u \in DOMAIN SideOf[b] : RowGoesOn(b, u)

(* A write to all rows of a battle. *)
LEMMA OfBattleIs ==
  ASSUME TypeOK, NEW b \in Battles, NEW rowsAfter, OfBattle(b, rowsAfter)
  PROVE  /\ DOMAIN record' = Battles
         /\ \A c \in Battles : c # b => record'[c] = record[c]
         /\ record'[b] = [u \in DOMAIN SideOf[b] |-> IF record[b][u] = None THEN None ELSE rowsAfter[u]]
  BY DEF TypeOK, OfBattle

(* Rows that are not written go on. *)
LEMMA RowsStand ==
  ASSUME TypeOK, record' = record  PROVE RowsGoOn
  BY DEF TypeOK, RowsGoOn, RowGoesOn

(* No step takes a row away, or what is recorded in it. *)
LEMMA RowStep == IInv /\ [Next]_vars => RowsGoOn
<1> SUFFICES ASSUME IInv, [Next]_vars  PROVE RowsGoOn
  OBVIOUS
<1>0. TypeOK
  BY DEF IInv
<1>1. ASSUME NEW b \in Battles, AddBattleRecords(b)  PROVE RowsGoOn
  <2>1. /\ DOMAIN record' = Battles /\ \A c \in Battles : c # b => record'[c] = record[c]
        /\ record'[b] = [u \in DOMAIN SideOf[b] |-> NewRecord]
    BY <1>0, <1>1 DEF AddBattleRecords, TypeOK
  <2>2. snapshot[b] = None /\ \A u \in DOMAIN SideOf[b] : u \in Users /\ peer[u] # None
    BY <1>1, Constants DEF AddBattleRecords
  <2>3. \A u \in DOMAIN SideOf[b] : record[b][u] = None /\ stored[u] # None
    BY <2>2 DEF IInv, NotYetFought, NewUsers
  <2>4. snapshot'[b] = [u \in DOMAIN SideOf[b] |-> peer[u].totals]
    BY <1>0, <1>1 DEF AddBattleRecords, TypeOK
  <2>5. snapshot'[b] \in Copies(b)
    BY <1>0, <2>2, <2>4 DEF Copies, TypeOK, Peers
  <2>6. ASSUME NEW c \in Battles, c # b
        PROVE  /\ record'[c] = [u \in DOMAIN SideOf[c] |-> record'[c][u]]
               /\ \A u \in DOMAIN SideOf[c] : RowGoesOn(c, u)
    BY <1>0, <2>1, <2>6 DEF RowGoesOn, TypeOK
  <2>7. /\ record'[b] = [u \in DOMAIN SideOf[b] |-> record'[b][u]]
        /\ \A u \in DOMAIN SideOf[b] : RowGoesOn(b, u)
    BY <2>1, <2>2, <2>3, <2>5 DEF RowGoesOn
  <2> QED  BY <2>1, <2>6, <2>7 DEF RowsGoOn
<1>2. ASSUME NEW b \in Battles, NEW rowsAfter, OfBattle(b, rowsAfter),
             \/ b \in files /\ rowsAfter = [u \in DOMAIN record[b] |-> [record[b][u] EXCEPT !.url = TRUE]]
             \/ rowsAfter = [u \in DOMAIN record[b] |-> [record[b][u] EXCEPT !.plays = @ + 1]]
             \/ rowsAfter = [u \in DOMAIN record[b] |-> [record[b][u] EXCEPT !.ms = TRUE]]
      PROVE  RowsGoOn
  <2>1. /\ DOMAIN record' = Battles
        /\ \A c \in Battles : c # b => record'[c] = record[c]
        /\ record'[b] = [u \in DOMAIN SideOf[b] |-> IF record[b][u] = None THEN None ELSE rowsAfter[u]]
    BY <1>0, <1>2, OfBattleIs
  <2>2. DOMAIN record[b] = DOMAIN SideOf[b]
    BY <1>0 DEF TypeOK
  <2>3. ASSUME NEW c \in Battles, c # b
        PROVE  /\ record'[c] = [u \in DOMAIN SideOf[c] |-> record'[c][u]]
               /\ \A u \in DOMAIN SideOf[c] : RowGoesOn(c, u)
    BY <1>0, <2>1, <2>3 DEF RowGoesOn, TypeOK
  <2>4. ASSUME NEW u \in DOMAIN SideOf[b]  PROVE RowGoesOn(b, u)
    <3>1. record[b][u] = None => record'[b][u] = record[b][u]
      BY <2>1
    <3>2. record[b][u] # None => record'[b][u] = rowsAfter[u]
      BY <2>1
    <3>3. \/ b \in files /\ rowsAfter[u] = [record[b][u] EXCEPT !.url = TRUE]
          \/ rowsAfter[u] = [record[b][u] EXCEPT !.plays = @ + 1]
          \/ rowsAfter[u] = [record[b][u] EXCEPT !.ms = TRUE]
      BY <1>2, <2>2
    <3> QED  BY <3>1, <3>2, <3>3 DEF RowGoesOn
  <2>5. record'[b] = [u \in DOMAIN SideOf[b] |-> record'[b][u]]
    BY <2>1
  <2> QED  BY <2>1, <2>3, <2>4, <2>5 DEF RowsGoOn
<1>3. CASE UpdateBattleRecord
  <2>1. CASE record' = record
    BY <1>0, <2>1, RowsStand
  <2>2. CASE record' # record
    <3>1. PICK u \in Users, b \in Battles : u = loop.user /\ b = client[u].battle /\ Fought(u, b)
      BY <1>0, <1>3 DEF UpdateBattleRecord, IInv, LoopFits, PlayersFought, TypeOK, Handling, Fought
    <3>2. client[u].result \in Outcomes
      BY <1>0, <1>3, <3>1 DEF UpdateBattleRecord, IInv, LoopFits, TypeOK, Answered
    <3>3. /\ record' = [record EXCEPT ![b][u] = [record[b][u] EXCEPT !.result = client[u].result]]
          /\ u \in owed'
      BY <1>3, <2>2, <3>1 DEF UpdateBattleRecord, Written
    <3>4. u \in DOMAIN SideOf[b] /\ record[b][u] # None
      BY <3>1, Constants DEF Fought
    <3>5. DOMAIN record' = Battles /\ \A c \in Battles : record'[c] = [v \in DOMAIN SideOf[c] |-> record'[c][v]]
      BY <1>0, <3>3 DEF TypeOK
    <3>6. \A c \in Battles : \A v \in DOMAIN SideOf[c] : c # b \/ v # u => record'[c][v] = record[c][v]
      BY <1>0, <3>3 DEF TypeOK
    <3>7. record'[b][u] = [record[b][u] EXCEPT !.result = client[u].result]
      BY <1>0, <3>3, <3>4 DEF TypeOK
    <3>8. RowGoesOn(b, u)
      BY <3>2, <3>3, <3>4, <3>7 DEF RowGoesOn
    <3>9. ASSUME NEW c \in Battles, NEW v \in DOMAIN SideOf[c]  PROVE RowGoesOn(c, v)
      <4>1. CASE c = b /\ v = u
        BY <3>8, <4>1
      <4>2. CASE c # b \/ v # u
        <5>1. record'[c][v] = record[c][v]
          BY <3>6, <4>2
        <5> QED  BY <5>1 DEF RowGoesOn
      <4> QED  BY <4>1, <4>2
    <3> QED  BY <3>5, <3>9 DEF RowsGoOn
  <2> QED  BY <2>1, <2>2
<1>4. ASSUME NEW h \in Uploads, SetReplayURL(h)  PROVE RowsGoOn
  <2>1. CASE record' = record
    BY <1>0, <2>1, RowsStand
  <2>2. CASE record' # record
    <3>1. upload[h].battle \in Battles /\ upload[h].battle \in files
      BY <1>4 DEF SetReplayURL, IInv, OneTaken, Taken
    <3>2. \E rowsAfter : /\ OfBattle(upload[h].battle, rowsAfter)
                         /\ rowsAfter = [u \in DOMAIN record[upload[h].battle] |->
                                           [record[upload[h].battle][u] EXCEPT !.url = TRUE]]
      BY <1>4, <2>2 DEF SetReplayURL
    <3> QED  BY <1>2, <3>1, <3>2
  <2> QED  BY <2>1, <2>2
<1>5. ASSUME NEW b \in Emulated, IncrementReplayPlayCount(b)  PROVE RowsGoOn
  <2>1. \E rowsAfter : /\ OfBattle(b, rowsAfter)
                       /\ rowsAfter = [u \in DOMAIN record[b] |-> [record[b][u] EXCEPT !.plays = @ + 1]]
    BY <1>5 DEF IncrementReplayPlayCount
  <2> QED  BY <1>2, <2>1, Constants
<1>6. ASSUME NEW v \in Users, SaveUsedMs(v)  PROVE RowsGoOn
  <2>1. session[v] \in Battles
    BY <1>6, Constants DEF SaveUsedMs
  <2>2. \E rowsAfter : /\ OfBattle(session[v], rowsAfter)
                       /\ rowsAfter = [u \in DOMAIN record[session[v]] |->
                                         [record[session[v]][u] EXCEPT !.ms = TRUE]]
    BY <1>6 DEF SaveUsedMs
  <2> QED  BY <1>2, <2>1, <2>2
<1>7. CASE UNCHANGED vars
  BY <1>0, <1>7, RowsStand DEF vars, rows
<1>8. ASSUME NEW u \in Users \ Guests,
             OnDecideUserID(u) \/ UpdateUser(u) \/ OnUserGotoBattle(u) \/ Forget(u) \/ OnClose(u)
               \/ GetBattleRecordUser(u)
      PROVE  RowsGoOn
  BY <1>0, <1>8, RowsStand
     DEF OnDecideUserID, UpdateUser, OnUserGotoBattle, Forget, OnClose, GetBattleRecordUser, rows
<1>9. CASE CountTotals
  BY <1>0, <1>9, RowsStand DEF CountTotals
<1>10. ASSUME NEW k \in Boards, NEW page, GetRegurationData(k, page)  PROVE RowsGoOn
  BY <1>0, <1>10, RowsStand DEF GetRegurationData
<1>11. ASSUME NEW h \in Uploads, Put(h) \/ \E b \in Emulated : Attrs(h, b)  PROVE RowsGoOn
  BY <1>0, <1>11, RowsStand DEF Put, Attrs, rows
<1> QED  BY <1>1, <1>3, <1>4, <1>5, <1>6, <1>7, <1>8, <1>9, <1>10, <1>11 DEF Next

(* A row as a step leaves it. *)
LEMMA RowAfter ==
  ASSUME TypeOK, RowsGoOn, NEW b \in Battles, NEW u \in DOMAIN SideOf[b]
  PROVE  LET row == record[b][u]
             new == record'[b][u]
         IN  /\ new \in Rows \cup {None}
             /\ row # None => /\ new # None /\ (row.url => new.url) /\ (row.ms => new.ms)
                              /\ row.plays <= new.plays
                              /\ new.url /\ ~ row.url => b \in files
             /\ row = None /\ new # None => /\ snapshot[b] = None /\ snapshot'[b] \in Copies(b)
                                            /\ stored[u] # None /\ ~ new.url
             /\ u \notin owed' => ResultIn(new) = ResultIn(row)
<1> DEFINE row == record[b][u]
           new == record'[b][u]
<1>1. row \in Rows \cup {None} /\ RowGoesOn(b, u)
  BY DEF TypeOK, RowsGoOn
<1>2. CASE new = row
  <2>1. row # None => row.plays \in Nat /\ row.url \in BOOLEAN
    BY <1>1 DEF Rows
  <2> QED  BY <1>1, <1>2, <2>1
<1>3. CASE row = None /\ new = NewRecord
  <2>1. NewRecord \in Rows /\ NewRecord # None /\ ~ NewRecord.url /\ NewRecord.result = NoResult
    <3>1. NewRecord \in Rows /\ ~ NewRecord.url /\ NewRecord.result = NoResult
      BY DEF NewRecord, Rows, Outcomes, NoResult
    <3> QED  BY <3>1, Constants
  <2>2. snapshot[b] = None /\ snapshot'[b] \in Copies(b) /\ stored[u] # None
    BY <1>1, <1>3, <2>1 DEF RowGoesOn
  <2> QED  BY <1>3, <2>1, <2>2 DEF ResultIn
<1>4. ASSUME row # None, NEW result \in Outcomes, new = [row EXCEPT !.result = result], u \in owed'
      PROVE  new \in Rows /\ new.url = row.url /\ new.ms = row.ms /\ new.plays = row.plays
  BY <1>1, <1>4 DEF Rows
<1>5. ASSUME row # None, b \in files, new = [row EXCEPT !.url = TRUE]
      PROVE  new \in Rows /\ new.ms = row.ms /\ new.plays = row.plays /\ new.result = row.result /\ new.url
  BY <1>1, <1>5 DEF Rows
<1>6. ASSUME row # None, new = [row EXCEPT !.plays = @ + 1]
      PROVE  new \in Rows /\ new.url = row.url /\ new.ms = row.ms /\ new.plays = row.plays + 1
            /\ new.result = row.result
  BY <1>1, <1>6 DEF Rows
<1>7. ASSUME row # None, new = [row EXCEPT !.ms = TRUE]
      PROVE  new \in Rows /\ new.url = row.url /\ new.ms /\ new.plays = row.plays /\ new.result = row.result
  BY <1>1, <1>7 DEF Rows
<1>8. row # None => row.plays \in Nat /\ row \in Rows
  BY <1>1 DEF Rows
<1>9. None \notin Rows
  BY Constants
<1> HIDE DEF row, new
<1>10. CASE row # None /\ new # row
  <2>1. \/ /\ u \in owed'
           /\ \E result \in Outcomes : new = [row EXCEPT !.result = result]
        \/ b \in files /\ new = [row EXCEPT !.url = TRUE]
        \/ new = [row EXCEPT !.plays = @ + 1]
        \/ new = [row EXCEPT !.ms = TRUE]
    BY <1>1, <1>10 DEF RowGoesOn, row, new
  <2>2. \/ u \in owed' /\ new \in Rows /\ new.url = row.url /\ new.ms = row.ms /\ new.plays = row.plays
        \/ /\ b \in files /\ new \in Rows /\ new.ms = row.ms /\ new.plays = row.plays /\ new.url
           /\ new.result = row.result
        \/ /\ new \in Rows /\ new.url = row.url /\ new.ms = row.ms /\ new.plays = row.plays + 1
           /\ new.result = row.result
        \/ /\ new \in Rows /\ new.url = row.url /\ new.ms /\ new.plays = row.plays
           /\ new.result = row.result
    BY <1>4, <1>5, <1>6, <1>7, <1>10, <2>1
  <2>3. new \in Rows /\ new # None
    BY <1>9, <2>2
  <2>4. (row.url => new.url) /\ (row.ms => new.ms) /\ (new.url /\ ~ row.url => b \in files)
    BY <2>2
  <2>5. row.plays <= new.plays
    BY <1>8, <1>10, <2>2
  <2>6. u \notin owed' => ResultIn(new) = ResultIn(row)
    BY <1>10, <2>2, <2>3 DEF ResultIn
  <2> QED  BY <1>10, <2>3, <2>4, <2>5, <2>6 DEF row, new
<1>11. row = None /\ new # row => new = NewRecord
  BY <1>1 DEF RowGoesOn, row, new
<1>12. CASE row = new
  BY <1>2, <1>12 DEF row, new
<1>13. CASE row = None /\ new # row
  BY <1>3, <1>11, <1>13 DEF row, new
<1> QED  BY <1>10, <1>12, <1>13

-----------------------------------------------------------------------------
(* What a battle copied of its users stays. *)
LEMMA SnapshotStep ==
  ASSUME IInv, [Next]_vars
  PROVE  /\ DOMAIN snapshot' = Battles
         /\ \A b \in Battles : snapshot'[b] \in Copies(b) \cup {None}
         /\ \A b \in Battles : snapshot[b] # None => snapshot'[b] = snapshot[b]
<1>0. TypeOK
  BY DEF IInv
<1>1. ASSUME NEW c \in Battles, AddBattleRecords(c)
      PROVE  /\ DOMAIN snapshot' = Battles
             /\ \A b \in Battles : b # c => snapshot'[b] = snapshot[b]
             /\ snapshot[c] = None /\ snapshot'[c] \in Copies(c)
  <2>1. \A u \in DOMAIN SideOf[c] : u \in Users /\ peer[u] # None
    BY <1>1, Constants DEF AddBattleRecords
  <2>2. snapshot' = [snapshot EXCEPT ![c] = [u \in DOMAIN SideOf[c] |-> peer[u].totals]]
    BY <1>1 DEF AddBattleRecords
  <2>3. [u \in DOMAIN SideOf[c] |-> peer[u].totals] \in Copies(c)
    BY <1>0, <2>1 DEF TypeOK, Peers, Copies
  <2>4. snapshot[c] = None
    BY <1>1 DEF AddBattleRecords
  <2> QED  BY <1>0, <2>2, <2>3, <2>4 DEF TypeOK
<1>2. ASSUME snapshot' = snapshot
      PROVE  /\ DOMAIN snapshot' = Battles
             /\ \A b \in Battles : snapshot'[b] \in Copies(b) \cup {None}
             /\ \A b \in Battles : snapshot[b] # None => snapshot'[b] = snapshot[b]
  BY <1>0, <1>2 DEF TypeOK
<1>3. ASSUME \E c \in Battles : AddBattleRecords(c)
      PROVE  /\ DOMAIN snapshot' = Battles
             /\ \A b \in Battles : snapshot'[b] \in Copies(b) \cup {None}
             /\ \A b \in Battles : snapshot[b] # None => snapshot'[b] = snapshot[b]
  BY <1>0, <1>1, <1>3 DEF TypeOK
<1>4. (\E c \in Battles : AddBattleRecords(c)) \/ snapshot' = snapshot
  BY DEF Next, vars, mem, IncrementReplayPlayCount, OnDecideUserID, UpdateUser, OnUserGotoBattle,
         Forget, OnClose, GetBattleRecordUser, SaveUsedMs, UpdateBattleRecord, CountTotals,
         GetRegurationData, Put, SetReplayURL, Attrs
<1> QED  BY <1>2, <1>3, <1>4

(* A battle that was fought stays one. *)
LEMMA FoughtStays ==
  ASSUME IInv, [Next]_vars, NEW u, NEW b, Fought(u, b)
  PROVE  Fought(u, b)'
<1>1. b \in Battles /\ u \in DOMAIN SideOf[b] /\ record[b][u] # None /\ snapshot[b] # None
  BY Constants DEF Fought
<1>2. record'[b][u] \in Rows
  BY <1>1, RowStep, RowAfter DEF IInv
<1>3. snapshot'[b] \in Copies(b)
  BY <1>1, SnapshotStep DEF Fought
<1> QED  BY <1>1, <1>2, <1>3 DEF Fought

(* What a user has at its login are totals. *)
LEMMA LoginTotals ==
  ASSUME IInv, NEW u \in Users
  PROVE  TotalsAtLogin(u) \in AllTotals
<1>1. NoTotals \in AllTotals
  BY DEF NoTotals, AllTotals
<1>2. CASE Remembered(u)
  <2>1. Fought(u, session[u])
    BY <1>2 DEF IInv, PlayersFought, Remembered
  <2>2. snapshot[session[u]][u] \in AllTotals
    BY <2>1 DEF Fought, Copies
  <2> QED  BY <1>2, <2>2 DEF TotalsAtLogin
<1>3. CASE ~ Remembered(u)
  BY <1>1, <1>3 DEF TotalsAtLogin, IInv, TypeOK
<1> QED  BY <1>2, <1>3

(* The handler of a result, as it counts: either part of the totals is     *)
(* done, or all of them and they are written.                              *)
LEMMA Counting ==
  ASSUME IInv, CountTotals
  PROVE  \E u \in Users, t \in AllTotals :
           /\ u = loop.user /\ u \in owed /\ \A k \in Boards : cache[k] = None
           /\ peer[u] \in Peers /\ peer' = [peer EXCEPT ![u] = [peer[u] EXCEPT !.totals = t]]
           /\ \/ stored' = stored /\ owed' = owed
              \/ t = Totals(record, u) /\ stored' = [stored EXCEPT ![u] = t] /\ owed' = owed \ {u}
<1>1. TypeOK
  BY DEF IInv
<1>2. loop # None /\ loop.at = "written"
  BY DEF CountTotals
<1>3. PICK u \in Users : u = loop.user
  BY <1>1, <1>2 DEF TypeOK, Handling
<1>4. u \in owed /\ peer[u] \in Peers /\ \A k \in Boards : cache[k] = None
  BY <1>2, <1>3 DEF IInv, LoopFits
<1>5. Totals(record, u) \in AllTotals
  BY <1>1, TotalsTyped DEF TypeOK
<1>6. PICK n \in 0 .. 3, saved \in BOOLEAN :
        /\ saved => n = 3
        /\ peer' = [peer EXCEPT ![u].totals =
                      [k \in Counts |-> IF k[2] < n THEN TotalsAfter(u)[k] ELSE @[k]]]
        /\ stored' = IF saved THEN [stored EXCEPT ![u] = peer'[u].totals] ELSE stored
        /\ owed' = IF saved THEN owed \ {u} ELSE owed
  BY <1>3 DEF CountTotals
<1>7. PICK t : t = [k \in Counts |-> IF k[2] < n THEN Totals(record, u)[k] ELSE peer[u].totals[k]]
  OBVIOUS
<1>8. peer[u].totals \in AllTotals
  BY <1>4 DEF Peers
<1>9. t \in AllTotals
  BY <1>5, <1>7, <1>8 DEF AllTotals
<1>10. peer' = [peer EXCEPT ![u] = [peer[u] EXCEPT !.totals = t]]
  BY <1>1, <1>6, <1>7 DEF TotalsAfter, TypeOK
<1>11. peer'[u].totals = t
  BY <1>1, <1>4, <1>10 DEF TypeOK, Peers
<1>12. n = 3 => t = Totals(record, u)
  <2> SUFFICES ASSUME n = 3  PROVE t = Totals(record, u)
    OBVIOUS
  <2>1. \A k \in Counts : k[2] < 3
    BY DEF Counts
  <2> QED  BY <1>5, <1>7, <2>1 DEF AllTotals
<1> QED  BY <1>3, <1>4, <1>6, <1>9, <1>10, <1>11, <1>12

(* A row of a user stays. *)
LEMMA StoredStep ==
  ASSUME IInv, [Next]_vars
  PROVE  /\ stored' \in [Users -> AllTotals \cup {None}]
         /\ \A u \in Users : stored[u] # None => stored'[u] # None
<1>1. TypeOK /\ None \notin AllTotals
  BY Constants DEF IInv
<1>2. ASSUME NEW u \in Users, OnDecideUserID(u)
      PROVE  stored' = [stored EXCEPT ![u] = TotalsAtLogin(u)] /\ TotalsAtLogin(u) \in AllTotals
  BY <1>2, LoginTotals DEF OnDecideUserID
<1>3. ASSUME NEW u \in Users, UpdateUser(u)
      PROVE  stored' = [stored EXCEPT ![u] = peer[u].totals] /\ peer[u].totals \in AllTotals
  BY <1>1, <1>3 DEF UpdateUser, TypeOK, Peers
<1>4. ASSUME CountTotals
      PROVE  stored' = stored \/ \E u \in Users, t \in AllTotals : stored' = [stored EXCEPT ![u] = t]
  BY <1>4, Counting
<1>5. stored' = stored \/ \E u \in Users, t \in AllTotals : stored' = [stored EXCEPT ![u] = t]
  BY <1>2, <1>3, <1>4, Constants
     DEF Next, vars, rows, AddBattleRecords, IncrementReplayPlayCount, OnUserGotoBattle,
         Forget, OnClose, GetBattleRecordUser, SaveUsedMs, UpdateBattleRecord,
         GetRegurationData, Put, SetReplayURL, Attrs
<1> QED  BY <1>1, <1>5 DEF TypeOK

(* Who is logged in has a row, and fought the battle it is in. *)
PeerFits(p, u) ==
  p # None => p \in Peers /\ stored[u] # None /\ (p.battle = 0 \/ Fought(u, p.battle))
(* Peers stay those of users with a row, in battles that they fought. *)
LEMMA PeerStep ==
  ASSUME IInv, [Next]_vars
  PROVE  peer' = [u \in Users |-> peer'[u]] /\ \A u \in Users : PeerFits(peer[u], u)'
<1>1. TypeOK /\ None \notin AllTotals
  BY Constants DEF IInv
<1>2. \A u \in Users : PeerFits(peer[u], u)
  BY <1>1 DEF PeerFits, IInv, NewUsers, PlayersFought, TypeOK
<1>3. \A u \in Users : /\ stored[u] # None => stored'[u] # None
                        /\ \A b : Fought(u, b) => Fought(u, b)'
  BY StoredStep, FoughtStays
<1>4. ASSUME NEW u \in Users, peer'[u] = peer[u]  PROVE PeerFits(peer[u], u)'
  BY <1>2, <1>3, <1>4 DEF PeerFits
<1>5. ASSUME NEW u \in Users, peer'[u] = None  PROVE PeerFits(peer[u], u)'
  BY <1>5 DEF PeerFits
<1>6. ASSUME NEW u \in Users, peer[u] # None, peer'[u] \in Peers, peer'[u].battle = peer[u].battle
      PROVE  PeerFits(peer[u], u)'
  BY <1>2, <1>3, <1>6 DEF PeerFits
<1>7. CASE peer' = peer
  BY <1>1, <1>4, <1>7 DEF TypeOK
<1>8. ASSUME NEW v \in Users, peer' = [peer EXCEPT ![v] = None]
      PROVE  peer' = [u \in Users |-> peer'[u]] /\ \A u \in Users : PeerFits(peer[u], u)'
  <2>1. \A u \in Users : peer'[u] = peer[u] \/ peer'[u] = None
    BY <1>1, <1>8 DEF TypeOK
  <2>2. peer' = [u \in Users |-> peer'[u]]
    BY <1>1, <1>8 DEF TypeOK
  <2> QED  BY <1>4, <1>5, <2>1, <2>2
<1>9. ASSUME NEW v \in Users, peer[v] # None, NEW q \in Peers, q.battle = peer[v].battle,
             peer' = [peer EXCEPT ![v] = q]
      PROVE  peer' = [u \in Users |-> peer'[u]] /\ \A u \in Users : PeerFits(peer[u], u)'
  <2>1. peer'[v] = q /\ \A u \in Users : u # v => peer'[u] = peer[u]
    BY <1>1, <1>9 DEF TypeOK
  <2>2. peer' = [u \in Users |-> peer'[u]]
    BY <1>1, <1>9 DEF TypeOK
  <2> QED  BY <1>4, <1>6, <1>9, <2>1, <2>2
<1>10. ASSUME NEW v \in Users, OnDecideUserID(v)
       PROVE  peer' = [u \in Users |-> peer'[u]] /\ \A u \in Users : PeerFits(peer[u], u)'
  <2>1. PICK t \in AllTotals : t = TotalsAtLogin(v)
    BY LoginTotals
  <2>2. peer' = [peer EXCEPT ![v] = [totals |-> t, battle |-> 0, asked |-> TRUE]]
    BY <1>10, <2>1 DEF OnDecideUserID
  <2>3. stored'[v] = t
    BY <1>1, <1>10, <2>1 DEF OnDecideUserID, TypeOK
  <2>4. peer'[v] \in Peers /\ peer'[v].battle = 0 /\ \A u \in Users : u # v => peer'[u] = peer[u]
    BY <1>1, <2>2 DEF TypeOK, Peers
  <2>5. peer' = [u \in Users |-> peer'[u]]
    BY <1>1, <2>2 DEF TypeOK
  <2>6. PeerFits(peer[v], v)'
    BY <1>1, <2>3, <2>4 DEF PeerFits
  <2> QED  BY <1>4, <2>4, <2>5, <2>6
<1>11. ASSUME NEW b \in Battles, AddBattleRecords(b)
       PROVE  peer' = [u \in Users |-> peer'[u]] /\ \A u \in Users : PeerFits(peer[u], u)'
  <2>1. peer' = [u \in Users |-> IF u \in DOMAIN SideOf[b]
                                 THEN [peer[u] EXCEPT !.battle = b] ELSE peer[u]]
    BY <1>11 DEF AddBattleRecords
  <2>2. ASSUME NEW u \in DOMAIN SideOf[b], u \in Users  PROVE PeerFits(peer[u], u)'
    <3>1. peer[u] # None /\ peer[u] \in Peers
      BY <1>1, <1>11, <2>2 DEF AddBattleRecords, TypeOK
    <3>2. peer'[u] \in Peers /\ peer'[u].battle = b
      BY <2>1, <2>2, <3>1 DEF Peers
    <3>3. record'[b][u] \in Rows
      <4>1. record'[b][u] = NewRecord
        BY <1>1, <1>11, <2>2 DEF AddBattleRecords, TypeOK
      <4>2. NewRecord \in Rows
        BY DEF NewRecord, Rows, Outcomes
      <4> QED  BY <4>1, <4>2
    <3>4. snapshot'[b] \in Copies(b)
      <4>1. snapshot' = [snapshot EXCEPT ![b] = [v \in DOMAIN SideOf[b] |-> peer[v].totals]]
        BY <1>11 DEF AddBattleRecords
      <4>2. \A v \in DOMAIN SideOf[b] : v \in Users /\ peer[v] # None
        BY <1>11, Constants DEF AddBattleRecords
      <4>3. \A v \in DOMAIN SideOf[b] : peer[v].totals \in AllTotals
        BY <1>1, <4>2 DEF TypeOK, Peers
      <4> QED  BY <1>1, <4>1, <4>3 DEF TypeOK, Copies
    <3>5. Fought(u, b)'
      BY <2>2, <3>3, <3>4 DEF Fought
    <3>6. stored'[u] # None
      BY <1>2, <1>3, <2>2, <3>1 DEF PeerFits
    <3> QED  BY <3>2, <3>5, <3>6 DEF PeerFits
  <2>3. \A u \in Users : u \notin DOMAIN SideOf[b] => peer'[u] = peer[u]
    BY <2>1
  <2>4. peer' = [u \in Users |-> peer'[u]]
    BY <2>1
  <2> QED  BY <1>4, <2>2, <2>3, <2>4
<1>12. ASSUME NEW v \in Users, GetBattleRecordUser(v)
       PROVE  peer' = [u \in Users |-> peer'[u]] /\ \A u \in Users : PeerFits(peer[u], u)'
  <2>1. peer[v] # None /\ peer[v] \in Peers
    BY <1>1, <1>12 DEF GetBattleRecordUser, TypeOK
  <2>2. PICK q : q = [peer[v] EXCEPT !.asked = FALSE]
    OBVIOUS
  <2>3. peer' = [peer EXCEPT ![v] = q] /\ q \in Peers /\ q.battle = peer[v].battle
    BY <1>12, <2>1, <2>2 DEF GetBattleRecordUser, Peers
  <2> QED  BY <1>9, <2>1, <2>3
<1>13. ASSUME CountTotals
       PROVE  peer' = [u \in Users |-> peer'[u]] /\ \A u \in Users : PeerFits(peer[u], u)'
  <2>1. PICK v \in Users, t \in AllTotals :
          peer[v] \in Peers /\ peer' = [peer EXCEPT ![v] = [peer[v] EXCEPT !.totals = t]]
    BY <1>13, Counting
  <2>2. PICK q : q = [peer[v] EXCEPT !.totals = t]
    OBVIOUS
  <2>3. peer' = [peer EXCEPT ![v] = q] /\ q \in Peers /\ q.battle = peer[v].battle
    BY <2>1, <2>2 DEF Peers
  <2> QED  BY <1>9, <2>1, <2>3, Constants
<1>14. ASSUME NEW v \in Users, OnUserGotoBattle(v) \/ OnClose(v)
       PROVE  peer' = [peer EXCEPT ![v] = None]
  BY <1>14 DEF OnUserGotoBattle, OnClose
<1>15. \/ peer' = peer
       \/ \E v \in Users : \/ OnUserGotoBattle(v) \/ OnClose(v) \/ OnDecideUserID(v)
                           \/ GetBattleRecordUser(v)
       \/ CountTotals \/ \E b \in Battles : AddBattleRecords(b)
  BY Constants DEF Next, vars, mem, IncrementReplayPlayCount, UpdateUser,
         Forget, SaveUsedMs, UpdateBattleRecord, GetRegurationData, Put, SetReplayURL, Attrs
<1> QED  BY <1>7, <1>8, <1>10, <1>11, <1>12, <1>13, <1>14, <1>15

-----------------------------------------------------------------------------
(* A session and a client keep the battle that they came back from. *)
LEMMA PlayerStep ==
  ASSUME IInv, [Next]_vars
  PROVE  /\ session' \in [Users -> Battles \cup {0}]
         /\ client' \in [Users -> Answered \cup {None}]
         /\ PlayersFought'
<1>1. TypeOK /\ 0 \notin Battles
  BY Constants DEF IInv
<1>2. \A u \in Users : \A b : Fought(u, b) => Fought(u, b)'
  BY FoughtStays
<1>3. \A u \in Users : (peer[u] # None => peer[u].battle = 0 \/ Fought(u, peer[u].battle))'
  BY PeerStep DEF PeerFits
<1>4. CASE session' = session /\ client' = client
  <2>1. \A u \in Users : /\ (session[u] # 0 => Fought(u, session[u]))'
                         /\ (client[u] # None => Fought(u, client[u].battle))'
    BY <1>2, <1>4 DEF IInv, PlayersFought, Fought
  <2> QED  BY <1>1, <1>3, <1>4, <2>1 DEF PlayersFought, TypeOK
<1>5. ASSUME NEW v \in Users, Forget(v)
      PROVE  /\ session' \in [Users -> Battles \cup {0}]
             /\ client' \in [Users -> Answered \cup {None}]
             /\ PlayersFought'
  <2>1. session' = [session EXCEPT ![v] = 0] /\ client' = client
    BY <1>5 DEF Forget
  <2>2. \A u \in Users : session'[u] # 0 => session'[u] = session[u]
    BY <1>1, <2>1 DEF TypeOK
  <2>3. \A u \in Users : /\ (session[u] # 0 => Fought(u, session[u]))'
                         /\ (client[u] # None => Fought(u, client[u].battle))'
    BY <1>2, <2>1, <2>2 DEF IInv, PlayersFought, Fought
  <2> QED  BY <1>1, <1>3, <2>1, <2>3 DEF PlayersFought, TypeOK
<1>6. ASSUME NEW v \in Users, OnUserGotoBattle(v)
      PROVE  /\ session' \in [Users -> Battles \cup {0}]
             /\ client' \in [Users -> Answered \cup {None}]
             /\ PlayersFought'
  <2>t. session \in [Users -> Battles \cup {0}] /\ client \in [Users -> Answered \cup {None}]
    BY <1>1 DEF TypeOK
  <2>1. PICK b : b = peer[v].battle
    OBVIOUS
  <2>2. b \in Battles /\ Fought(v, b)'
    <3>1. Fought(v, b)
      BY <1>6, <2>1 DEF OnUserGotoBattle, IInv, PlayersFought
    <3> QED  BY <1>2, <3>1 DEF Fought
  <2>3. session' = [session EXCEPT ![v] = b]
    BY <1>6, <2>1 DEF OnUserGotoBattle
  <2>4. PICK c \in Answered \cup {None} :
          /\ client' = [client EXCEPT ![v] = c]
          /\ c # None => c.battle = b
    <3>1. PICK r \in Results \cup {None} :
            client' = [client EXCEPT ![v] = IF r = None THEN None ELSE [battle |-> b, result |-> r]]
      BY <1>6, <2>1 DEF OnUserGotoBattle
    <3>2. r # None => [battle |-> b, result |-> r] \in Answered
      BY <2>2, Constants DEF Answered
    <3>3. CASE r = None
      BY <3>1, <3>3
    <3>4. CASE r # None
      <4>1. PICK x : x = [battle |-> b, result |-> r]
        OBVIOUS
      <4>2. x \in Answered /\ x.battle = b /\ client' = [client EXCEPT ![v] = x]
        BY <3>1, <3>2, <3>4, <4>1
      <4> QED  BY <4>2
    <3> QED  BY <3>3, <3>4
  <2>s. session' \in [Users -> Battles \cup {0}] /\ session'[v] = b
        /\ \A u \in Users : u # v => session'[u] = session[u]
    BY <2>2, <2>3, <2>t
  <2>c. client' = [client EXCEPT ![v] = c]
    BY <2>4
  <2>d. client' \in [Users -> Answered \cup {None}] /\ client'[v] = c
        /\ \A u \in Users : u # v => client'[u] = client[u]
    BY <2>c, <2>t
  <2>5. \A u \in Users : /\ (session[u] # 0 => Fought(u, session[u]))'
                         /\ (client[u] # None => Fought(u, client[u].battle))'
    <3> TAKE u \in Users
    <3>1. CASE u = v
      <4>1. session'[v] = b /\ client'[v] = c
        BY <2>s, <2>d
      <4> QED  BY <2>2, <2>4, <3>1, <4>1 DEF Fought
    <3>2. CASE u # v
      <4>1. session'[u] = session[u] /\ client'[u] = client[u]
        BY <2>s, <2>d, <3>2
      <4> QED  BY <1>2, <4>1 DEF IInv, PlayersFought, Fought
    <3> QED  BY <3>1, <3>2
  <2>6. session' \in [Users -> Battles \cup {0}] /\ client' \in [Users -> Answered \cup {None}]
    BY <2>s, <2>d
  <2> QED  BY <1>3, <2>5, <2>6 DEF PlayersFought
<1>7. \/ session' = session /\ client' = client
      \/ \E v \in Users : OnUserGotoBattle(v) \/ Forget(v)
  BY Constants DEF Next, vars, mem, AddBattleRecords, IncrementReplayPlayCount, OnDecideUserID,
         UpdateUser, OnClose, GetBattleRecordUser, SaveUsedMs, UpdateBattleRecord, CountTotals,
         GetRegurationData, Put, SetReplayURL, Attrs
<1> QED  BY <1>4, <1>5, <1>6, <1>7

(* Rows are made with their battle and for registered users, and only what *)
(* is in the store is recorded.                                            *)
LEMMA RowsFit ==
  ASSUME IInv, [Next]_vars
  PROVE  /\ DOMAIN record' = Battles
         /\ \A b \in Battles : record'[b] \in [DOMAIN SideOf[b] -> Rows \cup {None}]
         /\ NotYetFought' /\ NewUsers'
<1>1. TypeOK /\ RowsGoOn
  BY RowStep DEF IInv
<1>2. \A b \in Battles : record'[b] \in [DOMAIN SideOf[b] -> Rows \cup {None}]
  <2> TAKE b \in Battles
  <2>1. record'[b] = [u \in DOMAIN SideOf[b] |-> record'[b][u]]
    BY <1>1 DEF RowsGoOn
  <2>2. \A u \in DOMAIN SideOf[b] : record'[b][u] \in Rows \cup {None}
    BY <1>1, RowAfter
  <2> QED  BY <2>1, <2>2
<1>3. NotYetFought'
  <2> SUFFICES ASSUME NEW b \in Battles, snapshot'[b] = None, NEW u \in DOMAIN SideOf[b]
               PROVE  record'[b][u] = None
    BY DEF NotYetFought
  <2>1. snapshot[b] = None
    BY SnapshotStep
  <2>2. record[b][u] = None
    BY <2>1 DEF IInv, NotYetFought
  <2>3. snapshot'[b] \notin Copies(b)
    BY Constants
  <2> QED  BY <1>1, <2>2, <2>3, RowAfter
<1>4. NewUsers'
  <2> SUFFICES ASSUME NEW u \in Users, stored'[u] = None
               PROVE  /\ peer'[u] = None
                      /\ \A b \in Battles : u \in DOMAIN SideOf[b] => record'[b][u] = None
    BY DEF NewUsers
  <2>1. stored[u] = None
    BY StoredStep
  <2>2. \A b \in Battles : u \in DOMAIN SideOf[b] => record[b][u] = None
    BY <2>1 DEF IInv, NewUsers
  <2>3. \A b \in Battles : u \in DOMAIN SideOf[b] => record'[b][u] = None
    BY <1>1, <2>1, <2>2, RowAfter
  <2>4. peer'[u] = None
    BY PeerStep DEF PeerFits
  <2> QED  BY <2>3, <2>4
<1> QED  BY <1>1, <1>2, <1>3, <1>4 DEF RowsGoOn

(* One upload of a battle is taken. *)
LEMMA UploadStep ==
  ASSUME IInv, [Next]_vars
  PROVE  /\ upload' \in [Uploads -> [state : UploadStates, battle : Battles \cup {0}]]
         /\ files \subseteq files' /\ files' \subseteq Battles
         /\ OneTaken'
<1>1. TypeOK /\ OneTaken
  BY DEF IInv
<1>2. ASSUME NEW g \in Uploads, NEW b \in Battles, NEW state \in UploadStates \ {"idle"},
             upload[g].state # "idle" => upload[g].battle = b,
             upload' = [upload EXCEPT ![g] = [state |-> state, battle |-> b]],
             \/ files' = files /\ (state \in Taken => upload[g].state \in Taken)
             \/ files' = files \cup {b} /\ b \notin files
      PROVE  /\ upload' \in [Uploads -> [state : UploadStates, battle : Battles \cup {0}]]
             /\ files \subseteq files' /\ files' \subseteq Battles
             /\ OneTaken'
  <2>1. upload'[g].state = state /\ upload'[g].battle = b
    BY <1>1, <1>2 DEF TypeOK
  <2>2. \A h \in Uploads : h # g => upload'[h] = upload[h]
    BY <1>1, <1>2 DEF TypeOK
  <2>3. upload' \in [Uploads -> [state : UploadStates, battle : Battles \cup {0}]]
    BY <1>1, <1>2 DEF TypeOK
  <2>4. files \subseteq files' /\ files' \subseteq Battles
    BY <1>1, <1>2 DEF TypeOK
  <2>5. \A h \in Uploads : /\ upload'[h].state # "idle" => upload'[h].battle \in Battles
                           /\ upload'[h].state \in Taken => upload'[h].battle \in files'
    <3> TAKE h \in Uploads
    <3>1. CASE h # g
      BY <1>1, <2>2, <2>4, <3>1 DEF OneTaken
    <3>2. CASE h = g
      BY <1>1, <1>2, <2>1, <3>2 DEF OneTaken, Taken
    <3> QED  BY <3>1, <3>2
  <2>6. \A h \in Uploads : h # g /\ upload[h].state \in Taken /\ upload[h].battle = b => state \notin Taken
    BY <1>1, <1>2 DEF OneTaken, Taken
  <2>7. \A h, i \in Uploads : upload'[h].state \in Taken /\ upload'[i].state \in Taken
                                /\ upload'[h].battle = upload'[i].battle => h = i
    <3> TAKE h, i \in Uploads
    <3>1. CASE h # g /\ i # g
      BY <1>1, <2>2, <3>1 DEF OneTaken
    <3>2. CASE h = g /\ i # g
      BY <2>1, <2>2, <2>6, <3>2
    <3>3. CASE h # g /\ i = g
      BY <2>1, <2>2, <2>6, <3>3
    <3> QED  BY <3>1, <3>2, <3>3
  <2> QED  BY <2>3, <2>4, <2>5, <2>7 DEF OneTaken
<1>3. ASSUME NEW g \in Uploads, NEW state, upload[g].state # "idle", Answer(g, state)
      PROVE  /\ upload' = [upload EXCEPT ![g] = [state |-> state, battle |-> upload[g].battle]]
             /\ upload[g].battle \in Battles
  <2>1. PICK x \in [state : UploadStates, battle : Battles \cup {0}] : x = upload[g]
    BY <1>1 DEF TypeOK
  <2>2. PICK y : y = [x EXCEPT !.state = state]
    OBVIOUS
  <2>3. y = [state |-> state, battle |-> upload[g].battle]
    BY <2>1, <2>2
  <2>4. upload' = [upload EXCEPT ![g] = y]
    BY <1>3, <2>1, <2>2 DEF Answer
  <2>5. upload[g].battle \in Battles
    BY <1>1, <1>3 DEF OneTaken
  <2> QED  BY <2>3, <2>4, <2>5
<1>4. ASSUME NEW g \in Uploads, NEW b \in Emulated, Attrs(g, b)
      PROVE  /\ upload' \in [Uploads -> [state : UploadStates, battle : Battles \cup {0}]]
             /\ files \subseteq files' /\ files' \subseteq Battles
             /\ OneTaken'
  <2>1. PICK state \in {"writing", "conflict"} :
          upload' = [upload EXCEPT ![g] = [state |-> state, battle |-> b]]
    BY <1>4 DEF Attrs
  <2>2. b \in Battles /\ state \in UploadStates \ {"idle"} /\ state \notin Taken
    BY <2>1, Constants DEF UploadStates, Taken
  <2> QED  BY <1>2, <1>4, <2>1, <2>2 DEF Attrs
<1>5. ASSUME NEW g \in Uploads, Put(g)
      PROVE  /\ upload' \in [Uploads -> [state : UploadStates, battle : Battles \cup {0}]]
             /\ files \subseteq files' /\ files' \subseteq Battles
             /\ OneTaken'
  <2>1. PICK state \in {"stored", "failed"} :
          /\ Answer(g, state)
          /\ \/ files' = files /\ state = "failed"
             \/ files' = files \cup {upload[g].battle} /\ upload[g].battle \notin files
    BY <1>5 DEF Put, Free
  <2>2. upload[g].state = "writing" /\ state \in UploadStates \ {"idle"} /\ "failed" \notin Taken
    BY <1>5, <2>1 DEF Put, UploadStates, Taken
  <2>3. /\ upload' = [upload EXCEPT ![g] = [state |-> state, battle |-> upload[g].battle]]
        /\ upload[g].battle \in Battles
    BY <1>3, <2>1, <2>2
  <2> QED  BY <1>2, <2>1, <2>2, <2>3
<1>6. ASSUME NEW g \in Uploads, SetReplayURL(g)
      PROVE  /\ upload' \in [Uploads -> [state : UploadStates, battle : Battles \cup {0}]]
             /\ files \subseteq files' /\ files' \subseteq Battles
             /\ OneTaken'
  <2>1. PICK state \in {"done", "failed"} : Answer(g, state)
    BY <1>6 DEF SetReplayURL
  <2>2. files' = files /\ upload[g].state = "stored" /\ "stored" \in Taken
        /\ state \in UploadStates \ {"idle"}
    BY <1>6, <2>1 DEF SetReplayURL, UploadStates, Taken
  <2>3. /\ upload' = [upload EXCEPT ![g] = [state |-> state, battle |-> upload[g].battle]]
        /\ upload[g].battle \in Battles
    BY <1>3, <2>1, <2>2
  <2> QED  BY <1>2, <2>2, <2>3
<1>7. ASSUME UNCHANGED <<upload, files>>
      PROVE  /\ upload' \in [Uploads -> [state : UploadStates, battle : Battles \cup {0}]]
             /\ files \subseteq files' /\ files' \subseteq Battles
             /\ OneTaken'
  BY <1>1, <1>7 DEF TypeOK, OneTaken
<1>8. \/ UNCHANGED <<upload, files>>
      \/ \E h \in Uploads : Put(h) \/ SetReplayURL(h) \/ \E b \in Emulated : Attrs(h, b)
  BY DEF Next, vars, web, AddBattleRecords, IncrementReplayPlayCount, OnDecideUserID,
         UpdateUser, OnUserGotoBattle, Forget, OnClose, GetBattleRecordUser, SaveUsedMs,
         UpdateBattleRecord, CountTotals, GetRegurationData
<1> QED  BY <1>4, <1>5, <1>6, <1>7, <1>8

(* What is recorded is in the store. *)
LEMMA UrlStep == IInv /\ [Next]_vars => UrlStored'
<1> SUFFICES ASSUME IInv, [Next]_vars, NEW b \in Battles, NEW u \in DOMAIN SideOf[b],
                    record'[b][u] # None, record'[b][u].url
             PROVE  b \in files'
  BY DEF UrlStored
<1>1. b \in files
  BY RowStep, RowAfter DEF IInv, UrlStored
<1> QED  BY <1>1, UploadStep

-----------------------------------------------------------------------------
(* The handler of a result keeps its peer and its client, and no ranking   *)
(* is cached until the totals are there.                                   *)
LEMMA LoopStep ==
  ASSUME IInv, [Next]_vars
  PROVE  loop' \in Handling \cup {None} /\ owed' \subseteq Users /\ LoopFits'
<1>1. TypeOK /\ LoopFits
  BY DEF IInv
<1>2. CASE loop' = None
  <2>1. \/ owed' = owed \/ CountTotals \/ UpdateBattleRecord
        \/ \E v \in Users : OnDecideUserID(v)
    BY Constants
       DEF Next, vars, AddBattleRecords, IncrementReplayPlayCount, UpdateUser,
           OnUserGotoBattle, Forget, OnClose, GetBattleRecordUser, SaveUsedMs,
           GetRegurationData, Put, SetReplayURL, Attrs
  <2>2. UpdateBattleRecord => owed' = owed \/ (loop # None /\ owed' = owed \cup {loop.user})
    BY DEF UpdateBattleRecord
  <2>3. UpdateBattleRecord => owed' \subseteq Users
    BY <1>1, <2>2 DEF TypeOK, Handling
  <2>4. CountTotals => owed' \subseteq owed
    BY Counting
  <2>5. \A v \in Users : OnDecideUserID(v) => owed' \subseteq owed \cup {v}
    BY DEF OnDecideUserID
  <2>6. owed' \subseteq Users
    BY <1>1, <2>1, <2>3, <2>4, <2>5 DEF TypeOK
  <2> QED  BY <1>2, <2>6 DEF LoopFits
<1>3. ASSUME NEW v \in Users, GetBattleRecordUser(v), loop' # None
      PROVE  loop' \in Handling \cup {None} /\ owed' \subseteq Users /\ LoopFits'
  <2>1. client[v] # None /\ client[v] \in Answered /\ Fought(v, client[v].battle)
    BY <1>1, <1>3 DEF GetBattleRecordUser, AnswerBattleResult, TypeOK, IInv, PlayersFought
  <2>2. loop' = [user |-> v, at |-> "read", row |-> record[client[v].battle][v]]
    BY <1>3, <2>1 DEF GetBattleRecordUser, AnswerBattleResult
  <2>3. record[client[v].battle][v] \in Rows
    BY <2>1 DEF Fought
  <2>4. loop' \in Handling /\ loop'.user = v /\ loop'.at = "read"
    BY <2>2, <2>3 DEF Handling
  <2>5. peer[v] \in Peers /\ peer' = [peer EXCEPT ![v].asked = FALSE] /\ client' = client /\ owed' = owed
    BY <1>1, <1>3 DEF GetBattleRecordUser, TypeOK
  <2>6. peer'[v] \in Peers
    BY <1>1, <2>5 DEF TypeOK, Peers
  <2> QED  BY <1>1, <2>1, <2>4, <2>5, <2>6 DEF LoopFits, TypeOK
<1>4. ASSUME UpdateBattleRecord, loop' # None
      PROVE  loop' \in Handling \cup {None} /\ owed' \subseteq Users /\ LoopFits'
  <2>1. PICK x \in Handling : x = loop /\ x # None
    BY <1>1, <1>4 DEF UpdateBattleRecord, TypeOK
  <2>2. /\ loop' = [x EXCEPT !.at = "written", !.row = None] /\ owed' = owed \cup {x.user}
        /\ cache' = CacheAfter /\ UNCHANGED <<peer, client>>
    BY <1>4, <2>1 DEF UpdateBattleRecord
  <2>3. loop' \in Handling /\ loop'.user = x.user /\ x.user \in Users
    BY <2>1, <2>2 DEF Handling
  <2>4. client[x.user] # None /\ peer[x.user] \in Peers
    BY <1>1, <2>1 DEF LoopFits
  <2>5. \A k \in Boards : cache'[k] = None
    BY <2>2 DEF CacheAfter
  <2> QED  BY <1>1, <2>2, <2>3, <2>4, <2>5 DEF LoopFits, TypeOK
<1>5. CASE UNCHANGED <<loop, client, peer, cache, owed>>
  BY <1>1, <1>5 DEF TypeOK, LoopFits
<1>6. \/ loop' = None
      \/ UNCHANGED <<loop, client, peer, cache, owed>>
      \/ \E v \in Users : GetBattleRecordUser(v)
      \/ UpdateBattleRecord
  BY Constants
     DEF Next, vars, rows, mem, AddBattleRecords, IncrementReplayPlayCount, OnDecideUserID,
         UpdateUser, OnUserGotoBattle, Forget, OnClose, SaveUsedMs, CountTotals,
         GetRegurationData, Put, SetReplayURL, Attrs
<1> QED  BY <1>2, <1>3, <1>4, <1>5, <1>6

(* A ranking, as the database or the cache gives it. *)
RankingFits(r) ==
  /\ r \in Ranked /\ IsInjective(r.users) /\ Len(r.counts) = Len(r.users)
  /\ \A i \in DOMAIN r.users : stored[r.users[i]] # None
(* It is, and it is the cached one, or shows what the users have. *)
LEMMA RankingIs ==
  ASSUME IInv, NEW k \in Boards, NEW r \in Ranking(k)
  PROVE  /\ RankingFits(r)
         /\ cache[k] # None => r = cache[k]
         /\ cache[k] = None => \A i \in DOMAIN r.users : r.counts[i] = stored[r.users[i]][k]
<1>1. TypeOK /\ CacheFits
  BY DEF IInv
<1>2. CASE cache[k] # None
  BY <1>1, <1>2 DEF Ranking, RankingFits, CacheFits, TypeOK
<1>3. CASE cache[k] = None
  <2>1. PICK s \in Rankings(k) : r = [users |-> s, counts |-> [i \in DOMAIN s |-> stored[s[i]][k]]]
    BY <1>3 DEF Ranking
  <2>2. PICK T \in SUBSET Registered : s \in [1 .. Cardinality(T) -> T] /\ IsInjective(s)
    BY <2>1 DEF Rankings, SetToAllKPermutations, SetToSeqs, IsInjective
  <2>3. Cardinality(T) \in Nat /\ T \subseteq Users
    BY <2>2, Constants, FS_Subset, FS_CardinalityType DEF Registered
  <2>4. s \in Seq(Users) /\ Len(s) = Cardinality(T) /\ DOMAIN s = 1 .. Len(s)
    BY <2>2, <2>3
  <2>5. \A i \in DOMAIN s : s[i] \in Users /\ stored[s[i]] \in AllTotals
    BY <1>1, <2>2, <2>4 DEF Registered, TypeOK
  <2>6. \A i \in DOMAIN s : stored[s[i]][k] \in Nat
    BY <2>5, Constants DEF AllTotals
  <2>7. PICK c : c = [i \in DOMAIN s |-> stored[s[i]][k]]
    OBVIOUS
  <2>8. c \in Seq(Nat) /\ Len(c) = Len(s)
    BY <2>3, <2>4, <2>6, <2>7
  <2>9. r = [users |-> s, counts |-> c]
    BY <2>1, <2>7
  <2>10. r \in Ranked /\ r.users = s /\ r.counts = c
    BY <2>4, <2>8, <2>9 DEF Ranked
  <2>11. \A i \in DOMAIN s : stored[s[i]] # None
    BY <2>5, Constants
  <2> QED  BY <1>3, <2>2, <2>7, <2>8, <2>10, <2>11 DEF RankingFits
<1> QED  BY <1>2, <1>3

(* Cached rankings hold registered users, each once. *)
LEMMA CacheStep ==
  ASSUME IInv, [Next]_vars
  PROVE  cache' \in [Boards -> Ranked \cup {None}] /\ CacheFits'
<1>1. TypeOK /\ CacheFits
  BY DEF IInv
<1>2. \A u \in Users : stored[u] # None => stored'[u] # None
  BY StoredStep
<1>3. ASSUME NEW k \in Boards, cache'[k] = cache[k], cache[k] # None
      PROVE  /\ IsInjective(cache'[k].users) /\ Len(cache'[k].counts) = Len(cache'[k].users)
             /\ \A i \in DOMAIN cache'[k].users : stored'[cache'[k].users[i]] # None
  <2>1. cache[k].users \in Seq(Users)
    BY <1>1, <1>3 DEF TypeOK, Ranked
  <2>2. \A i \in DOMAIN cache[k].users : cache[k].users[i] \in Users
    BY <2>1
  <2> QED  BY <1>1, <1>2, <1>3, <2>2 DEF CacheFits
<1>4. CASE cache' = cache
  <2>1. \A k \in Boards : cache'[k] = cache[k]
    BY <1>4
  <2> QED  BY <1>1, <1>3, <1>4, <2>1 DEF CacheFits, TypeOK
<1>5. CASE cache' = CacheAfter
  BY <1>5 DEF CacheAfter, CacheFits
<1>6. ASSUME NEW k \in Boards, NEW page, GetRegurationData(k, page)
      PROVE  cache' \in [Boards -> Ranked \cup {None}] /\ CacheFits'
  <2>1. PICK r \in Ranking(k) : cache' = [cache EXCEPT ![k] = r]
    BY <1>6 DEF GetRegurationData
  <2>2. RankingFits(r)
    BY <2>1, RankingIs
  <2>3. cache'[k] = r /\ \A l \in Boards : l # k => cache'[l] = cache[l]
    BY <1>1, <2>1 DEF TypeOK
  <2>4. stored' = stored
    BY <1>6 DEF GetRegurationData
  <2>5. cache' \in [Boards -> Ranked \cup {None}]
    BY <1>1, <2>1, <2>2 DEF TypeOK, RankingFits
  <2>6. ASSUME NEW l \in Boards, cache'[l] # None
        PROVE  /\ IsInjective(cache'[l].users) /\ Len(cache'[l].counts) = Len(cache'[l].users)
               /\ \A i \in DOMAIN cache'[l].users : stored'[cache'[l].users[i]] # None
    <3>1. CASE l = k
      BY <2>2, <2>3, <2>4, <3>1 DEF RankingFits
    <3>2. CASE l # k
      BY <1>3, <2>3, <2>6, <3>2
    <3> QED  BY <3>1, <3>2
  <2> QED  BY <2>5, <2>6 DEF CacheFits
<1>7. \/ cache' = cache \/ cache' = CacheAfter
      \/ \E k \in Boards, page \in 0 .. Cardinality(Users) : GetRegurationData(k, page)
  BY DEF Next, vars, rows, AddBattleRecords, IncrementReplayPlayCount, OnDecideUserID, UpdateUser,
         OnUserGotoBattle, Forget, OnClose, GetBattleRecordUser, SaveUsedMs, UpdateBattleRecord,
         CountTotals, Put, SetReplayURL, Attrs
<1> QED  BY <1>4, <1>5, <1>6, <1>7

(* The totals of users who owe no result are right in every place. *)
LEMMA TotalsStep ==
  ASSUME IInv, [Next]_vars
  PROVE  TotalsRight'
<1>1. TypeOK /\ TotalsRight /\ None \notin AllTotals
  BY Constants DEF IInv
<1> DEFINE Right(u) == /\ stored[u] # None => stored[u] = Totals(record, u)
                       /\ peer[u] # None => peer[u].totals = stored[u]
<1>2. \A u \in Users \ owed : Right(u)
  BY <1>1 DEF TotalsRight, OnGetUserRanking
<1>3. ASSUME NEW u \in Users \ owed'  PROVE Totals(record', u) = Totals(record, u)
  <2>1. \A b \in Battles : u \in DOMAIN SideOf[b] => ResultIn(record'[b][u]) = ResultIn(record[b][u])
    BY <1>1, RowStep, RowAfter
  <2> QED  BY <2>1, TotalsSame
<1>4. ASSUME NEW u \in Users \ owed', u \notin owed, stored'[u] = stored[u],
             peer'[u] # None => peer[u] # None /\ peer'[u].totals = peer[u].totals
      PROVE  Right(u)'
  BY <1>2, <1>3, <1>4
<1>5. ASSUME NEW v \in Users, OnDecideUserID(v)  PROVE \A u \in Users \ owed' : Right(u)'
  <2>1. PICK t \in AllTotals : t = TotalsAtLogin(v)
    BY LoginTotals
  <2>2. stored' = [stored EXCEPT ![v] = t]
        /\ peer' = [peer EXCEPT ![v] = [totals |-> t, battle |-> 0, asked |-> TRUE]]
    BY <1>5, <2>1 DEF OnDecideUserID
  <2>3. stored'[v] = t /\ peer'[v].totals = t
        /\ \A u \in Users : u # v => stored'[u] = stored[u] /\ peer'[u] = peer[u]
    BY <1>1, <2>2 DEF TypeOK
  <2>4. owed \subseteq owed'
    BY <1>5 DEF OnDecideUserID
  <2>5. ASSUME v \notin owed'  PROVE t = Totals(record, v)
    <3>1. CASE Remembered(v)
      <4>1. stored[v] = t
        BY <1>5, <2>1, <2>5, <3>1 DEF OnDecideUserID
      <4> QED  BY <1>1, <1>2, <2>4, <2>5, <4>1
    <3>2. CASE ~ Remembered(v) /\ stored[v] # None
      <4>1. stored[v] = t
        BY <2>1, <3>2 DEF TotalsAtLogin
      <4> QED  BY <1>1, <1>2, <2>4, <2>5, <4>1
    <3>3. CASE ~ Remembered(v) /\ stored[v] = None
      <4>1. \A b \in Battles : v \in DOMAIN SideOf[b] => record[b][v] = None
        BY <3>3 DEF IInv, NewUsers
      <4>2. Totals(record, v) = NoTotals
        BY <4>1, TotalsTyped
      <4> QED  BY <2>1, <3>3, <4>2 DEF TotalsAtLogin
    <3> QED  BY <3>1, <3>2, <3>3
  <2>6. v \notin owed' => Right(v)'
    BY <1>3, <2>3, <2>5
  <2>7. \A u \in Users \ owed' : u # v => Right(u)'
    BY <1>4, <2>3, <2>4
  <2> QED  BY <2>6, <2>7
<1>6. ASSUME NEW v \in Users, UpdateUser(v)  PROVE \A u \in Users \ owed' : Right(u)'
  <2>1. peer[v] # None /\ stored' = [stored EXCEPT ![v] = peer[v].totals] /\ owed' = owed /\ peer' = peer
    BY <1>6 DEF UpdateUser, mem
  <2>2. v \notin owed => peer[v].totals = stored[v]
    BY <1>2, <2>1
  <2>3. \A u \in Users \ owed : stored'[u] = stored[u]
    BY <1>1, <2>1, <2>2 DEF TypeOK
  <2> QED  BY <1>4, <2>1, <2>3
<1>7. ASSUME CountTotals  PROVE \A u \in Users \ owed' : Right(u)'
  <2>1. PICK v \in Users, t \in AllTotals :
           /\ v \in owed
           /\ peer[v] \in Peers /\ peer' = [peer EXCEPT ![v] = [peer[v] EXCEPT !.totals = t]]
           /\ \/ stored' = stored /\ owed' = owed
              \/ t = Totals(record, v) /\ stored' = [stored EXCEPT ![v] = t] /\ owed' = owed \ {v}
    BY <1>7, Counting
  <2>2. peer'[v].totals = t /\ \A u \in Users : u # v => peer'[u] = peer[u]
    BY <1>1, <2>1 DEF TypeOK, Peers
  <2>3. \A u \in Users : u # v => stored'[u] = stored[u]
    BY <1>1, <2>1 DEF TypeOK
  <2>4. \A u \in Users \ owed' : u # v => Right(u)'
    BY <1>4, <2>1, <2>2, <2>3
  <2>5. ASSUME v \notin owed'  PROVE Right(v)'
    <3>1. t = Totals(record, v) /\ stored'[v] = t
      BY <1>1, <2>1, <2>5 DEF TypeOK
    <3> QED  BY <1>3, <2>2, <2>5, <3>1
  <2> QED  BY <2>4, <2>5
<1>8. ASSUME NEW b \in Battles, AddBattleRecords(b)  PROVE \A u \in Users \ owed' : Right(u)'
  <2>1. /\ stored' = stored /\ owed' = owed
        /\ peer' = [u \in Users |-> IF u \in DOMAIN SideOf[b]
                                    THEN [peer[u] EXCEPT !.battle = b] ELSE peer[u]]
        /\ \A u \in DOMAIN SideOf[b] : peer[u] # None
    BY <1>8 DEF AddBattleRecords
  <2>2. \A u \in Users : peer'[u] # None => peer[u] # None /\ peer'[u].totals = peer[u].totals
    <3> SUFFICES ASSUME NEW u \in Users, peer'[u] # None
                 PROVE  peer[u] # None /\ peer'[u].totals = peer[u].totals
      OBVIOUS
    <3>1. CASE u \in DOMAIN SideOf[b]
      <4>1. peer[u] \in Peers /\ peer[u] # None
        BY <1>1, <2>1, <3>1 DEF TypeOK
      <4>2. peer'[u] = [peer[u] EXCEPT !.battle = b]
        BY <2>1, <3>1
      <4> QED  BY <4>1, <4>2 DEF Peers
    <3>2. CASE u \notin DOMAIN SideOf[b]
      BY <2>1, <3>2
    <3> QED  BY <3>1, <3>2
  <2> QED  BY <1>4, <2>1, <2>2
<1>9. ASSUME NEW v \in Users, GetBattleRecordUser(v)  PROVE \A u \in Users \ owed' : Right(u)'
  <2>1. /\ stored' = stored /\ owed' = owed /\ peer' = [peer EXCEPT ![v].asked = FALSE]
        /\ peer[v] # None
    BY <1>9 DEF GetBattleRecordUser, rows
  <2>2. peer[v] \in Peers
    BY <1>1, <2>1 DEF TypeOK
  <2>3. \A u \in Users : peer'[u] # None => peer[u] # None /\ peer'[u].totals = peer[u].totals
    BY <1>1, <2>1, <2>2 DEF TypeOK, Peers
  <2> QED  BY <1>4, <2>1, <2>3
<1>10. ASSUME NEW v \in Users, OnUserGotoBattle(v) \/ OnClose(v)
       PROVE \A u \in Users \ owed' : Right(u)'
  <2>1. stored' = stored /\ owed' = owed /\ peer' = [peer EXCEPT ![v] = None]
    BY <1>10 DEF OnUserGotoBattle, OnClose, rows
  <2>2. \A u \in Users : peer'[u] # None => peer[u] # None /\ peer'[u].totals = peer[u].totals
    BY <1>1, <2>1 DEF TypeOK
  <2> QED  BY <1>4, <2>1, <2>2
<1>11. ASSUME stored' = stored, peer' = peer, owed \subseteq owed'
       PROVE  \A u \in Users \ owed' : Right(u)'
  BY <1>4, <1>11
<1>12. \/ stored' = stored /\ peer' = peer /\ owed \subseteq owed'
       \/ \E v \in Users : \/ OnDecideUserID(v) \/ UpdateUser(v) \/ GetBattleRecordUser(v)
                           \/ OnUserGotoBattle(v) \/ OnClose(v)
       \/ CountTotals \/ \E b \in Battles : AddBattleRecords(b)
  BY Constants DEF Next, vars, rows, mem, IncrementReplayPlayCount, Forget, SaveUsedMs,
         UpdateBattleRecord, GetRegurationData, Put, SetReplayURL, Attrs
<1>13. \A u \in Users \ owed' : Right(u)'
  BY <1>5, <1>6, <1>7, <1>8, <1>9, <1>10, <1>11, <1>12
<1> QED  BY <1>13 DEF TotalsRight, OnGetUserRanking

-----------------------------------------------------------------------------
(* The row of a user who owes nothing only changes as it is made, except   *)
(* where a result's totals are written.                                    *)
LEMMA StoredStays ==
  ASSUME IInv, [Next]_vars
  PROVE  \/ CountTotals
         \/ \A u \in Users \ owed' : u \notin owed /\ (stored[u] # None => stored'[u] = stored[u])
<1>1. TypeOK /\ TotalsRight
  BY DEF IInv
<1>2. ASSUME NEW v \in Users, OnDecideUserID(v), NEW u \in Users \ owed'
      PROVE  u \notin owed /\ (stored[u] # None => stored'[u] = stored[u])
  <2>1. owed \subseteq owed' /\ stored' = [stored EXCEPT ![v] = TotalsAtLogin(v)]
        /\ (Remembered(v) /\ v \notin owed' => stored[v] = TotalsAtLogin(v))
    BY <1>2 DEF OnDecideUserID
  <2>2. ~ Remembered(v) /\ stored[v] # None => stored[v] = TotalsAtLogin(v)
    BY DEF TotalsAtLogin
  <2> QED  BY <1>1, <2>1, <2>2 DEF TypeOK
<1>3. ASSUME NEW v \in Users, UpdateUser(v), NEW u \in Users \ owed'
      PROVE  u \notin owed /\ (stored[u] # None => stored'[u] = stored[u])
  <2>1. peer[v] # None /\ stored' = [stored EXCEPT ![v] = peer[v].totals] /\ owed' = owed
    BY <1>3 DEF UpdateUser
  <2>2. v \notin owed => peer[v].totals = stored[v]
    BY <1>1, <2>1 DEF TotalsRight
  <2> QED  BY <1>1, <2>1, <2>2 DEF TypeOK
<1>4. \/ CountTotals
      \/ stored' = stored /\ owed \subseteq owed'
      \/ \E v \in Users : OnDecideUserID(v) \/ UpdateUser(v)
  BY Constants
     DEF Next, vars, rows, AddBattleRecords, IncrementReplayPlayCount,
         OnUserGotoBattle, Forget, OnClose, GetBattleRecordUser, SaveUsedMs, UpdateBattleRecord,
         GetRegurationData, Put, SetReplayURL, Attrs
<1> QED  BY <1>2, <1>3, <1>4

(* What a cached ranking shows is what its users have. *)
LEMMA PagesStep ==
  ASSUME IInv, [Next]_vars
  PROVE  PagesShowCounts'
<1>1. TypeOK /\ CacheFits /\ PagesShowCounts
  BY DEF IInv
<1> DEFINE Shows(c, k) == c # None => \A i \in DOMAIN c.users :
                            c.users[i] \notin owed => c.counts[i] = stored[c.users[i]][k]
<1>2. \A k \in Boards : Shows(cache[k], k)
  BY <1>1 DEF PagesShowCounts
<1>3. ASSUME NEW k \in Boards, cache'[k] = cache[k]  PROVE Shows(cache[k], k)'
  <2> SUFFICES ASSUME cache[k] # None, NEW i \in DOMAIN cache[k].users, cache[k].users[i] \notin owed'
               PROVE  cache[k].counts[i] = stored'[cache[k].users[i]][k]
    BY <1>3
  <2>1. cache[k].users[i] \in Users /\ stored[cache[k].users[i]] # None
    <3>1. cache[k].users \in Seq(Users)
      BY <1>1 DEF TypeOK, Ranked
    <3> QED  BY <1>1, <3>1 DEF CacheFits
  <2>2. ~ CountTotals
    BY Counting
  <2>3. cache[k].users[i] \notin owed /\ stored'[cache[k].users[i]] = stored[cache[k].users[i]]
    BY <2>1, <2>2, StoredStays
  <2> QED  BY <1>2, <2>3
<1>4. ASSUME NEW k \in Boards, cache'[k] = None  PROVE Shows(cache[k], k)'
  BY <1>4
<1>5. ASSUME NEW k \in Boards, NEW page, GetRegurationData(k, page), NEW l \in Boards
      PROVE  Shows(cache[l], l)'
  <2>1. PICK r \in Ranking(k) : cache' = [cache EXCEPT ![k] = r]
    BY <1>5 DEF GetRegurationData
  <2>2. cache'[k] = r /\ \A m \in Boards : m # k => cache'[m] = cache[m]
    BY <1>1, <2>1 DEF TypeOK
  <2>3. CASE l # k \/ cache[k] # None
    BY <1>3, <2>1, <2>2, <2>3, RankingIs
  <2>4. CASE l = k /\ cache[k] = None
    <3>1. \A i \in DOMAIN r.users : r.counts[i] = stored[r.users[i]][k]
      BY <2>1, <2>4, RankingIs
    <3>2. stored' = stored
      BY <1>5 DEF GetRegurationData
    <3> QED  BY <2>2, <2>4, <3>1, <3>2
  <2> QED  BY <2>3, <2>4
<1>6. \/ cache' = cache \/ cache' = CacheAfter
      \/ \E k \in Boards, page \in 0 .. Cardinality(Users) : GetRegurationData(k, page)
  BY DEF Next, vars, rows, AddBattleRecords, IncrementReplayPlayCount, OnDecideUserID, UpdateUser,
         OnUserGotoBattle, Forget, OnClose, GetBattleRecordUser, SaveUsedMs, UpdateBattleRecord,
         CountTotals, Put, SetReplayURL, Attrs
<1>7. \A k \in Boards : Shows(cache[k], k)'
  BY <1>3, <1>4, <1>5, <1>6 DEF CacheAfter
<1> QED  BY <1>7 DEF PagesShowCounts

-----------------------------------------------------------------------------
(* Division rounds down. *)
LEMMA Division ==
  ASSUME NEW n \in Nat, NEW m \in Nat, m > 0
  PROVE  /\ n \div m \in Nat /\ (n \div m) * m <= n /\ n < (n \div m) * m + m
  OBVIOUS

(* A product grows with its factor. *)
LEMMA Product ==
  ASSUME NEW a \in Nat, NEW b \in Nat, a <= b, NEW m \in Nat
  PROVE  a * m \in Nat /\ a * m <= b * m /\ (a + 1) * m = a * m + m
  OBVIOUS

(* A page ends where the next one starts, and the last one at n. *)
LEMMA UptoIs ==
  ASSUME NEW n \in Nat, NEW page \in Nat
  PROVE  /\ Upto(page, n) \in 0 .. n
         /\ page < LastPage(n) => Upto(page, n) = (page + 1) * PageSize /\ (page + 1) * PageSize < n
         /\ page >= LastPage(n) => Upto(page, n) = n
<1>1. PageSize \in Nat /\ PageSize > 0
  BY Constants
<1>2. PICK p \in Nat : p = (page + 1) * PageSize
  BY <1>1, Product
<1>3. CASE n = 0
  <2>1. p >= PageSize
    BY <1>1, <1>2, Product
  <2> QED  BY <1>1, <1>2, <1>3, <2>1 DEF Upto, LastPage
<1>4. CASE n # 0
  <2>0. PICK m \in Nat : m = n + PageSize - 1
    BY <1>1, <1>4
  <2>1. PICK q \in Nat : q = m \div PageSize
    BY <1>1, Division
  <2>2. q * PageSize <= n + PageSize - 1 /\ n + PageSize - 1 < q * PageSize + PageSize
    BY <1>1, <2>0, <2>1, Division
  <2>3. q * PageSize \in Nat
    BY <1>1, Product
  <2>4. LastPage(n) = q - 1
    BY <1>4, <2>0, <2>1 DEF LastPage
  <2>5. CASE page < q - 1
    <3>1. p + PageSize <= q * PageSize
      <4>1. (page + 2) * PageSize <= q * PageSize
        BY <1>1, <2>5, Product
      <4>2. (page + 2) * PageSize = p + PageSize
        <5>1. (page + 1 + 1) * PageSize = (page + 1) * PageSize + PageSize
          BY <1>1, Product
        <5> QED  BY <1>2, <5>1
      <4> QED  BY <4>1, <4>2
    <3> QED  BY <1>1, <1>2, <2>2, <2>3, <2>4, <2>5, <3>1 DEF Upto
  <2>6. CASE page >= q - 1
    <3>1. q * PageSize <= p
      BY <1>1, <1>2, <2>6, Product
    <3> QED  BY <1>1, <1>2, <2>2, <2>3, <2>4, <2>6, <3>1 DEF Upto
  <2> QED  BY <2>5, <2>6
<1> QED  BY <1>3, <1>4

(* Part of a list, and the part after it. *)
LEMMA PartThenPart ==
  ASSUME NEW s \in Seq(Users), NEW a \in Nat, NEW b \in Nat, a <= b, b <= Len(s)
  PROVE  SubSeq(s, 1, a) \o SubSeq(s, a + 1, b) = SubSeq(s, 1, b)
  OBVIOUS

(* The page that is answered is what is between this page and the last.    *)
LEMMA PageIs ==
  ASSUME NEW ranking \in Seq(Users), NEW page \in Nat
  PROVE  RankingPage(ranking, page) = SubSeq(ranking, page * PageSize + 1, Upto(page, Len(ranking)))
<1>1. PICK p \in Nat : p = (page + 1) * PageSize
  BY Constants, Product
<1>2. PICK n \in Nat : n = Len(ranking)
  OBVIOUS
<1>3. Min({p, n}) = IF p <= n THEN p ELSE n
  BY DEF Min
<1> QED  BY <1>1, <1>2, <1>3 DEF RankingPage, Upto

(* Who reads on has read the ranking up to its page. *)
LEMMA WalkStep ==
  ASSUME IInv, [Next]_vars
  PROVE  walk' \in Reading \cup {None} /\ WalkFits'
<1>1. TypeOK /\ WalkFits
  BY DEF IInv
<1>2. CASE walk' = None
  BY <1>2 DEF WalkFits
<1>3. CASE UNCHANGED <<walk, cache>>
  BY <1>1, <1>3 DEF WalkFits, TypeOK
<1>4. ASSUME NEW k \in Boards, NEW page \in 0 .. Cardinality(Users), GetRegurationData(k, page)
      PROVE  walk' \in Reading \cup {None} /\ WalkFits'
  <2>0. page \in Nat
    BY Constants
  <2>1. PICK r \in Ranking(k) :
          /\ cache' = [cache EXCEPT ![k] = r]
          /\ walk' = [board |-> k, page |-> page, of |-> ToSet(r.users),
                      read |-> IF page = 0 THEN RankingPage(r.users, page)
                               ELSE walk.read \o RankingPage(r.users, page),
                      more |-> page < LastPage(Len(r.users))]
    BY <1>4 DEF GetRegurationData
  <2>2. /\ RankingFits(r) /\ r \in Ranked /\ r # None
        /\ cache[k] # None => r = cache[k]
    BY <2>1, RankingIs, Constants DEF RankingFits
  <2>3. PICK s \in Seq(Users) : s = r.users
    BY <2>2 DEF Ranked
  <2>4. PICK n \in Nat : n = Len(s)
    OBVIOUS
  <2>5. RankingPage(s, page) = SubSeq(s, page * PageSize + 1, Upto(page, n))
    BY <2>0, <2>4, PageIs
  <2>6. Upto(page, n) \in 0 .. n
    BY <2>0, UptoIs
  <2>7. (IF page = 0 THEN RankingPage(s, page) ELSE walk.read \o RankingPage(s, page))
          = SubSeq(s, 1, Upto(page, n))
    <3>1. CASE page = 0
      <4>1. page * PageSize + 1 = 1
        BY <3>1, Constants
      <4>2. RankingPage(s, page) = SubSeq(s, 1, Upto(page, n))
        BY <2>5, <4>1
      <4> QED  BY <3>1, <4>2
    <3>2. CASE page # 0
      <4>1. walk # None /\ walk.board = k /\ walk.more /\ page = walk.page + 1
        BY <1>4, <3>2 DEF GetRegurationData
      <4>2. walk.page = page - 1 /\ page - 1 \in Nat
        <5>1. walk \in Reading
          BY <1>1, <4>1 DEF TypeOK
        <5>2. PICK w \in Nat : w = walk.page
          BY <5>1 DEF Reading
        <5> QED  BY <2>0, <3>2, <4>1, <5>2
      <4>3. cache[k] # None /\ s = cache[k].users
        BY <1>1, <2>2, <2>3, <4>1 DEF WalkFits
      <4>4. walk.read = SubSeq(s, 1, Upto(page - 1, n)) /\ page - 1 < LastPage(n)
        BY <1>1, <2>4, <4>1, <4>2, <4>3 DEF WalkFits
      <4>5. Upto(page - 1, n) = page * PageSize /\ page * PageSize < n
        <5>1. Upto(page - 1, n) = (page - 1 + 1) * PageSize /\ (page - 1 + 1) * PageSize < n
          BY <4>2, <4>4, UptoIs
        <5>2. page - 1 + 1 = page
          BY <2>0
        <5> QED  BY <5>1, <5>2
      <4>6. page * PageSize \in Nat /\ page * PageSize <= Upto(page, n)
        <5>1. page * PageSize \in Nat /\ page * PageSize <= (page + 1) * PageSize
          BY <2>0, Constants, Product
        <5> QED  BY <4>5, <5>1 DEF Upto
      <4>7. PICK a \in Nat, b \in Nat : a = page * PageSize /\ b = Upto(page, n) /\ a <= b /\ b <= n
        BY <2>6, <4>6
      <4>8. SubSeq(s, 1, a) \o SubSeq(s, a + 1, b) = SubSeq(s, 1, b)
        BY <2>4, <4>7, PartThenPart
      <4> QED  BY <2>5, <3>2, <4>4, <4>5, <4>7, <4>8
    <3> QED  BY <3>1, <3>2
  <2>8. PICK b \in 0 .. n : b = Upto(page, n)
    BY <2>6
  <2>9. SubSeq(s, 1, b) \in Seq(Users)
    BY <2>4
  <2>10. ToSet(s) \subseteq Users
    BY DEF ToSet
  <2>11. walk' = [board |-> k, page |-> page, of |-> ToSet(s), read |-> SubSeq(s, 1, b),
                  more |-> page < LastPage(n)]
    BY <2>1, <2>3, <2>4, <2>7, <2>8
  <2>12. walk' \in Reading
    BY <2>0, <2>9, <2>10, <2>11 DEF Reading
  <2>13. cache'[k] = r
    BY <1>1, <2>1 DEF TypeOK
  <2>14. WalkFits'
    BY <2>2, <2>3, <2>4, <2>8, <2>11, <2>13 DEF WalkFits
  <2> QED  BY <2>12, <2>14
<1>5. \/ walk' = None \/ UNCHANGED <<walk, cache>>
      \/ \E k \in Boards, page \in 0 .. Cardinality(Users) : GetRegurationData(k, page)
  BY DEF Next, vars, rows, AddBattleRecords, IncrementReplayPlayCount, OnDecideUserID, UpdateUser,
         OnUserGotoBattle, Forget, OnClose, GetBattleRecordUser, SaveUsedMs, UpdateBattleRecord,
         CountTotals, Put, SetReplayURL, Attrs
<1> QED  BY <1>2, <1>3, <1>4, <1>5

-----------------------------------------------------------------------------
(* The invariant holds at first: who registered before has no rows yet.    *)
LEMMA InitHolds == Init => IInv
<1> SUFFICES ASSUME Init  PROVE IInv
  OBVIOUS
<1>1. TypeOK
  BY Constants DEF Init, TypeOK, NoTotals, AllTotals, UploadStates
<1>2. \A b \in Battles : \A u \in DOMAIN SideOf[b] : record[b][u] = None
  BY DEF Init
<1>3. PlayersFought /\ NotYetFought /\ LoopFits /\ CacheFits /\ WalkFits /\ OneTaken /\ UrlStored
  BY <1>2 DEF Init, PlayersFought, NotYetFought, LoopFits, CacheFits, WalkFits, OneTaken, UrlStored, Taken
<1>4. NewUsers
  BY <1>2 DEF Init, NewUsers
<1>5. TotalsRight
  <2>1. \A u \in Users : Totals(record, u) = NoTotals
    BY <1>2, TotalsTyped
  <2> QED  BY <2>1 DEF Init, TotalsRight, OnGetUserRanking
<1>6. PagesShowCounts
  BY DEF Init, PagesShowCounts
<1> QED  BY <1>1, <1>3, <1>4, <1>5, <1>6 DEF IInv

(* Every step keeps it. *)
LEMMA StepHolds == IInv /\ [Next]_vars => IInv'
<1> SUFFICES ASSUME IInv, [Next]_vars  PROVE IInv'
  OBVIOUS
<1>1. TypeOK'
  BY SnapshotStep, StoredStep, PeerStep, PlayerStep, RowsFit, UploadStep, LoopStep, CacheStep, WalkStep
     DEF TypeOK, PeerFits
<1> QED  BY <1>1, PlayerStep, RowsFit, UploadStep, UrlStep, LoopStep, CacheStep, WalkStep,
            TotalsStep, PagesStep DEF IInv

(* The inductive invariant holds in every state. *)
THEOREM InvariantHolds == Spec => []IInv
  BY InitHolds, StepHolds, PTL DEF Spec

(* A result counts once, however often it is answered and wherever the     *)
(* handler failed before (OnGetBattleResult, OnDecideUserID, UpdateUser):  *)
(* row, peer and record page have the same totals.                         *)
THEOREM TotalsAreRight == Spec => []TotalsRight
<1>1. IInv => TotalsRight
  BY DEF IInv
<1> QED  BY InvariantHolds, <1>1, PTL

(* Cached pages show the counts that users have, and pages in a row show   *)
(* each user once and all of them (rankingPage, GetRegurationData).        *)
THEOREM PagesAreRight == Spec => []RankingPagesRight
<1>1. ASSUME IInv  PROVE PagesShowAll
  <2> SUFFICES ASSUME walk # None
               PROVE  IsInjective(walk.read) /\ (~ walk.more => ToSet(walk.read) = walk.of)
    BY DEF PagesShowAll
  <2>1. PICK c : c = cache[walk.board]
    OBVIOUS
  <2>2. walk.board \in Boards /\ walk.page \in Nat
    BY <1>1 DEF IInv, TypeOK, Reading
  <2>3. c # None /\ c \in Ranked /\ IsInjective(c.users)
    BY <1>1, <2>1, <2>2 DEF IInv, TypeOK, WalkFits, CacheFits
  <2>4. PICK s \in Seq(Users) : s = c.users
    BY <2>3 DEF Ranked
  <2>5. PICK n \in Nat : n = Len(s)
    OBVIOUS
  <2>6. /\ walk.of = ToSet(s) /\ walk.read = SubSeq(s, 1, Upto(walk.page, n))
        /\ walk.more <=> walk.page < LastPage(n)
    BY <1>1, <2>1, <2>4, <2>5 DEF IInv, WalkFits
  <2>7. PICK b \in 0 .. n : b = Upto(walk.page, n)
    BY <2>2, UptoIs
  <2>8. IsInjective(SubSeq(s, 1, b))
    BY <2>3, <2>4, <2>5 DEF IsInjective
  <2>9. ~ walk.more => b = n
    <3>1. LastPage(n) \in Int
      <4>1. CASE n = 0
        BY <4>1 DEF LastPage
      <4>2. CASE n # 0
        <5>1. PICK m \in Nat : m = n + PageSize - 1
          BY <4>2, Constants
        <5>2. m \div PageSize \in Nat
          BY Constants, Division
        <5> QED  BY <4>2, <5>1, <5>2 DEF LastPage
      <4> QED  BY <4>1, <4>2
    <3>2. PICK p \in Nat : p = walk.page
      BY <2>2
    <3>3. PICK l \in Int : l = LastPage(n)
      BY <3>1
    <3>4. p >= l => Upto(p, n) = n
      BY <3>2, <3>3, UptoIs
    <3>5. walk.more <=> p < l
      BY <2>6, <3>2, <3>3
    <3> QED  BY <2>7, <3>2, <3>3, <3>4, <3>5
  <2>10. SubSeq(s, 1, n) = s
    BY <2>5
  <2> QED  BY <2>6, <2>7, <2>8, <2>9, <2>10
<1>2. IInv => RankingPagesRight
  BY <1>1 DEF IInv, RankingPagesRight
<1> QED  BY InvariantHolds, <1>2, PTL

(* Of the uploads of a replay one is taken, and what is recorded is in the *)
(* store (serveReplayUpload, ReplayStore.Put, SetReplayURL).               *)
THEOREM OneReplayIsTaken == Spec => []OneReplay
<1>1. ASSUME IInv, NEW b \in Battles
      PROVE  Cardinality({h \in Uploads : upload[h] = [state |-> "done", battle |-> b]}) <= 1
  <2> DEFINE H == {h \in Uploads : upload[h] = [state |-> "done", battle |-> b]}
  <2>1. \A g, h \in H : g = h
    BY <1>1 DEF IInv, OneTaken, Taken
  <2>2. CASE H = {}
    BY <2>2, FS_EmptySet
  <2>3. CASE H # {}
    <3>1. PICK h : H = {h}
      BY <2>1, <2>3
    <3> HIDE DEF H
    <3>2. Cardinality(H) = 1
      BY <3>1, FS_Singleton
    <3> QED  BY <3>2 DEF H
  <2> QED  BY <2>2, <2>3
<1>2. IInv => OneReplay
  BY <1>1 DEF IInv, OneReplay, UrlStored
<1> QED  BY InvariantHolds, <1>2, PTL

(* What one goroutine writes on a row another does not take back           *)
(* (UpdateBattleRecord, SetReplayURL, IncrementReplayPlayCount and         *)
(* SaveUsedMs write columns of their own).                                 *)
THEOREM UpdatesAreKept == Spec => UpdatesKept
<1>1. IInv /\ [Next]_vars =>
        [\A b \in Battles : \A u \in DOMAIN SideOf[b] :
           record[b][u] # None =>
             /\ record[b][u].url => record'[b][u].url
             /\ record[b][u].ms => record'[b][u].ms
             /\ record[b][u].plays <= record'[b][u].plays]_vars
  BY RowStep, RowAfter DEF IInv
<1> QED  BY InvariantHolds, <1>1, PTL DEF Spec, UpdatesKept
=============================================================================
