---------------------------- MODULE LobbyProofs ----------------------------
(***************************************************************************)
(* Proofs about the lobby's event loop, for any number of connections,     *)
(* users, lobbies, rooms, battles and relays.                              *)
(*                                                                         *)
(* None of the properties is inductive by itself.  That the lists agree    *)
(* needs, besides themselves, that App.users names exactly the open        *)
(* connections, that who is in a room is in a lobby and who is in a lobby  *)
(* is listed there, and that who prepares a room was told of no battle.    *)
(* That a start takes nobody out of another battle needs more: a lobby's   *)
(* entries are of those whose clients asked for them and who are in no     *)
(* room; a client told of a battle has no entry outside a room, and in a   *)
(* room the owner, the only one to start it again, was told as well or was *)
(* put out.  NotPickedAgain is that; without it the entries that stay      *)
(* after a room's battle would pick its members again.                     *)
(*                                                                         *)
(* The parts: what the operators on lists return (Sublist, RemoveFirst,    *)
(* TwoASide, StartBattleUsers); the invariant and its types; what each     *)
(* handler does, as a lemma named for it that sums it up as one of eleven  *)
(* kinds of steps; that every step is of these kinds; that each part of    *)
(* the invariant is kept by every kind; and the theorems.  Then come the   *)
(* answers that players get on their battles (BattleInfo.tla), from the    *)
(* same kinds of steps: the invariant says that whoever asks is still as   *)
(* its battle copied it.  The last part is about the goroutines that feed  *)
(* the event loop (LobbyConn.tla): no wake-up of theirs is lost.           *)
(***************************************************************************)
EXTENDS BattleInfo, LobbyConn, FiniteSetTheorems, SequenceTheorems, TLAPS

-----------------------------------------------------------------------------
(* A set of numbers has a least one. *)
LEMMA Least ==
  ASSUME NEW S \in SUBSET Nat, S # {}
  PROVE  \E m \in S : \A k \in S : m <= k
<1>1. PICK m \in S : \A k \in S : <<k, m>> \notin OpToRel(<, Nat)
  BY WFMin, NatLessThanWellFounded, Zenon
<1>2. \A k \in S : ~ (k < m)
  <2> TAKE k \in S
  <2>1. k \in Nat /\ m \in Nat
    BY <1>1
  <2> QED  BY <1>1, <2>1 DEF OpToRel
<1> QED  BY <1>2

(* A bounded one has a greatest. *)
LEMMA Greatest ==
  ASSUME NEW n \in Nat, NEW S \in SUBSET (1 .. n), S # {}
  PROVE  \E m \in S : \A k \in S : k <= m
<1> DEFINE T == {n - x : x \in S}
<1>1. T \in SUBSET Nat /\ T # {}
  <2>1. \A x \in S : n - x \in Nat
    OBVIOUS
  <2>2. T \subseteq Nat
    BY <2>1
  <2>3. PICK x \in S : TRUE
    OBVIOUS
  <2>4. n - x \in T
    BY <2>3
  <2> QED  BY <2>2, <2>4
<1>2. PICK t \in T : \A k \in T : t <= k
  BY <1>1, Least
<1>3. PICK m \in S : t = n - m
  BY <1>2
<1>4. \A k \in S : k <= m
  <2> TAKE k \in S
  <2>1. n - k \in T
    OBVIOUS
  <2>2. n - m <= n - k
    BY <1>2, <1>3, <2>1
  <2> QED  BY <2>2
<1> QED  BY <1>4

(* The positions of a set before one of them, and how many these are. *)
Below(I, i) == {j \in I : j < i}

(* The positions of a finite set are told apart by how many are before. *)
LEMMA RankOfPosition ==
  ASSUME NEW n \in Nat, NEW I \in SUBSET (1 .. n)
  PROVE  /\ IsFiniteSet(I) /\ Cardinality(I) \in Nat
         /\ \A i \in Nat : IsFiniteSet(Below(I, i)) /\ Cardinality(Below(I, i)) \in Nat
         /\ \A i, j \in I : i < j => Cardinality(Below(I, i)) < Cardinality(Below(I, j))
<1>1. IsFiniteSet(I)
  <2>1. IsFiniteSet(1 .. n)
    BY FS_Interval
  <2> QED  BY <2>1, FS_Subset
<1>2. \A i \in Nat : IsFiniteSet(Below(I, i)) /\ Cardinality(Below(I, i)) \in Nat
  <2> TAKE i \in Nat
  <2>1. Below(I, i) \in SUBSET I
    BY DEF Below
  <2> QED  BY <1>1, <2>1, FS_Subset, FS_CardinalityType
<1>3. ASSUME NEW i \in I, NEW j \in I, i < j
      PROVE  Cardinality(Below(I, i)) < Cardinality(Below(I, j))
  <2>0. i \in Nat /\ j \in Nat /\ I \subseteq Nat
    OBVIOUS
  <2>3. i \in Below(I, j) /\ i \notin Below(I, i)
    BY <1>3, <2>0 DEF Below
  <2>4. Below(I, i) \in SUBSET Below(I, j)
    <3>1. \A x \in I : x < i => x < j
      BY <1>3, <2>0
    <3> QED  BY <3>1 DEF Below
  <2>1. i \in Nat /\ j \in Nat /\ Below(I, i) \in SUBSET Below(I, j) /\ i \in Below(I, j) /\ i \notin Below(I, i)
    BY <2>0, <2>3, <2>4
  <2>2. Cardinality(Below(I, i)) <= Cardinality(Below(I, j))
        /\ Cardinality(Below(I, j)) # Cardinality(Below(I, i))
    BY <1>2, <2>1, FS_Subset
  <2> QED  BY <1>2, <2>1, <2>2
<1> QED  BY <1>1, <1>2, <1>3, FS_CardinalityType

(* With the greatest of the positions below i, the others are below that.  *)
LEMMA OneMoreBelow ==
  ASSUME NEW n \in Nat, NEW I \in SUBSET (1 .. n), NEW B \in SUBSET I, NEW j \in B,
         \A k \in I : k \in B <=> k <= j
  PROVE  Cardinality(B) = Cardinality(Below(I, j)) + 1
<1>a. I \subseteq Nat /\ j \in I /\ j \in Nat
  OBVIOUS
<1>b. j \notin Below(I, j)
  BY <1>a DEF Below
<1>c. \A x : x \in B <=> x \in Below(I, j) \/ x = j
  <2>1. \A x \in I : x <= j <=> x < j \/ x = j
    BY <1>a
  <2> QED  BY <1>a, <2>1 DEF Below
<1>1. B = Below(I, j) \cup {j} /\ j \notin Below(I, j) /\ j \in Nat
  BY <1>a, <1>b, <1>c
<1>2. IsFiniteSet(Below(I, j))
  BY <1>1, RankOfPosition
<1> QED  BY <1>1, <1>2, FS_AddElement

(* For each number up to its size a set of positions has one that as many  *)
(* come before as the number says.                                         *)
LEMMA PositionOfRank ==
  ASSUME NEW n \in Nat, NEW I \in SUBSET (1 .. n), NEW k \in 1 .. Cardinality(I)
  PROVE  \E i \in I : Cardinality(Below(I, i)) = k - 1
<1> DEFINE G == {i \in I : Cardinality(Below(I, i)) >= k - 1}
<1>1. IsFiniteSet(I) /\ Cardinality(I) \in Nat /\ k \in Nat
      /\ \A i \in I : Cardinality(Below(I, i)) \in Nat
  <2>1. /\ IsFiniteSet(I) /\ Cardinality(I) \in Nat
        /\ \A i \in Nat : IsFiniteSet(Below(I, i)) /\ Cardinality(Below(I, i)) \in Nat
    BY RankOfPosition
  <2>2. I \subseteq Nat
    OBVIOUS
  <2> QED  BY <2>1, <2>2
<1>2. I # {}
  BY <1>1, FS_EmptySet
<1>3. PICK g \in I : \A x \in I : x <= g
  BY <1>2, Greatest
<1>4. Cardinality(I) = Cardinality(Below(I, g)) + 1
  BY <1>3, OneMoreBelow
<1>5. G \in SUBSET Nat /\ G # {}
  <2>1. I \subseteq Nat
    OBVIOUS
  <2>2. Cardinality(Below(I, g)) >= k - 1
    <3>1. k <= Cardinality(I)
      BY <1>1
    <3> QED  BY <1>1, <1>3, <1>4, <3>1
  <2> QED  BY <1>3, <2>1, <2>2
<1>6. PICK i \in G : \A x \in G : i <= x
  BY <1>5, Least
<1>7. ASSUME Cardinality(Below(I, i)) # k - 1
      PROVE  FALSE
  <2> HIDE DEF G
  <2>1. i \in I /\ Cardinality(Below(I, i)) \in Nat /\ Cardinality(Below(I, i)) > k - 1
    BY <1>1, <1>6, <1>7 DEF G
  <2>2. Below(I, i) # {} /\ Below(I, i) \in SUBSET (1 .. n) /\ Below(I, i) \in SUBSET I
    <3>1. Below(I, i) \in SUBSET I /\ k - 1 >= 0
      BY DEF Below
    <3>2. Cardinality(Below(I, i)) # 0
      BY <1>1, <2>1, <3>1
    <3> QED  BY <3>1, <3>2, FS_EmptySet
  <2>3. PICK j \in Below(I, i) : \A x \in Below(I, i) : x <= j
    BY <2>2, Greatest, Zenon
  <2>4. j \in I /\ j < i /\ (\A x \in I : x \in Below(I, i) <=> x <= j)
    BY <2>1, <2>3 DEF Below
  <2>5. Cardinality(Below(I, i)) = Cardinality(Below(I, j)) + 1
    BY <2>2, <2>4, OneMoreBelow
  <2>6. j \in G
    BY <1>1, <2>1, <2>4, <2>5 DEF G
  <2>7. i \in Nat /\ j \in Nat
    BY <2>1, <2>4
  <2> QED  BY <1>6, <2>4, <2>6, <2>7
<1> QED  BY <1>6, <1>7

(* What a list has at some of its positions are its elements there, one    *)
(* for each.                                                               *)
LEMMA SublistPositions ==
  ASSUME NEW S, NEW list \in Seq(S), NEW I \in SUBSET DOMAIN list
  PROVE  /\ Sublist(list, I) \in Seq(S)
         /\ Len(Sublist(list, I)) = Cardinality(I)
         /\ IsFiniteSet(I) /\ Cardinality(I) \in Nat
         /\ \E m \in Bijection(1 .. Cardinality(I), I) :
              \A k \in 1 .. Cardinality(I) : Sublist(list, I)[k] = list[m[k]]
<1> DEFINE c == Cardinality(I)
           nth(k) == CHOOSE i \in I : Cardinality({j \in I : j < i}) = k - 1
           m == [k \in 1 .. c |-> nth(k)]
<1>n. PICK n \in Nat : n = Len(list)
  BY LenProperties
<1>1. I \in SUBSET (1 .. n) /\ \A i \in I : list[i] \in S
  BY <1>n, LenProperties, ElementOfSeq
<1>2. /\ IsFiniteSet(I) /\ c \in Nat
      /\ \A i \in Nat : IsFiniteSet(Below(I, i)) /\ Cardinality(Below(I, i)) \in Nat
      /\ \A i, j \in I : i < j => Cardinality(Below(I, i)) < Cardinality(Below(I, j))
  BY <1>1, RankOfPosition
<1>3. ASSUME NEW k \in 1 .. c
      PROVE  nth(k) \in I /\ Cardinality(Below(I, nth(k))) = k - 1
  <2>1. \E i \in I : Cardinality({j \in I : j < i}) = k - 1
    BY <1>1, PositionOfRank DEF Below
  <2> QED  BY <2>1 DEF Below
<1>4. Sublist(list, I) = [k \in 1 .. c |-> list[nth(k)]]
  BY DEF Sublist
<1>5. Sublist(list, I) \in Seq(S) /\ Len(Sublist(list, I)) = c
  <2> HIDE DEF c, nth
  <2>1. \A k \in 1 .. c : list[nth(k)] \in S
    BY <1>1, <1>3
  <2> QED  BY <1>2, <1>4, <2>1
<1>6. m \in Bijection(1 .. c, I)
  <2> HIDE DEF c, nth
  <2>1. m \in [1 .. c -> I]
    BY <1>3
  <2>2. IsInjective(m)
    <3> SUFFICES ASSUME NEW a \in 1 .. c, NEW b \in 1 .. c, m[a] = m[b]
                 PROVE  a = b
      BY <2>1 DEF IsInjective
    <3>1. a \in Nat /\ b \in Nat /\ nth(a) = nth(b)
      BY <1>2
    <3>2. a - 1 = b - 1
      BY <1>3, <3>1
    <3> QED  BY <3>1, <3>2
  <2>3. ASSUME NEW i \in I
        PROVE  \E k \in 1 .. c : m[k] = i
    <3>1. Cardinality(Below(I, i)) \in Nat /\ Cardinality(Below(I, i)) < c
      <4>1. i \in Nat /\ IsFiniteSet(Below(I, i)) /\ Cardinality(Below(I, i)) \in Nat
        BY <1>1, <1>2
      <4>2. Below(I, i) \in SUBSET I /\ i \notin Below(I, i)
        BY <1>1 DEF Below
      <4>3. Cardinality(Below(I, i)) <= Cardinality(I) /\ Cardinality(Below(I, i)) # Cardinality(I)
        BY <1>2, <4>2, FS_Subset
      <4> QED  BY <1>2, <4>1, <4>3 DEF c
    <3> DEFINE k == Cardinality(Below(I, i)) + 1
    <3>2. k \in 1 .. c /\ k - 1 = Cardinality(Below(I, i))
      <4>1. c \in Nat
        BY <1>2
      <4> QED  BY <3>1, <4>1
    <3>3. nth(k) \in I /\ Cardinality(Below(I, nth(k))) = Cardinality(Below(I, i))
      BY <1>3, <3>2
    <3>4. nth(k) = i
      <4>1. ~ (nth(k) < i) /\ ~ (i < nth(k))
        <5> HIDE DEF k
        <5>1. \A x \in I : Cardinality(Below(I, x)) \in Nat
          BY <1>1, <1>2
        <5> QED  BY <1>2, <3>3, <5>1
      <4>2. nth(k) \in Nat /\ i \in Nat
        BY <1>1, <3>3
      <4> QED  BY <4>1, <4>2
    <3>5. m[k] = i
      BY <3>2, <3>4
    <3> QED  BY <3>2, <3>5
  <2> QED  BY <2>1, <2>2, <2>3 DEF Bijection, Injection, Surjection
<1>7. \A k \in 1 .. c : Sublist(list, I)[k] = list[m[k]]
  <2> HIDE DEF c, nth
  <2> QED  BY <1>4
<1> HIDE DEF m
<1> QED  BY <1>2, <1>5, <1>6, <1>7

(* The positions where a list has elements of a set.  A sublist has as     *)
(* many of them as the list at these positions.                            *)
Among(list, T) == {i \in DOMAIN list : list[i] \in T}

(* A sublist has as many elements of a set as its positions are among      *)
(* those of the list.                                                      *)
LEMMA SublistCounts ==
  ASSUME NEW S, NEW list \in Seq(S), NEW I \in SUBSET DOMAIN list, NEW T
  PROVE  /\ IsFiniteSet(Among(list, T) \cap I)
         /\ Cardinality(Among(Sublist(list, I), T)) = Cardinality(Among(list, T) \cap I)
<1> DEFINE c == Cardinality(I)
           sub == Sublist(list, I)
           K == {k \in 1 .. c : sub[k] \in T}
           J == {i \in I : list[i] \in T}
<1>1. /\ sub \in Seq(S) /\ Len(sub) = c /\ IsFiniteSet(I) /\ c \in Nat
      /\ DOMAIN sub = 1 .. c
  BY SublistPositions, LenProperties
<1>2. PICK m \in Bijection(1 .. c, I) : \A k \in 1 .. c : sub[k] = list[m[k]]
  BY SublistPositions
<1>3. IsFiniteSet(K) /\ IsFiniteSet(J)
  <2>1. IsFiniteSet(1 .. c)
    BY <1>1, FS_Interval
  <2>2. K \in SUBSET (1 .. c) /\ J \in SUBSET I
    OBVIOUS
  <2> QED  BY <1>1, <2>1, <2>2, FS_Subset
<1>4. ExistsBijection(K, J)
  <2> DEFINE f == [k \in K |-> m[k]]
  <2> HIDE DEF sub, c
  <2>1. m \in [1 .. c -> I] /\ (\A a, b \in 1 .. c : m[a] = m[b] => a = b)
        /\ (\A i \in I : \E k \in 1 .. c : m[k] = i)
    BY <1>2 DEF Bijection, Injection, Surjection, IsInjective
  <2>2. f \in [K -> J]
    BY <1>2, <2>1
  <2>3. \A i \in J : \E k \in K : f[k] = i
    BY <1>2, <2>1
  <2>4. \A a, b \in K : f[a] = f[b] => a = b
    BY <2>1
  <2>5. f \in Bijection(K, J)
    BY <2>2, <2>3, <2>4 DEF Bijection, Injection, Surjection, IsInjective
  <2> QED  BY <2>5 DEF ExistsBijection
<1>5. Cardinality(J) = Cardinality(K)
  BY <1>3, <1>4, FS_Bijection
<1>6. J = Among(list, T) \cap I /\ K = Among(sub, T)
  <2> HIDE DEF sub, c
  <2> QED  BY <1>1 DEF Among
<1> QED  BY <1>3, <1>5, <1>6

(* What a sublist holds, and that it has nothing twice that the list does  *)
(* not.                                                                    *)
LEMMA SublistMembers ==
  ASSUME NEW S, NEW list \in Seq(S), NEW I \in SUBSET DOMAIN list
  PROVE  /\ Sublist(list, I) \in Seq(S)
         /\ Len(Sublist(list, I)) = Cardinality(I)
         /\ \A x : x \in ToSet(Sublist(list, I)) <=> \E i \in I : list[i] = x
         /\ ToSet(Sublist(list, I)) \subseteq ToSet(list)
         /\ IsInjective(list) => IsInjective(Sublist(list, I))
<1> DEFINE c == Cardinality(I)
           sub == Sublist(list, I)
<1>1. /\ sub \in Seq(S) /\ Len(sub) = c /\ IsFiniteSet(I) /\ c \in Nat
      /\ DOMAIN sub = 1 .. c
  BY SublistPositions, LenProperties
<1>2. PICK m \in Bijection(1 .. c, I) : \A k \in 1 .. c : sub[k] = list[m[k]]
  BY SublistPositions
<1>3. m \in [1 .. c -> I] /\ (\A a, b \in 1 .. c : m[a] = m[b] => a = b)
      /\ (\A i \in I : \E k \in 1 .. c : m[k] = i)
  BY <1>2 DEF Bijection, Injection, Surjection, IsInjective
<1> HIDE DEF sub, c
<1>4. \A x : x \in ToSet(sub) <=> \E i \in I : list[i] = x
  <2> TAKE x
  <2>1. ASSUME x \in ToSet(sub)
        PROVE  \E i \in I : list[i] = x
    <3>1. PICK k \in 1 .. c : sub[k] = x
      BY <1>1, <2>1 DEF ToSet
    <3>2. m[k] \in I
      BY <1>3
    <3> QED  BY <1>2, <3>1, <3>2
  <2>2. ASSUME NEW i \in I, list[i] = x
        PROVE  x \in ToSet(sub)
    <3>1. PICK k \in 1 .. c : m[k] = i
      BY <1>3
    <3> QED  BY <1>1, <1>2, <2>2, <3>1 DEF ToSet
  <2> QED  BY <2>1, <2>2
<1>5. ToSet(sub) \subseteq ToSet(list)
  BY <1>4 DEF ToSet
<1>6. IsInjective(list) => IsInjective(sub)
  BY <1>1, <1>2, <1>3 DEF IsInjective
<1> QED  BY <1>1, <1>4, <1>5, <1>6 DEF sub, c

(* The first k of a set of positions are k, or all. *)
LEMMA FirstPositions ==
  ASSUME NEW n \in Nat, NEW I \in SUBSET (1 .. n), NEW k \in Nat,
         NEW J, J = {i \in I : Cardinality(Below(I, i)) < k}
  PROVE  Cardinality(J) = IF Cardinality(I) > k THEN k ELSE Cardinality(I)
<1>1. IsFiniteSet(I) /\ Cardinality(I) \in Nat
  BY RankOfPosition
<1>2. \A i, j \in I : i < j => Cardinality(Below(I, i)) < Cardinality(Below(I, j))
  BY RankOfPosition
<1>3. \A i \in I : Cardinality(Below(I, i)) \in Nat
  <2>1. \A i \in Nat : IsFiniteSet(Below(I, i)) /\ Cardinality(Below(I, i)) \in Nat
    BY RankOfPosition
  <2>2. I \subseteq Nat
    OBVIOUS
  <2> QED  BY <2>1, <2>2
<1>4. CASE Cardinality(I) > k
  <2>1. k + 1 \in 1 .. Cardinality(I)
    BY <1>1, <1>4
  <2>2. PICK i \in I : Cardinality(Below(I, i)) = (k + 1) - 1
    BY <2>1, PositionOfRank
  <2>3. ASSUME NEW x \in I
        PROVE  Cardinality(Below(I, x)) < k <=> x < i
    <3>1. x \in Nat /\ i \in Nat /\ Cardinality(Below(I, i)) = k
      BY <2>2
    <3>2. CASE x < i
      BY <1>2, <3>1, <3>2
    <3>3. CASE i < x
      BY <1>2, <1>3, <3>1, <3>3
    <3>4. CASE x = i
      BY <3>1, <3>4
    <3> QED  BY <3>1, <3>2, <3>3, <3>4
  <2>4. J = Below(I, i)
    BY <2>3 DEF Below
  <2> QED  BY <1>4, <2>2, <2>4
<1>5. CASE ~ (Cardinality(I) > k)
  <2>1. ASSUME NEW i \in I
        PROVE  Cardinality(Below(I, i)) < k
    <3>1. i \in Nat
      OBVIOUS
    <3>2. Below(I, i) \in SUBSET I /\ i \notin Below(I, i)
      BY <3>1 DEF Below
    <3>3. Cardinality(Below(I, i)) <= Cardinality(I) /\ Cardinality(Below(I, i)) # Cardinality(I)
      BY <1>1, <3>2, FS_Subset
    <3> QED  BY <1>1, <1>3, <1>5, <3>3
  <2>2. J = I
    BY <2>1
  <2> QED  BY <1>5, <2>2
<1> QED  BY <1>4, <1>5

(* A list without one of its positions. *)
LEMMA RemoveAtMembers ==
  ASSUME NEW S, NEW s \in Seq(S), IsInjective(s), NEW i \in 1 .. Len(s)
  PROVE  /\ RemoveAt(s, i) \in Seq(S)
         /\ Len(RemoveAt(s, i)) = Len(s) - 1
         /\ IsInjective(RemoveAt(s, i))
         /\ ToSet(RemoveAt(s, i)) = ToSet(s) \ {s[i]}
<1> DEFINE a == SubSeq(s, 1, i - 1)
           b == SubSeq(s, i + 1, Len(s))
<1>n. PICK n \in Nat : n = Len(s)
  BY LenProperties
<1>1. /\ DOMAIN s = 1 .. n /\ i \in Nat /\ 1 <= i /\ i <= n
      /\ \A j \in 1 .. n : s[j] \in S
  BY <1>n, LenProperties, ElementOfSeq
<1>2. /\ a \in Seq(S) /\ Len(a) = i - 1 /\ \A j \in 1 .. i - 1 : a[j] = s[j]
  <2>1. 1 \in Int /\ i - 1 \in Int /\ \A j \in 1 .. i - 1 : s[j] \in S
    BY <1>1
  <2>2. /\ a \in Seq(S) /\ Len(a) = IF 1 <= i - 1 THEN (i - 1) - 1 + 1 ELSE 0
        /\ \A j \in 1 .. (i - 1) - 1 + 1 : a[j] = s[1 + j - 1]
    BY <2>1, SubSeqProperties
  <2> QED  BY <1>1, <2>2
<1>3. /\ b \in Seq(S) /\ Len(b) = n - i /\ \A j \in 1 .. n - i : b[j] = s[i + j]
  <2>1. i + 1 \in Int /\ n \in Int /\ \A j \in i + 1 .. n : s[j] \in S
    BY <1>1
  <2>2. /\ b \in Seq(S) /\ Len(b) = IF i + 1 <= n THEN n - (i + 1) + 1 ELSE 0
        /\ \A j \in 1 .. n - (i + 1) + 1 : b[j] = s[(i + 1) + j - 1]
    BY <1>n, <2>1, SubSeqProperties
  <2> QED  BY <1>1, <2>2
<1>4. RemoveAt(s, i) = a \o b
  BY DEF RemoveAt
<1> DEFINE c == RemoveAt(s, i)
<1> HIDE DEF a, b
<1>5. /\ c \in Seq(S) /\ Len(c) = n - 1 /\ DOMAIN c = 1 .. n - 1
      /\ \A j \in 1 .. n - 1 : c[j] = IF j < i THEN s[j] ELSE s[j + 1]
  <2>1. /\ a \o b \in Seq(S) /\ Len(a \o b) = Len(a) + Len(b)
        /\ \A j \in 1 .. Len(a) + Len(b) : (a \o b)[j] = IF j <= Len(a) THEN a[j] ELSE b[j - Len(a)]
    BY <1>2, <1>3, ConcatProperties
  <2>2. Len(c) = n - 1 /\ Len(a) + Len(b) = n - 1 /\ c \in Seq(S)
    BY <1>1, <1>2, <1>3, <1>4, <2>1
  <2>3. ASSUME NEW j \in 1 .. n - 1
        PROVE  c[j] = IF j < i THEN s[j] ELSE s[j + 1]
    <3>1. CASE j < i
      <4>1. j \in 1 .. i - 1 /\ j <= Len(a)
        BY <1>1, <1>2, <3>1
      <4> QED  BY <1>2, <1>4, <2>1, <2>2, <3>1, <4>1
    <3>2. CASE ~ (j < i)
      <4>1. j - (i - 1) \in 1 .. n - i /\ ~ (j <= Len(a)) /\ j - Len(a) = j - (i - 1) /\ i + (j - (i - 1)) = j + 1
        BY <1>1, <1>2, <3>2
      <4>2. c[j] = b[j - (i - 1)]
        BY <1>4, <2>1, <2>2, <4>1
      <4>3. b[j - (i - 1)] = s[j + 1]
        BY <1>3, <4>1
      <4> QED  BY <3>2, <4>2, <4>3
    <3> QED  BY <3>1, <3>2
  <2> QED  BY <2>2, <2>3, LenProperties
<1> HIDE DEF c
<1>6. \A x, y \in 1 .. n : s[x] = s[y] => x = y
  BY <1>1 DEF IsInjective
<1>7. IsInjective(c)
  <2> SUFFICES ASSUME NEW x \in 1 .. n - 1, NEW y \in 1 .. n - 1, c[x] = c[y]
               PROVE  x = y
    BY <1>5 DEF IsInjective
  <2>1. PICK k \in 1 .. n : k = (IF x < i THEN x ELSE x + 1) /\ c[x] = s[k]
    BY <1>1, <1>5
  <2>2. PICK l \in 1 .. n : l = (IF y < i THEN y ELSE y + 1) /\ c[y] = s[l]
    BY <1>1, <1>5
  <2>3. k = l
    BY <1>6, <2>1, <2>2
  <2> QED  BY <1>1, <2>1, <2>2, <2>3
<1>8. \A x : x \in ToSet(c) <=> x \in ToSet(s) /\ x # s[i]
  <2> TAKE x
  <2>1. ASSUME x \in ToSet(c)
        PROVE  x \in ToSet(s) /\ x # s[i]
    <3>1. PICK j \in 1 .. n - 1 : c[j] = x
      BY <1>5, <2>1 DEF ToSet
    <3>2. PICK k \in 1 .. n : x = s[k] /\ k # i
      BY <1>1, <1>5, <3>1
    <3> QED  BY <1>1, <1>6, <3>2 DEF ToSet
  <2>2. ASSUME x \in ToSet(s), x # s[i]
        PROVE  x \in ToSet(c)
    <3>1. PICK k \in 1 .. n : s[k] = x
      BY <1>1, <2>2 DEF ToSet
    <3>2. k # i
      BY <2>2, <3>1
    <3>3. PICK j \in 1 .. n - 1 : c[j] = x
      <4>1. CASE k < i
        <5>1. k \in 1 .. n - 1 /\ c[k] = x
          BY <1>1, <1>5, <3>1, <4>1
        <5> QED  BY <5>1
      <4>2. CASE i < k
        <5>1. k - 1 \in 1 .. n - 1 /\ ~ (k - 1 < i) /\ (k - 1) + 1 = k
          BY <1>1, <4>2
        <5>2. c[k - 1] = x
          BY <1>5, <3>1, <5>1
        <5> QED  BY <5>1, <5>2
      <4> QED  BY <1>1, <3>2, <4>1, <4>2
    <3> QED  BY <1>5, <3>3 DEF ToSet
  <2> QED  BY <2>1, <2>2
<1> QED  BY <1>n, <1>5, <1>7, <1>8 DEF c

(* A list without an element that it may have, or with one more. *)
LEMMA RemoveFirstMembers ==
  ASSUME NEW S, NEW s \in Seq(S), IsInjective(s), NEW x
  PROVE  /\ RemoveFirst(s, x) \in Seq(S)
         /\ IsInjective(RemoveFirst(s, x))
         /\ ToSet(RemoveFirst(s, x)) = ToSet(s) \ {x}
<1>1. DOMAIN s = 1 .. Len(s) /\ Len(s) \in Nat
  BY LenProperties
<1>2. CASE \E i \in 1 .. Len(s) : s[i] = x
  <2>1. PICK i \in 1 .. Len(s) : s[i] = x
    BY <1>2
  <2>2. {j \in 1 .. Len(s) : s[j] = x} = {i}
    BY <1>1, <2>1 DEF IsInjective
  <2>3. Min({i}) = i
    BY <1>1 DEF Min
  <2>4. SelectInSeq(s, LAMBDA v : v = x) = i
    BY <2>2, <2>3 DEF SelectInSeq
  <2>5. RemoveFirst(s, x) = RemoveAt(s, i)
    BY <1>2, <2>4 DEF RemoveFirst
  <2> QED  BY <2>1, <2>5, RemoveAtMembers
<1>3. CASE ~ \E i \in 1 .. Len(s) : s[i] = x
  <2>1. RemoveFirst(s, x) = s
    BY <1>3 DEF RemoveFirst
  <2>2. x \notin ToSet(s)
    BY <1>1, <1>3 DEF ToSet
  <2> QED  BY <2>1, <2>2
<1> QED  BY <1>2, <1>3

(* A list with one more element. *)
LEMMA AppendMembers ==
  ASSUME NEW S, NEW s \in Seq(S), NEW x \in S
  PROVE  /\ Append(s, x) \in Seq(S) /\ Len(Append(s, x)) = Len(s) + 1
         /\ ToSet(Append(s, x)) = ToSet(s) \cup {x}
         /\ IsInjective(s) /\ x \notin ToSet(s) => IsInjective(Append(s, x))
<1> DEFINE t == Append(s, x)
<1>1. /\ t \in Seq(S) /\ Len(t) = Len(s) + 1
      /\ \A i \in 1 .. Len(s) : t[i] = s[i]
      /\ t[Len(s) + 1] = x
  BY AppendProperties
<1> HIDE DEF t
<1>2. Len(s) \in Nat /\ DOMAIN s = 1 .. Len(s) /\ DOMAIN t = 1 .. Len(s) + 1
  BY <1>1, LenProperties
<1>3. \A i \in 1 .. Len(s) + 1 : i \in 1 .. Len(s) \/ i = Len(s) + 1
  BY <1>2
<1>4. \A y : y \in ToSet(t) <=> y \in ToSet(s) \cup {x}
  <2>1. 1 .. Len(s) \subseteq 1 .. Len(s) + 1 /\ Len(s) + 1 \in 1 .. Len(s) + 1
    BY <1>2
  <2> QED  BY <1>1, <1>2, <1>3, <2>1 DEF ToSet
<1>5. IsInjective(s) /\ x \notin ToSet(s) => IsInjective(t)
  BY <1>1, <1>2, <1>3 DEF ToSet, IsInjective
<1> QED  BY <1>1, <1>4, <1>5 DEF t

(* A list without the one connection of a user. *)
LEMMA RemoveUserMembers ==
  ASSUME NEW s \in Seq(Conns), IsInjective(s), NEW p \in Conns, p \in ToSet(s)
  PROVE  /\ RemoveFirstMatch(s, LAMBDA q : UserOf[q] = UserOf[p]) \in Seq(Conns)
         /\ IsInjective(RemoveFirstMatch(s, LAMBDA q : UserOf[q] = UserOf[p]))
         /\ ToSet(RemoveFirstMatch(s, LAMBDA q : UserOf[q] = UserOf[p])) = ToSet(s) \ {p}
<1>1. DOMAIN s = 1 .. Len(s) /\ Len(s) \in Nat /\ \A j \in 1 .. Len(s) : s[j] \in Conns
  BY LenProperties, ElementOfSeq
<1>2. PICK i \in 1 .. Len(s) : s[i] = p
  BY <1>1 DEF ToSet
<1>3. \A j \in 1 .. Len(s) : UserOf[s[j]] = UserOf[p] <=> j = i
  BY <1>1, <1>2, OneConnectionEach DEF IsInjective
<1>4. {j \in 1 .. Len(s) : UserOf[s[j]] = UserOf[p]} = {i}
  BY <1>3
<1>5. Min({i}) = i
  BY <1>1 DEF Min
<1>6. SelectInSeq(s, LAMBDA q : UserOf[q] = UserOf[p]) = i
  BY <1>4, <1>5 DEF SelectInSeq
<1>7. RemoveFirstMatch(s, LAMBDA q : UserOf[q] = UserOf[p]) = RemoveAt(s, i)
  BY <1>3, <1>6 DEF RemoveFirstMatch
<1>8. /\ RemoveAt(s, i) \in Seq(Conns) /\ IsInjective(RemoveAt(s, i))
      /\ ToSet(RemoveAt(s, i)) = ToSet(s) \ {p}
  BY <1>2, RemoveAtMembers
<1> QED  BY <1>7, <1>8, Zenon

(* Who fights for a list of connections: members of it with a side, the    *)
(* first two of each side.                                                 *)
LEMMA TwoASideFacts ==
  ASSUME NEW cs, NEW list \in Seq(Conns)
  PROVE  /\ TwoASide(cs, list) \in Seq(Conns)
         /\ ToSet(TwoASide(cs, list)) \subseteq ToSet(list)
         /\ IsInjective(list) => IsInjective(TwoASide(cs, list))
         /\ \A q \in ToSet(TwoASide(cs, list)) : cs[q].entry # None
         /\ \A side : side # None =>
              OnSide(cs, TwoASide(cs, list), side)
                = IF OnSide(cs, list, side) > 2 THEN 2 ELSE OnSide(cs, list, side)
<1> DEFINE rank(i) == Cardinality({j \in 1 .. i - 1 : cs[list[j]].entry = cs[list[i]].entry})
           I == {i \in DOMAIN list : cs[list[i]].entry # None /\ rank(i) < 2}
           act == TwoASide(cs, list)
<1>n. PICK n \in Nat : n = Len(list)
  BY LenProperties
<1>1. DOMAIN list = 1 .. n /\ \A i \in 1 .. n : list[i] \in Conns
  BY <1>n, LenProperties, ElementOfSeq
<1>2. act = Sublist(list, I) /\ I \in SUBSET DOMAIN list
  BY DEF TwoASide
<1>3. /\ act \in Seq(Conns) /\ ToSet(act) \subseteq ToSet(list)
      /\ IsInjective(list) => IsInjective(act)
      /\ \A x : x \in ToSet(act) <=> \E i \in I : list[i] = x
  <2> HIDE DEF act, I
  <2> QED  BY <1>2, SublistMembers
<1>4. \A q \in ToSet(act) : cs[q].entry # None
  <2> HIDE DEF act, rank
  <2> QED  BY <1>3
<1>5. ASSUME NEW side, side # None
      PROVE  OnSide(cs, act, side) = IF OnSide(cs, list, side) > 2 THEN 2 ELSE OnSide(cs, list, side)
  <2> DEFINE T == {q \in Conns : cs[q].entry = side}
             M == {i \in 1 .. n : cs[list[i]].entry = side}
             J == {i \in M : Cardinality(Below(M, i)) < 2}
  <2>1. Cardinality(Among(act, T)) = Cardinality(Among(list, T) \cap I)
    <3> HIDE DEF act, I, T
    <3> QED  BY <1>2, SublistCounts
  <2>2. OnSide(cs, act, side) = Cardinality(Among(act, T))
    <3> HIDE DEF act
    <3>1. \A k \in DOMAIN act : act[k] \in Conns
      BY <1>3, LenProperties, ElementOfSeq
    <3>2. Among(act, T) = {k \in DOMAIN act : cs[act[k]].entry = side}
      BY <3>1 DEF Among
    <3> QED  BY <3>2 DEF OnSide
  <2>3. Among(list, T) \cap I = J
    <3>1. ASSUME NEW i \in M
          PROVE  {j \in 1 .. i - 1 : cs[list[j]].entry = cs[list[i]].entry} = Below(M, i)
      <4>1. i \in 1 .. n /\ cs[list[i]].entry = side
        OBVIOUS
      <4>2. \A j : j \in 1 .. i - 1 <=> j \in 1 .. n /\ j < i
        BY <4>1
      <4> QED  BY <4>1, <4>2 DEF Below
    <3>2. \A i \in M : rank(i) = Cardinality(Below(M, i))
      BY <3>1
    <3>3. ASSUME NEW i \in 1 .. n
          PROVE  list[i] \in T <=> i \in M
      BY <1>1
    <3> HIDE DEF M, T, rank
    <3>4. \A i \in M : i \in DOMAIN list /\ cs[list[i]].entry # None
      BY <1>1, <1>5 DEF M
    <3> QED  BY <1>1, <3>2, <3>3, <3>4 DEF Among
  <2>4. Cardinality(J) = IF Cardinality(M) > 2 THEN 2 ELSE Cardinality(M)
    <3>1. M \in SUBSET (1 .. n) /\ 2 \in Nat /\ J = {i \in M : Cardinality(Below(M, i)) < 2}
      OBVIOUS
    <3> HIDE DEF M, J
    <3> QED  BY <3>1, FirstPositions, Zenon
  <2>5. OnSide(cs, list, side) = Cardinality(M)
    BY <1>1 DEF OnSide
  <2> HIDE DEF act, I, T, M, J
  <2> QED  BY <2>1, <2>2, <2>3, <2>4, <2>5
<1> HIDE DEF act, I
<1> QED  BY <1>3, <1>4, <1>5 DEF act

(* How many of a list are on a side. *)
LEMMA OnSideCounts ==
  ASSUME NEW cs, NEW list \in Seq(Conns), NEW side
  PROVE  OnSide(cs, list, side) \in Nat /\ OnSide(cs, list, side) <= Len(list)
<1>1. Len(list) \in Nat /\ DOMAIN list = 1 .. Len(list)
  BY LenProperties
<1>2. IsFiniteSet(1 .. Len(list)) /\ Cardinality(1 .. Len(list)) = Len(list)
  BY <1>1, FS_Interval
<1>3. {i \in DOMAIN list : cs[list[i]].entry = side} \in SUBSET (1 .. Len(list))
  BY <1>1
<1> QED  BY <1>2, <1>3, FS_Subset, FS_CardinalityType DEF OnSide

(* Members of a list with one sync fingerprint. *)
LEMMA AlikeFacts ==
  ASSUME NEW list \in Seq(Conns), NEW sync
  PROVE  /\ Alike(list, sync) \in Seq(Conns)
         /\ ToSet(Alike(list, sync)) \subseteq ToSet(list)
         /\ IsInjective(list) => IsInjective(Alike(list, sync))
         /\ \A q \in ToSet(Alike(list, sync)) : conn[q].sync = sync
<1> DEFINE I == {i \in DOMAIN list : conn[list[i]].sync = sync}
<1>1. Alike(list, sync) = Sublist(list, I) /\ I \in SUBSET DOMAIN list
  BY DEF Alike
<1>2. /\ Sublist(list, I) \in Seq(Conns) /\ ToSet(Sublist(list, I)) \subseteq ToSet(list)
      /\ IsInjective(list) => IsInjective(Sublist(list, I))
      /\ \A x : x \in ToSet(Sublist(list, I)) <=> \E i \in I : list[i] = x
  <2> HIDE DEF I
  <2> QED  BY <1>1, SublistMembers
<1>3. \A q \in ToSet(Sublist(list, I)) : conn[q].sync = sync
  BY <1>2
<1> QED  BY <1>1, <1>2, <1>3

(* A start of a list has no more of a side than the list. *)
LEMMA AlikePrefix ==
  ASSUME NEW cs, NEW list \in Seq(Conns), NEW n \in DOMAIN list, NEW sync, NEW side
  PROVE  OnSide(cs, Alike(SubSeq(list, 1, n), sync), side) <= OnSide(cs, Alike(list, sync), side)
<1> DEFINE pre == SubSeq(list, 1, n)
           T == {q \in Conns : cs[q].entry = side}
           I(s) == {i \in DOMAIN s : conn[s[i]].sync = sync}
<1>1. Len(list) \in Nat /\ DOMAIN list = 1 .. Len(list) /\ \A i \in 1 .. Len(list) : list[i] \in Conns
  BY LenProperties, ElementOfSeq
<1>2. pre \in Seq(Conns) /\ DOMAIN pre = 1 .. n /\ \A i \in 1 .. n : pre[i] = list[i]
  <2>1. n \in Int /\ 1 <= n /\ \A i \in 1 .. n : list[i] \in Conns
    BY <1>1
  <2>2. /\ pre \in Seq(Conns) /\ Len(pre) = IF 1 <= n THEN n - 1 + 1 ELSE 0
        /\ \A i \in 1 .. n - 1 + 1 : pre[i] = list[1 + i - 1]
    BY <2>1, SubSeqProperties
  <2>3. DOMAIN pre = 1 .. Len(pre) /\ Len(pre) = n
    BY <2>1, <2>2, LenProperties
  <2> QED  BY <2>1, <2>2, <2>3
<1>3. ASSUME NEW s \in Seq(Conns)
      PROVE  /\ IsFiniteSet(Among(s, T) \cap I(s))
             /\ OnSide(cs, Alike(s, sync), side) = Cardinality(Among(s, T) \cap I(s))
  <2> DEFINE sub == Sublist(s, I(s))
  <2>1. I(s) \in SUBSET DOMAIN s /\ Alike(s, sync) = sub
    BY DEF Alike
  <2>2. /\ IsFiniteSet(Among(s, T) \cap I(s))
        /\ Cardinality(Among(sub, T)) = Cardinality(Among(s, T) \cap I(s))
    <3> HIDE DEF I, T
    <3> QED  BY <2>1, SublistCounts
  <2>3. sub \in Seq(Conns)
    <3> HIDE DEF I
    <3> QED  BY <2>1, SublistMembers
  <2> HIDE DEF sub
  <2>4. \A k \in DOMAIN sub : sub[k] \in Conns
    BY <2>3, LenProperties, ElementOfSeq
  <2>5. Among(sub, T) = {k \in DOMAIN sub : cs[sub[k]].entry = side}
    BY <2>4 DEF Among
  <2> HIDE DEF I, T
  <2> QED  BY <2>1, <2>2, <2>5 DEF OnSide
<1>4. (Among(pre, T) \cap I(pre)) \in SUBSET (Among(list, T) \cap I(list))
  <2> HIDE DEF pre, T
  <2>1. 1 .. n \subseteq 1 .. Len(list)
    BY <1>1
  <2> QED  BY <1>1, <1>2, <2>1 DEF Among
<1> HIDE DEF pre, I, T
<1>5. Cardinality(Among(pre, T) \cap I(pre)) <= Cardinality(Among(list, T) \cap I(list))
  BY <1>3, <1>4, FS_Subset
<1> QED  BY <1>2, <1>3, <1>5 DEF pre

(* The connections behind a list of users that a lobby lists. *)
LEMMA EntryConnsFacts ==
  ASSUME NEW l \in Lobbies, NEW es \in Seq(Users), IsInjective(es),
         \A u \in Users : lobbys[l].users[u] # None =>
                            lobbys[l].users[u] \in Conns /\ UserOf[lobbys[l].users[u]] = u
  PROVE  /\ EntryConns(l, es) \in Seq(Conns) /\ IsInjective(EntryConns(l, es))
         /\ \A q \in ToSet(EntryConns(l, es)) :
              UserOf[q] \in ToSet(es) /\ lobbys[l].users[UserOf[q]] = q
<1> DEFINE I == {i \in DOMAIN es : lobbys[l].users[es[i]] # None}
           here == Sublist(es, I)
           ec == [i \in DOMAIN here |-> lobbys[l].users[here[i]]]
<1>1. EntryConns(l, es) = ec /\ I \in SUBSET DOMAIN es
  BY DEF EntryConns
<1>2. /\ here \in Seq(Users) /\ ToSet(here) \subseteq ToSet(es) /\ IsInjective(here)
      /\ \A x : x \in ToSet(here) <=> \E i \in I : es[i] = x
  <2> HIDE DEF I
  <2> QED  BY <1>1, SublistMembers
<1>3. \A x \in ToSet(here) : lobbys[l].users[x] # None
  <2> HIDE DEF here
  <2> QED  BY <1>2
<1> HIDE DEF here
<1>4. Len(here) \in Nat /\ DOMAIN here = 1 .. Len(here)
  BY <1>2, LenProperties
<1>5. \A i \in DOMAIN here : here[i] \in Users /\ here[i] \in ToSet(here)
  BY <1>2, <1>4, ElementOfSeq DEF ToSet
<1>6. \A i \in DOMAIN here : ec[i] \in Conns /\ UserOf[ec[i]] = here[i]
  BY <1>3, <1>5
<1>7. DOMAIN ec = DOMAIN here /\ ec \in Seq(Conns)
  BY <1>4, <1>6
<1>8. IsInjective(ec)
  BY <1>2, <1>6, <1>7 DEF IsInjective
<1>9. ASSUME NEW q \in ToSet(ec)
      PROVE  UserOf[q] \in ToSet(es) /\ lobbys[l].users[UserOf[q]] = q
  <2>1. PICK i \in DOMAIN here : q = ec[i]
    BY <1>7 DEF ToSet
  <2> QED  BY <1>2, <1>5, <1>6, <2>1
<1> HIDE DEF ec
<1> QED  BY <1>1, <1>7, <1>8, <1>9

(* A list of connections is as long as its sides together have. *)
LEMMA SidesTogether ==
  ASSUME NEW cs, NEW list \in Seq(Conns),
         \A q \in ToSet(list) : cs[q].entry \in {Aeug, Titans}
  PROVE  OnSide(cs, list, Aeug) + OnSide(cs, list, Titans) = Len(list)
<1> DEFINE A == {i \in DOMAIN list : cs[list[i]].entry = Aeug}
           B == {i \in DOMAIN list : cs[list[i]].entry = Titans}
<1>1. Len(list) \in Nat /\ DOMAIN list = 1 .. Len(list) /\ \A i \in DOMAIN list : list[i] \in ToSet(list)
  BY LenProperties DEF ToSet
<1>2. IsFiniteSet(1 .. Len(list)) /\ Cardinality(1 .. Len(list)) = Len(list)
  BY <1>1, FS_Interval
<1>3. A \cup B = 1 .. Len(list) /\ A \cap B = {}
  BY <1>1, LobbyAssumption
<1>4. IsFiniteSet(A) /\ IsFiniteSet(B)
  BY <1>1, <1>2, FS_Subset
<1> HIDE DEF A, B
<1>5. Cardinality(A \cup B) = Cardinality(A) + Cardinality(B) - Cardinality(A \cap B)
  BY <1>4, FS_Union
<1>6. Cardinality(A) \in Nat /\ Cardinality(B) \in Nat /\ Cardinality(A \cap B) = 0
  BY <1>3, <1>4, FS_CardinalityType, FS_EmptySet
<1>7. Cardinality(A) + Cardinality(B) = Len(list)
  <2>1. Cardinality(A \cup B) = Len(list)
    BY <1>2, <1>3
  <2> QED  BY <1>5, <1>6, <2>1
<1> QED  BY <1>7 DEF OnSide, A, B

(* Who fights in a lobby's battle that can start: alike, and enough of     *)
(* each side.                                                              *)
LEMMA StartersFacts ==
  ASSUME NEW l, NEW cs, NEW list \in Seq(Conns)
  PROVE  /\ StartBattleUsers(l, cs, list) \in Seq(Conns)
         /\ ToSet(StartBattleUsers(l, cs, list)) \subseteq ToSet(list)
         /\ IsInjective(list) => IsInjective(StartBattleUsers(l, cs, list))
         /\ \A q \in ToSet(StartBattleUsers(l, cs, list)) : cs[q].entry # None
         /\ \E sync : \A q \in ToSet(StartBattleUsers(l, cs, list)) : conn[q].sync = sync
         /\ \A side \in {Aeug, Titans} :
              side # None => OnSide(cs, StartBattleUsers(l, cs, list), side) \in 0 .. 2
         /\ Ready(l, cs, list) # {} /\ None \notin {Aeug, Titans} =>
              LobbyCanStart(l, OnSide(cs, StartBattleUsers(l, cs, list), Aeug),
                               OnSide(cs, StartBattleUsers(l, cs, list), Titans))
<1> DEFINE n == IF Ready(l, cs, list) = {} THEN 1 ELSE Min(Ready(l, cs, list))
           sync == conn[list[n]].sync
           alike == Alike(list, sync)
           sb == StartBattleUsers(l, cs, list)
<1>1. Len(list) \in Nat /\ DOMAIN list = 1 .. Len(list)
  BY LenProperties
<1>2. CASE list = <<>>
  <2>1. sb = <<>>
    BY <1>2 DEF StartBattleUsers
  <2>2. DOMAIN sb = {} /\ ToSet(sb) = {} /\ Ready(l, cs, list) = {}
    BY <1>2, <2>1 DEF ToSet, Ready
  <2>3. \A side : OnSide(cs, sb, side) = 0
    BY <2>2, FS_EmptySet DEF OnSide
  <2> HIDE DEF n, sync, alike, sb
  <2>4. sb \in Seq(Conns) /\ IsInjective(sb)
    BY <2>1, <2>2 DEF IsInjective
  <2> QED  BY <2>2, <2>3, <2>4 DEF sb
<1>3. CASE list # <<>>
  <2>1. sb = TwoASide(cs, alike)
    BY <1>3 DEF StartBattleUsers
  <2>2. /\ alike \in Seq(Conns) /\ ToSet(alike) \subseteq ToSet(list)
        /\ IsInjective(list) => IsInjective(alike)
        /\ \A q \in ToSet(alike) : conn[q].sync = sync
    <3> HIDE DEF sync
    <3> QED  BY AlikeFacts
  <2>3. /\ sb \in Seq(Conns) /\ ToSet(sb) \subseteq ToSet(alike)
        /\ IsInjective(alike) => IsInjective(sb)
        /\ \A q \in ToSet(sb) : cs[q].entry # None
        /\ \A side : side # None =>
             OnSide(cs, sb, side) = IF OnSide(cs, alike, side) > 2 THEN 2 ELSE OnSide(cs, alike, side)
    <3> HIDE DEF sb, alike
    <3> QED  BY <2>1, <2>2, TwoASideFacts
  <2>4. \A side : OnSide(cs, alike, side) \in Nat
    <3> HIDE DEF alike
    <3> QED  BY <2>2, OnSideCounts
  <2>5. ASSUME Ready(l, cs, list) # {}, None \notin {Aeug, Titans}
        PROVE  LobbyCanStart(l, OnSide(cs, sb, Aeug), OnSide(cs, sb, Titans))
    <3>1. Ready(l, cs, list) \in SUBSET Nat /\ n = Min(Ready(l, cs, list))
      BY <1>1, <2>5 DEF Ready
    <3>2. n \in Ready(l, cs, list)
      <4>1. \E m \in Ready(l, cs, list) : \A k \in Ready(l, cs, list) : m <= k
        BY <2>5, <3>1, Least, Zenon
      <4> QED  BY <3>1, <4>1 DEF Min
    <3> DEFINE group == Alike(SubSeq(list, 1, n), sync)
    <3>3. n \in DOMAIN list /\ LobbyCanStart(l, OnSide(cs, group, Aeug), OnSide(cs, group, Titans))
      <4> HIDE DEF n
      <4> QED  BY <3>2 DEF Ready
    <3>4. SubSeq(list, 1, n) \in Seq(Conns)
      <4> HIDE DEF n, sync
      <4>1. n \in Int /\ \A i \in 1 .. n : list[i] \in Conns
        BY <1>1, <3>3, ElementOfSeq
      <4> QED  BY <4>1, SubSeqProperties
    <3>5. ASSUME NEW side
          PROVE  OnSide(cs, group, side) \in Nat /\ OnSide(cs, group, side) <= OnSide(cs, alike, side)
      <4> HIDE DEF n, sync
      <4>1. OnSide(cs, group, side) \in Nat
        BY <3>4, AlikeFacts, OnSideCounts
      <4> QED  BY <3>3, <4>1, AlikePrefix
    <3> HIDE DEF n, sync, alike, sb, group
    <3>6. PICK a, t, b, u : /\ a = OnSide(cs, group, Aeug) /\ t = OnSide(cs, group, Titans)
                            /\ b = OnSide(cs, sb, Aeug) /\ u = OnSide(cs, sb, Titans)
      OBVIOUS
    <3>7. /\ a \in Nat /\ t \in Nat /\ b \in Nat /\ u \in Nat
          /\ a <= b \/ b = 2
          /\ t <= u \/ u = 2
      BY <2>3, <2>4, <2>5, <3>5, <3>6
    <3>8. LobbyCanStart(l, a, t)
      BY <3>3, <3>6
    <3>9. LobbyCanStart(l, b, u)
      BY <3>7, <3>8 DEF LobbyCanStart
    <3> QED  BY <3>6, <3>9
  <2> HIDE DEF n, sync, alike, sb
  <2>6. \A side \in {Aeug, Titans} : side # None => OnSide(cs, sb, side) \in 0 .. 2
    BY <2>3, <2>4
  <2>7. \A q \in ToSet(sb) : conn[q].sync = sync
    BY <2>2, <2>3
  <2>8. ToSet(sb) \subseteq ToSet(list) /\ (IsInjective(list) => IsInjective(sb))
    BY <2>2, <2>3
  <2> QED  BY <2>3, <2>5, <2>6, <2>7, <2>8 DEF sb
<1> QED  BY <1>2, <1>3

(* A user is logged in on a connection exactly while that is open. *)
LoggedIn ==
  /\ \A u \in Users : users[u] # None =>
       users[u] \in Conns /\ UserOf[users[u]] = u /\ conn[users[u]].state = "in"
  /\ \A p \in Conns : conn[p].state = "in" => users[UserOf[p]] = p

(* Who is in a lobby is logged in and listed there, who is in a room is in *)
(* a lobby.                                                                *)
Placed ==
  \A p \in Conns :
    /\ conn[p].lobby # 0 => conn[p].state = "in" /\ lobbys[conn[p].lobby].users[UserOf[p]] = p
    /\ conn[p].room # 0 => conn[p].lobby # 0

(* Who prepares a room was not told of a battle; who has no members has no *)
(* owner.                                                                  *)
Preparing ==
  /\ \A p \in Conns : client[p].preparing => conn[p].room # 0 /\ client[p].notice = "no"
  /\ \A l \in Lobbies, r \in Rooms : rooms[l][r].users = <<>> => rooms[l][r].owner = None

(* A lobby's entries are of users who asked for them, or were told of a    *)
(* battle, and who are in no room.                                         *)
EntriesEngaged ==
  \A l \in Lobbies : \A u \in ToSet(lobbys[l].entries) :
    LET p == lobbys[l].users[u] IN Engaged(p) /\ conn[p].room = 0

(* Nobody can start room r of lobby l: its owner was told of a battle, or  *)
(* that the room is removed.                                               *)
Blocked(l, r) ==
  \A o \in Conns : UserOf[o] = rooms[l][r].owner => client[o].notice # "no" \/ client[o].removed

(* Whoever was told of a battle is not picked for another: it has no entry *)
(* for the lobby, and nobody can start the room it is in.                  *)
NotPickedAgain ==
  \A p \in Conns :
    client[p].notice # "no" =>
      /\ client[p].notice = "sent" => conn[p].lobby # 0
      /\ conn[p].room = 0 => conn[p].entry = None
      /\ conn[p].room # 0 => Blocked(conn[p].lobby, conn[p].room)

(* The fingerprints there are, and the battles made with them. *)
Syncs == {None} \cup UNION {SyncsOf[p] : p \in Conns}
BattleRecs ==
  [lobby : Lobbies, room : Rooms \cup {0}, whole : BOOLEAN, users : Seq(Users),
   sides : Seq(Sides), syncs : SUBSET Syncs]

(* Whoever has a battle, or went to one, is a user of it. *)
InBattle ==
  /\ made \in Seq(BattleRecs)
  /\ \A p \in Conns : conn[p].battle # 0 => UserOf[p] \in ToSet(made[conn[p].battle].users)
  /\ \A u \in Users : battles[u] # 0 => u \in ToSet(made[battles[u]].users)

(* Who meets after a battle is in no lobby. *)
Meeting == \A p \in Conns : client[p].meets => conn[p].lobby = 0 /\ conn[p].after

(* The inductive invariant. *)
IInv ==
  /\ TypeOK /\ LoggedIn /\ LobbyListsPresent /\ Placed
  /\ Preparing /\ RoomsAgree /\ RoomsNotStranded
  /\ EntriesOnce /\ EntriesEngaged
  /\ InBattle /\ NotPickedAgain /\ SameBattle /\ Meeting
  /\ RoomsShown /\ FairBattles

-----------------------------------------------------------------------------
(* The types of an AppPeer, a client, a room, a lobby and a view of a      *)
(* room.                                                                   *)
ConnRecs(n) ==
  [state : {"closed", "in", "out"}, lobby : Lobbies \cup {0},
   room : Rooms \cup {0}, battle : 0 .. n,
   entry : Sides \cup {None}, after : BOOLEAN, sync : Syncs]
ClientRecs == [entered : BOOLEAN, preparing : BOOLEAN, meets : BOOLEAN,
               removed : BOOLEAN, notice : {"no", "sent", "seen"}]
RoomRecs == [status : {"empty", "prepare", "recruit", "full"}, owner : Users \cup {None},
             max : PlayerCounts \cup {0}, users : Seq(Conns)]
LobbyRecs == [users : [Users -> Conns \cup {None}], entries : Seq(Users)]
ViewRecs == [status : {"empty", "prepare", "recruit", "full"}, count : Nat,
             max : PlayerCounts \cup {0}]
Views == [Rooms -> ViewRecs]

(* The type invariant, by variable. *)
LEMMA Typed ==
  TypeOK <=>
    /\ users \in [Users -> Conns \cup {None}]
    /\ lobbys \in [Lobbies -> LobbyRecs]
    /\ rooms \in [Lobbies -> [Rooms -> RoomRecs]]
    /\ battles \in [Users -> 0 .. Len(made)]
    /\ Len(made) <= MaxBattles
    /\ conn \in [Conns -> ConnRecs(Len(made))]
    /\ client \in [Conns -> ClientRecs]
    /\ shown \in [Conns -> Views]
BY DEF TypeOK, LobbyRecs, RoomRecs, ConnRecs, ClientRecs, ViewRecs, Views, Syncs

(* The same of the next state. *)
LEMMA TypedNext ==
  ASSUME users' \in [Users -> Conns \cup {None}],
         lobbys' \in [Lobbies -> LobbyRecs],
         rooms' \in [Lobbies -> [Rooms -> RoomRecs]],
         battles' \in [Users -> 0 .. Len(made')],
         Len(made') <= MaxBattles,
         conn' \in [Conns -> ConnRecs(Len(made'))],
         client' \in [Conns -> ClientRecs],
         shown' \in [Conns -> Views]
  PROVE  TypeOK'
BY DEF TypeOK, LobbyRecs, RoomRecs, ConnRecs, ClientRecs, ViewRecs, Views, Syncs

(* The fields of an AppPeer. *)
LEMMA ConnFields ==
  ASSUME NEW n, NEW c \in ConnRecs(n)
  PROVE  /\ c.state \in {"closed", "in", "out"} /\ c.lobby \in Lobbies \cup {0}
         /\ c.room \in Rooms \cup {0} /\ c.battle \in 0 .. n
         /\ c.entry \in Sides \cup {None} /\ c.after \in BOOLEAN /\ c.sync \in Syncs
BY DEF ConnRecs

(* The fields of a client. *)
LEMMA ClientFields ==
  ASSUME NEW c \in ClientRecs
  PROVE  /\ c.entered \in BOOLEAN /\ c.preparing \in BOOLEAN /\ c.meets \in BOOLEAN
         /\ c.removed \in BOOLEAN /\ c.notice \in {"no", "sent", "seen"}
BY DEF ClientRecs

(* The fields of a room. *)
LEMMA RoomFields ==
  ASSUME NEW c \in RoomRecs
  PROVE  /\ c.status \in {"empty", "prepare", "recruit", "full"} /\ c.owner \in Users \cup {None}
         /\ c.max \in PlayerCounts \cup {0} /\ c.users \in Seq(Conns)
BY DEF RoomRecs

(* The fields of a lobby. *)
LEMMA LobbyFields ==
  ASSUME NEW c \in LobbyRecs
  PROVE  c.users \in [Users -> Conns \cup {None}] /\ c.entries \in Seq(Users)
BY DEF LobbyRecs

(* What is answered on a room is of the type of a view of it. *)
LEMMA ShownRec ==
  ASSUME NEW c \in RoomRecs
  PROVE  RoomShown(c) \in ViewRecs
<1>1. c.users \in Seq(Conns) /\ Len(c.users) \in Nat
  BY RoomFields, LenProperties
<1> QED  BY <1>1, RoomFields DEF RoomShown, ViewRecs

(* What is known of the constants. *)
LEMMA Constants ==
  /\ \A p \in Conns : UserOf[p] \in Users /\ UserOf[p] # None /\ p # None
  /\ \A l \in Lobbies : l \in Nat /\ l # 0
  /\ \A r \in Rooms : r \in Nat /\ r # 0
  /\ \A s \in Sides : s # None /\ s \in {Aeug, Titans}
  /\ \A u \in Users : u # None
  /\ None \notin {Aeug, Titans}
  /\ \A c \in PlayerCounts : c \in Nat /\ c # 0
BY LobbyAssumption

(* The fields of the connections and clients, for each in turn. *)
LEMMA Fields ==
  ASSUME TypeOK, NEW p \in Conns
  PROVE  /\ conn[p].state \in {"closed", "in", "out"} /\ conn[p].lobby \in Lobbies \cup {0}
         /\ conn[p].room \in Rooms \cup {0} /\ conn[p].battle \in 0 .. Len(made)
         /\ conn[p].entry \in Sides \cup {None} /\ conn[p].after \in BOOLEAN /\ conn[p].sync \in Syncs
         /\ client[p].entered \in BOOLEAN /\ client[p].preparing \in BOOLEAN
         /\ client[p].meets \in BOOLEAN /\ client[p].removed \in BOOLEAN
         /\ client[p].notice \in {"no", "sent", "seen"}
<1>1. conn[p] \in ConnRecs(Len(made)) /\ client[p] \in ClientRecs
  BY Typed
<1> QED  BY <1>1, ConnFields, ClientFields

(* A room of a lobby, and its members. *)
LEMMA RoomTyped ==
  ASSUME TypeOK, NEW l \in Lobbies, NEW r \in Rooms
  PROVE  /\ rooms[l][r] \in RoomRecs /\ rooms[l] \in [Rooms -> RoomRecs]
         /\ rooms[l][r].status \in {"empty", "prepare", "recruit", "full"}
         /\ rooms[l][r].owner \in Users \cup {None}
         /\ rooms[l][r].max \in PlayerCounts \cup {0} /\ rooms[l][r].users \in Seq(Conns)
         /\ Len(rooms[l][r].users) \in Nat
         /\ ToSet(rooms[l][r].users) \subseteq Conns
<1>1. rooms[l][r] \in RoomRecs /\ rooms[l] \in [Rooms -> RoomRecs]
  BY Typed
<1>2. rooms[l][r].users \in Seq(Conns)
  BY <1>1, RoomFields
<1>3. Len(rooms[l][r].users) \in Nat /\ ToSet(rooms[l][r].users) \subseteq Conns
  BY <1>2, LenProperties, ElementOfSeq DEF ToSet
<1> QED  BY <1>1, <1>3, RoomFields

(* A lobby, and its entries. *)
LEMMA LobbyTyped ==
  ASSUME TypeOK, NEW l \in Lobbies
  PROVE  /\ lobbys[l] \in LobbyRecs
         /\ lobbys[l].users \in [Users -> Conns \cup {None}] /\ lobbys[l].entries \in Seq(Users)
         /\ ToSet(lobbys[l].entries) \subseteq Users
<1>1. lobbys[l] \in LobbyRecs
  BY Typed
<1>2. lobbys[l].entries \in Seq(Users)
  BY <1>1, LobbyFields
<1>3. ToSet(lobbys[l].entries) \subseteq Users
  BY <1>2, LenProperties, ElementOfSeq DEF ToSet
<1> QED  BY <1>1, <1>2, <1>3, LobbyFields

-----------------------------------------------------------------------------
(* The same client, save that it may have seen a battle's start. *)
Noticed(p) == (client'[p].notice = "no" <=> client[p].notice = "no") /\ client'[p].notice # "sent"

(* A request changes its client as it says, and the notice on its way is   *)
(* seen.                                                                   *)
LEMMA ToldView ==
  ASSUME TypeOK, NEW p \in Conns, Asks(p), NEW view \in [Conns -> ClientRecs],
         client' = Told(view, p), view[p].notice = client[p].notice
  PROVE  /\ client' \in [Conns -> ClientRecs]
         /\ \A q \in Conns : /\ q # p => client'[q] = view[q]
                             /\ client'[q].entered = view[q].entered
                             /\ client'[q].preparing = view[q].preparing
                             /\ client'[q].meets = view[q].meets
                             /\ client'[q].removed = view[q].removed
         /\ Noticed(p)
<1> DEFINE n == IF client[p].notice = "sent" THEN "seen" ELSE view[p].notice
<1>1. client' = [q \in Conns |-> IF q = p THEN [view[p] EXCEPT !.notice = n] ELSE view[q]]
  BY DEF Told
<1>2. view[p] \in ClientRecs
  OBVIOUS
<1>3. n \in {"no", "seen"} /\ (n = "no" <=> client[p].notice = "no")
  BY Fields DEF Asks
<1> HIDE DEF n
<1>4. PICK c : c = [view[p] EXCEPT !.notice = n]
  OBVIOUS
<1>5. /\ c \in ClientRecs /\ c.entered = view[p].entered /\ c.preparing = view[p].preparing
      /\ c.meets = view[p].meets /\ c.removed = view[p].removed /\ c.notice = n
  BY <1>2, <1>3, <1>4 DEF ClientRecs
<1>6. client' = [q \in Conns |-> IF q = p THEN c ELSE view[q]]
  BY <1>1, <1>4
<1> QED  BY <1>3, <1>5, <1>6 DEF Noticed

(* The connections and clients other than p stay as they are. *)
Only(p) == \A q \in Conns : q # p => conn'[q] = conn[q] /\ client'[q] = client[q]

(* A connection's record is replaced. *)
LEMMA NewConn ==
  ASSUME TypeOK, NEW p \in Conns, NEW n \in Nat, Len(made) <= n, NEW c \in ConnRecs(n),
         conn' = [q \in Conns |-> IF q = p THEN c ELSE conn[q]]
  PROVE  conn' \in [Conns -> ConnRecs(n)]
<1>1. ASSUME NEW q \in Conns
      PROVE  conn[q] \in ConnRecs(n)
  <2>1. conn[q] \in ConnRecs(Len(made))
    BY Typed
  <2>2. Len(made) \in Nat \/ Len(made) \notin Nat
    OBVIOUS
  <2>3. conn[q].battle \in 0 .. n
    BY Fields
  <2> QED  BY <2>1, <2>3 DEF ConnRecs
<1> QED  BY <1>1

(* Who logs in. *)
LogsIn(p) ==
  /\ conn[p].state = "closed" /\ (\A u \in Users : users[u] # p)
  /\ (\A l \in Lobbies, r \in Rooms : p \notin ToSet(rooms[l][r].users))
  /\ users' = [users EXCEPT ![UserOf[p]] = p]
  /\ Only(p)
  /\ conn'[p] = [Closed EXCEPT !.state = "in"] /\ client'[p] = Fresh
  /\ UNCHANGED <<lobbys, rooms, battles, made, shown>>

(* A new client has asked for nothing. *)
LEMMA FreshFields ==
  /\ Fresh \in ClientRecs /\ ~ Fresh.entered /\ ~ Fresh.preparing /\ ~ Fresh.meets
  /\ ~ Fresh.removed /\ Fresh.notice = "no"
BY DEF Fresh, ClientRecs

(* OnDecideUserID logs in. *)
LEMMA OnDecideUserIDEffect ==
  ASSUME TypeOK, NEW p \in Conns, OnDecideUserID(p)
  PROVE  TypeOK' /\ LogsIn(p)
<1>1. /\ users \in [Users -> Conns \cup {None}] /\ conn \in [Conns -> ConnRecs(Len(made))]
      /\ client \in [Conns -> ClientRecs] /\ Len(made) <= MaxBattles
      /\ battles \in [Users -> 0 .. Len(made)]
  BY Typed
<1>2. PICK c : c = [Closed EXCEPT !.state = "in"]
  OBVIOUS
<1>3. c \in ConnRecs(Len(made))
  <2>1. Len(made) \in Nat
    BY <1>1, Constants, LobbyAssumption
  <2>2. c = [state |-> "in", lobby |-> 0, room |-> 0, battle |-> 0,
             entry |-> None, after |-> FALSE, sync |-> None]
    BY <1>2 DEF Closed
  <2>3. 0 \in 0 .. Len(made)
    BY <2>1
  <2>4. None \in Syncs
    BY DEF Syncs
  <2> QED  BY <2>2, <2>3, <2>4 DEF ConnRecs
<1>4. /\ conn' = [q \in Conns |-> IF q = p THEN c ELSE conn[q]]
      /\ client' = [q \in Conns |-> IF q = p THEN Fresh ELSE client[q]]
      /\ users' = [users EXCEPT ![UserOf[p]] = p]
      /\ UNCHANGED <<lobbys, rooms, battles, made, shown>>
      /\ conn[p].state = "closed"
  BY <1>1, <1>2 DEF OnDecideUserID
<1>5. /\ conn' \in [Conns -> ConnRecs(Len(made))] /\ client' \in [Conns -> ClientRecs]
      /\ users' \in [Users -> Conns \cup {None}]
  BY <1>1, <1>3, <1>4, FreshFields
<1>6. TypeOK'
  BY <1>1, <1>4, <1>5, Typed, TypedNext
<1>7. /\ (\A u \in Users : users[u] # p)
      /\ (\A l \in Lobbies, r \in Rooms : p \notin ToSet(rooms[l][r].users))
  BY DEF OnDecideUserID, Unreferenced, Listed
<1>8. LogsIn(p)
  BY <1>2, <1>4, <1>7 DEF LogsIn, Only
<1> QED  BY <1>6, <1>8

(* Who enters a lobby. *)
EntersLobby(p, l) ==
  /\ conn[p].state = "in" /\ conn[p].lobby = 0 /\ ~ client[p].meets
  /\ users' = users /\ Only(p) /\ Noticed(p)
  /\ conn'[p].lobby = l /\ conn'[p].state = conn[p].state /\ conn'[p].room = conn[p].room
  /\ conn'[p].battle = conn[p].battle /\ conn'[p].entry = conn[p].entry
  /\ conn'[p].after = conn[p].after
  /\ ~ client'[p].entered /\ client'[p].preparing = client[p].preparing
  /\ client'[p].meets = client[p].meets /\ client'[p].removed = client[p].removed
  /\ (\A k \in Lobbies : lobbys'[k].entries = lobbys[k].entries)
  /\ (\A k \in Lobbies, u \in Users :
        lobbys'[k].users[u] = IF k = l /\ u = UserOf[p] THEN p ELSE lobbys[k].users[u])
  /\ shown'[p] = AskRooms(l) /\ (\A q \in Conns : q # p => shown'[q] = shown[q])
  /\ UNCHANGED <<rooms, battles, made>>

(* OnEnterLobby enters the lobby. *)
LEMMA OnEnterLobbyEffect ==
  ASSUME TypeOK, NEW p \in Conns, NEW l \in Lobbies, OnEnterLobby(p, l)
  PROVE  TypeOK' /\ EntersLobby(p, l)
<1>1. /\ lobbys \in [Lobbies -> LobbyRecs] /\ conn \in [Conns -> ConnRecs(Len(made))]
      /\ client \in [Conns -> ClientRecs] /\ shown \in [Conns -> Views]
      /\ users \in [Users -> Conns \cup {None}] /\ battles \in [Users -> 0 .. Len(made)]
      /\ Len(made) <= MaxBattles /\ rooms \in [Lobbies -> [Rooms -> RoomRecs]]
  BY Typed
<1>2. /\ Asks(p) /\ conn[p].state = "in" /\ conn[p].lobby = 0 /\ ~ client[p].meets
      /\ UNCHANGED <<users, rooms, battles, made>>
  BY DEF OnEnterLobby, Asks
<1>3. PICK s \in SyncsOf[p] : conn' = [conn EXCEPT ![p].lobby = l, ![p].sync = s]
  BY DEF OnEnterLobby
<1>4. PICK c : c = [conn[p] EXCEPT !.lobby = l, !.sync = s]
  OBVIOUS
<1>5. /\ c \in ConnRecs(Len(made)) /\ c.lobby = l /\ c.state = conn[p].state /\ c.room = conn[p].room
      /\ c.battle = conn[p].battle /\ c.entry = conn[p].entry /\ c.after = conn[p].after
  <2>1. conn[p] \in ConnRecs(Len(made)) /\ s \in Syncs
    BY <1>1 DEF Syncs
  <2> QED  BY <1>4, <2>1 DEF ConnRecs
<1>6. conn' = [q \in Conns |-> IF q = p THEN c ELSE conn[q]]
  BY <1>1, <1>3, <1>4
<1>7. PICK v : v = [client EXCEPT ![p].entered = FALSE]
  OBVIOUS
<1>8. /\ v \in [Conns -> ClientRecs] /\ \A q \in Conns : q # p => v[q] = client[q]
      /\ ~ v[p].entered /\ v[p].preparing = client[p].preparing /\ v[p].meets = client[p].meets
      /\ v[p].removed = client[p].removed /\ v[p].notice = client[p].notice
  <2>1. PICK d : d = [client[p] EXCEPT !.entered = FALSE]
    OBVIOUS
  <2>2. v = [q \in Conns |-> IF q = p THEN d ELSE client[q]]
    BY <1>1, <1>7, <2>1
  <2>3. /\ d \in ClientRecs /\ ~ d.entered /\ d.preparing = client[p].preparing
        /\ d.meets = client[p].meets /\ d.removed = client[p].removed /\ d.notice = client[p].notice
    <3>1. client[p] \in ClientRecs
      BY <1>1
    <3> QED  BY <2>1, <3>1 DEF ClientRecs
  <2> QED  BY <1>1, <2>2, <2>3
<1>9. client' = Told(v, p)
  BY <1>7 DEF OnEnterLobby
<1>10. /\ client' \in [Conns -> ClientRecs] /\ Noticed(p)
       /\ (\A q \in Conns : q # p => client'[q] = client[q])
       /\ ~ client'[p].entered /\ client'[p].preparing = client[p].preparing
       /\ client'[p].meets = client[p].meets /\ client'[p].removed = client[p].removed
  BY <1>2, <1>8, <1>9, ToldView
<1>11. /\ lobbys' \in [Lobbies -> LobbyRecs]
       /\ (\A k \in Lobbies : lobbys'[k].entries = lobbys[k].entries)
       /\ (\A k \in Lobbies, u \in Users :
             lobbys'[k].users[u] = IF k = l /\ u = UserOf[p] THEN p ELSE lobbys[k].users[u])
  <2>1. PICK d : d = [lobbys[l] EXCEPT !.users[UserOf[p]] = p]
    OBVIOUS
  <2>2. lobbys' = [k \in Lobbies |-> IF k = l THEN d ELSE lobbys[k]]
    BY <1>1, <2>1 DEF OnEnterLobby
  <2>3. /\ d \in LobbyRecs /\ d.entries = lobbys[l].entries
        /\ d.users = [lobbys[l].users EXCEPT ![UserOf[p]] = p]
    <3>1. lobbys[l] \in LobbyRecs
      BY <1>1
    <3> QED  BY <2>1, <3>1, Constants DEF LobbyRecs
  <2>4. lobbys[l].users \in [Users -> Conns \cup {None}]
    BY LobbyTyped
  <2> QED  BY <1>1, <2>2, <2>3, <2>4
<1>12. /\ shown' \in [Conns -> Views]
       /\ shown'[p] = AskRooms(l) /\ (\A q \in Conns : q # p => shown'[q] = shown[q])
  <2>1. AskRooms(l) \in Views
    BY <1>1, ShownRec DEF AskRooms, Views
  <2> QED  BY <1>1, <2>1 DEF OnEnterLobby
<1>13. conn' \in [Conns -> ConnRecs(Len(made))]
  BY <1>1, <1>5, <1>6
<1>14. TypeOK'
  BY <1>1, <1>2, <1>10, <1>11, <1>12, <1>13, TypedNext
<1>15. EntersLobby(p, l)
  BY <1>2, <1>5, <1>6, <1>10, <1>11, <1>12 DEF EntersLobby, Only
<1> QED  BY <1>14, <1>15

(* A battle waits for its user, is dropped, or the players of it meet.     *)
Returns(p) ==
  /\ UNCHANGED <<users, lobbys, rooms, made, shown>> /\ Only(p)
  /\ conn'[p].state = conn[p].state /\ conn'[p].lobby = conn[p].lobby
  /\ conn'[p].room = conn[p].room /\ conn'[p].entry = conn[p].entry
  /\ client'[p].entered = client[p].entered /\ client'[p].preparing = client[p].preparing
  /\ client'[p].removed = client[p].removed /\ client'[p].notice = client[p].notice
  /\ \/ /\ conn[p].lobby = 0 /\ conn[p].state = "in" /\ client'[p].meets /\ conn'[p].after
        /\ conn'[p].battle = battles[UserOf[p]] /\ client[p].notice # "seen"
     \/ /\ ~ client'[p].meets /\ conn'[p].battle = 0 /\ client[p].notice # "seen" /\ client[p].meets

(* OnEnterBattleAfterRoom and OnExitBattleAfterRoom: one is back from a    *)
(* battle, or leaves it.                                                   *)
LEMMA ReturnsEffect ==
  ASSUME TypeOK, NEW p \in Conns, OnEnterBattleAfterRoom(p) \/ OnExitBattleAfterRoom(p)
  PROVE  /\ TypeOK' /\ Returns(p)
         /\ \A u \in Users : battles'[u] = 0 \/ battles'[u] = battles[u]
<1>1. /\ lobbys \in [Lobbies -> LobbyRecs] /\ conn \in [Conns -> ConnRecs(Len(made))]
      /\ client \in [Conns -> ClientRecs] /\ shown \in [Conns -> Views]
      /\ users \in [Users -> Conns \cup {None}] /\ battles \in [Users -> 0 .. Len(made)]
      /\ Len(made) <= MaxBattles /\ rooms \in [Lobbies -> [Rooms -> RoomRecs]]
  BY Typed
<1>2. conn[p] \in ConnRecs(Len(made)) /\ client[p] \in ClientRecs /\ 0 \in 0 .. Len(made)
  BY <1>1, Constants, LobbyAssumption, Fields
<1>3. CASE OnEnterBattleAfterRoom(p)
  <2> DEFINE b == battles[UserOf[p]]
  <2>1. b \in 0 .. Len(made)
    BY <1>1, Constants
  <2>2. /\ conn' = [conn EXCEPT ![p].battle = b, ![p].after = TRUE]
        /\ client' = [client EXCEPT ![p].meets = TRUE]
        /\ battles' = [battles EXCEPT ![UserOf[p]] = 0]
        /\ UNCHANGED <<users, lobbys, rooms, made, shown>>
        /\ conn[p].lobby = 0 /\ conn[p].state = "in" /\ client[p].notice # "seen"
    BY <1>3 DEF OnEnterBattleAfterRoom, Asks
  <2> HIDE DEF b
  <2>3. PICK c, d : /\ c = [conn[p] EXCEPT !.battle = b, !.after = TRUE]
                    /\ d = [client[p] EXCEPT !.meets = TRUE]
    OBVIOUS
  <2>4. /\ c \in ConnRecs(Len(made)) /\ c.battle = b /\ c.after /\ c.state = conn[p].state
        /\ c.lobby = conn[p].lobby /\ c.room = conn[p].room /\ c.entry = conn[p].entry
    BY <1>2, <2>1, <2>3 DEF ConnRecs
  <2>5. /\ d \in ClientRecs /\ d.meets /\ d.entered = client[p].entered /\ d.preparing = client[p].preparing
        /\ d.removed = client[p].removed /\ d.notice = client[p].notice
    BY <1>2, <2>3 DEF ClientRecs
  <2>6. /\ conn' = [q \in Conns |-> IF q = p THEN c ELSE conn[q]]
        /\ client' = [q \in Conns |-> IF q = p THEN d ELSE client[q]]
    BY <1>1, <2>2, <2>3
  <2>7. conn' \in [Conns -> ConnRecs(Len(made))] /\ client' \in [Conns -> ClientRecs]
    BY <1>1, <2>4, <2>5, <2>6
  <2>8. battles' \in [Users -> 0 .. Len(made)] /\ \A u \in Users : battles'[u] = 0 \/ battles'[u] = battles[u]
    BY <1>1, <1>2, <2>2
  <2>9. TypeOK'
    BY <1>1, <2>2, <2>7, <2>8, TypedNext
  <2>10. Returns(p)
    BY <2>2, <2>4, <2>5, <2>6 DEF Returns, Only, b
  <2> QED  BY <2>8, <2>9, <2>10
<1>4. CASE OnExitBattleAfterRoom(p)
  <2>2. /\ conn' = [conn EXCEPT ![p].battle = 0, ![p].after = FALSE]
        /\ client' = [client EXCEPT ![p].meets = FALSE]
        /\ UNCHANGED <<users, lobbys, rooms, battles, made, shown>>
        /\ client[p].notice # "seen" /\ client[p].meets
    BY <1>4 DEF OnExitBattleAfterRoom, Asks
  <2>3. PICK c, d : /\ c = [conn[p] EXCEPT !.battle = 0, !.after = FALSE]
                    /\ d = [client[p] EXCEPT !.meets = FALSE]
    OBVIOUS
  <2>4. /\ c \in ConnRecs(Len(made)) /\ c.battle = 0 /\ c.state = conn[p].state
        /\ c.lobby = conn[p].lobby /\ c.room = conn[p].room /\ c.entry = conn[p].entry
    BY <1>2, <2>3 DEF ConnRecs
  <2>5. /\ d \in ClientRecs /\ ~ d.meets /\ d.entered = client[p].entered /\ d.preparing = client[p].preparing
        /\ d.removed = client[p].removed /\ d.notice = client[p].notice
    BY <1>2, <2>3 DEF ClientRecs
  <2>6. /\ conn' = [q \in Conns |-> IF q = p THEN c ELSE conn[q]]
        /\ client' = [q \in Conns |-> IF q = p THEN d ELSE client[q]]
    BY <1>1, <2>2, <2>3
  <2>7. conn' \in [Conns -> ConnRecs(Len(made))] /\ client' \in [Conns -> ClientRecs]
    BY <1>1, <2>4, <2>5, <2>6
  <2>9. TypeOK'
    BY <1>1, <2>2, <2>7, TypedNext
  <2>10. Returns(p)
    BY <2>2, <2>4, <2>5, <2>6 DEF Returns, Only
  <2> QED  BY <2>2, <2>9, <2>10
<1> QED  BY <1>3, <1>4

(* checkAlive only drops a battle. *)
LEMMA BattleTimeoutEffect ==
  ASSUME TypeOK, NEW v \in Users, BattleTimeout(v)
  PROVE  /\ TypeOK' /\ UNCHANGED <<users, lobbys, rooms, made, conn, client, shown>>
         /\ \A u \in Users : battles'[u] = 0 \/ battles'[u] = battles[u]
<1>1. battles \in [Users -> 0 .. Len(made)] /\ Len(made) <= MaxBattles
  BY Typed
<1>2. battles' = [battles EXCEPT ![v] = 0] /\ UNCHANGED <<users, lobbys, rooms, made, conn, client, shown>>
  BY DEF BattleTimeout
<1>3. 0 \in 0 .. Len(made) 
  BY <1>1
<1>4. battles' \in [Users -> 0 .. Len(made)]
  BY <1>1, <1>2, <1>3
<1> QED  BY <1>1, <1>2, <1>4, Typed, TypedNext

(* What becomes of one's own side of a room, where that is all. *)
TakesSide(p) ==
  /\ UNCHANGED <<users, lobbys, rooms, battles, made, shown>> /\ Only(p)
  /\ conn[p].state = "in" /\ conn[p].room # 0 /\ Noticed(p)
  /\ conn'[p].state = conn[p].state /\ conn'[p].lobby = conn[p].lobby
  /\ conn'[p].room = conn[p].room /\ conn'[p].battle = conn[p].battle
  /\ conn'[p].after = conn[p].after
  /\ client'[p].entered = client[p].entered /\ client'[p].preparing = client[p].preparing
  /\ client'[p].removed = client[p].removed /\ client'[p].meets = client[p].meets

(* OnEntryRoomMatch changes one's own entry and nothing else. *)
LEMMA OnEntryRoomMatchEffect ==
  ASSUME TypeOK, NEW p \in Conns, NEW side \in Sides \cup {None}, OnEntryRoomMatch(p, side)
  PROVE  TypeOK' /\ TakesSide(p)
<1>1. /\ conn \in [Conns -> ConnRecs(Len(made))] /\ client \in [Conns -> ClientRecs]
      /\ Len(made) <= MaxBattles
  BY Typed
<1>2. /\ Asks(p) /\ conn[p].state = "in" /\ conn[p].room # 0
      /\ conn' = [conn EXCEPT ![p].entry = side] /\ client' = Told(client, p)
      /\ UNCHANGED <<users, lobbys, rooms, battles, made, shown>>
  BY DEF OnEntryRoomMatch, Asks
<1>3. PICK c : c = [conn[p] EXCEPT !.entry = side]
  OBVIOUS
<1>4. /\ c \in ConnRecs(Len(made)) /\ c.battle = conn[p].battle /\ c.after = conn[p].after
      /\ c.state = conn[p].state /\ c.lobby = conn[p].lobby /\ c.room = conn[p].room
  <2>1. conn[p] \in ConnRecs(Len(made))
    BY <1>1
  <2> QED  BY <1>3, <2>1 DEF ConnRecs
<1>5. conn' = [q \in Conns |-> IF q = p THEN c ELSE conn[q]]
  BY <1>1, <1>2, <1>3
<1>6. /\ client' \in [Conns -> ClientRecs] /\ Noticed(p)
      /\ \A q \in Conns : q # p => client'[q] = client[q]
      /\ client'[p].entered = client[p].entered /\ client'[p].preparing = client[p].preparing
      /\ client'[p].removed = client[p].removed /\ client'[p].meets = client[p].meets
  BY <1>1, <1>2, ToldView
<1>7. conn' \in [Conns -> ConnRecs(Len(made))]
  BY <1>1, <1>4, <1>5
<1>8. TypeOK'
  BY <1>1, <1>2, <1>6, <1>7, Typed, TypedNext
<1>9. TakesSide(p)
  BY <1>2, <1>4, <1>5, <1>6 DEF TakesSide, Only
<1> QED  BY <1>8, <1>9

(* A room changes, and all in its lobby are shown that.                    *)
OneRoom(l, r) ==
  \A k \in Lobbies, s \in Rooms : k # l \/ s # r => rooms'[k][s] = rooms[k][s]
ShownTo(l, r) ==
  \A q \in Conns, k \in Rooms :
    shown'[q][k] = IF conn[q].lobby = l /\ k = r THEN RoomShown(rooms'[l][r]) ELSE shown[q][k]

(* Whom a lobby's news reach: who is in it. *)
LEMMA PeersOfLobby ==
  ASSUME TypeOK, LoggedIn, LobbyListsPresent, Placed, NEW l \in Lobbies, NEW q \in Conns
  PROVE  q \in LobbyPeers(l) <=> conn[q].lobby = l
<1>1. users \in [Users -> Conns \cup {None}] /\ lobbys[l].users \in [Users -> Conns \cup {None}]
  BY Typed, LobbyTyped
<1>2. ASSUME q \in LobbyPeers(l)
      PROVE  conn[q].lobby = l
  <2>1. PICK u \in Users : lobbys[l].users[u] # None /\ q = users[u]
    BY <1>2 DEF LobbyPeers
  <2>2. UserOf[q] = u /\ conn[q].state = "in"
    BY <2>1, Constants DEF LoggedIn
  <2> DEFINE p == lobbys[l].users[u]
  <2>3. p \in Conns /\ conn[p].lobby = l /\ UserOf[p] = u
    BY <1>1, <2>1 DEF LobbyListsPresent
  <2>4. p = q
    BY <2>2, <2>3, OneConnectionEach
  <2> QED  BY <2>3, <2>4
<1>3. ASSUME conn[q].lobby = l
      PROVE  q \in LobbyPeers(l)
  <2>1. conn[q].state = "in" /\ lobbys[l].users[UserOf[q]] = q
    BY <1>3, Constants DEF Placed
  <2>2. users[UserOf[q]] = q
    BY <2>1 DEF LoggedIn
  <2>3. UserOf[q] \in Users /\ q # None
    BY Constants
  <2> QED  BY <2>1, <2>2, <2>3 DEF LobbyPeers
<1> QED  BY <1>2, <1>3

(* NoticeRoom shows the room to those in its lobby, and nobody anything    *)
(* else.                                                                   *)
LEMMA NoticeRoomShown ==
  ASSUME TypeOK, LoggedIn, LobbyListsPresent, Placed, NEW l \in Lobbies, NEW r \in Rooms,
         rooms' \in [Lobbies -> [Rooms -> RoomRecs]],
         NEW view, view = NoticeRoom(l, r)
  PROVE  /\ view \in [Conns -> Views]
         /\ \A q \in Conns, k \in Rooms :
              view[q][k] = IF conn[q].lobby = l /\ k = r THEN RoomShown(rooms'[l][r]) ELSE shown[q][k]
<1>1. shown \in [Conns -> Views]
  BY Typed
<1>2. PICK v : v = RoomShown(rooms'[l][r])
  OBVIOUS
<1>3. v \in ViewRecs
  <2>1. rooms'[l][r] \in RoomRecs
    OBVIOUS
  <2> QED  BY <1>2, <2>1, ShownRec
<1>4. ASSUME NEW q \in Conns
      PROVE  /\ view[q] \in Views
             /\ \A k \in Rooms : view[q][k] = IF conn[q].lobby = l /\ k = r THEN v ELSE shown[q][k]
  <2>1. view[q] = IF q \in LobbyPeers(l) THEN [shown[q] EXCEPT ![r] = v] ELSE shown[q]
    BY <1>2 DEF NoticeRoom
  <2>2. shown[q] \in [Rooms -> ViewRecs]
    BY <1>1 DEF Views
  <2>3. q \in LobbyPeers(l) <=> conn[q].lobby = l
    BY PeersOfLobby
  <2> HIDE DEF LobbyPeers
  <2> QED  BY <1>3, <2>1, <2>2, <2>3 DEF Views
<1>5. view = [q \in Conns |-> view[q]]
  BY DEF NoticeRoom
<1>6. view \in [Conns -> Views]
  BY <1>4, <1>5
<1> QED  BY <1>2, <1>4, <1>6

(* Who makes a room. *)
MakesRoom(p, l, r) ==
  /\ l \in Lobbies /\ conn[p].lobby = l /\ conn[p].state = "in" /\ conn[p].room = 0
  /\ ~ Engaged(p) /\ Only(p)
  /\ conn'[p].state = conn[p].state /\ conn'[p].lobby = l /\ conn'[p].room = r
  /\ conn'[p].battle = conn[p].battle /\ conn'[p].entry = conn[p].entry
  /\ conn'[p].after = conn[p].after
  /\ client'[p].preparing /\ ~ client'[p].entered /\ client'[p].notice = "no"
  /\ client'[p].meets = client[p].meets /\ client'[p].removed = client[p].removed
  /\ rooms[l][r].status = "empty" /\ OneRoom(l, r) /\ ShownTo(l, r)
  /\ rooms'[l][r].status = "prepare" /\ rooms'[l][r].users = rooms[l][r].users
  /\ rooms'[l][r].owner = rooms[l][r].owner /\ rooms'[l][r].max = rooms[l][r].max
  /\ UNCHANGED <<users, lobbys, battles, made>>

(* OnRequestCreateRoom prepares a room that is empty. *)
LEMMA OnRequestCreateRoomEffect ==
  ASSUME IInv, NEW p \in Conns, NEW r \in Rooms, OnRequestCreateRoom(p, r)
  PROVE  TypeOK' /\ MakesRoom(p, conn[p].lobby, r)
<1>a. TypeOK /\ LoggedIn /\ LobbyListsPresent /\ Placed /\ RoomsShown
  BY DEF IInv
<1> DEFINE l == conn[p].lobby
<1>1. /\ conn \in [Conns -> ConnRecs(Len(made))] /\ rooms \in [Lobbies -> [Rooms -> RoomRecs]]
      /\ client \in [Conns -> ClientRecs] /\ shown \in [Conns -> Views]
      /\ users \in [Users -> Conns \cup {None}] /\ battles \in [Users -> 0 .. Len(made)]
      /\ Len(made) <= MaxBattles /\ lobbys \in [Lobbies -> LobbyRecs]
  BY <1>a, Typed
<1>2. /\ Asks(p) /\ conn[p].state = "in" /\ l # 0 /\ conn[p].room = 0 /\ ~ Engaged(p)
      /\ rooms[l][r].status = "empty"
      /\ UNCHANGED <<users, lobbys, battles, made>>
  BY DEF OnRequestCreateRoom, Idle, Asks
<1>3. l \in Lobbies
  BY <1>2, <1>a, Fields
<1>4. PICK c, d, m : /\ c = [conn[p] EXCEPT !.room = r] /\ d = [client[p] EXCEPT !.preparing = TRUE]
                     /\ m = [rooms[l][r] EXCEPT !.status = "prepare"]
  OBVIOUS
<1> HIDE DEF l
<1>5. /\ conn' = [q \in Conns |-> IF q = p THEN c ELSE conn[q]]
      /\ client' = Told([client EXCEPT ![p].preparing = TRUE], p)
      /\ shown' = NoticeRoomStatus(l, r)
      /\ rooms' = [rooms EXCEPT ![l][r].status = "prepare"]
  BY <1>1, <1>4 DEF OnRequestCreateRoom, l
<1>6. /\ c \in ConnRecs(Len(made)) /\ c.state = conn[p].state /\ c.lobby = conn[p].lobby /\ c.room = r
      /\ c.battle = conn[p].battle /\ c.entry = conn[p].entry /\ c.after = conn[p].after
  <2>1. conn[p] \in ConnRecs(Len(made))
    BY <1>1
  <2> QED  BY <1>4, <2>1 DEF ConnRecs
<1>7. /\ d \in ClientRecs /\ d.preparing /\ d.entered = client[p].entered /\ d.meets = client[p].meets
      /\ d.removed = client[p].removed /\ d.notice = client[p].notice
  <2>1. client[p] \in ClientRecs
    BY <1>1
  <2> QED  BY <1>4, <2>1 DEF ClientRecs
<1>8. /\ m \in RoomRecs /\ m.status = "prepare" /\ m.users = rooms[l][r].users
      /\ m.owner = rooms[l][r].owner /\ m.max = rooms[l][r].max
  <2>1. rooms[l][r] \in RoomRecs
    BY <1>1, <1>3
  <2> QED  BY <1>4, <2>1 DEF RoomRecs
<1>9. /\ client' \in [Conns -> ClientRecs] /\ Noticed(p)
      /\ (\A q \in Conns : q # p => client'[q] = client[q])
      /\ client'[p].preparing /\ client'[p].entered = client[p].entered
      /\ client'[p].removed = client[p].removed /\ client'[p].meets = client[p].meets
  <2>1. PICK v : v = [client EXCEPT ![p].preparing = TRUE]
    OBVIOUS
  <2>2. v = [q \in Conns |-> IF q = p THEN d ELSE client[q]]
    BY <1>1, <1>4, <2>1
  <2>3. v \in [Conns -> ClientRecs] /\ v[p] = d /\ (\A q \in Conns : q # p => v[q] = client[q])
    BY <1>1, <1>7, <2>2
  <2>4. client' = Told(v, p) /\ v[p].notice = client[p].notice
    BY <1>5, <1>7, <2>1, <2>3
  <2> QED  BY <1>2, <1>7, <1>a, <2>3, <2>4, ToldView
<1>10. conn' \in [Conns -> ConnRecs(Len(made))]
  BY <1>1, <1>5, <1>6
<1>11. /\ rooms' \in [Lobbies -> [Rooms -> RoomRecs]] /\ rooms'[l][r] = m /\ OneRoom(l, r)
  <2>1. rooms' = [k \in Lobbies |-> IF k = l THEN [rooms[l] EXCEPT ![r] = m] ELSE rooms[k]]
    BY <1>1, <1>4, <1>5
  <2>2. rooms[l] \in [Rooms -> RoomRecs]
    BY <1>1, <1>3
  <2> QED  BY <1>1, <1>3, <1>8, <2>1, <2>2 DEF OneRoom
<1>12. shown' \in [Conns -> Views] /\ ShownTo(l, r)
  <2>1. shown' = [q \in Conns |-> IF q \in LobbyPeers(l) THEN [shown[q] EXCEPT ![r].status = "prepare"] ELSE shown[q]]
    BY <1>5, <1>8, <1>11 DEF NoticeRoomStatus
  <2>2. RoomShown(m) = [RoomShown(rooms[l][r]) EXCEPT !.status = "prepare"]
    BY <1>8 DEF RoomShown
  <2>3. RoomShown(m) \in ViewRecs
    BY <1>8, ShownRec
  <2>4. ASSUME NEW q \in Conns
        PROVE  /\ shown'[q] \in Views
               /\ \A k \in Rooms : shown'[q][k] = IF conn[q].lobby = l /\ k = r THEN RoomShown(m) ELSE shown[q][k]
    <3>1. q \in LobbyPeers(l) <=> conn[q].lobby = l
      BY <1>3, <1>a, PeersOfLobby
    <3>2. shown[q] \in [Rooms -> ViewRecs]
      BY <1>1 DEF Views
    <3>3. CASE conn[q].lobby = l
      <4>1. shown[q][r] = RoomShown(rooms[l][r])
        BY <1>2, <1>3, <1>a, <3>3, Constants DEF RoomsShown, Placed
      <4>2. shown'[q] = [shown[q] EXCEPT ![r].status = "prepare"]
        BY <2>1, <3>1, <3>3
      <4>3. shown'[q] = [shown[q] EXCEPT ![r] = RoomShown(m)]
        BY <2>2, <3>2, <4>1, <4>2
      <4> QED  BY <2>3, <3>2, <3>3, <4>3 DEF Views
    <3>4. CASE conn[q].lobby # l
      <4>1. shown'[q] = shown[q]
        BY <2>1, <3>1, <3>4
      <4> QED  BY <3>2, <3>4, <4>1 DEF Views
    <3> QED  BY <3>3, <3>4
  <2> HIDE DEF LobbyPeers
  <2>5. shown' = [q \in Conns |-> shown'[q]]
    BY <2>1
  <2>6. shown' \in [Conns -> Views]
    BY <2>4, <2>5
  <2> QED  BY <1>11, <2>4, <2>6 DEF ShownTo
<1>13. TypeOK'
  BY <1>1, <1>2, <1>9, <1>10, <1>11, <1>12, TypedNext
<1>14. MakesRoom(p, l, r)
  <2>1. client'[p].notice = "no" /\ ~ client'[p].entered
    BY <1>2, <1>9 DEF Engaged, Noticed
  <2> QED  BY <1>2, <1>3, <1>5, <1>6, <1>8, <1>9, <1>11, <1>12, <2>1 DEF MakesRoom, Only, l
<1> QED  BY <1>13, <1>14 DEF l

(* Who comes into a room, to make its rule or to join it. *)
FillsRoom(p, l, r) ==
  /\ l \in Lobbies /\ conn[p].lobby = l /\ conn[p].state = "in"
  /\ (conn[p].room = 0 \/ (client[p].preparing /\ conn[p].room = r)) /\ client[p].notice = "no"
  /\ Only(p)
  /\ conn'[p].state = conn[p].state /\ conn'[p].lobby = l /\ conn'[p].room = r
  /\ conn'[p].battle = conn[p].battle /\ conn'[p].entry = conn[p].entry
  /\ conn'[p].after = conn[p].after
  /\ ~ client'[p].preparing /\ client'[p].entered = client[p].entered /\ client'[p].notice = "no"
  /\ client'[p].meets = client[p].meets /\ client'[p].removed = client[p].removed
  /\ (conn[p].room = 0 => ~ client[p].entered)
  /\ OneRoom(l, r) /\ ShownTo(l, r)
  /\ ToSet(rooms'[l][r].users) = ToSet(rooms[l][r].users) \cup {p}
  /\ IsInjective(rooms'[l][r].users)
  /\ rooms'[l][r].status \in {"recruit", "full"}
  /\ (rooms'[l][r].status = "full") = (Len(rooms'[l][r].users) = rooms'[l][r].max)
  /\ rooms'[l][r].owner = IF rooms[l][r].users = <<>> THEN UserOf[p] ELSE rooms[l][r].owner
  /\ UNCHANGED <<users, lobbys, battles, made>>

(* What Room.Enter and the tail of Room.Exit do to a room. *)
LEMMA FilledRoom ==
  ASSUME NEW room \in RoomRecs
  PROVE  /\ Filled(room) \in RoomRecs /\ Filled(room).users = room.users
         /\ Filled(room).owner = room.owner /\ Filled(room).max = room.max
         /\ Filled(room).status \in {"recruit", "full"}
         /\ (Filled(room).status = "full") = (Len(room.users) = room.max)
<1>1. PICK s : s = IF Len(room.users) = room.max THEN "full" ELSE "recruit"
  OBVIOUS
<1>2. PICK f : f = [room EXCEPT !.status = s]
  OBVIOUS
<1>3. Filled(room) = f
  BY <1>1, <1>2 DEF Filled
<1>4. /\ f \in RoomRecs /\ f.users = room.users /\ f.owner = room.owner /\ f.max = room.max
      /\ f.status = s
  BY <1>1, <1>2 DEF RoomRecs
<1> QED  BY <1>1, <1>3, <1>4

(* Room.Enter adds one member, who owns a room that had none. *)
LEMMA EnteredRoom ==
  ASSUME NEW room \in RoomRecs, IsInjective(room.users), NEW p \in Conns,
         p \notin ToSet(room.users), NEW count \in PlayerCounts, NEW new, new = Enter(room, p, count)
  PROVE  /\ new \in RoomRecs /\ ToSet(new.users) = ToSet(room.users) \cup {p}
         /\ IsInjective(new.users) /\ new.status \in {"recruit", "full"}
         /\ (new.status = "full") = (Len(new.users) = new.max)
         /\ new.owner = IF room.users = <<>> THEN UserOf[p] ELSE room.owner
<1>1. room.users \in Seq(Conns)
  BY RoomFields
<1>2. CASE room.users = <<>>
  <2>1. PICK f : f = [room EXCEPT !.owner = UserOf[p], !.max = count, !.users = <<p>>]
    OBVIOUS
  <2>2. f \in RoomRecs /\ f.users = <<p>> /\ f.owner = UserOf[p] /\ f.max = count
    <3>1. <<p>> \in Seq(Conns) /\ UserOf[p] \in Users
      BY Constants
    <3> QED  BY <2>1, <3>1 DEF RoomRecs
  <2>3. new = Filled(f)
    BY <1>2, <2>1 DEF Enter
  <2>4. ToSet(<<p>>) = {p} /\ IsInjective(<<p>>) /\ ToSet(room.users) = {}
    BY <1>2 DEF ToSet, IsInjective
  <2> QED  BY <1>2, <2>2, <2>3, <2>4, FilledRoom
<1>3. CASE room.users # <<>>
  <2>1. PICK f : f = [room EXCEPT !.users = Append(room.users, p)]
    OBVIOUS
  <2>2. /\ Append(room.users, p) \in Seq(Conns) /\ IsInjective(Append(room.users, p))
        /\ ToSet(Append(room.users, p)) = ToSet(room.users) \cup {p}
    BY <1>1, AppendMembers
  <2>3. f \in RoomRecs /\ f.users = Append(room.users, p) /\ f.owner = room.owner /\ f.max = room.max
    BY <2>1, <2>2 DEF RoomRecs
  <2>4. new = Filled(f)
    BY <1>3, <2>1 DEF Enter
  <2>5. /\ new \in RoomRecs /\ new.users = f.users /\ new.owner = f.owner /\ new.max = f.max
        /\ new.status \in {"recruit", "full"}
        /\ (new.status = "full") = (Len(f.users) = f.max)
    BY <2>3, <2>4, FilledRoom
  <2> QED  BY <1>3, <2>2, <2>3, <2>5
<1> QED  BY <1>2, <1>3

(* OnEnterRoom and OnDecideRuleFinish put their client on the list of a    *)
(* room.                                                                   *)
LEMMA FillsRoomEffect ==
  ASSUME IInv, NEW p \in Conns, NEW r \in Rooms, NEW count \in PlayerCounts,
         OnEnterRoom(p, r, count) \/ (OnDecideRuleFinish(p, count) /\ conn[p].room = r)
  PROVE  TypeOK' /\ FillsRoom(p, conn[p].lobby, r)
<1>a. TypeOK /\ LoggedIn /\ LobbyListsPresent /\ Placed /\ RoomsAgree /\ Preparing
  BY DEF IInv
<1> DEFINE l == conn[p].lobby
<1>1. /\ conn \in [Conns -> ConnRecs(Len(made))] /\ rooms \in [Lobbies -> [Rooms -> RoomRecs]]
      /\ client \in [Conns -> ClientRecs] /\ shown \in [Conns -> Views]
      /\ users \in [Users -> Conns \cup {None}] /\ battles \in [Users -> 0 .. Len(made)]
      /\ Len(made) <= MaxBattles /\ lobbys \in [Lobbies -> LobbyRecs]
  BY <1>a, Typed
<1>2. /\ Asks(p) /\ conn[p].state = "in" /\ l # 0 /\ client[p].notice = "no"
      /\ (conn[p].room = 0 \/ (client[p].preparing /\ conn[p].room = r))
      /\ (conn[p].room = 0 => ~ client[p].entered)
      /\ UNCHANGED <<users, lobbys, battles, made>>
  <2>1. CASE OnEnterRoom(p, r, count)
    BY <2>1 DEF OnEnterRoom, Idle, Asks, Engaged
  <2>2. CASE OnDecideRuleFinish(p, count) /\ conn[p].room = r
    <3>1. conn[p].lobby # 0 /\ client[p].notice = "no" /\ r # 0
      BY <2>2, <1>a, Constants DEF OnDecideRuleFinish, Placed, Preparing
    <3> QED  BY <2>2, <3>1 DEF OnDecideRuleFinish, Asks
  <2> QED  BY <2>1, <2>2
<1>3. l \in Lobbies
  BY <1>2, <1>a, Fields
<1>4. PICK m : m = Enter(rooms[l][r], p, count)
  OBVIOUS
<1>5. /\ m \in RoomRecs /\ ToSet(m.users) = ToSet(rooms[l][r].users) \cup {p}
      /\ IsInjective(m.users) /\ m.status \in {"recruit", "full"}
      /\ (m.status = "full") = (Len(m.users) = m.max)
      /\ m.owner = IF rooms[l][r].users = <<>> THEN UserOf[p] ELSE rooms[l][r].owner
  <2>1. rooms[l][r] \in RoomRecs
    BY <1>1, <1>3
  <2>2. IsInjective(rooms[l][r].users) /\ p \notin ToSet(rooms[l][r].users)
    BY <1>2, <1>3, <1>a, Constants DEF RoomsAgree
  <2> HIDE DEF l
  <2>3. PICK room : room = rooms[l][r]
    OBVIOUS
  <2>4. /\ room \in RoomRecs /\ IsInjective(room.users) /\ p \notin ToSet(room.users)
        /\ m = Enter(room, p, count)
    BY <1>4, <2>1, <2>2, <2>3
  <2>5. /\ m \in RoomRecs /\ ToSet(m.users) = ToSet(room.users) \cup {p}
        /\ IsInjective(m.users) /\ m.status \in {"recruit", "full"}
        /\ (m.status = "full") = (Len(m.users) = m.max)
        /\ m.owner = IF room.users = <<>> THEN UserOf[p] ELSE room.owner
    BY <2>4, EnteredRoom
  <2> QED  BY <2>3, <2>5
<1>6. rooms' = [rooms EXCEPT ![l][r] = m] /\ shown' = NoticeRoom(l, r)
  BY <1>4 DEF OnEnterRoom, OnDecideRuleFinish
<1> HIDE DEF l
<1>7. rooms' \in [Lobbies -> [Rooms -> RoomRecs]] /\ rooms'[l][r] = m /\ OneRoom(l, r)
  <2>1. rooms' = [k \in Lobbies |-> IF k = l THEN [rooms[l] EXCEPT ![r] = m] ELSE rooms[k]]
    BY <1>1, <1>6
  <2>2. rooms[l] \in [Rooms -> RoomRecs]
    BY <1>1, <1>3
  <2> QED  BY <1>1, <1>3, <1>5, <2>1, <2>2 DEF OneRoom
<1>8. shown' \in [Conns -> Views] /\ ShownTo(l, r)
  BY <1>3, <1>6, <1>7, <1>a, NoticeRoomShown DEF ShownTo
<1>9. /\ conn' \in [Conns -> ConnRecs(Len(made))] /\ (\A q \in Conns : q # p => conn'[q] = conn[q])
      /\ conn'[p].state = conn[p].state /\ conn'[p].lobby = l /\ conn'[p].room = r
      /\ conn'[p].battle = conn[p].battle /\ conn'[p].entry = conn[p].entry
      /\ conn'[p].after = conn[p].after
  <2>1. CASE OnEnterRoom(p, r, count)
    <3>1. PICK c : c = [conn[p] EXCEPT !.room = r]
      OBVIOUS
    <3>2. /\ c \in ConnRecs(Len(made)) /\ c.state = conn[p].state /\ c.lobby = conn[p].lobby /\ c.room = r
          /\ c.battle = conn[p].battle /\ c.entry = conn[p].entry /\ c.after = conn[p].after
      <4>1. conn[p] \in ConnRecs(Len(made))
        BY <1>1
      <4> QED  BY <3>1, <4>1 DEF ConnRecs
    <3>3. conn' = [q \in Conns |-> IF q = p THEN c ELSE conn[q]]
      BY <1>1, <2>1, <3>1 DEF OnEnterRoom
    <3> QED  BY <1>1, <3>2, <3>3 DEF l
  <2>2. CASE OnDecideRuleFinish(p, count) /\ conn[p].room = r
    BY <1>1, <2>2 DEF OnDecideRuleFinish, l
  <2> QED  BY <2>1, <2>2
<1>10. /\ client' \in [Conns -> ClientRecs] /\ Noticed(p)
       /\ (\A q \in Conns : q # p => client'[q] = client[q])
       /\ ~ client'[p].preparing /\ client'[p].entered = client[p].entered
       /\ client'[p].removed = client[p].removed /\ client'[p].meets = client[p].meets
  <2>1. CASE OnEnterRoom(p, r, count)
    <3>1. client' = Told(client, p) /\ conn[p].room = 0
      BY <2>1 DEF OnEnterRoom, Idle
    <3>2. ~ client[p].preparing
      BY <1>a, <3>1 DEF Preparing
    <3> QED  BY <1>1, <1>2, <1>a, <3>1, <3>2, ToldView
  <2>2. CASE OnDecideRuleFinish(p, count)
    <3>1. PICK v : v = [client EXCEPT ![p].preparing = FALSE]
      OBVIOUS
    <3>2. PICK d : d = [client[p] EXCEPT !.preparing = FALSE]
      OBVIOUS
    <3>3. /\ d \in ClientRecs /\ ~ d.preparing /\ d.entered = client[p].entered /\ d.meets = client[p].meets
          /\ d.removed = client[p].removed /\ d.notice = client[p].notice
      <4>1. client[p] \in ClientRecs
        BY <1>1
      <4> QED  BY <3>2, <4>1 DEF ClientRecs
    <3>4. v = [q \in Conns |-> IF q = p THEN d ELSE client[q]]
      BY <1>1, <3>1, <3>2
    <3>5. v \in [Conns -> ClientRecs] /\ v[p] = d /\ (\A q \in Conns : q # p => v[q] = client[q])
      BY <1>1, <3>3, <3>4
    <3>6. client' = Told(v, p) /\ v[p].notice = client[p].notice
      BY <2>2, <3>1, <3>3, <3>5 DEF OnDecideRuleFinish
    <3> QED  BY <1>2, <1>a, <3>3, <3>5, <3>6, ToldView
  <2> QED  BY <2>1, <2>2
<1>11. TypeOK'
  BY <1>1, <1>2, <1>7, <1>8, <1>9, <1>10, TypedNext
<1>12. FillsRoom(p, l, r)
  <2>1. client'[p].notice = "no"
    BY <1>2, <1>10 DEF Noticed
  <2> QED  BY <1>2, <1>3, <1>5, <1>7, <1>8, <1>9, <1>10, <2>1 DEF FillsRoom, Only, l
<1> QED  BY <1>11, <1>12 DEF l

(* Who is out of its room when p leaves the one it is in. *)
Gone(p) ==
  {q \in Conns : q = p \/ /\ rooms[conn[p].lobby][conn[p].room].owner = UserOf[p]
                          /\ q \in ToSet(rooms[conn[p].lobby][conn[p].room].users)}

(* The room p leaves. *)
LeftRoom(p, l, r) ==
  /\ OneRoom(l, r)
  /\ ToSet(rooms'[l][r].users) = ToSet(rooms[l][r].users) \ Gone(p)
  /\ IsInjective(rooms'[l][r].users)
  /\ rooms'[l][r].users = <<>> => rooms'[l][r].owner = None /\ rooms'[l][r].status = "empty"
  /\ rooms'[l][r].users # <<>> =>
       /\ rooms'[l][r].owner = rooms[l][r].owner /\ rooms[l][r].owner # UserOf[p]
       /\ rooms'[l][r].status \in {"recruit", "full"}
       /\ (rooms'[l][r].status = "full") = (Len(rooms'[l][r].users) = rooms'[l][r].max)
Leaving(p) ==
  /\ conn[p].room = 0 => rooms' = rooms
  /\ conn[p].room # 0 => conn[p].lobby \in Lobbies /\ LeftRoom(p, conn[p].lobby, conn[p].room)
  /\ \A q \in Conns : q # p =>
       /\ conn'[q].state = conn[q].state /\ conn'[q].lobby = conn[q].lobby
       /\ conn'[q].battle = conn[q].battle /\ conn'[q].after = conn[q].after
       /\ conn'[q].room = IF conn[p].room # 0 /\ q \in Gone(p) THEN 0 ELSE conn[q].room
       /\ conn'[q].entry = IF conn[p].room # 0 /\ q \in Gone(p) THEN None ELSE conn[q].entry
       /\ client'[q] = client[q]
  /\ \A q \in Conns, k \in Rooms : q # p \/ conn'[p].lobby # 0 =>
       shown'[q][k] = IF conn[p].room # 0 /\ conn[q].lobby = conn[p].lobby /\ k = conn[p].room
                      THEN RoomShown(rooms'[conn[p].lobby][conn[p].room]) ELSE shown[q][k]
  /\ conn'[p].room = 0 /\ ~ client'[p].preparing /\ ~ client'[p].removed

(* An owner is a member of its room and in it. *)
LEMMA OwnerIsMember ==
  ASSUME IInv, NEW p \in Conns, NEW l \in Lobbies, NEW r \in Rooms, rooms[l][r].owner = UserOf[p]
  PROVE  p \in ToSet(rooms[l][r].users) /\ conn[p].lobby = l /\ conn[p].room = r /\ ~ client[p].preparing
<1>1. TypeOK /\ Preparing /\ RoomsAgree
  BY DEF IInv
<1>2. rooms[l][r].users # <<>>
  BY <1>1, Constants DEF Preparing
<1>3. rooms[l][r].users \in Seq(Conns)
  BY <1>1, RoomTyped
<1>4. ToSet(rooms[l][r].users) # {}
  <2>1. PICK s \in Seq(Conns) : s = rooms[l][r].users /\ s # <<>>
    BY <1>2, <1>3
  <2>2. Len(s) \in Nat /\ DOMAIN s = 1 .. Len(s) /\ Len(s) # 0
    BY <2>1, LenProperties, EmptySeq
  <2>3. 1 \in DOMAIN s
    BY <2>2
  <2> QED  BY <2>1, <2>3 DEF ToSet
<1>5. PICK q \in ToSet(rooms[l][r].users) : UserOf[q] = UserOf[p]
  BY <1>1, <1>4 DEF RoomsAgree
<1>6. q \in Conns
  BY <1>1, RoomTyped
<1>7. q = p
  BY <1>5, <1>6, OneConnectionEach
<1> QED  BY <1>1, <1>5, <1>7 DEF RoomsAgree

(* An empty list has no members, a list with members is not empty. *)
LEMMA NoMembers ==
  ASSUME NEW S, NEW s \in Seq(S)
  PROVE  s = <<>> <=> ToSet(s) = {}
<1>1. Len(s) \in Nat /\ DOMAIN s = 1 .. Len(s)
  BY LenProperties
<1>2. CASE s = <<>>
  BY <1>2 DEF ToSet
<1>3. CASE s # <<>>
  <2>1. Len(s) # 0
    BY <1>3, EmptySeq
  <2>2. 1 \in DOMAIN s
    BY <1>1, <2>1
  <2> QED  BY <1>3, <2>2 DEF ToSet
<1> QED  BY <1>2, <1>3

(* A room without members. *)
LEMMA EmptyRoomFields ==
  /\ EmptyRoom \in RoomRecs /\ EmptyRoom.users = <<>> /\ EmptyRoom.owner = None
  /\ EmptyRoom.status = "empty" /\ ToSet(EmptyRoom.users) = {} /\ IsInjective(EmptyRoom.users)
BY DEF EmptyRoom, RoomRecs, ToSet, IsInjective

(* OnExitRoom changes the room that is left, if any, and no other. *)
LEMMA RoomsLeft ==
  ASSUME IInv, NEW p \in Conns, rooms' = RoomsAfterExit(p)
  PROVE  /\ rooms' \in [Lobbies -> [Rooms -> RoomRecs]]
         /\ conn[p].room = 0 => rooms' = rooms
         /\ conn[p].room # 0 =>
              /\ conn[p].lobby \in Lobbies /\ conn[p].room \in Rooms
              /\ LeftRoom(p, conn[p].lobby, conn[p].room)
<1>1. TypeOK /\ Placed /\ RoomsAgree /\ Preparing
  BY DEF IInv
<1>2. rooms \in [Lobbies -> [Rooms -> RoomRecs]]
  BY <1>1, Typed
<1>3. CASE conn[p].room = 0
  BY <1>2, <1>3 DEF RoomsAfterExit
<1>4. CASE conn[p].room # 0
  <2>1. PICK l \in Lobbies, r \in Rooms : l = conn[p].lobby /\ r = conn[p].room
    BY <1>1, <1>4, Fields DEF Placed
  <2>2. PICK room : room = rooms[l][r]
    OBVIOUS
  <2>3. PICK new : new = IF room.owner = UserOf[p] THEN EmptyRoom ELSE Exit(room, UserOf[p])
    OBVIOUS
  <2>4. rooms' = [k \in Lobbies |-> IF k = l THEN [rooms[l] EXCEPT ![r] = new] ELSE rooms[k]]
    BY <1>2, <1>4, <2>1, <2>2, <2>3 DEF RoomsAfterExit
  <2>5. /\ room \in RoomRecs /\ room.users \in Seq(Conns) /\ IsInjective(room.users)
        /\ ToSet(room.users) \subseteq Conns
    BY <1>1, <2>2, RoomTyped DEF RoomsAgree
  <2>6. /\ new \in RoomRecs
        /\ ToSet(new.users) = ToSet(room.users) \ Gone(p)
        /\ IsInjective(new.users)
        /\ new.users = <<>> => new.owner = None /\ new.status = "empty"
        /\ new.users # <<>> =>
             /\ new.owner = room.owner /\ room.owner # UserOf[p]
             /\ new.status \in {"recruit", "full"}
             /\ (new.status = "full") = (Len(new.users) = new.max)
    <3>1. CASE room.owner = UserOf[p]
      <4>1. new = EmptyRoom
        BY <2>3, <3>1
      <4>2. ToSet(room.users) \ Gone(p) = {}
        BY <2>1, <2>2, <2>5, <3>1 DEF Gone
      <4> QED  BY <4>1, <4>2, EmptyRoomFields
    <3>2. CASE room.owner # UserOf[p]
      <4>1. PICK left : left = RemoveFirstMatch(room.users, LAMBDA q : UserOf[q] = UserOf[p])
        OBVIOUS
      <4>2. left \in Seq(Conns) /\ IsInjective(left) /\ ToSet(left) = ToSet(room.users) \ {p}
        <5>1. CASE p \in ToSet(room.users)
          BY <2>5, <4>1, <5>1, RemoveUserMembers
        <5>2. CASE p \notin ToSet(room.users)
          <6>1. \A j \in 1 .. Len(room.users) : room.users[j] \in Conns /\ room.users[j] \in ToSet(room.users)
            BY <2>5, LenProperties, ElementOfSeq DEF ToSet
          <6>2. \A j \in 1 .. Len(room.users) : UserOf[room.users[j]] # UserOf[p]
            BY <5>2, <6>1, OneConnectionEach
          <6>3. left = room.users
            BY <4>1, <6>2 DEF RemoveFirstMatch
          <6> QED  BY <2>5, <5>2, <6>3
        <5> QED  BY <5>1, <5>2
      <4>3. Gone(p) = {p}
        BY <2>1, <2>2, <3>2 DEF Gone
      <4>4. CASE left = <<>>
        <5>1. new = EmptyRoom
          BY <2>3, <3>2, <4>1, <4>4 DEF Exit
        <5>2. ToSet(left) = {}
          BY <4>4 DEF ToSet
        <5> QED  BY <4>2, <4>3, <5>1, <5>2, EmptyRoomFields
      <4>5. CASE left # <<>>
        <5>1. PICK f : f = [room EXCEPT !.users = left]
          OBVIOUS
        <5>2. f \in RoomRecs /\ f.users = left /\ f.owner = room.owner /\ f.max = room.max
          BY <2>5, <4>2, <5>1 DEF RoomRecs
        <5>3. new = Filled(f)
          BY <2>3, <3>2, <4>1, <4>5, <5>1 DEF Exit
        <5> QED  BY <3>2, <4>2, <4>3, <4>5, <5>2, <5>3, FilledRoom
      <4> QED  BY <4>4, <4>5
    <3> QED  BY <3>1, <3>2
  <2>7. rooms[l] \in [Rooms -> RoomRecs]
    BY <1>2
  <2>8. rooms' \in [Lobbies -> [Rooms -> RoomRecs]] /\ rooms'[l][r] = new /\ OneRoom(l, r)
    BY <1>2, <2>4, <2>6, <2>7 DEF OneRoom
  <2>9. LeftRoom(p, l, r)
    BY <2>2, <2>6, <2>8 DEF LeftRoom
  <2> QED  BY <1>4, <2>1, <2>8, <2>9
<1> QED  BY <1>3, <1>4

(* A connection out of its room. *)
Cleared(c) == [c EXCEPT !.room = 0, !.entry = None]

(* Such a connection keeps everything else. *)
LEMMA ClearedFields ==
  ASSUME NEW n, NEW c \in ConnRecs(n)
  PROVE  /\ Cleared(c) \in ConnRecs(n) /\ Cleared(c).room = 0 /\ Cleared(c).entry = None
         /\ Cleared(c).state = c.state /\ Cleared(c).lobby = c.lobby
         /\ Cleared(c).battle = c.battle /\ Cleared(c).after = c.after /\ Cleared(c).sync = c.sync
BY DEF Cleared, ConnRecs

(* OnExitRoom puts out of the room who leaves it and, with its owner, the  *)
(* members.                                                                *)
LEMMA ConnsLeft ==
  ASSUME IInv, NEW p \in Conns, NEW cs, cs = ConnsAfterExit(p)
  PROVE  /\ cs \in [Conns -> ConnRecs(Len(made))]
         /\ \A q \in Conns :
              cs[q] = IF conn[p].room # 0 /\ q \in Gone(p) THEN Cleared(conn[q]) ELSE conn[q]
<1>1. TypeOK /\ Placed /\ RoomsAgree /\ LoggedIn
  BY DEF IInv
<1>2. conn \in [Conns -> ConnRecs(Len(made))]
  BY <1>1, Typed
<1>3. CASE conn[p].room = 0
  BY <1>2, <1>3 DEF ConnsAfterExit
<1>4. CASE conn[p].room # 0
  <2>1. PICK l \in Lobbies, r \in Rooms : l = conn[p].lobby /\ r = conn[p].room
    BY <1>1, <1>4, Fields DEF Placed
  <2>2. PICK room : room = rooms[l][r]
    OBVIOUS
  <2>3. PICK out : out = IF room.owner = UserOf[p] THEN PutOut(room) ELSE {}
    OBVIOUS
  <2>4. cs = [q \in Conns |-> IF q \in out \cup {p} THEN Cleared(conn[q]) ELSE conn[q]]
    BY <1>4, <2>1, <2>2, <2>3 DEF ConnsAfterExit, Cleared
  <2>5. ASSUME NEW q \in ToSet(room.users)
        PROVE  q \in Conns /\ users[UserOf[q]] = q
    <3>1. q \in Conns /\ conn[q].lobby = l
      BY <1>1, <2>2, RoomTyped DEF RoomsAgree
    <3> QED  BY <1>1, <3>1, Constants DEF Placed, LoggedIn
  <2>6. ASSUME NEW q \in Conns
        PROVE  q \in out \cup {p} <=> q \in Gone(p)
    <3>1. CASE room.owner = UserOf[p]
      <4>1. q \in PutOut(room) <=> q \in ToSet(room.users) /\ UserOf[q] # room.owner
        BY <2>5 DEF PutOut
      <4>2. UserOf[q] = room.owner <=> q = p
        BY <3>1, OneConnectionEach
      <4> QED  BY <2>1, <2>2, <2>3, <3>1, <4>1, <4>2 DEF Gone
    <3>2. CASE room.owner # UserOf[p]
      BY <2>1, <2>2, <2>3, <3>2 DEF Gone
    <3> QED  BY <3>1, <3>2
  <2>7. \A q \in Conns : cs[q] = IF q \in Gone(p) THEN Cleared(conn[q]) ELSE conn[q]
    BY <2>4, <2>6
  <2>8. \A q \in Conns : cs[q] \in ConnRecs(Len(made))
    BY <1>2, <2>7, ClearedFields
  <2>9. cs \in [Conns -> ConnRecs(Len(made))]
    BY <2>4, <2>8
  <2> QED  BY <1>4, <2>7, <2>9
<1> QED  BY <1>3, <1>4

(* The lobby is shown the room as it is after OnExitRoom. *)
LEMMA ShownLeft ==
  ASSUME IInv, NEW p \in Conns, NEW view, view = ShownAfterExit(p),
         rooms' \in [Lobbies -> [Rooms -> RoomRecs]]
  PROVE  /\ view \in [Conns -> Views]
         /\ \A q \in Conns, k \in Rooms :
              view[q][k] = IF conn[p].room # 0 /\ conn[q].lobby = conn[p].lobby /\ k = conn[p].room
                           THEN RoomShown(rooms'[conn[p].lobby][conn[p].room]) ELSE shown[q][k]
<1>1. TypeOK /\ Placed /\ LobbyListsPresent /\ LoggedIn
  BY DEF IInv
<1>2. CASE conn[p].room = 0
  BY <1>1, <1>2, Typed DEF ShownAfterExit
<1>3. CASE conn[p].room # 0
  <2>1. PICK l \in Lobbies, r \in Rooms : l = conn[p].lobby /\ r = conn[p].room
    BY <1>1, <1>3, Fields DEF Placed
  <2>2. view = NoticeRoom(l, r)
    BY <1>3, <2>1 DEF ShownAfterExit
  <2>3. /\ view \in [Conns -> Views]
        /\ \A q \in Conns, k \in Rooms :
             view[q][k] = IF conn[q].lobby = l /\ k = r THEN RoomShown(rooms'[l][r]) ELSE shown[q][k]
    BY <1>1, <2>2, NoticeRoomShown
  <2> QED  BY <1>3, <2>1, <2>3
<1> QED  BY <1>2, <1>3

(* The lobby p is in does not list it or its user's entry any more. *)
LeftLobby(p) ==
  /\ \A k \in Lobbies, u \in Users :
       lobbys'[k].users[u] = IF k = conn[p].lobby /\ u = UserOf[p] THEN None ELSE lobbys[k].users[u]
  /\ \A k \in Lobbies :
       /\ IsInjective(lobbys'[k].entries)
       /\ k # conn[p].lobby => lobbys'[k].entries = lobbys[k].entries
       /\ k = conn[p].lobby => ToSet(lobbys'[k].entries) = ToSet(lobbys[k].entries) \ {UserOf[p]}

(* Lobby.Exit takes the user and its entry off the lists. *)
LEMMA LobbysLeft ==
  ASSUME IInv, NEW p \in Conns, lobbys' = LobbysAfterExit(p)
  PROVE  lobbys' \in [Lobbies -> LobbyRecs] /\ LeftLobby(p)
<1>1. TypeOK /\ Placed /\ EntriesOnce /\ lobbys \in [Lobbies -> LobbyRecs]
  BY Typed DEF IInv
<1>2. CASE conn[p].lobby = 0
  <2>1. lobbys' = lobbys
    BY <1>2 DEF LobbysAfterExit
  <2>2. \A k \in Lobbies : k # conn[p].lobby
    BY <1>2, Constants
  <2> QED  BY <1>1, <2>1, <2>2 DEF LeftLobby, EntriesOnce
<1>3. CASE conn[p].lobby # 0
  <2>1. PICK l \in Lobbies, u \in Users : l = conn[p].lobby /\ u = UserOf[p]
    BY <1>1, <1>3, Fields, Constants
  <2>2. lobbys[l].users[u] # None
    BY <1>1, <1>3, <2>1, Constants DEF Placed
  <2>3. PICK d : d = [users |-> [lobbys[l].users EXCEPT ![u] = None],
                      entries |-> RemoveFirst(lobbys[l].entries, u)]
    OBVIOUS
  <2>4. lobbys' = [k \in Lobbies |-> IF k = l THEN d ELSE lobbys[k]]
    BY <1>1, <1>3, <2>1, <2>2, <2>3 DEF LobbysAfterExit
  <2>5. lobbys[l].users \in [Users -> Conns \cup {None}] /\ lobbys[l].entries \in Seq(Users)
        /\ IsInjective(lobbys[l].entries)
    BY <1>1, LobbyTyped DEF EntriesOnce
  <2>6. /\ RemoveFirst(lobbys[l].entries, u) \in Seq(Users)
        /\ IsInjective(RemoveFirst(lobbys[l].entries, u))
        /\ ToSet(RemoveFirst(lobbys[l].entries, u)) = ToSet(lobbys[l].entries) \ {u}
    BY <2>5, RemoveFirstMembers
  <2>7. d.users = [lobbys[l].users EXCEPT ![u] = None] /\ d.entries = RemoveFirst(lobbys[l].entries, u)
        /\ d \in LobbyRecs
    BY <2>3, <2>5, <2>6 DEF LobbyRecs
  <2>8. lobbys' \in [Lobbies -> LobbyRecs]
    BY <1>1, <2>4, <2>7
  <2>9. ASSUME NEW k \in Lobbies, NEW v \in Users
        PROVE  lobbys'[k].users[v] = IF k = l /\ v = u THEN None ELSE lobbys[k].users[v]
    BY <2>4, <2>5, <2>7
  <2>10. ASSUME NEW k \in Lobbies
         PROVE  /\ IsInjective(lobbys'[k].entries)
                /\ k # l => lobbys'[k].entries = lobbys[k].entries
                /\ k = l => ToSet(lobbys'[k].entries) = ToSet(lobbys[k].entries) \ {u}
    BY <1>1, <2>4, <2>6, <2>7 DEF EntriesOnce
  <2> QED  BY <2>1, <2>8, <2>9, <2>10 DEF LeftLobby
<1> QED  BY <1>2, <1>3

(* OnExitLobby, whatever its caller then does to p and its client. *)
LEMMA LeavingLobby ==
  ASSUME IInv, NEW p \in Conns, LeavesLobby(p), made' = made,
         NEW c \in ConnRecs(Len(made)), c.lobby = 0, c.room = 0,
         conn' = [q \in Conns |-> IF q = p THEN c ELSE ConnsAfterExit(p)[q]],
         NEW d \in ClientRecs, ~ d.preparing, ~ d.removed,
         client' = [q \in Conns |-> IF q = p THEN d ELSE client[q]],
         users' \in [Users -> Conns \cup {None}], battles' \in [Users -> 0 .. Len(made)]
  PROVE  /\ TypeOK' /\ Leaving(p) /\ LeftLobby(p)
         /\ conn'[p] = c /\ client'[p] = d
<1>1. TypeOK /\ client \in [Conns -> ClientRecs] /\ Len(made) <= MaxBattles
  BY Typed DEF IInv
<1>2. rooms' = RoomsAfterExit(p) /\ lobbys' = LobbysAfterExit(p)
  BY DEF LeavesLobby
<1>3. PICK view : view = ShownAfterExit(p)
  OBVIOUS
<1>4. shown' = [view EXCEPT ![p] = NotShown]
  BY <1>3 DEF LeavesLobby
<1>5. /\ rooms' \in [Lobbies -> [Rooms -> RoomRecs]]
      /\ conn[p].room = 0 => rooms' = rooms
      /\ conn[p].room # 0 =>
           /\ conn[p].lobby \in Lobbies /\ conn[p].room \in Rooms
           /\ LeftRoom(p, conn[p].lobby, conn[p].room)
  BY <1>2, RoomsLeft
<1>6. lobbys' \in [Lobbies -> LobbyRecs] /\ LeftLobby(p)
  BY <1>2, LobbysLeft
<1>7. /\ view \in [Conns -> Views]
      /\ \A q \in Conns, k \in Rooms :
           view[q][k] = IF conn[p].room # 0 /\ conn[q].lobby = conn[p].lobby /\ k = conn[p].room
                        THEN RoomShown(rooms'[conn[p].lobby][conn[p].room]) ELSE shown[q][k]
  BY <1>3, <1>5, ShownLeft
<1>8. PICK cs : cs = ConnsAfterExit(p)
  OBVIOUS
<1>9. /\ cs \in [Conns -> ConnRecs(Len(made))]
      /\ \A q \in Conns :
           cs[q] = IF conn[p].room # 0 /\ q \in Gone(p) THEN Cleared(conn[q]) ELSE conn[q]
  BY <1>8, ConnsLeft
<1>10. conn' \in [Conns -> ConnRecs(Len(made))] /\ client' \in [Conns -> ClientRecs]
  BY <1>1, <1>8, <1>9
<1>11. NotShown \in Views
  BY EmptyRoomFields, ShownRec DEF NotShown, Views
<1>12. /\ shown' \in [Conns -> Views]
       /\ \A q \in Conns : q # p => shown'[q] = view[q]
  BY <1>4, <1>7, <1>11
<1>13. TypeOK'
  BY <1>1, <1>5, <1>6, <1>10, <1>12, TypedNext
<1>14. ASSUME NEW q \in Conns, q # p
       PROVE  /\ conn'[q].state = conn[q].state /\ conn'[q].lobby = conn[q].lobby
              /\ conn'[q].battle = conn[q].battle /\ conn'[q].after = conn[q].after
              /\ conn'[q].room = IF conn[p].room # 0 /\ q \in Gone(p) THEN 0 ELSE conn[q].room
              /\ conn'[q].entry = IF conn[p].room # 0 /\ q \in Gone(p) THEN None ELSE conn[q].entry
              /\ client'[q] = client[q]
  <2>1. conn[q] \in ConnRecs(Len(made))
    BY <1>1, Typed
  <2>2. conn'[q] = IF conn[p].room # 0 /\ q \in Gone(p) THEN Cleared(conn[q]) ELSE conn[q]
    BY <1>8, <1>9, <1>14
  <2>3. client'[q] = client[q]
    BY <1>14
  <2> QED  BY <2>1, <2>2, <2>3, ClearedFields
<1>15. conn'[p] = c /\ client'[p] = d
  OBVIOUS
<1>16. \A q \in Conns, k \in Rooms : q # p \/ conn'[p].lobby # 0 =>
         shown'[q][k] = IF conn[p].room # 0 /\ conn[q].lobby = conn[p].lobby /\ k = conn[p].room
                        THEN RoomShown(rooms'[conn[p].lobby][conn[p].room]) ELSE shown[q][k]
  BY <1>7, <1>12, <1>15
<1>17. Leaving(p)
  BY <1>5, <1>14, <1>15, <1>16 DEF Leaving
<1> QED  BY <1>6, <1>13, <1>15, <1>17

(* Who leaves a room, and no more. *)
ExitsRoom(p) ==
  /\ conn[p].state = "in" /\ conn[p].room # 0 /\ Leaving(p) /\ Noticed(p)
  /\ conn'[p].state = conn[p].state /\ conn'[p].lobby = conn[p].lobby
  /\ conn'[p].battle = conn[p].battle /\ conn'[p].after = conn[p].after /\ conn'[p].entry = None
  /\ client'[p].entered = client[p].entered /\ client'[p].meets = client[p].meets
  /\ UNCHANGED <<users, lobbys, battles, made>>

(* OnExitRoom. *)
LEMMA OnExitRoomEffect ==
  ASSUME IInv, NEW p \in Conns, OnExitRoom(p)
  PROVE  TypeOK' /\ ExitsRoom(p)
<1>1. /\ TypeOK /\ client \in [Conns -> ClientRecs] /\ Len(made) <= MaxBattles
      /\ users \in [Users -> Conns \cup {None}] /\ battles \in [Users -> 0 .. Len(made)]
      /\ lobbys \in [Lobbies -> LobbyRecs]
  BY Typed DEF IInv
<1>2. /\ rooms' = RoomsAfterExit(p) /\ shown' = ShownAfterExit(p) /\ conn' = ConnsAfterExit(p)
      /\ Asks(p) /\ conn[p].state = "in" /\ conn[p].room # 0
      /\ UNCHANGED <<users, lobbys, battles, made>>
  BY DEF OnExitRoom, Asks
<1>5. /\ rooms' \in [Lobbies -> [Rooms -> RoomRecs]]
      /\ conn[p].lobby \in Lobbies /\ conn[p].room \in Rooms
      /\ LeftRoom(p, conn[p].lobby, conn[p].room)
  BY <1>2, RoomsLeft
<1>7. /\ shown' \in [Conns -> Views]
      /\ \A q \in Conns, k \in Rooms :
           shown'[q][k] = IF conn[p].room # 0 /\ conn[q].lobby = conn[p].lobby /\ k = conn[p].room
                        THEN RoomShown(rooms'[conn[p].lobby][conn[p].room]) ELSE shown[q][k]
  BY <1>2, <1>5, ShownLeft
<1>9. /\ conn' \in [Conns -> ConnRecs(Len(made))]
      /\ \A q \in Conns : conn'[q] = IF conn[p].room # 0 /\ q \in Gone(p) THEN Cleared(conn[q]) ELSE conn[q]
  BY <1>2, ConnsLeft
<1>10. /\ client' \in [Conns -> ClientRecs] /\ Noticed(p)
       /\ (\A q \in Conns : q # p => client'[q] = client[q])
       /\ ~ client'[p].preparing /\ ~ client'[p].removed
       /\ client'[p].entered = client[p].entered /\ client'[p].meets = client[p].meets
  <2>1. PICK d : d = [client[p] EXCEPT !.preparing = FALSE, !.removed = FALSE]
    OBVIOUS
  <2>2. PICK v : v = [client EXCEPT ![p].preparing = FALSE, ![p].removed = FALSE]
    OBVIOUS
  <2>3. /\ d \in ClientRecs /\ ~ d.preparing /\ ~ d.removed /\ d.entered = client[p].entered
        /\ d.meets = client[p].meets /\ d.notice = client[p].notice
    <3>1. client[p] \in ClientRecs
      BY <1>1
    <3> QED  BY <2>1, <3>1 DEF ClientRecs
  <2>4. v = [q \in Conns |-> IF q = p THEN d ELSE client[q]]
    BY <1>1, <2>1, <2>2
  <2>5. v \in [Conns -> ClientRecs] /\ v[p] = d /\ (\A q \in Conns : q # p => v[q] = client[q])
    BY <1>1, <2>3, <2>4
  <2>6. client' = Told(v, p) /\ v[p].notice = client[p].notice
    BY <2>2, <2>3, <2>5 DEF OnExitRoom
  <2> QED  BY <1>1, <1>2, <2>3, <2>5, <2>6, ToldView
<1>11. TypeOK'
  BY <1>1, <1>2, <1>5, <1>7, <1>9, <1>10, TypedNext
<1>12. ASSUME NEW q \in Conns
       PROVE  /\ conn'[q].state = conn[q].state /\ conn'[q].lobby = conn[q].lobby
              /\ conn'[q].battle = conn[q].battle /\ conn'[q].after = conn[q].after
              /\ conn'[q].room = IF conn[p].room # 0 /\ q \in Gone(p) THEN 0 ELSE conn[q].room
              /\ conn'[q].entry = IF conn[p].room # 0 /\ q \in Gone(p) THEN None ELSE conn[q].entry
  <2>1. conn[q] \in ConnRecs(Len(made))
    BY <1>1, Typed
  <2> QED  BY <1>9, <2>1, ClearedFields
<1>13. p \in Gone(p)
  BY DEF Gone
<1>14. Leaving(p)
  BY <1>2, <1>5, <1>7, <1>10, <1>12, <1>13 DEF Leaving
<1> QED  BY <1>2, <1>10, <1>11, <1>12, <1>13, <1>14 DEF ExitsRoom

(* Who leaves its lobby, with all it had there, and maybe more. *)
Leaves(p) ==
  /\ conn[p].state # "closed" /\ Leaving(p) /\ LeftLobby(p) /\ made' = made
  /\ conn'[p].lobby = 0 /\ ~ client'[p].entered /\ ~ client'[p].meets
  /\ conn'[p].battle \in {0, conn[p].battle}
  /\ \/ client'[p].notice = "no"
     \/ /\ Noticed(p) /\ conn'[p].battle = conn[p].battle /\ conn[p].state = "in"
        /\ conn'[p].entry = None \/ (conn[p].room = 0 /\ conn'[p].entry = conn[p].entry)
  /\ \/ conn'[p].state = "in" /\ conn[p].state = "in" /\ users' = users
     \/ conn'[p].state # "in" /\ users' = [users EXCEPT ![UserOf[p]] = None]
  /\ \A u \in Users : \/ battles'[u] = battles[u]
                      \/ /\ u = UserOf[p] /\ conn[p].battle # 0 /\ battles'[u] = conn[p].battle
                         /\ Asking(p)

(* The record p is left with by ConnsAfterExit, whether or not in a room.  *)
LEMMA OwnLeft ==
  ASSUME IInv, NEW p \in Conns, NEW a, a = ConnsAfterExit(p)[p]
  PROVE  /\ a \in ConnRecs(Len(made)) /\ a.room = 0 /\ a.state = conn[p].state
         /\ a.battle = conn[p].battle /\ a.after = conn[p].after
         /\ a.entry = IF conn[p].room = 0 THEN conn[p].entry ELSE None
<1>1. PICK cs : cs = ConnsAfterExit(p)
  OBVIOUS
<1>2. /\ cs \in [Conns -> ConnRecs(Len(made))]
      /\ cs[p] = IF conn[p].room # 0 /\ p \in Gone(p) THEN Cleared(conn[p]) ELSE conn[p]
  BY <1>1, ConnsLeft
<1>3. conn[p] \in ConnRecs(Len(made)) /\ p \in Gone(p) /\ a = cs[p]
  BY <1>1, Typed DEF IInv, Gone
<1> QED  BY <1>2, <1>3, ClearedFields

(* OnExitLobby: p leaves, and stays logged in. *)
LEMMA OnExitLobbyEffect ==
  ASSUME IInv, NEW p \in Conns, OnExitLobby(p)
  PROVE  TypeOK' /\ Leaves(p)
<1>1. /\ TypeOK /\ client \in [Conns -> ClientRecs] /\ Meeting
      /\ users \in [Users -> Conns \cup {None}] /\ battles \in [Users -> 0 .. Len(made)]
  BY Typed DEF IInv
<1>2. /\ LeavesLobby(p) /\ conn' = OutOfLobby(p) /\ Asks(p) /\ conn[p].state = "in"
      /\ conn[p].lobby # 0 /\ ~ client[p].entered
      /\ client' = Told([client EXCEPT ![p].preparing = FALSE, ![p].removed = FALSE], p)
      /\ UNCHANGED <<users, battles, made>>
  BY DEF OnExitLobby, Asks
<1>3. PICK cs : cs = ConnsAfterExit(p)
  OBVIOUS
<1>4. cs \in [Conns -> ConnRecs(Len(made))]
  BY <1>3, ConnsLeft
<1>5. PICK a : a = ConnsAfterExit(p)[p]
  OBVIOUS
<1>6. /\ a \in ConnRecs(Len(made)) /\ a.room = 0 /\ a.state = conn[p].state
      /\ a.battle = conn[p].battle /\ a.after = conn[p].after
      /\ a.entry = IF conn[p].room = 0 THEN conn[p].entry ELSE None
  BY <1>5, OwnLeft
<1>7. PICK c : c = [a EXCEPT !.lobby = 0, !.sync = None]
  OBVIOUS
<1>8. /\ c \in ConnRecs(Len(made)) /\ c.lobby = 0 /\ c.room = 0 /\ c.state = conn[p].state
      /\ c.battle = conn[p].battle /\ c.after = conn[p].after
      /\ c.entry = IF conn[p].room = 0 THEN conn[p].entry ELSE None
  <2>1. None \in Syncs
    BY DEF Syncs
  <2> QED  BY <1>6, <1>7, <2>1 DEF ConnRecs
<1>9. conn' = [q \in Conns |-> IF q = p THEN c ELSE ConnsAfterExit(p)[q]]
  <2>1. cs[p] = a /\ conn' = [cs EXCEPT ![p].lobby = 0, ![p].sync = None]
    BY <1>2, <1>3, <1>5 DEF OutOfLobby
  <2>2. conn' = [q \in Conns |-> IF q = p THEN c ELSE cs[q]]
    BY <1>4, <1>7, <2>1
  <2> QED  BY <1>3, <2>2
<1>10. /\ client' \in [Conns -> ClientRecs] /\ Noticed(p)
       /\ (\A q \in Conns : q # p => client'[q] = client[q])
       /\ ~ client'[p].preparing /\ ~ client'[p].removed
       /\ client'[p].entered = client[p].entered /\ client'[p].meets = client[p].meets
  <2>1. PICK d : d = [client[p] EXCEPT !.preparing = FALSE, !.removed = FALSE]
    OBVIOUS
  <2>2. PICK v : v = [client EXCEPT ![p].preparing = FALSE, ![p].removed = FALSE]
    OBVIOUS
  <2>3. /\ d \in ClientRecs /\ ~ d.preparing /\ ~ d.removed /\ d.entered = client[p].entered
        /\ d.meets = client[p].meets /\ d.notice = client[p].notice
    <3>1. client[p] \in ClientRecs
      BY <1>1
    <3> QED  BY <2>1, <3>1 DEF ClientRecs
  <2>4. v = [q \in Conns |-> IF q = p THEN d ELSE client[q]]
    BY <1>1, <2>1, <2>2
  <2>5. v \in [Conns -> ClientRecs] /\ v[p] = d /\ (\A q \in Conns : q # p => v[q] = client[q])
    BY <1>1, <2>3, <2>4
  <2>6. client' = Told(v, p) /\ v[p].notice = client[p].notice
    BY <1>2, <2>2, <2>3, <2>5
  <2>7. Asks(p)
    BY <1>2
  <2>8. /\ client' \in [Conns -> ClientRecs]
        /\ \A q \in Conns : /\ q # p => client'[q] = v[q]
                            /\ client'[q].entered = v[q].entered
                            /\ client'[q].preparing = v[q].preparing
                            /\ client'[q].meets = v[q].meets
                            /\ client'[q].removed = v[q].removed
        /\ Noticed(p)
    BY <1>1, <2>5, <2>6, <2>7, ToldView
  <2> QED  BY <2>3, <2>5, <2>8
<1>11. PICK d \in ClientRecs : d = client'[p]
  BY <1>10
<1>12. client' = [q \in Conns |-> IF q = p THEN d ELSE client[q]]
  BY <1>10, <1>11
<1>13. TypeOK' /\ Leaving(p) /\ LeftLobby(p) /\ conn'[p] = c
  <2>1. LeavesLobby(p) /\ made' = made /\ c \in ConnRecs(Len(made)) /\ c.lobby = 0 /\ c.room = 0
    BY <1>2, <1>8
  <2>2. d \in ClientRecs /\ ~ d.preparing /\ ~ d.removed
    BY <1>10, <1>11
  <2>3. users' \in [Users -> Conns \cup {None}] /\ battles' \in [Users -> 0 .. Len(made)]
    BY <1>1, <1>2
  <2> QED  BY <1>9, <1>12, <2>1, <2>2, <2>3, LeavingLobby
<1>14. ~ client[p].meets
  BY <1>1, <1>2 DEF Meeting
<1> QED  BY <1>2, <1>8, <1>10, <1>13, <1>14 DEF Leaves

(* OnUserTopPageJump: p leaves, stays logged in, and forgets its battle. *)
LEMMA OnUserTopPageJumpEffect ==
  ASSUME IInv, NEW p \in Conns, OnUserTopPageJump(p)
  PROVE  TypeOK' /\ Leaves(p)
<1>1. /\ TypeOK /\ client \in [Conns -> ClientRecs] /\ Len(made) \in Nat
      /\ users \in [Users -> Conns \cup {None}] /\ battles \in [Users -> 0 .. Len(made)]
  BY Typed, LobbyAssumption DEF IInv, InBattle
<1>2. /\ LeavesLobby(p) /\ conn[p].state = "in"
      /\ conn' = [OutOfLobby(p) EXCEPT ![p].battle = 0, ![p].entry = None]
      /\ client' = [client EXCEPT ![p] = Fresh]
      /\ UNCHANGED <<users, battles, made>>
  BY DEF OnUserTopPageJump, Asks
<1>3. PICK cs : cs = ConnsAfterExit(p)
  OBVIOUS
<1>4. cs \in [Conns -> ConnRecs(Len(made))]
  BY <1>3, ConnsLeft
<1>5. PICK a : a = ConnsAfterExit(p)[p]
  OBVIOUS
<1>6. a \in ConnRecs(Len(made)) /\ a.room = 0 /\ a.state = conn[p].state
  BY <1>5, OwnLeft
<1>7. PICK b, c : b = [a EXCEPT !.lobby = 0, !.sync = None] /\ c = [b EXCEPT !.battle = 0, !.entry = None]
  OBVIOUS
<1>8. /\ c \in ConnRecs(Len(made)) /\ c.lobby = 0 /\ c.room = 0 /\ c.state = conn[p].state
      /\ c.battle = 0 /\ c.entry = None
  <2>1. None \in Syncs
    BY DEF Syncs
  <2>2. b \in ConnRecs(Len(made)) /\ b.lobby = 0 /\ b.room = 0 /\ b.state = conn[p].state
    BY <1>6, <1>7, <2>1 DEF ConnRecs
  <2>3. 0 \in 0 .. Len(made)
    BY <1>1
  <2> QED  BY <1>7, <2>2, <2>3 DEF ConnRecs
<1>9. conn' = [q \in Conns |-> IF q = p THEN c ELSE ConnsAfterExit(p)[q]]
  <2>1. cs[p] = a /\ OutOfLobby(p) = [cs EXCEPT ![p].lobby = 0, ![p].sync = None]
    BY <1>3, <1>5 DEF OutOfLobby
  <2>2. PICK ou : ou = OutOfLobby(p)
    OBVIOUS
  <2>3. ou = [q \in Conns |-> IF q = p THEN b ELSE cs[q]]
    BY <1>4, <1>7, <2>1, <2>2
  <2>4. conn' = [ou EXCEPT ![p].battle = 0, ![p].entry = None]
    BY <1>2, <2>2
  <2>5. conn' = [q \in Conns |-> IF q = p THEN c ELSE cs[q]]
    BY <1>7, <2>3, <2>4
  <2> QED  BY <1>3, <2>5
<1>10. client' = [q \in Conns |-> IF q = p THEN Fresh ELSE client[q]]
  BY <1>1, <1>2
<1>11. TypeOK' /\ Leaving(p) /\ LeftLobby(p) /\ conn'[p] = c /\ client'[p] = Fresh
  <2>1. LeavesLobby(p) /\ made' = made /\ c \in ConnRecs(Len(made)) /\ c.lobby = 0 /\ c.room = 0
    BY <1>2, <1>8
  <2>2. users' \in [Users -> Conns \cup {None}] /\ battles' \in [Users -> 0 .. Len(made)]
    BY <1>1, <1>2
  <2> QED  BY <1>9, <1>10, <2>1, <2>2, FreshFields, LeavingLobby
<1> QED  BY <1>2, <1>8, <1>11, FreshFields DEF Leaves

(* OnUserLogout and OnUserGotoBattle: p leaves, and is logged in no more. *)
LEMMA LogsOutEffect ==
  ASSUME IInv, NEW p \in Conns, OnUserLogout(p) \/ OnUserGotoBattle(p)
  PROVE  TypeOK' /\ Leaves(p)
<1>1. /\ TypeOK /\ client \in [Conns -> ClientRecs] /\ Len(made) \in Nat
      /\ users \in [Users -> Conns \cup {None}] /\ battles \in [Users -> 0 .. Len(made)]
      /\ conn[p].battle \in 0 .. Len(made)
  BY Typed, Fields, LobbyAssumption DEF IInv, InBattle
<1>2. /\ LeavesLobby(p) /\ conn[p].state = "in"
      /\ conn' = [OutOfLobby(p) EXCEPT ![p].battle = 0, ![p].entry = None, ![p].state = "out"]
      /\ client' = [client EXCEPT ![p] = Fresh]
      /\ users' = [users EXCEPT ![UserOf[p]] = None]
      /\ UNCHANGED made
  BY DEF OnUserLogout, OnUserGotoBattle, LogsOut, Asks
<1>b. /\ battles' \in [Users -> 0 .. Len(made)]
      /\ \A u \in Users : \/ battles'[u] = battles[u]
                          \/ /\ u = UserOf[p] /\ conn[p].battle # 0 /\ battles'[u] = conn[p].battle
                             /\ Asking(p)
  <2>1. CASE OnUserLogout(p)
    BY <1>1, <2>1 DEF OnUserLogout
  <2>2. CASE OnUserGotoBattle(p)
    BY <1>1, <2>2 DEF OnUserGotoBattle, Asking
  <2> QED  BY <2>1, <2>2
<1>3. PICK cs : cs = ConnsAfterExit(p)
  OBVIOUS
<1>4. cs \in [Conns -> ConnRecs(Len(made))]
  BY <1>3, ConnsLeft
<1>5. PICK a : a = ConnsAfterExit(p)[p]
  OBVIOUS
<1>6. a \in ConnRecs(Len(made)) /\ a.room = 0
  BY <1>5, OwnLeft
<1>7. PICK b, c : /\ b = [a EXCEPT !.lobby = 0, !.sync = None]
                  /\ c = [b EXCEPT !.battle = 0, !.entry = None, !.state = "out"]
  OBVIOUS
<1>8. /\ c \in ConnRecs(Len(made)) /\ c.lobby = 0 /\ c.room = 0 /\ c.state = "out"
      /\ c.battle = 0 /\ c.entry = None
  <2>1. None \in Syncs
    BY DEF Syncs
  <2>2. b \in ConnRecs(Len(made)) /\ b.lobby = 0 /\ b.room = 0
    BY <1>6, <1>7, <2>1 DEF ConnRecs
  <2>3. 0 \in 0 .. Len(made)
    BY <1>1
  <2> QED  BY <1>7, <2>2, <2>3 DEF ConnRecs
<1>9. conn' = [q \in Conns |-> IF q = p THEN c ELSE ConnsAfterExit(p)[q]]
  <2>1. cs[p] = a /\ OutOfLobby(p) = [cs EXCEPT ![p].lobby = 0, ![p].sync = None]
    BY <1>3, <1>5 DEF OutOfLobby
  <2>2. PICK ou : ou = OutOfLobby(p)
    OBVIOUS
  <2>3. ou = [q \in Conns |-> IF q = p THEN b ELSE cs[q]]
    BY <1>4, <1>7, <2>1, <2>2
  <2>4. conn' = [ou EXCEPT ![p].battle = 0, ![p].entry = None, ![p].state = "out"]
    BY <1>2, <2>2
  <2>5. conn' = [q \in Conns |-> IF q = p THEN c ELSE cs[q]]
    BY <1>7, <2>3, <2>4
  <2> QED  BY <1>3, <2>5
<1>10. /\ client' = [q \in Conns |-> IF q = p THEN Fresh ELSE client[q]]
       /\ users' \in [Users -> Conns \cup {None}]
  BY <1>1, <1>2
<1>11. TypeOK' /\ Leaving(p) /\ LeftLobby(p) /\ conn'[p] = c /\ client'[p] = Fresh
  <2>1. LeavesLobby(p) /\ made' = made /\ battles' \in [Users -> 0 .. Len(made)]
    BY <1>2, <1>b
  <2> QED  BY <2>1, <1>8, <1>9, <1>10, FreshFields, LeavingLobby
<1> QED  BY <1>2, <1>8, <1>11, <1>b, FreshFields DEF Leaves

(* OnClose: p leaves as its connection is gone. *)
LEMMA OnCloseEffect ==
  ASSUME IInv, NEW p \in Conns, OnClose(p)
  PROVE  TypeOK' /\ Leaves(p)
<1>1. /\ TypeOK /\ client \in [Conns -> ClientRecs] /\ Len(made) \in Nat
      /\ users \in [Users -> Conns \cup {None}] /\ battles \in [Users -> 0 .. Len(made)]
      /\ conn[p].entry \in Sides \cup {None}
  BY Typed, Fields, LobbyAssumption DEF IInv, InBattle
<1>2. PICK e : e = IF Listed(p)' THEN conn[p].entry ELSE None
  OBVIOUS
<1>3. PICK c : c = [Closed EXCEPT !.entry = e]
  OBVIOUS
<1>4. /\ LeavesLobby(p) /\ conn[p].state # "closed"
      /\ conn' = [OutOfLobby(p) EXCEPT ![p] = c]
      /\ client' = [client EXCEPT ![p] = Fresh]
      /\ users' = [users EXCEPT ![UserOf[p]] = None]
      /\ UNCHANGED <<battles, made>>
  BY <1>2, <1>3 DEF OnClose
<1>5. PICK cs : cs = ConnsAfterExit(p)
  OBVIOUS
<1>6. cs \in [Conns -> ConnRecs(Len(made))]
  BY <1>5, ConnsLeft
<1>8. /\ c \in ConnRecs(Len(made)) /\ c.lobby = 0 /\ c.room = 0 /\ c.state = "closed"
      /\ c.battle = 0
  <2>1. None \in Syncs
    BY DEF Syncs
  <2>2. 0 \in 0 .. Len(made) /\ e \in Sides \cup {None}
    BY <1>1, <1>2
  <2>3. c = [state |-> "closed", lobby |-> 0, room |-> 0, battle |-> 0,
             entry |-> e, after |-> FALSE, sync |-> None]
    BY <1>3 DEF Closed
  <2> QED  BY <2>1, <2>2, <2>3 DEF ConnRecs
<1>9. conn' = [q \in Conns |-> IF q = p THEN c ELSE ConnsAfterExit(p)[q]]
  <2>1. OutOfLobby(p) = [cs EXCEPT ![p].lobby = 0, ![p].sync = None]
    BY <1>5 DEF OutOfLobby
  <2>2. PICK ou : ou = OutOfLobby(p)
    OBVIOUS
  <2>3. DOMAIN ou = Conns /\ \A q \in Conns : q # p => ou[q] = cs[q]
    BY <1>6, <2>1, <2>2
  <2>4. conn' = [ou EXCEPT ![p] = c]
    BY <1>4, <2>2
  <2>5. conn' = [q \in Conns |-> IF q = p THEN c ELSE cs[q]]
    BY <2>3, <2>4
  <2> QED  BY <1>5, <2>5
<1>10. /\ client' = [q \in Conns |-> IF q = p THEN Fresh ELSE client[q]]
       /\ users' \in [Users -> Conns \cup {None}] /\ battles' \in [Users -> 0 .. Len(made)]
  BY <1>1, <1>4
<1>11. TypeOK' /\ Leaving(p) /\ LeftLobby(p) /\ conn'[p] = c /\ client'[p] = Fresh
  BY <1>4, <1>8, <1>9, <1>10, FreshFields, LeavingLobby
<1> QED  BY <1>4, <1>8, <1>11, FreshFields DEF Leaves

(* What makes one battle fair; FairBattles says it of every battle. *)
Fair(battle) ==
  LET side(s) == Cardinality({i \in DOMAIN battle.sides : battle.sides[i] = s})
      least   == CASE battle.room # 0 \/ battle.lobby = 2 -> 1
                   [] battle.lobby \in {1, 3} -> 0
                   [] OTHER -> 2
  IN  battle.whole =>
        /\ IsInjective(battle.users) /\ battle.users # <<>>
        /\ {side(Aeug), side(Titans)} \subseteq least .. 2
        /\ side(Aeug) + side(Titans) = Len(battle.users)
        /\ battle.room = 0 => Cardinality(battle.syncs) = 1

(* Battles are fair if each of them is. *)
LEMMA FairEach == FairBattles <=> \A b \in DOMAIN made : Fair(made[b])
BY DEF FairBattles, Fair

(* How many of a side a battle of a lobby or of a room needs. *)
LeastEach(l, r) == IF r # 0 \/ l = 2 THEN 1 ELSE IF l \in {1, 3} THEN 0 ELSE 2

(* The users, sides and fingerprints that a battle is made with. *)
UsersIn(list) == [i \in DOMAIN list |-> UserOf[list[i]]]
SidesIn(cs, list) == [i \in DOMAIN list |-> cs[list[i]].entry]
SyncsIn(cs, list) == {cs[p].sync : p \in ToSet(list)}

(* A battle between all of a list is fair if the list is. *)
LEMMA WholeIsFair ==
  ASSUME NEW l \in Lobbies, NEW r, NEW list \in Seq(Conns), IsInjective(list), list # <<>>, NEW cs,
         \A q \in ToSet(list) : cs[q].entry \in {Aeug, Titans},
         OnSide(cs, list, Aeug) \in LeastEach(l, r) .. 2, OnSide(cs, list, Titans) \in LeastEach(l, r) .. 2,
         r = 0 => \E s : \A q \in ToSet(list) : cs[q].sync = s,
         NEW b, b.lobby = l, b.room = r, b.users = UsersIn(list), b.sides = SidesIn(cs, list),
         b.syncs = SyncsIn(cs, list)
  PROVE  Fair(b)
<1>2. PICK us, ss, ys : us = UsersIn(list) /\ ss = SidesIn(cs, list) /\ ys = SyncsIn(cs, list)
  OBVIOUS
<1>3. /\ us = [i \in DOMAIN list |-> UserOf[list[i]]]
      /\ ss = [i \in DOMAIN list |-> cs[list[i]].entry]
      /\ ys = {cs[p].sync : p \in ToSet(list)}
  BY <1>2 DEF UsersIn, SidesIn, SyncsIn
<1>1. /\ Len(list) \in Nat /\ DOMAIN list = 1 .. Len(list) /\ ToSet(list) # {}
      /\ \A i \in DOMAIN list : list[i] \in Conns
  BY LenProperties, ElementOfSeq, NoMembers
<1>4. IsInjective(us)
  <2>1. \A i, j \in DOMAIN list : UserOf[list[i]] = UserOf[list[j]] => list[i] = list[j]
    BY <1>1, OneConnectionEach
  <2> QED  BY <1>3, <2>1 DEF IsInjective
<1>5. us \in Seq(Users) /\ Len(us) = Len(list) /\ us # <<>>
  <2>1. us \in [1 .. Len(list) -> Users]
    BY <1>1, <1>3, Constants
  <2>2. us \in Seq(Users) /\ Len(us) = Len(list)
    <3>1. PICK k \in Nat : k = Len(list)
      BY <1>1
    <3>2. us \in [1 .. k -> Users]
      BY <2>1, <3>1
    <3>3. us \in Seq(Users) /\ DOMAIN us = 1 .. k
      BY <3>2
    <3>4. Len(us) = k
      BY <3>3
    <3> QED  BY <3>1, <3>3, <3>4
  <2>3. Len(list) # 0
    BY EmptySeq
  <2>4. Len(<<>>) = 0
    BY EmptySeq
  <2> QED  BY <2>2, <2>3, <2>4
<1>6. \A s : Cardinality({i \in DOMAIN ss : ss[i] = s}) = OnSide(cs, list, s)
  <2> TAKE s
  <2>1. {i \in DOMAIN ss : ss[i] = s} = {i \in DOMAIN list : cs[list[i]].entry = s}
    BY <1>3
  <2> QED  BY <2>1 DEF OnSide
<1>7. OnSide(cs, list, Aeug) + OnSide(cs, list, Titans) = Len(us)
  BY <1>5, SidesTogether
<1>8. r = 0 => Cardinality(ys) = 1
  <2> SUFFICES ASSUME r = 0
               PROVE  Cardinality(ys) = 1
    OBVIOUS
  <2>1. PICK s : \A q \in ToSet(list) : cs[q].sync = s
    OBVIOUS
  <2>2. PICK q \in ToSet(list) : TRUE
    BY <1>1
  <2>3. ys = {s}
    BY <1>3, <2>1, <2>2
  <2> QED  BY <2>3, FS_Singleton
<1>9. /\ Cardinality({i \in DOMAIN b.sides : b.sides[i] = Aeug}) = OnSide(cs, list, Aeug)
      /\ Cardinality({i \in DOMAIN b.sides : b.sides[i] = Titans}) = OnSide(cs, list, Titans)
  BY <1>2, <1>6
<1>10. /\ IsInjective(b.users) /\ b.users # <<>>
       /\ {OnSide(cs, list, Aeug), OnSide(cs, list, Titans)} \subseteq LeastEach(b.lobby, b.room) .. 2
       /\ OnSide(cs, list, Aeug) + OnSide(cs, list, Titans) = Len(b.users)
       /\ b.room = 0 => Cardinality(b.syncs) = 1
  BY <1>2, <1>4, <1>5, <1>7, <1>8
<1> QED  BY <1>9, <1>10 DEF Fair, LeastEach

(* The battle that a start makes, of F or of nobody. *)
NewBattle(F, whole) ==
  \/ F = {} /\ made' = made
  \/ /\ F # {}
     /\ \E b \in BattleRecs :
          /\ made' = Append(made, b) /\ b.whole = whole /\ Fair(b)
          /\ \A q \in F : UserOf[q] \in ToSet(b.users)
          /\ \A u \in ToSet(b.users) : \E q \in F : u = UserOf[q]

(* What a start does, all that it can: F are in the battle it makes, whole *)
(* or not; cs and view are the connections and clients before it.          *)
StartedFor(q, F, whole, r, cs, view) ==
  /\ conn'[q].state = cs[q].state /\ conn'[q].lobby = cs[q].lobby
  /\ conn'[q].room = cs[q].room /\ conn'[q].after = cs[q].after
  /\ conn'[q].battle = IF q \in F THEN Len(made) + 1 ELSE cs[q].battle
  /\ conn'[q].entry = IF whole /\ r = 0 /\ q \in F THEN None ELSE cs[q].entry
  /\ client'[q].entered = view[q].entered /\ client'[q].preparing = view[q].preparing
  /\ client'[q].meets = view[q].meets /\ client'[q].removed = view[q].removed
  /\ client'[q].notice = IF whole /\ q \in F /\ view[q].notice = "no"
                         THEN "sent" ELSE view[q].notice
StartedFrom(F, whole, r, cs, view) ==
  /\ NewBattle(F, whole) /\ Len(made') <= MaxBattles /\ Len(made) <= Len(made')
  /\ F # {} => Len(made') = Len(made) + 1
  /\ conn' \in [Conns -> ConnRecs(Len(made'))] /\ client' \in [Conns -> ClientRecs]
  /\ \A q \in Conns : StartedFor(q, F, whole, r, cs, view)

(* A function on the first numbers is a sequence. *)
LEMMA FunctionIsSeq ==
  ASSUME NEW S, NEW n \in Nat, NEW f \in [1 .. n -> S]
  PROVE  f \in Seq(S)
BY SeqDef

(* Who is in the battle of a start, and is told of it if all are.          *)
LEMMA FightsEffect ==
  ASSUME IInv, NEW l \in Lobbies, NEW r \in Rooms \cup {0}, NEW whole \in BOOLEAN,
         NEW list \in Seq(Conns), IsInjective(list), NEW n \in DOMAIN list,
         NEW cs \in [Conns -> ConnRecs(Len(made))], NEW view \in [Conns -> ClientRecs],
         \A q \in ToSet(list) : conn[q].state = "in" /\ cs[q].entry # None,
         whole => /\ n = Len(list)
                  /\ OnSide(cs, list, Aeug) \in LeastEach(l, r) .. 2
                  /\ OnSide(cs, list, Titans) \in LeastEach(l, r) .. 2
                  /\ r = 0 => \E s : \A q \in ToSet(list) : cs[q].sync = s,
         Fights(l, r, list, n, whole, cs, view)
  PROVE  \E F \in SUBSET Conns :
           /\ F \subseteq ToSet(list) /\ F # {} /\ (whole => F = ToSet(list))
           /\ StartedFrom(F, whole, r, cs, view)
<1>1. /\ TypeOK /\ LoggedIn /\ made \in Seq(BattleRecs) /\ Len(made) \in Nat /\ MaxBattles \in Nat
      /\ Len(made) < MaxBattles
  BY LenProperties, LobbyAssumption DEF IInv, InBattle, Fights
<1>2. PICK in : in = SubSeq(list, 1, n)
  OBVIOUS
<1>3. /\ Len(list) \in Nat /\ DOMAIN list = 1 .. Len(list) /\ n \in Nat /\ 1 <= n /\ n <= Len(list)
      /\ \A i \in 1 .. Len(list) : list[i] \in Conns /\ list[i] \in ToSet(list)
  BY LenProperties, ElementOfSeq DEF ToSet
<1>4. in \in Seq(Conns) /\ Len(in) = n /\ DOMAIN in = 1 .. n /\ \A i \in 1 .. n : in[i] = list[i]
  <2>1. 1 \in Int /\ n \in Int /\ \A i \in 1 .. n : list[i] \in Conns
    BY <1>3
  <2>2. /\ in \in Seq(Conns) /\ Len(in) = IF 1 <= n THEN n - 1 + 1 ELSE 0
        /\ \A i \in 1 .. n - 1 + 1 : in[i] = list[1 + i - 1]
    BY <1>2, <2>1, SubSeqProperties
  <2>3. Len(in) = n /\ \A i \in 1 .. n : in[i] = list[i]
    BY <1>3, <2>2
  <2>4. DOMAIN in = 1 .. Len(in)
    BY <2>2, LenProperties
  <2> QED  BY <2>2, <2>3, <2>4
<1>5. PICK F \in SUBSET Conns : F = ToSet(in)
  <2>1. \A i \in DOMAIN in : in[i] \in Conns
    BY <1>3, <1>4
  <2>2. ToSet(in) \subseteq Conns
    BY <2>1 DEF ToSet
  <2> QED  BY <2>2
<1>6. F \subseteq ToSet(list) /\ F # {}
  <2>1. 1 \in 1 .. n /\ 1 .. n \subseteq 1 .. Len(list)
    BY <1>3
  <2> QED  BY <1>3, <1>4, <1>5, <2>1 DEF ToSet
<1>7. whole => in = list
  <2>1. SubSeq(list, 1, Len(list)) = list
    BY SubSeqFull
  <2> QED  BY <1>2, <2>1
<1>8. PeersOf(in) = F
  <2>1. \A i \in DOMAIN in : users[UserOf[in[i]]] = in[i]
    <3> TAKE i \in DOMAIN in
    <3>1. i \in 1 .. Len(list) /\ in[i] = list[i]
      BY <1>3, <1>4
    <3>2. list[i] \in Conns /\ conn[list[i]].state = "in"
      BY <1>3, <3>1
    <3> QED  BY <1>1, <3>1, <3>2 DEF LoggedIn
  <2> QED  BY <1>5, <2>1 DEF PeersOf, ToSet
<1>0. PICK us, ss, ys : us = UsersIn(in) /\ ss = SidesIn(cs, in) /\ ys = SyncsIn(cs, in)
  OBVIOUS
<1>9. /\ us = [i \in DOMAIN in |-> UserOf[in[i]]]
      /\ ss = [i \in DOMAIN in |-> cs[in[i]].entry]
      /\ ys = {cs[p].sync : p \in ToSet(in)}
  BY <1>0 DEF UsersIn, SidesIn, SyncsIn
<1>10. PICK b : b = [lobby |-> l, room |-> r, whole |-> whole, users |-> us, sides |-> ss, syncs |-> ys]
  OBVIOUS
<1>11. /\ made' = Append(made, b)
       /\ conn' = [q \in Conns |->
            [cs[q] EXCEPT !.battle = IF q \in F THEN Len(made) + 1 ELSE @,
                          !.entry = IF whole /\ r = 0 /\ q \in F THEN None ELSE @]]
       /\ client' = [q \in Conns |->
            [view[q] EXCEPT !.notice = IF whole /\ q \in F /\ @ = "no" THEN "sent" ELSE @]]
  BY <1>2, <1>5, <1>8, <1>9, <1>10 DEF Fights
<1>12. b \in BattleRecs /\ b.whole = whole /\ b.users = us
  <2>1. \A i \in DOMAIN in : in[i] \in Conns /\ cs[in[i]] \in ConnRecs(Len(made)) /\ cs[in[i]].entry # None
    BY <1>3, <1>4, <1>5, <1>6 DEF ToSet
  <2>2. us \in Seq(Users)
    <3>1. \A i \in 1 .. n : UserOf[in[i]] \in Users
      BY <1>4, <2>1, Constants
    <3>2. us \in [1 .. n -> Users]
      BY <1>4, <1>9, <3>1
    <3> QED  BY <1>3, <3>2, FunctionIsSeq
  <2>3. ss \in Seq(Sides)
    <3>1. \A i \in 1 .. n : cs[in[i]].entry \in Sides
      BY <1>4, <2>1, ConnFields
    <3>2. ss \in [1 .. n -> Sides]
      BY <1>4, <1>9, <3>1
    <3> QED  BY <1>3, <3>2, FunctionIsSeq
  <2>4. ys \in SUBSET Syncs
    <3>1. \A p \in F : cs[p].sync \in Syncs
      BY ConnFields
    <3> QED  BY <1>5, <1>9, <3>1
  <2> QED  BY <1>10, <2>2, <2>3, <2>4 DEF BattleRecs
<1>13. ASSUME NEW q \in F
       PROVE  UserOf[q] \in ToSet(us)
  <2>1. PICK i \in DOMAIN in : in[i] = q
    BY <1>5 DEF ToSet
  <2>2. us[i] = UserOf[q] /\ i \in DOMAIN us
    BY <1>9, <2>1
  <2> QED  BY <2>2 DEF ToSet
<1>24. ASSUME NEW u \in ToSet(us)
       PROVE  \E q \in F : u = UserOf[q]
  <2>1. PICK i \in DOMAIN us : u = us[i]
    BY DEF ToSet
  <2>2. i \in DOMAIN in /\ u = UserOf[in[i]]
    BY <1>9, <2>1
  <2>3. in[i] \in F
    BY <1>5, <2>2 DEF ToSet
  <2> QED  BY <2>2, <2>3
<1>14. Fair(b)
  <2>1. CASE whole = FALSE
    <3>1. ~ b.whole
      BY <1>12, <2>1
    <3> QED  BY <3>1 DEF Fair
  <2>2. CASE whole = TRUE
    <3>1. in = list /\ IsInjective(in) /\ in # <<>> /\ in \in Seq(Conns)
      <4>1. Len(<<>>) = 0
        BY EmptySeq
      <4> QED  BY <1>3, <1>4, <1>7, <2>2, <4>1
    <3>2. \A q \in ToSet(in) : cs[q].entry \in {Aeug, Titans}
      <4>1. \A q \in F : cs[q].entry \in Sides \cup {None} /\ cs[q].entry # None
        BY <1>6, ConnFields
      <4> QED  BY <1>5, <4>1, Constants
    <3>3. /\ OnSide(cs, in, Aeug) \in LeastEach(l, r) .. 2 /\ OnSide(cs, in, Titans) \in LeastEach(l, r) .. 2
          /\ r = 0 => \E s : \A q \in ToSet(in) : cs[q].sync = s
      BY <2>2, <3>1
    <3>4. /\ b.lobby = l /\ b.room = r /\ b.users = UsersIn(in) /\ b.sides = SidesIn(cs, in)
          /\ b.syncs = SyncsIn(cs, in)
      BY <1>0, <1>10
    <3> QED  BY <3>1, <3>2, <3>3, <3>4, WholeIsFair
  <2> QED  BY <2>1, <2>2
<1>15. NewBattle(F, whole)
  BY <1>6, <1>11, <1>12, <1>13, <1>14, <1>24 DEF NewBattle
<1>16. Len(made') = Len(made) + 1 /\ Len(made') <= MaxBattles
  <2>1. made' = Append(made, b) /\ made \in Seq(BattleRecs) /\ b \in BattleRecs
    BY <1>1, <1>11, <1>12
  <2>2. Len(made') = Len(made) + 1
    BY <2>1, AppendProperties
  <2> QED  BY <1>1, <2>2
<1>17. PICK m \in Nat : m = Len(made) + 1 /\ m = Len(made')
  BY <1>1, <1>16
<1>18. ASSUME NEW q \in Conns
       PROVE  /\ conn'[q] \in ConnRecs(m)
              /\ conn'[q].state = cs[q].state /\ conn'[q].lobby = cs[q].lobby
              /\ conn'[q].room = cs[q].room /\ conn'[q].after = cs[q].after
              /\ conn'[q].battle = IF q \in F THEN Len(made) + 1 ELSE cs[q].battle
              /\ conn'[q].entry = IF whole /\ r = 0 /\ q \in F THEN None ELSE cs[q].entry
  <2>1. PICK ba, en : /\ ba = IF q \in F THEN Len(made) + 1 ELSE cs[q].battle
                      /\ en = IF whole /\ r = 0 /\ q \in F THEN None ELSE cs[q].entry
    OBVIOUS
  <2>2. conn'[q] = [cs[q] EXCEPT !.battle = ba, !.entry = en]
    BY <1>11, <2>1
  <2>3. cs[q] \in ConnRecs(Len(made))
    OBVIOUS
  <2>4. ba \in 0 .. m /\ en \in Sides \cup {None}
    <3>1. cs[q].battle \in 0 .. Len(made) /\ cs[q].entry \in Sides \cup {None}
      BY <2>3, ConnFields
    <3> QED  BY <1>1, <1>17, <2>1, <3>1
  <2>5. PICK c : c = [cs[q] EXCEPT !.battle = ba, !.entry = en]
    OBVIOUS
  <2>6. /\ c \in ConnRecs(m) /\ c.state = cs[q].state /\ c.lobby = cs[q].lobby
        /\ c.room = cs[q].room /\ c.after = cs[q].after /\ c.battle = ba /\ c.entry = en
    BY <2>3, <2>4, <2>5 DEF ConnRecs
  <2> QED  BY <2>1, <2>2, <2>5, <2>6
<1>19. ASSUME NEW q \in Conns
       PROVE  /\ client'[q] \in ClientRecs
              /\ client'[q].entered = view[q].entered /\ client'[q].preparing = view[q].preparing
              /\ client'[q].meets = view[q].meets /\ client'[q].removed = view[q].removed
              /\ client'[q].notice = IF whole /\ q \in F /\ view[q].notice = "no"
                                     THEN "sent" ELSE view[q].notice
  <2>1. PICK no : no = IF whole /\ q \in F /\ view[q].notice = "no" THEN "sent" ELSE view[q].notice
    OBVIOUS
  <2>2. client'[q] = [view[q] EXCEPT !.notice = no]
    BY <1>11, <2>1
  <2>3. view[q] \in ClientRecs
    OBVIOUS
  <2>4. no \in {"no", "sent", "seen"}
    BY <2>1, <2>3, ClientFields
  <2>5. PICK c : c = [view[q] EXCEPT !.notice = no]
    OBVIOUS
  <2>6. /\ c \in ClientRecs /\ c.entered = view[q].entered /\ c.preparing = view[q].preparing
        /\ c.meets = view[q].meets /\ c.removed = view[q].removed /\ c.notice = no
    BY <2>3, <2>4, <2>5 DEF ClientRecs
  <2> QED  BY <2>1, <2>2, <2>5, <2>6
<1>20. conn' \in [Conns -> ConnRecs(Len(made'))] /\ client' \in [Conns -> ClientRecs]
  <2>1. conn' = [q \in Conns |-> conn'[q]] /\ client' = [q \in Conns |-> client'[q]]
    BY <1>11
  <2> QED  BY <1>17, <1>18, <1>19, <2>1
<1>21. whole => F = ToSet(list)
  BY <1>5, <1>7
<1>22. ASSUME NEW q \in Conns
       PROVE  StartedFor(q, F, whole, r, cs, view)
  BY <1>18, <1>19 DEF StartedFor
<1>23. StartedFrom(F, whole, r, cs, view)
  BY <1>1, <1>15, <1>16, <1>20, <1>22 DEF StartedFrom
<1> QED  BY <1>6, <1>21, <1>23

(* A start that is refused makes no battle. *)
LEMMA RefusedEffect ==
  ASSUME IInv, NEW r, NEW cs \in [Conns -> ConnRecs(Len(made))], NEW view \in [Conns -> ClientRecs],
         Refuses(cs, view)
  PROVE  StartedFrom({}, FALSE, r, cs, view)
<1>1. made' = made /\ conn' = cs /\ client' = view
  BY DEF Refuses
<1>2. Len(made) <= MaxBattles /\ Len(made) \in Nat
  BY Typed, LenProperties DEF IInv, InBattle
<1>3. NewBattle({}, FALSE)
  BY <1>1 DEF NewBattle
<1>4. ASSUME NEW q \in Conns
      PROVE  StartedFor(q, {}, FALSE, r, cs, view)
  BY <1>1 DEF StartedFor
<1>5. conn' \in [Conns -> ConnRecs(Len(made'))] /\ client' \in [Conns -> ClientRecs]
  BY <1>1
<1>6. /\ Len(made') <= MaxBattles /\ Len(made) <= Len(made')
      /\ {} # {} => Len(made') = Len(made) + 1
  BY <1>1, <1>2
<1> QED  BY <1>3, <1>4, <1>5, <1>6, Zenon DEF StartedFrom

(* A start that fails part of the way. *)
LEMMA FailedEffect ==
  ASSUME IInv, NEW l \in Lobbies, NEW r \in Rooms \cup {0},
         NEW list \in Seq(Conns), IsInjective(list), NEW n \in DOMAIN list,
         NEW cs \in [Conns -> ConnRecs(Len(made))], NEW view \in [Conns -> ClientRecs],
         \A q \in ToSet(list) : conn[q].state = "in" /\ cs[q].entry # None,
         Fights(l, r, list, n, FALSE, cs, view)
  PROVE  \E F \in SUBSET Conns : F \subseteq ToSet(list) /\ StartedFrom(F, FALSE, r, cs, view)
BY FightsEffect

(* A start that succeeds. *)
LEMMA WholeEffect ==
  ASSUME IInv, NEW l \in Lobbies, NEW r \in Rooms \cup {0},
         NEW list \in Seq(Conns), IsInjective(list), list # <<>>,
         NEW cs \in [Conns -> ConnRecs(Len(made))], NEW view \in [Conns -> ClientRecs],
         \A q \in ToSet(list) : conn[q].state = "in" /\ cs[q].entry # None,
         OnSide(cs, list, Aeug) \in LeastEach(l, r) .. 2,
         OnSide(cs, list, Titans) \in LeastEach(l, r) .. 2,
         r = 0 => \E s : \A q \in ToSet(list) : cs[q].sync = s,
         Fights(l, r, list, Len(list), TRUE, cs, view)
  PROVE  ToSet(list) \subseteq Conns /\ StartedFrom(ToSet(list), TRUE, r, cs, view)
<1>1. Len(list) \in DOMAIN list
  BY LenProperties, EmptySeq
<1>2. PICK F \in SUBSET Conns : F = ToSet(list) /\ StartedFrom(F, TRUE, r, cs, view)
  BY <1>1, FightsEffect
<1> QED  BY <1>2

-----------------------------------------------------------------------------
(* A start by p, or none if F is empty: F are in its battle, and are told  *)
(* so if it is whole.                                                      *)
Started(p, F, whole) ==
  /\ UNCHANGED <<users, rooms, battles, shown>> /\ NewBattle(F, whole)
  /\ F # {} => Len(made') = Len(made) + 1
  /\ \A q \in F : /\ conn[q].state = "in" /\ conn[q].lobby # 0 /\ client[q].notice = "no"
                  /\ ~ client[q].preparing
  /\ \A q \in Conns :
       /\ conn'[q].state = conn[q].state /\ conn'[q].lobby = conn[q].lobby
       /\ conn'[q].room = conn[q].room /\ conn'[q].after = conn[q].after
       /\ conn'[q].battle = IF q \in F THEN Len(made) + 1 ELSE conn[q].battle
       /\ client'[q].preparing = client[q].preparing /\ client'[q].meets = client[q].meets
       /\ whole /\ q \in F => client'[q].notice = "sent"
       /\ ~ (whole /\ q \in F) =>
            /\ client'[q].notice = "no" <=> client[q].notice = "no"
            /\ client'[q].notice = "sent" => client[q].notice = "sent"

(* A start in lobby l, when p enters for a side or takes its entry back.   *)
StartsLobby(p, l, side, F, whole) ==
  /\ l \in Lobbies /\ conn[p].lobby = l /\ conn[p].state = "in" /\ conn[p].room = 0
  /\ side # None => ~ Engaged(p)
  /\ Started(p, F, whole)
  /\ \A q \in F : conn[q].lobby = l /\ conn[q].room = 0 /\ (q = p => side # None)
  /\ \A k \in Lobbies :
       /\ lobbys'[k].users = lobbys[k].users /\ IsInjective(lobbys'[k].entries)
       /\ k # l => lobbys'[k].entries = lobbys[k].entries
  /\ ToSet(lobbys'[l].entries) = IF side = None THEN ToSet(lobbys[l].entries) \ {UserOf[p]}
                                 ELSE ToSet(lobbys[l].entries) \cup {UserOf[p]}
  /\ \A q \in Conns :
       /\ conn'[q].entry = IF whole /\ q \in F THEN None
                          ELSE IF q = p THEN side ELSE conn[q].entry
       /\ client'[q].entered = IF q = p THEN side # None ELSE client[q].entered
       /\ client'[q].removed = client[q].removed

(* The lobby's entries after p's request. *)
LEMMA EntriesAfter ==
  ASSUME IInv, NEW p \in Conns, NEW l \in Lobbies, conn[p].lobby = l,
         NEW side \in Sides \cup {None}, side # None => ~ Engaged(p)
  PROVE  /\ Entries(l, UserOf[p], side) \in Seq(Users) /\ IsInjective(Entries(l, UserOf[p], side))
         /\ ToSet(Entries(l, UserOf[p], side)) =
              IF side = None THEN ToSet(lobbys[l].entries) \ {UserOf[p]}
              ELSE ToSet(lobbys[l].entries) \cup {UserOf[p]}
<1>1. TypeOK /\ EntriesOnce /\ EntriesEngaged /\ Placed
  BY DEF IInv
<1>2. /\ lobbys[l].entries \in Seq(Users) /\ IsInjective(lobbys[l].entries)
      /\ UserOf[p] \in Users
  BY <1>1, LobbyTyped, Constants DEF EntriesOnce
<1>3. CASE side = None
  BY <1>2, <1>3, RemoveFirstMembers DEF Entries
<1>4. CASE side # None
  <2>1. lobbys[l].users[UserOf[p]] = p
    BY <1>1, Constants DEF Placed
  <2>2. UserOf[p] \notin ToSet(lobbys[l].entries)
    BY <1>1, <1>4, <2>1 DEF EntriesEngaged
  <2> QED  BY <1>2, <1>4, <2>2, AppendMembers DEF Entries
<1> QED  BY <1>3, <1>4

(* Entering for a lobby's battle, with what it may start. *)
LEMMA OnEntryLobbyBattleEffect ==
  ASSUME IInv, NEW p \in Conns, NEW side \in Sides \cup {None}, OnEntryLobbyBattle(p, side)
  PROVE  /\ TypeOK'
         /\ \E F \in SUBSET Conns, whole \in BOOLEAN : StartsLobby(p, conn[p].lobby, side, F, whole)
<1>1. /\ TypeOK /\ LobbyListsPresent /\ EntriesEngaged /\ NotPickedAgain /\ Preparing
      /\ conn \in [Conns -> ConnRecs(Len(made))] /\ client \in [Conns -> ClientRecs]
      /\ users \in [Users -> Conns \cup {None}] /\ battles \in [Users -> 0 .. Len(made)]
      /\ lobbys \in [Lobbies -> LobbyRecs] /\ Len(made) \in Nat
      /\ rooms \in [Lobbies -> [Rooms -> RoomRecs]] /\ shown \in [Conns -> Views]
  BY Typed, LenProperties DEF IInv, InBattle
<1>2. PICK l, es, cs, view, list, able, sb :
        /\ l = conn[p].lobby /\ es = Entries(l, UserOf[p], side)
        /\ cs = [conn EXCEPT ![p].entry = side]
        /\ view = Told([client EXCEPT ![p].entered = side # None], p)
        /\ list = EntryConns(l, es) /\ able = (Ready(l, cs, list) # {})
        /\ sb = StartBattleUsers(l, cs, list)
  OBVIOUS
<1>3. /\ Asks(p) /\ conn[p].state = "in" /\ l # 0 /\ conn[p].room = 0
      /\ IF side = None THEN client[p].entered ELSE ~ Engaged(p)
      /\ lobbys' = [lobbys EXCEPT ![l].entries = es]
      /\ IF l = 1 /\ side # None THEN StartTestBattle(l, sb, cs, view)
         ELSE IF able THEN StartBattle(l, 0, sb, cs, view) ELSE Refuses(cs, view)
      /\ UNCHANGED <<users, rooms, battles, shown>>
  BY <1>2, Zenon DEF OnEntryLobbyBattle, Asks
<1>4. l \in Lobbies /\ (side # None => ~ Engaged(p))
  BY <1>1, <1>2, <1>3, Fields
<1>5. /\ es \in Seq(Users) /\ IsInjective(es)
      /\ ToSet(es) = IF side = None THEN ToSet(lobbys[l].entries) \ {UserOf[p]}
                     ELSE ToSet(lobbys[l].entries) \cup {UserOf[p]}
  BY <1>2, <1>4, EntriesAfter
<1>6. /\ lobbys' \in [Lobbies -> LobbyRecs] /\ lobbys'[l].entries = es
      /\ \A k \in Lobbies : /\ lobbys'[k].users = lobbys[k].users
                            /\ k # l => lobbys'[k].entries = lobbys[k].entries
  <2>1. PICK d : d = [lobbys[l] EXCEPT !.entries = es]
    OBVIOUS
  <2>2. lobbys' = [k \in Lobbies |-> IF k = l THEN d ELSE lobbys[k]]
    BY <1>1, <1>3, <2>1
  <2>3. d \in LobbyRecs /\ d.users = lobbys[l].users /\ d.entries = es
    <3>1. lobbys[l] \in LobbyRecs
      BY <1>1, <1>4
    <3> QED  BY <1>5, <2>1, <3>1 DEF LobbyRecs
  <2> QED  BY <1>1, <1>4, <2>2, <2>3
<1>7. \A k \in Lobbies : IsInjective(lobbys'[k].entries)
  BY <1>1, <1>5, <1>6 DEF IInv, EntriesOnce
<1>8. /\ cs \in [Conns -> ConnRecs(Len(made))] /\ cs[p].entry = side
      /\ \A q \in Conns : /\ cs[q].state = conn[q].state /\ cs[q].lobby = conn[q].lobby
                          /\ cs[q].room = conn[q].room /\ cs[q].after = conn[q].after
                          /\ cs[q].battle = conn[q].battle /\ cs[q].sync = conn[q].sync
                          /\ q # p => cs[q].entry = conn[q].entry
  <2>1. PICK c : c = [conn[p] EXCEPT !.entry = side]
    OBVIOUS
  <2>2. cs = [q \in Conns |-> IF q = p THEN c ELSE conn[q]]
    BY <1>1, <1>2, <2>1
  <2>3. /\ c \in ConnRecs(Len(made)) /\ c.entry = side /\ c.battle = conn[p].battle
        /\ c.state = conn[p].state /\ c.lobby = conn[p].lobby /\ c.room = conn[p].room
        /\ c.after = conn[p].after /\ c.sync = conn[p].sync
    <3>1. conn[p] \in ConnRecs(Len(made))
      BY <1>1
    <3> QED  BY <2>1, <3>1 DEF ConnRecs
  <2> QED  BY <1>1, <2>2, <2>3
<1>9. /\ view \in [Conns -> ClientRecs] /\ view[p].entered = (side # None)
      /\ (view[p].notice = "no" <=> client[p].notice = "no") /\ view[p].notice # "sent"
      /\ \A q \in Conns : /\ view[q].preparing = client[q].preparing /\ view[q].meets = client[q].meets
                          /\ view[q].removed = client[q].removed
                          /\ q # p => view[q].notice = client[q].notice /\ view[q].entered = client[q].entered
  <2>1. PICK no : no = IF client[p].notice = "sent" THEN "seen" ELSE client[p].notice
    OBVIOUS
  <2>2. PICK d : d = [client[p] EXCEPT !.entered = (side # None), !.notice = no]
    OBVIOUS
  <2>3. view = [q \in Conns |-> IF q = p THEN d ELSE client[q]]
    BY <1>1, <1>2, <2>1, <2>2 DEF Told
  <2>4. client[p] \in ClientRecs /\ no \in {"no", "seen"} /\ (no = "no" <=> client[p].notice = "no")
    BY <1>1, <2>1, ClientFields
  <2>5. /\ d \in ClientRecs /\ d.entered = (side # None) /\ d.notice = no
        /\ d.preparing = client[p].preparing /\ d.meets = client[p].meets /\ d.removed = client[p].removed
    BY <2>2, <2>4 DEF ClientRecs
  <2> QED  BY <1>1, <2>3, <2>4, <2>5
<1>10. /\ list \in Seq(Conns) /\ IsInjective(list)
       /\ \A q \in ToSet(list) : UserOf[q] \in ToSet(es) /\ lobbys[l].users[UserOf[q]] = q
  <2>1. \A u \in Users : lobbys[l].users[u] # None =>
                           lobbys[l].users[u] \in Conns /\ UserOf[lobbys[l].users[u]] = u
    BY <1>1, <1>4, LobbyTyped DEF LobbyListsPresent
  <2>2. l \in Lobbies /\ es \in Seq(Users) /\ IsInjective(es)
    BY <1>4, <1>5
  <2>3. list = EntryConns(l, es)
    BY <1>2
  <2>4. /\ EntryConns(l, es) \in Seq(Conns) /\ IsInjective(EntryConns(l, es))
        /\ \A q \in ToSet(EntryConns(l, es)) :
             UserOf[q] \in ToSet(es) /\ lobbys[l].users[UserOf[q]] = q
    BY <2>1, <2>2, EntryConnsFacts, Zenon
  <2> QED  BY <2>3, <2>4, Zenon
<1>11. /\ sb \in Seq(Conns) /\ ToSet(sb) \subseteq ToSet(list) /\ IsInjective(sb)
       /\ \A q \in ToSet(sb) : cs[q].entry # None
       /\ \E s : \A q \in ToSet(sb) : conn[q].sync = s
       /\ OnSide(cs, sb, Aeug) \in 0 .. 2 /\ OnSide(cs, sb, Titans) \in 0 .. 2
       /\ Ready(l, cs, list) # {} => LobbyCanStart(l, OnSide(cs, sb, Aeug), OnSide(cs, sb, Titans))
  <2>1. Aeug # None /\ Titans # None
    BY Constants
  <2>2. StartBattleUsers(l, cs, list) = sb /\ list \in Seq(Conns) /\ IsInjective(list)
    BY <1>2, <1>10
  <2>3. /\ sb \in Seq(Conns) /\ ToSet(sb) \subseteq ToSet(list)
        /\ IsInjective(list) => IsInjective(sb)
        /\ \A q \in ToSet(sb) : cs[q].entry # None
        /\ \A s \in {Aeug, Titans} : s # None => OnSide(cs, sb, s) \in 0 .. 2
    BY <2>2, StartersFacts
  <2>4. \E s : \A q \in ToSet(sb) : conn[q].sync = s
    <3>1. \E s : \A q \in ToSet(StartBattleUsers(l, cs, list)) : conn[q].sync = s
      BY <2>2, StartersFacts, Zenon
    <3> QED  BY <2>2, <3>1
  <2>5. Ready(l, cs, list) # {} => LobbyCanStart(l, OnSide(cs, sb, Aeug), OnSide(cs, sb, Titans))
    BY <2>2, StartersFacts, Constants
  <2> QED  BY <2>1, <2>2, <2>3, <2>4, <2>5
<1>12. \A q \in ToSet(sb) : conn[q].state = "in" /\ cs[q].entry # None
  <2> TAKE q \in ToSet(sb)
  <2>1. q \in ToSet(list) /\ q \in Conns /\ UserOf[q] \in Users /\ q # None
    <3>1. q \in Conns
      BY <1>11, ElementOfSeq DEF ToSet
    <3> QED  BY <1>11, <3>1, Constants
  <2>2. lobbys[l].users[UserOf[q]] = q
    BY <1>10, <2>1
  <2> QED  BY <1>1, <1>4, <1>11, <2>1, <2>2 DEF LobbyListsPresent
<1>13. ASSUME Ready(l, cs, list) # {} \/ (l = 1 /\ Len(sb) = 1)
       PROVE  /\ sb # <<>>
              /\ OnSide(cs, sb, Aeug) \in LeastEach(l, 0) .. 2
              /\ OnSide(cs, sb, Titans) \in LeastEach(l, 0) .. 2
  <2>1. PICK a, t : a = OnSide(cs, sb, Aeug) /\ t = OnSide(cs, sb, Titans)
    OBVIOUS
  <2>2. a \in 0 .. 2 /\ t \in 0 .. 2
    BY <1>11, <2>1
  <2>3. CASE l = 1 /\ Len(sb) = 1
    <3>1. Len(<<>>) = 0
      BY EmptySeq
    <3>2. sb # <<>>
      BY <2>3, <3>1
    <3>3. a \in LeastEach(l, 0) .. 2 /\ t \in LeastEach(l, 0) .. 2
      BY <2>2, <2>3 DEF LeastEach
    <3> QED  BY <2>1, <3>2, <3>3
  <2>4. CASE Ready(l, cs, list) # {}
    <3>1. LobbyCanStart(l, a, t)
      BY <1>11, <2>1, <2>4
    <3>2. a \in LeastEach(l, 0) .. 2 /\ t \in LeastEach(l, 0) .. 2 /\ (a # 0 \/ t # 0)
      BY <2>2, <3>1 DEF LobbyCanStart, LeastEach
    <3>3. sb # <<>>
      <4>1. ASSUME sb = <<>>
            PROVE  OnSide(cs, sb, Aeug) = 0 /\ OnSide(cs, sb, Titans) = 0
        <5>1. DOMAIN sb = {}
          BY <4>1
        <5>2. \A s : {i \in DOMAIN sb : cs[sb[i]].entry = s} = {}
          BY <5>1
        <5> QED  BY <5>2, FS_EmptySet DEF OnSide
      <4> QED  BY <2>1, <3>2, <4>1
    <3> QED  BY <2>1, <3>2, <3>3
  <2> QED  BY <1>13, <2>3, <2>4
<1>14. 0 \in Rooms \cup {0}
  OBVIOUS
<1>15. \E F \in SUBSET Conns, whole \in BOOLEAN : F \subseteq ToSet(sb) /\ StartedFrom(F, whole, 0, cs, view)
  <2>1. CASE Refuses(cs, view)
    <3>1. StartedFrom({}, FALSE, 0, cs, view)
      BY <1>8, <1>9, <2>1, RefusedEffect
    <3> QED  BY <3>1
  <2>2. CASE \E n \in DOMAIN sb : Fights(l, 0, sb, n, FALSE, cs, view)
    <3>1. \E F \in SUBSET Conns : F \subseteq ToSet(sb) /\ StartedFrom(F, FALSE, 0, cs, view)
      BY <1>4, <1>8, <1>9, <1>11, <1>12, <1>14, <2>2, FailedEffect
    <3> QED  BY <3>1
  <2>3. CASE /\ Ready(l, cs, list) # {} \/ (l = 1 /\ Len(sb) = 1)
             /\ Fights(l, 0, sb, Len(sb), TRUE, cs, view)
    <3>1. \E s : \A q \in ToSet(sb) : cs[q].sync = s
      <4>1. PICK s : \A q \in ToSet(sb) : conn[q].sync = s
        BY <1>11
      <4>2. \A q \in ToSet(sb) : q \in Conns
        BY <1>11, ElementOfSeq DEF ToSet
      <4>3. \A q \in Conns : cs[q].sync = conn[q].sync
        BY <1>8
      <4>4. \A q \in ToSet(sb) : cs[q].sync = s
        BY <4>1, <4>2, <4>3
      <4> QED  BY <4>4
    <3>2. ToSet(sb) \subseteq Conns /\ StartedFrom(ToSet(sb), TRUE, 0, cs, view)
      BY <1>4, <1>8, <1>9, <1>11, <1>12, <1>13, <1>14, <2>3, <3>1, WholeEffect
    <3> QED  BY <3>2
  <2>4. \/ Refuses(cs, view)
        \/ \E n \in DOMAIN sb : Fights(l, 0, sb, n, FALSE, cs, view)
        \/ /\ Ready(l, cs, list) # {} \/ (l = 1 /\ Len(sb) = 1)
           /\ Fights(l, 0, sb, Len(sb), TRUE, cs, view)
    <3>1. CASE l = 1 /\ side # None
      <4>1. Refuses(cs, view) \/ (Len(sb) = 1 /\ Fights(l, 0, sb, Len(sb), TRUE, cs, view))
        BY <1>3, <3>1, Zenon DEF StartTestBattle
      <4> QED  BY <3>1, <4>1
    <3>2. CASE ~ (l = 1 /\ side # None)
      <4>1. IF able THEN StartBattle(l, 0, sb, cs, view) ELSE Refuses(cs, view)
        BY <1>3, <3>2
      <4>2. able = (Ready(l, cs, list) # {})
        BY <1>2
      <4> QED  BY <4>1, <4>2 DEF StartBattle
    <3> QED  BY <3>1, <3>2
  <2> QED  BY <2>1, <2>2, <2>3, <2>4
<1>16. PICK F \in SUBSET Conns, whole \in BOOLEAN : F \subseteq ToSet(sb) /\ StartedFrom(F, whole, 0, cs, view)
  BY <1>15
<1>17. /\ NewBattle(F, whole) /\ Len(made') <= MaxBattles /\ Len(made) <= Len(made') /\ Len(made') \in Nat
       /\ F # {} => Len(made') = Len(made) + 1
       /\ conn' \in [Conns -> ConnRecs(Len(made'))] /\ client' \in [Conns -> ClientRecs]
       /\ \A q \in Conns : StartedFor(q, F, whole, 0, cs, view)
  <2>1. Len(made') \in Nat
    <3>1. CASE F = {}
      BY <1>1, <1>16, <3>1 DEF StartedFrom, NewBattle
    <3>2. CASE F # {}
      BY <1>1, <1>16, <3>2 DEF StartedFrom
    <3> QED  BY <3>1, <3>2
  <2> QED  BY <1>16, <2>1 DEF StartedFrom
<1>18. TypeOK'
  <2>1. battles' \in [Users -> 0 .. Len(made')]
    <3>1. 0 .. Len(made) \subseteq 0 .. Len(made')
      BY <1>1, <1>17
    <3> QED  BY <1>1, <1>3, <3>1
  <2> QED  BY <1>1, <1>3, <1>6, <1>17, <2>1, TypedNext
<1>19. ASSUME NEW q \in F
       PROVE  /\ conn[q].state = "in" /\ conn[q].lobby = l /\ conn[q].room = 0 /\ (q = p => side # None)
              /\ client[q].notice = "no" /\ ~ client[q].preparing
  <2>1. /\ q \in Conns /\ q \in ToSet(list) /\ cs[q].entry # None /\ q # None /\ UserOf[q] \in Users
        /\ lobbys[l].users[UserOf[q]] = q /\ UserOf[q] \in ToSet(es)
    BY <1>10, <1>11, <1>16, Constants
  <2>2. conn[q].state = "in" /\ conn[q].lobby = l
    BY <1>1, <1>4, <2>1 DEF LobbyListsPresent
  <2>3. q = p => side # None
    BY <1>8, <2>1
  <2>4. q # p => conn[q].room = 0 /\ client[q].notice = "no"
    <3> SUFFICES ASSUME q # p
                 PROVE  conn[q].room = 0 /\ client[q].notice = "no"
      OBVIOUS
    <3>1. UserOf[q] # UserOf[p]
      BY <2>1, OneConnectionEach
    <3>2. UserOf[q] \in ToSet(lobbys[l].entries)
      BY <1>5, <2>1, <3>1
    <3>3. conn[q].room = 0
      BY <1>1, <1>4, <2>1, <3>2 DEF EntriesEngaged
    <3>4. conn[q].entry # None
      BY <1>8, <2>1
    <3> QED  BY <1>1, <2>1, <3>3, <3>4 DEF NotPickedAgain
  <2>5. q = p => conn[q].room = 0 /\ client[q].notice = "no"
    BY <1>3, <1>4, <2>3 DEF Engaged
  <2>6. ~ client[q].preparing
    BY <1>1, <2>1, <2>4, <2>5 DEF Preparing
  <2> QED  BY <2>2, <2>3, <2>4, <2>5, <2>6
<1>20. ASSUME NEW q \in Conns
       PROVE  /\ conn'[q].state = conn[q].state /\ conn'[q].lobby = conn[q].lobby
              /\ conn'[q].room = conn[q].room /\ conn'[q].after = conn[q].after
              /\ conn'[q].battle = IF q \in F THEN Len(made) + 1 ELSE conn[q].battle
              /\ client'[q].preparing = client[q].preparing /\ client'[q].meets = client[q].meets
              /\ whole /\ q \in F => client'[q].notice = "sent"
              /\ ~ (whole /\ q \in F) =>
                   /\ client'[q].notice = "no" <=> client[q].notice = "no"
                   /\ client'[q].notice = "sent" => client[q].notice = "sent"
              /\ conn'[q].entry = IF whole /\ q \in F THEN None
                                 ELSE IF q = p THEN side ELSE conn[q].entry
              /\ client'[q].entered = IF q = p THEN side # None ELSE client[q].entered
              /\ client'[q].removed = client[q].removed
  <2>1. StartedFor(q, F, whole, 0, cs, view)
    BY <1>17
  <2>2. q \in F => client[q].notice = "no"
    BY <1>19
  <2>3. q \in F => view[q].notice = "no"
    BY <1>9, <2>2
  <2>4. /\ conn'[q].state = conn[q].state /\ conn'[q].lobby = conn[q].lobby
        /\ conn'[q].room = conn[q].room /\ conn'[q].after = conn[q].after
        /\ conn'[q].battle = IF q \in F THEN Len(made) + 1 ELSE conn[q].battle
        /\ conn'[q].entry = IF whole /\ q \in F THEN None
                           ELSE IF q = p THEN side ELSE conn[q].entry
    BY <1>8, <2>1 DEF StartedFor
  <2>5. /\ client'[q].preparing = client[q].preparing /\ client'[q].meets = client[q].meets
        /\ client'[q].entered = IF q = p THEN side # None ELSE client[q].entered
        /\ client'[q].removed = client[q].removed
    BY <1>9, <2>1 DEF StartedFor
  <2>6. client'[q].notice = IF whole /\ q \in F THEN "sent" ELSE view[q].notice
    BY <2>1, <2>3 DEF StartedFor
  <2> QED  BY <1>9, <2>4, <2>5, <2>6
<1>21. Started(p, F, whole)
  BY <1>3, <1>4, <1>17, <1>19, <1>20, Constants DEF Started
<1>22. StartsLobby(p, l, side, F, whole)
  BY <1>2, <1>3, <1>4, <1>5, <1>6, <1>7, <1>19, <1>20, <1>21 DEF StartsLobby
<1> QED  BY <1>2, <1>18, <1>22

(* The peers found for a list are those in it, if they are logged in. *)
LEMMA PeersOfList ==
  ASSUME LoggedIn, NEW list \in Seq(Conns), \A q \in ToSet(list) : conn[q].state = "in"
  PROVE  PeersOf(list) = ToSet(list)
<1>1. \A i \in DOMAIN list : users[UserOf[list[i]]] = list[i]
  <2> TAKE i \in DOMAIN list
  <2>1. list[i] \in Conns /\ list[i] \in ToSet(list)
    BY LenProperties, ElementOfSeq DEF ToSet
  <2> QED  BY <2>1 DEF LoggedIn
<1> QED  BY <1>1 DEF PeersOf, ToSet

(* A start in the room of p. *)
StartsRoom(p, l, r, F, whole) ==
  /\ l \in Lobbies /\ r \in Rooms /\ conn[p].lobby = l /\ conn[p].room = r /\ conn[p].state = "in"
  /\ rooms[l][r].owner = UserOf[p] /\ client[p].notice = "no" /\ ~ client[p].removed
  /\ Started(p, F, whole) /\ lobbys' = lobbys
  /\ F \subseteq ToSet(rooms[l][r].users)
  /\ \A q \in Conns :
       /\ conn'[q].entry = conn[q].entry /\ client'[q].entered = client[q].entered
       /\ client'[q].removed =
            (client[q].removed \/ (whole /\ q \in ToSet(rooms[l][r].users) /\ q \notin F))

(* Starting the battle of a room. *)
LEMMA OnNoticeRoomBattleStartEffect ==
  ASSUME IInv, NEW p \in Conns, OnNoticeRoomBattleStart(p)
  PROVE  /\ TypeOK'
         /\ \E F \in SUBSET Conns, whole \in BOOLEAN :
              StartsRoom(p, conn[p].lobby, conn[p].room, F, whole)
<1>1. /\ TypeOK /\ LoggedIn /\ Placed /\ NotPickedAgain /\ Preparing /\ RoomsAgree
      /\ conn \in [Conns -> ConnRecs(Len(made))] /\ client \in [Conns -> ClientRecs]
      /\ users \in [Users -> Conns \cup {None}] /\ battles \in [Users -> 0 .. Len(made)]
      /\ lobbys \in [Lobbies -> LobbyRecs] /\ Len(made) \in Nat
      /\ rooms \in [Lobbies -> [Rooms -> RoomRecs]] /\ shown \in [Conns -> Views]
  BY Typed, LenProperties DEF IInv, InBattle
<1>2. PICK l, r, room, active, M, view :
        /\ l = conn[p].lobby /\ r = conn[p].room /\ room = rooms[l][r]
        /\ active = TwoASide(conn, room.users) /\ M = PeersOf(room.users) \ PeersOf(active)
        /\ view = Told([q \in Conns |-> [client[q] EXCEPT !.removed = @ \/ q \in M]], p)
  OBVIOUS
<1>3. /\ Asks(p) /\ conn[p].state = "in" /\ client[p].notice = "no" /\ ~ client[p].removed
      /\ r # 0 /\ room.owner = UserOf[p]
      /\ RoomCanStart(OnSide(conn, room.users, Aeug), OnSide(conn, room.users, Titans))
      /\ \/ Refuses(conn, client)
         \/ \E n \in DOMAIN active : Fights(l, r, active, n, FALSE, conn, client)
         \/ Fights(l, r, active, Len(active), TRUE, conn, view)
      /\ UNCHANGED <<users, lobbys, rooms, battles, shown>>
  BY <1>2, Zenon DEF OnNoticeRoomBattleStart, Asks
<1>4. l \in Lobbies /\ r \in Rooms
  BY <1>1, <1>2, <1>3, Fields DEF Placed
<1>5. room \in RoomRecs /\ room.users \in Seq(Conns) /\ IsInjective(room.users)
  <2>1. room \in RoomRecs
    BY <1>1, <1>2, <1>4, RoomTyped
  <2>2. room.users \in Seq(Conns)
    BY <2>1, RoomFields
  <2>3. IsInjective(rooms[l][r].users)
    BY <1>1, <1>4 DEF RoomsAgree
  <2> QED  BY <1>2, <2>1, <2>2, <2>3
<1>6. ASSUME NEW q \in ToSet(room.users)
      PROVE  /\ q \in Conns /\ conn[q].lobby = l /\ conn[q].room = r /\ ~ client[q].preparing
             /\ conn[q].state = "in" /\ client[q].notice = "no"
  <2>1. q \in Conns
    BY <1>5, ElementOfSeq DEF ToSet
  <2>2. conn[q].lobby = l /\ conn[q].room = r /\ ~ client[q].preparing
    <3>1. q \in ToSet(rooms[l][r].users)
      BY <1>2
    <3> QED  BY <1>1, <1>4, <2>1, <3>1 DEF RoomsAgree
  <2>3. conn[q].state = "in"
    BY <1>1, <1>4, <2>1, <2>2, Constants DEF Placed
  <2>4. client[q].notice = "no"
    <3>1. ASSUME client[q].notice # "no"
          PROVE  Blocked(l, r)
      BY <1>1, <1>4, <2>1, <2>2, <3>1, Constants DEF NotPickedAgain
    <3> QED  BY <1>2, <1>3, <3>1 DEF Blocked
  <2> QED  BY <2>1, <2>2, <2>3, <2>4
<1>7. /\ active \in Seq(Conns) /\ ToSet(active) \subseteq ToSet(room.users) /\ IsInjective(active)
      /\ \A q \in ToSet(active) : conn[q].entry # None
      /\ \A s \in {Aeug, Titans} :
           OnSide(conn, active, s) = IF OnSide(conn, room.users, s) > 2 THEN 2 ELSE OnSide(conn, room.users, s)
  <2>1. PICK list \in Seq(Conns) : list = room.users /\ IsInjective(list)
    BY <1>5
  <2>2. active = TwoASide(conn, list)
    BY <1>2, <2>1
  <2>3. /\ active \in Seq(Conns) /\ ToSet(active) \subseteq ToSet(list)
        /\ IsInjective(list) => IsInjective(active)
        /\ \A q \in ToSet(active) : conn[q].entry # None
        /\ \A s : s # None => OnSide(conn, active, s) = IF OnSide(conn, list, s) > 2 THEN 2 ELSE OnSide(conn, list, s)
    BY <2>2, TwoASideFacts
  <2>4. Aeug # None /\ Titans # None
    BY Constants
  <2> QED  BY <2>1, <2>3, <2>4
<1>8. \A q \in ToSet(active) : conn[q].state = "in" /\ conn[q].entry # None
  BY <1>6, <1>7
<1>9. /\ active # <<>>
      /\ OnSide(conn, active, Aeug) \in LeastEach(l, r) .. 2
      /\ OnSide(conn, active, Titans) \in LeastEach(l, r) .. 2
  <2>1. PICK a, t : a = OnSide(conn, active, Aeug) /\ t = OnSide(conn, active, Titans)
    OBVIOUS
  <2>2. a \in 1 .. 2 /\ t \in 1 .. 2
    BY <1>3, <1>7, <2>1 DEF RoomCanStart
  <2>3. active # <<>>
    <3>1. ASSUME active = <<>>
          PROVE  OnSide(conn, active, Aeug) = 0
      <4>1. DOMAIN active = {}
        BY <3>1
      <4>2. \A side : {i \in DOMAIN active : conn[active[i]].entry = side} = {}
        BY <4>1
      <4> QED  BY <4>2, FS_EmptySet DEF OnSide
    <3> QED  BY <2>1, <2>2, <3>1
  <2> QED  BY <1>3, <2>1, <2>2, <2>3 DEF LeastEach
<1>10. M = ToSet(room.users) \ ToSet(active)
  BY <1>1, <1>2, <1>5, <1>6, <1>7, <1>8, PeersOfList
<1>11. /\ view \in [Conns -> ClientRecs]
       /\ \A q \in Conns : /\ view[q].entered = client[q].entered /\ view[q].preparing = client[q].preparing
                           /\ view[q].meets = client[q].meets /\ view[q].notice = client[q].notice
                           /\ view[q].removed = (client[q].removed \/ q \in M)
  <2>1. view = [q \in Conns |-> [client[q] EXCEPT !.removed = client[q].removed \/ q \in M]]
    <3>1. PICK v : v = [q \in Conns |-> [client[q] EXCEPT !.removed = client[q].removed \/ q \in M]]
      OBVIOUS
    <3>2. v \in [Conns -> ClientRecs] /\ v[p].notice = "no"
      <4>1. \A q \in Conns : v[q] \in ClientRecs /\ v[q].notice = client[q].notice
        <5> TAKE q \in Conns
        <5>1. PICK x \in BOOLEAN : x = (client[q].removed \/ q \in M)
          BY <1>1, Fields
        <5>2. client[q] \in ClientRecs /\ v[q] = [client[q] EXCEPT !.removed = x]
          BY <1>1, <3>1, <5>1
        <5> QED  BY <5>1, <5>2 DEF ClientRecs
      <4> QED  BY <1>3, <3>1, <4>1
    <3>3. view = [v EXCEPT ![p].notice = IF client[p].notice = "sent" THEN "seen" ELSE @]
      BY <1>2, <3>1, Zenon DEF Told
    <3>4. PICK c : c = [v[p] EXCEPT !.notice = "no"]
      OBVIOUS
    <3>5. view = [v EXCEPT ![p] = c]
      BY <1>3, <3>2, <3>3, <3>4
    <3>6. c = v[p]
      <4>1. v[p] \in ClientRecs
        BY <3>2
      <4> QED  BY <3>2, <3>4, <4>1 DEF ClientRecs
    <3> QED  BY <3>1, <3>2, <3>5, <3>6
  <2>2. ASSUME NEW q \in Conns
        PROVE  /\ view[q] \in ClientRecs
               /\ view[q].entered = client[q].entered /\ view[q].preparing = client[q].preparing
               /\ view[q].meets = client[q].meets /\ view[q].notice = client[q].notice
               /\ view[q].removed = (client[q].removed \/ q \in M)
    <3>1. PICK x \in BOOLEAN : x = (client[q].removed \/ q \in M)
      BY <1>1, Fields
    <3>2. client[q] \in ClientRecs /\ view[q] = [client[q] EXCEPT !.removed = x]
      BY <1>1, <2>1, <3>1
    <3> QED  BY <3>1, <3>2 DEF ClientRecs
  <2> QED  BY <2>1, <2>2
<1>12. \E F \in SUBSET Conns :
         /\ F \subseteq ToSet(active)
         /\ \/ StartedFrom(F, FALSE, r, conn, client)
            \/ F = ToSet(active) /\ StartedFrom(F, TRUE, r, conn, view)
  <2>1. CASE Refuses(conn, client)
    <3>1. StartedFrom({}, FALSE, r, conn, client)
      BY <1>1, <2>1, RefusedEffect
    <3> QED  BY <3>1
  <2>2. CASE \E n \in DOMAIN active : Fights(l, r, active, n, FALSE, conn, client)
    <3>1. \E F \in SUBSET Conns : F \subseteq ToSet(active) /\ StartedFrom(F, FALSE, r, conn, client)
      BY <1>1, <1>4, <1>7, <1>8, <2>2, FailedEffect
    <3> QED  BY <3>1
  <2>3. CASE Fights(l, r, active, Len(active), TRUE, conn, view)
    <3>1. r = 0 => \E s : \A q \in ToSet(active) : conn[q].sync = s
      BY <1>3
    <3>2. ToSet(active) \subseteq Conns /\ StartedFrom(ToSet(active), TRUE, r, conn, view)
      BY <1>1, <1>4, <1>7, <1>8, <1>9, <1>11, <2>3, <3>1, WholeEffect
    <3> QED  BY <3>2
  <2> QED  BY <1>3, <2>1, <2>2, <2>3
<1>13. PICK F \in SUBSET Conns :
         /\ F \subseteq ToSet(active)
         /\ \/ StartedFrom(F, FALSE, r, conn, client)
            \/ F = ToSet(active) /\ StartedFrom(F, TRUE, r, conn, view)
  BY <1>12
<1>14. PICK whole \in BOOLEAN, v \in [Conns -> ClientRecs] :
         /\ StartedFrom(F, whole, r, conn, v)
         /\ v \in [Conns -> ClientRecs]
         /\ \A q \in Conns :
              /\ v[q].entered = client[q].entered /\ v[q].preparing = client[q].preparing
              /\ v[q].meets = client[q].meets /\ v[q].notice = client[q].notice
              /\ v[q].removed = (client[q].removed \/ (whole /\ q \in ToSet(room.users) /\ q \notin F))
  <2>1. CASE StartedFrom(F, FALSE, r, conn, client)
    <3>1. \A q \in Conns : client[q].removed = (client[q].removed \/ (FALSE /\ q \in ToSet(room.users) /\ q \notin F))
      BY <1>1, Fields
    <3> QED  BY <1>1, <2>1, <3>1
  <2>2. CASE F = ToSet(active) /\ StartedFrom(F, TRUE, r, conn, view)
    <3>1. \A q \in Conns : view[q].removed = (client[q].removed \/ (TRUE /\ q \in ToSet(room.users) /\ q \notin F))
      BY <1>10, <1>11, <2>2
    <3> QED  BY <1>11, <2>2, <3>1
  <2> QED  BY <1>13, <2>1, <2>2
<1>15. /\ NewBattle(F, whole) /\ Len(made') <= MaxBattles /\ Len(made) <= Len(made') /\ Len(made') \in Nat
       /\ F # {} => Len(made') = Len(made) + 1
       /\ conn' \in [Conns -> ConnRecs(Len(made'))] /\ client' \in [Conns -> ClientRecs]
       /\ \A q \in Conns : StartedFor(q, F, whole, r, conn, v)
  <2>1. Len(made') \in Nat
    <3>1. CASE F = {}
      BY <1>1, <1>14, <3>1 DEF StartedFrom, NewBattle
    <3>2. CASE F # {}
      BY <1>1, <1>14, <3>2 DEF StartedFrom
    <3> QED  BY <3>1, <3>2
  <2> QED  BY <1>14, <2>1 DEF StartedFrom
<1>16. TypeOK'
  <2>1. battles' \in [Users -> 0 .. Len(made')]
    <3>1. 0 .. Len(made) \subseteq 0 .. Len(made')
      BY <1>1, <1>15
    <3> QED  BY <1>1, <1>3, <3>1
  <2> QED  BY <1>1, <1>3, <1>15, <2>1, TypedNext
<1>17. F \subseteq ToSet(room.users)
  BY <1>7, <1>13
<1>18. ASSUME NEW q \in Conns
       PROVE  /\ conn'[q].state = conn[q].state /\ conn'[q].lobby = conn[q].lobby
              /\ conn'[q].room = conn[q].room /\ conn'[q].after = conn[q].after
              /\ conn'[q].battle = IF q \in F THEN Len(made) + 1 ELSE conn[q].battle
              /\ client'[q].preparing = client[q].preparing /\ client'[q].meets = client[q].meets
              /\ whole /\ q \in F => client'[q].notice = "sent"
              /\ ~ (whole /\ q \in F) =>
                   /\ client'[q].notice = "no" <=> client[q].notice = "no"
                   /\ client'[q].notice = "sent" => client[q].notice = "sent"
              /\ conn'[q].entry = conn[q].entry /\ client'[q].entered = client[q].entered
              /\ client'[q].removed = (client[q].removed \/ (whole /\ q \in ToSet(room.users) /\ q \notin F))
  <2>1. StartedFor(q, F, whole, r, conn, v)
    BY <1>15
  <2>2. q \in F => client[q].notice = "no"
    BY <1>6, <1>17
  <2> QED  BY <1>3, <1>14, <2>1, <2>2 DEF StartedFor
<1>19. Started(p, F, whole)
  BY <1>3, <1>4, <1>6, <1>15, <1>17, <1>18, Constants DEF Started
<1>20. StartsRoom(p, l, r, F, whole)
  BY <1>2, <1>3, <1>4, <1>17, <1>18, <1>19 DEF StartsRoom
<1> QED  BY <1>2, <1>16, <1>20

(* The kinds of steps there are. *)
Steps ==
  \/ \E p \in Conns : LogsIn(p)
  \/ \E p \in Conns, l \in Lobbies : EntersLobby(p, l)
  \/ \E p \in Conns : Leaves(p)
  \/ \E p \in Conns : ExitsRoom(p)
  \/ \E p \in Conns : Returns(p) /\ \A u \in Users : battles'[u] = 0 \/ battles'[u] = battles[u]
  \/ /\ UNCHANGED <<users, lobbys, rooms, made, conn, client, shown>>
     /\ \A u \in Users : battles'[u] = 0 \/ battles'[u] = battles[u]
  \/ \E p \in Conns : TakesSide(p)
  \/ \E p \in Conns, l \in Lobbies, r \in Rooms : MakesRoom(p, l, r)
  \/ \E p \in Conns, l \in Lobbies, r \in Rooms : FillsRoom(p, l, r)
  \/ \E p \in Conns, l \in Lobbies, side \in Sides \cup {None}, F \in SUBSET Conns, whole \in BOOLEAN :
       StartsLobby(p, l, side, F, whole)
  \/ \E p \in Conns, l \in Lobbies, r \in Rooms, F \in SUBSET Conns, whole \in BOOLEAN :
       StartsRoom(p, l, r, F, whole)

(* Every action of the lobby is of one of these kinds. *)
LEMMA NextKinds ==
  ASSUME IInv, Next
  PROVE  TypeOK' /\ Steps
<1>0. TypeOK
  BY DEF IInv
<1>1. ASSUME NEW p \in Conns, Requests(p)
      PROVE  TypeOK' /\ Steps
  <2>1. CASE OnDecideUserID(p)
    BY <1>0, <2>1, OnDecideUserIDEffect DEF Steps
  <2>2. CASE OnUserLogout(p) \/ OnUserGotoBattle(p)
    BY <2>2, LogsOutEffect DEF Steps
  <2>3. CASE \E l \in Lobbies : OnEnterLobby(p, l)
    BY <1>0, <2>3, OnEnterLobbyEffect DEF Steps
  <2>4. CASE \E side \in Sides \cup {None} : OnEntryLobbyBattle(p, side)
    <3>1. PICK side \in Sides \cup {None} : OnEntryLobbyBattle(p, side)
      BY <2>4
    <3>2. PICK F \in SUBSET Conns, whole \in BOOLEAN :
            TypeOK' /\ StartsLobby(p, conn[p].lobby, side, F, whole)
      BY <3>1, OnEntryLobbyBattleEffect
    <3>3. conn[p].lobby \in Lobbies
      BY <3>2 DEF StartsLobby
    <3> QED  BY <3>2, <3>3 DEF Steps
  <2>5. CASE OnExitLobby(p)
    BY <2>5, OnExitLobbyEffect DEF Steps
  <2>6. CASE OnUserTopPageJump(p)
    BY <2>6, OnUserTopPageJumpEffect DEF Steps
  <2>7. CASE OnEnterBattleAfterRoom(p) \/ OnExitBattleAfterRoom(p)
    BY <1>0, <2>7, ReturnsEffect DEF Steps
  <2> QED  BY <1>1, <2>1, <2>2, <2>3, <2>4, <2>5, <2>6, <2>7 DEF Requests
<1>2. ASSUME NEW p \in Conns, RoomRequests(p)
      PROVE  TypeOK' /\ Steps
  <2>1. CASE \E r \in Rooms : OnRequestCreateRoom(p, r)
    <3>1. PICK r \in Rooms : OnRequestCreateRoom(p, r)
      BY <2>1
    <3>2. TypeOK' /\ MakesRoom(p, conn[p].lobby, r)
      BY <3>1, OnRequestCreateRoomEffect
    <3>3. conn[p].lobby \in Lobbies
      BY <3>2 DEF MakesRoom
    <3> QED  BY <3>2, <3>3 DEF Steps
  <2>2. CASE \E r \in Rooms, count \in PlayerCounts : OnEnterRoom(p, r, count)
    <3>1. PICK r \in Rooms : TypeOK' /\ FillsRoom(p, conn[p].lobby, r)
      BY <2>2, FillsRoomEffect
    <3>2. conn[p].lobby \in Lobbies
      BY <3>1 DEF FillsRoom
    <3> QED  BY <3>1, <3>2 DEF Steps
  <2>3. CASE \E count \in PlayerCounts : OnDecideRuleFinish(p, count)
    <3>1. PICK count \in PlayerCounts : OnDecideRuleFinish(p, count)
      BY <2>3
    <3>2. conn[p].room \in Rooms
      BY <1>0, <3>1, Fields DEF OnDecideRuleFinish
    <3>3. TypeOK' /\ FillsRoom(p, conn[p].lobby, conn[p].room)
      BY <3>1, <3>2, FillsRoomEffect
    <3>4. conn[p].lobby \in Lobbies
      BY <3>3 DEF FillsRoom
    <3> QED  BY <3>2, <3>3, <3>4 DEF Steps
  <2>4. CASE \E side \in Sides \cup {None} : OnEntryRoomMatch(p, side)
    BY <1>0, <2>4, OnEntryRoomMatchEffect DEF Steps
  <2>5. CASE OnNoticeRoomBattleStart(p)
    <3>1. PICK F \in SUBSET Conns, whole \in BOOLEAN :
            TypeOK' /\ StartsRoom(p, conn[p].lobby, conn[p].room, F, whole)
      BY <2>5, OnNoticeRoomBattleStartEffect
    <3>2. conn[p].lobby \in Lobbies /\ conn[p].room \in Rooms
      BY <3>1 DEF StartsRoom
    <3> QED  BY <3>1, <3>2 DEF Steps
  <2>6. CASE OnExitRoom(p)
    BY <2>6, OnExitRoomEffect DEF Steps
  <2> QED  BY <1>2, <2>1, <2>2, <2>3, <2>4, <2>5, <2>6 DEF RoomRequests
<1>3. ASSUME NEW p \in Conns, OnClose(p)
      PROVE  TypeOK' /\ Steps
  BY <1>3, OnCloseEffect DEF Steps
<1>4. ASSUME NEW u \in Users, BattleTimeout(u)
      PROVE  TypeOK' /\ Steps
  BY <1>0, <1>4, BattleTimeoutEffect DEF Steps
<1> QED  BY <1>1, <1>2, <1>3, <1>4 DEF Next

(* A stutter is of the kind of a battle's timeout. *)
LEMMA StepKinds ==
  ASSUME IInv, [Next]_vars
  PROVE  TypeOK' /\ Steps
<1>1. CASE Next
  BY <1>1, NextKinds
<1>2. CASE vars' = vars
  <2>1. TypeOK'
    BY <1>2 DEF IInv, TypeOK, vars
  <2>2. Steps
    BY <1>2 DEF Steps, vars
  <2> QED  BY <2>1, <2>2
<1> QED  BY <1>1, <1>2

(* A step that moves nobody: none logs in or out, enters or leaves.        *)
Quiet ==
  /\ users' = users /\ rooms' = rooms /\ shown' = shown
  /\ \A l \in Lobbies : lobbys'[l].users = lobbys[l].users
  /\ \A q \in Conns : /\ conn'[q].state = conn[q].state /\ conn'[q].lobby = conn[q].lobby
                      /\ conn'[q].room = conn[q].room
                      /\ client'[q].preparing = client[q].preparing

(* All kinds but six move nobody. *)
LEMMA QuietKinds ==
  ASSUME Steps
  PROVE  \/ \E p \in Conns : LogsIn(p)
         \/ \E p \in Conns, l \in Lobbies : EntersLobby(p, l)
         \/ \E p \in Conns : Leaves(p)
         \/ \E p \in Conns : ExitsRoom(p)
         \/ \E p \in Conns, l \in Lobbies, r \in Rooms : MakesRoom(p, l, r)
         \/ \E p \in Conns, l \in Lobbies, r \in Rooms : FillsRoom(p, l, r)
         \/ Quiet
<1>1. ASSUME NEW p \in Conns, Returns(p)
      PROVE  Quiet
  BY <1>1 DEF Returns, Only, Quiet
<1>2. ASSUME NEW p \in Conns, TakesSide(p)
      PROVE  Quiet
  BY <1>2 DEF TakesSide, Only, Quiet
<1>3. ASSUME UNCHANGED <<users, lobbys, rooms, made, conn, client, shown>>
      PROVE  Quiet
  BY <1>3 DEF Quiet
<1>4. ASSUME NEW p \in Conns, NEW l \in Lobbies, NEW side \in Sides \cup {None},
             NEW F \in SUBSET Conns, NEW whole \in BOOLEAN, StartsLobby(p, l, side, F, whole)
      PROVE  Quiet
  BY <1>4 DEF StartsLobby, Started, Quiet
<1>5. ASSUME NEW p \in Conns, NEW l \in Lobbies, NEW r \in Rooms,
             NEW F \in SUBSET Conns, NEW whole \in BOOLEAN, StartsRoom(p, l, r, F, whole)
      PROVE  Quiet
  BY <1>5 DEF StartsRoom, Started, Quiet
<1> QED  BY <1>1, <1>2, <1>3, <1>4, <1>5, Zenon DEF Steps

(* Users stay logged in on the connections that are open. *)
LEMMA LoggedInStep ==
  ASSUME IInv, TypeOK', Steps
  PROVE  LoggedIn'
<1>1. TypeOK /\ LoggedIn
  BY DEF IInv
<1>2. users \in [Users -> Conns \cup {None}]
  BY <1>1, Typed
<1>3. ASSUME users' = users, \A q \in Conns : conn'[q].state = conn[q].state
      PROVE  LoggedIn'
  BY <1>1, <1>3 DEF LoggedIn
<1>4. ASSUME NEW p \in Conns, LogsIn(p)
      PROVE  LoggedIn'
  <2>1. /\ conn[p].state = "closed" /\ (\A u \in Users : users[u] # p)
        /\ users' = [users EXCEPT ![UserOf[p]] = p]
        /\ \A q \in Conns : q # p => conn'[q] = conn[q]
        /\ conn'[p].state = "in"
    BY <1>4 DEF LogsIn, Only, Closed
  <2>2. ASSUME NEW u \in Users, users'[u] # None
        PROVE  users'[u] \in Conns /\ UserOf[users'[u]] = u /\ conn'[users'[u]].state = "in"
    <3>1. CASE u = UserOf[p]
      BY <1>2, <2>1, <3>1
    <3>2. CASE u # UserOf[p]
      BY <1>1, <1>2, <2>1, <2>2, <3>2 DEF LoggedIn
    <3> QED  BY <3>1, <3>2
  <2>3. ASSUME NEW q \in Conns, conn'[q].state = "in"
        PROVE  users'[UserOf[q]] = q
    <3>1. CASE q = p
      BY <1>2, <2>1, <3>1, Constants
    <3>2. CASE q # p
      BY <1>1, <1>2, <2>1, <2>3, <3>2, Constants, OneConnectionEach DEF LoggedIn
    <3> QED  BY <3>1, <3>2
  <2> QED  BY <2>2, <2>3 DEF LoggedIn
<1>5. ASSUME NEW p \in Conns, Leaves(p)
      PROVE  LoggedIn'
  <2>1. /\ \A q \in Conns : q # p => conn'[q].state = conn[q].state
        /\ \/ conn'[p].state = "in" /\ conn[p].state = "in" /\ users' = users
           \/ conn'[p].state # "in" /\ users' = [users EXCEPT ![UserOf[p]] = None]
    BY <1>5 DEF Leaves, Leaving
  <2>2. CASE conn'[p].state = "in" /\ conn[p].state = "in" /\ users' = users
    BY <1>3, <2>1, <2>2
  <2>3. CASE conn'[p].state # "in" /\ users' = [users EXCEPT ![UserOf[p]] = None]
    <3>1. ASSUME NEW u \in Users, users'[u] # None
          PROVE  users'[u] \in Conns /\ UserOf[users'[u]] = u /\ conn'[users'[u]].state = "in"
      <4>1. u # UserOf[p] /\ users'[u] = users[u]
        BY <1>2, <2>3, <3>1, Constants
      <4>2. users[u] \in Conns /\ UserOf[users[u]] = u /\ conn[users[u]].state = "in"
        BY <1>1, <3>1, <4>1 DEF LoggedIn
      <4> QED  BY <2>1, <4>1, <4>2
    <3>2. ASSUME NEW q \in Conns, conn'[q].state = "in"
          PROVE  users'[UserOf[q]] = q
      BY <1>1, <1>2, <2>1, <2>3, <3>2, Constants, OneConnectionEach DEF LoggedIn
    <3> QED  BY <3>1, <3>2 DEF LoggedIn
  <2> QED  BY <2>1, <2>2, <2>3
<1>6. ASSUME NEW p \in Conns, NEW l \in Lobbies, EntersLobby(p, l)
      PROVE  LoggedIn'
  BY <1>3, <1>6 DEF EntersLobby, Only
<1>7. ASSUME NEW p \in Conns, ExitsRoom(p)
      PROVE  LoggedIn'
  BY <1>3, <1>7 DEF ExitsRoom, Leaving
<1>8. ASSUME NEW p \in Conns, NEW l \in Lobbies, NEW r \in Rooms, MakesRoom(p, l, r)
      PROVE  LoggedIn'
  BY <1>3, <1>8 DEF MakesRoom, Only
<1>9. ASSUME NEW p \in Conns, NEW l \in Lobbies, NEW r \in Rooms, FillsRoom(p, l, r)
      PROVE  LoggedIn'
  BY <1>3, <1>9 DEF FillsRoom, Only
<1>10. ASSUME Quiet
       PROVE  LoggedIn'
  BY <1>3, <1>10 DEF Quiet
<1> QED  BY <1>4, <1>5, <1>6, <1>7, <1>8, <1>9, <1>10, QuietKinds

(* What the lists of lobbies and the places of the connections have to     *)
(* say of each other, kept by who stays where it is.                       *)
LEMMA PlacesStep ==
  ASSUME IInv, TypeOK', Steps
  PROVE  LobbyListsPresent' /\ Placed'
<1>1. TypeOK /\ LobbyListsPresent /\ Placed
  BY DEF IInv
<1>2. \A l \in Lobbies, u \in Users : lobbys[l].users[u] \in Conns \cup {None}
  BY <1>1, LobbyTyped
<1>3. ASSUME \A l \in Lobbies : lobbys'[l].users = lobbys[l].users,
             \A q \in Conns : /\ conn[q].lobby # 0 => conn'[q].state = conn[q].state
                              /\ conn'[q].lobby = conn[q].lobby
                              /\ conn'[q].room # 0 => conn[q].lobby # 0
      PROVE  LobbyListsPresent' /\ Placed'
  <2>1. LobbyListsPresent'
    BY <1>1, <1>2, <1>3, Constants DEF LobbyListsPresent
  <2>2. \A q \in Conns : conn[q].lobby \in Lobbies \cup {0}
    BY <1>1, Fields
  <2>3. Placed'
    BY <1>1, <1>3, <2>2 DEF Placed
  <2> QED  BY <2>1, <2>3
<1>4. ASSUME NEW p \in Conns, LogsIn(p)
      PROVE  LobbyListsPresent' /\ Placed'
  <2>1. /\ conn[p].lobby = 0 /\ conn'[p].lobby = 0 /\ conn'[p].room = 0 /\ lobbys' = lobbys
        /\ \A q \in Conns : q # p => conn'[q] = conn[q]
    BY <1>1, <1>4 DEF LogsIn, Only, Closed, Placed
  <2> QED  BY <1>1, <1>3, <2>1 DEF Placed
<1>5. ASSUME NEW p \in Conns, NEW l \in Lobbies, EntersLobby(p, l)
      PROVE  LobbyListsPresent' /\ Placed'
  <2>1. /\ conn[p].state = "in" /\ conn'[p].state = "in" /\ conn[p].lobby = 0 /\ conn'[p].lobby = l
        /\ conn'[p].room = 0
        /\ \A q \in Conns : q # p => conn'[q] = conn[q]
        /\ \A k \in Lobbies, u \in Users :
             lobbys'[k].users[u] = IF k = l /\ u = UserOf[p] THEN p ELSE lobbys[k].users[u]
    BY <1>1, <1>5 DEF EntersLobby, Only, Placed
  <2>2. ASSUME NEW k \in Lobbies, NEW u \in Users, NEW q, q = lobbys'[k].users[u], q # None
        PROVE  conn'[q].state = "in" /\ conn'[q].lobby = k /\ UserOf[q] = u
    <3>1. CASE k = l /\ u = UserOf[p]
      BY <2>1, <2>2, <3>1
    <3>2. CASE ~ (k = l /\ u = UserOf[p])
      <4>1. q = lobbys[k].users[u] /\ q \in Conns
        BY <1>2, <2>1, <2>2, <3>2
      <4>2. conn[q].state = "in" /\ conn[q].lobby = k /\ UserOf[q] = u
        BY <1>1, <2>2, <4>1 DEF LobbyListsPresent
      <4> QED  BY <2>1, <4>1, <4>2, Constants
    <3> QED  BY <3>1, <3>2
  <2>3. ASSUME NEW q \in Conns
        PROVE  /\ conn'[q].lobby # 0 => conn'[q].state = "in" /\ lobbys'[conn'[q].lobby].users[UserOf[q]] = q
               /\ conn'[q].room # 0 => conn'[q].lobby # 0
    <3>1. CASE q = p
      BY <2>1, <3>1, Constants
    <3>2. CASE q # p
      <4>1. conn'[q] = conn[q] /\ UserOf[q] # UserOf[p] /\ conn[q].lobby \in Lobbies \cup {0}
        BY <1>1, <2>1, <3>2, OneConnectionEach, Fields
      <4> QED  BY <1>1, <2>1, <4>1, Constants DEF Placed
    <3> QED  BY <3>1, <3>2
  <2> QED  BY <2>2, <2>3 DEF LobbyListsPresent, Placed
<1>6. ASSUME NEW p \in Conns, Leaves(p)
      PROVE  LobbyListsPresent' /\ Placed'
  <2>1. /\ conn'[p].lobby = 0 /\ conn'[p].room = 0
        /\ \A q \in Conns : q # p => /\ conn'[q].state = conn[q].state /\ conn'[q].lobby = conn[q].lobby
                                     /\ conn'[q].room # 0 => conn[q].room # 0
        /\ \A k \in Lobbies, u \in Users :
             lobbys'[k].users[u] = IF k = conn[p].lobby /\ u = UserOf[p] THEN None ELSE lobbys[k].users[u]
    BY <1>6 DEF Leaves, Leaving, LeftLobby
  <2>2. ASSUME NEW k \in Lobbies, NEW u \in Users, NEW q, q = lobbys'[k].users[u], q # None
        PROVE  conn'[q].state = "in" /\ conn'[q].lobby = k /\ UserOf[q] = u
    <3>1. q = lobbys[k].users[u] /\ q \in Conns /\ ~ (k = conn[p].lobby /\ u = UserOf[p])
      BY <1>2, <2>1, <2>2
    <3>2. conn[q].state = "in" /\ conn[q].lobby = k /\ UserOf[q] = u
      BY <1>1, <2>2, <3>1 DEF LobbyListsPresent
    <3> QED  BY <2>1, <3>1, <3>2
  <2>3. ASSUME NEW q \in Conns
        PROVE  /\ conn'[q].lobby # 0 => conn'[q].state = "in" /\ lobbys'[conn'[q].lobby].users[UserOf[q]] = q
               /\ conn'[q].room # 0 => conn'[q].lobby # 0
    <3>1. CASE q = p
      BY <2>1, <3>1
    <3>2. CASE q # p
      <4>1. /\ conn'[q].state = conn[q].state /\ conn'[q].lobby = conn[q].lobby
            /\ UserOf[q] # UserOf[p] /\ conn[q].lobby \in Lobbies \cup {0}
        BY <1>1, <2>1, <3>2, OneConnectionEach, Fields
      <4> QED  BY <1>1, <2>1, <3>2, <4>1, Constants DEF Placed
    <3> QED  BY <3>1, <3>2
  <2> QED  BY <2>2, <2>3 DEF LobbyListsPresent, Placed
<1>7. ASSUME NEW p \in Conns, ExitsRoom(p)
      PROVE  LobbyListsPresent' /\ Placed'
  <2>1. /\ lobbys' = lobbys /\ conn'[p].room = 0 /\ conn'[p].lobby = conn[p].lobby /\ conn'[p].state = conn[p].state
        /\ \A q \in Conns : q # p => /\ conn'[q].state = conn[q].state /\ conn'[q].lobby = conn[q].lobby
                                     /\ conn'[q].room # 0 => conn[q].room # 0
    BY <1>7 DEF ExitsRoom, Leaving
  <2> QED  BY <1>1, <1>3, <2>1 DEF Placed
<1>8. ASSUME NEW p \in Conns, NEW l \in Lobbies, NEW r \in Rooms, MakesRoom(p, l, r)
      PROVE  LobbyListsPresent' /\ Placed'
  <2>1. /\ lobbys' = lobbys /\ conn[p].lobby = l /\ conn'[p].lobby = l /\ conn'[p].state = conn[p].state
        /\ \A q \in Conns : q # p => conn'[q] = conn[q]
    BY <1>8 DEF MakesRoom, Only
  <2> QED  BY <1>1, <1>3, <2>1, Constants DEF Placed
<1>9. ASSUME NEW p \in Conns, NEW l \in Lobbies, NEW r \in Rooms, FillsRoom(p, l, r)
      PROVE  LobbyListsPresent' /\ Placed'
  <2>1. /\ lobbys' = lobbys /\ conn[p].lobby = l /\ conn'[p].lobby = l /\ conn'[p].state = conn[p].state
        /\ \A q \in Conns : q # p => conn'[q] = conn[q]
    BY <1>9 DEF FillsRoom, Only
  <2> QED  BY <1>1, <1>3, <2>1, Constants DEF Placed
<1>10. ASSUME Quiet
       PROVE  LobbyListsPresent' /\ Placed'
  BY <1>1, <1>3, <1>10 DEF Quiet, Placed
<1> QED  BY <1>4, <1>5, <1>6, <1>7, <1>8, <1>9, <1>10, QuietKinds

(* Whoever prepares a room stays in it untold, and rooms nobody is a       *)
(* member of stay without an owner.                                        *)
LEMMA PreparingStep ==
  ASSUME IInv, TypeOK', Steps
  PROVE  Preparing'
<1>1. TypeOK /\ Preparing /\ Placed /\ RoomsAgree
  BY DEF IInv
<1> DEFINE Own(l, r) == rooms'[l][r].users = <<>> => rooms'[l][r].owner = None
           Untold(q) == client'[q].preparing => conn'[q].room # 0 /\ client'[q].notice = "no"
<1>2. Preparing' <=> (\A q \in Conns : Untold(q)) /\ (\A l \in Lobbies, r \in Rooms : Own(l, r))
  BY DEF Preparing
<1>3. ASSUME NEW q \in Conns, conn'[q] = conn[q], client'[q] = client[q]
      PROVE  Untold(q)
  BY <1>1, <1>3 DEF Preparing
<1>4. ASSUME NEW l \in Lobbies, NEW r \in Rooms, rooms'[l][r] = rooms[l][r]
      PROVE  Own(l, r)
  BY <1>1, <1>4 DEF Preparing
<1>5. ASSUME NEW p \in Conns, LogsIn(p)
      PROVE  Preparing'
  <2>1. Untold(p)
    BY <1>5, FreshFields DEF LogsIn
  <2>2. rooms' = rooms /\ \A q \in Conns : q # p => conn'[q] = conn[q] /\ client'[q] = client[q]
    BY <1>5 DEF LogsIn, Only
  <2> HIDE DEF Own, Untold
  <2> QED  BY <1>2, <1>3, <1>4, <2>1, <2>2
<1>6. ASSUME NEW p \in Conns, NEW l \in Lobbies, EntersLobby(p, l)
      PROVE  Preparing'
  <2>1. Untold(p)
    BY <1>1, <1>6 DEF EntersLobby, Placed, Preparing
  <2>2. rooms' = rooms /\ \A q \in Conns : q # p => conn'[q] = conn[q] /\ client'[q] = client[q]
    BY <1>6 DEF EntersLobby, Only
  <2> HIDE DEF Own, Untold
  <2> QED  BY <1>2, <1>3, <1>4, <2>1, <2>2
<1>7. ASSUME NEW p \in Conns, Leaving(p)
      PROVE  Preparing'
  <2>1. ASSUME NEW q \in Conns
        PROVE  Untold(q)
    <3>1. CASE q = p
      BY <1>7, <3>1 DEF Leaving
    <3>2. CASE q # p
      <4>1. /\ client'[q] = client[q]
            /\ conn'[q].room = IF conn[p].room # 0 /\ q \in Gone(p) THEN 0 ELSE conn[q].room
        BY <1>7, <3>2 DEF Leaving
      <4>2. ASSUME conn[p].room # 0, q \in Gone(p)
            PROVE  ~ client[q].preparing
        <5>1. conn[p].lobby \in Lobbies /\ conn[p].room \in Rooms
          BY <1>1, <1>7, <4>2, Fields DEF Leaving
        <5> QED  BY <1>1, <3>2, <4>2, <5>1 DEF Gone, RoomsAgree
      <4> QED  BY <1>1, <4>1, <4>2 DEF Preparing
    <3> QED  BY <3>1, <3>2
  <2>2. ASSUME NEW k \in Lobbies, NEW s \in Rooms
        PROVE  Own(k, s)
    <3>1. CASE rooms'[k][s] = rooms[k][s]
      BY <1>4, <3>1
    <3>2. CASE rooms'[k][s] # rooms[k][s]
      <4>1. conn[p].room # 0
        BY <1>7, <3>2 DEF Leaving
      <4>2. LeftRoom(p, conn[p].lobby, conn[p].room)
        BY <1>7, <4>1 DEF Leaving
      <4>3. k = conn[p].lobby /\ s = conn[p].room
        BY <3>2, <4>2, Zenon DEF LeftRoom, OneRoom
      <4>4. LeftRoom(p, k, s)
        BY <4>2, <4>3
      <4> HIDE DEF Own
      <4> QED  BY <4>4, SMT DEF LeftRoom, Own
    <3> QED  BY <3>1, <3>2
  <2> QED  BY <1>2, <2>1, <2>2
<1>8. ASSUME NEW p \in Conns, NEW l \in Lobbies, NEW r \in Rooms, MakesRoom(p, l, r)
      PROVE  Preparing'
  <2>1. Untold(p)
    BY <1>8, Constants DEF MakesRoom
  <2>2. Own(l, r)
    BY <1>1, <1>8 DEF MakesRoom, Preparing
  <2>3. /\ \A k \in Lobbies, s \in Rooms : k # l \/ s # r => rooms'[k][s] = rooms[k][s]
        /\ \A q \in Conns : q # p => conn'[q] = conn[q] /\ client'[q] = client[q]
    BY <1>8 DEF MakesRoom, Only, OneRoom
  <2> HIDE DEF Own, Untold
  <2> QED  BY <1>2, <1>3, <1>4, <2>1, <2>2, <2>3
<1>9. ASSUME NEW p \in Conns, NEW l \in Lobbies, NEW r \in Rooms, FillsRoom(p, l, r)
      PROVE  Preparing'
  <2>1. Untold(p)
    BY <1>9 DEF FillsRoom
  <2>2. Own(l, r)
    <3>1. p \in ToSet(rooms'[l][r].users)
      BY <1>9 DEF FillsRoom
    <3>2. rooms'[l][r].users # <<>>
      BY <3>1 DEF ToSet
    <3> QED  BY <3>2
  <2>3. /\ \A k \in Lobbies, s \in Rooms : k # l \/ s # r => rooms'[k][s] = rooms[k][s]
        /\ \A q \in Conns : q # p => conn'[q] = conn[q] /\ client'[q] = client[q]
    BY <1>9 DEF FillsRoom, Only, OneRoom
  <2> HIDE DEF Own, Untold
  <2> QED  BY <1>2, <1>3, <1>4, <2>1, <2>2, <2>3
<1>10. ASSUME rooms' = rooms,
              \A q \in Conns : /\ client'[q].preparing = client[q].preparing
                               /\ conn'[q].room = conn[q].room
                               /\ client[q].preparing /\ client[q].notice = "no" => client'[q].notice = "no"
       PROVE  Preparing'
  BY <1>1, <1>10 DEF Preparing
<1>11. ASSUME NEW p \in Conns, Returns(p) \/ TakesSide(p)
       PROVE  Preparing'
  <2>1. CASE Returns(p)
    BY <1>10, <2>1 DEF Returns, Only
  <2>2. CASE TakesSide(p)
    BY <1>10, <2>2 DEF TakesSide, Only, Noticed
  <2> QED  BY <1>11, <2>1, <2>2
<1>12. ASSUME NEW p \in Conns, NEW F \in SUBSET Conns, NEW whole \in BOOLEAN, Started(p, F, whole)
       PROVE  Preparing'
  BY <1>10, <1>12 DEF Started
<1>13. ASSUME UNCHANGED <<users, lobbys, rooms, made, conn, client, shown>>
       PROVE  Preparing'
  BY <1>10, <1>13
<1>14. ASSUME NEW p \in Conns, NEW l \in Lobbies, NEW side \in Sides \cup {None},
              NEW F \in SUBSET Conns, NEW whole \in BOOLEAN, StartsLobby(p, l, side, F, whole)
       PROVE  Preparing'
  BY <1>12, <1>14 DEF StartsLobby
<1>15. ASSUME NEW p \in Conns, NEW l \in Lobbies, NEW r \in Rooms,
              NEW F \in SUBSET Conns, NEW whole \in BOOLEAN, StartsRoom(p, l, r, F, whole)
       PROVE  Preparing'
  BY <1>12, <1>15 DEF StartsRoom
<1>16. ASSUME NEW p \in Conns, Leaves(p) \/ ExitsRoom(p)
       PROVE  Preparing'
  BY <1>7, <1>16 DEF Leaves, ExitsRoom
<1> QED  BY <1>5, <1>6, <1>8, <1>9, <1>11, <1>13, <1>14, <1>15, <1>16, Zenon DEF Steps

(* Who meets after a battle is in no lobby. *)
LEMMA MeetingStep ==
  ASSUME IInv, TypeOK', Steps
  PROVE  Meeting'
<1>1. TypeOK /\ Meeting
  BY DEF IInv
<1>2. ASSUME NEW p \in Conns, ~ client'[p].meets \/ (conn'[p].lobby = 0 /\ conn'[p].after),
             \A q \in Conns : q # p => /\ conn'[q].lobby = conn[q].lobby /\ conn'[q].after = conn[q].after
                                       /\ client'[q].meets = client[q].meets
      PROVE  Meeting'
  BY <1>1, <1>2 DEF Meeting
<1>3. ASSUME NEW p \in Conns, LogsIn(p)
      PROVE  Meeting'
  BY <1>2, <1>3, FreshFields DEF LogsIn, Only
<1>4. ASSUME NEW p \in Conns, NEW l \in Lobbies, EntersLobby(p, l)
      PROVE  Meeting'
  BY <1>2, <1>4 DEF EntersLobby, Only
<1>5. ASSUME NEW p \in Conns, Leaves(p)
      PROVE  Meeting'
  BY <1>2, <1>5 DEF Leaves, Leaving
<1>6. ASSUME \A q \in Conns : /\ conn'[q].lobby = conn[q].lobby /\ conn'[q].after = conn[q].after
                              /\ client'[q].meets = client[q].meets
      PROVE  Meeting'
  BY <1>1, <1>6 DEF Meeting
<1>7. ASSUME NEW p \in Conns, ExitsRoom(p)
      PROVE  Meeting'
  BY <1>6, <1>7 DEF ExitsRoom, Leaving
<1>8. ASSUME NEW p \in Conns, Returns(p)
      PROVE  Meeting'
  BY <1>2, <1>8 DEF Returns, Only
<1>9. ASSUME NEW p \in Conns, TakesSide(p)
      PROVE  Meeting'
  BY <1>6, <1>9 DEF TakesSide, Only
<1>10. ASSUME NEW p \in Conns, NEW l \in Lobbies, NEW r \in Rooms, MakesRoom(p, l, r) \/ FillsRoom(p, l, r)
       PROVE  Meeting'
  BY <1>6, <1>10 DEF MakesRoom, FillsRoom, Only
<1>11. ASSUME NEW p \in Conns, NEW F \in SUBSET Conns, NEW whole \in BOOLEAN, Started(p, F, whole)
       PROVE  Meeting'
  BY <1>6, <1>11 DEF Started
<1>12. ASSUME UNCHANGED <<users, lobbys, rooms, made, conn, client, shown>>
       PROVE  Meeting'
  BY <1>6, <1>12
<1>13. ASSUME NEW p \in Conns, NEW l \in Lobbies, NEW side \in Sides \cup {None},
              NEW F \in SUBSET Conns, NEW whole \in BOOLEAN, StartsLobby(p, l, side, F, whole)
       PROVE  Meeting'
  BY <1>11, <1>13 DEF StartsLobby
<1>14. ASSUME NEW p \in Conns, NEW l \in Lobbies, NEW r \in Rooms,
              NEW F \in SUBSET Conns, NEW whole \in BOOLEAN, StartsRoom(p, l, r, F, whole)
       PROVE  Meeting'
  BY <1>11, <1>14 DEF StartsRoom
<1> QED  BY <1>3, <1>4, <1>5, <1>7, <1>8, <1>9, <1>10, <1>12, <1>13, <1>14, Zenon DEF Steps

(* What RoomsAgree says of one room: who is in it, and what the rest of    *)
(* its record then is.                                                     *)
InIt(p, l, r) == conn[p].lobby = l /\ conn[p].room = r /\ ~ client[p].preparing

(* What RoomsAgree says of one room by itself. *)
GoodRoom(room) ==
  /\ IsInjective(room.users)
  /\ ToSet(room.users) # {} => /\ room.owner \in {UserOf[p] : p \in ToSet(room.users)}
                               /\ room.status \in {"recruit", "full"}
                               /\ (room.status = "full") = (Len(room.users) = room.max)

(* RoomsAgree, room by room, in this state and in the next. *)
LEMMA EachRoomAgrees ==
  /\ RoomsAgree <=> \A l \in Lobbies, r \in Rooms :
       /\ \A p \in Conns : p \in ToSet(rooms[l][r].users) <=> InIt(p, l, r)
       /\ GoodRoom(rooms[l][r])
  /\ RoomsAgree' <=> \A l \in Lobbies, r \in Rooms :
       /\ \A p \in Conns : p \in ToSet(rooms'[l][r].users) <=> InIt(p, l, r)'
       /\ GoodRoom(rooms'[l][r])
BY DEF RoomsAgree, InIt, GoodRoom

(* The rooms' lists agree with the connections' rooms. *)
LEMMA RoomsAgreeStep ==
  ASSUME IInv, TypeOK', Steps
  PROVE  RoomsAgree'
<1>1. TypeOK /\ RoomsAgree /\ Placed /\ Preparing
  BY DEF IInv
<1>2. \A l \in Lobbies, r \in Rooms :
        /\ \A p \in Conns : p \in ToSet(rooms[l][r].users) <=> InIt(p, l, r)
        /\ GoodRoom(rooms[l][r])
  BY <1>1, EachRoomAgrees
<1>3. ASSUME NEW q \in Conns, conn'[q].lobby = conn[q].lobby, conn'[q].room = conn[q].room,
             client'[q].preparing = client[q].preparing
      PROVE  \A l \in Lobbies, r \in Rooms : InIt(q, l, r)' <=> InIt(q, l, r)
  BY <1>3 DEF InIt
<1>4. ASSUME NEW q \in Conns, conn'[q].room = 0
      PROVE  \A l \in Lobbies, r \in Rooms : ~ InIt(q, l, r)'
  BY <1>4, Constants DEF InIt
<1>5. ASSUME rooms' = rooms, \A q \in Conns, l \in Lobbies, r \in Rooms : InIt(q, l, r)' <=> InIt(q, l, r)
      PROVE  RoomsAgree'
  BY <1>2, <1>5, EachRoomAgrees
<1>6. ASSUME NEW p \in Conns, LogsIn(p)
      PROVE  RoomsAgree'
  <2>1. rooms' = rooms /\ \A q \in Conns : q # p => conn'[q] = conn[q] /\ client'[q] = client[q]
    BY <1>6 DEF LogsIn, Only
  <2>2. conn'[p].room = 0 /\ \A l \in Lobbies, r \in Rooms : ~ InIt(p, l, r)
    BY <1>2, <1>6 DEF LogsIn, Closed
  <2> QED  BY <1>3, <1>4, <1>5, <2>1, <2>2
<1>7. ASSUME NEW p \in Conns, NEW l \in Lobbies, EntersLobby(p, l)
      PROVE  RoomsAgree'
  <2>1. rooms' = rooms /\ \A q \in Conns : q # p => conn'[q] = conn[q] /\ client'[q] = client[q]
    BY <1>7 DEF EntersLobby, Only
  <2>2. conn'[p].room = 0 /\ conn[p].room = 0
    BY <1>1, <1>7 DEF EntersLobby, Placed
  <2>3. \A k \in Lobbies, r \in Rooms : ~ InIt(p, k, r)
    BY <2>2, Constants DEF InIt
  <2> QED  BY <1>3, <1>4, <1>5, <2>1, <2>2, <2>3
<1>8. ASSUME NEW p \in Conns, Leaving(p)
      PROVE  RoomsAgree'
  <2>1. conn'[p].room = 0 /\ \A k \in Lobbies, s \in Rooms : ~ InIt(p, k, s)'
    BY <1>4, <1>8 DEF Leaving
  <2>2. CASE conn[p].room = 0
    <3>1. \A k \in Lobbies, s \in Rooms : ~ InIt(p, k, s)
      BY <2>2, Constants DEF InIt
    <3>2. rooms' = rooms
      BY <1>8, <2>2 DEF Leaving
    <3>3. \A q \in Conns : q # p => /\ conn'[q].lobby = conn[q].lobby /\ conn'[q].room = conn[q].room
                                    /\ client'[q].preparing = client[q].preparing
      BY <1>8, <2>2 DEF Leaving
    <3> QED  BY <1>3, <1>5, <2>1, <3>1, <3>2, <3>3
  <2>3. CASE conn[p].room # 0
    <3>1. PICK l \in Lobbies, r \in Rooms : l = conn[p].lobby /\ r = conn[p].room
      BY <1>1, <1>8, <2>3, Fields DEF Leaving
    <3>2. LeftRoom(p, l, r)
      BY <1>8, <2>3, <3>1 DEF Leaving
    <3>3. Gone(p) = {q \in Conns : q = p \/ (rooms[l][r].owner = UserOf[p] /\ q \in ToSet(rooms[l][r].users))}
      BY <3>1 DEF Gone
    <3>4. \A q \in Conns : q # p =>
            /\ conn'[q].lobby = conn[q].lobby /\ client'[q].preparing = client[q].preparing
            /\ conn'[q].room = IF q \in Gone(p) THEN 0 ELSE conn[q].room
      BY <1>8, <2>3 DEF Leaving
    <3>5. ASSUME NEW q \in Conns, NEW k \in Lobbies, NEW s \in Rooms
          PROVE  InIt(q, k, s)' <=> InIt(q, k, s) /\ q \notin Gone(p)
      <4>1. CASE q \in Gone(p)
        <5>1. conn'[q].room = 0
          BY <2>1, <3>4, <4>1
        <5> QED  BY <1>4, <4>1, <5>1
      <4>2. CASE q \notin Gone(p)
        <5>1. q # p
          BY <3>3, <4>2
        <5> QED  BY <1>3, <3>4, <4>2, <5>1
      <4> QED  BY <4>1, <4>2
    <3>6. ASSUME NEW k \in Lobbies, NEW s \in Rooms, k # l \/ s # r, NEW q \in Gone(p)
          PROVE  ~ InIt(q, k, s)
      <4>1. CASE q = p
        BY <3>1, <3>6, <4>1 DEF InIt
      <4>2. CASE q # p
        <5>1. InIt(q, l, r)
          BY <1>2, <3>3, <4>2
        <5> QED  BY <3>6, <5>1 DEF InIt
      <4> QED  BY <4>1, <4>2
    <3>7. ASSUME NEW k \in Lobbies, NEW s \in Rooms
          PROVE  /\ \A q \in Conns : q \in ToSet(rooms'[k][s].users) <=> InIt(q, k, s)'
                 /\ GoodRoom(rooms'[k][s])
      <4>1. CASE k # l \/ s # r
        <5>1. rooms'[k][s] = rooms[k][s]
          BY <3>2, <4>1 DEF LeftRoom, OneRoom
        <5>2. \A q \in Conns : InIt(q, k, s)' <=> InIt(q, k, s)
          BY <3>5, <3>6, <4>1
        <5> QED  BY <1>2, <5>1, <5>2
      <4>2. CASE k = l /\ s = r
        <5>1. ToSet(rooms'[l][r].users) = ToSet(rooms[l][r].users) \ Gone(p)
          BY <3>2 DEF LeftRoom
        <5>2. \A q \in Conns : q \in ToSet(rooms'[l][r].users) <=> InIt(q, l, r)'
          BY <1>2, <3>5, <5>1
        <5>3. GoodRoom(rooms'[l][r])
          <6>1. IsInjective(rooms'[l][r].users)
            BY <3>2 DEF LeftRoom
          <6>2. ASSUME ToSet(rooms'[l][r].users) # {}
                PROVE  /\ rooms'[l][r].owner \in {UserOf[q] : q \in ToSet(rooms'[l][r].users)}
                       /\ rooms'[l][r].status \in {"recruit", "full"}
                       /\ (rooms'[l][r].status = "full") = (Len(rooms'[l][r].users) = rooms'[l][r].max)
            <7>1. rooms'[l][r].users # <<>>
              BY <6>2 DEF ToSet
            <7>2. /\ rooms'[l][r].owner = rooms[l][r].owner /\ rooms[l][r].owner # UserOf[p]
                  /\ rooms'[l][r].status \in {"recruit", "full"}
                  /\ (rooms'[l][r].status = "full") = (Len(rooms'[l][r].users) = rooms'[l][r].max)
              BY <3>2, <7>1 DEF LeftRoom
            <7>3. ToSet(rooms[l][r].users) # {}
              BY <5>1, <6>2
            <7>4. PICK q \in ToSet(rooms[l][r].users) : UserOf[q] = rooms[l][r].owner
              BY <1>2, <7>3 DEF GoodRoom
            <7>5. q \notin Gone(p)
              BY <3>3, <7>2, <7>4
            <7>6. q \in ToSet(rooms'[l][r].users)
              BY <5>1, <7>4, <7>5
            <7> QED  BY <7>2, <7>4, <7>6
          <6> QED  BY <6>1, <6>2 DEF GoodRoom
        <5> QED  BY <4>2, <5>2, <5>3
      <4> QED  BY <4>1, <4>2
    <3> QED  BY <3>7, EachRoomAgrees
  <2> QED  BY <2>2, <2>3
<1>9. ASSUME NEW p \in Conns, NEW l \in Lobbies, NEW r \in Rooms, MakesRoom(p, l, r)
      PROVE  RoomsAgree'
  <2>1. /\ rooms'[l][r].users = rooms[l][r].users /\ rooms[l][r].status = "empty"
        /\ \A k \in Lobbies, s \in Rooms : k # l \/ s # r => rooms'[k][s] = rooms[k][s]
        /\ \A q \in Conns : q # p => conn'[q] = conn[q] /\ client'[q] = client[q]
        /\ conn[p].room = 0 /\ client'[p].preparing
    BY <1>9 DEF MakesRoom, Only, OneRoom
  <2>2. ToSet(rooms[l][r].users) = {} /\ IsInjective(rooms[l][r].users)
    BY <1>2, <2>1 DEF GoodRoom
  <2>3. \A k \in Lobbies, s \in Rooms : GoodRoom(rooms'[k][s]) /\ ToSet(rooms'[k][s].users) = ToSet(rooms[k][s].users)
    <3>1. GoodRoom(rooms'[l][r])
      BY <2>1, <2>2 DEF GoodRoom
    <3> QED  BY <1>2, <2>1, <3>1
  <2>4. \A k \in Lobbies, s \in Rooms : ~ InIt(p, k, s)' /\ ~ InIt(p, k, s)
    BY <2>1, Constants DEF InIt
  <2>5. \A q \in Conns, k \in Lobbies, s \in Rooms : InIt(q, k, s)' <=> InIt(q, k, s)
    BY <1>3, <2>1, <2>4
  <2> QED  BY <1>2, <2>3, <2>5, EachRoomAgrees
<1>10. ASSUME NEW p \in Conns, NEW l \in Lobbies, NEW r \in Rooms, FillsRoom(p, l, r)
       PROVE  RoomsAgree'
  <2>1. /\ ToSet(rooms'[l][r].users) = ToSet(rooms[l][r].users) \cup {p}
        /\ IsInjective(rooms'[l][r].users)
        /\ rooms'[l][r].status \in {"recruit", "full"}
        /\ (rooms'[l][r].status = "full") = (Len(rooms'[l][r].users) = rooms'[l][r].max)
        /\ rooms'[l][r].owner = IF rooms[l][r].users = <<>> THEN UserOf[p] ELSE rooms[l][r].owner
        /\ \A k \in Lobbies, s \in Rooms : k # l \/ s # r => rooms'[k][s] = rooms[k][s]
        /\ \A q \in Conns : q # p => conn'[q] = conn[q] /\ client'[q] = client[q]
        /\ conn[p].room = 0 \/ client[p].preparing
        /\ ~ client'[p].preparing /\ conn'[p].room = r /\ conn'[p].lobby = l
    BY <1>10 DEF FillsRoom, Only, OneRoom
  <2>2. GoodRoom(rooms'[l][r])
    <3>1. p \in ToSet(rooms'[l][r].users) /\ ToSet(rooms[l][r].users) \subseteq ToSet(rooms'[l][r].users)
      BY <2>1
    <3>2. rooms'[l][r].owner \in {UserOf[q] : q \in ToSet(rooms'[l][r].users)}
      <4>1. CASE rooms[l][r].users = <<>>
        BY <2>1, <3>1, <4>1
      <4>2. CASE rooms[l][r].users # <<>>
        <5>1. ToSet(rooms[l][r].users) # {}
          BY <1>1, <4>2, RoomTyped, NoMembers
        <5>2. PICK q \in ToSet(rooms[l][r].users) : UserOf[q] = rooms[l][r].owner
          BY <1>2, <5>1 DEF GoodRoom
        <5> QED  BY <2>1, <3>1, <4>2, <5>2
      <4> QED  BY <4>1, <4>2
    <3> QED  BY <2>1, <3>2 DEF GoodRoom
  <2>3. \A k \in Lobbies, s \in Rooms : GoodRoom(rooms'[k][s])
    BY <1>2, <2>1, <2>2
  <2>4. /\ \A k \in Lobbies, s \in Rooms : ~ InIt(p, k, s)
        /\ \A k \in Lobbies, s \in Rooms : InIt(p, k, s)' <=> k = l /\ s = r
    BY <2>1, Constants DEF InIt
  <2>5. \A q \in Conns, k \in Lobbies, s \in Rooms : q # p => (InIt(q, k, s)' <=> InIt(q, k, s))
    BY <1>3, <2>1
  <2>6. ASSUME NEW k \in Lobbies, NEW s \in Rooms, NEW q \in Conns
        PROVE  q \in ToSet(rooms'[k][s].users) <=> InIt(q, k, s)'
    <3>1. CASE k = l /\ s = r
      BY <1>2, <2>1, <2>4, <2>5, <3>1
    <3>2. CASE ~ (k = l /\ s = r)
      BY <1>2, <2>1, <2>4, <2>5, <3>2
    <3> QED  BY <3>1, <3>2
  <2> QED  BY <2>3, <2>6, EachRoomAgrees
<1>11. ASSUME Quiet
       PROVE  RoomsAgree'
  BY <1>3, <1>5, <1>11 DEF Quiet
<1>12. ASSUME NEW p \in Conns, Leaves(p) \/ ExitsRoom(p)
       PROVE  RoomsAgree'
  BY <1>8, <1>12 DEF Leaves, ExitsRoom
<1> QED  BY <1>6, <1>7, <1>9, <1>10, <1>11, <1>12, QuietKinds, Zenon

(* A room that is taken keeps somebody in it. *)
Someone(l, r) == \E p \in Conns : conn[p].lobby = l /\ conn[p].room = r

(* A room with members has somebody in it. *)
LEMMA MembersAreThere ==
  ASSUME TypeOK', RoomsAgree', NEW l \in Lobbies, NEW r \in Rooms,
         NEW p \in Conns, p \in ToSet(rooms'[l][r].users)
  PROVE  Someone(l, r)'
BY DEF RoomsAgree, Someone

(* A room that is not empty after a step has somebody in it. *)
LEMMA RoomsNotStrandedStep ==
  ASSUME IInv, TypeOK', RoomsAgree', Steps
  PROVE  RoomsNotStranded'
<1>1. TypeOK /\ RoomsAgree /\ Placed /\ RoomsNotStranded
  BY DEF IInv
<1>2. /\ RoomsNotStranded' <=>
           \A l \in Lobbies, r \in Rooms : rooms'[l][r].status # "empty" => Someone(l, r)'
      /\ \A l \in Lobbies, r \in Rooms : rooms[l][r].status # "empty" => Someone(l, r)
  BY <1>1 DEF RoomsNotStranded, Someone
<1>3. ASSUME NEW l \in Lobbies, NEW r \in Rooms, rooms'[l][r].status # "empty" => rooms[l][r].status # "empty",
             \A q \in Conns : conn[q].lobby = l /\ conn[q].room = r =>
                                conn'[q].lobby = conn[q].lobby /\ conn'[q].room = conn[q].room
      PROVE  rooms'[l][r].status # "empty" => Someone(l, r)'
  BY <1>2, <1>3 DEF Someone
<1>4. ASSUME NEW p \in Conns, LogsIn(p)
      PROVE  RoomsNotStranded'
  <2>1. rooms' = rooms /\ (\A q \in Conns : q # p => conn'[q] = conn[q]) /\ conn[p].lobby = 0
    BY <1>1, <1>4 DEF LogsIn, Only, Placed
  <2> QED  BY <1>2, <1>3, <2>1, Constants
<1>5. ASSUME NEW p \in Conns, NEW l \in Lobbies, EntersLobby(p, l)
      PROVE  RoomsNotStranded'
  <2>1. rooms' = rooms /\ (\A q \in Conns : q # p => conn'[q] = conn[q]) /\ conn[p].lobby = 0
    BY <1>1, <1>5 DEF EntersLobby, Only
  <2> QED  BY <1>2, <1>3, <2>1, Constants
<1>6. ASSUME NEW p \in Conns, Leaving(p)
      PROVE  RoomsNotStranded'
  <2>1. CASE conn[p].room = 0
    <3>1. rooms' = rooms
      BY <1>6, <2>1 DEF Leaving
    <3>2. \A q \in Conns : q # p => conn'[q].lobby = conn[q].lobby /\ conn'[q].room = conn[q].room
      BY <1>6, <2>1 DEF Leaving
    <3> QED  BY <1>2, <1>3, <2>1, <3>1, <3>2, Constants
  <2>2. CASE conn[p].room # 0
    <3>1. PICK l \in Lobbies, r \in Rooms : l = conn[p].lobby /\ r = conn[p].room
      BY <1>1, <1>6, <2>2, Fields DEF Leaving
    <3>2. LeftRoom(p, l, r)
      BY <1>6, <2>2, <3>1 DEF Leaving
    <3>3. rooms'[l][r].status # "empty" => Someone(l, r)'
      <4> SUFFICES ASSUME rooms'[l][r].status # "empty"
                   PROVE  Someone(l, r)'
        OBVIOUS
      <4>1. rooms'[l][r].users # <<>>
        BY <3>2 DEF LeftRoom
      <4>2. rooms'[l][r].users \in Seq(Conns)
        BY RoomTyped, Typed, RoomFields DEF TypeOK, RoomRecs
      <4>3. PICK q \in ToSet(rooms'[l][r].users) : TRUE
        BY <4>1, <4>2, NoMembers
      <4>4. q \in Conns
        BY <4>2, <4>3, ElementOfSeq DEF ToSet
      <4> QED  BY <4>3, <4>4, MembersAreThere
    <3>4. ASSUME NEW k \in Lobbies, NEW s \in Rooms, k # l \/ s # r
          PROVE  rooms'[k][s].status # "empty" => Someone(k, s)'
      <4>1. rooms'[k][s] = rooms[k][s]
        BY <3>2, <3>4 DEF LeftRoom, OneRoom
      <4>2. ASSUME NEW q \in Conns, conn[q].lobby = k, conn[q].room = s
            PROVE  conn'[q].lobby = conn[q].lobby /\ conn'[q].room = conn[q].room
        <5>1. q # p
          BY <3>1, <3>4, <4>2
        <5>2. q \notin Gone(p)
          <6>1. q \in ToSet(rooms[l][r].users) => conn[q].lobby = l /\ conn[q].room = r
            BY <1>1 DEF RoomsAgree
          <6> QED  BY <3>1, <3>4, <4>2, <5>1, <6>1 DEF Gone
        <5> QED  BY <1>6, <2>2, <5>1, <5>2 DEF Leaving
      <4> QED  BY <1>3, <4>1, <4>2
    <3> QED  BY <1>2, <3>3, <3>4
  <2> QED  BY <2>1, <2>2
<1>7. ASSUME NEW p \in Conns, NEW l \in Lobbies, NEW r \in Rooms, MakesRoom(p, l, r) \/ FillsRoom(p, l, r)
      PROVE  RoomsNotStranded'
  <2>1. /\ \A k \in Lobbies, s \in Rooms : k # l \/ s # r => rooms'[k][s] = rooms[k][s]
        /\ \A q \in Conns : q # p => conn'[q] = conn[q]
        /\ conn[p].room = 0 \/ conn[p].room = r
        /\ conn[p].lobby = l /\ conn'[p].lobby = l /\ conn'[p].room = r
    BY <1>7 DEF MakesRoom, FillsRoom, Only, OneRoom
  <2>2. Someone(l, r)'
    BY <2>1 DEF Someone
  <2>3. ASSUME NEW k \in Lobbies, NEW s \in Rooms, k # l \/ s # r
        PROVE  rooms'[k][s].status # "empty" => Someone(k, s)'
    BY <1>3, <2>1, <2>3, Constants
  <2> QED  BY <1>2, <2>2, <2>3
<1>8. ASSUME Quiet
      PROVE  RoomsNotStranded'
  BY <1>2, <1>3, <1>8 DEF Quiet
<1>9. ASSUME NEW p \in Conns, Leaves(p) \/ ExitsRoom(p)
      PROVE  RoomsNotStranded'
  BY <1>6, <1>9 DEF Leaves, ExitsRoom
<1> QED  BY <1>4, <1>5, <1>7, <1>8, <1>9, QuietKinds, Zenon

(* Whoever is in a lobby is shown its rooms as they become. *)
LEMMA RoomsShownStep ==
  ASSUME IInv, TypeOK', Steps
  PROVE  RoomsShown'
<1>1. TypeOK /\ RoomsShown /\ Placed
  BY DEF IInv
<1> DEFINE Right(q) == conn'[q].state = "in" /\ conn'[q].lobby # 0 =>
                         \A k \in Rooms : shown'[q][k] = RoomShown(rooms'[conn'[q].lobby][k])
<1>2. RoomsShown' <=> \A q \in Conns : Right(q)
  BY DEF RoomsShown, RoomShown
<1>3. \A q \in Conns : conn[q].lobby \in Lobbies \cup {0} /\ (conn[q].lobby # 0 => conn[q].state = "in")
  BY <1>1, Fields DEF Placed
<1>4. ASSUME NEW q \in Conns, conn'[q].lobby = conn[q].lobby, rooms' = rooms, shown'[q] = shown[q]
      PROVE  Right(q)
  BY <1>1, <1>3, <1>4 DEF RoomsShown, RoomShown
<1>5. ASSUME NEW q \in Conns, conn'[q].lobby = 0
      PROVE  Right(q)
  BY <1>5
<1>6. ASSUME NEW q \in Conns, conn'[q].lobby = conn[q].lobby, NEW l \in Lobbies, NEW r \in Rooms, OneRoom(l, r),
             \A k \in Rooms : shown'[q][k] = IF conn[q].lobby = l /\ k = r THEN RoomShown(rooms'[l][r]) ELSE shown[q][k]
      PROVE  Right(q)
  <2> SUFFICES ASSUME conn[q].lobby # 0, NEW k \in Rooms
               PROVE  shown'[q][k] = RoomShown(rooms'[conn[q].lobby][k])
    BY <1>6
  <2>1. shown[q][k] = RoomShown(rooms[conn[q].lobby][k]) /\ conn[q].lobby \in Lobbies
    BY <1>1, <1>3 DEF RoomsShown
  <2>2. CASE conn[q].lobby = l /\ k = r
    BY <1>6, <2>2
  <2>3. CASE ~ (conn[q].lobby = l /\ k = r)
    <3>1. rooms'[conn[q].lobby][k] = rooms[conn[q].lobby][k]
      BY <1>6, <2>1, <2>3 DEF OneRoom
    <3> QED  BY <1>6, <2>1, <2>3, <3>1 DEF RoomShown
  <2> QED  BY <2>2, <2>3
<1> HIDE DEF Right
<1>7. ASSUME NEW p \in Conns, LogsIn(p)
      PROVE  RoomsShown'
  <2>1. /\ rooms' = rooms /\ shown' = shown /\ conn'[p].lobby = 0
        /\ \A q \in Conns : q # p => conn'[q] = conn[q]
    BY <1>7 DEF LogsIn, Only, Closed
  <2> QED  BY <1>2, <1>4, <1>5, <2>1
<1>8. ASSUME NEW p \in Conns, NEW l \in Lobbies, EntersLobby(p, l)
      PROVE  RoomsShown'
  <2>1. /\ rooms' = rooms /\ shown'[p] = AskRooms(l) /\ conn'[p].lobby = l
        /\ \A q \in Conns : q # p => conn'[q] = conn[q] /\ shown'[q] = shown[q]
    BY <1>8 DEF EntersLobby, Only
  <2>2. Right(p)
    BY <2>1 DEF Right, AskRooms, RoomShown
  <2> QED  BY <1>2, <1>4, <2>1, <2>2
<1>9. ASSUME NEW p \in Conns, Leaving(p), conn'[p].lobby = 0 \/ conn'[p].lobby = conn[p].lobby
      PROVE  RoomsShown'
  <2>1. ASSUME NEW q \in Conns
        PROVE  Right(q)
    <3>1. CASE conn'[q].lobby = 0
      BY <1>5, <3>1
    <3>2. CASE conn'[q].lobby # 0
      <4>1. conn'[q].lobby = conn[q].lobby /\ (q = p => conn'[p].lobby # 0)
        BY <1>9, <3>2 DEF Leaving
      <4>2. \A k \in Rooms :
              shown'[q][k] = IF conn[p].room # 0 /\ conn[q].lobby = conn[p].lobby /\ k = conn[p].room
                             THEN RoomShown(rooms'[conn[p].lobby][conn[p].room]) ELSE shown[q][k]
        BY <1>9, <4>1, Zenon DEF Leaving
      <4>3. CASE conn[p].room = 0
        <5>1. rooms' = rooms
          BY <1>9, <4>3 DEF Leaving
        <5>2. \A k \in Rooms : shown'[q][k] = shown[q][k]
          BY <4>2, <4>3
        <5> QED  BY <1>1, <1>3, <3>2, <4>1, <5>1, <5>2 DEF RoomsShown, RoomShown, Right
      <4>4. CASE conn[p].room # 0
        <5>1. PICK l \in Lobbies, r \in Rooms : l = conn[p].lobby /\ r = conn[p].room
          BY <1>1, <1>9, <4>4, Fields DEF Leaving
        <5>2. OneRoom(l, r)
          BY <1>9, <4>4, <5>1 DEF Leaving, LeftRoom
        <5>3. \A k \in Rooms :
                shown'[q][k] = IF conn[q].lobby = l /\ k = r THEN RoomShown(rooms'[l][r]) ELSE shown[q][k]
          BY <4>2, <4>4, <5>1
        <5> QED  BY <1>6, <4>1, <5>2, <5>3
      <4> QED  BY <4>3, <4>4
    <3> QED  BY <3>1, <3>2
  <2> QED  BY <1>2, <2>1
<1>10. ASSUME NEW p \in Conns, NEW l \in Lobbies, NEW r \in Rooms, MakesRoom(p, l, r) \/ FillsRoom(p, l, r)
       PROVE  RoomsShown'
  <2>1. /\ OneRoom(l, r) /\ ShownTo(l, r)
        /\ \A q \in Conns : conn'[q].lobby = conn[q].lobby
    BY <1>10 DEF MakesRoom, FillsRoom, Only
  <2>2. \A q \in Conns, k \in Rooms :
          shown'[q][k] = IF conn[q].lobby = l /\ k = r THEN RoomShown(rooms'[l][r]) ELSE shown[q][k]
    BY <2>1 DEF ShownTo
  <2>3. ASSUME NEW q \in Conns
        PROVE  Right(q)
    BY <1>6, <2>1, <2>2
  <2> QED  BY <1>2, <2>3
<1>11. ASSUME Quiet
       PROVE  RoomsShown'
  BY <1>2, <1>4, <1>11 DEF Quiet
<1>12. ASSUME NEW p \in Conns, Leaves(p) \/ ExitsRoom(p)
       PROVE  RoomsShown'
  BY <1>9, <1>12 DEF Leaves, ExitsRoom
<1> QED  BY <1>7, <1>8, <1>10, <1>11, <1>12, QuietKinds, Zenon

(* The entries of a lobby are those of users in it, once each, engaged     *)
(* and in no room.                                                         *)
LEMMA EntriesStep ==
  ASSUME IInv, TypeOK', Steps
  PROVE  EntriesOnce' /\ EntriesEngaged'
<1>1. TypeOK /\ EntriesOnce /\ EntriesEngaged /\ Placed /\ LobbyListsPresent /\ Meeting
  BY DEF IInv
<1>2. ASSUME NEW l \in Lobbies
      PROVE  /\ ToSet(lobbys[l].entries) \subseteq Users /\ IsInjective(lobbys[l].entries)
             /\ \A u \in ToSet(lobbys[l].entries) :
                  /\ lobbys[l].users[u] \in Conns /\ lobbys[l].users[u] # None
                  /\ UserOf[lobbys[l].users[u]] = u /\ conn[lobbys[l].users[u]].lobby = l
                  /\ Engaged(lobbys[l].users[u]) /\ conn[lobbys[l].users[u]].room = 0
  <2>1. ToSet(lobbys[l].entries) \subseteq Users /\ IsInjective(lobbys[l].entries)
    BY <1>1, LobbyTyped DEF EntriesOnce
  <2>2. ASSUME NEW u \in ToSet(lobbys[l].entries)
        PROVE  /\ lobbys[l].users[u] \in Conns /\ lobbys[l].users[u] # None
               /\ UserOf[lobbys[l].users[u]] = u /\ conn[lobbys[l].users[u]].lobby = l
               /\ Engaged(lobbys[l].users[u]) /\ conn[lobbys[l].users[u]].room = 0
    <3>1. u \in Users /\ lobbys[l].users[u] # None /\ lobbys[l].users[u] \in Conns \cup {None}
      BY <1>1, <2>1, LobbyTyped DEF EntriesOnce
    <3>2. UserOf[lobbys[l].users[u]] = u /\ conn[lobbys[l].users[u]].lobby = l
      BY <1>1, <3>1 DEF LobbyListsPresent
    <3>3. Engaged(lobbys[l].users[u]) /\ conn[lobbys[l].users[u]].room = 0
      BY <1>1 DEF EntriesEngaged
    <3> QED  BY <3>1, <3>2, <3>3
  <2> QED  BY <2>1, <2>2
<1>3. \A l \in Lobbies, p \in Conns :
        client[p].entered /\ conn[p].lobby = l => UserOf[p] \in ToSet(lobbys[l].entries)
  BY <1>1 DEF EntriesOnce
<1>4. ASSUME NEW l \in Lobbies, NEW p \in Conns, UserOf[p] \in ToSet(lobbys[l].entries)
      PROVE  conn[p].lobby = l /\ Engaged(p) /\ conn[p].room = 0 /\ lobbys[l].users[UserOf[p]] = p
  BY <1>2, <1>4, OneConnectionEach
<1> DEFINE Listing(l) ==
             /\ IsInjective(lobbys'[l].entries)
             /\ \A p \in Conns : client'[p].entered /\ conn'[p].lobby = l
                                   => UserOf[p] \in ToSet(lobbys'[l].entries)
             /\ \A u \in ToSet(lobbys'[l].entries) :
                  /\ lobbys'[l].users[u] # None
                  /\ client'[lobbys'[l].users[u]].entered \/ client'[lobbys'[l].users[u]].notice # "no"
                  /\ conn'[lobbys'[l].users[u]].room = 0
<1>5. ASSUME \A l \in Lobbies : Listing(l)
      PROVE  EntriesOnce' /\ EntriesEngaged'
  BY <1>5 DEF EntriesOnce, EntriesEngaged, Engaged
\* nothing changes in the lists, and nobody in them changes what matters
<1>6. ASSUME NEW l \in Lobbies, lobbys'[l].entries = lobbys[l].entries,
             \A u \in ToSet(lobbys[l].entries) : lobbys'[l].users[u] = lobbys[l].users[u],
             \A p \in Conns :
               /\ client'[p].entered /\ conn'[p].lobby = l => client[p].entered /\ conn[p].lobby = l
               /\ UserOf[p] \in ToSet(lobbys[l].entries) =>
                    /\ Engaged(p) => client'[p].entered \/ client'[p].notice # "no"
                    /\ conn'[p].room = 0
      PROVE  Listing(l)
  <2>1. \A p \in Conns : client'[p].entered /\ conn'[p].lobby = l => UserOf[p] \in ToSet(lobbys'[l].entries)
    BY <1>3, <1>6
  <2>2. ASSUME NEW u \in ToSet(lobbys'[l].entries)
        PROVE  /\ lobbys'[l].users[u] # None
               /\ client'[lobbys'[l].users[u]].entered \/ client'[lobbys'[l].users[u]].notice # "no"
               /\ conn'[lobbys'[l].users[u]].room = 0
    <3>1. PICK p \in Conns : p = lobbys[l].users[u] /\ p # None /\ UserOf[p] = u /\ Engaged(p)
      BY <1>2, <1>6
    <3>2. lobbys'[l].users[u] = p /\ u \in ToSet(lobbys[l].entries)
      BY <1>6, <3>1
    <3> QED  BY <1>6, <3>1, <3>2
  <2> QED  BY <1>2, <1>6, <2>1, <2>2
<1> HIDE DEF Listing
<1>7. ASSUME NEW p \in Conns, LogsIn(p)
      PROVE  \A l \in Lobbies : Listing(l)
  <2>1. /\ lobbys' = lobbys /\ ~ client'[p].entered
        /\ (\A q \in Conns : q # p => conn'[q] = conn[q] /\ client'[q] = client[q])
        /\ conn[p].lobby = 0
    BY <1>1, <1>7, FreshFields DEF LogsIn, Only, Placed
  <2>2. \A l \in Lobbies : UserOf[p] \notin ToSet(lobbys[l].entries)
    BY <1>4, <2>1, Constants
  <2> QED  BY <1>4, <1>6, <2>1, <2>2 DEF Engaged
<1>8. ASSUME NEW p \in Conns, NEW k \in Lobbies, EntersLobby(p, k)
      PROVE  \A l \in Lobbies : Listing(l)
  <2>1. /\ ~ client'[p].entered /\ conn[p].lobby = 0
        /\ (\A q \in Conns : q # p => conn'[q] = conn[q] /\ client'[q] = client[q])
        /\ \A l \in Lobbies : lobbys'[l].entries = lobbys[l].entries
        /\ \A l \in Lobbies, u \in Users :
             lobbys'[l].users[u] = IF l = k /\ u = UserOf[p] THEN p ELSE lobbys[l].users[u]
    BY <1>8 DEF EntersLobby, Only
  <2>2. \A l \in Lobbies : UserOf[p] \notin ToSet(lobbys[l].entries)
    BY <1>4, <2>1, Constants
  <2>3. \A l \in Lobbies : \A u \in ToSet(lobbys[l].entries) : lobbys'[l].users[u] = lobbys[l].users[u]
    BY <1>2, <2>1, <2>2
  <2> QED  BY <1>4, <1>6, <2>1, <2>2, <2>3 DEF Engaged
<1>9. ASSUME NEW p \in Conns, Leaves(p)
      PROVE  \A l \in Lobbies : Listing(l)
  <2>1. /\ ~ client'[p].entered
        /\ \A q \in Conns : q # p => /\ conn'[q].lobby = conn[q].lobby /\ client'[q] = client[q]
                                     /\ conn[q].room = 0 => conn'[q].room = 0
        /\ \A l \in Lobbies, u \in Users :
             lobbys'[l].users[u] = IF l = conn[p].lobby /\ u = UserOf[p] THEN None ELSE lobbys[l].users[u]
        /\ \A l \in Lobbies : /\ IsInjective(lobbys'[l].entries)
                              /\ l # conn[p].lobby => lobbys'[l].entries = lobbys[l].entries
                              /\ l = conn[p].lobby => ToSet(lobbys'[l].entries) = ToSet(lobbys[l].entries) \ {UserOf[p]}
    BY <1>9 DEF Leaves, Leaving, LeftLobby
  <2>2. ASSUME NEW l \in Lobbies, l # conn[p].lobby
        PROVE  Listing(l)
    <3>1. UserOf[p] \notin ToSet(lobbys[l].entries)
      BY <1>4, <2>2
    <3>2. \A u \in ToSet(lobbys[l].entries) : lobbys'[l].users[u] = lobbys[l].users[u]
      BY <1>2, <2>1, <2>2
    <3> QED  BY <1>4, <1>6, <2>1, <2>2, <3>1, <3>2 DEF Engaged
  <2>3. ASSUME NEW l \in Lobbies, l = conn[p].lobby
        PROVE  Listing(l)
    <3>1. ToSet(lobbys'[l].entries) = ToSet(lobbys[l].entries) \ {UserOf[p]} /\ IsInjective(lobbys'[l].entries)
      BY <2>1, <2>3
    <3>2. \A q \in Conns : client'[q].entered /\ conn'[q].lobby = l => UserOf[q] \in ToSet(lobbys'[l].entries)
      BY <1>3, <2>1, <3>1, OneConnectionEach
    <3>3. ASSUME NEW u \in ToSet(lobbys'[l].entries)
          PROVE  /\ lobbys'[l].users[u] # None
                 /\ client'[lobbys'[l].users[u]].entered \/ client'[lobbys'[l].users[u]].notice # "no"
                 /\ conn'[lobbys'[l].users[u]].room = 0
      <4>1. u \in ToSet(lobbys[l].entries) /\ u # UserOf[p] /\ u \in Users
        BY <1>2, <3>1
      <4>2. PICK q \in Conns : q = lobbys[l].users[u] /\ q # None /\ UserOf[q] = u /\ Engaged(q) /\ conn[q].room = 0
        BY <1>2, <4>1
      <4>3. q # p /\ lobbys'[l].users[u] = q
        BY <2>1, <4>1, <4>2
      <4> QED  BY <2>1, <4>2, <4>3 DEF Engaged
    <3> QED  BY <3>1, <3>2, <3>3 DEF Listing
  <2> QED  BY <2>2, <2>3
<1>10. ASSUME NEW p \in Conns, ExitsRoom(p)
       PROVE  \A l \in Lobbies : Listing(l)
  <2>1. /\ lobbys' = lobbys /\ client'[p].entered = client[p].entered /\ conn'[p].lobby = conn[p].lobby
        /\ client'[p].notice = "no" <=> client[p].notice = "no"
        /\ conn'[p].room = 0
        /\ \A q \in Conns : q # p => /\ conn'[q].lobby = conn[q].lobby /\ client'[q] = client[q]
                                     /\ conn[q].room = 0 => conn'[q].room = 0
    BY <1>10 DEF ExitsRoom, Leaving, Noticed
  <2> QED  BY <1>4, <1>6, <2>1 DEF Engaged
<1>11. ASSUME NEW p \in Conns, NEW k \in Lobbies, NEW r \in Rooms, MakesRoom(p, k, r) \/ FillsRoom(p, k, r)
       PROVE  \A l \in Lobbies : Listing(l)
  <2>1. /\ lobbys' = lobbys /\ conn'[p].lobby = conn[p].lobby
        /\ \A q \in Conns : q # p => conn'[q] = conn[q] /\ client'[q] = client[q]
        /\ client'[p].entered => client[p].entered
        /\ conn[p].room = 0 => ~ Engaged(p)
    <3>1. CASE MakesRoom(p, k, r)
      BY <3>1 DEF MakesRoom, Only
    <3>2. CASE FillsRoom(p, k, r)
      BY <3>2 DEF FillsRoom, Only, Engaged
    <3> QED  BY <1>11, <3>1, <3>2
  <2>2. \A l \in Lobbies : UserOf[p] \notin ToSet(lobbys[l].entries)
    BY <1>4, <2>1
  <2> QED  BY <1>4, <1>6, <2>1, <2>2 DEF Engaged
<1>12. ASSUME lobbys' = lobbys,
              \A q \in Conns : /\ conn'[q].lobby = conn[q].lobby /\ conn'[q].room = conn[q].room
                               /\ client'[q].entered = client[q].entered
                               /\ client[q].notice # "no" => client'[q].notice # "no"
       PROVE  \A l \in Lobbies : Listing(l)
  BY <1>4, <1>6, <1>12 DEF Engaged
<1>13. ASSUME NEW p \in Conns, Returns(p) \/ TakesSide(p)
       PROVE  \A l \in Lobbies : Listing(l)
  <2>1. CASE Returns(p)
    BY <1>12, <2>1 DEF Returns, Only
  <2>2. CASE TakesSide(p)
    BY <1>12, <2>2 DEF TakesSide, Only, Noticed
  <2> QED  BY <1>13, <2>1, <2>2
<1>14. ASSUME UNCHANGED <<users, lobbys, rooms, made, conn, client, shown>>
       PROVE  \A l \in Lobbies : Listing(l)
  BY <1>12, <1>14
<1>15. ASSUME NEW p \in Conns, NEW l \in Lobbies, NEW r \in Rooms,
              NEW F \in SUBSET Conns, NEW whole \in BOOLEAN, StartsRoom(p, l, r, F, whole)
       PROVE  \A k \in Lobbies : Listing(k)
  BY <1>12, <1>15 DEF StartsRoom, Started
<1>16. ASSUME NEW p \in Conns, NEW k \in Lobbies, NEW side \in Sides \cup {None},
              NEW F \in SUBSET Conns, NEW whole \in BOOLEAN, StartsLobby(p, k, side, F, whole)
       PROVE  \A l \in Lobbies : Listing(l)
  <2>1. /\ \A q \in Conns : /\ conn'[q].lobby = conn[q].lobby /\ conn'[q].room = conn[q].room
                            /\ client'[q].entered = IF q = p THEN side # None ELSE client[q].entered
                            /\ client[q].notice # "no" => client'[q].notice # "no"
        /\ conn[p].lobby = k /\ conn[p].room = 0
        /\ \A l \in Lobbies : /\ lobbys'[l].users = lobbys[l].users /\ IsInjective(lobbys'[l].entries)
                              /\ l # k => lobbys'[l].entries = lobbys[l].entries
        /\ ToSet(lobbys'[k].entries) = IF side = None THEN ToSet(lobbys[k].entries) \ {UserOf[p]}
                                       ELSE ToSet(lobbys[k].entries) \cup {UserOf[p]}
    BY <1>16 DEF StartsLobby, Started
  <2>2. ASSUME NEW l \in Lobbies, l # k
        PROVE  Listing(l)
    <3>1. UserOf[p] \notin ToSet(lobbys[l].entries)
      BY <1>4, <2>1, <2>2
    <3> QED  BY <1>4, <1>6, <2>1, <2>2, <3>1 DEF Engaged
  <2>3. \A q \in Conns : client'[q].entered /\ conn'[q].lobby = k => UserOf[q] \in ToSet(lobbys'[k].entries)
    BY <1>3, <2>1, OneConnectionEach
  <2>4. ASSUME NEW u \in ToSet(lobbys'[k].entries)
        PROVE  /\ lobbys'[k].users[u] # None
               /\ client'[lobbys'[k].users[u]].entered \/ client'[lobbys'[k].users[u]].notice # "no"
               /\ conn'[lobbys'[k].users[u]].room = 0
    <3>1. CASE u = UserOf[p]
      <4>1. side # None /\ client'[p].entered
        BY <2>1, <2>4, <3>1
      <4>2. lobbys[k].users[u] = p /\ p # None
        BY <1>1, <2>1, <3>1, Constants DEF Placed
      <4> QED  BY <2>1, <4>1, <4>2
    <3>2. CASE u # UserOf[p]
      <4>1. u \in ToSet(lobbys[k].entries)
        BY <2>1, <2>4, <3>2
      <4>2. PICK q \in Conns : q = lobbys[k].users[u] /\ q # None /\ UserOf[q] = u /\ Engaged(q) /\ conn[q].room = 0
        BY <1>2, <4>1
      <4>3. q # p /\ lobbys'[k].users[u] = q
        BY <2>1, <3>2, <4>2
      <4> QED  BY <2>1, <4>2, <4>3 DEF Engaged
    <3> QED  BY <3>1, <3>2
  <2>5. Listing(k)
    BY <2>1, <2>3, <2>4 DEF Listing
  <2> QED  BY <2>2, <2>5
<1>17. \A l \in Lobbies : Listing(l)
  BY <1>7, <1>8, <1>9, <1>10, <1>11, <1>13, <1>14, <1>15, <1>16, Zenon DEF Steps
<1> QED  BY <1>5, <1>17

(* What a new battle leaves of the ones before, and what it is.            *)
LEMMA BattlesGrow ==
  ASSUME made \in Seq(BattleRecs), NEW F, NEW whole \in BOOLEAN, NewBattle(F, whole),
         F # {} => Len(made') = Len(made) + 1
  PROVE  /\ made' \in Seq(BattleRecs) /\ Len(made) \in Nat
         /\ \A i \in 1 .. Len(made) : made'[i] = made[i]
         /\ \A i \in DOMAIN made' : (i \in DOMAIN made /\ made'[i] = made[i]) \/ Fair(made'[i])
         /\ \A q \in F : /\ made'[Len(made) + 1].whole = whole
                         /\ UserOf[q] \in ToSet(made'[Len(made) + 1].users)
<1>1. Len(made) \in Nat /\ DOMAIN made = 1 .. Len(made)
  BY LenProperties
<1>2. CASE F = {} /\ made' = made
  BY <1>1, <1>2
<1>3. CASE F # {}
  <2>1. PICK b \in BattleRecs : /\ made' = Append(made, b) /\ b.whole = whole /\ Fair(b)
                                /\ \A q \in F : UserOf[q] \in ToSet(b.users)
    BY <1>3 DEF NewBattle
  <2>2. /\ made' \in Seq(BattleRecs) /\ Len(made') = Len(made) + 1
        /\ \A i \in 1 .. Len(made) : made'[i] = made[i]
        /\ made'[Len(made) + 1] = b
    BY <2>1, AppendProperties
  <2>3. DOMAIN made' = 1 .. Len(made) + 1
    BY <2>2, LenProperties
  <2>4. \A i \in DOMAIN made' : i \in 1 .. Len(made) \/ i = Len(made) + 1
    BY <1>1, <2>3
  <2>5. \A i \in DOMAIN made' : (i \in DOMAIN made /\ made'[i] = made[i]) \/ Fair(made'[i])
    BY <1>1, <2>1, <2>2, <2>4
  <2> QED  BY <1>1, <2>1, <2>2, <2>5
<1> QED  BY <1>2, <1>3 DEF NewBattle

(* Every step makes a battle for some F, or for nobody. *)
LEMMA BattleOfStep ==
  ASSUME IInv, TypeOK', Steps
  PROVE  \E F \in SUBSET Conns, whole \in BOOLEAN :
           /\ NewBattle(F, whole) /\ (F # {} => Len(made') = Len(made) + 1)
           /\ \/ \E p \in Conns : Started(p, F, whole)
              \/ F = {} /\ made' = made
<1>1. ASSUME made' = made
      PROVE  \E F \in SUBSET Conns, whole \in BOOLEAN :
               /\ NewBattle(F, whole) /\ (F # {} => Len(made') = Len(made) + 1)
               /\ \/ \E p \in Conns : Started(p, F, whole)
                  \/ F = {} /\ made' = made
  <2>1. NewBattle({}, TRUE)
    BY <1>1 DEF NewBattle
  <2>2. {} \in SUBSET Conns /\ TRUE \in BOOLEAN
    OBVIOUS
  <2> QED  BY <1>1, <2>1, <2>2
<1>2. ASSUME NEW p \in Conns, NEW F \in SUBSET Conns, NEW whole \in BOOLEAN, Started(p, F, whole)
      PROVE  NewBattle(F, whole) /\ (F # {} => Len(made') = Len(made) + 1)
  BY <1>2 DEF Started
<1> DEFINE Starts == \E p \in Conns, F \in SUBSET Conns, whole \in BOOLEAN : Started(p, F, whole)
<1>3. made' = made \/ Starts
  <2>1. ASSUME NEW p \in Conns, LogsIn(p) \/ Leaves(p) \/ ExitsRoom(p) \/ Returns(p) \/ TakesSide(p)
        PROVE  made' = made
    BY <2>1 DEF LogsIn, Leaves, ExitsRoom, Returns, TakesSide
  <2>2. ASSUME NEW p \in Conns, NEW l \in Lobbies, EntersLobby(p, l)
        PROVE  made' = made
    BY <2>2 DEF EntersLobby
  <2>3. ASSUME NEW p \in Conns, NEW l \in Lobbies, NEW r \in Rooms, MakesRoom(p, l, r) \/ FillsRoom(p, l, r)
        PROVE  made' = made
    BY <2>3 DEF MakesRoom, FillsRoom
  <2>4. ASSUME NEW p \in Conns, NEW l \in Lobbies, NEW side \in Sides \cup {None},
               NEW F \in SUBSET Conns, NEW whole \in BOOLEAN, StartsLobby(p, l, side, F, whole)
        PROVE  Starts
    BY <2>4 DEF StartsLobby
  <2>5. ASSUME NEW p \in Conns, NEW l \in Lobbies, NEW r \in Rooms,
               NEW F \in SUBSET Conns, NEW whole \in BOOLEAN, StartsRoom(p, l, r, F, whole)
        PROVE  Starts
    BY <2>5 DEF StartsRoom
  <2>6. ASSUME UNCHANGED <<users, lobbys, rooms, made, conn, client, shown>>
        PROVE  made' = made
    BY <2>6
  <2> HIDE DEF Starts
  <2> QED  BY <2>1, <2>2, <2>3, <2>4, <2>5, <2>6, Zenon DEF Steps
<1> QED  BY <1>1, <1>2, <1>3

(* All battles stay fair. *)
LEMMA FairBattlesStep ==
  ASSUME IInv, TypeOK', Steps
  PROVE  FairBattles'
<1>1. made \in Seq(BattleRecs) /\ \A b \in DOMAIN made : Fair(made[b])
  BY FairEach DEF IInv, InBattle
<1>2. PICK F \in SUBSET Conns, whole \in BOOLEAN : NewBattle(F, whole) /\ (F # {} => Len(made') = Len(made) + 1)
  BY BattleOfStep
<1>3. \A i \in DOMAIN made' : (i \in DOMAIN made /\ made'[i] = made[i]) \/ Fair(made'[i])
  BY <1>1, <1>2, BattlesGrow
<1>4. \A i \in DOMAIN made' : Fair(made'[i])
  BY <1>1, <1>3
<1>5. FairBattles' <=> \A b \in DOMAIN made' : Fair(made'[b])
  BY DEF FairBattles, Fair
<1> QED  BY <1>4, <1>5

(* Whoever is in a battle, or goes to one, is a user of it. *)
LEMMA InBattleStep ==
  ASSUME IInv, TypeOK', Steps
  PROVE  InBattle'
<1>1. TypeOK /\ InBattle /\ made \in Seq(BattleRecs)
  BY DEF IInv, InBattle
<1>2. /\ \A q \in Conns : conn[q].battle \in 0 .. Len(made)
      /\ \A u \in Users : battles[u] \in 0 .. Len(made)
      /\ Len(made) \in Nat
  BY <1>1, Fields, Typed, LenProperties
<1>3. PICK F \in SUBSET Conns, whole \in BOOLEAN :
           /\ NewBattle(F, whole) /\ (F # {} => Len(made') = Len(made) + 1)
           /\ \/ \E p \in Conns : Started(p, F, whole)
              \/ F = {} /\ made' = made
  BY BattleOfStep
<1>4. /\ made' \in Seq(BattleRecs)
      /\ \A i \in 1 .. Len(made) : made'[i] = made[i]
      /\ \A q \in F : UserOf[q] \in ToSet(made'[Len(made) + 1].users)
  BY <1>1, <1>3, BattlesGrow
<1> DEFINE In(u, b) == b # 0 => u \in ToSet(made'[b].users)
<1>5. /\ \A q \in Conns : In(UserOf[q], conn[q].battle)
      /\ \A u \in Users : In(u, battles[u])
      /\ \A u \in Users : In(u, 0)
  <2>1. \A i \in 0 .. Len(made) : i # 0 => i \in 1 .. Len(made)
    BY <1>2
  <2> QED  BY <1>1, <1>2, <1>4, <2>1 DEF InBattle
<1>6. ASSUME \A q \in Conns : In(UserOf[q], conn'[q].battle), \A u \in Users : In(u, battles'[u])
      PROVE  InBattle'
  BY <1>4, <1>6 DEF InBattle
<1> HIDE DEF In
<1>7. CASE \E p \in Conns : Started(p, F, whole)
  <2>1. /\ battles' = battles
        /\ \A q \in Conns : conn'[q].battle = IF q \in F THEN Len(made) + 1 ELSE conn[q].battle
    BY <1>7 DEF Started
  <2>2. \A q \in F : In(UserOf[q], Len(made) + 1)
    BY <1>4 DEF In
  <2> QED  BY <1>5, <1>6, <2>1, <2>2
\* other steps leave one with the battle one had, goes to, or with none
<1>8. ASSUME \A q \in Conns : conn'[q].battle \in {0, conn[q].battle, battles[UserOf[q]]},
             \A u \in Users : \/ battles'[u] = 0 \/ battles'[u] = battles[u]
                              \/ \E q \in Conns : u = UserOf[q] /\ battles'[u] = conn[q].battle
      PROVE  InBattle'
  BY <1>5, <1>6, <1>8, Constants
<1>9. ASSUME NEW p \in Conns, LogsIn(p)
      PROVE  InBattle'
  <2>1. battles' = battles /\ conn'[p].battle = 0 /\ \A q \in Conns : q # p => conn'[q] = conn[q]
    BY <1>9 DEF LogsIn, Only, Closed
  <2> QED  BY <1>8, <2>1
<1>10. ASSUME NEW p \in Conns, Leaves(p)
       PROVE  InBattle'
  <2>1. /\ conn'[p].battle \in {0, conn[p].battle}
        /\ \A q \in Conns : q # p => conn'[q].battle = conn[q].battle
        /\ \A u \in Users : battles'[u] = battles[u] \/ (u = UserOf[p] /\ battles'[u] = conn[p].battle)
    BY <1>10 DEF Leaves, Leaving
  <2> QED  BY <1>8, <2>1
<1>11. ASSUME NEW p \in Conns, Returns(p), \A u \in Users : battles'[u] = 0 \/ battles'[u] = battles[u]
       PROVE  InBattle'
  <2>1. conn'[p].battle \in {0, battles[UserOf[p]]} /\ \A q \in Conns : q # p => conn'[q].battle = conn[q].battle
    BY <1>11 DEF Returns, Only
  <2> QED  BY <1>8, <1>11, <2>1
<1>12. ASSUME \A q \in Conns : conn'[q].battle = conn[q].battle,
              \A u \in Users : battles'[u] = 0 \/ battles'[u] = battles[u]
       PROVE  InBattle'
  BY <1>8, <1>12
<1>13. ASSUME NEW p \in Conns, ExitsRoom(p)
       PROVE  InBattle'
  <2>1. battles' = battles /\ \A q \in Conns : conn'[q].battle = conn[q].battle
    BY <1>13 DEF ExitsRoom, Leaving
  <2> QED  BY <1>12, <2>1
<1>14. ASSUME NEW p \in Conns, TakesSide(p)
       PROVE  InBattle'
  <2>1. battles' = battles /\ \A q \in Conns : conn'[q].battle = conn[q].battle
    BY <1>14 DEF TakesSide, Only
  <2> QED  BY <1>12, <2>1
<1>15. ASSUME NEW p \in Conns, NEW l \in Lobbies, EntersLobby(p, l)
       PROVE  InBattle'
  <2>1. battles' = battles /\ \A q \in Conns : conn'[q].battle = conn[q].battle
    BY <1>15 DEF EntersLobby, Only
  <2> QED  BY <1>12, <2>1
<1>16. ASSUME NEW p \in Conns, NEW l \in Lobbies, NEW r \in Rooms, MakesRoom(p, l, r) \/ FillsRoom(p, l, r)
       PROVE  InBattle'
  <2>1. battles' = battles /\ \A q \in Conns : conn'[q].battle = conn[q].battle
    BY <1>16 DEF MakesRoom, FillsRoom, Only
  <2> QED  BY <1>12, <2>1
<1>17. ASSUME UNCHANGED <<users, lobbys, rooms, made, conn, client, shown>>,
              \A u \in Users : battles'[u] = 0 \/ battles'[u] = battles[u]
       PROVE  InBattle'
  BY <1>12, <1>17
<1>18. ASSUME NEW p \in Conns, NEW l \in Lobbies, NEW side \in Sides \cup {None},
              NEW G \in SUBSET Conns, NEW all \in BOOLEAN, StartsLobby(p, l, side, G, all)
       PROVE  InBattle'
  <2>1. CASE \E o \in Conns : Started(o, F, whole)
    BY <1>7, <2>1
  <2>2. CASE F = {} /\ made' = made
    <3>1. G = {}
      BY <1>2, <1>18, <2>2 DEF StartsLobby, Started
    <3>2. battles' = battles /\ \A q \in Conns : conn'[q].battle = conn[q].battle
      BY <1>18, <3>1 DEF StartsLobby, Started
    <3> QED  BY <1>12, <3>2
  <2> QED  BY <1>3, <2>1, <2>2
<1>19. ASSUME NEW p \in Conns, NEW l \in Lobbies, NEW r \in Rooms,
              NEW G \in SUBSET Conns, NEW all \in BOOLEAN, StartsRoom(p, l, r, G, all)
       PROVE  InBattle'
  <2>1. CASE \E o \in Conns : Started(o, F, whole)
    BY <1>7, <2>1
  <2>2. CASE F = {} /\ made' = made
    <3>1. G = {}
      BY <1>2, <1>19, <2>2 DEF StartsRoom, Started
    <3>2. battles' = battles /\ \A q \in Conns : conn'[q].battle = conn[q].battle
      BY <1>19, <3>1 DEF StartsRoom, Started
    <3> QED  BY <1>12, <3>2
  <2> QED  BY <1>3, <2>1, <2>2
<1> QED  BY <1>9, <1>10, <1>11, <1>13, <1>14, <1>15, <1>16, <1>17, <1>18, <1>19, Zenon DEF Steps

(* Whoever was told of a battle keeps it.                                  *)
LEMMA SameBattleStep ==
  ASSUME IInv, TypeOK', Steps
  PROVE  SameBattle'
<1>1. TypeOK /\ SameBattle /\ Placed /\ NotPickedAgain /\ Meeting /\ made \in Seq(BattleRecs)
  BY DEF IInv, InBattle
<1>2. Len(made) \in Nat /\ \A q \in Conns : conn[q].battle \in 0 .. Len(made)
  BY <1>1, Fields, LenProperties
<1> DEFINE Same(q) == conn'[q].state = "in" /\ client'[q].notice # "no" =>
                        /\ conn'[q].battle # 0
                        /\ made'[conn'[q].battle].whole
                        /\ UserOf[q] \in ToSet(made'[conn'[q].battle].users)
<1>3. SameBattle' <=> \A q \in Conns : Same(q)
  BY DEF SameBattle
<1>4. ASSUME NEW q \in Conns, \A i \in 1 .. Len(made) : made'[i] = made[i],
             client'[q].notice # "no" => conn[q].state = "in" /\ client[q].notice # "no",
             client'[q].notice # "no" => conn'[q].battle = conn[q].battle
      PROVE  Same(q)
  <2>1. ASSUME client'[q].notice # "no"
        PROVE  Same(q)
    <3>1. /\ conn[q].battle # 0 /\ made[conn[q].battle].whole
          /\ UserOf[q] \in ToSet(made[conn[q].battle].users)
      BY <1>1, <1>4, <2>1 DEF SameBattle
    <3>2. made'[conn[q].battle] = made[conn[q].battle] /\ conn'[q].battle = conn[q].battle
      BY <1>2, <1>4, <2>1, <3>1
    <3> QED  BY <3>1, <3>2
  <2> QED  BY <2>1
<1>5. ASSUME NEW q \in Conns, made' = made, conn'[q].state = conn[q].state,
             conn'[q].battle = conn[q].battle, client'[q].notice = "no" <=> client[q].notice = "no"
      PROVE  Same(q)
  BY <1>1, <1>5 DEF SameBattle
<1>6. ASSUME NEW q \in Conns, client'[q].notice = "no"
      PROVE  Same(q)
  BY <1>6
<1> HIDE DEF Same
<1>7. ASSUME NEW p \in Conns, LogsIn(p)
      PROVE  SameBattle'
  <2>1. made' = made /\ client'[p].notice = "no"
        /\ \A q \in Conns : q # p => conn'[q] = conn[q] /\ client'[q] = client[q]
    BY <1>7, FreshFields DEF LogsIn, Only
  <2> QED  BY <1>3, <1>5, <1>6, <2>1
<1>8. ASSUME NEW p \in Conns, Leaves(p)
      PROVE  SameBattle'
  <2>1. made' = made
        /\ \A q \in Conns : q # p => /\ conn'[q].state = conn[q].state /\ client'[q] = client[q]
                                     /\ conn'[q].battle = conn[q].battle
    BY <1>8 DEF Leaves, Leaving
  <2>2. \/ client'[p].notice = "no"
        \/ Noticed(p) /\ conn'[p].battle = conn[p].battle /\ conn[p].state = "in"
    BY <1>8 DEF Leaves
  <2>3. Same(p)
    BY <1>4, <1>6, <2>1, <2>2 DEF Noticed
  <2> QED  BY <1>3, <1>5, <2>1, <2>3
<1>9. ASSUME made' = made,
             \A q \in Conns : /\ conn'[q].state = conn[q].state /\ conn'[q].battle = conn[q].battle
                              /\ client'[q].notice = "no" <=> client[q].notice = "no"
      PROVE  SameBattle'
  BY <1>3, <1>5, <1>9
<1>10. ASSUME NEW p \in Conns, ExitsRoom(p)
       PROVE  SameBattle'
  BY <1>9, <1>10 DEF ExitsRoom, Leaving, Noticed
<1>11. ASSUME NEW p \in Conns, NEW l \in Lobbies, EntersLobby(p, l)
       PROVE  SameBattle'
  BY <1>9, <1>11 DEF EntersLobby, Only, Noticed
<1>12. ASSUME NEW p \in Conns, TakesSide(p)
       PROVE  SameBattle'
  BY <1>9, <1>12 DEF TakesSide, Only, Noticed
<1>13. ASSUME NEW p \in Conns, NEW l \in Lobbies, NEW r \in Rooms, MakesRoom(p, l, r) \/ FillsRoom(p, l, r)
       PROVE  SameBattle'
  <2>1. made' = made /\ conn'[p].battle = conn[p].battle /\ client'[p].notice = "no"
        /\ \A q \in Conns : q # p => conn'[q] = conn[q] /\ client'[q] = client[q]
    BY <1>13 DEF MakesRoom, FillsRoom, Only
  <2> QED  BY <1>3, <1>5, <1>6, <2>1
\* a client back from a battle was not told of another
<1>14. ASSUME NEW p \in Conns, Returns(p)
       PROVE  SameBattle'
  <2>1. /\ made' = made /\ client'[p].notice = client[p].notice
        /\ \A q \in Conns : q # p => conn'[q] = conn[q] /\ client'[q] = client[q]
        /\ client[p].notice # "seen" /\ (conn[p].lobby = 0 \/ client[p].meets)
    BY <1>14 DEF Returns, Only
  <2>2. conn[p].lobby = 0
    BY <1>1, <2>1 DEF Meeting
  <2>3. client[p].notice = "no"
    BY <1>1, <2>1, <2>2, Fields DEF NotPickedAgain
  <2> QED  BY <1>3, <1>5, <1>6, <2>1, <2>3
<1>15. ASSUME UNCHANGED <<users, lobbys, rooms, made, conn, client, shown>>
       PROVE  SameBattle'
  BY <1>9, <1>15
<1>16. ASSUME NEW p \in Conns, NEW F \in SUBSET Conns, NEW whole \in BOOLEAN, Started(p, F, whole)
       PROVE  SameBattle'
  <2>1. NewBattle(F, whole) /\ (F # {} => Len(made') = Len(made) + 1)
    BY <1>16 DEF Started
  <2>2. /\ \A i \in 1 .. Len(made) : made'[i] = made[i]
        /\ \A q \in F : /\ made'[Len(made) + 1].whole = whole
                        /\ UserOf[q] \in ToSet(made'[Len(made) + 1].users)
    BY <1>1, <2>1, BattlesGrow
  <2>3. ASSUME NEW q \in Conns
        PROVE  Same(q)
    <3>1. CASE q \notin F
      <4>1. /\ conn'[q].state = conn[q].state /\ conn'[q].battle = conn[q].battle
            /\ client'[q].notice = "no" <=> client[q].notice = "no"
        BY <1>16, <3>1 DEF Started
      <4>2. CASE conn[q].state = "in"
        BY <1>4, <2>2, <4>1, <4>2
      <4>3. CASE conn[q].state # "in"
        BY <4>1, <4>3 DEF Same
      <4> QED  BY <4>2, <4>3
    <3>2. CASE q \in F /\ whole
      <4>1. conn'[q].battle = Len(made) + 1
        BY <1>16, <3>2 DEF Started
      <4>2. Len(made) + 1 # 0
        BY <1>2
      <4> QED  BY <2>2, <3>2, <4>1, <4>2 DEF Same
    <3>3. CASE q \in F /\ ~ whole
      <4>1. client'[q].notice = "no"
        BY <1>16, <3>3 DEF Started
      <4> QED  BY <1>6, <4>1
    <3> QED  BY <3>1, <3>2, <3>3
  <2> QED  BY <1>3, <2>3
<1>17. ASSUME NEW p \in Conns, NEW l \in Lobbies, NEW side \in Sides \cup {None},
              NEW F \in SUBSET Conns, NEW whole \in BOOLEAN, StartsLobby(p, l, side, F, whole)
       PROVE  SameBattle'
  BY <1>16, <1>17 DEF StartsLobby
<1>18. ASSUME NEW p \in Conns, NEW l \in Lobbies, NEW r \in Rooms,
              NEW F \in SUBSET Conns, NEW whole \in BOOLEAN, StartsRoom(p, l, r, F, whole)
       PROVE  SameBattle'
  BY <1>16, <1>18 DEF StartsRoom
<1> QED  BY <1>7, <1>8, <1>10, <1>11, <1>12, <1>13, <1>14, <1>15, <1>17, <1>18, Zenon DEF Steps

(* What a connection that was told of a battle has to be.                  *)
Spared(p) ==
  client[p].notice # "no" =>
    /\ client[p].notice = "sent" => conn[p].lobby # 0
    /\ conn[p].room = 0 => conn[p].entry = None
    /\ conn[p].room # 0 => Blocked(conn[p].lobby, conn[p].room)

(* Who owns room r of lobby l did so before, and can still not start it.   *)
OwnersKept(l, r) ==
  \A o \in Conns : UserOf[o] = rooms'[l][r].owner =>
    /\ UserOf[o] = rooms[l][r].owner
    /\ client[o].notice # "no" => client'[o].notice # "no"
    /\ client[o].removed => client'[o].removed

(* q was told of its battle before, and is not entered for another since.  *)
StaysTold(q) ==
  client'[q].notice # "no" =>
    /\ client[q].notice # "no"
    /\ client'[q].notice = "sent" => client[q].notice = "sent" /\ conn'[q].lobby = conn[q].lobby
    /\ conn'[q].room = 0 => \/ conn'[q].entry = None
                            \/ conn[q].room = 0 /\ conn'[q].entry = conn[q].entry
    /\ conn'[q].room # 0 => conn'[q].room = conn[q].room /\ conn'[q].lobby = conn[q].lobby

(* Such a connection is spared as it was. *)
LEMMA StaysSpared ==
  ASSUME IInv, NEW q \in Conns, StaysTold(q),
         client[q].notice # "no" /\ conn[q].room # 0 => OwnersKept(conn[q].lobby, conn[q].room)
  PROVE  Spared(q)'
<1> SUFFICES ASSUME client'[q].notice # "no"
             PROVE  Spared(q)'
  BY DEF Spared
<1>1. Spared(q) /\ client[q].notice # "no"
  BY DEF IInv, NotPickedAgain, Spared, StaysTold
<1>2. client'[q].notice = "sent" => conn'[q].lobby # 0
  BY <1>1 DEF StaysTold, Spared
<1>3. conn'[q].room = 0 => conn'[q].entry = None
  BY <1>1 DEF StaysTold, Spared
<1>4. ASSUME conn'[q].room # 0
      PROVE  Blocked(conn[q].lobby, conn[q].room)'
  <2>1. /\ conn'[q].room = conn[q].room /\ conn'[q].lobby = conn[q].lobby
        /\ Blocked(conn[q].lobby, conn[q].room) /\ OwnersKept(conn[q].lobby, conn[q].room)
    BY <1>1, <1>4 DEF StaysTold, Spared
  <2> QED  BY <2>1 DEF Blocked, OwnersKept
<1> QED  BY <1>2, <1>3, <1>4 DEF Spared

(* No step picks anybody for a second battle. *)
LEMMA NotPickedAgainStep ==
  ASSUME IInv, TypeOK', Steps
  PROVE  NotPickedAgain'
<1>1. TypeOK /\ Placed /\ Preparing /\ RoomsAgree
  BY DEF IInv
<1>2. NotPickedAgain' <=> \A q \in Conns : Spared(q)'
  BY DEF NotPickedAgain, Spared
<1>3. /\ \A q \in Conns : conn[q].lobby \in Lobbies \cup {0} /\ conn[q].room \in Rooms \cup {0}
      /\ \A q \in Conns : conn[q].room # 0 => conn[q].lobby # 0
  BY <1>1, Fields DEF Placed
<1>4. ASSUME NEW q \in Conns, client'[q].notice = "no"
      PROVE  Spared(q)'
  BY <1>4 DEF Spared
<1>5. ASSUME NEW q \in Conns, conn'[q] = conn[q], client'[q] = client[q]
      PROVE  StaysTold(q)
  BY <1>5 DEF StaysTold
\* owners are members, so those of no room own none
<1>6. ASSUME NEW l \in Lobbies, NEW r \in Rooms, NEW o \in Conns, UserOf[o] = rooms[l][r].owner
      PROVE  o \in ToSet(rooms[l][r].users) /\ conn[o].lobby = l /\ conn[o].room = r /\ ~ client[o].preparing
  BY <1>6, OwnerIsMember
<1>7. ASSUME \A l \in Lobbies, r \in Rooms : OwnersKept(l, r), \A q \in Conns : StaysTold(q) \/ Spared(q)'
      PROVE  NotPickedAgain'
  BY <1>2, <1>3, <1>7, StaysSpared
<1>8. ASSUME \A l \in Lobbies, r \in Rooms : rooms'[l][r].owner = rooms[l][r].owner,
             \A q \in Conns : /\ client[q].notice # "no" => client'[q].notice # "no"
                              /\ client[q].removed => client'[q].removed,
             \A q \in Conns : StaysTold(q) \/ Spared(q)'
      PROVE  NotPickedAgain'
  <2>1. \A l \in Lobbies, r \in Rooms : OwnersKept(l, r)
    BY <1>8 DEF OwnersKept
  <2> QED  BY <1>7, <1>8, <2>1
<1>9. ASSUME NEW p \in Conns, LogsIn(p)
      PROVE  NotPickedAgain'
  <2>1. /\ rooms' = rooms /\ client'[p].notice = "no"
        /\ \A l \in Lobbies, r \in Rooms : p \notin ToSet(rooms[l][r].users)
        /\ \A q \in Conns : q # p => conn'[q] = conn[q] /\ client'[q] = client[q]
    BY <1>9, FreshFields DEF LogsIn, Only
  <2>2. \A l \in Lobbies, r \in Rooms : OwnersKept(l, r)
    BY <1>6, <2>1 DEF OwnersKept
  <2> QED  BY <1>4, <1>5, <1>7, <2>1, <2>2
<1>10. ASSUME NEW p \in Conns, NEW l \in Lobbies, EntersLobby(p, l)
       PROVE  NotPickedAgain'
  <2>1. /\ rooms' = rooms /\ \A q \in Conns : q # p => conn'[q] = conn[q] /\ client'[q] = client[q]
        /\ client'[p].notice = "no" <=> client[p].notice = "no"
        /\ client'[p].notice # "sent" /\ client'[p].removed = client[p].removed
        /\ conn[p].lobby = 0 /\ conn'[p].room = conn[p].room /\ conn'[p].entry = conn[p].entry
    BY <1>10 DEF EntersLobby, Only, Noticed
  <2>2. StaysTold(p)
    BY <1>3, <2>1 DEF StaysTold
  <2> QED  BY <1>5, <1>8, <2>1, <2>2
<1>11. ASSUME NEW p \in Conns, Leaving(p), StaysTold(p)
       PROVE  NotPickedAgain'
  <2>1. ASSUME NEW l \in Lobbies, NEW r \in Rooms, NEW o \in Conns, UserOf[o] = rooms'[l][r].owner
        PROVE  o # p /\ UserOf[o] = rooms[l][r].owner
    <3>1. CASE conn[p].room # 0 /\ conn[p].lobby = l /\ conn[p].room = r
      <4>1. LeftRoom(p, l, r)
        BY <1>11, <3>1 DEF Leaving
      <4>2. rooms'[l][r].users # <<>>
        BY <2>1, <4>1, Constants DEF LeftRoom
      <4> QED  BY <2>1, <4>1, <4>2 DEF LeftRoom
    <3>2. CASE ~ (conn[p].room # 0 /\ conn[p].lobby = l /\ conn[p].room = r)
      <4>1. rooms'[l][r] = rooms[l][r]
        <5>1. CASE conn[p].room = 0
          BY <1>11, <5>1 DEF Leaving
        <5>2. CASE conn[p].room # 0
          <6>1. LeftRoom(p, conn[p].lobby, conn[p].room)
            BY <1>11, <5>2 DEF Leaving
          <6>2. l # conn[p].lobby \/ r # conn[p].room
            BY <3>2, <5>2
          <6> QED  BY <6>1, <6>2, Zenon DEF LeftRoom, OneRoom
        <5> QED  BY <5>1, <5>2
      <4>2. UserOf[o] = rooms[l][r].owner
        BY <2>1, <4>1
      <4>3. conn[o].lobby = l /\ conn[o].room = r /\ r # 0
        BY <1>6, <4>2, Constants
      <4> QED  BY <3>2, <4>2, <4>3
    <3> QED  BY <3>1, <3>2
  <2>2. \A l \in Lobbies, r \in Rooms : OwnersKept(l, r)
    <3>1. \A q \in Conns : q # p => client'[q] = client[q]
      BY <1>11 DEF Leaving
    <3> QED  BY <2>1, <3>1 DEF OwnersKept
  <2>3. ASSUME NEW q \in Conns, q # p
        PROVE  StaysTold(q)
    BY <1>11, <2>3 DEF Leaving, StaysTold
  <2> QED  BY <1>7, <1>11, <2>2, <2>3
<1>12. ASSUME NEW p \in Conns, Leaves(p)
       PROVE  NotPickedAgain'
  <2>1. StaysTold(p) /\ Leaving(p)
    BY <1>12 DEF Leaves, Leaving, StaysTold, Noticed
  <2> QED  BY <1>11, <2>1
<1>13. ASSUME NEW p \in Conns, ExitsRoom(p)
       PROVE  NotPickedAgain'
  <2>1. StaysTold(p) /\ Leaving(p)
    BY <1>13 DEF ExitsRoom, Leaving, StaysTold, Noticed
  <2> QED  BY <1>11, <2>1
<1>14. ASSUME NEW p \in Conns, Returns(p)
       PROVE  NotPickedAgain'
  <2>1. /\ rooms' = rooms /\ \A q \in Conns : q # p => conn'[q] = conn[q] /\ client'[q] = client[q]
        /\ client'[p].notice = client[p].notice /\ client'[p].removed = client[p].removed
        /\ StaysTold(p)
    BY <1>14 DEF Returns, Only, StaysTold
  <2> QED  BY <1>5, <1>8, <2>1
<1>15. ASSUME NEW p \in Conns, TakesSide(p)
       PROVE  NotPickedAgain'
  <2>1. /\ rooms' = rooms /\ \A q \in Conns : q # p => conn'[q] = conn[q] /\ client'[q] = client[q]
        /\ client'[p].notice = "no" <=> client[p].notice = "no"
        /\ client'[p].removed = client[p].removed
        /\ StaysTold(p)
    BY <1>15 DEF TakesSide, Only, StaysTold, Noticed
  <2> QED  BY <1>5, <1>8, <2>1
<1>16. ASSUME UNCHANGED <<users, lobbys, rooms, made, conn, client, shown>>
       PROVE  NotPickedAgain'
  BY <1>5, <1>8, <1>16
<1>17. ASSUME NEW p \in Conns, NEW l \in Lobbies, NEW r \in Rooms, MakesRoom(p, l, r)
       PROVE  NotPickedAgain'
  <2>1. /\ rooms'[l][r].owner = rooms[l][r].owner /\ conn[p].room = 0 /\ client'[p].notice = "no"
        /\ \A q \in Conns : q # p => conn'[q] = conn[q] /\ client'[q] = client[q]
        /\ \A k \in Lobbies, s \in Rooms : k # l \/ s # r => rooms'[k][s] = rooms[k][s]
    BY <1>17 DEF MakesRoom, Only, OneRoom
  <2>2. \A k \in Lobbies, s \in Rooms : OwnersKept(k, s)
    BY <1>6, <2>1, Constants DEF OwnersKept
  <2> QED  BY <1>4, <1>5, <1>7, <2>1, <2>2
<1>18. ASSUME NEW p \in Conns, NEW l \in Lobbies, NEW r \in Rooms, FillsRoom(p, l, r)
       PROVE  NotPickedAgain'
  <2>1. /\ conn[p].lobby = l /\ client'[p].notice = "no"
        /\ conn[p].room = 0 \/ client[p].preparing
        /\ \A q \in Conns : q # p => conn'[q] = conn[q] /\ client'[q] = client[q]
        /\ \A k \in Lobbies, s \in Rooms : k # l \/ s # r => rooms'[k][s] = rooms[k][s]
        /\ rooms'[l][r].owner = IF rooms[l][r].users = <<>> THEN UserOf[p] ELSE rooms[l][r].owner
    BY <1>18 DEF FillsRoom, Only, OneRoom
  <2>2. ASSUME NEW k \in Lobbies, NEW s \in Rooms, rooms'[k][s].owner = rooms[k][s].owner
        PROVE  OwnersKept(k, s)
    <3>1. ASSUME NEW o \in Conns, UserOf[o] = rooms[k][s].owner
          PROVE  o # p
      <4>1. conn[o].room = s /\ ~ client[o].preparing /\ s # 0
        BY <1>6, <3>1, Constants
      <4> QED  BY <2>1, <4>1
    <3> QED  BY <2>1, <2>2, <3>1 DEF OwnersKept
  <2>3. ASSUME NEW q \in Conns, q # p, client[q].notice # "no", conn[q].room # 0
        PROVE  OwnersKept(conn[q].lobby, conn[q].room)
    <3>1. conn[q].lobby \in Lobbies /\ conn[q].room \in Rooms
      BY <1>3, <2>3
    <3>2. q \in ToSet(rooms[conn[q].lobby][conn[q].room].users)
      BY <1>1, <2>3, <3>1 DEF Preparing, RoomsAgree
    <3>3. rooms[conn[q].lobby][conn[q].room].users # <<>>
      BY <3>2 DEF ToSet
    <3>4. rooms'[conn[q].lobby][conn[q].room].owner = rooms[conn[q].lobby][conn[q].room].owner
      BY <2>1, <3>1, <3>3
    <3> QED  BY <2>2, <3>1, <3>4
  <2>4. ASSUME NEW q \in Conns, q # p
        PROVE  Spared(q)'
    BY <1>5, <2>1, <2>3, <2>4, StaysSpared
  <2> QED  BY <1>2, <1>4, <2>1, <2>4
<1>19. ASSUME NEW p \in Conns, NEW l \in Lobbies, NEW side \in Sides \cup {None},
              NEW F \in SUBSET Conns, NEW whole \in BOOLEAN, StartsLobby(p, l, side, F, whole)
       PROVE  NotPickedAgain'
  <2>1. Started(p, F, whole) /\ rooms' = rooms
    BY <1>19 DEF StartsLobby, Started
  <2>2. \A q \in Conns : /\ client[q].notice # "no" => client'[q].notice # "no"
                         /\ client[q].removed => client'[q].removed
    BY <1>19, <2>1 DEF StartsLobby, Started
  <2>3. ASSUME NEW q \in Conns, whole, q \in F
        PROVE  Spared(q)'
    <3>1. conn'[q].lobby = l /\ conn'[q].room = 0 /\ conn'[q].entry = None
      BY <1>19, <2>3 DEF StartsLobby, Started
    <3> QED  BY <3>1, Constants DEF Spared
  <2>4. ASSUME NEW q \in Conns, ~ (whole /\ q \in F)
        PROVE  StaysTold(q)
    <3>1. /\ conn'[q].lobby = conn[q].lobby /\ conn'[q].room = conn[q].room
          /\ client'[q].notice = "no" <=> client[q].notice = "no"
          /\ client'[q].notice = "sent" => client[q].notice = "sent"
          /\ conn'[q].entry = IF q = p THEN side ELSE conn[q].entry
      BY <1>19, <2>1, <2>4 DEF StartsLobby, Started
    <3>2. q = p /\ side # None => client[q].notice = "no"
      BY <1>19 DEF StartsLobby, Engaged
    <3> QED  BY <3>1, <3>2 DEF StaysTold
  <2> QED  BY <1>8, <2>1, <2>2, <2>3, <2>4
<1>20. ASSUME NEW p \in Conns, NEW l \in Lobbies, NEW r \in Rooms,
              NEW F \in SUBSET Conns, NEW whole \in BOOLEAN, StartsRoom(p, l, r, F, whole)
       PROVE  NotPickedAgain'
  <2>1. Started(p, F, whole) /\ rooms' = rooms
    BY <1>20 DEF StartsRoom, Started
  <2>2. \A q \in Conns : /\ client[q].notice # "no" => client'[q].notice # "no"
                         /\ client[q].removed => client'[q].removed
    BY <1>20, <2>1 DEF StartsRoom, Started
  <2>3. ASSUME NEW q \in Conns, whole, q \in F
        PROVE  Spared(q)'
    <3>1. q \in ToSet(rooms[l][r].users) /\ rooms[l][r].owner = UserOf[p]
      BY <1>20, <2>3 DEF StartsRoom
    <3>2. /\ conn[q].lobby = l /\ conn[q].room = r
          /\ conn'[q].lobby = l /\ conn'[q].room = r /\ l # 0 /\ r # 0
      BY <1>1, <2>1, <3>1, Constants DEF RoomsAgree, Started
    <3>3. ASSUME NEW o \in Conns, UserOf[o] = rooms'[l][r].owner
          PROVE  client'[o].notice # "no" \/ client'[o].removed
      <4>1. o = p /\ p \in ToSet(rooms[l][r].users)
        BY <1>6, <2>1, <3>1, <3>3, OneConnectionEach
      <4>2. p \in F => client'[p].notice = "sent"
        BY <2>1, <2>3 DEF Started
      <4>3. p \notin F => client'[p].removed
        BY <1>20, <2>3, <4>1 DEF StartsRoom
      <4> QED  BY <4>1, <4>2, <4>3
    <3> QED  BY <3>2, <3>3 DEF Spared, Blocked
  <2>4. ASSUME NEW q \in Conns, ~ (whole /\ q \in F)
        PROVE  StaysTold(q)
    <3>1. /\ conn'[q].lobby = conn[q].lobby /\ conn'[q].room = conn[q].room
          /\ client'[q].notice = "no" <=> client[q].notice = "no"
          /\ client'[q].notice = "sent" => client[q].notice = "sent"
          /\ conn'[q].entry = conn[q].entry
      BY <1>20, <2>1, <2>4 DEF StartsRoom, Started
    <3> QED  BY <3>1 DEF StaysTold
  <2> QED  BY <1>8, <2>1, <2>2, <2>3, <2>4
<1> QED  BY <1>9, <1>10, <1>12, <1>13, <1>14, <1>15, <1>16, <1>17, <1>18, <1>19, <1>20, Zenon DEF Steps

(* At first nobody is connected, and nothing is listed.                    *)
LEMMA InitHolds == Init => IInv
<1> SUFFICES ASSUME Init
             PROVE  IInv
  OBVIOUS
<1>1. made = <<>> /\ Len(made) = 0 /\ DOMAIN made = {} /\ made \in Seq(BattleRecs)
  BY DEF Init
<1>2. /\ ToSet(<<>>) = {} /\ IsInjective(<<>>) /\ Len(<<>>) = 0
      /\ <<>> \in Seq(Conns) /\ <<>> \in Seq(Users)
  BY DEF ToSet, IsInjective
<1>3. \A p \in Conns : /\ conn[p].state = "closed" /\ conn[p].lobby = 0 /\ conn[p].room = 0
                       /\ conn[p].battle = 0
                       /\ client[p].notice = "no" /\ ~ client[p].preparing /\ ~ client[p].meets
                       /\ ~ client[p].entered
  BY DEF Init, Closed, Fresh
<1>4. \A l \in Lobbies : /\ lobbys[l].entries = <<>> /\ \A u \in Users : lobbys[l].users[u] = None
                         /\ \A r \in Rooms : rooms[l][r].users = <<>> /\ rooms[l][r].owner = None
                                             /\ rooms[l][r].status = "empty"
  BY DEF Init, EmptyRoom
<1>5. \A u \in Users : users[u] = None /\ battles[u] = 0
  BY DEF Init
<1>6. TypeOK
  <2>1. users \in [Users -> Conns \cup {None}]
    BY DEF Init
  <2>2. lobbys \in [Lobbies -> LobbyRecs]
    BY <1>2 DEF Init, LobbyRecs
  <2>3. EmptyRoom \in RoomRecs
    BY <1>2 DEF EmptyRoom, RoomRecs
  <2>4. rooms \in [Lobbies -> [Rooms -> RoomRecs]]
    BY <2>3 DEF Init
  <2>5. battles \in [Users -> 0 .. Len(made)] /\ Len(made) <= MaxBattles
    BY <1>1, LobbyAssumption DEF Init
  <2>6. Closed \in ConnRecs(0)
    BY DEF Closed, ConnRecs, Syncs
  <2>7. conn \in [Conns -> ConnRecs(Len(made))]
    BY <1>1, <2>6 DEF Init
  <2>8. client \in [Conns -> ClientRecs]
    BY FreshFields DEF Init
  <2>9. NotShown \in Views
    BY <2>3, ShownRec DEF NotShown, Views
  <2>10. shown \in [Conns -> Views]
    BY <2>9 DEF Init
  <2> QED  BY <2>1, <2>2, <2>4, <2>5, <2>7, <2>8, <2>10, Typed
<1>7. LoggedIn /\ LobbyListsPresent /\ Placed /\ Preparing
  BY <1>3, <1>4, <1>5 DEF LoggedIn, LobbyListsPresent, Placed, Preparing
<1>8. RoomsAgree /\ RoomsNotStranded
  BY <1>2, <1>3, <1>4, Constants DEF RoomsAgree, RoomsNotStranded
<1>9. EntriesOnce /\ EntriesEngaged
  BY <1>2, <1>3, <1>4 DEF EntriesOnce, EntriesEngaged
<1>10. InBattle /\ FairBattles
  BY <1>1, <1>3, <1>5 DEF InBattle, FairBattles
<1>11. NotPickedAgain /\ SameBattle /\ Meeting /\ RoomsShown
  BY <1>3 DEF NotPickedAgain, SameBattle, Meeting, RoomsShown
<1> QED  BY <1>6, <1>7, <1>8, <1>9, <1>10, <1>11 DEF IInv

(* Every step keeps the invariant. *)
LEMMA StepHolds == IInv /\ [Next]_vars => IInv'
<1> SUFFICES ASSUME IInv, [Next]_vars
             PROVE  IInv'
  OBVIOUS
<1>1. TypeOK' /\ Steps
  BY StepKinds
<1>2. LoggedIn' /\ LobbyListsPresent' /\ Placed'
  BY <1>1, LoggedInStep, PlacesStep
<1>3. Preparing' /\ Meeting'
  BY <1>1, PreparingStep, MeetingStep
<1>4. RoomsAgree'
  BY <1>1, RoomsAgreeStep
<1>5. RoomsNotStranded' /\ RoomsShown'
  BY <1>1, <1>4, RoomsNotStrandedStep, RoomsShownStep
<1>6. EntriesOnce' /\ EntriesEngaged'
  BY <1>1, EntriesStep
<1>7. InBattle' /\ FairBattles'
  BY <1>1, InBattleStep, FairBattlesStep
<1>8. NotPickedAgain' /\ SameBattle'
  BY <1>1, NotPickedAgainStep, SameBattleStep
<1> QED  BY <1>1, <1>2, <1>3, <1>4, <1>5, <1>6, <1>7, <1>8 DEF IInv

(* Who may chat, and who of them are together: back from the same battle,  *)
(* or in the same room, or in the same lobby and in none of its rooms.     *)
Chats(p) == conn[p].state = "in" /\ ~ client[p].preparing /\ (conn[p].after => client[p].meets)
Together(p, q) ==
  \/ /\ conn[p].after /\ conn[q].after /\ conn[p].battle = conn[q].battle
     /\ conn[p].battle # 0 \/ p = q
  \/ /\ ~ conn[p].after /\ ~ conn[q].after /\ conn[p].lobby # 0
     /\ conn[p].lobby = conn[q].lobby /\ conn[p].room = conn[q].room

(* What one of them writes reaches exactly those that are together with it. *)
LEMMA HearersAreTogether ==
  ASSUME IInv, NEW p \in Conns, Chats(p), NEW q \in Conns, Chats(q)
  PROVE  q \in Hearers(p) <=> Together(p, q)
<1>1. TypeOK /\ LoggedIn /\ LobbyListsPresent /\ Placed /\ RoomsAgree /\ InBattle /\ Meeting
  BY DEF IInv
<1>2. /\ conn[p].lobby \in Lobbies \cup {0} /\ conn[p].room \in Rooms \cup {0}
      /\ conn[p].after \in BOOLEAN /\ conn[q].after \in BOOLEAN
      /\ conn[p].after => conn[p].lobby = 0
      /\ conn[q].after => conn[q].lobby = 0
      /\ conn[p].room # 0 => conn[p].lobby # 0
      /\ conn[q].room # 0 => conn[q].lobby # 0
  BY <1>1, Fields DEF Chats, Meeting, Placed
<1>3. users[UserOf[q]] = q /\ UserOf[q] \in Users /\ q # None
  BY <1>1, Constants DEF LoggedIn, Chats
<1>4. CASE conn[p].after
  <2>1. CASE conn[p].battle = 0
    BY <1>2, <1>4, <2>1 DEF Hearers, Together
  <2>2. CASE conn[p].battle # 0
    <3>1. Hearers(p) = AfterRoom(conn[p].battle)
      BY <1>4, <2>2 DEF Hearers
    <3>2. q \in AfterRoom(conn[p].battle) => conn[q].after /\ conn[q].battle = conn[p].battle
      BY DEF AfterRoom
    <3>3. ASSUME conn[q].after, conn[q].battle = conn[p].battle
          PROVE  q \in AfterRoom(conn[p].battle)
      <4>1. UserOf[q] \in ToSet(made[conn[p].battle].users)
        BY <1>1, <2>2, <3>3 DEF InBattle
      <4> QED  BY <1>3, <3>3, <4>1 DEF AfterRoom
    <3> QED  BY <1>4, <2>2, <3>1, <3>2, <3>3 DEF Together
  <2> QED  BY <2>1, <2>2
<1>5. CASE ~ conn[p].after /\ conn[p].room # 0
  <2>1. PICK l \in Lobbies, r \in Rooms : l = conn[p].lobby /\ r = conn[p].room
    BY <1>2, <1>5
  <2>2. Hearers(p) = InRoom(l, r)
    BY <1>5, <2>1 DEF Hearers
  <2>3. \A m \in ToSet(rooms[l][r].users) : m \in Conns /\ users[UserOf[m]] = m
    <3>1. ASSUME NEW m \in ToSet(rooms[l][r].users)
          PROVE  m \in Conns /\ users[UserOf[m]] = m
      <4>1. m \in Conns
        BY <1>1, RoomTyped
      <4>2. conn[m].lobby = l
        BY <1>1, <4>1 DEF RoomsAgree
      <4>3. conn[m].state = "in"
        BY <1>1, <4>1, <4>2, Constants DEF Placed
      <4> QED  BY <1>1, <4>1, <4>3 DEF LoggedIn
    <3> QED  BY <3>1
  <2>4. q \in InRoom(l, r) <=> q \in ToSet(rooms[l][r].users)
    BY <1>3, <2>3 DEF InRoom
  <2>5. q \in ToSet(rooms[l][r].users) <=> conn[q].lobby = l /\ conn[q].room = r
    BY <1>1 DEF RoomsAgree, Chats
  <2> QED  BY <1>2, <1>5, <2>1, <2>2, <2>4, <2>5 DEF Together
<1>6. CASE ~ conn[p].after /\ conn[p].room = 0 /\ conn[p].lobby # 0
  <2>1. PICK l \in Lobbies : l = conn[p].lobby
    BY <1>2, <1>6
  <2>2. Hearers(p) = InLobby(l)
    BY <1>6, <2>1 DEF Hearers
  <2>3. q \in InLobby(l) <=> conn[q].lobby = l /\ conn[q].room = 0
    BY <1>1, PeersOfLobby DEF InLobby
  <2> QED  BY <1>2, <1>6, <2>1, <2>2, <2>3 DEF Together
<1>7. CASE ~ conn[p].after /\ conn[p].room = 0 /\ conn[p].lobby = 0
  <2>1. Hearers(p) = {}
    BY <1>7 DEF Hearers
  <2> QED  BY <1>7, <2>1 DEF Together
<1> QED  BY <1>2, <1>4, <1>5, <1>6, <1>7

(* Players who chat hear each other. *)
LEMMA ChatFollows ==
  ASSUME IInv
  PROVE  ChatIsMutual
<1>1. \A p, q \in Conns : Together(p, q) <=> Together(q, p)
  BY DEF Together
<1>2. ASSUME NEW p \in Conns, Chats(p)
      PROVE  /\ conn[p].lobby # 0 \/ conn[p].after => p \in Hearers(p)
             /\ \A q \in Conns : Chats(q) => (q \in Hearers(p) <=> p \in Hearers(q))
  <2>1. conn[p].lobby # 0 \/ conn[p].after => Together(p, p)
    <3>1. conn[p].after => conn[p].lobby = 0
      BY <1>2 DEF IInv, Meeting, Chats
    <3> QED  BY <3>1 DEF Together
  <2> QED  BY <1>1, <1>2, <2>1, HearersAreTogether
<1> DEFINE chats == {p \in Conns : /\ conn[p].state = "in" /\ ~ client[p].preparing
                                   /\ conn[p].after => client[p].meets}
<1>3. \A p : p \in chats <=> p \in Conns /\ Chats(p)
  BY DEF Chats
<1> HIDE DEF chats
<1>4. \A p \in chats : /\ conn[p].lobby # 0 \/ conn[p].after => p \in Hearers(p)
                       /\ \A q \in chats : q \in Hearers(p) <=> p \in Hearers(q)
  BY <1>2, <1>3
<1> QED  BY <1>4 DEF ChatIsMutual, chats

-----------------------------------------------------------------------------
(* The inductive invariant holds in every state the lobby reaches.         *)
THEOREM InvariantHolds == Spec => []IInv
BY InitHolds, StepHolds, PTL DEF Spec

(* The lists agree, however long the lobby runs: whoever a lobby lists is  *)
(* connected and in it, its entries are of its users and once each, rooms  *)
(* list exactly the peers that are in them, and no room stays taken with   *)
(* nobody in it.  The handlers of app_core.go together with model/lobby.go *)
(* and model/room.go, connections that break at any point included.        *)
THEOREM ListsAlwaysAgree == Spec => []ListsAgree
<1>1. IInv => ListsAgree
  BY DEF IInv, ListsAgree
<1> QED  BY InvariantHolds, <1>1, PTL

(* Whoever is in a lobby is always shown its rooms as they are: every      *)
(* handler that changes one tells everybody there (NoticeRoom and the like *)
(* in app_core.go).                                                        *)
THEOREM RoomsAlwaysShown == Spec => []RoomsShown
<1>1. IInv => RoomsShown
  BY DEF IInv
<1> QED  BY InvariantHolds, <1>1, PTL

(* Whoever was told of a battle's start keeps that battle, made whole and  *)
(* with the user in it, through any later start and any failed one         *)
(* (startBattle, startTestBattle, OnNoticeRoomBattleStart).                *)
THEOREM BattlesStayTheSame == Spec => []SameBattle
<1>1. IInv => SameBattle
  BY DEF IInv
<1> QED  BY InvariantHolds, <1>1, PTL

(* Battles are always fair, whatever the entries, the rooms and the counts *)
(* of players: StartBattleUsers, CanBattleStart and the choice of two a    *)
(* side.                                                                   *)
THEOREM BattlesAreFair == Spec => []FairBattles
<1>1. IInv => FairBattles
  BY DEF IInv
<1> QED  BY InvariantHolds, <1>1, PTL

(* Players who chat always hear each other (OnSendChatMessage).            *)
THEOREM ChatStaysMutual == Spec => []ChatIsMutual
<1>1. IInv => ChatIsMutual
  BY ChatFollows
<1> QED  BY InvariantHolds, <1>1, PTL

-----------------------------------------------------------------------------
(* The answers on a battle.  What the answers rest on, besides the lobby's *)
(* invariant: that whoever asks has the platform info that its battle took *)
(* a copy of, and the proxy if the battle counts on one.                   *)

(* A platform info as the answers need it. *)
GoodInfo(i) ==
  /\ i.rtt \in Nat /\ (i.ggpo => i.udp)
  /\ \A r \in Relays : i.near[r] \in 0 .. Unreachable

(* All that are there are good, and proxies are registered for their own   *)
(* address.                                                                *)
InfosFit ==
  /\ DOMAIN info = Conns /\ DOMAIN proxy = Conns
  /\ \A p \in Conns : GoodInfo(info[p])
  /\ \A p \in Conns : proxy[p] # None => proxy[p] \in Proxied /\ IpOf[proxy[p]] = IpOf[p]

(* A battle has a copy for each of its users. *)
CopiesFit ==
  /\ at \in Seq({at[b] : b \in DOMAIN at})
  /\ Len(at) = Len(made)
  /\ \A b \in DOMAIN made : \A u \in ToSet(made[b].users) : GoodInfo(at[b].info[u])

(* Who asks is as its battle copied it. *)
AskersCopied ==
  \A p \in Conns :
    Asking(p) => /\ info[p] = at[conn[p].battle].info[UserOf[p]]
                 /\ UserOf[p] \in at[conn[p].battle].udpUsers => proxy[p] # None

(* Whoever is waited for went to a battle that all its users were told of. *)
WentWhole == \A u \in Users : battles[u] # 0 => made[battles[u]].whole

(* The inductive invariant of the lobby with the answers. *)
InfoInv == IInv /\ InfosFit /\ CopiesFit /\ AskersCopied /\ WentWhole

(* What becomes of who asks, and of who asks from now on, when F are in a  *)
(* battle, whole or not, that is made by this step.                        *)
AsksStill(q) == Asking(q) /\ conn'[q].battle = conn[q].battle
AsksFrom(q, F, whole) ==
  /\ q \in F /\ whole /\ conn'[q].battle = Len(made) + 1 /\ conn[q].state = "in"

(* Nobody comes to ask but by the start of its battle. *)
LEMMA AskersStep ==
  ASSUME IInv, TypeOK', Steps
  PROVE  \E F \in SUBSET Conns, whole \in BOOLEAN :
           /\ NewBattle(F, whole) /\ (F # {} => Len(made') = Len(made) + 1)
           /\ \A q \in F : conn[q].state = "in"
           /\ \A q \in Conns : Asking(q)' => AsksStill(q) \/ AsksFrom(q, F, whole)
<1>1. TypeOK /\ SameBattle /\ Placed /\ NotPickedAgain /\ Meeting
  BY DEF IInv
<1> DEFINE Goal == \E F \in SUBSET Conns, whole \in BOOLEAN :
                     /\ NewBattle(F, whole) /\ (F # {} => Len(made') = Len(made) + 1)
                     /\ \A q \in F : conn[q].state = "in"
                     /\ \A q \in Conns : Asking(q)' => AsksStill(q) \/ AsksFrom(q, F, whole)
<1>2. ASSUME made' = made, \A q \in Conns : Asking(q)' => AsksStill(q)
      PROVE  Goal
  <2>1. NewBattle({}, TRUE)
    BY <1>2 DEF NewBattle
  <2>2. {} \in SUBSET Conns /\ TRUE \in BOOLEAN
    OBVIOUS
  <2> QED  BY <1>2, <2>1, <2>2
<1>3. ASSUME NEW p \in Conns, NEW F \in SUBSET Conns, NEW whole \in BOOLEAN, Started(p, F, whole)
      PROVE  Goal
  <2>1. /\ NewBattle(F, whole) /\ (F # {} => Len(made') = Len(made) + 1)
        /\ \A q \in F : conn[q].state = "in"
    BY <1>3 DEF Started
  <2>2. ASSUME NEW q \in Conns, Asking(q)'
        PROVE  AsksStill(q) \/ AsksFrom(q, F, whole)
    <3>1. conn'[q].state = "in" /\ client'[q].notice # "no" /\ conn[q].state = "in"
      BY <1>3, <2>2 DEF Started, Asking
    <3>2. CASE q \notin F
      BY <1>3, <3>1, <3>2 DEF Started, Asking, AsksStill
    <3>3. CASE q \in F /\ whole
      BY <1>3, <3>1, <3>3 DEF Started, AsksFrom
    <3>4. CASE q \in F /\ ~ whole
      BY <1>3, <3>1, <3>4 DEF Started
    <3> QED  BY <3>2, <3>3, <3>4
  <2> QED  BY <2>1, <2>2
<1> HIDE DEF Goal
<1>4. ASSUME NEW p \in Conns, LogsIn(p)
      PROVE  Goal
  <2>1. made' = made /\ client'[p].notice = "no"
        /\ \A q \in Conns : q # p => conn'[q] = conn[q] /\ client'[q] = client[q]
    BY <1>4, FreshFields DEF LogsIn, Only
  <2> QED  BY <1>2, <2>1 DEF Asking, AsksStill
<1>5. ASSUME NEW p \in Conns, Leaves(p)
      PROVE  Goal
  <2>1. made' = made
        /\ \A q \in Conns : q # p => /\ conn'[q].state = conn[q].state /\ client'[q] = client[q]
                                     /\ conn'[q].battle = conn[q].battle
    BY <1>5 DEF Leaves, Leaving
  <2>2. \/ client'[p].notice = "no"
        \/ Noticed(p) /\ conn'[p].battle = conn[p].battle /\ conn[p].state = "in"
    BY <1>5 DEF Leaves
  <2>3. Asking(p)' => AsksStill(p)
    BY <2>2 DEF Asking, AsksStill, Noticed
  <2>4. \A q \in Conns : q # p => (Asking(q)' => AsksStill(q))
    BY <2>1 DEF Asking, AsksStill
  <2> QED  BY <1>2, <2>1, <2>3, <2>4
<1>6. ASSUME made' = made,
             \A q \in Conns : /\ conn'[q].state = conn[q].state /\ conn'[q].battle = conn[q].battle
                              /\ client'[q].notice = "no" <=> client[q].notice = "no"
      PROVE  Goal
  BY <1>2, <1>6 DEF Asking, AsksStill
<1>7. ASSUME NEW p \in Conns, ExitsRoom(p)
      PROVE  Goal
  BY <1>6, <1>7 DEF ExitsRoom, Leaving, Noticed
<1>8. ASSUME NEW p \in Conns, NEW l \in Lobbies, EntersLobby(p, l)
      PROVE  Goal
  BY <1>6, <1>8 DEF EntersLobby, Only, Noticed
<1>9. ASSUME NEW p \in Conns, TakesSide(p)
      PROVE  Goal
  BY <1>6, <1>9 DEF TakesSide, Only, Noticed
<1>10. ASSUME NEW p \in Conns, NEW l \in Lobbies, NEW r \in Rooms, MakesRoom(p, l, r) \/ FillsRoom(p, l, r)
       PROVE  Goal
  <2>1. made' = made /\ client'[p].notice = "no"
        /\ \A q \in Conns : q # p => conn'[q] = conn[q] /\ client'[q] = client[q]
    BY <1>10 DEF MakesRoom, FillsRoom, Only
  <2> QED  BY <1>2, <2>1 DEF Asking, AsksStill
\* a client back from a battle was not told of another
<1>11. ASSUME NEW p \in Conns, Returns(p)
       PROVE  Goal
  <2>1. /\ made' = made /\ client'[p].notice = client[p].notice
        /\ \A q \in Conns : q # p => conn'[q] = conn[q] /\ client'[q] = client[q]
        /\ client[p].notice # "seen" /\ (conn[p].lobby = 0 \/ client[p].meets)
    BY <1>11 DEF Returns, Only
  <2>2. conn[p].lobby = 0
    BY <1>1, <2>1 DEF Meeting
  <2>3. client[p].notice = "no"
    BY <1>1, <2>1, <2>2, Fields DEF NotPickedAgain
  <2> QED  BY <1>2, <2>1, <2>3 DEF Asking, AsksStill
<1>12. ASSUME UNCHANGED <<users, lobbys, rooms, made, conn, client, shown>>
       PROVE  Goal
  BY <1>6, <1>12
<1>13. ASSUME NEW p \in Conns, NEW l \in Lobbies, NEW side \in Sides \cup {None},
              NEW F \in SUBSET Conns, NEW whole \in BOOLEAN, StartsLobby(p, l, side, F, whole)
       PROVE  Goal
  BY <1>3, <1>13 DEF StartsLobby
<1>14. ASSUME NEW p \in Conns, NEW l \in Lobbies, NEW r \in Rooms,
              NEW F \in SUBSET Conns, NEW whole \in BOOLEAN, StartsRoom(p, l, r, F, whole)
       PROVE  Goal
  BY <1>3, <1>14 DEF StartsRoom
<1>15. Goal
  BY <1>4, <1>5, <1>7, <1>8, <1>9, <1>10, <1>11, <1>12, <1>13, <1>14, Zenon DEF Steps
<1> QED  BY <1>15 DEF Goal

(* Whoever goes to a battle was told of it. *)
LEMMA WentWholeStep ==
  ASSUME IInv, TypeOK', Steps, WentWhole
  PROVE  WentWhole'
<1>1. TypeOK /\ SameBattle /\ made \in Seq(BattleRecs)
  BY DEF IInv, InBattle
<1>2. /\ \A q \in Conns : conn[q].battle \in 0 .. Len(made)
      /\ \A u \in Users : battles[u] \in 0 .. Len(made)
      /\ Len(made) \in Nat
  BY <1>1, Fields, Typed, LenProperties
<1>3. PICK F \in SUBSET Conns, whole \in BOOLEAN : NewBattle(F, whole) /\ (F # {} => Len(made') = Len(made) + 1)
  BY BattleOfStep
<1>4. \A i \in 1 .. Len(made) : made'[i] = made[i]
  BY <1>1, <1>3, BattlesGrow
<1>5. ASSUME NEW u \in Users, NEW q \in Conns, Asking(q), battles'[u] = conn[q].battle
      PROVE  battles'[u] # 0 => made'[battles'[u]].whole
  <2>1. conn[q].battle # 0 /\ made[conn[q].battle].whole
    BY <1>1, <1>5 DEF SameBattle, Asking
  <2>2. made'[conn[q].battle] = made[conn[q].battle]
    BY <1>2, <1>4, <2>1
  <2> QED  BY <1>5, <2>1, <2>2
<1>6. ASSUME NEW u \in Users, battles'[u] \in {0, battles[u]}
      PROVE  battles'[u] # 0 => made'[battles'[u]].whole
  BY <1>2, <1>4, <1>6 DEF WentWhole
<1> DEFINE From == \A u \in Users : \/ battles'[u] \in {0, battles[u]}
                                    \/ \E q \in Conns : Asking(q) /\ battles'[u] = conn[q].battle
<1>7. From
  <2>1. ASSUME NEW p \in Conns, Leaves(p)
        PROVE  From
    BY <2>1 DEF Leaves
  <2>2. ASSUME battles' = battles
        PROVE  From
    BY <2>2
  <2>3. ASSUME \A u \in Users : battles'[u] = 0 \/ battles'[u] = battles[u]
        PROVE  From
    BY <2>3
  <2> HIDE DEF From
  <2>4. ASSUME NEW p \in Conns, LogsIn(p) \/ ExitsRoom(p) \/ TakesSide(p)
        PROVE  From
    BY <2>2, <2>4 DEF LogsIn, ExitsRoom, TakesSide
  <2>5. ASSUME NEW p \in Conns, NEW l \in Lobbies, EntersLobby(p, l)
        PROVE  From
    BY <2>2, <2>5 DEF EntersLobby
  <2>6. ASSUME NEW p \in Conns, NEW l \in Lobbies, NEW r \in Rooms, MakesRoom(p, l, r) \/ FillsRoom(p, l, r)
        PROVE  From
    BY <2>2, <2>6 DEF MakesRoom, FillsRoom
  <2>7. ASSUME NEW p \in Conns, NEW l \in Lobbies, NEW side \in Sides \cup {None},
               NEW G \in SUBSET Conns, NEW all \in BOOLEAN, StartsLobby(p, l, side, G, all)
        PROVE  From
    BY <2>2, <2>7 DEF StartsLobby, Started
  <2>8. ASSUME NEW p \in Conns, NEW l \in Lobbies, NEW r \in Rooms,
               NEW G \in SUBSET Conns, NEW all \in BOOLEAN, StartsRoom(p, l, r, G, all)
        PROVE  From
    BY <2>2, <2>8 DEF StartsRoom, Started
  <2> QED  BY <2>1, <2>3, <2>4, <2>5, <2>6, <2>7, <2>8, Zenon DEF Steps
<1> QED  BY <1>5, <1>6, <1>7 DEF WentWhole

-----------------------------------------------------------------------------
(* A platform info that a client may send is good, and so are those that   *)
(* stand for none.                                                         *)
LEMMA InfosAreGood ==
  /\ \A p \in Conns : \A i \in InfosOf[p] : GoodInfo(i)
  /\ GoodInfo(NoInfo) /\ GoodInfo(LeftInfo)
<1>1. Unknown \in Nat /\ 0 \in 0 .. Unreachable
  BY DEF Unknown, Unreachable
<1>2. ASSUME NEW p \in Conns, NEW i \in InfosOf[p]
      PROVE  GoodInfo(i)
  <2>1. i \in PlatformInfos /\ (i.ggpo => i.udp)
    BY BattleInfoAssumption
  <2>2. i.rtt \in 0 .. Unknown /\ i.near \in [Relays -> 0 .. Unreachable]
    BY <2>1 DEF PlatformInfos
  <2>3. i.rtt \in Nat
    BY <1>1, <2>2
  <2> QED  BY <2>1, <2>2, <2>3 DEF GoodInfo
<1>3. GoodInfo(NoInfo)
  BY <1>1 DEF GoodInfo, NoInfo
<1>4. GoodInfo(LeftInfo)
  BY <1>1 DEF GoodInfo, NoInfo, LeftInfo
<1> QED  BY <1>2, <1>3, <1>4

(* What a handler of the lobby keeps of infos and proxies.                 *)
HandlerKeeps ==
  /\ Copies
  /\ info' = Kept(info, LeftInfo) /\ proxy' = Kept(proxy, None)

(* Every step with the answers' state is a step of the lobby, or leaves it *)
(* as it is.                                                               *)
LEMMA InfoStepKinds ==
  ASSUME [InfoNext]_allVars
  PROVE  /\ [Next]_vars
         /\ \/ HandlerKeeps
            \/ \E p \in Conns : \E i \in InfosOf[p] : Login(p, i) \/ OnPlatformInfo(p, i)
            \/ \E q \in Proxied, p \in Conns : RegisterProxy(q, p)
            \/ allVars' = allVars
<1>1. CASE Handler(\E p \in Conns : \/ conn[p].state = "in" /\ Requests(p)
                                   \/ RoomRequests(p) \/ OnClose(p))
  BY <1>1 DEF Handler, HandlerKeeps, Next
<1>2. CASE Handler(\E u \in Users : BattleTimeout(u))
  BY <1>2 DEF Handler, HandlerKeeps, Next
<1>3. CASE \E p \in Conns : \E i \in InfosOf[p] : Login(p, i) \/ OnPlatformInfo(p, i)
  <2>1. PICK p \in Conns : \E i \in InfosOf[p] : Login(p, i) \/ OnPlatformInfo(p, i)
    BY <1>3
  <2>2. CASE \E i \in InfosOf[p] : Login(p, i)
    BY <1>3, <2>2 DEF Login, Next, Requests
  <2>3. CASE \E i \in InfosOf[p] : OnPlatformInfo(p, i)
    BY <1>3, <2>3 DEF OnPlatformInfo
  <2> QED  BY <2>1, <2>2, <2>3
<1>4. CASE \E q \in Proxied, p \in Conns : RegisterProxy(q, p)
  BY <1>4 DEF RegisterProxy
<1>5. CASE allVars' = allVars
  BY <1>5 DEF allVars
<1> QED  BY <1>1, <1>2, <1>3, <1>4, <1>5 DEF InfoNext

(* What is kept of who stays connected. *)
LEMMA KeptFields ==
  ASSUME NEW f, NEW none, NEW g, g = Kept(f, none)
  PROVE  /\ DOMAIN g = Conns
         /\ \A p \in Conns : g[p] \in {f[p], none} /\ (conn'[p].state = "in" => g[p] = f[p])
BY DEF Kept

(* What a battle copies when it is made, and that copies stay.             *)
LEMMA CopiesGrow ==
  ASSUME CopiesFit, made \in Seq(BattleRecs), NEW F, NEW whole, NewBattle(F, whole), Copies
  PROVE  /\ \A b \in 1 .. Len(made) : at'[b] = at[b]
         /\ F = {} => at' = at /\ made' = made
         /\ F # {} =>
              \E s : /\ Len(made') = Len(made) + 1 /\ at' = Append(at, s)
                     /\ at'[Len(made) + 1] = s /\ s \in Snapshots(made'[Len(made) + 1])
<1>1. at \in Seq({at[b] : b \in DOMAIN at}) /\ Len(at) = Len(made) /\ Len(made) \in Nat
  BY LenProperties DEF CopiesFit
<1>2. CASE F = {}
  BY <1>2 DEF NewBattle, Copies
<1>3. CASE F # {}
  <2>1. PICK b \in BattleRecs : made' = Append(made, b)
    BY <1>3 DEF NewBattle
  <2>2. Len(made') = Len(made) + 1 /\ Len(made') # Len(made)
    BY <1>1, <2>1, AppendProperties
  <2>3. PICK s \in Snapshots(made'[Len(made')]) : at' = Append(at, s)
    BY <2>2 DEF Copies
  <2>4. at \in Seq({at[c] : c \in DOMAIN at} \cup {s})
    BY <1>1
  <2>5. /\ Len(at') = Len(at) + 1 /\ at'[Len(at) + 1] = s
        /\ \A i \in 1 .. Len(at) : at'[i] = at[i]
    BY <2>3, <2>4, AppendProperties
  <2> QED  BY <1>1, <1>3, <2>2, <2>3, <2>5
<1> QED  BY <1>2, <1>3

(* At first nobody has anything. *)
LEMMA InfoInitHolds == InfoInit => InfoInv
<1> SUFFICES ASSUME InfoInit
             PROVE  InfoInv
  OBVIOUS
<1>1. IInv
  BY InitHolds DEF InfoInit
<1>2. /\ made = <<>> /\ at = <<>> /\ \A u \in Users : battles[u] = 0
      /\ \A p \in Conns : conn[p].state = "closed"
  BY DEF InfoInit, Init, Closed
<1>3. InfosFit
  BY InfosAreGood DEF InfoInit, InfosFit
<1>4. CopiesFit
  BY <1>2 DEF CopiesFit
<1>5. AskersCopied /\ WentWhole
  BY <1>2 DEF AskersCopied, Asking, WentWhole
<1> QED  BY <1>1, <1>3, <1>4, <1>5 DEF InfoInv

(* Infos and proxies stay good, whoever sends or registers what. *)
LEMMA InfosFitStep ==
  ASSUME InfosFit, [InfoNext]_allVars
  PROVE  InfosFit'
<1>1. CASE HandlerKeeps
  <2>1. /\ DOMAIN info' = Conns
        /\ \A p \in Conns : info'[p] \in {info[p], LeftInfo}
    BY <1>1, KeptFields DEF HandlerKeeps
  <2>2. /\ DOMAIN proxy' = Conns
        /\ \A p \in Conns : proxy'[p] \in {proxy[p], None}
    BY <1>1, KeptFields DEF HandlerKeeps
  <2>3. \A p \in Conns : GoodInfo(info'[p])
    BY <2>1, InfosAreGood DEF InfosFit
  <2> QED  BY <2>1, <2>2, <2>3 DEF InfosFit, GoodInfo
<1>2. ASSUME NEW p \in Conns, NEW i \in InfosOf[p], info' = [info EXCEPT ![p] = i], proxy' = proxy
      PROVE  InfosFit'
  <2>1. /\ DOMAIN info' = Conns
        /\ \A q \in Conns : info'[q] \in {info[q], i}
    BY <1>2 DEF InfosFit
  <2>2. \A q \in Conns : GoodInfo(info'[q])
    <3>1. GoodInfo(i)
      BY InfosAreGood
    <3> QED  BY <2>1, <3>1 DEF InfosFit
  <2> QED  BY <1>2, <2>1, <2>2 DEF InfosFit, GoodInfo
<1>3. ASSUME NEW p \in Conns, NEW i \in InfosOf[p], Login(p, i) \/ OnPlatformInfo(p, i)
      PROVE  InfosFit'
  BY <1>2, <1>3 DEF Login, OnPlatformInfo
<1>4. ASSUME NEW q \in Proxied, NEW p \in Conns, RegisterProxy(q, p)
      PROVE  InfosFit'
  <2>1. info' = info /\ proxy' = [proxy EXCEPT ![p] = q] /\ IpOf[p] = IpOf[q]
    BY <1>4 DEF RegisterProxy
  <2> QED  BY <2>1 DEF InfosFit, GoodInfo
<1>5. CASE allVars' = allVars
  BY <1>5 DEF allVars, infoVars, InfosFit, GoodInfo
<1> QED  BY <1>1, <1>3, <1>4, <1>5, InfoStepKinds

(* The copies that battles took stay theirs; a new one is of those who are *)
(* in it.  And whoever asks stays as it was copied.                        *)
LEMMA CopiesStep ==
  ASSUME InfoInv, TypeOK', [InfoNext]_allVars
  PROVE  CopiesFit' /\ AskersCopied'
<1>1. /\ IInv /\ InfosFit /\ CopiesFit /\ AskersCopied
      /\ TypeOK /\ LoggedIn /\ SameBattle /\ InBattle /\ made \in Seq(BattleRecs)
  BY DEF InfoInv, IInv, InBattle
<1>2. /\ Len(made) \in Nat /\ DOMAIN made = 1 .. Len(made)
      /\ \A q \in Conns : conn[q].battle \in 0 .. Len(made)
  BY <1>1, Fields, LenProperties
<1>3. Steps
  BY <1>1, InfoStepKinds, StepKinds
\* who asks has a battle that was made
<1>4. \A q \in Conns : Asking(q) => conn[q].battle \in 1 .. Len(made)
  BY <1>1, <1>2 DEF SameBattle, Asking
<1>5. CASE HandlerKeeps
  <2>1. PICK F \in SUBSET Conns, whole \in BOOLEAN :
           /\ NewBattle(F, whole) /\ (F # {} => Len(made') = Len(made) + 1)
           /\ \A q \in F : conn[q].state = "in"
           /\ \A q \in Conns : Asking(q)' => AsksStill(q) \/ AsksFrom(q, F, whole)
    BY <1>1, <1>3, AskersStep
  <2>2. /\ \A b \in 1 .. Len(made) : at'[b] = at[b]
        /\ F = {} => at' = at /\ made' = made
        /\ F # {} =>
             \E s : /\ Len(made') = Len(made) + 1 /\ at' = Append(at, s)
                    /\ at'[Len(made) + 1] = s /\ s \in Snapshots(made'[Len(made) + 1])
    BY <1>1, <1>5, <2>1, CopiesGrow DEF HandlerKeeps
  <2>3. /\ made' \in Seq(BattleRecs)
        /\ \A b \in 1 .. Len(made) : made'[b] = made[b]
        /\ \A q \in F : UserOf[q] \in ToSet(made'[Len(made) + 1].users)
    BY <1>1, <2>1, BattlesGrow
  <2>4. \A q \in F : users[UserOf[q]] = q
    BY <1>1, <2>1 DEF LoggedIn
  \* the new copy, and that it is of the infos of F
  <2>5. ASSUME F # {}
        PROVE  /\ \A q \in F : /\ at'[Len(made) + 1].info[UserOf[q]] = info[q]
                               /\ UserOf[q] \in at'[Len(made) + 1].udpUsers => proxy[q] # None
               /\ \A u \in ToSet(made'[Len(made) + 1].users) :
                    GoodInfo(at'[Len(made) + 1].info[u])
    <3>1. PICK s : at'[Len(made) + 1] = s /\ s \in Snapshots(made'[Len(made) + 1])
      BY <2>2, <2>5
    <3>2. PICK us : us = ToSet(made'[Len(made) + 1].users)
      OBVIOUS
    <3>3. /\ s.udpUsers \subseteq {u \in us : proxy[users[u]] # None}
          /\ s.info = [u \in us |-> info[users[u]]]
      BY <3>1, <3>2 DEF Snapshots
    <3>4. \A q \in F : UserOf[q] \in us
      BY <2>3, <3>2
    <3>5. \A u \in us : \E q \in F : u = UserOf[q]
      <4>1. PICK b \in BattleRecs :
              made' = Append(made, b) /\ \A u \in ToSet(b.users) : \E q \in F : u = UserOf[q]
        BY <2>1, <2>5 DEF NewBattle
      <4>2. made'[Len(made) + 1] = b
        BY <1>1, <4>1, AppendProperties
      <4> QED  BY <3>2, <4>1, <4>2
    <3>6. \A q \in F : /\ s.info[UserOf[q]] = info[q]
                       /\ UserOf[q] \in s.udpUsers => proxy[q] # None
      BY <2>4, <3>3, <3>4
    <3>7. \A u \in us : GoodInfo(s.info[u])
      BY <1>1, <3>5, <3>6 DEF InfosFit
    <3> QED  BY <3>1, <3>2, <3>6, <3>7
  <2>6. CopiesFit'
    <3>1. CASE F = {}
      BY <1>1, <2>2, <3>1 DEF CopiesFit, GoodInfo
    <3>2. CASE F # {}
      <4>1. PICK s : /\ Len(made') = Len(made) + 1 /\ at' = Append(at, s)
                     /\ at'[Len(made) + 1] = s
        BY <2>2, <3>2
      <4>2. at \in Seq({at[c] : c \in DOMAIN at} \cup {s}) /\ Len(at) = Len(made)
        BY <1>1 DEF CopiesFit
      <4>3. at' \in Seq({at[c] : c \in DOMAIN at} \cup {s}) /\ Len(at') = Len(made')
        BY <1>2, <4>1, <4>2, AppendProperties
      <4>4. at' \in Seq({at'[c] : c \in DOMAIN at'})
        <5>1. PICK a : a = at'
          OBVIOUS
        <5>2. a \in [1 .. Len(a) -> {a[c] : c \in DOMAIN a}] /\ Len(a) \in Nat
          BY <4>3, <5>1, LenProperties
        <5>3. a \in Seq({a[c] : c \in DOMAIN a})
          BY <5>2, FunctionIsSeq
        <5> QED  BY <5>1, <5>3
      <4>5. ASSUME NEW b \in DOMAIN made'
            PROVE  \A u \in ToSet(made'[b].users) : GoodInfo(at'[b].info[u])
        <5>1. b \in DOMAIN made \/ b = Len(made) + 1
          BY <1>2, <2>3, <4>1, LenProperties
        <5>2. CASE b \in DOMAIN made
          BY <1>1, <1>2, <2>2, <2>3, <5>2 DEF CopiesFit
        <5> QED  BY <2>5, <3>2, <5>1, <5>2
      <4> QED  BY <4>3, <4>4, <4>5 DEF CopiesFit, GoodInfo
    <3> QED  BY <3>1, <3>2
  <2>7. ASSUME NEW q \in Conns, Asking(q)'
        PROVE  /\ info'[q] = at'[conn'[q].battle].info[UserOf[q]]
               /\ UserOf[q] \in at'[conn'[q].battle].udpUsers => proxy'[q] # None
    <3>1. conn'[q].state = "in"
      BY <2>7 DEF Asking
    <3>2. info'[q] = info[q] /\ proxy'[q] = proxy[q]
      BY <1>5, <3>1, KeptFields DEF HandlerKeeps
    <3>3. CASE AsksStill(q)
      BY <1>1, <1>4, <2>2, <3>2, <3>3 DEF AsksStill, AskersCopied
    <3>4. CASE AsksFrom(q, F, whole)
      <4>1. q \in F /\ conn'[q].battle = Len(made) + 1 /\ F # {}
        BY <3>4 DEF AsksFrom
      <4> QED  BY <2>5, <3>2, <4>1
    <3> QED  BY <2>1, <2>7, <3>3, <3>4
  <2>8. AskersCopied'
    BY <2>7 DEF AskersCopied
  <2> QED  BY <2>6, <2>8
\* without a handler no battle is made, and who asks is left alone
<1>6. ASSUME made' = made, at' = at,
             \A q \in Conns : Asking(q)' =>
               /\ Asking(q) /\ conn'[q].battle = conn[q].battle /\ info'[q] = info[q]
               /\ proxy[q] # None => proxy'[q] # None
      PROVE  CopiesFit' /\ AskersCopied'
  <2>1. CopiesFit'
    BY <1>1, <1>6 DEF CopiesFit, GoodInfo
  <2>2. ASSUME NEW q \in Conns, Asking(q)'
        PROVE  /\ info'[q] = at'[conn'[q].battle].info[UserOf[q]]
               /\ UserOf[q] \in at'[conn'[q].battle].udpUsers => proxy'[q] # None
    BY <1>1, <1>6, <2>2 DEF AskersCopied
  <2> QED  BY <2>1, <2>2 DEF AskersCopied
<1>7. ASSUME NEW p \in Conns, NEW i \in InfosOf[p], Login(p, i)
      PROVE  CopiesFit' /\ AskersCopied'
  <2>1. LogsIn(p)
    BY <1>1, <1>7, OnDecideUserIDEffect DEF Login
  <2>2. made' = made /\ client'[p].notice = "no"
        /\ \A q \in Conns : q # p => conn'[q] = conn[q] /\ client'[q] = client[q]
    BY <2>1, FreshFields DEF LogsIn, Only
  <2>3. at' = at /\ proxy' = proxy /\ \A q \in Conns : q # p => info'[q] = info[q]
    BY <1>1, <1>7 DEF Login, InfosFit
  <2> QED  BY <1>6, <2>2, <2>3 DEF Asking
<1>8. ASSUME NEW p \in Conns, NEW i \in InfosOf[p], OnPlatformInfo(p, i)
      PROVE  CopiesFit' /\ AskersCopied'
  <2>1. /\ vars' = vars /\ at' = at /\ proxy' = proxy /\ conn[p].battle = 0
        /\ \A q \in Conns : q # p => info'[q] = info[q]
    BY <1>1, <1>8 DEF OnPlatformInfo, InfosFit
  <2>2. ~ Asking(p)
    BY <1>2, <1>4, <2>1
  <2> QED  BY <1>6, <2>1, <2>2 DEF Asking, vars
<1>9. ASSUME NEW q \in Proxied, NEW p \in Conns, RegisterProxy(q, p)
      PROVE  CopiesFit' /\ AskersCopied'
  <2>1. /\ vars' = vars /\ at' = at /\ info' = info
        /\ \A o \in Conns : proxy'[o] = IF o = p THEN q ELSE proxy[o]
    BY <1>1, <1>9 DEF RegisterProxy, InfosFit
  <2>2. q # None
    BY BattleInfoAssumption, Constants
  <2> QED  BY <1>6, <2>1, <2>2 DEF Asking, vars
<1>10. CASE allVars' = allVars
  BY <1>6, <1>10 DEF allVars, vars, infoVars, Asking
<1> QED  BY <1>5, <1>7, <1>8, <1>9, <1>10, InfoStepKinds

(* Every step keeps the invariant. *)
LEMMA InfoStepHolds == InfoInv /\ [InfoNext]_allVars => InfoInv'
<1> SUFFICES ASSUME InfoInv, [InfoNext]_allVars
             PROVE  InfoInv'
  OBVIOUS
<1>1. IInv /\ [Next]_vars /\ InfosFit /\ WentWhole
  BY InfoStepKinds DEF InfoInv
<1>2. IInv' /\ TypeOK' /\ Steps
  BY <1>1, StepHolds, StepKinds
<1>3. WentWhole'
  BY <1>1, <1>2, WentWholeStep
<1>4. InfosFit'
  BY <1>1, InfosFitStep
<1>5. CopiesFit' /\ AskersCopied'
  BY <1>2, CopiesStep
<1> QED  BY <1>2, <1>3, <1>4, <1>5 DEF InfoInv

-----------------------------------------------------------------------------
(* A function from a set of numbers to times: one of them comes first.     *)
LEMMA FirstExists ==
  ASSUME NEW S \in SUBSET Nat, S # {}, NEW f, DOMAIN f = S, \A i \in S : f[i] \in Nat
  PROVE  First(f) \in S /\ \A j \in S \ {First(f)} : Before(f, First(f), j)
<1>1. {f[i] : i \in S} \in SUBSET Nat /\ {f[i] : i \in S} # {}
  OBVIOUS
<1>2. PICK m \in {f[i] : i \in S} : \A k \in {f[i] : i \in S} : m <= k
  BY <1>1, Least
<1>3. {i \in S : f[i] = m} \in SUBSET Nat /\ {i \in S : f[i] = m} # {}
  BY <1>2
<1>4. PICK i \in {i \in S : f[i] = m} : \A k \in {k \in S : f[k] = m} : i <= k
  BY <1>3, Least
<1>5. \A j \in S \ {i} : Before(f, i, j)
  <2> TAKE j \in S \ {i}
  <2>1. m <= f[j] /\ m \in Nat /\ f[j] \in Nat /\ i \in Nat /\ j \in Nat /\ f[i] = m /\ i # j
    BY <1>1, <1>2, <1>4
  <2>2. f[j] = m => i <= j
    BY <1>4
  <2> QED  BY <2>1, <2>2 DEF Before
<1>6. i \in DOMAIN f /\ \A j \in DOMAIN f \ {i} : Before(f, i, j)
  BY <1>4, <1>5
<1> QED  BY <1>6 DEF First

(* What comes before what: nothing both ways, and what is before the first *)
(* is before the rest.                                                     *)
LEMMA BeforeOneWay ==
  ASSUME NEW S \in SUBSET Nat, NEW f, \A i \in S : f[i] \in Nat, NEW i \in S, NEW j \in S
  PROVE  ~ (Before(f, i, j) /\ Before(f, j, i))
<1>1. i \in Nat /\ j \in Nat /\ f[i] \in Nat /\ f[j] \in Nat
  OBVIOUS
<1> QED  BY <1>1 DEF Before

(* A list of a set of numbers, each once, in the order of their times. *)
Ordered(f, S, list) ==
  /\ list \in [1 .. Cardinality(S) -> S]
  /\ \A i, j \in 1 .. Cardinality(S) : i < j => Before(f, list[i], list[j])

(* There is one for every finite set: a least set without one would have   *)
(* one, with its first number before the list of the others.               *)
LEMMA OrderedExists ==
  ASSUME NEW f, NEW R \in SUBSET Nat, IsFiniteSet(R), \A i \in R : f[i] \in Nat
  PROVE  \E list : Ordered(f, R, list)
<1> DEFINE Without(S) == S \subseteq R /\ ~ \E list : Ordered(f, S, list)
           N == {n \in Nat : \E S \in SUBSET R : Without(S) /\ Cardinality(S) = n}
<1>1. SUFFICES ASSUME Without(R)
               PROVE  FALSE
  OBVIOUS
<1>2. N \in SUBSET Nat /\ N # {}
  <2>1. Cardinality(R) \in Nat
    BY FS_CardinalityType
  <2>2. Cardinality(R) \in N
    BY <1>1, <2>1
  <2> QED  BY <2>2
<1>3. PICK n \in N : \A k \in N : n <= k
  BY <1>2, Least
<1>4. PICK S \in SUBSET R : Without(S) /\ Cardinality(S) = n
  BY <1>3
<1>5. n \in Nat /\ IsFiniteSet(S) /\ S \in SUBSET Nat
  BY <1>3, <1>4, FS_Subset
<1>6. S # {}
  <2>1. ASSUME S = {}
        PROVE  FALSE
    <3>1. Cardinality(S) = 0
      BY <2>1, FS_EmptySet
    <3>2. Ordered(f, S, [i \in 1 .. 0 |-> 0])
      BY <3>1 DEF Ordered
    <3> QED  BY <1>4, <3>2
  <2> QED  BY <2>1
<1>7. PICK g : g = [i \in S |-> f[i]]
  OBVIOUS
<1>8. PICK m : m = First(g)
  OBVIOUS
<1>9. m \in S /\ \A j \in S \ {m} : Before(f, m, j)
  <2>1. DOMAIN g = S /\ \A i \in S : g[i] \in Nat /\ g[i] = f[i]
    BY <1>7
  <2>2. m \in S /\ \A j \in S \ {m} : Before(g, m, j)
    BY <1>5, <1>6, <1>8, <2>1, FirstExists
  <2> QED  BY <2>1, <2>2 DEF Before
<1>10. /\ S \ {m} \in SUBSET R /\ IsFiniteSet(S \ {m})
       /\ Cardinality(S \ {m}) = n - 1 /\ n - 1 \in Nat
  <2>1. IsFiniteSet(S \ {m}) /\ Cardinality(S \ {m}) = n - 1
    BY <1>4, <1>5, <1>9, FS_RemoveElement
  <2>2. Cardinality(S \ {m}) \in Nat
    BY <2>1, FS_CardinalityType
  <2> QED  BY <2>1, <2>2
<1>11. PICK list : Ordered(f, S \ {m}, list)
  <2>1. ASSUME ~ \E list : Ordered(f, S \ {m}, list)
        PROVE  FALSE
    <3>1. n - 1 \in N
      BY <1>10, <2>1
    <3> HIDE DEF N
    <3> QED  BY <1>3, <1>5, <3>1
  <2> QED  BY <2>1
<1>12. /\ list \in [1 .. n - 1 -> S \ {m}]
       /\ \A i, j \in 1 .. n - 1 : i < j => Before(f, list[i], list[j])
  BY <1>10, <1>11 DEF Ordered
<1>13. PICK new : new = [i \in 1 .. n |-> IF i = 1 THEN m ELSE list[i - 1]]
  OBVIOUS
<1>14. \A i \in 1 .. n : i = 1 \/ i - 1 \in 1 .. n - 1
  BY <1>5
<1>15. new \in [1 .. n -> S]
  BY <1>9, <1>12, <1>13, <1>14
<1>16. ASSUME NEW i \in 1 .. n, NEW j \in 1 .. n, i < j
       PROVE  Before(f, new[i], new[j])
  <2>1. j # 1 /\ j - 1 \in 1 .. n - 1 /\ new[j] = list[j - 1]
    BY <1>5, <1>13, <1>16
  <2>2. CASE i = 1
    <3>1. new[i] = m /\ list[j - 1] \in S \ {m}
      BY <1>12, <1>13, <2>1, <2>2
    <3> QED  BY <1>9, <2>1, <3>1
  <2>3. CASE i # 1
    <3>1. i - 1 \in 1 .. n - 1 /\ i - 1 < j - 1 /\ new[i] = list[i - 1]
      BY <1>5, <1>13, <1>16, <2>3
    <3> QED  BY <1>12, <2>1, <3>1
  <2> QED  BY <2>2, <2>3
<1>17. Ordered(f, S, new)
  BY <1>4, <1>15, <1>16 DEF Ordered
<1> QED  BY <1>4, <1>17

(* So InOrder has the list that it looks for. *)
LEMMA InOrderFacts ==
  ASSUME NEW f, NEW R \in SUBSET Nat, IsFiniteSet(R), DOMAIN f = R, \A i \in R : f[i] \in Nat
  PROVE  Ordered(f, R, InOrder(f)) /\ InOrder(f) \in Seq(R) /\ Len(InOrder(f)) = Cardinality(R)
<1>1. PICK list : Ordered(f, R, list)
  BY OrderedExists
<1>2. PICK n : n = Cardinality(R)
  OBVIOUS
<1>3. n \in Nat
  BY <1>2, FS_CardinalityType
<1>4. /\ list \in [1 .. n -> R]
      /\ \A i, j \in 1 .. n : i < j => Before(f, list[i], list[j])
  BY <1>1, <1>2 DEF Ordered
<1>5. ASSUME NEW i \in 1 .. n, NEW j \in 1 .. n, i # j
      PROVE  list[i] # list[j]
  <2>1. list[i] \in Nat /\ list[j] \in Nat /\ f[list[i]] \in Nat /\ f[list[j]] \in Nat
    BY <1>4
  <2>2. Before(f, list[i], list[j]) \/ Before(f, list[j], list[i])
    BY <1>4, <1>5
  <2> QED  BY <2>1, <2>2 DEF Before
<1>6. list \in SetToSeqs(DOMAIN f)
  BY <1>2, <1>4, <1>5 DEF SetToSeqs
<1>7. \A i, j \in DOMAIN list : i < j => Before(f, list[i], list[j])
  BY <1>4
<1>8. PICK l : l = InOrder(f)
  OBVIOUS
<1>9. l \in SetToSeqs(DOMAIN f) /\ \A i, j \in DOMAIN l : i < j => Before(f, l[i], l[j])
  BY <1>6, <1>7, <1>8 DEF InOrder
<1>10. l \in [1 .. n -> R] /\ DOMAIN l = 1 .. n
  BY <1>2, <1>9 DEF SetToSeqs
<1>11. Ordered(f, R, l)
  BY <1>2, <1>9, <1>10 DEF Ordered
<1>12. l \in Seq(R) /\ Len(l) = n
  <2>1. l \in Seq(R)
    BY <1>3, <1>10, FunctionIsSeq
  <2> QED  BY <1>3, <1>10, <2>1, LenProperties
<1> QED  BY <1>2, <1>8, <1>11, <1>12

-----------------------------------------------------------------------------
(* Whoever asks is answered from its battle's copies, itself included.     *)
LEMMA AnsweredFromCopies ==
  ASSUME InfoInv, NEW p \in Conns, Asking(p)
  PROVE  /\ conn[p].battle \in DOMAIN made /\ made[conn[p].battle] \in BattleRecs
         /\ made[conn[p].battle].users \in Seq(Users)
         /\ UserOf[p] \in ToSet(PlayersOf(p))
         /\ \A u : InfoOf(p, u) = at[conn[p].battle].info[u]
         /\ \A u \in ToSet(PlayersOf(p)) : GoodInfo(InfoOf(p, u))
<1>1. /\ TypeOK /\ SameBattle /\ InBattle /\ made \in Seq(BattleRecs) /\ CopiesFit /\ AskersCopied
  BY DEF InfoInv, IInv, InBattle
<1>2. conn[p].battle \in 0 .. Len(made) /\ conn[p].battle # 0
  BY <1>1, Fields DEF SameBattle, Asking
<1>3. conn[p].battle \in DOMAIN made /\ made[conn[p].battle] \in BattleRecs
  <2>1. Len(made) \in Nat /\ DOMAIN made = 1 .. Len(made)
    BY <1>1, LenProperties
  <2>2. conn[p].battle \in 1 .. Len(made)
    BY <1>2, <2>1
  <2> QED  BY <1>1, <2>1, <2>2, ElementOfSeq
<1>4. made[conn[p].battle].users \in Seq(Users)
  BY <1>3 DEF BattleRecs
<1>5. \A u : InfoOf(p, u) = at[conn[p].battle].info[u]
  BY <1>1 DEF InfoOf, AskersCopied
<1>6. UserOf[p] \in ToSet(PlayersOf(p))
  BY <1>1, <1>2 DEF InBattle, PlayersOf
<1>7. \A u \in ToSet(PlayersOf(p)) : GoodInfo(InfoOf(p, u))
  BY <1>1, <1>3, <1>5 DEF CopiesFit, PlayersOf
<1> QED  BY <1>3, <1>4, <1>5, <1>6, <1>7

(* The time between two players by a relay, and the pairs it is taken of.  *)
Via(p, r, u, v) ==
  IF InfoOf(p, u).near[r] > 0 /\ InfoOf(p, v).near[r] > 0
  THEN InfoOf(p, u).near[r] + InfoOf(p, v).near[r] ELSE Unreachable
Pairs(p) ==
  {uv \in ToSet(PlayersOf(p)) \X ToSet(PlayersOf(p)) : uv[1] # uv[2]}

(* The worst of them. *)
LEMMA WorstIsOfPairs ==
  ASSUME NEW p, NEW r
  PROVE  WorstRtt(p, r) = Max({0} \cup {Via(p, r, uv[1], uv[2]) : uv \in Pairs(p)})
BY DEF WorstRtt, Via, Pairs

(* The greatest of a bounded set of numbers is one of them. *)
LEMMA MaxOfBounded ==
  ASSUME NEW n \in Nat, NEW S \in SUBSET (0 .. n), S # {}
  PROVE  Max(S) \in S
<1>1. {x + 1 : x \in S} \in SUBSET (1 .. n + 1) /\ {x + 1 : x \in S} # {} /\ n + 1 \in Nat
  <2>1. \A x \in S : x + 1 \in 1 .. n + 1
    <3> TAKE x \in S
    <3>1. x \in 0 .. n
      OBVIOUS
    <3> QED  BY <3>1
  <2>2. PICK x \in S : TRUE
    OBVIOUS
  <2>3. x + 1 \in {y + 1 : y \in S}
    BY <2>2
  <2> QED  BY <2>1, <2>3
<1>2. PICK m \in {x + 1 : x \in S} : \A k \in {x + 1 : x \in S} : k <= m
  BY <1>1, Greatest
<1>3. PICK x \in S : m = x + 1
  BY <1>2
<1>4. \A y \in S : x >= y
  <2> TAKE y \in S
  <2>1. y + 1 <= x + 1
    BY <1>2, <1>3
  <2> QED  BY <2>1
<1> QED  BY <1>4 DEF Max

(* It is a number. *)
LEMMA WorstIsNumber ==
  ASSUME InfoInv, NEW p \in Conns, Asking(p), NEW r \in Relays
  PROVE  WorstRtt(p, r) \in Nat
<1>1. \A u \in ToSet(PlayersOf(p)) : InfoOf(p, u).near[r] \in 0 .. Unreachable
  BY AnsweredFromCopies DEF GoodInfo
<1>2. PICK S : S = {0} \cup {Via(p, r, uv[1], uv[2]) : uv \in Pairs(p)}
  OBVIOUS
<1>3. S \in SUBSET (0 .. 200) /\ S # {}
  <2>1. ASSUME NEW uv \in Pairs(p)
        PROVE  Via(p, r, uv[1], uv[2]) \in 0 .. 200
    <3>1. InfoOf(p, uv[1]).near[r] \in 0 .. 100 /\ InfoOf(p, uv[2]).near[r] \in 0 .. 100
      BY <1>1 DEF Pairs, Unreachable
    <3>2. PICK a, b : a = InfoOf(p, uv[1]).near[r] /\ b = InfoOf(p, uv[2]).near[r]
      OBVIOUS
    <3>3. Via(p, r, uv[1], uv[2]) = IF a > 0 /\ b > 0 THEN a + b ELSE 100
      BY <3>2 DEF Via, Unreachable
    <3>4. a \in 0 .. 100 /\ b \in 0 .. 100
      BY <3>1, <3>2
    <3> QED  BY <3>3, <3>4
  <2> QED  BY <1>2, <2>1
<1>4. Max(S) \in S
  <2>1. 200 \in Nat
    OBVIOUS
  <2> QED  BY <1>3, <2>1, MaxOfBounded, Zenon
<1>5. Max(S) \in Nat
  <2>1. \A x \in S : x \in Nat
    BY <1>3
  <2> QED  BY <1>4, <2>1
<1> QED  BY <1>2, <1>5, WorstIsOfPairs

(* Who asks for the same battle is answered from the same, and works out   *)
(* the same.                                                               *)
LEMMA AnsweredAlike ==
  ASSUME InfoInv, NEW p \in Conns, Asking(p), NEW q \in Conns, Asking(q),
         conn[p].battle = conn[q].battle
  PROVE  /\ PlayersOf(p) = PlayersOf(q) /\ \A u : InfoOf(p, u) = InfoOf(q, u)
         /\ \A r : WorstRtt(p, r) = WorstRtt(q, r)
         /\ Rtts(p) = Rtts(q) /\ LiveUplink(p) = LiveUplink(q)
<1>1. PlayersOf(p) = PlayersOf(q) /\ \A u : InfoOf(p, u) = InfoOf(q, u)
  BY AnsweredFromCopies DEF PlayersOf
<1>2. \A r : WorstRtt(p, r) = WorstRtt(q, r)
  <2> TAKE r
  <2>1. Pairs(p) = Pairs(q) /\ \A u, v : Via(p, r, u, v) = Via(q, r, u, v)
    BY <1>1 DEF Pairs, Via
  <2>2. {Via(p, r, uv[1], uv[2]) : uv \in Pairs(p)} = {Via(q, r, uv[1], uv[2]) : uv \in Pairs(q)}
    BY <2>1
  <2> QED  BY <2>2, WorstIsOfPairs
<1>3. Rtts(p) = Rtts(q)
  <2>1. {i \in DOMAIN PlayersOf(p) : InfoOf(p, PlayersOf(p)[i]).ggpo}
          = {i \in DOMAIN PlayersOf(q) : InfoOf(q, PlayersOf(q)[i]).ggpo}
    BY <1>1
  <2> QED  BY <1>1, <2>1 DEF Rtts
<1>4. LiveUplink(p) = LiveUplink(q)
  BY <1>1, <1>3, Zenon DEF LiveUplink
<1> QED  BY <1>1, <1>2, <1>3, <1>4

(* With two players with GGPO the uplink is one of them. *)
LEMMA UplinkIsPlayer ==
  ASSUME InfoInv, NEW p \in Conns, Asking(p), NEW v \in ToSet(PlayersOf(p)), InfoOf(p, v).ggpo
  PROVE  LiveUplink(p) \in ToSet(PlayersOf(p)) /\ InfoOf(p, LiveUplink(p)).ggpo
<1>1. PICK us : us = PlayersOf(p)
  OBVIOUS
<1>2. us \in Seq(Users) /\ \A u \in ToSet(us) : InfoOf(p, u).rtt \in Nat
  BY <1>1, AnsweredFromCopies DEF PlayersOf, GoodInfo
<1>3. DOMAIN us = 1 .. Len(us) /\ Len(us) \in Nat /\ \A i \in DOMAIN us : us[i] \in ToSet(us)
  BY <1>2, LenProperties DEF ToSet
<1>4. PICK S : S = {i \in DOMAIN us : InfoOf(p, us[i]).ggpo}
  OBVIOUS
<1>5. S \in SUBSET Nat /\ S # {}
  <2>1. PICK i \in DOMAIN us : us[i] = v
    BY <1>1 DEF ToSet
  <2> QED  BY <1>3, <1>4, <2>1
<1>6. PICK f : f = Rtts(p)
  OBVIOUS
<1>7. DOMAIN f = S /\ \A i \in S : f[i] \in Nat
  <2>1. f = [i \in S |-> InfoOf(p, us[i]).rtt]
    BY <1>1, <1>4, <1>6 DEF Rtts
  <2> QED  BY <1>2, <1>3, <1>4, <2>1
<1>8. First(f) \in S
  BY <1>5, <1>7, FirstExists
<1>9. LiveUplink(p) = us[First(f)]
  BY <1>1, <1>5, <1>6, <1>7 DEF LiveUplink
<1> QED  BY <1>1, <1>3, <1>4, <1>8, <1>9

(* At most one player of a battle is told to stream it, and one is while   *)
(* all are there and two have GGPO.                                        *)
LEMMA OneUplinkFollows ==
  ASSUME InfoInv
  PROVE  OneUplink
<1> SUFFICES ASSUME NEW b \in DOMAIN made
             PROVE  LET here == {p \in Conns : Asking(p) /\ conn[p].battle = b}
                        ups  == {p \in here : ToldUplink(p)}
                        ggpo == {u \in ToSet(made[b].users) : at[b].info[u].ggpo}
                    IN  /\ Cardinality(ups) <= 1
                        /\ /\ made[b].whole /\ ~ TestBattle(b) /\ Cardinality(ggpo) >= 2
                           /\ {UserOf[p] : p \in here} = ToSet(made[b].users)
                           => ups # {}
  BY DEF OneUplink
<1>1. PICK here, ups, ggpo :
        /\ here = {p \in Conns : Asking(p) /\ conn[p].battle = b}
        /\ ups  = {p \in here : ToldUplink(p)}
        /\ ggpo = {u \in ToSet(made[b].users) : at[b].info[u].ggpo}
  OBVIOUS
<1>2. \A p \in here : p \in Conns /\ Asking(p) /\ conn[p].battle = b /\ PlayersOf(p) = made[b].users
  BY <1>1 DEF PlayersOf
<1>3. Cardinality(ups) <= 1
  <2>1. CASE ups = {}
    BY <2>1, FS_EmptySet
  <2>2. CASE ups # {}
    <3>1. PICK p \in ups : TRUE
      BY <2>2
    <3>2. ASSUME NEW q \in ups
          PROVE  q = p
      <4>1. LiveUplink(p) = UserOf[p] /\ LiveUplink(q) = UserOf[q]
        BY <1>1, <3>1 DEF ToldUplink
      <4>2. LiveUplink(p) = LiveUplink(q)
        BY <1>1, <1>2, <3>1, AnsweredAlike
      <4>3. p \in Conns /\ q \in Conns
        BY <1>1, <3>1
      <4> QED  BY <4>1, <4>2, <4>3, OneConnectionEach
    <3>3. ups = {p}
      BY <3>1, <3>2
    <3>4. Cardinality({p}) = 1
      BY FS_Singleton
    <3> QED  BY <3>3, <3>4
  <2> QED  BY <2>1, <2>2
<1>4. ASSUME ~ TestBattle(b), Cardinality(ggpo) >= 2, {UserOf[p] : p \in here} = ToSet(made[b].users)
      PROVE  ups # {}
  <2>1. \A v : ggpo \subseteq {v} => FALSE
    <3>1. ASSUME NEW v, ggpo \subseteq {v}
          PROVE  FALSE
      <4>1. IsFiniteSet({v}) /\ Cardinality({v}) = 1
        BY FS_Singleton
      <4>2. ggpo \in SUBSET {v}
        BY <3>1
      <4>3. Cardinality(ggpo) <= 1 /\ Cardinality(ggpo) \in Nat
        BY <4>1, <4>2, FS_Subset, FS_CardinalityType
      <4> QED  BY <1>4, <4>3
    <3> QED  BY <3>1
  <2>2. PICK v \in ggpo : TRUE
    BY <2>1
  <2>3. PICK o \in here : v = UserOf[o]
    BY <1>1, <1>4, <2>2
  <2>4. \A q \in here : /\ \A u : InfoOf(q, u) = at[b].info[u]
                        /\ \A u \in ToSet(made[b].users) : GoodInfo(at[b].info[u])
    BY <1>2, AnsweredFromCopies
  <2>5. PICK w : w = LiveUplink(o)
    OBVIOUS
  <2>6. w \in ToSet(made[b].users) /\ at[b].info[w].ggpo
    <3>1. v \in ToSet(PlayersOf(o)) /\ InfoOf(o, v).ggpo
      BY <1>1, <1>2, <2>2, <2>3, <2>4
    <3> QED  BY <1>2, <2>4, <2>5, <3>1, UplinkIsPlayer
  <2>7. PICK p \in here : w = UserOf[p]
    BY <1>4, <2>6
  <2>8. PICK u \in ggpo : u # w
    BY <2>1
  <2>9. LiveUplink(p) = UserOf[p]
    BY <1>2, <2>3, <2>5, <2>7, AnsweredAlike
  <2>10. Bridged(p)
    <3>1. info[p] = at[b].info[w]
      BY <1>2, <2>7 DEF InfoInv, AskersCopied
    <3> QED  BY <1>2, <1>4, <2>4, <2>6, <2>7, <3>1 DEF Bridged, GoodInfo
  <2>11. u \in GgpoPorts(p)
    <3>1. u \in ToSet(PlayersOf(p)) /\ InfoOf(p, u).ggpo /\ InfoOf(p, u).udp
      BY <1>1, <1>2, <2>4, <2>7, <2>8 DEF GoodInfo
    <3> QED  BY <2>7, <2>8, <3>1 DEF GgpoPorts, Candidates
  <2>12. ToldUplink(p)
    BY <2>9, <2>10, <2>11 DEF ToldUplink
  <2> QED  BY <1>1, <2>7, <2>12
<1> QED  BY <1>1, <1>3, <1>4

(* What p is offered before what: the lobby's own relay after all others,  *)
(* these by their worst pairs.                                             *)
WorstRtts(p, S) == [r \in S |-> WorstRtt(p, r)]
OfferedBefore(p, a, c) ==
  /\ a \in Relays
  /\ c = OwnRelay \/ (c \in Relays /\ Before(WorstRtts(p, Relays), a, c))

(* Whatever is offered to p just now, it is offered in this order. *)
LEMMA OffersAreOrdered ==
  ASSUME InfoInv, NEW p \in Conns, Asking(p), NEW s \in RelayOffers(p),
         NEW i \in DOMAIN s, NEW j \in DOMAIN s, i < j
  PROVE  OfferedBefore(p, s[i], s[j])
<1>1. PICK offered \in SUBSET Relays : s = RelayServers(p, offered)
  BY DEF RelayOffers
<1>2. s = BattleRelays(p, offered)
  <2>1. s # <<>>
    OBVIOUS
  <2> QED  BY <1>1, <2>1 DEF RelayServers
<1>3. /\ Relays \subseteq Nat /\ IsFiniteSet(offered) /\ offered \in SUBSET Nat
      /\ MaxRelays \in Nat
  <2>1. Relays \subseteq Nat /\ IsFiniteSet(Relays) /\ MaxRelays \in Nat
    BY BattleInfoAssumption
  <2> QED  BY <2>1, FS_Subset
<1>4. PICK f, l, n : f = WorstRtts(p, offered) /\ l = InOrder(f) /\ n = Cardinality(offered)
  OBVIOUS
<1>5. DOMAIN f = offered /\ \A r \in offered : f[r] \in Nat /\ f[r] = WorstRtts(p, Relays)[r]
  BY <1>4, WorstIsNumber DEF WorstRtts
<1>6. Ordered(f, offered, l) /\ l \in Seq(offered) /\ Len(l) = n /\ n \in Nat
  BY <1>3, <1>4, <1>5, InOrderFacts, FS_CardinalityType
<1>7. /\ \A k \in 1 .. n : l[k] \in offered
      /\ \A k, m \in 1 .. n : k < m => Before(f, l[k], l[m])
  BY <1>4, <1>6 DEF Ordered
<1>8. PICK full : full = l \o <<OwnRelay>>
  OBVIOUS
<1>9. /\ full \in Seq(offered \cup {OwnRelay}) /\ Len(full) = n + 1
      /\ \A k \in 1 .. n : full[k] = l[k]
      /\ full[n + 1] = OwnRelay
  <2>1. l \in Seq(offered \cup {OwnRelay}) /\ <<OwnRelay>> \in Seq(offered \cup {OwnRelay})
        /\ Len(<<OwnRelay>>) = 1 /\ <<OwnRelay>>[1] = OwnRelay
    BY <1>6
  <2>2. /\ full \in Seq(offered \cup {OwnRelay}) /\ Len(full) = Len(l) + Len(<<OwnRelay>>)
        /\ \A k \in 1 .. Len(l) + Len(<<OwnRelay>>) :
             full[k] = IF k <= Len(l) THEN l[k] ELSE <<OwnRelay>>[k - Len(l)]
    BY <1>8, <2>1, ConcatProperties
  <2> QED  BY <1>6, <2>1, <2>2
<1>10. PICK m : m = Min({Len(full), MaxRelays})
  OBVIOUS
<1>11. m \in Nat /\ m <= n + 1
  <2>1. CASE n + 1 <= MaxRelays
    <3>1. \A y \in {n + 1, MaxRelays} : n + 1 =< y
      BY <1>6, <2>1
    <3>2. m \in {n + 1, MaxRelays} /\ \A y \in {n + 1, MaxRelays} : m =< y
      BY <1>9, <1>10, <3>1 DEF Min
    <3> QED  BY <1>3, <1>6, <3>2
  <2>2. CASE MaxRelays < n + 1
    <3>1. \A y \in {n + 1, MaxRelays} : MaxRelays =< y
      BY <1>3, <1>6, <2>2
    <3>2. m \in {n + 1, MaxRelays} /\ \A y \in {n + 1, MaxRelays} : m =< y
      BY <1>9, <1>10, <3>1 DEF Min
    <3> QED  BY <1>3, <1>6, <3>2
  <2> QED  BY <1>3, <1>6, <2>1, <2>2
<1>12. s = SubSeq(full, 1, m)
  BY <1>2, <1>4, <1>8, <1>10 DEF BattleRelays, WorstRtts
<1>13. DOMAIN s = 1 .. m /\ \A k \in 1 .. m : s[k] = full[k]
  <2>1. 1 \in Int /\ m \in Int /\ \A k \in 1 .. m : full[k] \in offered \cup {OwnRelay}
    BY <1>7, <1>9, <1>11
  <2>2. /\ s \in Seq(offered \cup {OwnRelay}) /\ Len(s) = IF 1 <= m THEN m - 1 + 1 ELSE 0
        /\ \A k \in 1 .. m - 1 + 1 : s[k] = full[1 + k - 1]
    BY <1>12, <2>1, SubSeqProperties
  <2>3. Len(s) = m /\ \A k \in 1 .. m : s[k] = full[k]
    BY <1>11, <2>2
  <2> QED  BY <2>2, <2>3, LenProperties
<1>14. i \in 1 .. n /\ s[i] = l[i] /\ (j \in 1 .. n \/ j = n + 1) /\ s[j] = full[j]
  <2>1. i \in Nat /\ j \in Nat /\ 1 <= i /\ j <= m /\ s[i] = full[i] /\ s[j] = full[j]
    BY <1>11, <1>13
  <2>2. i \in 1 .. n /\ (j \in 1 .. n \/ j = n + 1)
    BY <1>6, <1>11, <2>1
  <2> QED  BY <1>9, <2>1, <2>2
<1>15. CASE j = n + 1
  BY <1>7, <1>9, <1>14, <1>15 DEF OfferedBefore
<1>16. CASE j \in 1 .. n
  <2>1. Before(f, l[i], l[j]) /\ l[i] \in offered /\ l[j] \in offered /\ s[j] = l[j]
    BY <1>7, <1>9, <1>14, <1>16
  <2>2. Before(WorstRtts(p, Relays), l[i], l[j])
    BY <1>5, <2>1 DEF Before
  <2> QED  BY <1>14, <2>1, <2>2 DEF OfferedBefore
<1> QED  BY <1>14, <1>15, <1>16

(* Who asks for the same battle is offered relays in the same order. *)
LEMMA RelayOrderFollows ==
  ASSUME InfoInv
  PROVE  RelayOrderAgrees
<1> SUFFICES ASSUME NEW p \in Conns, Asking(p), NEW q \in Conns, Asking(q),
                    conn[p].battle = conn[q].battle,
                    NEW s \in RelayOffers(p), NEW t \in RelayOffers(q),
                    NEW i \in DOMAIN s, NEW j \in DOMAIN s, i < j,
                    NEW k \in DOMAIN t, NEW l \in DOMAIN t, k < l,
                    s[i] = t[l], s[j] = t[k]
             PROVE  FALSE
  BY DEF RelayOrderAgrees
<1>1. PICK a, c : a = s[i] /\ c = s[j]
  OBVIOUS
<1>2. OfferedBefore(p, a, c) /\ OfferedBefore(q, c, a)
  BY <1>1, OffersAreOrdered
<1>3. WorstRtts(p, Relays) = WorstRtts(q, Relays)
  BY AnsweredAlike DEF WorstRtts
<1>4. PICK f : f = WorstRtts(p, Relays)
  OBVIOUS
<1>5. a \in Relays /\ c \in Relays /\ Before(f, a, c) /\ Before(f, c, a)
  BY <1>2, <1>3, <1>4, BattleInfoAssumption DEF OfferedBefore
<1>6. \A r \in Relays : f[r] \in Nat
  BY <1>4, WorstIsNumber DEF WorstRtts
<1> QED  BY <1>5, <1>6, BattleInfoAssumption, BeforeOneWay

(* Whoever is waited for is found in its battle. *)
LEMMA ProxyFindsFollows ==
  ASSUME InfoInv
  PROVE  ProxyFindsBattle
<1>1. InBattle /\ WentWhole
  BY DEF InfoInv, IInv
<1>2. \A u \in Users : battles[u] # 0 => GetBattleInfo(u) = battles[u]
  BY <1>1 DEF InBattle, GetBattleInfo
<1> QED  BY <1>1, <1>2 DEF WentWhole, ProxyFindsBattle

-----------------------------------------------------------------------------
(* No two proxies are behind one address, so that a user's proxy is always *)
(* the same.  (A proxy that asks for _AUTO_ is registered for any user of  *)
(* its address, in place of the one before.  Where players share a network *)
(* a player that asks twice may be sent to one and then to the other.)     *)
ProxiesApart == \A q, r \in Proxied : IpOf[q] = IpOf[r] => q = r

(* What the list of relays is cut to. *)
CutOff(f) ==
  LET list == InOrder(f) \o <<OwnRelay>>
  IN  SubSeq(list, 1, Min({Len(list), MaxRelays}))

(* The answers are worked out from the battle, its copies, and the one who *)
(* asks: if these stay so do the answers.                                  *)
LEMMA AnswersKept ==
  ASSUME NEW p \in Conns, conn'[p].battle = conn[p].battle,
         made'[conn[p].battle] = made[conn[p].battle],
         at'[conn[p].battle] = at[conn[p].battle], info'[p] = info[p],
         UserOf[p] \in at[conn[p].battle].udpUsers => proxy'[p] = proxy[p]
  PROVE  Answers(p, {})' = Answers(p, {})
<1>1. PlayersOf(p)' = PlayersOf(p)
  BY DEF PlayersOf
<1>2. \A u : InfoOf(p, u)' = InfoOf(p, u)
  BY DEF InfoOf
<1>3. OnGetBattleUserPosition(p)' = OnGetBattleUserPosition(p)
  BY <1>1 DEF OnGetBattleUserPosition
<1>4. OnGetBattleServerAddress(p)' = OnGetBattleServerAddress(p)
  BY DEF OnGetBattleServerAddress
<1>5. Bridged(p)' = Bridged(p)
  BY DEF Bridged, TestBattle
<1>6. Candidates(p)' = Candidates(p)
  BY <1>1, <1>2 DEF Candidates
<1>7. GgpoPorts(p)' = GgpoPorts(p)
  BY <1>2, <1>6 DEF GgpoPorts
<1>8. Rtts(p)' = Rtts(p)
  <2>1. {i \in DOMAIN PlayersOf(p) : InfoOf(p, PlayersOf(p)[i]).ggpo}'
          = {i \in DOMAIN PlayersOf(p) : InfoOf(p, PlayersOf(p)[i]).ggpo}
    BY <1>1, <1>2
  <2> QED  BY <1>1, <1>2, <2>1 DEF Rtts
<1>9. LiveUplink(p)' = LiveUplink(p)
  BY <1>1, <1>8, Zenon DEF LiveUplink
<1>10. ToldUplink(p)' = ToldUplink(p)
  BY <1>5, <1>7, <1>9 DEF ToldUplink
<1>11. BattleRelays(p, {})' = BattleRelays(p, {})
  <2>1. WorstRtts(p, {})' = WorstRtts(p, {})
    BY DEF WorstRtts
  <2>2. /\ BattleRelays(p, {}) = CutOff(WorstRtts(p, {}))
        /\ BattleRelays(p, {})' = CutOff(WorstRtts(p, {})')
    BY DEF BattleRelays, CutOff, WorstRtts
  <2> QED  BY <2>1, <2>2
<1>12. RelayServers(p, {})' = RelayServers(p, {})
  BY <1>1, <1>2, <1>11 DEF RelayServers
<1>13. BattleInfoNotice(p, {})' = BattleInfoNotice(p, {})
  BY <1>6, <1>7, <1>10, <1>12 DEF BattleInfoNotice
<1>14. GetBattleServerAddress(p, {})' = GetBattleServerAddress(p, {})
  BY <1>4, <1>5, <1>13 DEF GetBattleServerAddress
<1> QED  BY <1>1, <1>3, <1>14 DEF Answers

(* No step changes what one is told of its battle. *)
LEMMA AnswersStayStep ==
  ASSUME ProxiesApart, InfoInv, InfoNext, NEW p \in Conns, Asking(p), Asking(p)',
         conn'[p].battle = conn[p].battle
  PROVE  Answers(p, {})' = Answers(p, {})
<1>1. /\ IInv /\ InfosFit /\ CopiesFit /\ AskersCopied /\ TypeOK /\ SameBattle
      /\ made \in Seq(BattleRecs)
  BY DEF InfoInv, IInv, InBattle
<1>2. conn[p].battle \in 1 .. Len(made)
  <2>1. conn[p].battle \in DOMAIN made
    BY AnsweredFromCopies
  <2> QED  BY <1>1, <2>1, LenProperties
<1>3. CASE HandlerKeeps
  <2>1. TypeOK' /\ Steps
    BY <1>1, InfoStepKinds, StepKinds
  <2>2. PICK F \in SUBSET Conns, whole \in BOOLEAN : NewBattle(F, whole) /\ (F # {} => Len(made') = Len(made) + 1)
    BY <1>1, <2>1, BattleOfStep
  <2>3. \A b \in 1 .. Len(made) : made'[b] = made[b]
    BY <1>1, <2>2, BattlesGrow
  <2>4. \A b \in 1 .. Len(made) : at'[b] = at[b]
    BY <1>1, <1>3, <2>2, CopiesGrow DEF HandlerKeeps
  <2>5. info'[p] = info[p] /\ proxy'[p] = proxy[p]
    BY <1>3, KeptFields DEF HandlerKeeps, Asking
  <2> QED  BY <1>2, <2>3, <2>4, <2>5, AnswersKept
<1>4. ASSUME made' = made, at' = at, info'[p] = info[p],
             UserOf[p] \in at[conn[p].battle].udpUsers => proxy'[p] = proxy[p]
      PROVE  Answers(p, {})' = Answers(p, {})
  BY <1>4, AnswersKept
<1>5. ASSUME NEW q \in Conns, NEW i \in InfosOf[q], Login(q, i) \/ OnPlatformInfo(q, i)
      PROVE  Answers(p, {})' = Answers(p, {})
  <2>1. q # p
    BY <1>2, <1>5 DEF Login, OnDecideUserID, OnPlatformInfo, Asking
  <2>2. made' = made /\ at' = at /\ proxy' = proxy /\ info' = [info EXCEPT ![q] = i]
    BY <1>5 DEF Login, OnDecideUserID, OnPlatformInfo, vars
  <2>3. info'[p] = info[p]
    BY <1>1, <2>1, <2>2 DEF InfosFit
  <2> QED  BY <1>4, <2>2, <2>3
<1>6. ASSUME NEW q \in Proxied, NEW o \in Conns, RegisterProxy(q, o)
      PROVE  Answers(p, {})' = Answers(p, {})
  <2>1. /\ made' = made /\ at' = at /\ info' = info /\ IpOf[o] = IpOf[q]
        /\ proxy'[p] = IF p = o THEN q ELSE proxy[p]
    BY <1>1, <1>6 DEF RegisterProxy, vars, InfosFit
  <2>2. ASSUME UserOf[p] \in at[conn[p].battle].udpUsers
        PROVE  proxy'[p] = proxy[p]
    <3>1. proxy[p] \in Proxied /\ IpOf[proxy[p]] = IpOf[p]
      BY <1>1, <2>2 DEF AskersCopied, InfosFit
    <3> QED  BY <2>1, <3>1 DEF ProxiesApart
  <2> QED  BY <1>4, <2>1, <2>2
<1>7. CASE allVars' = allVars
  BY <1>4, <1>7 DEF allVars, vars, infoVars
<1> QED  BY <1>3, <1>5, <1>6, <1>7, InfoStepKinds

-----------------------------------------------------------------------------
(* The lobby with what it keeps for the answers is still the lobby: all    *)
(* that is proved of it above holds here as well.                          *)
THEOREM InfoRefinesLobby == InfoSpec => Spec
<1>1. InfoInit => Init
  BY DEF InfoInit
<1>2. [InfoNext]_allVars => [Next]_vars
  BY InfoStepKinds
<1> QED  BY <1>1, <1>2, PTL DEF InfoSpec, Spec

(* The inductive invariant of the answers holds in every state. *)
THEOREM InfoInvariantHolds == InfoSpec => []InfoInv
BY InfoInitHolds, InfoStepHolds, PTL DEF InfoSpec

(* Of a battle's players one at most is told to stream it, and no two get  *)
(* two relays in opposite orders, though each asks at its own time, while  *)
(* others leave, send other infos, and relays come and go (liveUplink,     *)
(* battleRelays and battleInfoNotice in msg_battle.go, relay_regions.go).  *)
THEOREM AnswersAlwaysAgree == InfoSpec => []AnswersAgree
<1>1. InfoInv => AnswersAgree
  BY OneUplinkFollows, RelayOrderFollows DEF AnswersAgree
<1> QED  BY InfoInvariantHolds, <1>1, PTL

(* The RPC that a zproxy makes always finds the battle that its player     *)
(* went to, and all players were told of that (getBattleInfo in            *)
(* app_rpc.go).                                                            *)
THEOREM ProxiesFindBattles == InfoSpec => []ProxyFindsBattle
<1>1. InfoInv => ProxyFindsBattle
  BY ProxyFindsFollows
<1> QED  BY InfoInvariantHolds, <1>1, PTL

(* Whenever a player asks, it is told the same of its battle, as long as   *)
(* no two proxies share an address (the OnGetBattle... handlers and        *)
(* battleInfoNotice in msg_battle.go, registerProxy in app_rpc.go).        *)
THEOREM AnswersAlwaysStay ==
  ASSUME ProxiesApart
  PROVE  InfoSpec => AnswersStay
<1>1. ASSUME InfoInv, [InfoNext]_allVars
      PROVE  [\A p \in Conns :
                Asking(p) /\ Asking(p)' /\ conn'[p].battle = conn[p].battle =>
                  Answers(p, {})' = Answers(p, {})]_allVars
  BY <1>1, AnswersStayStep
<1> QED  BY InfoInvariantHolds, <1>1, PTL DEF InfoSpec, AnswersStay

-----------------------------------------------------------------------------
(* LobbyConn: the wake-ups of a connection.                                *)

(* What the loop's channel holds: who comes and goes, their messages, and  *)
(* functions, which are nobody's.                                          *)
ConnEvents ==
  [kind : {"come", "message", "leave"}, peer : Sockets] \cup [kind : {"func"}, peer : {NoPeer}]

(* Nothing is read twice into inbuf: with what readLoop holds it is never  *)
(* more than was read.                                                     *)
ReadOnce ==
  \A c \in Sockets :
    /\ inbuf[c] + reader[c].got <= bytes[c]
    /\ reader[c].at # "locks" => reader[c].got = 0

(* What is common to the steps of the goroutines that read.                *)
ReadSide(c) == Read(c) \/ ReadLoop(c) \/ DispatchLoop(c)

(* The parts of the invariant about each side of a connection. *)
ServedIn ==
  \A c \in Sockets : Size <= inbuf[c] =>
    \/ chDispatch[c] \/ reader[c].at = "wakes"
    \/ dispatcher[c] \in {"locks", "holding", "posting", "ended"}
ServedOut ==
  \A c \in Sockets :
    outbuf[c] => chWrite[c] \/ c \in answered \/ writer[c] \in {"locks", "ended"}

(* The types of the two sides, and of the rest. *)
ReadTypes ==
  /\ bytes \in [Sockets -> 0 .. MaxBytes]
  /\ reader \in [Sockets -> [at : {"reads", "locks", "wakes", "ended"}, got : 0 .. MaxBytes]]
  /\ inbuf \in [Sockets -> 0 .. MaxBytes]
  /\ chDispatch \in [Sockets -> BOOLEAN]
  /\ dispatcher \in
       [Sockets -> {"waits", "locks", "holding", "posting", "stuck", "ended"}]
WriteTypes ==
  /\ outbuf \in [Sockets -> BOOLEAN] /\ chWrite \in [Sockets -> BOOLEAN]
  /\ writer \in [Sockets -> {"waits", "locks", "writes", "ended"}]
LifeTypes ==
  /\ remote \in [Sockets -> {"alive", "closed", "dead"}]
  /\ open \in [Sockets -> BOOLEAN] /\ done \in [Sockets -> BOOLEAN]
  /\ serve \in [Sockets -> {"opens", "serves", "ended"}]
LoopTypes ==
  /\ chEvent \in Seq(ConnEvents) /\ Len(chEvent) <= MaxEvents
  /\ peers \subseteq Sockets /\ loggedIn \subseteq Sockets /\ answered \subseteq Sockets

ReadInv == ReadTypes /\ ReadOnce /\ ServedIn
WriteInv == WriteTypes /\ ServedOut

ConnInv == LifeTypes /\ ReadInv /\ WriteInv /\ LoopTypes

(* It says all that BuffersServed does. *)
LEMMA ConnInvServes == ConnInv => BuffersServed
BY DEF ConnInv, LifeTypes, ReadInv, ReadTypes, WriteInv, WriteTypes, LoopTypes,
   ServedIn, ServedOut, BuffersServed, ConnTypeOK, NoLostWakeUp

(* An event that is posted finds room. *)
LEMMA PostKeeps ==
  ASSUME LoopTypes, NEW kind, NEW c, [kind |-> kind, peer |-> c] \in ConnEvents, Post(kind, c)
  PROVE  chEvent' \in Seq(ConnEvents) /\ Len(chEvent') <= MaxEvents
BY ConnAssumption DEF LoopTypes, Post, CanPost

(* The event the loop takes is one of those, and the rest has room. *)
LEMMA HandlesKeeps ==
  ASSUME LoopTypes, NEW kind, Handles(kind)
  PROVE  /\ chEvent' \in Seq(ConnEvents) /\ Len(chEvent') <= MaxEvents
         /\ Head(chEvent) \in ConnEvents /\ Head(chEvent).kind = kind
<1>1. /\ chEvent \in Seq(ConnEvents) /\ chEvent # <<>> /\ Len(chEvent) <= MaxEvents
      /\ chEvent' = Tail(chEvent) /\ Head(chEvent).kind = kind
  BY DEF LoopTypes, Handles
<1>2. Tail(chEvent) \in Seq(ConnEvents) /\ Len(Tail(chEvent)) = Len(chEvent) - 1
      /\ Head(chEvent) \in ConnEvents /\ Len(chEvent) \in Nat
  BY <1>1
<1> QED BY <1>1, <1>2, ConnAssumption

-----------------------------------------------------------------------------
(* The reading side.                                                       *)

(* No step of the goroutines that read loses a wake-up of dispatchLoop. *)
LEMMA ReadSideKeeps ==
  ASSUME ReadInv, NEW c \in Sockets, ReadSide(c)
  PROVE  ReadInv'
<1>0. Size \in Nat /\ HeaderSize \in Nat /\ HeaderSize <= Size /\ MaxBytes \in Nat
  BY ConnAssumption
<1>1. CASE Read(c)
  <2>1. PICK n \in 1 .. MaxBytes - bytes[c] :
          /\ bytes' = [bytes EXCEPT ![c] = @ + n]
          /\ reader' = [reader EXCEPT ![c] = [at |-> "locks", got |-> n]]
    BY <1>1 DEF Read, Becomes
  <2>2. reader[c].at = "reads" /\ UNCHANGED <<inbuf, chDispatch, dispatcher>>
    BY <1>1 DEF Read
  <2>3. ReadTypes'
    BY <1>0, <2>1, <2>2 DEF ReadInv, ReadTypes
  <2>4. ReadOnce'
    BY <1>0, <2>1, <2>2 DEF ReadInv, ReadTypes, ReadOnce
  <2>5. ServedIn'
    BY <2>1, <2>2 DEF ReadInv, ReadTypes, ServedIn
  <2> QED BY <2>3, <2>4, <2>5 DEF ReadInv
<1>2. CASE ReadEnds(c) \/ WakeDispatcher(c)
  <2>1. /\ \E there \in {"ended", "reads"} :
             reader' = [reader EXCEPT ![c] = [at |-> there, got |-> 0]]
        /\ UNCHANGED <<bytes, inbuf, dispatcher>>
        /\ reader[c].at \in {"reads", "wakes"}
        /\ \/ chDispatch' = chDispatch /\ reader[c].at # "wakes"
           \/ chDispatch' = [chDispatch EXCEPT ![c] = TRUE]
    BY <1>2 DEF ReadEnds, WakeDispatcher, Becomes, Wakes
  <2>2. ReadTypes'
    <3>1. PICK there \in {"ended", "reads"} : reader' = [reader EXCEPT ![c] = [at |-> there, got |-> 0]]
      BY <2>1
    <3>2. reader' \in [Sockets -> [at : {"reads", "locks", "wakes", "ended"}, got : 0 .. MaxBytes]]
      BY <1>0, <3>1 DEF ReadInv, ReadTypes
    <3>3. chDispatch' \in [Sockets -> BOOLEAN]
      BY <2>1 DEF ReadInv, ReadTypes
    <3> QED BY <2>1, <3>2, <3>3 DEF ReadInv, ReadTypes
  <2>3. ReadOnce'
    BY <1>0, <2>1 DEF ReadInv, ReadTypes, ReadOnce
  <2>4. ServedIn'
    BY <2>1 DEF ReadInv, ReadTypes, ServedIn
  <2> QED BY <2>2, <2>3, <2>4 DEF ReadInv
<1>3. CASE Fill(c)
  <2>1. /\ inbuf' = [inbuf EXCEPT ![c] = @ + reader[c].got]
        /\ reader' = [reader EXCEPT ![c] = [at |-> "wakes", got |-> 0]]
        /\ UNCHANGED <<bytes, chDispatch, dispatcher>>
    BY <1>3 DEF Fill, Becomes
  <2>2. inbuf[c] + reader[c].got \in 0 .. MaxBytes
    BY <1>0 DEF ReadInv, ReadTypes, ReadOnce
  <2>3. ReadTypes' /\ ServedIn'
    BY <1>0, <2>1, <2>2 DEF ReadInv, ReadTypes, ServedIn
  <2>4. ReadOnce'
    BY <1>0, <2>1 DEF ReadInv, ReadTypes, ReadOnce
  <2> QED BY <2>3, <2>4 DEF ReadInv
<1>4. CASE StartDispatch(c) \/ LockInbuf(c) \/ DispatchEnds(c)
  BY <1>4 DEF StartDispatch, LockInbuf, DispatchEnds, Becomes, readVars,
     ReadInv, ReadTypes, ReadOnce, ServedIn
<1>5. CASE PostMessage(c)
  BY <1>5 DEF PostMessage, Becomes, readVars, ReadInv, ReadTypes, ReadOnce, ServedIn
<1>6. CASE DispatchNoMore(c) \/ DispatchZero(c)
  BY <1>0, <1>6 DEF DispatchNoMore, DispatchZero, Becomes, readVars,
     ReadInv, ReadTypes, ReadOnce, ServedIn
<1>7. CASE Deserialize(c)
  <2>1. /\ inbuf' = [inbuf EXCEPT ![c] = @ - Size] /\ Size <= inbuf[c]
        /\ dispatcher' = [dispatcher EXCEPT ![c] = "posting"]
        /\ UNCHANGED <<bytes, reader, chDispatch>>
    BY <1>7 DEF Deserialize, Becomes
  <2> QED BY <1>0, <2>1 DEF ReadInv, ReadTypes, ReadOnce, ServedIn
<1> QED BY <1>1, <1>2, <1>3, <1>4, <1>5, <1>6, <1>7 DEF ReadSide, ReadLoop, DispatchLoop

-----------------------------------------------------------------------------
(* The writing side, and the event loop that wakes it.                     *)

(* No step of writeLoop, nor a wake-up it is given, strands what is to be  *)
(* written.                                                                *)
LEMMA WriteSideKeeps ==
  ASSUME WriteInv, NEW c \in Sockets, WriteLoop(c) \/ WakeWriter(c)
  PROVE  WriteInv'
<1>1. CASE StartWrite(c)
  BY <1>1 DEF StartWrite, Becomes, WriteInv, WriteTypes, ServedOut, loopVars
<1>2. CASE TakeOutbuf(c)
  BY <1>2 DEF TakeOutbuf, Becomes, WriteInv, WriteTypes, ServedOut, loopVars
<1>3. CASE Write(c) \/ WriteEnds(c)
  BY <1>3 DEF Write, WriteEnds, Becomes, WriteInv, WriteTypes, ServedOut, loopVars
<1>4. CASE WakeWriter(c)
  BY <1>4 DEF WakeWriter, Wakes, WriteInv, WriteTypes, ServedOut
<1> QED BY <1>1, <1>2, <1>3, <1>4 DEF WriteLoop

(* What the event loop sends waits for it to wake the writer: it sends     *)
(* nothing else before.                                                    *)
LEMMA SendKeeps ==
  ASSUME WriteInv, NEW to \in SUBSET Sockets, answered = {}, Send(to),
         UNCHANGED <<chWrite, writer>>
  PROVE  WriteInv' /\ answered' \subseteq Sockets
BY DEF Send, WriteInv, WriteTypes, ServedOut

-----------------------------------------------------------------------------
(* At first nothing waits. *)
LEMMA ConnInitially == ConnInit => ConnInv
<1> SUFFICES ASSUME ConnInit PROVE ConnInv
  OBVIOUS
<1>1. LifeTypes /\ LoopTypes
  BY ConnAssumption DEF ConnInit, LifeTypes, LoopTypes
<1>2. ReadInv
  BY ConnAssumption DEF ConnInit, ReadInv, ReadTypes, ReadOnce, ServedIn
<1>3. WriteInv
  BY DEF ConnInit, WriteInv, WriteTypes, ServedOut
<1> QED BY <1>1, <1>2, <1>3 DEF ConnInv

(* Every step keeps the invariant. *)
LEMMA ConnStep == ConnInv /\ [ConnNext]_connVars => ConnInv'
<1> SUFFICES ASSUME ConnInv, [ConnNext]_connVars PROVE ConnInv'
  OBVIOUS
<1> USE DEF readVars, writeVars, loopVars
<1>0. LifeTypes /\ ReadInv /\ WriteInv /\ LoopTypes
  BY DEF ConnInv
<1>r. UNCHANGED <<readVars, dispatcher>> => ReadInv'
  BY <1>0 DEF ReadInv, ReadTypes, ReadOnce, ServedIn
<1>w. UNCHANGED <<writeVars, answered>> => WriteInv'
  BY <1>0 DEF WriteInv, WriteTypes, ServedOut
<1>l. UNCHANGED <<remote, open, done, serve>> => LifeTypes'
  BY <1>0 DEF LifeTypes
<1>e. UNCHANGED <<chEvent, loopVars>> => LoopTypes'
  BY <1>0 DEF LoopTypes
<1>p. ASSUME UNCHANGED loopVars, NEW kind, NEW c,
             [kind |-> kind, peer |-> c] \in ConnEvents, Post(kind, c)
      PROVE  LoopTypes'
  <2>1. chEvent' \in Seq(ConnEvents) /\ Len(chEvent') <= MaxEvents
    BY <1>0, <1>p, PostKeeps
  <2> QED BY <1>0, <1>p, <2>1 DEF LoopTypes
<1>1. CASE UNCHANGED connVars
  BY <1>1, <1>r, <1>w, <1>l, <1>e DEF ConnInv, connVars
<1>2. ASSUME NEW c \in Sockets, Hangs(c) \/ Open(c) \/ Leave(c)  PROVE ConnInv'
  <2>1. UNCHANGED <<readVars, dispatcher, writeVars, loopVars>>
    BY <1>2 DEF Hangs, Open, Leave
  <2>2. LifeTypes'
    BY <1>0, <1>2 DEF Hangs, Open, Leave, Becomes, LifeTypes
  <2>3. LoopTypes'
    <3>1. CASE Hangs(c)
      BY <1>e, <3>1 DEF Hangs
    <3>2. CASE Open(c) \/ Leave(c)
      <4>1. Post("come", c) \/ Post("leave", c)
        BY <3>2 DEF Open, Leave
      <4> QED BY <1>p, <2>1, <4>1 DEF ConnEvents
    <3> QED BY <1>2, <3>1, <3>2
  <2> QED BY <1>r, <1>w, <2>1, <2>2, <2>3 DEF ConnInv
<1>3. ASSUME NEW c \in Sockets, ReadSide(c)  PROVE ConnInv'
  <2>1. UNCHANGED <<remote, open, serve, writeVars, loopVars>> /\ (done' = done \/ Cancel(c))
    BY <1>3 DEF ReadSide, ReadLoop, DispatchLoop, Read, ReadEnds, Fill, WakeDispatcher,
       StartDispatch, LockInbuf, Deserialize, PostMessage, DispatchNoMore, DispatchZero,
       DispatchEnds
  <2>2. LifeTypes'
    BY <1>0, <2>1 DEF LifeTypes, Cancel
  <2>3. chEvent' = chEvent \/ Post("message", c)
    BY <1>3 DEF ReadSide, ReadLoop, DispatchLoop, Read, ReadEnds, Fill, WakeDispatcher,
       StartDispatch, LockInbuf, Deserialize, PostMessage, DispatchNoMore, DispatchZero,
       DispatchEnds
  <2>4. LoopTypes'
    BY <1>e, <1>p, <2>1, <2>3 DEF ConnEvents
  <2> QED BY <1>0, <1>3, <1>w, <2>1, <2>2, <2>4, ReadSideKeeps DEF ConnInv
<1>4. ASSUME NEW c \in Sockets, WriteLoop(c) \/ WakeWriter(c)  PROVE ConnInv'
  <2>1. /\ UNCHANGED <<remote, open, done, serve, readVars, dispatcher, chEvent, peers, loggedIn>>
        /\ answered' \subseteq answered
    BY <1>4 DEF WriteLoop, WakeWriter, StartWrite, TakeOutbuf, Write, WriteEnds
  <2>2. LoopTypes'
    BY <1>0, <2>1 DEF LoopTypes
  <2> QED BY <1>0, <1>4, <1>r, <1>l, <2>1, <2>2, WriteSideKeeps DEF ConnInv
<1>5. CASE Locked
  <2>1. LoopTypes'
    BY <1>5, <1>p DEF Locked, ConnEvents
  <2> QED BY <1>5, <1>r, <1>w, <1>l, <2>1 DEF ConnInv, Locked
<1>6. CASE Handle
  <2>1. PICK kind \in {"come", "message", "leave", "func"} : Handles(kind)
    BY <1>6 DEF Handle, PeerCome, PeerMessage, PeerLeave, RunFunc
  <2> DEFINE from == Head(chEvent).peer
  <2>2. /\ chEvent' \in Seq(ConnEvents) /\ Len(chEvent') <= MaxEvents
        /\ kind # "func" => from \in Sockets
    BY <1>0, <2>1, HandlesKeeps DEF ConnEvents
  <2>3. /\ answered = {} /\ Head(chEvent).kind = kind
        /\ UNCHANGED <<remote, open, done, serve, readVars, dispatcher, chWrite, writer>>
    BY <2>1 DEF Handles
  <2>4. /\ kind = "come" => peers' = peers \cup {from} /\ Send({from}) /\ loggedIn' = loggedIn
        /\ kind = "message" => loggedIn' = loggedIn \cup {from} /\ Send({from}) /\ peers' = peers
        /\ kind = "leave" => /\ peers' = peers \ {from} /\ loggedIn' = loggedIn \ {from}
                             /\ UNCHANGED <<outbuf, answered>>
        /\ kind = "func" => UNCHANGED <<outbuf, loopVars>>
    BY <1>6, <2>3 DEF Handle, PeerCome, PeerMessage, PeerLeave, RunFunc, Handles
  <2>5. WriteInv' /\ answered' \subseteq Sockets
    <3>1. CASE kind \in {"come", "message"}
      BY <1>0, <2>2, <2>3, <2>4, <3>1, SendKeeps
    <3>2. CASE kind \in {"leave", "func"}
      BY <1>0, <1>w, <2>3, <2>4, <3>2 DEF LoopTypes
    <3> QED BY <3>1, <3>2
  <2>6. peers' \subseteq Sockets /\ loggedIn' \subseteq Sockets
    BY <1>0, <2>2, <2>4 DEF LoopTypes
  <2>7. LoopTypes'
    BY <2>2, <2>5, <2>6 DEF LoopTypes
  <2> QED BY <1>r, <1>l, <2>3, <2>5, <2>7 DEF ConnInv
<1>7. ASSUME NEW silent \in SUBSET peers, CheckAlive(silent)  PROVE ConnInv'
  <2>1. /\ answered = {} /\ Send(peers \ silent) /\ peers \subseteq Sockets
        /\ UNCHANGED <<remote, done, serve, readVars, dispatcher, chWrite, writer, chEvent,
                       peers, loggedIn>>
    BY <1>0, <1>7 DEF CheckAlive, LoopTypes
  <2>2. WriteInv' /\ answered' \subseteq Sockets
    BY <1>0, <2>1, SendKeeps
  <2>3. LifeTypes'
    BY <1>0, <1>7, <2>1 DEF CheckAlive, LifeTypes
  <2>4. LoopTypes'
    BY <1>0, <2>1, <2>2 DEF LoopTypes
  <2> QED BY <1>r, <2>1, <2>2, <2>3, <2>4 DEF ConnInv
<1> QED BY <1>1, <1>2, <1>3, <1>4, <1>5, <1>6, <1>7 DEF ConnNext, ReadSide

(* BuffersServed.  What is in outbuf, and every whole message in inbuf,    *)
(* has a goroutine that comes for it or a wake-up that brings one, though  *)
(* the channels hold one wake-up and nobody waits to leave one.            *)
THEOREM NoWakeUpIsLost == ConnSpec => []BuffersServed
BY ConnInvServes, ConnInitially, ConnStep, PTL DEF ConnSpec
=============================================================================
