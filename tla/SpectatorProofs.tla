-------------------------- MODULE SpectatorProofs --------------------------
(***************************************************************************)
(* Proofs about live spectating, for any number of battles and spectators, *)
(* any limits, and any deadlines of which the upload's is the shorter.     *)
(*                                                                         *)
(* Nothing here is inductive by itself.  That a turn of a round counts out *)
(* a spectator who is counted rests on each spectator being in one place   *)
(* at most, although ws is out of date during a round; that the closed     *)
(* have the whole stream rests on the views of a round, which may be out   *)
(* of date too, never saying done of an upload that still grows; and that  *)
(* none who is up to date is dropped as stalled compares the rounds it has *)
(* been idle with the rounds its upload has been silent.                   *)
(***************************************************************************)
EXTENDS Spectator, FiniteSetTheorems, SequenceTheorems, TLAPS

-----------------------------------------------------------------------------
(* The parts of the inductive invariant.                                   *)

(* No two positions of a sequence have the same element. *)
Distinct(s) == \A i, j \in 1 .. Len(s) : s[i] = s[j] => i = j

Watching == {w \in Watchers : watcher[w].state = "watching"}

(* An upload begins once, and ends once. *)
UploadsOnce ==
  \A b \in Heap : /\ store[b].uploaded <=> (store[b].uploading \/ store[b].done)
                  /\ ~ (store[b].uploading /\ store[b].done)

(* What is known of a request before it is closed. *)
RequestsFit ==
  \A w \in Watchers :
    /\ watcher[w].state \in {"away", "picked"} => watcher[w].pre
    /\ watcher[w].state = "away" => watcher[w].pos = 0
    /\ watcher[w].state # "closed" => watcher[w].why = "none"
    /\ w \in There => /\ watcher[w].b \in Heap
                      /\ store[watcher[w].b].uploaded
                      /\ watcher[w].pos <= store[watcher[w].b].buf

(* A spectator is in one place: in the channel, or with Run; in a round,   *)
(* with its turn to come or kept.  ws may hold those a round has dropped.  *)
OnePlace ==
  /\ Distinct(join) /\ Distinct(ws) /\ Distinct(round.todo) /\ Distinct(round.keep)
  /\ ToSet(join) \cap ToSet(ws) = {} /\ ToSet(round.todo) \cap ToSet(round.keep) = {}
  /\ ToSet(round.todo) \cup ToSet(round.keep) \subseteq ToSet(ws)
  /\ ToSet(join) \cup ToSet(round.todo) \cup ToSet(round.keep) \subseteq Watching
  /\ ~ round.on => ToSet(ws) \subseteq Watching /\ round = Resting

(* A view is a part of the stream, all of it when it says done. *)
ViewsFit ==
  \A b \in Heap : /\ round.views[b].buf <= store[b].buf
                  /\ round.views[b].done => /\ store[b].done
                                            /\ round.views[b].buf = store[b].buf

(* Who has been told the end has it all. *)
FinishedFit ==
  \A w \in Watchers : watcher[w].why = "finished" =>
    /\ watcher[w].b \in Heap /\ store[watcher[w].b].done
    /\ ~ watcher[w].pre /\ watcher[w].pos = store[watcher[w].b].buf

(* Who is up to date has been idle no longer than its upload was silent.   *)
IdleAsSilent ==
  \A w \in Watching :
    LET b == watcher[w].b
    IN  ~ watcher[w].pre /\ watcher[w].pos = store[b].buf /\ store[b].uploading
          => watcher[w].idle <= store[b].silent

(* So who is up to date when a round comes to it was not idle for long.    *)
IdleInRound ==
  \A w \in ToSet(round.todo) :
    LET v == round.views[watcher[w].b]
    IN  ~ Lacks(watcher[w], v) /\ ~ v.done => watcher[w].idle <= UploadIdle

IInv ==
  /\ TypeOK
  /\ IsFiniteSet(There) /\ CountsMatch
  /\ UploadsOnce
  /\ RequestsFit
  /\ OnePlace
  /\ ViewsFit
  /\ FinishedFit
  /\ IdleAsSilent
  /\ IdleInRound
-----------------------------------------------------------------------------
(* Sequences without repetitions.                                          *)

(* Membership, by position. *)
LEMMA InSet ==
  ASSUME NEW S, NEW s \in Seq(S)
  PROVE  /\ Len(s) \in Nat /\ DOMAIN s = 1 .. Len(s)
         /\ \A x : x \in ToSet(s) <=> \E i \in 1 .. Len(s) : s[i] = x
         /\ ToSet(s) \subseteq S
<1>1. Len(s) \in Nat /\ DOMAIN s = 1 .. Len(s) /\ \A i \in 1 .. Len(s) : s[i] \in S
  OBVIOUS
<1> QED
  BY <1>1 DEF ToSet

(* An element is added at the end. *)
LEMMA Added ==
  ASSUME NEW S, NEW s \in Seq(S), NEW x \in S
  PROVE  /\ Append(s, x) \in Seq(S)
         /\ ToSet(Append(s, x)) = ToSet(s) \cup {x}
         /\ Distinct(s) /\ x \notin ToSet(s) => Distinct(Append(s, x))
<1> DEFINE t == Append(s, x)
           n == Len(s)
<1>1. n \in Nat
  OBVIOUS
<1>2. /\ t \in Seq(S) /\ Len(t) = n + 1 /\ t[n + 1] = x
      /\ \A i \in 1 .. n : t[i] = s[i]
  BY AppendProperties
<1> HIDE DEF t, n
<1>3. \A i : i \in 1 .. n + 1 <=> i \in 1 .. n \/ i = n + 1
  BY <1>1
<1>4. \A y : y \in ToSet(t) <=> y \in ToSet(s) \cup {x}
  <2>1. \A y : y \in ToSet(t) <=> \E i \in 1 .. n + 1 : t[i] = y
    BY <1>2, InSet
  <2>2. \A y : y \in ToSet(s) <=> \E i \in 1 .. n : s[i] = y
    BY InSet DEF n
  <2> QED BY <2>1, <2>2, <1>2, <1>3
<1>5. ASSUME Distinct(s), x \notin ToSet(s)
      PROVE  Distinct(t)
  <2>1. \A i \in 1 .. n : s[i] # x
    BY <1>5, InSet DEF n
  <2>2. \A i, j \in 1 .. n : s[i] = s[j] => i = j
    BY <1>5 DEF Distinct, n
  <2> QED BY <2>1, <2>2, <1>2, <1>3 DEF Distinct
<1> QED
  BY <1>2, <1>4, <1>5 DEF t

(* The first element is taken away. *)
LEMMA Taken1 ==
  ASSUME NEW S, NEW s \in Seq(S), s # <<>>, Distinct(s)
  PROVE  /\ Head(s) \in ToSet(s) /\ Head(s) \in S
         /\ Tail(s) \in Seq(S) /\ Distinct(Tail(s))
         /\ ToSet(Tail(s)) = ToSet(s) \ {Head(s)}
<1> DEFINE n == Len(s)
           t == Tail(s)
<1>1. n \in Nat \ {0}
  BY EmptySeq
<1>2. /\ t \in Seq(S) /\ Len(t) = n - 1 /\ Head(s) = s[1]
      /\ \A i \in 1 .. n - 1 : t[i] = s[i + 1]
  BY HeadTailProperties
<1> HIDE DEF n, t
<1>3. \A y : y \in ToSet(s) <=> \E i \in 1 .. n : s[i] = y
  BY InSet DEF n
<1>4. \A y : y \in ToSet(t) <=> \E i \in 1 .. n - 1 : t[i] = y
  BY <1>2, InSet
<1>5. 1 \in 1 .. n /\ \A i \in 1 .. n - 1 : i + 1 \in 1 .. n /\ i + 1 # 1
  BY <1>1
<1>6. \A i, j \in 1 .. n : s[i] = s[j] => i = j
  BY DEF Distinct, n
<1>7. \A j \in 1 .. n : j # 1 => j - 1 \in 1 .. n - 1 /\ (j - 1) + 1 = j
  BY <1>1
<1>8. Distinct(t)
  <2>1. ASSUME NEW i \in 1 .. n - 1, NEW j \in 1 .. n - 1, t[i] = t[j]
        PROVE  i = j
    <3>1. s[i + 1] = s[j + 1]
      BY <1>2, <2>1
    <3>2. i + 1 = j + 1
      BY <1>5, <1>6, <3>1
    <3> QED BY <3>2
  <2> QED BY <2>1, <1>2 DEF Distinct
<1>9. \A y : y \in ToSet(t) => y \in ToSet(s) /\ y # s[1]
  BY <1>2, <1>3, <1>4, <1>5, <1>6
<1>10. \A y : y \in ToSet(s) /\ y # s[1] => y \in ToSet(t)
  <2> SUFFICES ASSUME NEW y, y \in ToSet(s), y # s[1] PROVE y \in ToSet(t)
    OBVIOUS
  <2>1. PICK j \in 1 .. n : s[j] = y
    BY <1>3
  <2>2. j - 1 \in 1 .. n - 1 /\ t[j - 1] = y
    BY <2>1, <1>2, <1>7
  <2> QED BY <2>2, <1>4
<1>11. Head(s) \in ToSet(s) /\ Head(s) \in S
  BY <1>2, <1>3, <1>5, InSet
<1>12. ToSet(t) = ToSet(s) \ {Head(s)}
  BY <1>2, <1>9, <1>10
<1> QED
  BY <1>2, <1>8, <1>11, <1>12 DEF t

(* Quotient and remainder. *)
LEMMA ModDef ==
  ASSUME NEW n \in Nat, NEW r \in Nat \ {0}
  PROVE  /\ n % r \in 0 .. r - 1
         /\ n = (r * (n \div r)) + (n % r)
         /\ n \div r \in Nat
  OBVIOUS

(* Numbers less than r apart have different remainders. *)
LEMMA ModApart ==
  ASSUME NEW r \in Nat \ {0}, NEW b \in Nat, NEW e \in Nat, b < e, e - b < r
  PROVE  b % r # e % r
<1> SUFFICES ASSUME b % r = e % r PROVE FALSE
  OBVIOUS
<1> DEFINE p == b \div r
           q == e \div r
           x == b % r
<1>1. x \in 0 .. r - 1 /\ b = r * p + x /\ p \in Nat
  BY ModDef
<1>2. e = r * q + x /\ q \in Nat
  BY ModDef
<1> HIDE DEF p, q, x
<1>3. r * (q - p) = e - b
  BY <1>1, <1>2
<1>4. q - p \in Int /\ (q - p <= 0 \/ q - p >= 1)
  BY <1>1, <1>2
<1>5. q - p >= 1 => r * (q - p) >= r
  BY <1>4
<1>6. q - p <= 0 => r * (q - p) <= 0
  BY <1>4
<1> QED
  BY <1>3, <1>4, <1>5, <1>6

(* A round goes through all of Run's spectators, each once, wherever it    *)
(* begins.                                                                 *)
LEMMA RotatedOnce ==
  ASSUME NEW S, NEW s \in Seq(S), NEW n \in Nat
  PROVE  /\ Rotated(s, n) \in Seq(S) /\ (Distinct(s) => Distinct(Rotated(s, n)))
         /\ ToSet(Rotated(s, n)) \subseteq ToSet(s)
         /\ (s # <<>> => Rotated(s, n) # <<>>)
<1> DEFINE L == Len(s)
           k(i) == 1 + ((i - 1 + n) % L)
           t == Rotated(s, n)
<1>1. L \in Nat /\ DOMAIN s = 1 .. L /\ \A i \in 1 .. L : s[i] \in S
  OBVIOUS
<1>2. t = [i \in 1 .. L |-> s[k(i)]]
  BY <1>1 DEF Rotated
<1>3. ASSUME NEW i \in 1 .. L
      PROVE  k(i) \in 1 .. L
  <2>1. L \in Nat \ {0} /\ i - 1 + n \in Nat
    BY <1>1
  <2>2. (i - 1 + n) % L \in 0 .. L - 1
    BY <2>1, ModDef
  <2> QED BY <2>1, <2>2
<1>4. ASSUME NEW i \in 1 .. L, NEW j \in 1 .. L, i < j
      PROVE  k(i) # k(j)
  <2>1. /\ L \in Nat \ {0} /\ i - 1 + n \in Nat /\ j - 1 + n \in Nat
        /\ i - 1 + n < j - 1 + n /\ (j - 1 + n) - (i - 1 + n) < L
    BY <1>1, <1>4
  <2>2. (i - 1 + n) % L # (j - 1 + n) % L
    BY <2>1, ModApart
  <2>3. (i - 1 + n) % L \in 0 .. L - 1 /\ (j - 1 + n) % L \in 0 .. L - 1
    BY <2>1, ModDef
  <2> QED BY <2>2, <2>3
<1> HIDE DEF L, k, t
<1>5. /\ t \in [1 .. L -> S] /\ DOMAIN t = 1 .. L
      /\ \A i \in 1 .. L : t[i] = s[k(i)]
  BY <1>1, <1>2, <1>3
<1>6. t \in Seq(S) /\ Len(t) = L
  BY <1>1, <1>5
<1>7. ASSUME Distinct(s)
      PROVE  Distinct(t)
  <2>1. ASSUME NEW i \in 1 .. L, NEW j \in 1 .. L, t[i] = t[j]
        PROVE  i = j
    <3>1. k(i) = k(j)
      BY <2>1, <1>3, <1>5, <1>7 DEF Distinct, L
    <3>2. ~ (i < j) /\ ~ (j < i)
      BY <3>1, <1>4
    <3> QED BY <3>2, <1>1
  <2> QED BY <2>1, <1>6 DEF Distinct
<1>8. ToSet(t) \subseteq ToSet(s)
  BY <1>3, <1>5, <1>6, InSet DEF L
<1>9. s # <<>> => t # <<>>
  <2>1. s # <<>> => L # 0
    BY EmptySeq DEF L
  <2> QED BY <2>1, <1>6, EmptySeq
<1> QED
  BY <1>6, <1>7, <1>8, <1>9 DEF t

-----------------------------------------------------------------------------
(* Records with fields replaced.                                           *)

BattleRecs == [uploaded : BOOLEAN, uploading : BOOLEAN, done : BOOLEAN,
               buf : 0 .. MaxBytes, silent : 0 .. UploadIdle,
               watchers : 0 .. MaxBattleWatchers]
WatcherRecs(n) == [state : {"away", "picked", "watching", "closed"}, b : 0 .. n,
                   pre : BOOLEAN, pos : 0 .. MaxBytes, idle : 0 .. Stall + 1,
                   why : {"none", "refused", "failed", "finished", "stalled"}]
ViewRecs == [buf : 0 .. MaxBytes, done : BOOLEAN]
RoundRecs == [on : BOOLEAN, views : [Heap -> ViewRecs],
              todo : Seq(Watchers), keep : Seq(Watchers), left : 0 .. Budget]

(* What StartUpload, Add, EndUpload, the counters and Begin make of one    *)
(* battle.                                                                 *)
Started(s) == [s EXCEPT !.uploaded = TRUE, !.uploading = TRUE]
Grown(s) == [s EXCEPT !.buf = s.buf + 1, !.silent = 0]
Ended(s) == [s EXCEPT !.uploading = FALSE, !.done = TRUE, !.silent = 0]
WithWatchers(s, n) == [s EXCEPT !.watchers = n]
Aged(s) == [s EXCEPT !.silent = IF s.uploading THEN s.silent + 1 ELSE s.silent]

(* The constants, one by one. *)
LEMMA Constants ==
  /\ MaxSpectators \in Nat \ {0} /\ MaxBattleWatchers \in Nat \ {0} /\ MaxBytes \in Nat \ {0}
  /\ JoinCap \in Nat \ {0} /\ Budget \in Nat \ {0} /\ Turns \in Nat \ {0} /\ MaxOpened \in Nat
  /\ UploadIdle \in Nat \ {0} /\ Stall \in Nat /\ UploadIdle < Stall
  BY SpectatorAssumption

(* A battle's record has its fields in their types. *)
LEMMA BattleFields ==
  ASSUME NEW s \in BattleRecs
  PROVE  /\ s.uploaded \in BOOLEAN /\ s.uploading \in BOOLEAN /\ s.done \in BOOLEAN
         /\ s.buf \in 0 .. MaxBytes /\ s.silent \in 0 .. UploadIdle
         /\ s.watchers \in 0 .. MaxBattleWatchers
         /\ s.buf \in Nat /\ s.silent \in Nat /\ s.watchers \in Nat
  BY Constants DEF BattleRecs

(* An upload that starts. *)
LEMMA StartedFields ==
  ASSUME NEW s \in BattleRecs
  PROVE  LET t == Started(s)
         IN  /\ t \in BattleRecs /\ t.uploaded = TRUE /\ t.uploading = TRUE
             /\ t.done = s.done /\ t.buf = s.buf /\ t.silent = s.silent
             /\ t.watchers = s.watchers
<1>1. [s EXCEPT !.uploaded = TRUE] \in BattleRecs
  BY DEF BattleRecs
<1>2. [[s EXCEPT !.uploaded = TRUE] EXCEPT !.uploading = TRUE] \in BattleRecs
  BY <1>1 DEF BattleRecs
<1>3. Started(s) = [[s EXCEPT !.uploaded = TRUE] EXCEPT !.uploading = TRUE]
  BY DEF Started, BattleRecs
<1> QED
  BY <1>2, <1>3 DEF BattleRecs

(* An upload that gets one piece longer. *)
LEMMA GrownFields ==
  ASSUME NEW s \in BattleRecs, s.buf < MaxBytes
  PROVE  LET t == Grown(s)
         IN  /\ t \in BattleRecs /\ t.buf = s.buf + 1 /\ t.silent = 0
             /\ t.uploaded = s.uploaded /\ t.uploading = s.uploading /\ t.done = s.done
             /\ t.watchers = s.watchers
<1>1. s.buf + 1 \in 0 .. MaxBytes /\ 0 \in 0 .. UploadIdle
  BY BattleFields, Constants
<1>2. [s EXCEPT !.buf = s.buf + 1] \in BattleRecs
  BY <1>1 DEF BattleRecs
<1>3. [[s EXCEPT !.buf = s.buf + 1] EXCEPT !.silent = 0] \in BattleRecs
  BY <1>1, <1>2 DEF BattleRecs
<1>4. Grown(s) = [[s EXCEPT !.buf = s.buf + 1] EXCEPT !.silent = 0]
  BY DEF Grown, BattleRecs
<1> QED
  BY <1>3, <1>4 DEF BattleRecs

(* An upload that ends. *)
LEMMA EndedFields ==
  ASSUME NEW s \in BattleRecs
  PROVE  LET t == Ended(s)
         IN  /\ t \in BattleRecs /\ t.uploading = FALSE /\ t.done = TRUE /\ t.silent = 0
             /\ t.uploaded = s.uploaded /\ t.buf = s.buf /\ t.watchers = s.watchers
<1>1. 0 \in 0 .. UploadIdle
  BY Constants
<1>2. [s EXCEPT !.uploading = FALSE] \in BattleRecs
  BY DEF BattleRecs
<1>3. [[s EXCEPT !.uploading = FALSE] EXCEPT !.done = TRUE] \in BattleRecs
  BY <1>2 DEF BattleRecs
<1>4. [[[s EXCEPT !.uploading = FALSE] EXCEPT !.done = TRUE] EXCEPT !.silent = 0] \in BattleRecs
  BY <1>1, <1>3 DEF BattleRecs
<1>5. Ended(s) = [[[s EXCEPT !.uploading = FALSE] EXCEPT !.done = TRUE] EXCEPT !.silent = 0]
  BY DEF Ended, BattleRecs
<1> QED
  BY <1>4, <1>5 DEF BattleRecs

(* A battle counts its spectators anew. *)
LEMMA WatchersFields ==
  ASSUME NEW s \in BattleRecs, NEW n \in 0 .. MaxBattleWatchers
  PROVE  LET t == WithWatchers(s, n)
         IN  /\ t \in BattleRecs /\ t.watchers = n
             /\ t.uploaded = s.uploaded /\ t.uploading = s.uploading /\ t.done = s.done
             /\ t.buf = s.buf /\ t.silent = s.silent
  BY DEF WithWatchers, BattleRecs

(* A battle after one more round. *)
LEMMA AgedFields ==
  ASSUME NEW s \in BattleRecs, s.silent < UploadIdle
  PROVE  LET t == Aged(s)
         IN  /\ t \in BattleRecs
             /\ t.silent = IF s.uploading THEN s.silent + 1 ELSE s.silent
             /\ t.uploaded = s.uploaded /\ t.uploading = s.uploading /\ t.done = s.done
             /\ t.buf = s.buf /\ t.watchers = s.watchers
<1>1. (IF s.uploading THEN s.silent + 1 ELSE s.silent) \in 0 .. UploadIdle
  BY BattleFields, Constants
<1> QED
  BY <1>1 DEF Aged, BattleRecs

(* A request's record has its fields in their types. *)
LEMMA WatcherFields ==
  ASSUME NEW n \in Nat, NEW x \in WatcherRecs(n)
  PROVE  /\ x.state \in {"away", "picked", "watching", "closed"}
         /\ x.b \in 0 .. n /\ x.pre \in BOOLEAN
         /\ x.pos \in 0 .. MaxBytes /\ x.idle \in 0 .. Stall + 1
         /\ x.why \in {"none", "refused", "failed", "finished", "stalled"}
         /\ x.b \in Nat /\ x.pos \in Nat /\ x.idle \in Nat
  BY Constants DEF WatcherRecs

(* What Pick, Hijack, Begin and a turn of a round make of a spectator.     *)
Picked(x, b) == [x EXCEPT !.state = "picked", !.b = b]
Hijacked(x) == [x EXCEPT !.state = "watching"]
Older(x) == [x EXCEPT !.idle = IF x.state = "watching" /\ x.idle <= Stall
                               THEN x.idle + 1 ELSE x.idle]
Sent(x, pre, pos, idle) == [x EXCEPT !.pre = pre, !.pos = pos, !.idle = idle]

(* A request that is let in to a battle. *)
LEMMA PickedFields ==
  ASSUME NEW n \in Nat, NEW x \in WatcherRecs(n), NEW b \in 0 .. n
  PROVE  LET y == Picked(x, b)
         IN  /\ y \in WatcherRecs(n) /\ y.state = "picked" /\ y.b = b
             /\ y.pre = x.pre /\ y.pos = x.pos /\ y.idle = x.idle /\ y.why = x.why
<1>1. [x EXCEPT !.state = "picked"] \in WatcherRecs(n)
  BY DEF WatcherRecs
<1>2. [[x EXCEPT !.state = "picked"] EXCEPT !.b = b] \in WatcherRecs(n)
  BY <1>1 DEF WatcherRecs
<1>3. Picked(x, b) = [[x EXCEPT !.state = "picked"] EXCEPT !.b = b]
  BY DEF Picked, WatcherRecs
<1> QED
  BY <1>2, <1>3 DEF WatcherRecs

(* A request whose connection is taken over. *)
LEMMA HijackedFields ==
  ASSUME NEW n \in Nat, NEW x \in WatcherRecs(n)
  PROVE  LET y == Hijacked(x)
         IN  /\ y \in WatcherRecs(n) /\ y.state = "watching" /\ y.b = x.b
             /\ y.pre = x.pre /\ y.pos = x.pos /\ y.idle = x.idle /\ y.why = x.why
  BY DEF Hijacked, WatcherRecs

(* A spectator after one more round. *)
LEMMA OlderFields ==
  ASSUME NEW n \in Nat, NEW x \in WatcherRecs(n)
  PROVE  LET y == Older(x)
         IN  /\ y \in WatcherRecs(n) /\ y.state = x.state /\ y.b = x.b
             /\ y.pre = x.pre /\ y.pos = x.pos /\ y.why = x.why
             /\ y.idle = x.idle \/ y.idle = x.idle + 1
<1>1. (IF x.state = "watching" /\ x.idle <= Stall THEN x.idle + 1 ELSE x.idle) \in 0 .. Stall + 1
  BY WatcherFields, Constants
<1> QED
  BY <1>1 DEF Older, WatcherRecs

(* A spectator to whom something was sent. *)
LEMMA SentFields ==
  ASSUME NEW n \in Nat, NEW x \in WatcherRecs(n), NEW pre \in BOOLEAN,
         NEW pos \in 0 .. MaxBytes, NEW idle \in 0 .. Stall + 1
  PROVE  LET y == Sent(x, pre, pos, idle)
         IN  /\ y \in WatcherRecs(n) /\ y.state = x.state /\ y.b = x.b /\ y.why = x.why
             /\ y.pre = pre /\ y.pos = pos /\ y.idle = idle
<1>1. [x EXCEPT !.pre = pre] \in WatcherRecs(n)
  BY DEF WatcherRecs
<1>2. [[x EXCEPT !.pre = pre] EXCEPT !.pos = pos] \in WatcherRecs(n)
  BY <1>1 DEF WatcherRecs
<1>3. [[[x EXCEPT !.pre = pre] EXCEPT !.pos = pos] EXCEPT !.idle = idle] \in WatcherRecs(n)
  BY <1>2 DEF WatcherRecs
<1>4. Sent(x, pre, pos, idle)
        = [[[x EXCEPT !.pre = pre] EXCEPT !.pos = pos] EXCEPT !.idle = idle]
  BY DEF Sent, WatcherRecs
<1> QED
  BY <1>3, <1>4 DEF WatcherRecs

(* What is kept of a spectator that is closed. *)
LEMMA ClosedFields ==
  ASSUME NEW n \in Nat, NEW x \in WatcherRecs(n),
         NEW why \in {"refused", "failed", "finished", "stalled"}
  PROVE  LET y == Closed(x, why)
         IN  /\ y \in WatcherRecs(n) /\ y.state = "closed" /\ y.why = why
             /\ why = "finished" => y.b = x.b /\ y.pre = x.pre /\ y.pos = x.pos
<1> DEFINE b == IF why = "finished" THEN x.b ELSE 0
           pre == x.pre \/ ~ (why = "finished")
           pos == IF why = "finished" THEN x.pos ELSE 0
<1>1. b \in 0 .. n /\ pre \in BOOLEAN /\ pos \in 0 .. MaxBytes /\ 0 \in 0 .. Stall + 1
  BY WatcherFields, Constants
<1>2. Closed(x, why) = [state |-> "closed", b |-> b, pre |-> pre, pos |-> pos,
                        idle |-> 0, why |-> why]
  BY DEF Closed
<1>3. why = "finished" => b = x.b /\ pos = x.pos /\ pre = x.pre
  BY WatcherFields
<1> HIDE DEF b, pre, pos
<1>4. Closed(x, why) \in WatcherRecs(n)
  BY <1>1, <1>2 DEF WatcherRecs
<1> QED
  BY <1>2, <1>3, <1>4

(* TypeOK, with names for its sets of records. *)
LEMMA Typed ==
  TypeOK <=>
    /\ store \in [Heap -> BattleRecs]
    /\ opened \in 0 .. MaxOpened
    /\ battles \in [Codes -> 0 .. opened]
    /\ nwatchers \in 0 .. MaxSpectators
    /\ join \in Seq(Watchers) /\ ws \in Seq(Watchers) /\ turn \in 0 .. Turns - 1
    /\ round \in RoundRecs
    /\ watcher \in [Watchers -> WatcherRecs(opened)]
  BY DEF TypeOK, BattleRecs, WatcherRecs, RoundRecs, ViewRecs

(* A round's record has its fields in their types. *)
LEMMA RoundFields ==
  ASSUME NEW r \in RoundRecs
  PROVE  /\ r.on \in BOOLEAN /\ r.views \in [Heap -> ViewRecs] /\ r.todo \in Seq(Watchers)
         /\ r.keep \in Seq(Watchers) /\ r.left \in 0 .. Budget /\ r.left \in Nat
         /\ \A b \in Heap : /\ r.views[b].buf \in 0 .. MaxBytes /\ r.views[b].buf \in Nat
                            /\ r.views[b].done \in BOOLEAN
  BY Constants DEF RoundRecs, ViewRecs

-----------------------------------------------------------------------------
(* What each action does to the parts of the state.                        *)

(* One battle's record becomes s, the others stay. *)
OneBattle(b, s) ==
  /\ s \in BattleRecs /\ store' \in [Heap -> BattleRecs] /\ store'[b] = s
  /\ \A c \in Heap : c # b => store'[c] = store[c]

(* Writing one battle of the heap. *)
LEMMA BattleSet ==
  ASSUME TypeOK, NEW b \in Heap, NEW s \in BattleRecs, store' = [store EXCEPT ![b] = s]
  PROVE  OneBattle(b, s)
<1>1. store \in [Heap -> BattleRecs]
  BY Typed
<1> QED BY <1>1 DEF OneBattle

(* One request's record becomes x, the others stay. *)
OneWatcher(w, x) ==
  /\ x \in WatcherRecs(opened) /\ watcher' \in [Watchers -> WatcherRecs(opened)]
  /\ watcher'[w] = x /\ \A u \in Watchers : u # w => watcher'[u] = watcher[u]

(* Writing one request. *)
LEMMA WatcherSet ==
  ASSUME TypeOK, NEW w \in Watchers, NEW x \in WatcherRecs(opened),
         watcher' = [watcher EXCEPT ![w] = x]
  PROVE  OneWatcher(w, x)
<1>1. watcher \in [Watchers -> WatcherRecs(opened)]
  BY Typed
<1> QED BY <1>1 DEF OneWatcher

(* Registered battles are on the heap. *)
LEMMA OnHeap ==
  ASSUME TypeOK
  PROVE  /\ opened \in Nat /\ opened <= MaxOpened
         /\ \A c \in Codes : battles[c] # 0 => battles[c] \in Heap /\ battles[c] \in 0 .. opened
         /\ \A b \in Heap : store[b] \in BattleRecs
         /\ \A w \in Watchers : watcher[w] \in WatcherRecs(opened)
<1>1. /\ opened \in 0 .. MaxOpened /\ battles \in [Codes -> 0 .. opened]
      /\ store \in [Heap -> BattleRecs] /\ watcher \in [Watchers -> WatcherRecs(opened)]
  BY Typed
<1> QED BY <1>1, Constants DEF Heap

(* StartUpload: the battle registered under the code starts its upload. *)
LEMMA StartUploadEffect ==
  ASSUME TypeOK, NEW c \in Codes, StartUpload(c)
  PROVE  LET b == battles[c]
         IN  /\ b \in Heap /\ ~ store[b].uploaded /\ OneBattle(b, Started(store[b]))
             /\ UNCHANGED <<opened, battles, nwatchers, join, ws, turn, round, watcher>>
<1> DEFINE b == battles[c]
<1>1. b \in Heap /\ store[b] \in BattleRecs
  BY OnHeap DEF StartUpload
<1>2. Started(store[b]) \in BattleRecs
  BY <1>1, StartedFields
<1>3. store' = [store EXCEPT ![b] = Started(store[b])]
  BY <1>1 DEF StartUpload, Started
<1>4. OneBattle(b, Started(store[b]))
  BY <1>1, <1>2, <1>3, BattleSet
<1> QED BY <1>1, <1>4 DEF StartUpload

(* Add: one stream grows. *)
LEMMA AddEffect ==
  ASSUME TypeOK, NEW b \in Heap, Add(b)
  PROVE  /\ store[b].uploading /\ store[b].buf < MaxBytes /\ OneBattle(b, Grown(store[b]))
         /\ UNCHANGED <<opened, battles, nwatchers, join, ws, turn, round, watcher>>
<1>1. store[b] \in BattleRecs /\ store[b].buf < MaxBytes
  BY OnHeap DEF Add
<1>2. Grown(store[b]) \in BattleRecs
  BY <1>1, GrownFields
<1>3. store' = [store EXCEPT ![b] = Grown(store[b])]
  BY DEF Add, Grown
<1>4. OneBattle(b, Grown(store[b]))
  BY <1>2, <1>3, BattleSet
<1> QED BY <1>4 DEF Add

(* EndUpload: one stream is over. *)
LEMMA EndUploadEffect ==
  ASSUME TypeOK, NEW b \in Heap, EndUpload(b)
  PROVE  /\ store[b].uploading /\ OneBattle(b, Ended(store[b]))
         /\ UNCHANGED <<opened, battles, nwatchers, join, ws, turn, round, watcher>>
<1>1. store[b] \in BattleRecs
  BY OnHeap
<1>2. Ended(store[b]) \in BattleRecs
  BY <1>1, EndedFields
<1>3. store' = [store EXCEPT ![b] = Ended(store[b])]
  BY DEF EndUpload, Ended
<1>4. OneBattle(b, Ended(store[b]))
  BY <1>2, <1>3, BattleSet
<1> QED BY <1>4 DEF EndUpload

(* Pick: the request is let in, and counted where there is room. *)
LEMMA PickEffect ==
  ASSUME TypeOK, NEW w \in Watchers, NEW c \in Codes, Pick(w, c)
  PROVE  LET b == battles[c]
         IN  /\ b \in Heap /\ watcher[w].state = "away" /\ store[b].uploaded
             /\ nwatchers < MaxSpectators /\ nwatchers' = nwatchers + 1
             /\ store[b].watchers + 1 \in 0 .. MaxBattleWatchers
             /\ OneBattle(b, WithWatchers(store[b], store[b].watchers + 1))
             /\ OneWatcher(w, Picked(watcher[w], b))
             /\ UNCHANGED <<opened, battles, join, ws, turn, round>>
<1> DEFINE b == battles[c]
           n == store[b].watchers + 1
<1>1. b \in Heap /\ b \in 0 .. opened /\ opened \in Nat
      /\ store[b] \in BattleRecs /\ watcher[w] \in WatcherRecs(opened)
  BY OnHeap DEF Pick
<1>2. n \in 0 .. MaxBattleWatchers
  BY <1>1, BattleFields, Constants DEF Pick, HasRoom
<1>3. store' = [store EXCEPT ![b] = WithWatchers(store[b], n)]
  BY DEF Pick, WithWatchers
<1>4. watcher' = [watcher EXCEPT ![w] = Picked(watcher[w], b)]
  BY DEF Pick, Picked
<1> HIDE DEF b, n
<1>5. WithWatchers(store[b], n) \in BattleRecs
  BY <1>1, <1>2, WatchersFields
<1>6. Picked(watcher[w], b) \in WatcherRecs(opened)
  BY <1>1, PickedFields
<1>7. OneBattle(b, WithWatchers(store[b], n)) /\ OneWatcher(w, Picked(watcher[w], b))
  BY <1>1, <1>3, <1>4, <1>5, <1>6, BattleSet, WatcherSet
<1>8. /\ watcher[w].state = "away" /\ store[b].uploaded
      /\ nwatchers < MaxSpectators /\ nwatchers' = nwatchers + 1
      /\ UNCHANGED <<opened, battles, join, ws, turn, round>>
  BY DEF Pick, HasRoom, b
<1> QED BY <1>1, <1>2, <1>7, <1>8 DEF b, n

(* The battle counts n spectators now. *)
Counted(b, n) == OneBattle(b, WithWatchers(store[b], n))

(* The counters of a battle with someone there are not 0. *)
LEMMA CountPositive ==
  ASSUME TypeOK, IsFiniteSet(There), CountsMatch, RequestsFit, NEW w \in There
  PROVE  LET b == watcher[w].b
         IN  /\ b \in Heap /\ store[b].watchers - 1 \in 0 .. MaxBattleWatchers
             /\ nwatchers \in Nat \ {0}
<1> DEFINE b == watcher[w].b
           T == {u \in There : watcher[u].b = b}
<1>1. b \in Heap /\ w \in Watchers
  BY DEF RequestsFit, There
<1>2. T \subseteq There /\ IsFiniteSet(T) /\ w \in T
  BY FS_Subset
<1>3. /\ Cardinality(T) \in Nat /\ Cardinality(T) # 0
      /\ Cardinality(There) \in Nat /\ Cardinality(There) # 0
  BY <1>2, FS_EmptySet, FS_CardinalityType
<1>4. store[b].watchers = Cardinality(T) /\ nwatchers = Cardinality(There)
  BY <1>1 DEF CountsMatch
<1>5. store[b].watchers \in 0 .. MaxBattleWatchers
  BY <1>1, OnHeap, BattleFields
<1> HIDE DEF b, T
<1>6. store[b].watchers - 1 \in 0 .. MaxBattleWatchers
  BY <1>3, <1>4, <1>5, Constants
<1> QED BY <1>1, <1>3, <1>4, <1>6 DEF b

(* Counting one out. *)
LEMMA UncountedSet ==
  ASSUME TypeOK, NEW b \in Heap, store[b].watchers - 1 \in 0 .. MaxBattleWatchers,
         store' = Uncounted(b)
  PROVE  Counted(b, store[b].watchers - 1)
<1> DEFINE n == store[b].watchers - 1
<1>1. store[b] \in BattleRecs
  BY OnHeap
<1>2. store' = [store EXCEPT ![b] = WithWatchers(store[b], n)]
  BY DEF Uncounted, WithWatchers
<1> HIDE DEF n
<1>3. n \in 0 .. MaxBattleWatchers
  BY DEF n
<1>4. WithWatchers(store[b], n) \in BattleRecs
  BY <1>1, <1>3, WatchersFields
<1>5. OneBattle(b, WithWatchers(store[b], n))
  BY <1>2, <1>4, BattleSet
<1> QED BY <1>5 DEF Counted, n

(* Unpick: who is counted is counted out. *)
LEMMA UnpickEffect ==
  ASSUME IInv, NEW w \in Watchers, Unpick(w)
  PROVE  LET b == watcher[w].b
         IN  /\ watcher[w].state = "picked" /\ w \in There /\ b \in Heap
             /\ Counted(b, store[b].watchers - 1)
             /\ nwatchers' = nwatchers - 1
             /\ OneWatcher(w, Closed(watcher[w], "refused"))
             /\ UNCHANGED <<opened, battles, join, ws, turn, round>>
<1> USE DEF IInv
<1>1. w \in There
  BY DEF Unpick, There
<1>2. watcher[w].b \in Heap /\ store[watcher[w].b].watchers - 1 \in 0 .. MaxBattleWatchers
  BY <1>1, CountPositive
<1>3. Counted(watcher[w].b, store[watcher[w].b].watchers - 1)
  BY <1>2, UncountedSet DEF Unpick
<1>4. opened \in Nat /\ watcher[w] \in WatcherRecs(opened)
  BY OnHeap
<1>5. Closed(watcher[w], "refused") \in WatcherRecs(opened)
  BY <1>4, ClosedFields
<1>6. OneWatcher(w, Closed(watcher[w], "refused"))
  BY <1>5, WatcherSet DEF Unpick
<1> QED BY <1>1, <1>2, <1>3, <1>6 DEF Unpick

(* Hijack: one request more is watching. *)
LEMMA HijackEffect ==
  ASSUME TypeOK, NEW w \in Watchers, Hijack(w)
  PROVE  /\ watcher[w].state = "picked" /\ OneWatcher(w, Hijacked(watcher[w]))
         /\ UNCHANGED <<store, opened, battles, nwatchers, join, ws, turn, round>>
<1>1. opened \in Nat /\ watcher[w] \in WatcherRecs(opened)
  BY OnHeap
<1>2. Hijacked(watcher[w]) \in WatcherRecs(opened)
  BY <1>1, HijackedFields
<1>3. watcher' = [watcher EXCEPT ![w] = Hijacked(watcher[w])]
  BY DEF Hijack, Hijacked
<1>4. OneWatcher(w, Hijacked(watcher[w]))
  BY <1>2, <1>3, WatcherSet
<1> QED BY <1>4 DEF Hijack

(* Join: only who is in no place yet is sent to Run. *)
LEMMA JoinEffect ==
  ASSUME TypeOK, NEW w \in Watchers, Join(w)
  PROVE  /\ w \in Watching /\ w \notin ToSet(join) /\ w \notin ToSet(ws)
         /\ join' = Append(join, w)
         /\ UNCHANGED <<store, opened, battles, nwatchers, ws, turn, round, watcher>>
  BY DEF Join, Taken, Watching

(* TakeIn: the first of the channel goes to Run. *)
LEMMA TakeInEffect ==
  ASSUME TypeOK, TakeIn
  PROVE  /\ ~ round.on /\ join # <<>> /\ join \in Seq(Watchers) /\ ws \in Seq(Watchers)
         /\ ws' = Append(ws, Head(join)) /\ join' = Tail(join)
         /\ UNCHANGED <<store, opened, battles, nwatchers, turn, round, watcher>>
  BY Typed DEF TakeIn

(* A round begins with views of the battles that are watched; uploads have *)
(* been silent and spectators idle for one round more.                     *)
LEMMA BeginEffect ==
  ASSUME TypeOK, Begin
  PROVE  /\ ~ round.on
         /\ \A b \in Heap : store[b].silent < UploadIdle
         /\ round' \in RoundRecs /\ round'.on
         /\ round'.todo = Rotated(ws, turn) /\ round'.keep = <<>>
         /\ \A b \in Heap :
              /\ round'.views[b].buf <= store[b].buf
              /\ round'.views[b].done => store[b].done /\ round'.views[b].buf = store[b].buf
              /\ (\E w \in ToSet(ws) : watcher[w].b = b) =>
                    round'.views[b].buf = store[b].buf /\ round'.views[b].done = store[b].done
         /\ store' \in [Heap -> BattleRecs]
         /\ \A b \in Heap : store'[b] = Aged(store[b])
         /\ watcher' \in [Watchers -> WatcherRecs(opened)]
         /\ \A w \in Watchers : watcher'[w] = Older(watcher[w])
         /\ UNCHANGED <<opened, battles, nwatchers, join, ws, turn>>
<1> DEFINE views == [b \in Heap |->
                 IF \E w \in ToSet(ws) : watcher[w].b = b
                 THEN [buf |-> store[b].buf, done |-> store[b].done] ELSE NoView]
           todo == Rotated(ws, turn)
<1>1. /\ ~ round.on /\ \A b \in Heap : store[b].silent < UploadIdle
      /\ UNCHANGED <<opened, battles, nwatchers, join, ws, turn>>
  BY DEF Begin
<1>2. round' = [on |-> TRUE, todo |-> todo, keep |-> <<>>, left |-> Budget, views |-> views]
  BY DEF Begin
<1>3. store' = [b \in Heap |-> Aged(store[b])]
  BY DEF Begin, Aged
<1>4. watcher' = [w \in Watchers |-> Older(watcher[w])]
  BY DEF Begin, Older
<1>5. opened \in Nat /\ (\A b \in Heap : store[b] \in BattleRecs)
      /\ \A w \in Watchers : watcher[w] \in WatcherRecs(opened)
  BY OnHeap
<1>6. \A b \in Heap : Aged(store[b]) \in BattleRecs
  BY <1>1, <1>5, AgedFields
<1>7. \A w \in Watchers : Older(watcher[w]) \in WatcherRecs(opened)
  BY <1>5, OlderFields
<1>8. ASSUME NEW b \in Heap
      PROVE  /\ views[b] \in ViewRecs /\ views[b].buf <= store[b].buf
             /\ views[b].done => store[b].done /\ views[b].buf = store[b].buf
             /\ (\E w \in ToSet(ws) : watcher[w].b = b) =>
                   views[b].buf = store[b].buf /\ views[b].done = store[b].done
  <2>1. store[b].buf \in 0 .. MaxBytes /\ store[b].buf \in Nat /\ store[b].done \in BOOLEAN
        /\ 0 \in 0 .. MaxBytes
    BY <1>5, BattleFields, Constants
  <2>2. CASE \E w \in ToSet(ws) : watcher[w].b = b
    <3>1. views[b] = [buf |-> store[b].buf, done |-> store[b].done]
      BY <2>2
    <3> HIDE DEF views
    <3> QED BY <2>1, <3>1 DEF ViewRecs
  <2>3. CASE ~ \E w \in ToSet(ws) : watcher[w].b = b
    <3>1. views[b] = NoView
      BY <2>3
    <3> HIDE DEF views
    <3>2. NoView \in ViewRecs /\ NoView.buf = 0 /\ NoView.done = FALSE
      BY <2>1 DEF ViewRecs, NoView
    <3>3. 0 <= store[b].buf
      BY <2>1
    <3> QED BY <2>3, <3>1, <3>2, <3>3
  <2> QED BY <2>2, <2>3
<1>9. views \in [Heap -> ViewRecs]
  BY <1>8
<1>10. turn \in Nat /\ ws \in Seq(Watchers)
  BY Typed, Constants
<1> HIDE DEF views, todo
<1>11. todo \in Seq(Watchers)
  BY <1>10, RotatedOnce DEF todo
<1>12. <<>> \in Seq(Watchers) /\ Budget \in 0 .. Budget /\ TRUE \in BOOLEAN
  BY Constants
<1>13. round' \in RoundRecs
  BY <1>2, <1>9, <1>11, <1>12 DEF RoundRecs
<1>14. round'.on /\ round'.todo = todo /\ round'.keep = <<>> /\ round'.views = views
  BY <1>2
<1>15. /\ store' \in [Heap -> BattleRecs] /\ \A b \in Heap : store'[b] = Aged(store[b])
       /\ watcher' \in [Watchers -> WatcherRecs(opened)]
       /\ \A w \in Watchers : watcher'[w] = Older(watcher[w])
  BY <1>3, <1>4, <1>6, <1>7
<1> QED
  BY <1>1, <1>8, <1>13, <1>14, <1>15 DEF todo

(* What a turn makes of a spectator: it stays as it is, or it sends all,   *)
(* or a part and then still lacks something.                               *)
TurnOf(x, y, v) ==
  /\ y.state = x.state /\ y.b = x.b /\ y.why = x.why
  /\ ~ Lacks(x, v) => y = x
  /\ y.pos <= x.pos \/ y.pos <= v.buf
  /\ y = x \/ y.idle = 0 \/ Lacks(y, v)

(* Whatever write does is a turn in that sense. *)
LEMMA TurnFields ==
  ASSUME NEW n \in Nat, NEW x \in WatcherRecs(n), NEW v \in ViewRecs,
         NEW left \in 0 .. Budget, NEW out \in Writes(x, v, left)
  PROVE  out[1] \in WatcherRecs(n) /\ out[2] \in 0 .. Budget /\ TurnOf(x, out[1], v)
<1>1. /\ x.pre \in BOOLEAN /\ x.pos \in 0 .. MaxBytes /\ x.idle \in 0 .. Stall + 1
      /\ x.pos \in Nat /\ x.idle \in Nat /\ v.buf \in 0 .. MaxBytes /\ v.buf \in Nat
      /\ 0 \in 0 .. Stall + 1 /\ MaxBytes \in Nat /\ Budget \in Nat
  BY WatcherFields, Constants DEF ViewRecs
<1>2. CASE ~ Lacks(x, v) \/ left = 0
  <2>1. out = <<x, left>>
    BY <1>2 DEF Writes
  <2> QED BY <2>1, <1>1 DEF TurnOf
<1>3. CASE ~ (~ Lacks(x, v) \/ left = 0)
  <2>1. \/ out = <<SentAll(x, v), left>>
        \/ \E y \in SentSome(x, v) : Lacks(y, v) /\ out = <<y, left - 1>>
    BY <1>3 DEF Writes
  <2>2. CASE out = <<SentAll(x, v), left>>
    <3> DEFINE no == FALSE
    <3>1. SentAll(x, v) = Sent(x, no, v.buf, 0)
      BY DEF SentAll, Sent
    <3>2. no \in BOOLEAN /\ v.buf \in 0 .. MaxBytes /\ 0 \in 0 .. Stall + 1
      BY <1>1
    <3> HIDE DEF no
    <3>3. LET y == SentAll(x, v)
          IN  /\ y \in WatcherRecs(n) /\ y.state = x.state /\ y.b = x.b /\ y.why = x.why
              /\ y.pos = v.buf /\ y.idle = 0
      BY <3>1, <3>2, SentFields
    <3> QED BY <2>2, <3>1, <3>3, <1>1, <1>3 DEF TurnOf
  <2>3. ASSUME NEW y \in SentSome(x, v), Lacks(y, v), out = <<y, left - 1>>
        PROVE  out[1] \in WatcherRecs(n) /\ out[2] \in 0 .. Budget /\ TurnOf(x, out[1], v)
    <3>1. CASE y = x
      BY <2>3, <3>1, <1>1, <1>3 DEF TurnOf
    <3>2. ASSUME NEW pos \in x.pos .. v.buf, y = SentUpTo(x, pos)
          PROVE  out[1] \in WatcherRecs(n) /\ out[2] \in 0 .. Budget /\ TurnOf(x, out[1], v)
      <4> DEFINE idle == IF x.pre \/ x.pos < pos THEN 0 ELSE x.idle
                 no == FALSE
      <4>1. y = Sent(x, no, pos, idle)
        BY <3>2 DEF Sent, SentUpTo
      <4>2. idle \in 0 .. Stall + 1
        BY <1>1
      <4>3. no \in BOOLEAN /\ pos \in 0 .. MaxBytes /\ pos <= v.buf
        BY <1>1
      <4> HIDE DEF idle, no
      <4>4. /\ y \in WatcherRecs(n) /\ y.state = x.state /\ y.b = x.b /\ y.why = x.why
            /\ y.pos = pos
        BY <4>1, <4>2, <4>3, SentFields
      <4> QED BY <2>3, <4>3, <4>4, <1>1, <1>3 DEF TurnOf
    <3> QED BY <2>3, <3>1, <3>2 DEF SentSome
  <2> QED BY <2>1, <2>2, <2>3
<1> QED BY <1>2, <1>3

(* A round with the turn of a spectator done, who is kept or dropped. *)
KeptRound(r, w, left) == [r EXCEPT !.todo = Tail(r.todo), !.keep = Append(r.keep, w), !.left = left]
DroppedRound(r, left) == [r EXCEPT !.todo = Tail(r.todo), !.left = left]

(* The round after a turn of one who is kept. *)
LEMMA KeptFields ==
  ASSUME NEW r \in RoundRecs, NEW w \in Watchers, NEW left \in 0 .. Budget, r.todo # <<>>
  PROVE  LET s == KeptRound(r, w, left)
         IN  /\ s \in RoundRecs /\ s.todo = Tail(r.todo) /\ s.keep = Append(r.keep, w)
             /\ s.views = r.views /\ s.on = r.on
<1>1. Tail(r.todo) \in Seq(Watchers) /\ Append(r.keep, w) \in Seq(Watchers)
  BY RoundFields, HeadTailProperties, AppendProperties
<1> DEFINE t == Tail(r.todo)
           k == Append(r.keep, w)
<1>2. t \in Seq(Watchers) /\ k \in Seq(Watchers)
  BY <1>1
<1>3. KeptRound(r, w, left) = [r EXCEPT !.todo = t, !.keep = k, !.left = left]
  BY DEF KeptRound
<1> HIDE DEF t, k
<1>4. [r EXCEPT !.todo = t] \in RoundRecs
  BY <1>2 DEF RoundRecs
<1>5. [[r EXCEPT !.todo = t] EXCEPT !.keep = k] \in RoundRecs
  BY <1>2, <1>4 DEF RoundRecs
<1>6. [[[r EXCEPT !.todo = t] EXCEPT !.keep = k] EXCEPT !.left = left] \in RoundRecs
  BY <1>5 DEF RoundRecs
<1>7. KeptRound(r, w, left) = [[[r EXCEPT !.todo = t] EXCEPT !.keep = k] EXCEPT !.left = left]
  BY <1>3 DEF RoundRecs
<1> QED
  BY <1>6, <1>7 DEF RoundRecs, t, k

(* The round after a turn of one who is dropped. *)
LEMMA DroppedFields ==
  ASSUME NEW r \in RoundRecs, NEW left \in 0 .. Budget, r.todo # <<>>
  PROVE  LET s == DroppedRound(r, left)
         IN  /\ s \in RoundRecs /\ s.todo = Tail(r.todo) /\ s.keep = r.keep
             /\ s.views = r.views /\ s.on = r.on
<1>1. Tail(r.todo) \in Seq(Watchers)
  BY RoundFields, HeadTailProperties
<1> DEFINE t == Tail(r.todo)
<1>2. t \in Seq(Watchers)
  BY <1>1
<1>3. DroppedRound(r, left) = [r EXCEPT !.todo = t, !.left = left]
  BY DEF DroppedRound
<1> HIDE DEF t
<1>4. [r EXCEPT !.todo = t] \in RoundRecs
  BY <1>2 DEF RoundRecs
<1>5. [[r EXCEPT !.todo = t] EXCEPT !.left = left] \in RoundRecs
  BY <1>4 DEF RoundRecs
<1>6. DroppedRound(r, left) = [[r EXCEPT !.todo = t] EXCEPT !.left = left]
  BY <1>3 DEF RoundRecs
<1> QED
  BY <1>5, <1>6 DEF RoundRecs, t

(* The outcome of a turn: the spectator is kept as x, or dropped. *)
KeptAs(w, x) ==
  /\ OneWatcher(w, x) /\ round'.keep = Append(round.keep, w) /\ UNCHANGED <<store, nwatchers>>
DroppedAs(w, x, why) ==
  /\ OneWatcher(w, Closed(x, why)) /\ round'.keep = round.keep
  /\ Counted(watcher[w].b, store[watcher[w].b].watchers - 1) /\ nwatchers' = nwatchers - 1

(* Deliver: the turn of a spectator who is watching and counted, kept or   *)
(* dropped for one of three reasons.                                       *)
LEMMA DeliverEffect ==
  ASSUME IInv, Deliver
  PROVE  LET w == Head(round.todo)
             b == watcher[w].b
             v == round.views[b]
         IN  /\ w \in Watchers /\ w \in Watching /\ w \in There /\ w \in ToSet(round.todo)
             /\ b \in Heap /\ v \in ViewRecs /\ round.todo # <<>>
             /\ round' \in RoundRecs /\ round'.todo = Tail(round.todo)
             /\ round'.views = round.views /\ round'.on = round.on
             /\ UNCHANGED <<opened, battles, join, ws, turn>>
             /\ \E x \in WatcherRecs(opened) :
                  /\ TurnOf(watcher[w], x, v)
                  /\ \/ KeptAs(w, x)
                     \/ DroppedAs(w, x, "failed")
                     \/ v.done /\ ~ Lacks(x, v) /\ DroppedAs(w, x, "finished")
                     \/ /\ ~ (v.done /\ ~ Lacks(x, v)) /\ Stall < x.idle
                        /\ DroppedAs(w, x, "stalled")
<1> USE DEF IInv
<1> DEFINE w == Head(round.todo)
           b == watcher[w].b
           v == round.views[b]
           old == watcher[w]
<1>1. /\ round \in RoundRecs /\ round.todo \in Seq(Watchers) /\ round.todo # <<>>
      /\ round.left \in 0 .. Budget /\ round.views \in [Heap -> ViewRecs]
  BY Typed, RoundFields DEF Deliver
<1>2. w \in Watchers /\ w \in ToSet(round.todo)
  <2>1. Distinct(round.todo)
    BY DEF OnePlace
  <2> QED BY <1>1, <2>1, Taken1
<1>3. w \in Watching /\ w \in There
  BY <1>2 DEF OnePlace, Watching, There
<1>4. b \in Heap /\ v \in ViewRecs /\ store[b].watchers - 1 \in 0 .. MaxBattleWatchers
  BY <1>1, <1>3, CountPositive
<1>5. opened \in Nat /\ old \in WatcherRecs(opened)
  BY <1>2, OnHeap
<1>6. UNCHANGED <<opened, battles, join, ws, turn>>
  BY DEF Deliver
<1>7. \/ \E out \in Writes(old, v, round.left) :
           LET why == Why(out[1], v)
           IN  IF why = "none" THEN Keep(w, out[1], out[2])
               ELSE Drop(w, out[1], out[2], why)
      \/ Lacks(old, v) /\ round.left > 0 /\ Drop(w, old, round.left, "failed")
  BY DEF Deliver
<1> HIDE DEF w, b, v, old
<1>8. ASSUME NEW x \in WatcherRecs(opened), NEW left \in 0 .. Budget, Keep(w, x, left)
      PROVE  /\ KeptAs(w, x) /\ round' \in RoundRecs /\ round'.todo = Tail(round.todo)
             /\ round'.views = round.views /\ round'.on = round.on
  <2>1. round' = KeptRound(round, w, left)
    BY <1>8 DEF Keep, KeptRound
  <2>2. OneWatcher(w, x)
    BY <1>2, <1>8, WatcherSet DEF Keep
  <2>3. LET s == KeptRound(round, w, left)
        IN  /\ s \in RoundRecs /\ s.todo = Tail(round.todo) /\ s.keep = Append(round.keep, w)
            /\ s.views = round.views /\ s.on = round.on
    BY <1>1, <1>2, <1>8, KeptFields
  <2>4. UNCHANGED <<store, nwatchers>>
    BY <1>8 DEF Keep
  <2> QED BY <2>1, <2>2, <2>3, <2>4 DEF KeptAs
<1>9. ASSUME NEW x \in WatcherRecs(opened), NEW left \in 0 .. Budget,
             NEW why \in {"failed", "finished", "stalled"}, x.b = b, Drop(w, x, left, why)
      PROVE  /\ DroppedAs(w, x, why) /\ round' \in RoundRecs /\ round'.todo = Tail(round.todo)
             /\ round'.views = round.views /\ round'.on = round.on
  <2>1. round' = DroppedRound(round, left)
    BY <1>9 DEF Drop, DroppedRound
  <2>2. Closed(x, why) \in WatcherRecs(opened)
    BY <1>5, ClosedFields
  <2>3. OneWatcher(w, Closed(x, why))
    BY <1>2, <1>9, <2>2, WatcherSet DEF Drop
  <2>4. store' = Uncounted(b) /\ nwatchers' = nwatchers - 1
    BY <1>9 DEF Drop
  <2>5. Counted(b, store[b].watchers - 1)
    BY <1>4, <2>4, UncountedSet
  <2> QED BY <2>1, <2>3, <2>4, <2>5, <1>1, <1>9, DroppedFields DEF DroppedAs, b
<1>10. ASSUME NEW out \in Writes(old, v, round.left),
              LET why == Why(out[1], v)
              IN  IF why = "none" THEN Keep(w, out[1], out[2])
                  ELSE Drop(w, out[1], out[2], why)
       PROVE  /\ round' \in RoundRecs /\ round'.todo = Tail(round.todo)
              /\ round'.views = round.views /\ round'.on = round.on
              /\ \E x \in WatcherRecs(opened) :
                   /\ TurnOf(old, x, v)
                   /\ \/ KeptAs(w, x)
                      \/ v.done /\ ~ Lacks(x, v) /\ DroppedAs(w, x, "finished")
                      \/ /\ ~ (v.done /\ ~ Lacks(x, v)) /\ Stall < x.idle
                         /\ DroppedAs(w, x, "stalled")
  <2> DEFINE x == out[1]
             left == out[2]
  <2>1. x \in WatcherRecs(opened) /\ left \in 0 .. Budget /\ TurnOf(old, x, v)
    BY <1>1, <1>4, <1>5, TurnFields
  <2>2. x.b = b
    BY <2>1 DEF TurnOf, b, old
  <2> HIDE DEF x, left
  <2>3. CASE v.done /\ ~ Lacks(x, v)
    <3>1. Drop(w, x, left, "finished")
      BY <2>3, <1>10 DEF Why, x, left
    <3> QED BY <3>1, <2>1, <2>2, <2>3, <1>9
  <2>4. CASE ~ (v.done /\ ~ Lacks(x, v)) /\ Stall < x.idle
    <3>1. Drop(w, x, left, "stalled")
      BY <2>4, <1>10 DEF Why, x, left
    <3> QED BY <3>1, <2>1, <2>2, <2>4, <1>9
  <2>5. CASE ~ (v.done /\ ~ Lacks(x, v)) /\ ~ (Stall < x.idle)
    <3>1. Keep(w, x, left)
      BY <2>5, <1>10 DEF Why, x, left
    <3> QED BY <3>1, <2>1, <1>8
  <2> QED BY <2>3, <2>4, <2>5
<1>11. ASSUME Drop(w, old, round.left, "failed")
       PROVE  /\ round' \in RoundRecs /\ round'.todo = Tail(round.todo)
              /\ round'.views = round.views /\ round'.on = round.on
              /\ \E x \in WatcherRecs(opened) : TurnOf(old, x, v) /\ DroppedAs(w, x, "failed")
  <2>1. old.b = b
    BY DEF old, b
  <2>2. TurnOf(old, old, v)
    BY <1>5, WatcherFields DEF TurnOf
  <2> QED BY <2>1, <2>2, <1>1, <1>5, <1>9, <1>11
<1> QED
  BY <1>1, <1>2, <1>3, <1>4, <1>6, <1>7, <1>10, <1>11 DEF w, b, v, old

(* A round ends: who was kept stays. *)
LEMMA EndEffect ==
  ASSUME TypeOK, End
  PROVE  /\ round.on /\ round.todo = <<>> /\ ws' = round.keep /\ round' = Resting
         /\ turn' \in 0 .. Turns - 1 /\ battles' \in [Codes -> 0 .. opened]
         /\ UNCHANGED <<store, opened, nwatchers, join, watcher>>
<1>1. turn \in Nat /\ Turns \in Nat \ {0} /\ battles \in [Codes -> 0 .. opened] /\ opened \in Nat
  BY Typed, OnHeap, Constants
<1>2. (turn + 1) % Turns \in 0 .. Turns - 1
  <2>1. turn + 1 \in Nat
    BY <1>1
  <2> QED BY <2>1, <1>1, ModDef
<1>3. battles' \in [Codes -> 0 .. opened]
  <2>1. PICK gone : battles' = [c \in Codes |-> IF c \in gone THEN 0 ELSE battles[c]]
    BY DEF End
  <2> QED BY <2>1, <1>1
<1> QED
  BY <1>2, <1>3 DEF End

-----------------------------------------------------------------------------
(* The kinds of steps, by what they do to the streams and the spectators.  *)

(* The streams, as opposed to the counters, stay as they are. *)
StreamsSame ==
  \A b \in Heap :
    /\ store[b] \in BattleRecs /\ store'[b] \in BattleRecs
    /\ store'[b].uploaded = store[b].uploaded /\ store'[b].uploading = store[b].uploading
    /\ store'[b].done = store[b].done /\ store'[b].buf = store[b].buf
    /\ store'[b].silent = store[b].silent

(* Something happens to one upload. *)
UploadStep(b) ==
  /\ UNCHANGED <<opened, battles, nwatchers, join, ws, turn, round, watcher>>
  /\ \/ ~ store[b].uploaded /\ OneBattle(b, Started(store[b]))
     \/ store[b].uploading /\ store[b].buf < MaxBytes /\ OneBattle(b, Grown(store[b]))
     \/ store[b].uploading /\ OneBattle(b, Ended(store[b]))

(* A request is let in, is let go, or becomes a spectator. *)
RequestStep(w) ==
  /\ StreamsSame /\ UNCHANGED <<opened, join, ws, round>>
  /\ \/ /\ watcher[w].state = "away"
        /\ \E b \in Heap : store[b].uploaded /\ OneWatcher(w, Picked(watcher[w], b))
                           /\ b \in 0 .. opened
     \/ watcher[w].state = "picked" /\ OneWatcher(w, Closed(watcher[w], "refused"))
     \/ watcher[w].state = "picked" /\ OneWatcher(w, Hijacked(watcher[w]))

(* Neither the streams nor the spectators change. *)
QuietStep ==
  UNCHANGED <<store, nwatchers, watcher>> /\ (round' = round \/ round' = Resting)

(* Counting leaves the streams alone. *)
LEMMA CountedStreams ==
  ASSUME TypeOK, NEW b \in Heap, NEW n \in 0 .. MaxBattleWatchers, Counted(b, n)
  PROVE  /\ StreamsSame /\ store'[b].watchers = n
         /\ \A c \in Heap : c # b => store'[c].watchers = store[c].watchers
<1>1. \A c \in Heap : store[c] \in BattleRecs
  BY OnHeap
<1>2. /\ store'[b] = WithWatchers(store[b], n) /\ store'[b] \in BattleRecs
      /\ \A c \in Heap : c # b => store'[c] = store[c]
  BY DEF Counted, OneBattle
<1>3. LET t == WithWatchers(store[b], n)
      IN  /\ t.watchers = n
          /\ t.uploaded = store[b].uploaded /\ t.uploading = store[b].uploading
          /\ t.done = store[b].done /\ t.buf = store[b].buf /\ t.silent = store[b].silent
  BY <1>1, WatchersFields
<1>4. /\ store'[b].watchers = n
      /\ store'[b].uploaded = store[b].uploaded /\ store'[b].uploading = store[b].uploading
      /\ store'[b].done = store[b].done /\ store'[b].buf = store[b].buf
      /\ store'[b].silent = store[b].silent
  BY <1>2, <1>3
<1>5. StreamsSame
  <2>1. ASSUME NEW c \in Heap
        PROVE  /\ store[c] \in BattleRecs /\ store'[c] \in BattleRecs
               /\ store'[c].uploaded = store[c].uploaded
               /\ store'[c].uploading = store[c].uploading
               /\ store'[c].done = store[c].done /\ store'[c].buf = store[c].buf
               /\ store'[c].silent = store[c].silent
    <3>1. CASE c = b
      BY <3>1, <1>1, <1>2, <1>4
    <3>2. CASE c # b
      BY <3>2, <1>1, <1>2
    <3> QED BY <3>1, <3>2
  <2> QED BY <2>1 DEF StreamsSame
<1> QED
  BY <1>2, <1>4, <1>5

(* A turn of a round leaves the streams alone. *)
LEMMA DeliverStreams ==
  ASSUME IInv, Deliver
  PROVE  StreamsSame
<1> USE DEF IInv
<1> DEFINE w == Head(round.todo)
           b == watcher[w].b
           n == store[b].watchers - 1
<1>1. /\ w \in There /\ b \in Heap
      /\ \E x \in WatcherRecs(opened) :
           KeptAs(w, x) \/ \E why \in {"failed", "finished", "stalled"} : DroppedAs(w, x, why)
  BY DeliverEffect
<1>2. n \in 0 .. MaxBattleWatchers
  BY <1>1, CountPositive
<1>3. ASSUME NEW x \in WatcherRecs(opened), KeptAs(w, x)
      PROVE  StreamsSame
  BY <1>3, OnHeap DEF KeptAs, StreamsSame
<1>4. ASSUME NEW x, NEW why, DroppedAs(w, x, why)
      PROVE  StreamsSame
  BY <1>1, <1>2, <1>4, CountedStreams DEF DroppedAs
<1> QED
  BY <1>1, <1>3, <1>4

(* Every step, uploads taken together. *)
LEMMA Steps ==
  ASSUME IInv, [Next]_vars
  PROVE  \/ \E b \in Heap : UploadStep(b)
         \/ \E w \in Watchers, c \in Codes : Pick(w, c)
         \/ \E w \in Watchers : Unpick(w) \/ Hijack(w) \/ Join(w)
         \/ Begin
         \/ Deliver
         \/ \E c \in Codes : Open(c)
         \/ TakeIn
         \/ End
         \/ UNCHANGED vars
<1>0. TypeOK
  BY DEF IInv
<1>2. ASSUME NEW c \in Codes, StartUpload(c)
      PROVE  \E b \in Heap : UploadStep(b)
  BY <1>0, <1>2, StartUploadEffect DEF UploadStep
<1>3. ASSUME NEW b \in Heap, Add(b)
      PROVE  \E d \in Heap : UploadStep(d)
  BY <1>0, <1>3, AddEffect DEF UploadStep
<1>4. ASSUME NEW b \in Heap, EndUpload(b)
      PROVE  \E d \in Heap : UploadStep(d)
  BY <1>0, <1>4, EndUploadEffect DEF UploadStep
<1> QED
  BY <1>2, <1>3, <1>4 DEF Next, Uploads, Requests, Run

(* With the requests taken together. *)
LEMMA RealKinds ==
  ASSUME IInv, [Next]_vars
  PROVE  \/ \E b \in Heap : UploadStep(b)
         \/ \E w \in Watchers : RequestStep(w)
         \/ Begin
         \/ Deliver
         \/ \E c \in Codes : Open(c)
         \/ \E w \in Watchers : Join(w)
         \/ TakeIn
         \/ End
         \/ UNCHANGED vars
<1> USE DEF IInv
<1>0. TypeOK /\ \A b \in Heap : store[b] \in BattleRecs
  BY OnHeap
<1>5. ASSUME NEW w \in Watchers, NEW c \in Codes, Pick(w, c)
      PROVE  RequestStep(w)
  <2> DEFINE b == battles[c]
             n == store[b].watchers + 1
  <2>1. /\ b \in Heap /\ watcher[w].state = "away" /\ store[b].uploaded
        /\ n \in 0 .. MaxBattleWatchers /\ OneBattle(b, WithWatchers(store[b], n))
        /\ OneWatcher(w, Picked(watcher[w], b)) /\ UNCHANGED <<opened, join, ws, round>>
    BY <1>0, <1>5, PickEffect
  <2>2. b \in 0 .. opened
    BY <1>0, <1>5, OnHeap DEF Pick
  <2> HIDE DEF b, n
  <2>3. StreamsSame
    BY <1>0, <2>1, CountedStreams DEF Counted
  <2> QED BY <2>1, <2>2, <2>3 DEF RequestStep
<1>6. ASSUME NEW w \in Watchers, Unpick(w)
      PROVE  RequestStep(w)
  <2> DEFINE b == watcher[w].b
             n == store[b].watchers - 1
  <2>1. /\ b \in Heap /\ watcher[w].state = "picked" /\ Counted(b, n) /\ w \in There
        /\ OneWatcher(w, Closed(watcher[w], "refused")) /\ UNCHANGED <<opened, join, ws, round>>
    BY <1>6, UnpickEffect
  <2>2. n \in 0 .. MaxBattleWatchers
    BY <2>1, CountPositive
  <2> HIDE DEF b, n
  <2>3. StreamsSame
    BY <1>0, <2>1, <2>2, CountedStreams
  <2> QED BY <2>1, <2>3 DEF RequestStep
<1>7. ASSUME NEW w \in Watchers, Hijack(w)
      PROVE  RequestStep(w)
  <2>1. StreamsSame
    BY <1>0, <1>7, HijackEffect DEF StreamsSame
  <2> QED BY <2>1, <1>0, <1>7, HijackEffect DEF RequestStep
<1> QED
  BY <1>5, <1>6, <1>7, Steps

(* Every step is of one of five kinds. *)
LEMMA Kinds ==
  ASSUME IInv, [Next]_vars
  PROVE  \/ \E b \in Heap : UploadStep(b)
         \/ \E w \in Watchers : RequestStep(w)
         \/ Begin
         \/ Deliver
         \/ QuietStep
<1>1. ASSUME \/ \E c \in Codes : Open(c)
             \/ \E w \in Watchers : Join(w)
             \/ TakeIn
             \/ End
             \/ UNCHANGED vars
      PROVE  QuietStep
  BY <1>1 DEF Open, Join, TakeIn, End, QuietStep, vars
<1> QED BY <1>1, RealKinds

(* Streams only grow, and not once they are over. *)
StreamsGo ==
  \A b \in Heap :
    /\ store'[b].uploaded <=> (store'[b].uploading \/ store'[b].done)
    /\ ~ (store'[b].uploading /\ store'[b].done)
    /\ store[b].uploaded => store'[b].uploaded
    /\ store[b].buf \in Nat /\ store'[b].buf \in Nat /\ store[b].buf <= store'[b].buf
    /\ store[b].done => store'[b].done /\ store'[b].buf = store[b].buf

(* Every step lets streams only grow. *)
LEMMA StreamsStep ==
  ASSUME IInv, [Next]_vars
  PROVE  StreamsGo
<1> USE DEF IInv
<1>0. \A b \in Heap : store[b] \in BattleRecs
  BY OnHeap
<1>a. \A b \in Heap : /\ store[b].uploaded \in BOOLEAN /\ store[b].uploading \in BOOLEAN
                      /\ store[b].done \in BOOLEAN /\ store[b].buf \in Nat
                      /\ store[b].silent \in Nat
  BY <1>0, BattleFields
<1>b. \A b \in Heap : /\ store[b].uploaded <=> (store[b].uploading \/ store[b].done)
                      /\ ~ (store[b].uploading /\ store[b].done)
  BY DEF UploadsOnce
<1>1. ASSUME NEW b \in Heap, UploadStep(b)
      PROVE  StreamsGo
  <2>1. \A c \in Heap : c # b => store'[c] = store[c]
    BY <1>1 DEF UploadStep, OneBattle
  <2>2. CASE ~ store[b].uploaded /\ OneBattle(b, Started(store[b]))
    <3>1. store'[b] = Started(store[b])
      BY <2>2 DEF OneBattle
    <3>2. /\ store'[b].uploaded = TRUE /\ store'[b].uploading = TRUE
          /\ store'[b].done = store[b].done /\ store'[b].buf = store[b].buf
      BY <3>1, <1>0, StartedFields
    <3> QED BY <2>1, <2>2, <3>2, <1>a, <1>b DEF StreamsGo
  <2>3. CASE store[b].uploading /\ store[b].buf < MaxBytes /\ OneBattle(b, Grown(store[b]))
    <3>1. store'[b] = Grown(store[b])
      BY <2>3 DEF OneBattle
    <3>2. /\ store'[b].uploaded = store[b].uploaded /\ store'[b].uploading = store[b].uploading
          /\ store'[b].done = store[b].done /\ store'[b].buf = store[b].buf + 1
      BY <2>3, <3>1, <1>0, GrownFields
    <3>3. /\ store'[b].buf \in Nat /\ store[b].buf <= store'[b].buf /\ ~ store[b].done
          /\ store'[b].uploading /\ ~ store'[b].done /\ store'[b].uploaded
      BY <2>3, <3>2, <1>a, <1>b
    <3> QED BY <2>1, <3>3, <1>a, <1>b DEF StreamsGo
  <2>4. CASE store[b].uploading /\ OneBattle(b, Ended(store[b]))
    <3>1. store'[b] = Ended(store[b])
      BY <2>4 DEF OneBattle
    <3>2. LET t == Ended(store[b])
          IN  t.uploaded = store[b].uploaded /\ ~ t.uploading /\ t.done /\ t.buf = store[b].buf
      <4>1. store[b] \in BattleRecs
        BY <1>0
      <4> QED BY <4>1, EndedFields
    <3>3. /\ store'[b].uploaded = store[b].uploaded /\ ~ store'[b].uploading
          /\ store'[b].done /\ store'[b].buf = store[b].buf
      BY <3>1, <3>2
    <3> QED BY <2>1, <2>4, <3>3, <1>a, <1>b DEF StreamsGo
  <2> QED BY <1>1, <2>2, <2>3, <2>4 DEF UploadStep
<1>2. ASSUME StreamsSame
      PROVE  StreamsGo
  BY <1>2, <1>a, <1>b DEF StreamsSame, StreamsGo
<1>3. ASSUME Begin
      PROVE  StreamsGo
  <2>1. \A b \in Heap : store'[b] = Aged(store[b]) /\ store[b].silent < UploadIdle
    BY <1>3, BeginEffect
  <2>2. ASSUME NEW b \in Heap
        PROVE  /\ store'[b].uploaded = store[b].uploaded
               /\ store'[b].uploading = store[b].uploading
               /\ store'[b].done = store[b].done /\ store'[b].buf = store[b].buf
    BY <2>1, <1>0, AgedFields
  <2> QED BY <2>2, <1>a, <1>b DEF StreamsGo
<1>4. ASSUME Deliver
      PROVE  StreamsGo
  BY <1>2, <1>4, DeliverStreams
<1>5. ASSUME QuietStep
      PROVE  StreamsGo
  <2>1. StreamsSame
    BY <1>5, <1>0 DEF QuietStep, StreamsSame
  <2> QED BY <2>1, <1>2
<1> QED
  BY <1>1, <1>2, <1>3, <1>4, <1>5, Kinds DEF RequestStep

-----------------------------------------------------------------------------
(* The parts of the invariant are kept, one at a time.                     *)

(* Uploads begin once and end once. *)
LEMMA UploadsOnceStep ==
  ASSUME IInv, [Next]_vars
  PROVE  UploadsOnce'
<1>1. StreamsGo
  BY StreamsStep
<1> QED BY <1>1 DEF StreamsGo, UploadsOnce

(* What a request's record says, with the spectators' actions spelt out:   *)
(* one request w has changed, and fits.                                    *)
FitsAlone(w) ==
  /\ watcher'[w].state \in {"away", "picked"} => watcher'[w].pre
  /\ watcher'[w].state = "away" => watcher'[w].pos = 0
  /\ watcher'[w].state # "closed" => watcher'[w].why = "none"
  /\ watcher'[w].state \in {"picked", "watching"} =>
       /\ watcher'[w].b \in Heap
       /\ store'[watcher'[w].b].uploaded
       /\ watcher'[w].pos <= store'[watcher'[w].b].buf

(* A request whose record stays, or only ages, still fits. *)
LEMMA StillFits ==
  ASSUME IInv, [Next]_vars, NEW w \in Watchers,
         watcher'[w].state = watcher[w].state, watcher'[w].b = watcher[w].b,
         watcher'[w].pre = watcher[w].pre, watcher'[w].pos = watcher[w].pos,
         watcher'[w].why = watcher[w].why
  PROVE  FitsAlone(w)
<1>1. StreamsGo
  BY StreamsStep
<1>2. watcher[w].pos \in Nat /\ watcher[w] \in WatcherRecs(opened) /\ opened \in Nat
  BY OnHeap, WatcherFields DEF IInv
<1>3. watcher[w].state \in {"picked", "watching"} =>
        /\ watcher[w].b \in Heap
        /\ store[watcher[w].b].uploaded
        /\ watcher[w].pos <= store[watcher[w].b].buf
  BY DEF IInv, RequestsFit, There
<1>4. /\ watcher[w].state \in {"away", "picked"} => watcher[w].pre
      /\ watcher[w].state = "away" => watcher[w].pos = 0
      /\ watcher[w].state # "closed" => watcher[w].why = "none"
  BY DEF IInv, RequestsFit
<1> QED
  BY <1>1, <1>2, <1>3, <1>4 DEF StreamsGo, FitsAlone

(* What is known of a request stays true of it. *)
LEMMA RequestsFitStep ==
  ASSUME IInv, [Next]_vars
  PROVE  RequestsFit'
<1>0. StreamsGo /\ opened \in Nat /\ \A w \in Watchers : watcher[w] \in WatcherRecs(opened)
  BY StreamsStep, OnHeap DEF IInv
<1> SUFFICES ASSUME NEW w \in Watchers PROVE FitsAlone(w)
  BY DEF RequestsFit, FitsAlone, There
<1>1. CASE watcher'[w] = watcher[w]
  BY <1>1, StillFits
<1>2. ASSUME RequestStep(w)
      PROVE  FitsAlone(w)
  <2>1. ASSUME NEW b \in Heap, watcher[w].state = "away", store[b].uploaded,
               OneWatcher(w, Picked(watcher[w], b)), b \in 0 .. opened
        PROVE  FitsAlone(w)
    <3>1. watcher'[w] = Picked(watcher[w], b)
      BY <2>1 DEF OneWatcher
    <3>2. /\ watcher'[w].state = "picked" /\ watcher'[w].b = b /\ watcher'[w].pre = watcher[w].pre
          /\ watcher'[w].pos = watcher[w].pos /\ watcher'[w].why = watcher[w].why
      BY <3>1, <2>1, <1>0, PickedFields
    <3>3. watcher[w].pre /\ watcher[w].pos = 0 /\ watcher[w].why = "none"
      BY <2>1 DEF IInv, RequestsFit
    <3>4. store'[b].uploaded /\ 0 <= store'[b].buf
      BY <1>0, <2>1 DEF StreamsGo
    <3> QED BY <3>2, <3>3, <3>4 DEF FitsAlone
  <2>2. ASSUME OneWatcher(w, Closed(watcher[w], "refused"))
        PROVE  FitsAlone(w)
    <3>1. watcher'[w] = Closed(watcher[w], "refused")
      BY <2>2 DEF OneWatcher
    <3>2. watcher'[w].state = "closed"
      BY <3>1, <1>0, ClosedFields
    <3> QED BY <3>2 DEF FitsAlone
  <2>3. ASSUME watcher[w].state = "picked", OneWatcher(w, Hijacked(watcher[w]))
        PROVE  FitsAlone(w)
    <3>1. watcher'[w] = Hijacked(watcher[w])
      BY <2>3 DEF OneWatcher
    <3>2. /\ watcher'[w].state = "watching" /\ watcher'[w].b = watcher[w].b
          /\ watcher'[w].pos = watcher[w].pos /\ watcher'[w].why = watcher[w].why
      BY <3>1, <1>0, HijackedFields
    <3>3. /\ watcher[w].why = "none" /\ watcher[w].b \in Heap /\ store[watcher[w].b].uploaded
          /\ watcher[w].pos <= store[watcher[w].b].buf
      BY <2>3 DEF IInv, RequestsFit, There
    <3>4. watcher[w].pos \in Nat
      BY <1>0, WatcherFields
    <3> QED BY <3>2, <3>3, <3>4, <1>0 DEF FitsAlone, StreamsGo
  <2> QED BY <1>2, <2>1, <2>2, <2>3 DEF RequestStep
<1>3. ASSUME Begin
      PROVE  FitsAlone(w)
  <2>1. watcher'[w] = Older(watcher[w])
    BY <1>3, BeginEffect DEF IInv
  <2>2. /\ watcher'[w].state = watcher[w].state /\ watcher'[w].b = watcher[w].b
        /\ watcher'[w].pre = watcher[w].pre /\ watcher'[w].pos = watcher[w].pos
        /\ watcher'[w].why = watcher[w].why
    BY <2>1, <1>0, OlderFields
  <2> QED BY <2>2, StillFits
<1>4. ASSUME Deliver, w = Head(round.todo)
      PROVE  FitsAlone(w)
  <2> DEFINE b == watcher[w].b
             v == round.views[b]
  <2>1. /\ w \in There /\ b \in Heap
        /\ \E x \in WatcherRecs(opened) :
             /\ TurnOf(watcher[w], x, v)
             /\ KeptAs(w, x) \/ \E why \in {"failed", "finished", "stalled"} : DroppedAs(w, x, why)
    BY <1>4, DeliverEffect
  <2>2. /\ watcher[w].state \in {"picked", "watching"} /\ watcher[w].why = "none"
        /\ store[b].uploaded /\ watcher[w].pos <= store[b].buf
    BY <2>1 DEF IInv, RequestsFit, There
  <2>3. v.buf <= store[b].buf /\ v.buf \in Nat /\ watcher[w].pos \in Nat
    BY <2>1, <1>0, WatcherFields, Typed, RoundFields DEF IInv, ViewsFit
  <2>4. ASSUME NEW x \in WatcherRecs(opened), TurnOf(watcher[w], x, v), KeptAs(w, x)
        PROVE  FitsAlone(w)
    <3>1. watcher'[w] = x /\ store' = store
      BY <2>4 DEF KeptAs, OneWatcher
    <3>2. /\ x.state = watcher[w].state /\ x.b = watcher[w].b /\ x.why = watcher[w].why
          /\ (x.pos <= watcher[w].pos \/ x.pos <= v.buf)
      BY <2>4 DEF TurnOf
    <3>3. x.pos \in Nat /\ store[b].buf \in Nat
      BY <2>1, <1>0, WatcherFields DEF StreamsGo
    <3>4. x.pos <= store[b].buf
      BY <2>2, <2>3, <3>2, <3>3
    <3>5. x.state = "watching"
      BY <3>2, <1>4, DeliverEffect DEF Watching
    <3> QED BY <2>1, <2>2, <3>1, <3>2, <3>4, <3>5 DEF FitsAlone
  <2>5. ASSUME NEW x \in WatcherRecs(opened), NEW why \in {"failed", "finished", "stalled"},
               DroppedAs(w, x, why)
        PROVE  FitsAlone(w)
    <3>1. watcher'[w] = Closed(x, why)
      BY <2>5 DEF DroppedAs, OneWatcher
    <3>2. watcher'[w].state = "closed"
      BY <3>1, <1>0, ClosedFields
    <3> QED BY <3>2 DEF FitsAlone
  <2> QED BY <2>1, <2>4, <2>5
<1>5. ASSUME NEW u \in Watchers, RequestStep(u), u # w
      PROVE  watcher'[w] = watcher[w]
  BY <1>5 DEF RequestStep, OneWatcher
<1>6. ASSUME Deliver, w # Head(round.todo)
      PROVE  watcher'[w] = watcher[w]
  BY <1>6, DeliverEffect DEF KeptAs, DroppedAs, OneWatcher
<1>7. ASSUME QuietStep \/ \E b \in Heap : UploadStep(b)
      PROVE  watcher'[w] = watcher[w]
  BY <1>7 DEF QuietStep, UploadStep
<1> QED
  BY <1>1, <1>2, <1>3, <1>4, <1>5, <1>6, <1>7, Kinds

(* Places that stay, of spectators that are all still watching. *)
LEMMA PlacesStay ==
  ASSUME OnePlace, UNCHANGED <<join, ws, round>>, Watching \subseteq Watching'
  PROVE  OnePlace'
  BY DEF OnePlace

(* Who is watching changes with its state only. *)
LEMMA WatchingOthers ==
  ASSUME NEW w \in Watchers, NEW x, OneWatcher(w, x)
  PROVE  Watching' = IF x.state = "watching" THEN Watching \cup {w} ELSE Watching \ {w}
  BY DEF Watching, OneWatcher

(* A spectator stays in one place, moving from the channel to Run, and     *)
(* through rounds.                                                         *)
LEMMA OnePlaceStep ==
  ASSUME IInv, [Next]_vars
  PROVE  OnePlace'
<1> USE DEF IInv
<1>0. /\ TypeOK /\ OnePlace /\ opened \in Nat
      /\ \A w \in Watchers : watcher[w] \in WatcherRecs(opened)
      /\ join \in Seq(Watchers) /\ ws \in Seq(Watchers) /\ turn \in Nat
      /\ round \in RoundRecs /\ round.todo \in Seq(Watchers) /\ round.keep \in Seq(Watchers)
  BY OnHeap, Typed, RoundFields, Constants
<1>1. /\ Distinct(join) /\ Distinct(ws) /\ Distinct(round.todo) /\ Distinct(round.keep)
      /\ ToSet(join) \cap ToSet(ws) = {} /\ ToSet(round.todo) \cap ToSet(round.keep) = {}
      /\ ToSet(round.todo) \subseteq ToSet(ws) /\ ToSet(round.keep) \subseteq ToSet(ws)
      /\ ToSet(join) \subseteq Watching
      /\ ToSet(round.todo) \subseteq Watching /\ ToSet(round.keep) \subseteq Watching
      /\ ~ round.on => ToSet(ws) \subseteq Watching /\ round = Resting
  BY <1>0 DEF OnePlace
<1>2. Resting.todo = <<>> /\ Resting.keep = <<>> /\ ToSet(<<>>) = {} /\ Distinct(<<>>)
      /\ Resting.on = FALSE
  <2>1. Len(<<>>) = 0 /\ DOMAIN <<>> = {}
    OBVIOUS
  <2> QED BY <2>1 DEF Resting, ToSet, Distinct
<1>3. ASSUME NEW w \in Watchers, RequestStep(w)
      PROVE  OnePlace'
  <2>1. UNCHANGED <<join, ws, round>>
    BY <1>3 DEF RequestStep
  <2>2. Watching \subseteq Watching'
    <3>1. w \notin Watching
      BY <1>3 DEF RequestStep, Watching
    <3>2. PICK x : OneWatcher(w, x)
      BY <1>3 DEF RequestStep
    <3> QED BY <3>1, <3>2, WatchingOthers
  <2> QED BY <1>0, <2>1, <2>2, PlacesStay
<1>4. ASSUME NEW b \in Heap, UploadStep(b)
      PROVE  OnePlace'
  <2>1. Watching' = Watching /\ UNCHANGED <<join, ws, round>>
    BY <1>4 DEF UploadStep, Watching
  <2> QED BY <1>0, <2>1, PlacesStay
<1>5. ASSUME Begin
      PROVE  OnePlace'
  <2>1. /\ ~ round.on /\ UNCHANGED <<join, ws>> /\ round'.on
        /\ round'.todo = Rotated(ws, turn) /\ round'.keep = <<>>
        /\ \A w \in Watchers : watcher'[w] = Older(watcher[w])
    BY <1>5, BeginEffect
  <2>2. Watching' = Watching
    BY <2>1, <1>0, OlderFields DEF Watching
  <2>3. Distinct(Rotated(ws, turn)) /\ ToSet(Rotated(ws, turn)) \subseteq ToSet(ws)
    BY <1>0, <1>1, RotatedOnce
  <2> QED BY <1>1, <1>2, <2>1, <2>2, <2>3 DEF OnePlace
<1>6. ASSUME NEW w \in Watchers, Join(w)
      PROVE  OnePlace'
  <2>1. /\ w \in Watching /\ w \notin ToSet(join) /\ w \notin ToSet(ws)
        /\ join' = Append(join, w) /\ UNCHANGED <<ws, round, watcher>>
    BY <1>0, <1>6, JoinEffect
  <2>2. Distinct(join') /\ ToSet(join') = ToSet(join) \cup {w}
    BY <2>1, <1>0, <1>1, Added
  <2>3. Watching' = Watching
    BY <2>1 DEF Watching
  <2> QED BY <1>1, <2>1, <2>2, <2>3 DEF OnePlace
<1>7. ASSUME TakeIn
      PROVE  OnePlace'
  <2> DEFINE w == Head(join)
  <2>1. /\ ~ round.on /\ join # <<>> /\ ws' = Append(ws, w) /\ join' = Tail(join)
        /\ UNCHANGED <<round, watcher>>
    BY <1>0, <1>7, TakeInEffect
  <2>2. /\ w \in ToSet(join) /\ w \in Watchers /\ Distinct(join')
        /\ ToSet(join') = ToSet(join) \ {w}
    BY <2>1, <1>0, <1>1, Taken1
  <2> HIDE DEF w
  <2>3. w \notin ToSet(ws) /\ w \in Watching
    BY <2>2, <1>1
  <2>4. Distinct(ws') /\ ToSet(ws') = ToSet(ws) \cup {w}
    BY <2>1, <2>2, <2>3, <1>0, <1>1, Added
  <2>5. Watching' = Watching
    BY <2>1 DEF Watching
  <2> QED BY <1>1, <2>1, <2>2, <2>3, <2>4, <2>5 DEF OnePlace
<1>8. ASSUME Deliver
      PROVE  OnePlace'
  <2> DEFINE w == Head(round.todo)
  <2>1. /\ w \in Watchers /\ w \in Watching /\ w \in ToSet(round.todo) /\ round.todo # <<>>
        /\ round'.todo = Tail(round.todo) /\ round'.on = round.on /\ UNCHANGED <<join, ws>>
        /\ \E x \in WatcherRecs(opened) :
             /\ x.state = watcher[w].state
             /\ KeptAs(w, x) \/ \E why \in {"failed", "finished", "stalled"} : DroppedAs(w, x, why)
    BY <1>8, DeliverEffect DEF TurnOf
  <2>2. /\ Distinct(round'.todo) /\ ToSet(round'.todo) = ToSet(round.todo) \ {w}
    BY <2>1, <1>0, <1>1, Taken1
  <2>3. round.on
    BY <2>1, <1>1, <1>2
  <2>4. /\ w \in ToSet(ws) /\ w \notin ToSet(round.keep) /\ w \notin ToSet(join)
        /\ watcher[w].state = "watching"
    BY <2>1, <1>1 DEF Watching
  <2> HIDE DEF w
  <2>5. ASSUME NEW x \in WatcherRecs(opened), x.state = watcher[w].state, KeptAs(w, x)
        PROVE  OnePlace'
    <3>1. OneWatcher(w, x) /\ round'.keep = Append(round.keep, w)
      BY <2>5 DEF KeptAs
    <3>2. Watching' = Watching
      BY <3>1, <2>1, <2>4, <2>5, WatchingOthers
    <3>3. Distinct(round'.keep) /\ ToSet(round'.keep) = ToSet(round.keep) \cup {w}
      BY <3>1, <2>1, <2>4, <1>0, <1>1, Added
    <3> QED BY <1>1, <2>1, <2>2, <2>3, <2>4, <3>2, <3>3 DEF OnePlace
  <2>6. ASSUME NEW x \in WatcherRecs(opened), NEW why \in {"failed", "finished", "stalled"},
               DroppedAs(w, x, why)
        PROVE  OnePlace'
    <3>1. OneWatcher(w, Closed(x, why)) /\ round'.keep = round.keep
      BY <2>6 DEF DroppedAs
    <3>2. Closed(x, why).state = "closed"
      BY <1>0, ClosedFields
    <3>3. Watching' = Watching \ {w}
      BY <3>1, <3>2, <2>1, WatchingOthers
    <3> QED BY <1>1, <2>1, <2>2, <2>3, <2>4, <3>1, <3>3 DEF OnePlace
  <2> QED BY <2>1, <2>5, <2>6
<1>9. ASSUME End
      PROVE  OnePlace'
  <2>1. ws' = round.keep /\ round' = Resting /\ UNCHANGED <<join, watcher>>
    BY <1>0, <1>9, EndEffect
  <2>2. Watching' = Watching
    BY <2>1 DEF Watching
  <2> QED BY <1>1, <1>2, <2>1, <2>2 DEF OnePlace
<1>10. ASSUME UNCHANGED <<join, ws, round, watcher>>
       PROVE  OnePlace'
  <2>1. Watching' = Watching
    BY <1>10 DEF Watching
  <2> QED BY <1>0, <1>10, <2>1, PlacesStay
<1>11. ASSUME NEW c \in Codes, Open(c)
       PROVE  UNCHANGED <<join, ws, round, watcher>>
  BY <1>11 DEF Open
<1>12. ASSUME UNCHANGED vars
       PROVE  UNCHANGED <<join, ws, round, watcher>>
  BY <1>12 DEF vars
<1>13. \/ (\E b \in Heap : UploadStep(b)) \/ (\E w \in Watchers : RequestStep(w))
       \/ Begin \/ Deliver \/ (\E w \in Watchers : Join(w)) \/ TakeIn \/ End
       \/ (\E c \in Codes : Open(c)) \/ UNCHANGED vars
  BY RealKinds
<1> QED
  BY <1>3, <1>4, <1>5, <1>6, <1>7, <1>8, <1>9, <1>10, <1>11, <1>12, <1>13

(* A round's views are parts of the streams. *)
LEMMA ViewsFitStep ==
  ASSUME IInv, [Next]_vars
  PROVE  ViewsFit'
<1>0. /\ StreamsGo /\ ViewsFit
      /\ \A b \in Heap : round.views[b].buf \in Nat
  BY StreamsStep, Typed, RoundFields DEF IInv
<1>1. ASSUME round'.views = round.views
      PROVE  ViewsFit'
  <2> SUFFICES ASSUME NEW b \in Heap
               PROVE  /\ round.views[b].buf <= store'[b].buf
                      /\ round.views[b].done => /\ store'[b].done
                                                /\ round.views[b].buf = store'[b].buf
    BY <1>1 DEF ViewsFit
  <2> QED BY <1>0 DEF ViewsFit, StreamsGo
<1>2. ASSUME Begin
      PROVE  ViewsFit'
  <2>1. \A b \in Heap :
              /\ store'[b] = Aged(store[b]) /\ store[b].silent < UploadIdle
              /\ round'.views[b].buf <= store[b].buf
              /\ round'.views[b].done => store[b].done /\ round'.views[b].buf = store[b].buf
    BY <1>2, BeginEffect DEF IInv
  <2>2. \A b \in Heap : store[b] \in BattleRecs
    BY OnHeap DEF IInv
  <2>3. \A b \in Heap : store'[b].buf = store[b].buf /\ store'[b].done = store[b].done
    BY <2>1, <2>2, AgedFields
  <2> QED BY <2>1, <2>3 DEF ViewsFit
<1>3. ASSUME round' = Resting
      PROVE  ViewsFit'
  <2>1. \A b \in Heap : round'.views[b].buf = 0 /\ ~ round'.views[b].done
    BY <1>3 DEF Resting, NoView
  <2>2. \A b \in Heap : 0 <= store'[b].buf
    BY <1>0 DEF StreamsGo
  <2> QED BY <2>1, <2>2 DEF ViewsFit
<1>4. ASSUME Deliver
      PROVE  round'.views = round.views
  BY <1>4, DeliverEffect
<1> QED
  BY <1>1, <1>2, <1>3, <1>4, Kinds DEF UploadStep, RequestStep, QuietStep

(* Who was told the end keeps the whole of a stream that is over. *)
LEMMA FinishedFitStep ==
  ASSUME IInv, [Next]_vars
  PROVE  FinishedFit'
<1> DEFINE Whole(w) == watcher'[w].why = "finished" =>
             /\ watcher'[w].b \in Heap /\ store'[watcher'[w].b].done
             /\ ~ watcher'[w].pre /\ watcher'[w].pos = store'[watcher'[w].b].buf
<1>0. StreamsGo /\ opened \in Nat /\ \A w \in Watchers : watcher[w] \in WatcherRecs(opened)
  BY StreamsStep, OnHeap DEF IInv
<1> SUFFICES ASSUME NEW w \in Watchers PROVE Whole(w)
  BY DEF FinishedFit
<1>1. ASSUME watcher'[w].why = watcher[w].why, watcher'[w].b = watcher[w].b,
             watcher'[w].pre = watcher[w].pre, watcher'[w].pos = watcher[w].pos
      PROVE  Whole(w)
  <2>1. watcher[w].why = "finished" =>
             /\ watcher[w].b \in Heap /\ store[watcher[w].b].done
             /\ ~ watcher[w].pre /\ watcher[w].pos = store[watcher[w].b].buf
    BY DEF IInv, FinishedFit
  <2> QED BY <1>0, <1>1, <2>1 DEF StreamsGo
<1>2. ASSUME watcher'[w].why # "finished"
      PROVE  Whole(w)
  BY <1>2
<1>3. ASSUME RequestStep(w)
      PROVE  watcher'[w].why # "finished"
  <2>1. watcher[w].state \in {"away", "picked"}
    BY <1>3 DEF RequestStep
  <2>2. watcher[w].why = "none"
    BY <2>1 DEF IInv, RequestsFit
  <2>3. \/ \E b \in 0 .. opened : watcher'[w] = Picked(watcher[w], b)
        \/ watcher'[w] = Closed(watcher[w], "refused")
        \/ watcher'[w] = Hijacked(watcher[w])
    BY <1>3 DEF RequestStep, OneWatcher
  <2> QED BY <2>2, <2>3, <1>0, PickedFields, ClosedFields, HijackedFields
<1>4. ASSUME Begin
      PROVE  Whole(w)
  <2>1. watcher'[w] = Older(watcher[w])
    BY <1>4, BeginEffect DEF IInv
  <2> QED BY <2>1, <1>0, <1>1, OlderFields
<1>5. ASSUME Deliver, w = Head(round.todo)
      PROVE  Whole(w)
  <2> DEFINE b == watcher[w].b
             v == round.views[b]
  <2>1. /\ w \in There /\ b \in Heap /\ v \in ViewRecs
        /\ \E x \in WatcherRecs(opened) :
             /\ TurnOf(watcher[w], x, v)
             /\ \/ KeptAs(w, x)
                \/ DroppedAs(w, x, "failed")
                \/ v.done /\ ~ Lacks(x, v) /\ DroppedAs(w, x, "finished")
                \/ DroppedAs(w, x, "stalled")
    BY <1>5, DeliverEffect
  <2>2. /\ watcher[w].why = "none" /\ watcher[w].pos <= store[b].buf
    BY <2>1 DEF IInv, RequestsFit, There
  <2>3. /\ v.buf <= store[b].buf
        /\ v.done => store[b].done /\ v.buf = store[b].buf
    BY <2>1 DEF IInv, ViewsFit
  <2>4. v.buf \in Nat /\ watcher[w].pos \in Nat /\ store[b].buf \in Nat
    BY <2>1, <1>0, WatcherFields, Typed, RoundFields DEF IInv, StreamsGo
  <2>5. ASSUME NEW x \in WatcherRecs(opened), TurnOf(watcher[w], x, v), KeptAs(w, x)
        PROVE  watcher'[w].why # "finished"
    BY <2>2, <2>5 DEF KeptAs, OneWatcher, TurnOf
  <2>6. ASSUME NEW x \in WatcherRecs(opened), NEW why \in {"failed", "stalled"},
               DroppedAs(w, x, why)
        PROVE  watcher'[w].why # "finished"
    <3>1. watcher'[w] = Closed(x, why)
      BY <2>6 DEF DroppedAs, OneWatcher
    <3> QED BY <3>1, <1>0, ClosedFields
  <2>7. ASSUME NEW x \in WatcherRecs(opened), TurnOf(watcher[w], x, v),
               v.done, ~ Lacks(x, v), DroppedAs(w, x, "finished")
        PROVE  Whole(w)
    <3>1. watcher'[w] = Closed(x, "finished")
      BY <2>7 DEF DroppedAs, OneWatcher
    <3>2. watcher'[w].b = x.b /\ watcher'[w].pre = x.pre /\ watcher'[w].pos = x.pos
      BY <3>1, <1>0, ClosedFields
    <3>3. x.b = b /\ (x.pos <= watcher[w].pos \/ x.pos <= v.buf)
      BY <2>7 DEF TurnOf
    <3>4. x.pos \in Nat
      BY <1>0, WatcherFields
    <3>5. ~ x.pre /\ ~ (x.pos < v.buf)
      BY <2>7 DEF Lacks
    <3>6. v.buf = store[b].buf /\ store[b].done
      BY <2>3, <2>7
    <3>7. x.pos = store[b].buf
      BY <2>2, <2>4, <3>3, <3>4, <3>5, <3>6
    <3>8. store'[b].done /\ store'[b].buf = store[b].buf
      BY <1>0, <2>1, <3>6 DEF StreamsGo
    <3> QED BY <2>1, <3>2, <3>3, <3>5, <3>7, <3>8
  <2> QED BY <1>2, <2>1, <2>5, <2>6, <2>7
<1>6. ASSUME NEW u \in Watchers, RequestStep(u), u # w
      PROVE  watcher'[w] = watcher[w]
  BY <1>6 DEF RequestStep, OneWatcher
<1>7. ASSUME Deliver, w # Head(round.todo)
      PROVE  watcher'[w] = watcher[w]
  BY <1>7, DeliverEffect DEF KeptAs, DroppedAs, OneWatcher
<1>8. ASSUME QuietStep \/ \E b \in Heap : UploadStep(b)
      PROVE  watcher'[w] = watcher[w]
  BY <1>8 DEF QuietStep, UploadStep
<1> HIDE DEF Whole
<1>9. ASSUME watcher'[w] = watcher[w]
      PROVE  Whole(w)
  BY <1>1, <1>9
<1> QED
  BY <1>2, <1>3, <1>4, <1>5, <1>6, <1>7, <1>8, <1>9, Kinds

(* Who is up to date has been idle no longer than its upload was silent:   *)
(* what makes one up to date makes it begin anew, and a round of silence   *)
(* counts for both.                                                        *)
LEMMA IdleAsSilentStep ==
  ASSUME IInv, [Next]_vars
  PROVE  IdleAsSilent'
<1> DEFINE UpToDate(x, s) == ~ x.pre /\ x.pos = s.buf /\ s.uploading
           Old(w) == LET b == watcher[w].b
                     IN  UpToDate(watcher[w], store[b]) => watcher[w].idle <= store[b].silent
           New(w) == LET b == watcher'[w].b
                     IN  UpToDate(watcher'[w], store'[b]) => watcher'[w].idle <= store'[b].silent
<1>0. /\ StreamsGo /\ opened \in Nat
      /\ \A w \in Watchers : watcher[w] \in WatcherRecs(opened)
      /\ \A b \in Heap : store[b] \in BattleRecs
  BY StreamsStep, OnHeap DEF IInv
<1> SUFFICES ASSUME NEW w \in Watchers, watcher'[w].state = "watching" PROVE New(w)
  BY DEF IdleAsSilent, Watching
<1>1. ASSUME watcher[w].state = "watching"
      PROVE  /\ Old(w) /\ watcher[w].b \in Heap /\ store[watcher[w].b].uploaded
             /\ watcher[w].pos <= store[watcher[w].b].buf
             /\ watcher[w].pos \in Nat /\ watcher[w].idle \in Nat
  <2>1. /\ watcher[w].b \in Heap /\ store[watcher[w].b].uploaded
        /\ watcher[w].pos <= store[watcher[w].b].buf
    BY <1>1 DEF IInv, RequestsFit, There
  <2>2. Old(w)
    BY <1>1 DEF IInv, IdleAsSilent, Watching
  <2> QED BY <2>1, <2>2, <1>0, WatcherFields
<1>2. ASSUME StreamsSame, watcher'[w] = watcher[w]
      PROVE  New(w)
  BY <1>1, <1>2 DEF StreamsSame
<1>3. ASSUME NEW b \in Heap, UploadStep(b)
      PROVE  New(w)
  <2>1. watcher'[w] = watcher[w] /\ \A c \in Heap : c # b => store'[c] = store[c]
    BY <1>3 DEF UploadStep, OneBattle
  <2>2. CASE watcher[w].b # b
    BY <1>1, <2>1, <2>2
  <2>3. CASE watcher[w].b = b /\ ~ store[b].uploaded
    BY <1>1, <2>1, <2>3
  <2>4. CASE watcher[w].b = b /\ store[b].buf < MaxBytes /\ OneBattle(b, Grown(store[b]))
    <3>1. store'[b].buf = store[b].buf + 1
      BY <2>4, <1>0, GrownFields DEF OneBattle
    <3>2. store[b].buf \in Nat
      BY <1>0, BattleFields
    <3> QED BY <1>1, <2>1, <2>4, <3>1, <3>2
  <2>5. CASE watcher[w].b = b /\ OneBattle(b, Ended(store[b]))
    <3>1. ~ Ended(store[b]).uploading
      <4>1. store[b] \in BattleRecs
        BY <1>0
      <4> QED BY <4>1, EndedFields
    <3>2. ~ store'[b].uploading
      BY <2>5, <3>1 DEF OneBattle
    <3> QED BY <2>1, <2>5, <3>2
  <2> HIDE DEF New, Old
  <2> QED BY <1>3, <2>2, <2>3, <2>4, <2>5 DEF UploadStep
<1>4. ASSUME RequestStep(w)
      PROVE  New(w)
  <2>1. ASSUME NEW b \in 0 .. opened, watcher'[w] = Picked(watcher[w], b)
        PROVE  FALSE
    BY <2>1, <1>0, PickedFields
  <2>2. ASSUME watcher'[w] = Closed(watcher[w], "refused")
        PROVE  FALSE
    BY <2>2, <1>0, ClosedFields
  <2>3. ASSUME watcher[w].state = "picked", watcher'[w] = Hijacked(watcher[w])
        PROVE  New(w)
    <3>1. watcher'[w].pre = watcher[w].pre
      BY <2>3, <1>0, HijackedFields
    <3>2. watcher[w].pre
      BY <2>3 DEF IInv, RequestsFit
    <3> QED BY <3>1, <3>2
  <2> HIDE DEF New
  <2> QED BY <1>4, <2>1, <2>2, <2>3 DEF RequestStep, OneWatcher
<1>5. ASSUME Begin
      PROVE  New(w)
  <2> DEFINE b == watcher[w].b
  <2>1. watcher'[w] = Older(watcher[w])
        /\ \A c \in Heap : store'[c] = Aged(store[c]) /\ store[c].silent < UploadIdle
    BY <1>5, BeginEffect DEF IInv
  <2>2. /\ watcher'[w].state = watcher[w].state /\ watcher'[w].b = b
        /\ watcher'[w].pre = watcher[w].pre /\ watcher'[w].pos = watcher[w].pos
        /\ (watcher'[w].idle = watcher[w].idle \/ watcher'[w].idle = watcher[w].idle + 1)
    BY <2>1, <1>0, OlderFields
  <2>3. /\ Old(w) /\ b \in Heap /\ watcher[w].idle \in Nat
    BY <2>2, <1>1
  <2>4. store[b] \in BattleRecs /\ store[b].silent \in Nat
    BY <2>3, <1>0, BattleFields
  <2>5. /\ store'[b].silent = IF store[b].uploading THEN store[b].silent + 1 ELSE store[b].silent
        /\ store'[b].uploading = store[b].uploading /\ store'[b].buf = store[b].buf
    BY <2>1, <2>3, <2>4, AgedFields
  <2> HIDE DEF b
  <2> QED BY <2>2, <2>3, <2>4, <2>5 DEF b
<1>6. ASSUME Deliver, w = Head(round.todo)
      PROVE  New(w)
  <2> DEFINE b == watcher[w].b
             v == round.views[b]
  <2>1. /\ w \in Watching /\ b \in Heap /\ v \in ViewRecs /\ StreamsSame
        /\ \E x \in WatcherRecs(opened) :
             /\ TurnOf(watcher[w], x, v)
             /\ KeptAs(w, x) \/ \E why \in {"failed", "finished", "stalled"} : DroppedAs(w, x, why)
    BY <1>6, DeliverEffect, DeliverStreams
  <2>2. v.buf <= store[b].buf /\ v.buf \in Nat /\ store[b].buf \in Nat /\ store[b].silent \in Nat
    BY <2>1, <1>0, Typed, RoundFields, BattleFields DEF IInv, ViewsFit
  <2>3. ASSUME NEW x \in WatcherRecs(opened), TurnOf(watcher[w], x, v), KeptAs(w, x)
        PROVE  New(w)
    <3>1. watcher'[w] = x /\ x.b = b
          /\ (x = watcher[w] \/ x.idle = 0 \/ Lacks(x, v))
      BY <2>3 DEF KeptAs, OneWatcher, TurnOf
    <3>2. /\ store'[b].buf = store[b].buf /\ store'[b].uploading = store[b].uploading
          /\ store'[b].silent = store[b].silent
      BY <2>1 DEF StreamsSame
    <3>3. CASE x = watcher[w]
      BY <3>1, <3>3, <2>1, <1>2
    <3>4. CASE x.idle = 0
      BY <3>1, <3>2, <3>4, <2>2
    <3>5. CASE Lacks(x, v)
      <4>1. x.pos \in Nat
        BY <1>0, WatcherFields
      <4>2. x.pre \/ x.pos # store[b].buf
        BY <4>1, <3>5, <2>2 DEF Lacks
      <4> QED BY <4>2, <3>1, <3>2
    <3> QED BY <3>1, <3>3, <3>4, <3>5
  <2>4. ASSUME NEW x \in WatcherRecs(opened), NEW why \in {"failed", "finished", "stalled"},
               DroppedAs(w, x, why)
        PROVE  FALSE
    <3>1. watcher'[w] = Closed(x, why)
      BY <2>4 DEF DroppedAs, OneWatcher
    <3> QED BY <3>1, <1>0, ClosedFields
  <2> HIDE DEF New
  <2> QED BY <2>1, <2>3, <2>4
<1> HIDE DEF New, Old
<1>7. ASSUME NEW u \in Watchers, RequestStep(u), u # w
      PROVE  New(w)
  BY <1>2, <1>7 DEF RequestStep, OneWatcher
<1>8. ASSUME Deliver, w # Head(round.todo)
      PROVE  New(w)
  <2>1. watcher'[w] = watcher[w]
    BY <1>8, DeliverEffect DEF KeptAs, DroppedAs, OneWatcher
  <2> QED BY <2>1, <1>2, <1>8, DeliverStreams
<1>9. ASSUME QuietStep
      PROVE  New(w)
  BY <1>0, <1>2, <1>9 DEF QuietStep, StreamsSame
<1> QED
  BY <1>3, <1>4, <1>5, <1>6, <1>7, <1>8, <1>9, Kinds

(* A round comes to who is up to date before it was idle for long: when    *)
(* the round began its upload had not been silent for long.                *)
LEMMA IdleInRoundStep ==
  ASSUME IInv, [Next]_vars
  PROVE  IdleInRound'
<1> DEFINE Fresh(x, v) == ~ Lacks(x, v) /\ ~ v.done => x.idle <= UploadIdle
<1>0. /\ opened \in Nat /\ \A w \in Watchers : watcher[w] \in WatcherRecs(opened)
      /\ \A b \in Heap : store[b] \in BattleRecs
      /\ ws \in Seq(Watchers) /\ turn \in Nat /\ round.todo \in Seq(Watchers)
  BY OnHeap, Typed, RoundFields, Constants DEF IInv
<1>1. ASSUME NEW w, w \in ToSet(round.todo)
      PROVE  /\ w \in Watchers /\ watcher[w].state = "watching"
             /\ Fresh(watcher[w], round.views[watcher[w].b])
  BY <1>1 DEF IInv, IdleInRound, OnePlace, Watching
<1>2. ASSUME round'.views = round.views, ToSet(round'.todo) \subseteq ToSet(round.todo),
             \A w \in ToSet(round'.todo) : watcher'[w] = watcher[w]
      PROVE  IdleInRound'
  <2> SUFFICES ASSUME NEW w, w \in ToSet(round'.todo)
               PROVE  Fresh(watcher'[w], round'.views[watcher'[w].b])
    BY DEF IdleInRound
  <2> HIDE DEF Fresh
  <2> QED BY <1>1, <1>2
<1>3. ASSUME NEW b \in Heap, UploadStep(b)
      PROVE  IdleInRound'
  BY <1>2, <1>3 DEF UploadStep
<1>4. ASSUME NEW u \in Watchers, RequestStep(u)
      PROVE  IdleInRound'
  <2>1. round' = round /\ watcher[u].state # "watching"
    BY <1>4 DEF RequestStep
  <2>2. \A w \in ToSet(round.todo) : watcher'[w] = watcher[w]
    BY <2>1, <1>1, <1>4 DEF RequestStep, OneWatcher
  <2> QED BY <2>1, <2>2, <1>2
<1>5. ASSUME Begin
      PROVE  IdleInRound'
  <2>1. /\ ~ round.on /\ round'.todo = Rotated(ws, turn)
        /\ \A b \in Heap :
             /\ store[b].silent < UploadIdle
             /\ (\E w \in ToSet(ws) : watcher[w].b = b) =>
                   round'.views[b].buf = store[b].buf /\ round'.views[b].done = store[b].done
        /\ \A w \in Watchers : watcher'[w] = Older(watcher[w])
    BY <1>5, BeginEffect DEF IInv
  <2>2. ToSet(Rotated(ws, turn)) \subseteq ToSet(ws)
    BY <1>0, RotatedOnce
  <2>3. ToSet(ws) \subseteq Watching
    BY <2>1 DEF IInv, OnePlace
  <2> SUFFICES ASSUME NEW w \in ToSet(round'.todo)
               PROVE  Fresh(watcher'[w], round'.views[watcher'[w].b])
    BY DEF IdleInRound
  <2> DEFINE b == watcher[w].b
             v == round'.views[b]
  <2>4. w \in ToSet(ws) /\ w \in Watching /\ w \in Watchers /\ w \in There
    BY <2>1, <2>2, <2>3 DEF Watching, There
  <2>5. /\ watcher'[w].b = b /\ watcher'[w].pre = watcher[w].pre
        /\ watcher'[w].pos = watcher[w].pos
        /\ (watcher'[w].idle = watcher[w].idle \/ watcher'[w].idle = watcher[w].idle + 1)
    BY <2>1, <2>4, <1>0, OlderFields
  <2>6. /\ b \in Heap /\ store[b].uploaded /\ watcher[w].pos <= store[b].buf
    BY <2>4 DEF IInv, RequestsFit
  <2>7. /\ store[b].silent \in Nat /\ store[b].buf \in Nat
        /\ watcher[w].pos \in Nat /\ watcher[w].idle \in Nat /\ UploadIdle \in Nat
    BY <2>4, <2>6, <1>0, BattleFields, WatcherFields, Constants
  <2>8. v.buf = store[b].buf /\ v.done = store[b].done /\ store[b].silent < UploadIdle
    BY <2>1, <2>4, <2>6
  <2>9. store[b].uploaded => store[b].uploading \/ store[b].done
    BY <2>6 DEF IInv, UploadsOnce
  <2>10. ~ watcher[w].pre /\ watcher[w].pos = store[b].buf /\ store[b].uploading
           => watcher[w].idle <= store[b].silent
    BY <2>4 DEF IInv, IdleAsSilent
  <2> HIDE DEF b, v
  <2>11. ASSUME ~ Lacks(watcher'[w], v), ~ v.done
         PROVE  watcher'[w].idle <= UploadIdle
    <3>1. ~ watcher[w].pre /\ ~ (watcher[w].pos < store[b].buf)
      BY <2>5, <2>8, <2>11 DEF Lacks
    <3>2. store[b].uploading
      BY <2>6, <2>8, <2>9, <2>11
    <3>3. watcher[w].pos = store[b].buf
      BY <3>1, <2>6, <2>7
    <3>4. watcher[w].idle <= store[b].silent
      BY <3>1, <3>2, <3>3, <2>10
    <3> QED BY <3>4, <2>5, <2>7, <2>8
  <2> QED BY <2>5, <2>11 DEF v
<1>6. ASSUME Deliver
      PROVE  IdleInRound'
  <2> DEFINE w == Head(round.todo)
  <2>1. /\ w \in Watchers /\ round.todo # <<>> /\ round'.todo = Tail(round.todo)
        /\ round'.views = round.views
        /\ \A u \in Watchers : u # w => watcher'[u] = watcher[u]
    BY <1>6, DeliverEffect DEF KeptAs, DroppedAs, OneWatcher
  <2>2. ToSet(round'.todo) = ToSet(round.todo) \ {w}
    BY <2>1, <1>0, Taken1 DEF IInv, OnePlace
  <2>3. \A u \in ToSet(round'.todo) : watcher'[u] = watcher[u]
    BY <2>1, <2>2, <1>1
  <2> QED BY <2>1, <2>2, <2>3, <1>2
<1>7. ASSUME QuietStep
      PROVE  IdleInRound'
  <2>1. CASE round' = Resting
    <3>1. DOMAIN round'.todo = {}
      BY <2>1 DEF Resting
    <3>2. ToSet(round'.todo) = {}
      BY <3>1 DEF ToSet
    <3> QED BY <3>2 DEF IdleInRound
  <2>2. CASE round' = round
    BY <2>2, <1>2, <1>7 DEF QuietStep
  <2> QED BY <2>1, <2>2, <1>7 DEF QuietStep
<1> QED
  BY <1>3, <1>4, <1>5, <1>6, <1>7, Kinds

-----------------------------------------------------------------------------
(* The counters.                                                           *)

WatchersOf(b) == {w \in There : watcher[w].b = b}

(* Nobody comes or goes. *)
LEMMA SameCounts ==
  ASSUME IInv, nwatchers' = nwatchers, \A b \in Heap : store'[b].watchers = store[b].watchers,
         \A w \in Watchers : watcher'[w].state \in {"picked", "watching"}
                               <=> watcher[w].state \in {"picked", "watching"},
         \A w \in There : watcher'[w].b = watcher[w].b
  PROVE  (IsFiniteSet(There) /\ CountsMatch)'
<1>1. There' = There
  BY DEF There
<1>2. \A b : WatchersOf(b)' = WatchersOf(b)
  BY <1>1 DEF WatchersOf
<1>3. /\ IsFiniteSet(There) /\ nwatchers = Cardinality(There)
      /\ \A b \in Heap : store[b].watchers = Cardinality(WatchersOf(b))
  BY DEF IInv, CountsMatch, WatchersOf
<1> QED
  BY <1>1, <1>2, <1>3 DEF CountsMatch, WatchersOf

(* One is counted out. *)
LEMMA FewerCounts ==
  ASSUME IInv, NEW w \in There, nwatchers' = nwatchers - 1,
         NEW x, OneWatcher(w, x), x.state = "closed",
         Counted(watcher[w].b, store[watcher[w].b].watchers - 1)
  PROVE  (IsFiniteSet(There) /\ CountsMatch)'
<1>0. PICK b \in Heap : b = watcher[w].b
  BY CountPositive DEF IInv
<1>1. store[b].watchers - 1 \in 0 .. MaxBattleWatchers /\ w \in Watchers
  BY <1>0, CountPositive DEF IInv, There
<1>2. /\ store'[b].watchers = store[b].watchers - 1
      /\ \A c \in Heap : c # b => store'[c].watchers = store[c].watchers
  BY <1>0, <1>1, CountedStreams DEF IInv
<1>3. /\ IsFiniteSet(There) /\ nwatchers = Cardinality(There)
      /\ \A c \in Heap : store[c].watchers = Cardinality(WatchersOf(c))
  BY DEF IInv, CountsMatch, WatchersOf
<1>4. watcher'[w] = x /\ \A u \in Watchers : u # w => watcher'[u] = watcher[u]
  BY DEF OneWatcher
<1>5. There' = There \ {w}
  BY <1>1, <1>4 DEF There
<1>6. WatchersOf(b)' = WatchersOf(b) \ {w} /\ w \in WatchersOf(b)
  BY <1>0, <1>1, <1>4, <1>5 DEF WatchersOf, There
<1>7. ASSUME NEW c \in Heap, c # b
      PROVE  WatchersOf(c)' = WatchersOf(c)
  BY <1>0, <1>4, <1>5, <1>7 DEF WatchersOf, There
<1>8. WatchersOf(b) \subseteq There
  BY DEF WatchersOf
<1>9. IsFiniteSet(WatchersOf(b))
  BY <1>3, <1>8, FS_Subset
<1>10. IsFiniteSet(There \ {w}) /\ Cardinality(There \ {w}) = Cardinality(There) - 1
  BY <1>3, FS_RemoveElement
<1>11. Cardinality(WatchersOf(b) \ {w}) = Cardinality(WatchersOf(b)) - 1
  BY <1>6, <1>9, FS_RemoveElement
<1>12. ASSUME NEW c \in Heap
       PROVE  store'[c].watchers = Cardinality(WatchersOf(c)')
  <2>1. CASE c = b
    BY <2>1, <1>2, <1>3, <1>6, <1>11
  <2>2. CASE c # b
    BY <2>2, <1>2, <1>3, <1>7
  <2> QED BY <2>1, <2>2
<1> QED
  BY <1>3, <1>5, <1>10, <1>12 DEF CountsMatch, WatchersOf

(* One is counted in. *)
LEMMA MoreCounts ==
  ASSUME IInv, NEW w \in Watchers, watcher[w].state = "away", NEW b \in Heap,
         nwatchers' = nwatchers + 1, store[b].watchers + 1 \in 0 .. MaxBattleWatchers,
         Counted(b, store[b].watchers + 1),
         NEW x, OneWatcher(w, x), x.state = "picked", x.b = b
  PROVE  (IsFiniteSet(There) /\ CountsMatch)'
<1>2. /\ store'[b].watchers = store[b].watchers + 1
      /\ \A c \in Heap : c # b => store'[c].watchers = store[c].watchers
  BY CountedStreams DEF IInv
<1>3. /\ IsFiniteSet(There) /\ nwatchers = Cardinality(There)
      /\ \A c \in Heap : store[c].watchers = Cardinality(WatchersOf(c))
  BY DEF IInv, CountsMatch, WatchersOf
<1>4. watcher'[w] = x /\ \A u \in Watchers : u # w => watcher'[u] = watcher[u]
  BY DEF OneWatcher
<1>5. There' = There \cup {w} /\ w \notin There
  BY <1>4 DEF There
<1>6. WatchersOf(b)' = WatchersOf(b) \cup {w} /\ w \notin WatchersOf(b)
  BY <1>4, <1>5 DEF WatchersOf, There
<1>7. ASSUME NEW c \in Heap, c # b
      PROVE  WatchersOf(c)' = WatchersOf(c)
  BY <1>4, <1>5, <1>7 DEF WatchersOf, There
<1>8. WatchersOf(b) \subseteq There
  BY DEF WatchersOf
<1>9. IsFiniteSet(WatchersOf(b))
  BY <1>3, <1>8, FS_Subset
<1>10. IsFiniteSet(There \cup {w}) /\ Cardinality(There \cup {w}) = Cardinality(There) + 1
  BY <1>3, <1>5, FS_AddElement
<1>11. Cardinality(WatchersOf(b) \cup {w}) = Cardinality(WatchersOf(b)) + 1
  BY <1>6, <1>9, FS_AddElement
<1>12. ASSUME NEW c \in Heap
       PROVE  store'[c].watchers = Cardinality(WatchersOf(c)')
  <2>1. CASE c = b
    BY <2>1, <1>2, <1>3, <1>6, <1>11
  <2>2. CASE c # b
    BY <2>2, <1>2, <1>3, <1>7
  <2> QED BY <2>1, <2>2
<1> QED
  BY <1>3, <1>5, <1>10, <1>12 DEF CountsMatch, WatchersOf

(* Who is counted in is there, and who is counted out no longer is. *)
LEMMA CountsStep ==
  ASSUME IInv, [Next]_vars
  PROVE  (IsFiniteSet(There) /\ CountsMatch)'
<1>0. /\ TypeOK /\ opened \in Nat /\ \A w \in Watchers : watcher[w] \in WatcherRecs(opened)
      /\ \A b \in Heap : store[b] \in BattleRecs
  BY OnHeap DEF IInv
<1> DEFINE Goal == (IsFiniteSet(There) /\ CountsMatch)'
<1>1. ASSUME NEW b \in Heap, UploadStep(b)
      PROVE  Goal
  <2>1. watcher' = watcher /\ nwatchers' = nwatchers
        /\ \A c \in Heap : c # b => store'[c] = store[c]
    BY <1>1 DEF UploadStep, OneBattle
  <2>2. store'[b].watchers = store[b].watchers
    <3>1. CASE store'[b] = Started(store[b])
      BY <3>1, <1>0, StartedFields
    <3>2. CASE store[b].buf < MaxBytes /\ store'[b] = Grown(store[b])
      BY <3>2, <1>0, GrownFields
    <3>3. CASE store'[b] = Ended(store[b])
      <4>1. store[b] \in BattleRecs
        BY <1>0
      <4>2. Ended(store[b]).watchers = store[b].watchers
        BY <4>1, EndedFields
      <4> QED BY <3>3, <4>2
    <3> QED BY <1>1, <3>1, <3>2, <3>3 DEF UploadStep, OneBattle
  <2>3. \A c \in Heap : store'[c].watchers = store[c].watchers
    BY <2>1, <2>2
  <2> QED BY <2>1, <2>3, SameCounts
<1>2. ASSUME NEW w \in Watchers, NEW c \in Codes, Pick(w, c)
      PROVE  Goal
  <2> DEFINE b == battles[c]
             x == Picked(watcher[w], b)
  <2>1. /\ b \in Heap /\ watcher[w].state = "away" /\ nwatchers' = nwatchers + 1
        /\ store[b].watchers + 1 \in 0 .. MaxBattleWatchers
        /\ Counted(b, store[b].watchers + 1) /\ OneWatcher(w, x)
    BY <1>0, <1>2, PickEffect DEF Counted
  <2>2. b \in 0 .. opened
    BY <1>0, <1>2, OnHeap DEF Pick
  <2> HIDE DEF b
  <2>3. x.state = "picked" /\ x.b = b
    BY <2>2, <1>0, PickedFields
  <2> HIDE DEF x, Goal
  <2> QED BY <2>1, <2>3, MoreCounts DEF Goal
<1>3. ASSUME NEW w \in Watchers, Unpick(w)
      PROVE  Goal
  <2> DEFINE x == Closed(watcher[w], "refused")
  <2>1. /\ w \in There /\ nwatchers' = nwatchers - 1 /\ OneWatcher(w, x)
        /\ Counted(watcher[w].b, store[watcher[w].b].watchers - 1)
    BY <1>3, UnpickEffect
  <2>2. x.state = "closed"
    BY <1>0, ClosedFields
  <2> HIDE DEF x, Goal
  <2> QED BY <2>1, <2>2, FewerCounts DEF Goal
<1>4. ASSUME NEW w \in Watchers, Hijack(w)
      PROVE  Goal
  <2>1. /\ watcher[w].state = "picked" /\ UNCHANGED <<store, nwatchers>>
        /\ watcher'[w] = Hijacked(watcher[w])
        /\ \A u \in Watchers : u # w => watcher'[u] = watcher[u]
    BY <1>0, <1>4, HijackEffect DEF OneWatcher
  <2>2. watcher'[w].state = "watching" /\ watcher'[w].b = watcher[w].b
    BY <2>1, <1>0, HijackedFields
  <2>3. \A u \in Watchers : watcher'[u].state \in {"picked", "watching"}
                              <=> watcher[u].state \in {"picked", "watching"}
    BY <2>1, <2>2
  <2>4. \A u \in There : watcher'[u].b = watcher[u].b
    BY <2>1, <2>2 DEF There
  <2> QED BY <2>1, <2>3, <2>4, SameCounts
<1>5. ASSUME Begin
      PROVE  Goal
  <2>1. /\ nwatchers' = nwatchers
        /\ \A b \in Heap : store'[b] = Aged(store[b]) /\ store[b].silent < UploadIdle
        /\ \A w \in Watchers : watcher'[w] = Older(watcher[w])
    BY <1>0, <1>5, BeginEffect
  <2>2. \A b \in Heap : store'[b].watchers = store[b].watchers
    BY <2>1, <1>0, AgedFields
  <2>3. \A w \in Watchers : watcher'[w].state = watcher[w].state /\ watcher'[w].b = watcher[w].b
    BY <2>1, <1>0, OlderFields
  <2>4. \A u \in There : watcher'[u].b = watcher[u].b
    BY <2>3 DEF There
  <2> QED BY <2>1, <2>2, <2>3, <2>4, SameCounts
<1>6. ASSUME Deliver
      PROVE  Goal
  <2> DEFINE w == Head(round.todo)
  <2>1. /\ w \in Watchers /\ w \in There
        /\ \E x \in WatcherRecs(opened) :
             /\ x.state = watcher[w].state /\ x.b = watcher[w].b
             /\ KeptAs(w, x) \/ \E why \in {"failed", "finished", "stalled"} : DroppedAs(w, x, why)
    BY <1>6, DeliverEffect DEF TurnOf
  <2> HIDE DEF w
  <2>2. ASSUME NEW x \in WatcherRecs(opened), x.state = watcher[w].state, x.b = watcher[w].b,
               KeptAs(w, x)
        PROVE  Goal
    <3>1. /\ watcher'[w] = x /\ UNCHANGED <<store, nwatchers>>
          /\ \A u \in Watchers : u # w => watcher'[u] = watcher[u]
      BY <2>2 DEF KeptAs, OneWatcher
    <3>2. \A u \in Watchers : watcher'[u].state = watcher[u].state /\ watcher'[u].b = watcher[u].b
      BY <3>1, <2>2
    <3>3. \A u \in There : watcher'[u].b = watcher[u].b
      BY <3>2 DEF There
    <3> QED BY <3>1, <3>2, <3>3, SameCounts
  <2>3. ASSUME NEW x \in WatcherRecs(opened), NEW why \in {"failed", "finished", "stalled"},
               DroppedAs(w, x, why)
        PROVE  Goal
    <3> DEFINE y == Closed(x, why)
    <3>1. y.state = "closed"
      BY <1>0, ClosedFields
    <3>2. /\ OneWatcher(w, y) /\ nwatchers' = nwatchers - 1
          /\ Counted(watcher[w].b, store[watcher[w].b].watchers - 1)
      BY <2>3 DEF DroppedAs
    <3> HIDE DEF y, Goal
    <3> QED BY <3>1, <3>2, <2>1, FewerCounts DEF Goal
  <2> QED BY <2>1, <2>2, <2>3
<1>7. ASSUME UNCHANGED <<store, nwatchers, watcher>>
      PROVE  Goal
  BY <1>7, SameCounts
<1> HIDE DEF Goal
<1>8. ASSUME \/ \E c \in Codes : Open(c)
             \/ \E w \in Watchers : Join(w)
             \/ TakeIn \/ End \/ UNCHANGED vars
      PROVE  UNCHANGED <<store, nwatchers, watcher>>
  BY <1>8 DEF Open, Join, TakeIn, End, vars
<1> QED
  BY <1>1, <1>2, <1>3, <1>4, <1>5, <1>6, <1>7, <1>8, Steps DEF Goal

-----------------------------------------------------------------------------
(* Types.                                                                  *)

(* No round is under way. *)
LEMMA RestingTyped == Resting \in RoundRecs
<1>1. 0 \in 0 .. MaxBytes /\ 0 \in 0 .. Budget
  BY Constants
<1>2. NoView \in ViewRecs
  BY <1>1 DEF NoView, ViewRecs
<1>3. <<>> \in Seq(Watchers)
  OBVIOUS
<1> QED
  BY <1>1, <1>2, <1>3 DEF Resting, RoundRecs

TypedNext ==
  /\ store' \in [Heap -> BattleRecs]
  /\ opened' \in 0 .. MaxOpened
  /\ battles' \in [Codes -> 0 .. opened']
  /\ nwatchers' \in 0 .. MaxSpectators
  /\ join' \in Seq(Watchers) /\ ws' \in Seq(Watchers) /\ turn' \in 0 .. Turns - 1
  /\ round' \in RoundRecs
  /\ watcher' \in [Watchers -> WatcherRecs(opened')]

(* Every step keeps the types, the counters within their limits among them. *)
LEMMA TypeStep ==
  ASSUME IInv, [Next]_vars
  PROVE  TypeOK'
<1> SUFFICES TypedNext
  BY DEF TypedNext, TypeOK, BattleRecs, WatcherRecs, RoundRecs, ViewRecs
<1>0. /\ TypeOK /\ store \in [Heap -> BattleRecs]
      /\ opened \in 0 .. MaxOpened /\ opened \in Nat
      /\ battles \in [Codes -> 0 .. opened]
      /\ nwatchers \in 0 .. MaxSpectators /\ MaxSpectators \in Nat
      /\ join \in Seq(Watchers) /\ ws \in Seq(Watchers) /\ turn \in 0 .. Turns - 1
      /\ round \in RoundRecs
      /\ watcher \in [Watchers -> WatcherRecs(opened)]
  BY Typed, OnHeap, Constants DEF IInv
<1>1. ASSUME NEW b \in Heap, UploadStep(b)
      PROVE  TypedNext
  BY <1>0, <1>1 DEF UploadStep, OneBattle, TypedNext
<1>2. ASSUME NEW w \in Watchers, NEW c \in Codes, Pick(w, c)
      PROVE  TypedNext
  <2>1. /\ store' \in [Heap -> BattleRecs] /\ watcher' \in [Watchers -> WatcherRecs(opened)]
        /\ nwatchers < MaxSpectators /\ nwatchers' = nwatchers + 1
        /\ UNCHANGED <<opened, battles, join, ws, turn, round>>
    BY <1>0, <1>2, PickEffect DEF OneBattle, OneWatcher
  <2>2. nwatchers' \in 0 .. MaxSpectators
    BY <2>1, <1>0
  <2> QED BY <2>1, <2>2, <1>0 DEF TypedNext
<1>3. ASSUME NEW w \in Watchers, Unpick(w)
      PROVE  TypedNext
  <2>1. /\ store' \in [Heap -> BattleRecs] /\ watcher' \in [Watchers -> WatcherRecs(opened)]
        /\ nwatchers' = nwatchers - 1 /\ w \in There
        /\ UNCHANGED <<opened, battles, join, ws, turn, round>>
    BY <1>3, UnpickEffect DEF Counted, OneBattle, OneWatcher
  <2>2. nwatchers \in Nat \ {0}
    BY <2>1, CountPositive DEF IInv
  <2>3. nwatchers' \in 0 .. MaxSpectators
    BY <2>1, <2>2, <1>0
  <2> QED BY <2>1, <2>3, <1>0 DEF TypedNext
<1>4. ASSUME NEW w \in Watchers, Hijack(w)
      PROVE  TypedNext
  BY <1>0, <1>4, HijackEffect DEF OneWatcher, TypedNext
<1>5. ASSUME NEW w \in Watchers, Join(w)
      PROVE  TypedNext
  <2>1. /\ join' = Append(join, w)
        /\ UNCHANGED <<store, opened, battles, nwatchers, ws, turn, round, watcher>>
    BY <1>0, <1>5, JoinEffect
  <2>2. join' \in Seq(Watchers)
    BY <2>1, <1>0, Added
  <2> QED BY <2>1, <2>2, <1>0 DEF TypedNext
<1>6. ASSUME TakeIn
      PROVE  TypedNext
  <2>1. /\ join # <<>> /\ ws' = Append(ws, Head(join)) /\ join' = Tail(join)
        /\ UNCHANGED <<store, opened, battles, nwatchers, turn, round, watcher>>
    BY <1>0, <1>6, TakeInEffect
  <2>2. Head(join) \in Watchers /\ Tail(join) \in Seq(Watchers)
    BY <2>1, <1>0, Taken1 DEF IInv, OnePlace
  <2>3. ws' \in Seq(Watchers)
    BY <2>1, <2>2, <1>0, Added
  <2> QED BY <2>1, <2>2, <2>3, <1>0 DEF TypedNext
<1>7. ASSUME Begin
      PROVE  TypedNext
  BY <1>0, <1>7, BeginEffect DEF TypedNext
<1>8. ASSUME Deliver
      PROVE  TypedNext
  <2> DEFINE w == Head(round.todo)
  <2>1. /\ w \in There /\ round' \in RoundRecs /\ UNCHANGED <<opened, battles, join, ws, turn>>
        /\ \E x \in WatcherRecs(opened) :
             KeptAs(w, x) \/ \E why \in {"failed", "finished", "stalled"} : DroppedAs(w, x, why)
    BY <1>8, DeliverEffect
  <2>2. nwatchers \in Nat \ {0}
    BY <2>1, CountPositive DEF IInv
  <2>3. nwatchers - 1 \in 0 .. MaxSpectators
    BY <2>2, <1>0
  <2> HIDE DEF w
  <2>4. ASSUME NEW x, KeptAs(w, x)
        PROVE  TypedNext
    BY <2>1, <2>4, <1>0 DEF KeptAs, OneWatcher, TypedNext
  <2>5. ASSUME NEW x, NEW why, DroppedAs(w, x, why)
        PROVE  TypedNext
    BY <2>1, <2>3, <2>5, <1>0 DEF DroppedAs, Counted, OneBattle, OneWatcher, TypedNext
  <2> QED BY <2>1, <2>4, <2>5
<1>9. ASSUME End
      PROVE  TypedNext
  <2>1. /\ ws' = round.keep /\ round' = Resting
        /\ turn' \in 0 .. Turns - 1 /\ battles' \in [Codes -> 0 .. opened]
        /\ UNCHANGED <<store, opened, nwatchers, join, watcher>>
    BY <1>0, <1>9, EndEffect
  <2>2. round.keep \in Seq(Watchers)
    BY <1>0, RoundFields
  <2> QED BY <2>1, <2>2, <1>0, RestingTyped DEF TypedNext
<1>10. ASSUME NEW c \in Codes, Open(c)
       PROVE  TypedNext
  <2>1. /\ opened < MaxOpened /\ opened' = opened + 1
        /\ battles' = [battles EXCEPT ![c] = opened + 1]
        /\ UNCHANGED <<store, nwatchers, join, ws, turn, round, watcher>>
    BY <1>10 DEF Open
  <2>2. opened' \in 0 .. MaxOpened /\ 0 .. opened \subseteq 0 .. opened'
        /\ opened + 1 \in 0 .. opened'
    BY <2>1, <1>0, Constants
  <2>3. battles' \in [Codes -> 0 .. opened']
    BY <2>1, <2>2, <1>0
  <2>4. WatcherRecs(opened) \subseteq WatcherRecs(opened')
    BY <2>2 DEF WatcherRecs
  <2> QED BY <2>1, <2>2, <2>3, <2>4, <1>0 DEF TypedNext
<1>11. ASSUME UNCHANGED vars
       PROVE  TypedNext
  BY <1>0, <1>11 DEF vars, TypedNext
<1> QED
  BY <1>1, <1>2, <1>3, <1>4, <1>5, <1>6, <1>7, <1>8, <1>9, <1>10, <1>11, Steps

-----------------------------------------------------------------------------
(* The invariant, and what follows from it.                                *)

(* The invariant holds when the lobby starts. *)
LEMMA InitHolds == Init => IInv
<1> SUFFICES ASSUME Init PROVE IInv
  OBVIOUS
<1>1. /\ \A b \in Heap : store[b] = NewBattle
      /\ \A w \in Watchers : watcher[w] = NewWatcher
      /\ opened = 0 /\ nwatchers = 0 /\ join = <<>> /\ ws = <<>> /\ turn = 0
      /\ round = Resting /\ battles = [c \in Codes |-> 0]
      /\ store = [b \in Heap |-> NewBattle] /\ watcher = [w \in Watchers |-> NewWatcher]
  BY DEF Init
<1>2. TypeOK
  <2>1. 0 \in 0 .. MaxBytes /\ 0 \in 0 .. UploadIdle /\ 0 \in 0 .. MaxBattleWatchers
        /\ 0 \in 0 .. 0 /\ 0 \in 0 .. Stall + 1 /\ 0 \in 0 .. MaxOpened
        /\ 0 \in 0 .. MaxSpectators /\ 0 \in 0 .. Turns - 1
    BY Constants
  <2>2. NewBattle \in BattleRecs
    BY <2>1 DEF NewBattle, BattleRecs
  <2>3. NewWatcher \in WatcherRecs(0)
    BY <2>1 DEF NewWatcher, WatcherRecs
  <2>4. <<>> \in Seq(Watchers)
    OBVIOUS
  <2> QED BY <1>1, <2>1, <2>2, <2>3, <2>4, RestingTyped, Typed
<1>3. There = {} /\ Watching = {}
  BY <1>1 DEF There, Watching, NewWatcher
<1>4. IsFiniteSet(There) /\ CountsMatch
  <2>1. IsFiniteSet({}) /\ Cardinality({}) = 0
    BY FS_EmptySet
  <2>2. \A b \in Heap : store[b].watchers = 0 /\ {w \in There : watcher[w].b = b} = {}
    BY <1>1, <1>3 DEF NewBattle
  <2> QED BY <1>1, <1>3, <2>1, <2>2 DEF CountsMatch
<1>5. UploadsOnce /\ RequestsFit /\ FinishedFit
  BY <1>1, <1>3 DEF UploadsOnce, RequestsFit, FinishedFit, NewBattle, NewWatcher
<1>6. /\ DOMAIN <<>> = {} /\ Len(<<>>) = 0
      /\ ToSet(<<>>) = {} /\ Distinct(<<>>)
  <2>1. Len(<<>>) = 0 /\ DOMAIN <<>> = {}
    OBVIOUS
  <2> QED BY <2>1 DEF ToSet, Distinct
<1>7. round.todo = <<>> /\ round.keep = <<>>
      /\ \A b \in Heap : round.views[b].buf = 0 /\ ~ round.views[b].done
  BY <1>1 DEF Resting, NoView
<1>8. OnePlace
  BY <1>1, <1>3, <1>6, <1>7 DEF OnePlace
<1>9. ViewsFit
  BY <1>1, <1>7 DEF ViewsFit, NewBattle
<1>10. IdleAsSilent /\ IdleInRound
  BY <1>3, <1>6, <1>7 DEF IdleAsSilent, IdleInRound
<1> QED
  BY <1>2, <1>4, <1>5, <1>8, <1>9, <1>10 DEF IInv

(* Every step keeps the invariant. *)
LEMMA StepHolds == IInv /\ [Next]_vars => IInv'
  BY TypeStep, CountsStep, UploadsOnceStep, RequestsFitStep, OnePlaceStep, ViewsFitStep,
     FinishedFitStep, IdleAsSilentStep, IdleInRoundStep DEF IInv

(* The counters that limit spectators count those who are there, and stay  *)
(* within their limits.                                                    *)
THEOREM CountsAreRight == Spec => []CountsRight
<1>1. IInv => CountsRight
  BY DEF IInv, CountsRight
<1> QED
  BY InitHolds, StepHolds, <1>1, PTL DEF Spec

(* Whoever is told that the stream is over has the whole upload, and       *)
(* nothing is added to it any more.                                        *)
THEOREM StreamIsWhole == Spec => []WholeStream
<1>1. IInv => WholeStream
  BY DEF IInv, FinishedFit, UploadsOnce, WholeStream
<1> QED
  BY InitHolds, StepHolds, <1>1, PTL DEF Spec

(* Nobody who is up to date is dropped as stalled: it was idle no longer   *)
(* than an upload may be silent, which is less.                            *)
THEOREM UpToDateAreKept == Spec => UpToDateStay
<1> DEFINE Stalled(w) == watcher[w].why = "none" /\ watcher'[w].why = "stalled"
           Fair == \A w \in Watchers : Stalled(w) => Lacks(watcher[w], round.views[watcher[w].b])
<1>1. ASSUME IInv, [Next]_vars
      PROVE  Fair
  <2>0. opened \in Nat /\ \A w \in Watchers : watcher[w] \in WatcherRecs(opened)
    BY <1>1, OnHeap DEF IInv
  <2> SUFFICES ASSUME NEW w \in Watchers, Stalled(w)
               PROVE  Lacks(watcher[w], round.views[watcher[w].b])
    OBVIOUS
  <2>1. ASSUME NEW u \in Watchers, RequestStep(u)
        PROVE  FALSE
    <3>1. u = w
      BY <2>1 DEF RequestStep, OneWatcher
    <3>2. \/ \E b \in 0 .. opened : watcher'[w] = Picked(watcher[w], b)
          \/ watcher'[w] = Closed(watcher[w], "refused")
          \/ watcher'[w] = Hijacked(watcher[w])
      BY <2>1, <3>1 DEF RequestStep, OneWatcher
    <3> QED BY <3>2, <2>0, PickedFields, ClosedFields, HijackedFields
  <2>2. ASSUME Begin
        PROVE  FALSE
    BY <2>0, <2>2, <1>1, BeginEffect, OlderFields DEF IInv
  <2>3. ASSUME Deliver
        PROVE  Lacks(watcher[w], round.views[watcher[w].b])
    <3> DEFINE h == Head(round.todo)
               v == round.views[watcher[h].b]
    <3>1. /\ h \in Watchers /\ h \in ToSet(round.todo)
          /\ \E x \in WatcherRecs(opened) :
                  /\ TurnOf(watcher[h], x, v)
                  /\ \/ KeptAs(h, x)
                     \/ DroppedAs(h, x, "failed")
                     \/ DroppedAs(h, x, "finished")
                     \/ /\ ~ (v.done /\ ~ Lacks(x, v)) /\ Stall < x.idle
                        /\ DroppedAs(h, x, "stalled")
      BY <1>1, <2>3, DeliverEffect
    <3>2. h = w
      BY <3>1 DEF KeptAs, DroppedAs, OneWatcher
    <3>3. ~ Lacks(watcher[h], v) /\ ~ v.done => watcher[h].idle <= UploadIdle
      BY <1>1, <3>1 DEF IInv, IdleInRound
    <3>4. UploadIdle < Stall /\ UploadIdle \in Nat /\ Stall \in Nat /\ watcher[h].idle \in Nat
      BY <3>1, <2>0, WatcherFields, Constants
    <3> HIDE DEF h, v
    <3>5. ASSUME NEW x \in WatcherRecs(opened), TurnOf(watcher[h], x, v),
                 ~ (v.done /\ ~ Lacks(x, v)), Stall < x.idle
          PROVE  Lacks(watcher[h], v)
      BY <3>3, <3>4, <3>5 DEF TurnOf
    <3>6. ASSUME NEW x \in WatcherRecs(opened), NEW why \in {"failed", "finished"},
                 DroppedAs(h, x, why)
          PROVE  FALSE
      <4>1. watcher'[w] = Closed(x, why)
        BY <3>2, <3>6 DEF DroppedAs, OneWatcher
      <4> QED BY <4>1, <2>0, ClosedFields
    <3>7. ASSUME NEW x \in WatcherRecs(opened), TurnOf(watcher[h], x, v), KeptAs(h, x)
          PROVE  FALSE
      BY <3>2, <3>7 DEF KeptAs, OneWatcher, TurnOf
    <3>8. Lacks(watcher[h], v)
      BY <3>1, <3>5, <3>6, <3>7
    <3> QED BY <3>2, <3>8 DEF h, v
  <2>4. ASSUME QuietStep \/ \E b \in Heap : UploadStep(b)
        PROVE  FALSE
    BY <2>4 DEF QuietStep, UploadStep
  <2> QED BY <1>1, <2>1, <2>2, <2>3, <2>4, Kinds
<1>2. IInv /\ [Next]_vars => [Fair]_vars
  BY <1>1
<1> QED
  BY InitHolds, StepHolds, <1>2, PTL DEF Spec, UpToDateStay

=============================================================================
