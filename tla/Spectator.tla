----------------------------- MODULE Spectator -----------------------------
(***************************************************************************)
(* Live spectating (pkg/lobby/spectator.go): a battle's uplink streams it  *)
(* to the lobby, spectators get the whole stream while it grows.           *)
(*                                                                         *)
(* The goroutine of each HTTP request and the goroutine of Run share the   *)
(* registry under one mutex.  Run owns the spectators' connections and     *)
(* writes to them without the mutex, from a view of the battles it took    *)
(* when the round began; a round may write only so long, so each begins    *)
(* one spectator further on.  An action is one region under the mutex, one *)
(* channel operation, or one spectator's turn in a round.                  *)
(*                                                                         *)
(* A *liveBattle outlives its place in the registry while an upload or a   *)
(* spectator holds it, so battles are entries of a heap, store.  Content   *)
(* is a count of pieces; time is a count of rounds.                        *)
(***************************************************************************)
EXTENDS Integers, SequencesExt, FiniteSetsExt

CONSTANTS
  Codes,             \* battle codes
  Watchers,          \* requests to watch
  MaxSpectators,     \* liveMaxSpectators (4096)
  MaxBattleWatchers, \* liveMaxBattleWatchers (512)
  MaxBytes,          \* liveMaxBytes, in pieces of a stream
  JoinCap,           \* capacity of the channel join (64)
  UploadIdle,        \* liveUploadIdle, in rounds (30)
  Stall,             \* liveStall, in rounds (90)
  Budget,            \* writes to a full socket in a round (33)
  Turns,             \* Run's turn counts modulo this
  MaxOpened          \* bound: battles ever opened

ASSUME SpectatorAssumption ==
  /\ {MaxSpectators, MaxBattleWatchers, MaxBytes, JoinCap, Budget} \subseteq Nat \ {0}
  /\ UploadIdle \in Nat \ {0} /\ Stall \in Nat /\ UploadIdle < Stall
  /\ MaxOpened \in Nat /\ Turns \in Nat \ {0}
  /\ \A n \in 1 .. Cardinality(Watchers) : Turns % n = 0

VARIABLES
  store,     \* the battles ever opened, 1 .. opened
  opened,
  battles,   \* battles[c]: the battle registered under code c, or 0
  nwatchers,
  join,      \* the channel of spectators that Run has not taken in yet
  ws,        \* Run's spectators
  turn,
  round,     \* the round of writes under way
  watcher    \* watcher[w]: a request, and the liveWatcher made for it

vars == <<store, opened, battles, nwatchers, join, ws, turn, round, watcher>>

Heap == 1 .. MaxOpened
NewBattle == [uploaded |-> FALSE, uploading |-> FALSE, done |-> FALSE,
              buf |-> 0, silent |-> 0, watchers |-> 0]
NewWatcher == [state |-> "away", b |-> 0, pre |-> TRUE, pos |-> 0,
               idle |-> 0, why |-> "none"]
NoView == [buf |-> 0, done |-> FALSE]
Resting == [on |-> FALSE, views |-> [b \in Heap |-> NoView], todo |-> <<>>,
            keep |-> <<>>, left |-> 0]

Init ==
  /\ store = [b \in Heap |-> NewBattle] /\ opened = 0
  /\ battles = [c \in Codes |-> 0]
  /\ nwatchers = 0
  /\ join = <<>> /\ ws = <<>> /\ turn = 0 /\ round = Resting
  /\ watcher = [w \in Watchers |-> NewWatcher]

-----------------------------------------------------------------------------
(* A player of a battle is told about it: accept its upload. *)
Open(c) ==
  /\ battles[c] = 0 /\ opened < MaxOpened
  /\ opened' = opened + 1
  /\ battles' = [battles EXCEPT ![c] = opened + 1]
  /\ UNCHANGED <<store, nwatchers, join, ws, turn, round, watcher>>

(* One upload a battle, ever. *)
StartUpload(c) ==
  LET b == battles[c]
  IN  /\ b # 0 /\ ~ store[b].uploaded
      /\ store' = [store EXCEPT ![b].uploaded = TRUE, ![b].uploading = TRUE]
      /\ UNCHANGED <<opened, battles, nwatchers, join, ws, turn, round, watcher>>

Add(b) ==
  /\ store[b].uploading /\ store[b].buf < MaxBytes
  /\ store' = [store EXCEPT ![b].buf = @ + 1, ![b].silent = 0]
  /\ UNCHANGED <<opened, battles, nwatchers, join, ws, turn, round, watcher>>

(* The upload ends: all sent, broken, too large, or silent for too long. *)
EndUpload(b) ==
  /\ store[b].uploading
  /\ store' = [store EXCEPT ![b].uploading = FALSE, ![b].done = TRUE, ![b].silent = 0]
  /\ UNCHANGED <<opened, battles, nwatchers, join, ws, turn, round, watcher>>
ReadDeadline(b) == store[b].silent = UploadIdle /\ EndUpload(b)

-----------------------------------------------------------------------------
HasRoom(b) == nwatchers < MaxSpectators /\ store[b].watchers < MaxBattleWatchers

(* A spectator asks for a battle, by its code or for the newest one. *)
Pick(w, c) ==
  LET b == battles[c]
  IN  /\ watcher[w].state = "away" /\ b # 0
      /\ store[b].uploaded /\ HasRoom(b)
      /\ store' = [store EXCEPT ![b].watchers = @ + 1]
      /\ nwatchers' = nwatchers + 1
      /\ watcher' = [watcher EXCEPT ![w].state = "picked", ![w].b = b]
      /\ UNCHANGED <<opened, battles, join, ws, turn, round>>

(* Of a closed spectator's liveWatcher nothing is used any more; what the  *)
(* properties ask about is kept.                                           *)
Closed(x, why) ==
  LET told == why = "finished"
  IN  [state |-> "closed", b |-> IF told THEN x.b ELSE 0, pre |-> x.pre \/ ~ told,
       pos |-> IF told THEN x.pos ELSE 0, idle |-> 0, why |-> why]

Uncounted(b) == [store EXCEPT ![b].watchers = @ - 1]

(* The request's connection cannot be taken over. *)
Unpick(w) ==
  /\ watcher[w].state = "picked"
  /\ store' = Uncounted(watcher[w].b) /\ nwatchers' = nwatchers - 1
  /\ watcher' = [watcher EXCEPT ![w] = Closed(watcher[w], "refused")]
  /\ UNCHANGED <<opened, battles, join, ws, turn, round>>

(* It can: make a liveWatcher, and send it to Run. *)
Hijack(w) ==
  /\ watcher[w].state = "picked"
  /\ watcher' = [watcher EXCEPT ![w].state = "watching"]
  /\ UNCHANGED <<store, opened, battles, nwatchers, join, ws, turn, round>>
Taken == ToSet(join) \cup ToSet(ws)
Join(w) ==
  /\ watcher[w].state = "watching" /\ w \notin Taken /\ Len(join) < JoinCap
  /\ join' = Append(join, w)
  /\ UNCHANGED <<store, opened, battles, nwatchers, ws, turn, round, watcher>>

-----------------------------------------------------------------------------
(* Run takes a spectator in, between rounds. *)
TakeIn ==
  /\ ~ round.on /\ join # <<>>
  /\ ws' = Append(ws, Head(join)) /\ join' = Tail(join)
  /\ UNCHANGED <<store, opened, battles, nwatchers, turn, round, watcher>>

Rotated(list, n) ==
  [i \in DOMAIN list |-> list[1 + ((i - 1 + n) % Len(list))]]

(* A third of a second has passed, and Run was free for half of it: who    *)
(* came before is taken in, and the read deadline of a silent upload is    *)
(* over.  A round begins with the views of the battles.                    *)
Begin ==
  /\ ~ round.on
  /\ \A w \in Watchers : watcher[w].state = "watching" => w \in ToSet(ws)
  /\ \A b \in Heap : store[b].silent < UploadIdle
  /\ round' = [on |-> TRUE, todo |-> Rotated(ws, turn), keep |-> <<>>, left |-> Budget,
               views |-> [b \in Heap |->
                 IF \E w \in ToSet(ws) : watcher[w].b = b
                 THEN [buf |-> store[b].buf, done |-> store[b].done] ELSE NoView]]
  /\ store' = [b \in Heap |-> [store[b] EXCEPT !.silent =
                                 IF store[b].uploading THEN @ + 1 ELSE @]]
  /\ watcher' = [w \in Watchers |-> [watcher[w] EXCEPT !.idle =
                   IF watcher[w].state = "watching" /\ @ <= Stall THEN @ + 1 ELSE @]]
  /\ UNCHANGED <<opened, battles, nwatchers, join, ws, turn>>

(* Mutant of SentAll: only a part that is sent counts as progress. *)
SentAllUntimed(x, v) == [x EXCEPT !.pre = FALSE, !.pos = v.buf]

(* What write may make of a spectator and of the time left in the round:   *)
(* with nothing to send, or no time, it does nothing; it sends all; or the *)
(* socket is full before that, which takes one write's time.               *)
Lacks(x, v) == x.pre \/ x.pos < v.buf
SentAll(x, v) == [x EXCEPT !.pre = FALSE, !.pos = v.buf, !.idle = 0]
SentUpTo(x, pos) ==
  [x EXCEPT !.pre = FALSE, !.pos = pos, !.idle = IF x.pre \/ x.pos < pos THEN 0 ELSE @]
SentSome(x, v) == {x} \cup {SentUpTo(x, pos) : pos \in x.pos .. v.buf}
Writes(x, v, left) ==
  IF ~ Lacks(x, v) \/ left = 0 THEN {<<x, left>>}
  ELSE {<<SentAll(x, v), left>>}
         \cup {<<y, left - 1>> : y \in {y \in SentSome(x, v) : Lacks(y, v)}}

(* Mutants of Why: done is read anew; nobody is dropped as stalled. *)
WhyByNow(x, v) ==
  IF store[x.b].done /\ ~ Lacks(x, v) THEN "finished"
  ELSE IF Stall < x.idle THEN "stalled" ELSE "none"
WhyNotStalled(x, v) == IF v.done /\ ~ Lacks(x, v) THEN "finished" ELSE "none"

(* Why deliver drops a spectator after its turn, if it does. *)
Why(x, v) ==
  IF v.done /\ ~ Lacks(x, v) THEN "finished"
  ELSE IF Stall < x.idle THEN "stalled" ELSE "none"

Keep(w, x, left) ==
  /\ watcher' = [watcher EXCEPT ![w] = x]
  /\ round' = [round EXCEPT !.todo = Tail(@), !.keep = Append(@, w), !.left = left]
  /\ UNCHANGED <<store, nwatchers>>

(* Mutant of Drop: only a battle still registered counts its spectators. *)
DropRegistered(w, x, left, why) ==
  /\ watcher' = [watcher EXCEPT ![w] = Closed(x, why)]
  /\ IF x.b \in {battles[c] : c \in Codes}
     THEN store' = Uncounted(x.b) /\ nwatchers' = nwatchers - 1
     ELSE UNCHANGED <<store, nwatchers>>
  /\ round' = [round EXCEPT !.todo = Tail(@), !.left = left]

Drop(w, x, left, why) ==
  /\ watcher' = [watcher EXCEPT ![w] = Closed(x, why)]
  /\ store' = Uncounted(x.b) /\ nwatchers' = nwatchers - 1
  /\ round' = [round EXCEPT !.todo = Tail(@), !.left = left]

(* The turn of the next spectator; its connection may turn out broken. *)
Deliver ==
  /\ round.todo # <<>>
  /\ LET w == Head(round.todo)
         v == round.views[watcher[w].b]
     IN  \/ \E out \in Writes(watcher[w], v, round.left) :
              LET why == Why(out[1], v)
              IN  IF why = "none" THEN Keep(w, out[1], out[2])
                  ELSE Drop(w, out[1], out[2], why)
         \/ /\ Lacks(watcher[w], v) /\ round.left > 0
            /\ Drop(w, watcher[w], round.left, "failed")
  /\ UNCHANGED <<opened, battles, join, ws, turn>>

(* The round ends with Tick, which drops battles that ended, or that were  *)
(* never uploaded, long enough ago.                                        *)
End ==
  /\ round.on /\ round.todo = <<>>
  /\ ws' = round.keep /\ turn' = (turn + 1) % Turns /\ round' = Resting
  /\ \E gone \in SUBSET {c \in Codes : battles[c] # 0 /\
                           (store[battles[c]].done \/ ~ store[battles[c]].uploaded)} :
       battles' = [c \in Codes |-> IF c \in gone THEN 0 ELSE battles[c]]
  /\ UNCHANGED <<store, opened, nwatchers, join, watcher>>

-----------------------------------------------------------------------------
Uploads ==
  \/ \E c \in Codes : Open(c) \/ StartUpload(c)
  \/ \E b \in Heap : Add(b) \/ EndUpload(b)
Requests ==
  \E w \in Watchers : \/ \E c \in Codes : Pick(w, c)
                      \/ Unpick(w) \/ Hijack(w) \/ Join(w)
Run == TakeIn \/ Begin \/ Deliver \/ End

Next == Uploads \/ Requests \/ Run

Spec == Init /\ [][Next]_vars

(* Run goes on, handlers of requests send to its channel, and the read     *)
(* deadline passes.                                                        *)
FairSpec ==
  /\ Spec
  /\ WF_vars(Run) /\ WF_vars(\E w \in Watchers : Join(w))
  /\ \A b \in Heap : WF_vars(ReadDeadline(b))

-----------------------------------------------------------------------------
TypeOK ==
  /\ store \in [Heap -> [uploaded : BOOLEAN, uploading : BOOLEAN, done : BOOLEAN,
                         buf : 0 .. MaxBytes, silent : 0 .. UploadIdle,
                         watchers : 0 .. MaxBattleWatchers]]
  /\ opened \in 0 .. MaxOpened
  /\ battles \in [Codes -> 0 .. opened]
  /\ nwatchers \in 0 .. MaxSpectators
  /\ join \in Seq(Watchers) /\ ws \in Seq(Watchers) /\ turn \in 0 .. Turns - 1
  /\ round \in [on : BOOLEAN, views : [Heap -> [buf : 0 .. MaxBytes, done : BOOLEAN]],
                todo : Seq(Watchers), keep : Seq(Watchers), left : 0 .. Budget]
  /\ watcher \in [Watchers ->
       [state : {"away", "picked", "watching", "closed"}, b : 0 .. opened,
        pre : BOOLEAN, pos : 0 .. MaxBytes, idle : 0 .. Stall + 1,
        why : {"none", "refused", "failed", "finished", "stalled"}]]

(* The counters that limit spectators count those who are there, each      *)
(* once: who was picked and not let go, whatever became of the battle, of  *)
(* its place in the registry and of the connection.                        *)
There == {w \in Watchers : watcher[w].state \in {"picked", "watching"}}
CountsMatch ==
  /\ nwatchers = Cardinality(There)
  /\ \A b \in Heap :
       store[b].watchers = Cardinality({w \in There : watcher[w].b = b})

(* The counters are right, and within their limits. *)
CountsRight == TypeOK /\ CountsMatch

(* Whoever is told that the stream is over, by a closed connection, has    *)
(* the whole upload; and nothing is added to it any more.                  *)
WholeStream ==
  \A w \in Watchers : watcher[w].why = "finished" =>
    /\ ~ watcher[w].pre /\ watcher[w].pos = store[watcher[w].b].buf
    /\ ~ store[watcher[w].b].uploading

(* Only who has something to get is dropped as stalled: a spectator that   *)
(* is up to date does not make progress either, but then the upload ends   *)
(* (its read deadline is shorter) and the spectator is done.               *)
UpToDateStay ==
  [][\A w \in Watchers :
       watcher[w].why = "none" /\ watcher'[w].why = "stalled"
         => Lacks(watcher[w], round.views[watcher[w].b])]_vars

(* A spectator does not stay for ever: it gets all of it or is dropped.    *)
WatchersEnd ==
  \A w \in Watchers :
    watcher[w].state = "watching" ~> watcher[w].state = "closed"

=============================================================================
