------------------------------ MODULE Records ------------------------------
(***************************************************************************)
(* What is kept of battles: a record for each player of a battle, the      *)
(* totals of each user, the ranking pages and the uploaded replays         *)
(* (pkg/db/sqlite.go; pkg/lobby/app_core.go, msg_info.go, msg_battle.go,   *)
(* replay_upload.go).                                                      *)
(*                                                                         *)
(* A game client is asked for the result of its last battle whenever it    *)
(* logs in, and answers the same result again.  The handlers run one after *)
(* another on the lobby's goroutine; uploads and counted plays come from   *)
(* goroutines of the HTTP server, between any two steps of a handler on    *)
(* the database.  The totals are kept three times: in the user's row, in   *)
(* the AppPeer and, as they were when it began, in a battle that is        *)
(* remembered for its players.                                             *)
(***************************************************************************)
EXTENDS Integers, SequencesExt, FiniteSetsExt

CONSTANTS
  Users,      \* user ids, each an account and a game client of its own
  Guests,     \* users that registered before and are not seen again
  Battles,    \* battles in the order they are fought: 1 .. n
  SideOf,     \* SideOf[b]: the side, 1 or 2, of each user that fights in b
  Counted,    \* the battles of four players; only they count in totals
  Emulated,   \* the battles on emulators: reported, and replays uploaded
  Results,    \* results of a player in a battle: [win, kill]
  Boards,     \* ranking pages that are looked at: <<count, side>>
  PageSize,   \* users on a page of a ranking (10)
  Uploads,    \* HTTP requests that upload a replay
  MaxPlays,   \* bound: plays counted of a battle
  None

Counts == {"win", "kill"} \X (0 .. 2)
NoTotals == [k \in Counts |-> 0]

(* Results, rows of battle_record, totals, what a battle copies of its     *)
(* users, AppPeers and cached rankings.                                    *)
Outcomes == [win : Nat, kill : Nat]
Rows == [result : Outcomes, url : BOOLEAN, plays : Nat, ms : BOOLEAN]
AllTotals == [Counts -> Nat]
Copies(b) == [DOMAIN SideOf[b] -> AllTotals]
Peers == [totals : AllTotals, battle : Battles \cup {0}, asked : BOOLEAN]
Ranked == [users : Seq(Users), counts : Seq(Nat)]

(* None stands for what is not there; it is nothing that may be there.     *)
ASSUME RecordsAssumption ==
  /\ IsFiniteSet(Users) /\ IsFiniteSet(Battles) /\ Results \subseteq Outcomes
  /\ None \notin Rows \cup AllTotals \cup Peers \cup Ranked
  /\ \A b \in Battles : None \notin Copies(b)
  /\ Guests \subseteq Users
  /\ Battles = 1 .. Cardinality(Battles)
  /\ \A b \in Battles : DOMAIN SideOf[b] \subseteq Users \ Guests /\ Range(SideOf[b]) \subseteq {1, 2}
  /\ Counted \subseteq Battles /\ Emulated \subseteq Battles /\ Boards \subseteq Counts
  /\ PageSize \in Nat \ {0} /\ MaxPlays \in Nat

VARIABLES
  record,   \* record[b][u]: the row of battle_record, or None
  stored,   \* stored[u]: the totals in the row of user, or None
  cache,    \* rankingCache: for each board a ranking, or None
  session,  \* App.battles: the battle a user's session returns from, or 0
  snapshot, \* snapshot[b][u]: the totals in the Battle's copy of the user
  peer,     \* peer[u]: the AppPeer of a user that is logged in, or None
  client,   \* client[u]: the battle a client knows the result of, or None
  loop,     \* what the lobby's goroutine is in the middle of, or None
  upload,   \* upload[h]: the state and battle of an HTTP request
  files,    \* the battles whose replay is in the store
  walk,     \* a reader of ranking pages, or None
  owed      \* users whose totals the next result they send sets right

rows == <<record, stored, cache>>
mem == <<session, snapshot, peer, client, loop>>
web == <<upload, files>>
vars == <<rows, mem, web, walk, owed>>

Init ==
  /\ record = [b \in Battles |-> [u \in DOMAIN SideOf[b] |-> None]]
  /\ stored = [u \in Users |-> IF u \in Guests THEN NoTotals ELSE None]
  /\ cache = [k \in Boards |-> None]
  /\ session = [u \in Users |-> 0]
  /\ snapshot = [b \in Battles |-> None]
  /\ peer = [u \in Users |-> None] /\ client = [u \in Users |-> None]
  /\ loop = None
  /\ upload = [h \in Uploads |-> [state |-> "idle", battle |-> 0]]
  /\ files = {} /\ walk = None /\ owed = {}

-----------------------------------------------------------------------------
(* CalculateUserTotalBattleCount, for side 0 of all battles.               *)
Points(rs, u, k) ==
  [b \in {c \in Counted : u \in DOMAIN SideOf[c]} |->
     IF rs[b][u] # None /\ k[2] \in {0, SideOf[b][u]} THEN rs[b][u].result[k[1]] ELSE 0]
Total(rs, u, k) == SumFunction(Points(rs, u, k))
Totals(rs, u) == [k \in Counts |-> Total(rs, u, k)]

(* OnGetUserRanking: the page of a pilot's own record counts anew.         *)
OnGetUserRanking(u) == Totals(record, u)

(* AddBattleRecord for each user, as startBattle makes Battle b of copies  *)
(* of the users.                                                           *)
NewRecord ==
  [result |-> [win |-> 0, kill |-> 0], url |-> FALSE, plays |-> 0, ms |-> FALSE]
AddBattleRecords(b) ==
  /\ loop = None /\ snapshot[b] = None /\ \A c \in 1 .. b - 1 : snapshot[c] # None
  /\ \A u \in DOMAIN SideOf[b] : peer[u] # None /\ peer[u].battle = 0
  /\ record' = [record EXCEPT ![b] = [u \in DOMAIN SideOf[b] |-> NewRecord]]
  /\ snapshot' = [snapshot EXCEPT ![b] = [u \in DOMAIN SideOf[b] |-> peer[u].totals]]
  /\ peer' = [u \in Users |-> IF u \in DOMAIN SideOf[b]
                              THEN [peer[u] EXCEPT !.battle = b] ELSE peer[u]]
  /\ UNCHANGED <<stored, cache, session, client, loop, web, walk, owed>>

(* OnUserGotoBattle; the client goes and comes back with a result, or      *)
(* breaks off and has none.                                                *)
OnUserGotoBattle(u) ==
  /\ loop = None /\ peer[u] # None /\ peer[u].battle # 0
  /\ session' = [session EXCEPT ![u] = peer[u].battle]
  /\ \E r \in Results \cup {None} :
       client' = [client EXCEPT ![u] =
         IF r = None THEN None ELSE [battle |-> peer[u].battle, result |-> r]]
  /\ peer' = [peer EXCEPT ![u] = None]
  /\ UNCHANGED <<rows, snapshot, loop, web, walk, owed>>

-----------------------------------------------------------------------------
(* OnFirstData and OnDecideUserID: the user of a remembered battle as it   *)
(* was when the battle began, else the row of the user, or a new one; it   *)
(* is written back and the client asked for its result.                    *)
Remembered(u) == session[u] # 0
TotalsAtLogin(u) ==
  IF Remembered(u) THEN snapshot[session[u]][u]
  ELSE IF stored[u] = None THEN NoTotals ELSE stored[u]
OnDecideUserID(u) ==
  /\ loop = None /\ peer[u] = None
  /\ peer' = [peer EXCEPT ![u] = [totals |-> TotalsAtLogin(u), battle |-> 0, asked |-> TRUE]]
  /\ stored' = [stored EXCEPT ![u] = TotalsAtLogin(u)]
  \* totals reported since the battle began are undone
  /\ owed' = IF Remembered(u) /\ stored[u] # TotalsAtLogin(u) THEN owed \cup {u} ELSE owed
  /\ UNCHANGED <<record, cache, session, snapshot, client, loop, web, walk>>

(* OnDecideTeam, LobbyChatHack: the whole user is written.                 *)
UpdateUser(u) ==
  /\ loop = None /\ peer[u] # None
  /\ stored' = [stored EXCEPT ![u] = peer[u].totals]
  /\ UNCHANGED <<record, cache, mem, web, walk, owed>>

(* OnEnterBattleAfterRoom and checkAlive forget a battle; OnClose.         *)
Forget(u) ==
  /\ loop = None /\ Remembered(u)
  /\ session' = [session EXCEPT ![u] = 0]
  /\ UNCHANGED <<rows, snapshot, peer, client, loop, web, walk, owed>>
OnClose(u) ==
  /\ loop = None /\ peer[u] # None
  /\ peer' = [peer EXCEPT ![u] = None]
  /\ UNCHANGED <<rows, session, snapshot, client, loop, web, walk, owed>>

-----------------------------------------------------------------------------
(* AnswerBattleResult: what a client that is asked answers, if it can.     *)
AnswerBattleResult(u) == client[u]

(* OnGetBattleResult.  First the record is read.                           *)
GetBattleRecordUser(u) ==
  /\ loop = None /\ peer[u] # None /\ peer[u].asked
  /\ peer' = [peer EXCEPT ![u].asked = FALSE]
  /\ LET answer == AnswerBattleResult(u)
     IN  loop' = IF answer = None THEN None
                 ELSE [user |-> u, at |-> "read", row |-> record[answer.battle][u]]
  /\ UNCHANGED <<rows, session, snapshot, client, web, walk, owed>>

(* Mutants of Written: the row as it was read, with the result; of         *)
(* CacheAfter: the pages stay.                                             *)
WrittenWhole(row, read, result) == [read EXCEPT !.result = result]
CacheKept == cache

(* UpdateBattleRecord writes the columns of a result, and deletes the      *)
(* ranking pages.                                                          *)
Written(row, read, result) == [row EXCEPT !.result = result]
CacheAfter == [k \in Boards |-> None]
UpdateBattleRecord ==
  /\ loop # None /\ loop.at = "read"
  /\ LET b == client[loop.user].battle
     IN  \/ /\ record' = [record EXCEPT ![b][loop.user] =
                            Written(@, loop.row, client[loop.user].result)]
            /\ cache' = CacheAfter
            /\ loop' = [loop EXCEPT !.at = "written", !.row = None]
            /\ owed' = owed \cup {loop.user}
            /\ walk' = None   \* its reader has pages of a ranking that is gone
         \/ loop' = None /\ UNCHANGED <<record, cache, owed, walk>>
  /\ UNCHANGED <<stored, session, snapshot, peer, client, web>>

(* Mutant of TotalsAfter: the result is added to what the peer has.        *)
TotalsAdded(u) ==
  [k \in Counts |-> LET b == client[u].battle
                    IN  peer[u].totals[k] +
                          IF b \in Counted /\ k[2] \in {0, SideOf[b][u]}
                          THEN client[u].result[k[1]] ELSE 0]

(* Then the totals are counted anew and the user is written.  When one of  *)
(* the counts fails the peer has those before it, and nothing is written;  *)
(* nor is it when the write fails.                                         *)
TotalsAfter(u) == Totals(record, u)
CountTotals ==
  /\ loop # None /\ loop.at = "written"
  /\ LET u == loop.user
     IN  \E n \in 0 .. 3, saved \in BOOLEAN :
           /\ saved => n = 3
           /\ peer' = [peer EXCEPT ![u].totals =
                         [k \in Counts |-> IF k[2] < n THEN TotalsAfter(u)[k] ELSE @[k]]]
           /\ stored' = IF saved THEN [stored EXCEPT ![u] = peer'[u].totals] ELSE stored
           /\ owed' = IF saved THEN owed \ {u} ELSE owed
  /\ loop' = None
  /\ UNCHANGED <<record, cache, session, snapshot, client, web, walk>>

-----------------------------------------------------------------------------
(* The query of GetWinCountRanking and GetKillCountRanking: any order of   *)
(* the registered users with falling counts.                               *)
Registered == {u \in Users : stored[u] # None}
Rankings(k) ==
  {s \in SetToAllKPermutations(Registered) :
     /\ Len(s) = Cardinality(Registered)
     /\ \A i, j \in DOMAIN s : i < j => stored[s[i]][k] >= stored[s[j]][k]}

(* rankingPage: the users of a page, and the last page. *)
LastPage(n) == IF n = 0 THEN 0 ELSE ((n + PageSize - 1) \div PageSize) - 1
RankingPage(ranking, page) ==
  SubSeq(ranking, page * PageSize + 1, Min({(page + 1) * PageSize, Len(ranking)}))

(* GetRegurationData: a page of a ranking, from the cache or now cached.   *)
(* A reader begins with page 0 and follows the links to the next.          *)
Ranking(k) ==
  IF cache[k] # None THEN {cache[k]}
  ELSE {[users |-> s, counts |-> [i \in DOMAIN s |-> stored[s[i]][k]]] : s \in Rankings(k)}
GetRegurationData(k, page) ==
  /\ loop = None
  /\ page # 0 => walk # None /\ walk.board = k /\ walk.more /\ page = walk.page + 1
  /\ \E ranking \in Ranking(k) :
       LET users == RankingPage(ranking.users, page)
       IN  /\ cache' = [cache EXCEPT ![k] = ranking]
           /\ walk' = [board |-> k, page |-> page, of |-> ToSet(ranking.users),
                       read |-> IF page = 0 THEN users ELSE walk.read \o users,
                       more |-> page < LastPage(Len(ranking.users))]
  /\ UNCHANGED <<record, stored, mem, web, owed>>
-----------------------------------------------------------------------------
(* Mutant of Free: a file is put over one that is there. *)
PutOver(b) == TRUE
(* serveReplayUpload, ReplayStore.Put: the object is looked up, written    *)
(* and, if it still does not exist, there; then its url is recorded.       *)
Free(b) == b \notin files
Answer(h, how) == upload' = [upload EXCEPT ![h].state = how]
Attrs(h, b) ==
  /\ upload[h].state = "idle"
  /\ upload' = [upload EXCEPT ![h] =
       [state |-> IF Free(b) THEN "writing" ELSE "conflict", battle |-> b]]
  /\ UNCHANGED <<rows, mem, files, walk, owed>>
Put(h) ==
  /\ upload[h].state = "writing"
  /\ \/ /\ Free(upload[h].battle)
        /\ files' = files \cup {upload[h].battle} /\ Answer(h, "stored")
     \/ UNCHANGED files /\ Answer(h, "failed")
  /\ UNCHANGED <<rows, mem, walk, owed>>

(* The rows of battle b, as each of its players has one, become these. *)
OfBattle(b, rowsAfter) ==
  record' = [record EXCEPT ![b] = [u \in DOMAIN @ |-> IF @[u] = None THEN None
                                                      ELSE rowsAfter[u]]]
SetReplayURL(h) ==
  /\ upload[h].state = "stored"
  /\ \/ /\ LET rs == record[upload[h].battle]
           IN  OfBattle(upload[h].battle, [u \in DOMAIN rs |-> [rs[u] EXCEPT !.url = TRUE]])
        /\ Answer(h, "done")
     \/ UNCHANGED record /\ Answer(h, "failed")
  /\ UNCHANGED <<stored, cache, mem, files, walk, owed>>

(* serveReplayPlayed; saveUsedMs, which is sent before a login. *)
IncrementReplayPlayCount(b) ==
  /\ \E u \in DOMAIN SideOf[b] : record[b][u] # None /\ record[b][u].plays < MaxPlays
  /\ LET rs == record[b]
     IN  OfBattle(b, [u \in DOMAIN rs |-> [rs[u] EXCEPT !.plays = @ + 1]])
  /\ UNCHANGED <<stored, cache, mem, web, walk, owed>>
SaveUsedMs(u) ==
  /\ loop = None /\ session[u] \in Emulated /\ client[u] # None
  /\ LET rs == record[session[u]]
     IN  OfBattle(session[u], [v \in DOMAIN rs |-> [rs[v] EXCEPT !.ms = TRUE]])
  /\ UNCHANGED <<stored, cache, mem, web, walk, owed>>

Next ==
  \/ \E b \in Battles : AddBattleRecords(b)
  \/ \E b \in Emulated : IncrementReplayPlayCount(b)
  \/ \E u \in Users \ Guests :
       \/ OnDecideUserID(u) \/ UpdateUser(u) \/ OnUserGotoBattle(u)
       \/ Forget(u) \/ OnClose(u) \/ GetBattleRecordUser(u) \/ SaveUsedMs(u)
  \/ UpdateBattleRecord \/ CountTotals
  \/ \E k \in Boards, page \in 0 .. Cardinality(Users) : GetRegurationData(k, page)
  \/ \E h \in Uploads : Put(h) \/ SetReplayURL(h) \/ \E b \in Emulated : Attrs(h, b)

Spec == Init /\ [][Next]_vars

-----------------------------------------------------------------------------
(* A result counts once however often the client is asked for it: the row  *)
(* and the peer have the totals that the pilot's own record page counts.   *)
TotalsRight ==
  \A u \in Users \ owed :
    /\ stored[u] # None => stored[u] = OnGetUserRanking(u)
    /\ peer[u] # None => peer[u].totals = stored[u]

(* A ranking page shows the counts that users have, though it is cached    *)
(* and was made before.                                                    *)
PagesShowCounts ==
  \A k \in Boards :
    cache[k] # None => \A i \in DOMAIN cache[k].users :
      LET u == cache[k].users[i] IN u \notin owed => cache[k].counts[i] = stored[u][k]

(* Who follows the links from the first page to the last finds each user   *)
(* of the ranking once.                                                    *)
PagesShowAll ==
  walk # None => /\ IsInjective(walk.read)
                 /\ ~ walk.more => ToSet(walk.read) = walk.of

RankingPagesRight == PagesShowCounts /\ PagesShowAll

(* What one request has written on a battle no other takes back: a result  *)
(* sent again does not undo a replay recorded while it was handled.        *)
UpdatesKept ==
  [][\A b \in Battles : \A u \in DOMAIN SideOf[b] :
       record[b][u] # None =>
         /\ record[b][u].url => record'[b][u].url
         /\ record[b][u].ms => record'[b][u].ms
         /\ record[b][u].plays <= record'[b][u].plays]_vars

(* Of the uploads of one replay one is taken, and what is recorded is in   *)
(* the store.                                                              *)
OneReplay ==
  \A b \in Battles :
    /\ Cardinality({h \in Uploads : upload[h] = [state |-> "done", battle |-> b]}) <= 1
    /\ \A u \in DOMAIN SideOf[b] :
         record[b][u] # None /\ record[b][u].url => b \in files
=============================================================================
