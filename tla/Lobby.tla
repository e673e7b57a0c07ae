------------------------------- MODULE Lobby -------------------------------
(***************************************************************************)
(* The lobby's event loop (pkg/lobby/app.go, app_core.go) with its lobbies *)
(* and rooms (pkg/lobby/model).  All handlers run on one goroutine, so     *)
(* each is one action; the interest is in what long sequences of requests  *)
(* of several players, and connections that break at any point, do to      *)
(* state that is kept twice: a peer's Lobby, Room, Entry and Battle on one *)
(* side, the lists of lobbies, rooms and logged in users on the other.     *)
(*                                                                         *)
(* A *User in the code always points into its AppPeer, so lists of users   *)
(* are lists of connections here.  A Room pointer of a peer always points  *)
(* to a room of the peer's lobby, so it is a room id here.                 *)
(*                                                                         *)
(* The handlers check little of what the game client sends.  The variable  *)
(* client is what a client knows of itself, and the guards on it say which *)
(* requests a game client makes (README.md, "The game client").  Requests  *)
(* and notices cross: a client makes one more request after the lobby sent *)
(* it a battle's start, then it has seen the notice.                       *)
(***************************************************************************)
EXTENDS Naturals, SequencesExt, FiniteSetsExt

CONSTANTS
  Conns,       \* connections, each an AppPeer while open
  Users,       \* user ids; a user has one account and session
  UserOf,      \* [Conns -> Users]
  SyncsOf,     \* [Conns -> the sync fingerprints its client may have sent]
  Lobbies,     \* ids of the lobbies in use (of 26)
  Rooms,       \* ids of a lobby's rooms in use (of 6)
  Aeug, Titans,\* the two sides
  Sides,       \* those that users ask for
  PlayerCounts,\* what the rule's player count may be set to; 4 by default
  MaxBattles,  \* bound: battles ever made
  None

ASSUME LobbyAssumption ==
  /\ UserOf \in [Conns -> Users] /\ DOMAIN SyncsOf = Conns
  /\ Lobbies \subseteq Nat \ {0} /\ Rooms \subseteq Nat \ {0}
  /\ Aeug # Titans /\ Sides \subseteq {Aeug, Titans}
  /\ PlayerCounts \subseteq Nat \ {0} /\ MaxBattles \in Nat
  /\ None \notin Conns \cup Users \cup {Aeug, Titans}

(* A user is not logged in on two connections at once; README.md (section  *)
(* 7) says what is left behind when one is.                                *)
ASSUME OneConnectionEach ==
  \A p, q \in Conns : UserOf[p] = UserOf[q] => p = q

VARIABLES
  users,    \* App.users: the connection of each logged in user
  lobbys,   \* lobbys[l]: users and EntryUsers of lobby l
  rooms,    \* rooms[l][r]: a Room
  battles,  \* App.battles by session: the battle its user went to, or 0
  made,     \* every Battle made, in order; numbers stand for pointers
  conn,     \* conn[p]: the AppPeer
  client,   \* client[p]: what the game client at p knows of itself
  shown     \* shown[p][r]: room r of the lobby it is in, as p was told last

vars == <<users, lobbys, rooms, battles, made, conn, client, shown>>

Closed == [state |-> "closed", lobby |-> 0, room |-> 0, battle |-> 0,
           entry |-> None, after |-> FALSE, sync |-> None]
Fresh == [entered |-> FALSE, preparing |-> FALSE, meets |-> FALSE,
          removed |-> FALSE, notice |-> "no"]
EmptyRoom == [status |-> "empty", owner |-> None, max |-> 0, users |-> <<>>]

(* What is answered on a room, and sent when it changes. *)
RoomShown(room) == [status |-> room.status, count |-> Len(room.users), max |-> room.max]
NotShown == [r \in Rooms |-> RoomShown(EmptyRoom)]

Init ==
  /\ users = [u \in Users |-> None]
  /\ lobbys = [l \in Lobbies |-> [users |-> [u \in Users |-> None],
                                  entries |-> <<>>]]
  /\ rooms = [l \in Lobbies |-> [r \in Rooms |-> EmptyRoom]]
  /\ battles = [u \in Users |-> 0]
  /\ made = <<>>
  /\ conn = [p \in Conns |-> Closed]
  /\ client = [p \in Conns |-> Fresh]
  /\ shown = [p \in Conns |-> NotShown]

-----------------------------------------------------------------------------
(* What p's client may still ask; with a start notice on its way, once.    *)
Asks(p) == conn[p].state = "in" /\ client[p].notice # "seen"
Engaged(p) == client[p].entered \/ client[p].notice # "no"
Told(view, p) ==
  [view EXCEPT ![p].notice = IF client[p].notice = "sent" THEN "seen" ELSE @]

Listed(p) == \E l \in Lobbies, r \in Rooms : p \in ToSet(rooms[l][r].users)

(* Nothing of an earlier connection p is left: a new one is a new AppPeer. *)
Unreferenced(p) ==
  /\ \A u \in Users : users[u] # p
  /\ \A l \in Lobbies, u \in Users : lobbys[l].users[u] # p
  /\ ~ Listed(p)

(* OnDecideUserID, which ends the login; what comes before it changes      *)
(* nothing but p.                                                          *)
OnDecideUserID(p) ==
  /\ conn[p].state = "closed" /\ Unreferenced(p)
  /\ users' = [users EXCEPT ![UserOf[p]] = p]
  /\ conn' = [conn EXCEPT ![p] = [Closed EXCEPT !.state = "in"]]
  /\ client' = [client EXCEPT ![p] = Fresh]
  /\ UNCHANGED <<lobbys, rooms, battles, made, shown>>

-----------------------------------------------------------------------------
(* Who is told what becomes of the rooms of lobby l: as the code looks it  *)
(* up, the connections of the users that the lobby lists.                  *)
LobbyPeers(l) == {users[u] : u \in {u \in Users : lobbys[l].users[u] # None}} \ {None}
NoticeRoom(l, r) ==
  [p \in Conns |-> IF p \in LobbyPeers(l)
                   THEN [shown[p] EXCEPT ![r] = RoomShown(rooms'[l][r])] ELSE shown[p]]
NoticeRoomStatus(l, r) ==
  [p \in Conns |-> IF p \in LobbyPeers(l)
                   THEN [shown[p] EXCEPT ![r].status = rooms'[l][r].status] ELSE shown[p]]

AskRooms(l) == [r \in Rooms |-> RoomShown(rooms[l][r])]

(* OnEnterLobby: a client enters a lobby when it is in none, and then asks *)
(* for its rooms.  The user's sync fingerprint is taken from its platform  *)
(* info.                                                                   *)
OnEnterLobby(p, l) ==
  /\ Asks(p) /\ conn[p].lobby = 0 /\ ~ client[p].meets
  /\ \E s \in SyncsOf[p] : conn' = [conn EXCEPT ![p].lobby = l, ![p].sync = s]
  /\ lobbys' = [lobbys EXCEPT ![l].users[UserOf[p]] = p]
  /\ client' = Told([client EXCEPT ![p].entered = FALSE], p)
  /\ shown' = [shown EXCEPT ![p] = AskRooms(l)]
  /\ UNCHANGED <<users, rooms, battles, made>>

(* Mutant of Exit: a room is emptied only by a member. *)
ExitOfMembersOnly(room, u) ==
  LET left == SelectSeq(room.users, LAMBDA q : UserOf[q] # u)
  IN  IF left = room.users THEN room
      ELSE IF left = <<>> THEN EmptyRoom ELSE [room EXCEPT !.users = left]

(* Room.Enter and Room.Exit. *)
Filled(room) ==
  [room EXCEPT !.status = IF Len(room.users) = room.max THEN "full" ELSE "recruit"]
Enter(room, p, count) ==
  IF room.users = <<>>
  THEN Filled([room EXCEPT !.owner = UserOf[p], !.max = count, !.users = <<p>>])
  ELSE Filled([room EXCEPT !.users = Append(@, p)])
Exit(room, u) ==
  LET left == RemoveFirstMatch(room.users, LAMBDA q : UserOf[q] = u)
  IN  IF left = <<>> THEN EmptyRoom ELSE Filled([room EXCEPT !.users = left])

(* OnExitRoom in two parts: the rooms and the connections it leaves. When  *)
(* the owner goes the room goes, and its members are put out of it.        *)
RoomsAfterExit(p) ==
  LET l == conn[p].lobby
      r == conn[p].room
  IN  IF r = 0 THEN rooms
      ELSE [rooms EXCEPT ![l][r] = IF @.owner = UserOf[p] THEN EmptyRoom
                                   ELSE Exit(@, UserOf[p])]
PutOut(room) ==
  {users[UserOf[q]] : q \in {q \in ToSet(room.users) : UserOf[q] # room.owner}}
ConnsAfterExit(p) ==
  LET room == rooms[conn[p].lobby][conn[p].room]
      out  == IF room.owner = UserOf[p] THEN PutOut(room) ELSE {}
  IN  IF conn[p].room = 0 THEN conn
      ELSE [q \in Conns |-> IF q \in out \cup {p}
                            THEN [conn[q] EXCEPT !.room = 0, !.entry = None]
                            ELSE conn[q]]

(* Mutant of ShownAfterExit: only who is in no room is told. *)
ShownToLobby(p) ==
  [q \in Conns |-> IF conn[p].room # 0 /\ conn[q].room = 0
                   THEN NoticeRoom(conn[p].lobby, conn[p].room)[q] ELSE shown[q]]

ShownAfterExit(p) ==
  IF conn[p].room = 0 THEN shown ELSE NoticeRoom(conn[p].lobby, conn[p].room)

OnExitRoom(p) ==
  /\ Asks(p) /\ conn[p].room # 0
  /\ rooms' = RoomsAfterExit(p)
  /\ shown' = ShownAfterExit(p)
  /\ conn' = ConnsAfterExit(p)
  /\ client' = Told([client EXCEPT ![p].preparing = FALSE, ![p].removed = FALSE], p)
  /\ UNCHANGED <<users, lobbys, battles, made>>

(* Lobby.Exit: only if the user is listed, and its first entry only. *)
LobbysAfterExit(p) ==
  LET u == UserOf[p]
  IN  IF conn[p].lobby = 0 THEN lobbys
      ELSE [lobbys EXCEPT ![conn[p].lobby] =
              IF @.users[u] = None THEN @
              ELSE [users |-> [@.users EXCEPT ![u] = None],
                    entries |-> RemoveFirst(@.entries, u)]]

(* OnExitLobby, which several handlers call.  A fingerprint is looked at   *)
(* in a lobby only, so it is forgotten here.                               *)
LeavesLobby(p) ==
  /\ rooms' = RoomsAfterExit(p) /\ lobbys' = LobbysAfterExit(p)
  /\ shown' = [ShownAfterExit(p) EXCEPT ![p] = NotShown]
OutOfLobby(p) == [ConnsAfterExit(p) EXCEPT ![p].lobby = 0, ![p].sync = None]

(* A client leaves a lobby after it took back its entry. *)
OnExitLobby(p) ==
  /\ Asks(p) /\ conn[p].lobby # 0 /\ ~ client[p].entered
  /\ LeavesLobby(p)
  /\ conn' = OutOfLobby(p)
  /\ client' = Told([client EXCEPT ![p].preparing = FALSE, ![p].removed = FALSE], p)
  /\ UNCHANGED <<users, battles, made>>

(* OnUserTopPageJump; inBattleAfterRoom stays. *)
OnUserTopPageJump(p) ==
  /\ Asks(p)
  /\ LeavesLobby(p)
  /\ conn' = [OutOfLobby(p) EXCEPT ![p].battle = 0, ![p].entry = None]
  /\ client' = [client EXCEPT ![p] = Fresh]
  /\ UNCHANGED <<users, battles, made>>

(* OnUserLogout, OnUserGotoBattle: after either the client hangs up. *)
LogsOut(p) ==
  /\ LeavesLobby(p)
  /\ conn' = [OutOfLobby(p) EXCEPT ![p].battle = 0, ![p].entry = None,
                                   ![p].state = "out"]
  /\ users' = [users EXCEPT ![UserOf[p]] = None]
  /\ client' = [client EXCEPT ![p] = Fresh]
  /\ UNCHANGED made
OnUserLogout(p) ==
  /\ Asks(p)
  /\ LogsOut(p)
  /\ UNCHANGED battles
OnUserGotoBattle(p) ==
  /\ conn[p].state = "in" /\ client[p].notice # "no"
  /\ battles' = IF conn[p].battle = 0 THEN battles
                ELSE [battles EXCEPT ![UserOf[p]] = conn[p].battle]
  /\ LogsOut(p)

(* OnClose: the connection is lost, closed by the client or closed by      *)
(* checkAlive; the users entry goes whichever connection it names.  Of the *)
(* AppPeer only what a room may still list it for is kept.                 *)
OnClose(p) ==
  /\ conn[p].state # "closed"
  /\ LeavesLobby(p)
  /\ conn' = [OutOfLobby(p) EXCEPT
                ![p] = [Closed EXCEPT !.entry = IF Listed(p)' THEN conn[p].entry
                                                ELSE None]]
  /\ users' = [users EXCEPT ![UserOf[p]] = None]
  /\ client' = [client EXCEPT ![p] = Fresh]
  /\ UNCHANGED <<battles, made>>

-----------------------------------------------------------------------------
(* Mutants: sync fingerprints are not looked at; users are told as the     *)
(* battle is recorded for each of them.                                    *)
AlikeOrNot(list, sync) == list
FightsToldAtOnce(l, r, list, n, whole, cs, view) ==
  LET in == {users[UserOf[list[i]]] : i \in 1 .. n}
  IN  /\ Len(made) < MaxBattles /\ None \notin in
      /\ made' = Append(made,
           [lobby |-> l, room |-> r, whole |-> whole,
            users |-> [i \in 1 .. n |-> UserOf[list[i]]],
            sides |-> [i \in 1 .. n |-> cs[list[i]].entry],
            syncs |-> {cs[list[i]].sync : i \in 1 .. n}])
      /\ conn' = [q \in Conns |->
           [cs[q] EXCEPT !.battle = IF q \in in THEN Len(made) + 1 ELSE @]]
      /\ client' = [q \in Conns |->
           [view[q] EXCEPT !.notice = IF q \in in /\ @ = "no" THEN "sent" ELSE @]]

(* What a list has at some of its positions, in its order. *)
Sublist(list, positions) ==
  LET nth(k) == CHOOSE i \in positions : Cardinality({j \in positions : j < i}) = k - 1
  IN  [k \in 1 .. Cardinality(positions) |-> list[nth(k)]]

(* Which of the connections in a list fight: of those that are entered,    *)
(* the first two of each side.  cs is the state of the connections.        *)
TwoASide(cs, list) ==
  LET rank(i) == Cardinality({j \in 1 .. i - 1 : cs[list[j]].entry = cs[list[i]].entry})
  IN  Sublist(list, {i \in DOMAIN list : cs[list[i]].entry # None /\ rank(i) < 2})

OnSide(cs, list, side) == Cardinality({i \in DOMAIN list : cs[list[i]].entry = side})

(* Lobby.canStart and Room.CanBattleStart. *)
LobbyCanStart(l, a, t) ==
  CASE l = 2 -> 1 <= a /\ 1 <= t
    [] l = 3 -> 1 <= a \/ 1 <= t
    [] OTHER -> 2 <= a /\ 2 <= t
RoomCanStart(a, t) == a \in 1 .. 2 /\ t \in 1 .. 2

(* The connections behind a lobby's EntryUsers es, and those among them    *)
(* with one sync fingerprint.                                              *)
EntryConns(l, es) ==
  LET here == Sublist(es, {i \in DOMAIN es : lobbys[l].users[es[i]] # None})
  IN  [i \in DOMAIN here |-> lobbys[l].users[here[i]]]
Alike(list, sync) == Sublist(list, {i \in DOMAIN list : conn[list[i]].sync = sync})

(* startGroup: where in the entries a group first can start a battle. *)
Ready(l, cs, list) ==
  {n \in DOMAIN list :
     LET group == Alike(SubSeq(list, 1, n), conn[list[n]].sync)
     IN  LobbyCanStart(l, OnSide(cs, group, Aeug), OnSide(cs, group, Titans))}

(* StartBattleUsers: that group's, else the first entry's. *)
StartBattleUsers(l, cs, list) ==
  LET n == IF Ready(l, cs, list) = {} THEN 1 ELSE Min(Ready(l, cs, list))
  IN  IF list = <<>> THEN <<>> ELSE TwoASide(cs, Alike(list, conn[list[n]].sync))

(* The AppPeers that startBattle finds for a list, by user id. *)
PeersOf(list) == {users[UserOf[list[i]]] : i \in DOMAIN list}

(* startBattle for list: refused without a battle server or a peer; or it  *)
(* fails while the battle is recorded for the n-th user, with the first n  *)
(* in the battle already; or all are in it and are told that it starts.    *)
Refuses(cs, view) == conn' = cs /\ client' = view /\ UNCHANGED made

Fights(l, r, list, n, whole, cs, view) ==
  LET in == SubSeq(list, 1, n)
  IN  /\ Len(made) < MaxBattles /\ None \notin PeersOf(list)
      /\ made' = Append(made,
           [lobby |-> l, room |-> r, whole |-> whole,
            users |-> [i \in DOMAIN in |-> UserOf[in[i]]],
            sides |-> [i \in DOMAIN in |-> cs[in[i]].entry],
            syncs |-> {cs[p].sync : p \in ToSet(in)}])
      \* a lobby's battle takes the entries of its users back
      /\ conn' = [q \in Conns |->
           [cs[q] EXCEPT !.battle = IF q \in PeersOf(in) THEN Len(made) + 1 ELSE @,
                         !.entry = IF whole /\ r = 0 /\ q \in ToSet(in) THEN None ELSE @]]
      /\ client' = [q \in Conns |->
           [view[q] EXCEPT !.notice = IF whole /\ q \in PeersOf(in) /\ @ = "no"
                                      THEN "sent" ELSE @]]

StartBattle(l, r, list, cs, view) ==
  \/ Refuses(cs, view)
  \/ \E n \in DOMAIN list : Fights(l, r, list, n, FALSE, cs, view)
  \/ Fights(l, r, list, Len(list), TRUE, cs, view)

(* startTestBattle: one player with a zproxy that has registered. *)
StartTestBattle(l, list, cs, view) ==
  \/ Refuses(cs, view)
  \/ Len(list) = 1 /\ Fights(l, 0, list, 1, TRUE, cs, view)

(* OnEntryLobbyBattle with a side, or None to take the entry back. *)
Entries(l, u, side) ==
  IF side = None THEN RemoveFirst(lobbys[l].entries, u)
  ELSE Append(lobbys[l].entries, u)
OnEntryLobbyBattle(p, side) ==
  LET l    == conn[p].lobby
      es   == Entries(l, UserOf[p], side)
      cs   == [conn EXCEPT ![p].entry = side]
      view == Told([client EXCEPT ![p].entered = side # None], p)
      list == EntryConns(l, es)
      able == Ready(l, cs, list) # {}
  IN  /\ Asks(p) /\ l # 0 /\ conn[p].room = 0
      /\ IF side = None THEN client[p].entered ELSE ~ Engaged(p)
      /\ lobbys' = [lobbys EXCEPT ![l].entries = es]
      /\ IF l = 1 /\ side # None
         THEN StartTestBattle(l, StartBattleUsers(l, cs, list), cs, view)
         ELSE IF able
         THEN StartBattle(l, 0, StartBattleUsers(l, cs, list), cs, view)
         ELSE Refuses(cs, view)
      /\ UNCHANGED <<users, rooms, battles, shown>>

-----------------------------------------------------------------------------
(* Back from a battle, its players meet in a room: OnEnterBattleAfterRoom, *)
(* OnExitBattleAfterRoom; and checkAlive, which drops a battle in time.    *)
OnEnterBattleAfterRoom(p) ==
  LET b == battles[UserOf[p]]
  IN  /\ Asks(p) /\ conn[p].lobby = 0 /\ b # 0
      /\ battles' = [battles EXCEPT ![UserOf[p]] = 0]
      /\ conn' = [conn EXCEPT ![p].battle = b, ![p].after = TRUE]
      /\ client' = [client EXCEPT ![p].meets = TRUE]
      /\ UNCHANGED <<users, lobbys, rooms, made, shown>>
OnExitBattleAfterRoom(p) ==
  /\ Asks(p) /\ client[p].meets
  /\ conn' = [conn EXCEPT ![p].battle = 0, ![p].after = FALSE]
  /\ client' = [client EXCEPT ![p].meets = FALSE]
  /\ UNCHANGED <<users, lobbys, rooms, battles, made, shown>>
BattleTimeout(u) ==
  /\ battles[u] # 0
  /\ battles' = [battles EXCEPT ![u] = 0]
  /\ UNCHANGED <<users, lobbys, rooms, made, conn, client, shown>>

(* Mutant of AfterRoom: whoever has the battle is taken to be back. *)
AfterRoomOfAll(b) ==
  {p \in {users[u] : u \in ToSet(made[b].users)} \ {None} : conn[p].battle = b}

(* noticeBattleAfterRoomUserCountAll: who has met so far, and is counted.  *)
AfterRoom(b) ==
  {p \in {users[u] : u \in ToSet(made[b].users)} \ {None} :
     conn[p].after /\ conn[p].battle = b}

(* OnSendChatMessage: who is sent what p writes. *)
InRoom(l, r) == {users[UserOf[q]] : q \in ToSet(rooms[l][r].users)} \ {None}
InLobby(l) == {p \in LobbyPeers(l) : conn[p].room = 0}
Hearers(p) ==
  CASE conn[p].after -> IF conn[p].battle = 0 THEN {p} ELSE AfterRoom(conn[p].battle)
    [] ~ conn[p].after /\ conn[p].room # 0 -> InRoom(conn[p].lobby, conn[p].room)
    [] ~ conn[p].after /\ conn[p].room = 0 /\ conn[p].lobby # 0 -> InLobby(conn[p].lobby)
    [] OTHER -> {}

-----------------------------------------------------------------------------
(* Making a room takes two requests; in between it is being prepared, and  *)
(* its maker is not in its list.                                           *)
Idle(p) == Asks(p) /\ conn[p].lobby # 0 /\ conn[p].room = 0 /\ ~ Engaged(p)
OnRequestCreateRoom(p, r) ==
  /\ Idle(p) /\ rooms[conn[p].lobby][r].status = "empty"
  /\ rooms' = [rooms EXCEPT ![conn[p].lobby][r].status = "prepare"]
  /\ shown' = NoticeRoomStatus(conn[p].lobby, r)
  /\ conn' = [conn EXCEPT ![p].room = r]
  /\ client' = Told([client EXCEPT ![p].preparing = TRUE], p)
  /\ UNCHANGED <<users, lobbys, battles, made>>
OnDecideRuleFinish(p, count) ==
  /\ Asks(p) /\ conn[p].room # 0 /\ client[p].preparing
  /\ rooms' = [rooms EXCEPT ![conn[p].lobby][conn[p].room] = Enter(@, p, count)]
  /\ shown' = NoticeRoom(conn[p].lobby, conn[p].room)
  /\ client' = Told([client EXCEPT ![p].preparing = FALSE], p)
  /\ UNCHANGED <<users, lobbys, battles, made, conn>>

(* Only a full room is refused: what the client saw may be out of date. *)
OnEnterRoom(p, r, count) ==
  /\ Idle(p) /\ rooms[conn[p].lobby][r].status # "full"
  /\ rooms' = [rooms EXCEPT ![conn[p].lobby][r] = Enter(@, p, count)]
  /\ shown' = NoticeRoom(conn[p].lobby, r)
  /\ conn' = [conn EXCEPT ![p].room = r]
  /\ client' = Told(client, p)
  /\ UNCHANGED <<users, lobbys, battles, made>>

OnEntryRoomMatch(p, side) ==
  /\ Asks(p) /\ conn[p].room # 0 /\ ~ client[p].preparing
  /\ conn' = [conn EXCEPT ![p].entry = side]
  /\ client' = Told(client, p)
  /\ UNCHANGED <<users, lobbys, rooms, battles, made, shown>>

(* OnNoticeRoomBattleStart, sent once by the client of the room's owner.   *)
(* The entries stay, unlike after a battle of the lobby.  Members who do   *)
(* not fight are told that the room is removed, but are kept in it until   *)
(* their clients leave it.                                                 *)
OnNoticeRoomBattleStart(p) ==
  LET room   == rooms[conn[p].lobby][conn[p].room]
      active == TwoASide(conn, room.users)
      idle   == PeersOf(room.users) \ PeersOf(active)
      view   == Told([q \in Conns |-> [client[q] EXCEPT !.removed = @ \/ q \in idle]], p)
  IN  /\ Asks(p) /\ client[p].notice = "no" /\ ~ client[p].removed
      /\ conn[p].room # 0 /\ room.owner = UserOf[p]
      /\ RoomCanStart(OnSide(conn, room.users, Aeug), OnSide(conn, room.users, Titans))
      /\ \/ Refuses(conn, client)
         \/ \E n \in DOMAIN active :
              Fights(conn[p].lobby, conn[p].room, active, n, FALSE, conn, client)
         \/ Fights(conn[p].lobby, conn[p].room, active, Len(active), TRUE, conn, view)
      /\ UNCHANGED <<users, lobbys, rooms, battles, shown>>

-----------------------------------------------------------------------------
RoomRequests(p) ==
  \/ \E r \in Rooms : OnRequestCreateRoom(p, r)
  \/ \E r \in Rooms, count \in PlayerCounts : OnEnterRoom(p, r, count)
  \/ \E count \in PlayerCounts : OnDecideRuleFinish(p, count)
  \/ \E side \in Sides \cup {None} : OnEntryRoomMatch(p, side)
  \/ OnNoticeRoomBattleStart(p)
  \/ OnExitRoom(p)
Requests(p) ==
  \/ OnDecideUserID(p) \/ OnUserLogout(p) \/ OnUserGotoBattle(p)
  \/ \E l \in Lobbies : OnEnterLobby(p, l)
  \/ \E side \in Sides \cup {None} : OnEntryLobbyBattle(p, side)
  \/ OnExitLobby(p) \/ OnUserTopPageJump(p)
  \/ OnEnterBattleAfterRoom(p) \/ OnExitBattleAfterRoom(p)

Next ==
  \/ \E p \in Conns : Requests(p) \/ RoomRequests(p) \/ OnClose(p)
  \/ \E u \in Users : BattleTimeout(u)

Spec == Init /\ [][Next]_vars

-----------------------------------------------------------------------------
TypeOK ==
  /\ users \in [Users -> Conns \cup {None}]
  /\ lobbys \in [Lobbies -> [users : [Users -> Conns \cup {None}], entries : Seq(Users)]]
  /\ rooms \in [Lobbies -> [Rooms ->
       [status : {"empty", "prepare", "recruit", "full"}, owner : Users \cup {None},
        max : PlayerCounts \cup {0}, users : Seq(Conns)]]]
  /\ battles \in [Users -> 0 .. Len(made)]
  /\ Len(made) <= MaxBattles
  /\ conn \in [Conns ->
       [state : {"closed", "in", "out"}, lobby : Lobbies \cup {0},
        room : Rooms \cup {0}, battle : 0 .. Len(made),
        entry : Sides \cup {None}, after : BOOLEAN,
        sync : {None} \cup UNION {SyncsOf[p] : p \in Conns}]]
  /\ client \in [Conns -> [entered : BOOLEAN, preparing : BOOLEAN, meets : BOOLEAN,
                             removed : BOOLEAN, notice : {"no", "sent", "seen"}]]
  /\ shown \in [Conns -> [Rooms ->
       [status : {"empty", "prepare", "recruit", "full"}, count : Nat,
        max : PlayerCounts \cup {0}]]]

(* Whoever a lobby lists is connected and in that lobby. *)
LobbyListsPresent ==
  \A l \in Lobbies, u \in Users :
    LET p == lobbys[l].users[u]
    IN  p # None => conn[p].state = "in" /\ conn[p].lobby = l /\ UserOf[p] = u

(* No room stays taken: a room that others cannot make has somebody        *)
(* connected in it, who is its member or is preparing it.                  *)
RoomsNotStranded ==
  \A l \in Lobbies, r \in Rooms :
    rooms[l][r].status # "empty" =>
      \E p \in Conns : conn[p].lobby = l /\ conn[p].room = r

(* A peer's Room and the rooms' lists agree; the owner is a member; and    *)
(* the status says whether the room is full.                               *)
RoomsAgree ==
  \A l \in Lobbies, r \in Rooms :
    LET room == rooms[l][r]
        members == ToSet(room.users)
    IN  /\ \A p \in Conns :
             p \in members <=> /\ conn[p].lobby = l /\ conn[p].room = r
                              /\ ~ client[p].preparing
        /\ IsInjective(room.users)
        /\ members # {} => /\ room.owner \in {UserOf[p] : p \in members}
                           /\ room.status \in {"recruit", "full"}
                           /\ (room.status = "full") = (Len(room.users) = room.max)

(* A lobby's entries are those of users in it, once each, and whoever is   *)
(* listed with a side has asked for it: nobody counts for two in a battle. *)
EntriesOnce ==
  \A l \in Lobbies :
    /\ IsInjective(lobbys[l].entries)
    /\ \A u \in ToSet(lobbys[l].entries) : lobbys[l].users[u] # None
    /\ \A p \in Conns : client[p].entered /\ conn[p].lobby = l
                           => UserOf[p] \in ToSet(lobbys[l].entries)

ListsAgree ==
  TypeOK /\ LobbyListsPresent /\ EntriesOnce /\ RoomsAgree /\ RoomsNotStranded

(* Whoever is in a lobby sees each of its rooms as it is, whatever others  *)
(* did to it since the player asked: who makes, fills, empties, leaves or  *)
(* loses a room tells everybody.  Nobody is kept out of a free room, or    *)
(* offered one that is full or gone.                                       *)
RoomsShown ==
  \A p \in Conns :
    conn[p].state = "in" /\ conn[p].lobby # 0 =>
      \A r \in Rooms : shown[p][r] = RoomShown(rooms[conn[p].lobby][r])

(* A battle is between different users, at most two a side; a lobby's is   *)
(* between equal sync fingerprints.  Each side has somebody in a room and  *)
(* in lobby 2, two in the lobbies above 3; lobby 1 is for tests and in     *)
(* lobby 3 one player is enough.                                           *)
FairBattles ==
  \A b \in DOMAIN made :
    LET battle  == made[b]
        side(s) == Cardinality({i \in DOMAIN battle.sides : battle.sides[i] = s})
        least   == CASE battle.room # 0 \/ battle.lobby = 2 -> 1
                     [] battle.lobby \in {1, 3} -> 0
                     [] OTHER -> 2
    IN  battle.whole =>
          /\ IsInjective(battle.users) /\ battle.users # <<>>
          /\ {side(Aeug), side(Titans)} \subseteq least .. 2
          /\ side(Aeug) + side(Titans) = Len(battle.users)
          /\ battle.room = 0 => Cardinality(battle.syncs) = 1

(* Players who chat hear each other: whoever is sent what p writes can     *)
(* answer p, and p sees its own line.  Not so for one who prepares a room, *)
(* nor for one who left the room after a battle by jumping to the top      *)
(* page: its inBattleAfterRoom stays, and it then writes to itself only.   *)
ChatIsMutual ==
  LET chats == {p \in Conns : /\ conn[p].state = "in" /\ ~ client[p].preparing
                              /\ conn[p].after => client[p].meets}
  IN  \A p \in chats :
        /\ conn[p].lobby # 0 \/ conn[p].after => p \in Hearers(p)
        /\ \A q \in chats : q \in Hearers(p) <=> p \in Hearers(q)

(* Whoever was told that a battle starts goes to one that all its users    *)
(* were told of: no later start, failed or not, puts another in its place. *)
SameBattle ==
  \A p \in Conns :
    conn[p].state = "in" /\ client[p].notice # "no" =>
      /\ conn[p].battle # 0
      /\ made[conn[p].battle].whole
      /\ UserOf[p] \in ToSet(made[conn[p].battle].users)

=============================================================================
