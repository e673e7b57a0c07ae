# zdxsv in TLA+

Specifications of zdxsv, a server for the online mode of a PlayStation 2 game:
what its parts keep in memory, what their operations do to it, which properties
make them correct, and what has been model-checked (TLC) or proved (TLAPS) of
them. Every definition is translated from the Go source; `PROJECT.json` ("map")
names the lines each stands for. Paths below are relative to `src/`.

Run a check with `tlc -config X.cfg MCModule`, a proof with `tlapm XProofs.tla` for X
one of `BattleLink`, `BattleServer`, `Lobby`, `Records`, `Relay`, `RelayControl`, `SignIn` and
`Spectator` (`LobbyProofs` takes some minutes).

## 1. The system

A console connects to a *lobby server* through TCP, enters lobbies and rooms, and
asks for battles. The lobby picks the players, tells a *battle server* who is
coming (RPC), and sends the players there. In a battle every player's messages go
to all the others, over TCP or over a reliable link on UDP (the *battle link*).
A *zproxy* on the player's side speaks UDP for the console and may also exchange
messages with the other players' zproxies directly. Emulator players use GGPO
packets instead, which a *relay* in the lobby or in a *region* forwards when they
cannot reach each other. Battles are uploaded while they run and may be watched.
A *sign-in* service links accounts to outside identities.

| Component | State | Operations | Talks to | What is hard | Correct when |
|---|---|---|---|---|---|
| Battle link, `pkg/proto/battlebuf.go`, `pkg/battle/udp_peer.go` | per end a ring of unacknowledged messages, window positions, a filter of author numbers | push, flush, ApplySeqAck, Filter | battle server, zproxy | loss, duplication, reordering; acknowledgements that go backwards; ring and window wrap | every message arrives once, in order |
| Battle server, `pkg/battle` | waiting users, rooms with slots, peers | NotifyBattleUsers, Join, SendMessage, Leave | lobby (RPC), battle link | one goroutine per player, four locks per join; rooms reused in a ring | members of one battle hear each other without gaps, and nobody else |
| Lobby event loop and model, `pkg/lobby/app*.go`, `pkg/lobby/model` | users, lobbies, rooms, entries, battles; each kept twice | 25 or so handlers, connection loss, a 1 s check | connections, battle server, database | long request sequences, loss of a connection at any point, requests that cross notices, failures half way | lists agree; everybody sees them as they are; battles are fair; whoever is told to go, goes to one battle with those told |
| Battle info, `pkg/lobby/msg_battle.go`, `relay_regions.go`, `app_rpc.go` | platform infos, registered proxies, what a battle copies of both | answers to each player, RPC to zproxies | event loop, relay control, zproxy | each player asks in its own time; some have left; relays come and go | the players of a battle are told the same of it |
| Lobby connection, `pkg/lobby/server.go`, `app.go` | in and out buffers, wake-ups, the channel to the event loop | read, dispatch, write loops | event loop | wake-ups and locks among four goroutines; a bounded channel everyone posts to; a parse error that keeps a lock | no wake-up lost; a client that is gone is forgotten |
| GGPO relay, `pkg/lobby/relay.go` | sessions, slots with an address per IP family, bindings of addresses | SessionToken, ping, game packet, expiry | lobby, relay control, players | rebinding, addresses that change hands, replaced and expired sessions | packets pass only between members; a player is where it plays |
| Relay control, `pkg/lobby/relay_control.go`, `relay_regions.go`, and provisioning, `relay_provision.go` | tokens and a bounded queue per connection of a regional relay; regions with the time a relay was last needed and started | connect, status, push token, end, start, shut down | relay, lobby, cloud command | queue overflow, reconnection with an empty table, late end of an old connection, decisions on an old status | tokens that players have reach the relay; who is offered is served; no relay is left running |
| Live spectating, `pkg/lobby/spectator.go` | battles with their bytes, watchers in four states, counters | Open, Run, deliver, Tick, upload and watch connections | event loop | counters with many ways out; writes outside the lock; slow watchers; uploads that end or die | every watcher counted once and closed; whoever keeps up gets all of it |
| zproxy, `src/zproxy` | one console, server link, peer links | register, ping, greet, serve battle | battle link, lobby | one author over two paths | the console hears each message once, in order |
| End-of-battle scanner, `pkg/proto/fin.go` | position in a split stream | scan | zproxy | frames split anywhere | finds exactly the end frames |
| Sign-in and login, `pkg/auth`, `pkg/db/auth.go`, `pkg/login/top.go` | flows, codes, carry-over codes, tokens, identities, accounts | start, callback, token, carry, revoke, gc, the two logins | database, identity provider, lobby | single use, expiry, check and use apart, overlapping logins | what is good once serves once; limits kept; one client let in |
| Records, rankings, replays, `pkg/db/sqlite.go`, `replay_upload.go`, handlers of `app_core.go` and `msg_info.go` | battle records, totals kept three times, cached pages, stored files | add and update records, count totals, page, upload, play | event loop, HTTP, storage | results answered again, writes of two goroutines to one row, failures between statements | a result counts once; nothing written is taken back |
| Others: router, DNAS, chat notices, UDP echo, fixed screens, status, bots | | | | no interaction, or I/O | not modelled, see section 8 |

## 2. Plan

In order of importance to players in a battle. Modules 1 to 11 are written.

1. `BattleLink`, refining `OrderedChannel` (abstract: a pair of FIFO channels), with
   proofs in `BattleLinkProofs`.
2. `Relay`, with proofs in `RelayProofs`.
3. `BattleServer`: goroutines lock by lock; with proofs in `BattleServerProofs`.
4. `Lobby`: the event loop over lobbies and rooms, with chat and what is shown; with
   proofs in `LobbyProofs`.
5. `Spectator`: registry, uploads, requests to watch, the delivery loop; with proofs in
   `SpectatorProofs`.
6. `RelayControl`: regional relays behind a bounded queue, and their provisioning; with
   proofs in `RelayControlProofs`.
7. `SignIn`: flows, carry codes, accounts and logins, interleaved at each
   statement of the database; with proofs in `SignInProofs`.
8. `BattleRoute` over `FinScanner`: zproxy's two paths of a player's messages,
   each as `BattleLink` shows it, into one filter; the proofs about paths and scanner are
   the last two parts of `BattleServerProofs`.
9. `LobbyConn`: goroutines of a connection; with proofs at the end of `LobbyProofs`.
10. `Records`: results, totals, rankings, replays; with proofs in `RecordsProofs`.
11. `BattleInfo`, which extends `Lobby`: what players are told of a battle; its proofs
    are in `LobbyProofs` as well.

Left to do:

- Composition of `Lobby` with `BattleServer`, to state that the players of a battle
  meet in one room, and which of them are unknown there.
- The search of replays (`FindReplay`), and RPC Status.

## 3. Modules

### OrderedChannel, BattleLink and BattleLinkProofs
`OrderedChannel` is what a link promises: sent and received sequences at each of
two ends, a put at one end, a take of the next one at the other.

`BattleLink` has a `BattleBuffer` (`buf`), a `MessageFilter` (`filter`) and the
reading goroutine's packet (`handling`) per end, and the set `net` of packets.
`PushBattleMessage`, `Flush` (GetSendData and the send), `ApplySeqAck` and
`Filter` are the code's operations; `Lose` is UDP's, `MayStay` its duplication;
as `net` is a set, packets arrive in any order. Receiving takes two actions,
because the sender's goroutine runs between the two locks. `pushed` and
`accepted` record the history; mapping them to the channels' contents gives the
refinement (`ChannelSpec`).

The ring is overwritten without a look at what is acknowledged
(`battlebuf.go:45`). `RingHasRoom` assumes that no message is pushed that would
overwrite one which may have to be sent again; in the code 4096 messages would
have to be pushed while one packet is under way, and a peer silent for 5 s is
dropped.

### Relay and RelayProofs
`store` is a heap of `relaySession`s, because bindings keep pointers to sessions
that `sessions` no longer names. `SessionToken`, `SetSessionToken`, `HandlePing`,
`HandleGgpo` and `RemoveStaleSessions` each hold the relay's mutex from start to
end and are one action each. `HandlePing` frees the slot's old address of the
family, takes the address away from whatever slot had it, and binds it. Time is
`Tick`, counting a session's idle time and age up to just over the limits. `shown`
is a history: the tokens an address pinged with.

Sessions are registered in both ways: the lobby's own relay draws a token
(`SessionToken`), a regional one is told it (`SetSessionToken`).

### BattleServer and BattleServerProofs
`at[p]` is what the goroutine of a connection comes to next: `serving`, `found`
(FindWaitingUser saw an info), `informed` (GetBattleInfo), `cleared`
(ClearBattleInfo), `joined` (Room.Join), then `clearing` between the two locks of
`Room.Leave`, and `left`. Every action is one region under a lock. An info found
but cleared by another connection with the same session id is dereferenced: the
goroutine panics and, as nothing recovers it, the process ends (`Up` is false and
nothing else happens). A leaving connection (a fin, an error or a timeout) is
`LeaveRoom` at any time while joined. `heard` records what a member was sent.

### Lobby and LobbyProofs
All handlers run on one goroutine, so each is one action with everything it
calls: leaving a lobby leaves the room and takes the entry back, an entry starts
the battle when it can. `conn[p]` holds the `AppPeer` fields, `lobbys`, `rooms`,
`users` and `battles` the server's own lists; `made` is the list of `Battle`s and
their users, sides and fingerprints. `StartBattle` has the code's three outcomes:
refused (no battle server, or a peer is missing), failed at the n-th user's
record with the first n in the battle, or done.

*The game client.* The server trusts its client in most requests, so what clients
ask is part of the model: the variable `client` is what a client knows (that it
has entered, that it is preparing a room, that it is in the room after a battle,
that its room was removed, that a battle starts), and guards on it are the
client's, marked external in the map. A client enters one lobby at a time, takes
its entry back before it leaves, does not enter for a battle from within a room,
does not make a room while it is entered, and after the notice that a battle starts
only goes there. What is not assumed: that what a client sees is up to date
(it enters a room that was removed or is being prepared), that no request of it
was under way when the notice was sent (one more is handled), or that it stays
connected.

*What is seen.* `shown` is each room as a client was last told of it, by the answers
to its questions (`AskRooms`) or by a notice; every handler that changes a room says
to whom it sends one. Chat is not a step: `Hearers` is whom a line would reach in a
state.

*One connection a user.* `OneConnectionEach` assumes that a user has one connection.
A second login is possible in the code; section 7 says what it leaves behind.

### Spectator and SpectatorProofs
A request to watch is `away`, `picked` (counted under the mutex), `watching` once
its connection is taken over, and `closed` for a reason (`why`). A spectator that
watches goes through the channel `join` into Run's list `ws`. A round of `deliver`
is `Begin` (the views of the battles, taken under the mutex), one `Deliver` for
each spectator without the mutex, and `End` with `Tick`; uploads and requests go on
in between. A turn sends all there is, or meets a full socket, possibly after part
of it, or a broken connection; a full socket takes one of the `Budget` writes for
which a round has time, and once they are used up nobody is written to. Time is
counted in rounds: a stall in rounds without progress, the silence of an upload in
rounds without a piece. `Begin` waits until a silent upload has met its read
deadline and until Run has taken in whoever came before, as Run is free for at least
half of each tick. When `Tick` drops a battle is left open (10 minutes are as good
as any time here), so is which battle a request without a code gets.

### RelayControl and RelayControlProofs
`conns` is every control connection ever made, with the lobby's table of tokens for
it, what is in its queue, and the status it is reading; a `RegionalRelay` in `byAddr`
names its connection, as the pointer does in the code. A connection ends at its two
ends at different times, so that a relay may be on its next one while the lobby still
reads the last (`Dial`, `HangUp`, `End`). A status takes two locked regions
(`ReadStatus`, `SetActive`); a player's question takes the relays under the lock and
then a token of each without it (`Ask`, `SessionToken`). `UpdateRelays` is a round of
the lobby's ticker: starts, and shutdowns of relays whose last status said that they
are idle. What a full queue drops is kept in `lost`, for the properties. Rounds stand
for clocks: 30 minutes without need and 10 minutes between starts are rounds of
`updateRelays`. A relay is only a table of tokens here, `Relay` is its inside.

### SignIn and SignInProofs
A request is a goroutine in a slot; it goes from statement to statement (`at`), may end
at each (`Fails`), and holds only what the handler has in its variables. `answers` is
what clients got from logins, `LetsIn` what the lobby does with it. Session ids and
temporary keys are the number of the login that drew them, as both are random.
Expiry may happen at any time.

### BattleRoute (proofs in BattleServerProofs) and FinScanner
A path is a pointer into what its author wrote, as `BattleLink` guarantees: it presents
the next message, or the one before again. The direct path exists where a ping was
answered, and moves only as far as the window when the other end does not acknowledge.
`Hear` is the filter that both share. `FinScanner` has the scanner as a fold over the
bytes of a read, and the reference (`Begins`, `HoldsFin`): the frames of the whole
stream. `FinsFound` compares the two for every stream, cut anywhere into reads, and every
way in which the join came before it (`Joined`).

### LobbyConn (proofs in LobbyProofs)
`serve`, `reader`, `dispatcher` and `writer` are the places of the four goroutines,
`chDispatch`, `chWrite` the wake-ups, `inbuf`, `outbuf` the buffers and `chEvent` the
channel to the event loop. `dispatcher` in "holding", "posting" or "stuck" has mInbuf.
The stream is counted in bytes: what matters is whether a header or a whole message is
there.

### Records and RecordsProofs
The handlers run one after the other, but between two statements of `OnGetBattleResult`
(`GetBattleRecordUser`, `UpdateBattleRecord`, `CountTotals`) HTTP requests write the same
rows. Totals are in the user's row, in the peer and in the battle's copy of the user
from before it. `owed` are the users whose result was recorded while their totals were
not yet, or were written over at a login with the battle's older copy; the client is
asked again at that login, and until it answers the totals are behind. `walk` is somebody
who reads a ranking page by page.

### BattleInfo (proofs in LobbyProofs)
Extends `Lobby` with platform infos, registrations of proxies and what a battle copies
of both. `Handler` runs a step of `Lobby` and then copies or forgets. The answers to a
player are no steps but functions of the state (`Answers`, `BattleInfoNotice`,
`GetBattleInfo`), and the properties compare them between players and over time.

## 4. Runs

| Run | What it shows | Bounds |
|---|---|---|
| `battle_link` | no hole, nothing dropped undelivered, in order and once (`LinkSound`); refinement of FIFO channels (`ChannelSpec`), in both directions | 1 message up, 3 down, numbers from 3, ring 3, window 2, 2 packets each way |
| `battle_link_live` | everything arrives | 1 up, 2 down, ring 2, window 1, no duplication |
| `relay` | address book, membership, paths, and that sessions end | 2 ids, 3 tokens, 3 addresses of 2 families, 2 slots, 2 sessions ever, timeouts of one tick |
| `battle_server` | slots and reuse of rooms (`RoomsSound`), streams, rooms of different battles | 3 battles in 2 rooms, 3 connections, one player who may come twice, 2 messages each |
| `lobby_room_battles` | both copies of every list (`ListsAgree`), what is shown (`RoomsShown`), one common battle, chat | 2 players, lobby 1, 1 room of 1 or 2 players, 2 battles |
| `spectator` | counters, whole streams, who is dropped, that everybody is let go | a header and 1 piece of a battle, 3 requests of which 2 may watch, a stall of 3 rounds, read deadline of 2, one full socket a round |
| `relay_control` | who is offered (`RelaysKnown`, `KeptUntilEnd`), tokens (`TokensReach`), idle relays stop | 1 relay in 1 region, 2 players of different groups, 1 battle, a queue of 1, 2 connections, 2 tokens |
| `sign_in` | single use, limits, one client let in | 2 requests at a time, 1 flow, 2 users, limits of 1, 2 accounts, 2 logins, 2 carry codes |
| `battle_route` | what a console hears (`HeardRight`), that the server suffices, ends of battles | 2 players, window 1, 4 reads; scanner: joins of 2 bytes, all streams of 5 bytes from {0, 1, 4, 5, 240} in all cuts |
| `lobby_conn` | no lost wake-up, gone clients are forgotten | 1 connection, header of 2 and messages of 3 bytes, 6 bytes, an event channel of 1 |
| `records` | totals, rankings, updates, replays | 1 player of 2 battles and 2 others in the ranking, a page of 2, 2 uploads, 1 play |
| `battle_info` | fair battles, equal answers, at any time, and the proxy's battle | 3 emulators with 2 fingerprints, lobby 2, 1 battle, 2 regional relays |

Bounds that only cut the search: `MaxPushed`, `MaxInFlight` (BattleLink),
`MaxSessions` (Relay), `MaxMessages` and the number of battles (BattleServer),
`MaxBattles` (Lobby), `MaxOpened` and the number of requests (Spectator), `MaxConns`,
`MaxTokens` (RelayControl), `MaxAccounts`, `MaxLogins`, `MaxCodes` (SignIn), `MaxData`
(BattleRoute), `MaxBytes` (FinScanner, LobbyConn), `MaxPlays` (Records).
`RingSize`, `Window`, `MaxPeers`, `MaxRoom`, `QueueLen`, `MaxEvents`, `PageSize`, the
limits of `Spectator` and `SignIn` and the timeouts are the code's constants made small.
Why they are enough:

- *Links.* With 3 messages in a ring of 3 and a window of 2, the window straddles
  the end of the ring; two packets under way suffice for one
  to overtake another and for an acknowledgement to move back.
- *Relay.* The longest interaction takes two sessions and three addresses: an
  address moves between slots of two sessions while its old slot has another
  address of the family. The third token lets a session be replaced under its id.
- *Battle server.* Three battles go once around two rooms, so the third meets
  what the first left behind. Three connections are the least with a member
  between two others in a room; two messages make a gap visible.
- *Lobby.* Two players are the least battle, and a room of one player lets one be
  full while another is in the lobby. Two battles let a second start meet what the
  first left. A third player, left over in a battle or of another fingerprint, is in
  `battle_info`. Lobbies above 3, where two a side are needed, take four players and
  five for one left over; their rule is in the model (`LobbyCanStart`) but no run
  starts a battle in them.
- *Spectators.* Two at once share a round and its time, the third is refused, or
  comes when one has gone; between header and piece a spectator is in the middle of a
  stream that ends. Battles do not interact except through the total.
- *Relay control.* Two connections are the least with a late end of an old one; a
  queue of one overflows at the second token; one relay suffices, as relays share
  nothing but the decision that any is needed.
- *Sign-in.* Every check and use is of one flow, code, user or account; two requests
  are the least that interleave, and with limits of one two are the first too many.
- *Route.* Four messages go past the join, past the window and once more, so that a
  direct path that stops leaves one behind. The scanner's bytes have an end frame, one
  inside another frame, and sizes 0, 1 and 5 around it.
- *Connection.* Connections share the event loop only; `Locked` posts to its channel as
  others would. Two messages are the least of which a wake-up could be lost.
- *Records.* Totals are of one user; the ranking's third user is on a second page.
- *Battle info.* Two relays are the least that can be offered in two orders, and the
  third player is the one whose information would change the order.

All safety properties are also proved without bounds (section 6); their runs guard against
a specification that is not what was meant, as each property has a mutant that breaks it.

Connections that differ only in name are symmetric in the lobby's safety runs (a
connection is renamed together with its user), and so are the two sides there: what the
lobby asks of one side it asks of the other, and no side comes first. So are requests and
users in `sign_in` and uploads in `records`. No run with a liveness property has symmetry.

`CHECK_DEADLOCK FALSE` stands in every run because the bounds stop each model:
once everything allowed has been pushed, made or announced, nothing is left to do.

## 5. Fairness

- `BattleLink!FairSpec`: a 16 ms ticker flushes at both ends, and the reading
  goroutine goes on, hence weak fairness of `Flush` and `Filter`. Strong fairness
  of `Receive` says that of packets sent again and again some arrive. Nothing
  obliges a player to push. The liveness run has no duplication (`MayStay`): a
  network that delivers one old packet for ever may satisfy this fairness.
- `Relay!FairSpec`: the clock and the 10 s maintenance ticker. No fairness of
  pings or packets: sessions end whatever players do.
- `Spectator!FairSpec`: Run's goroutine goes on, a request sends to Run's channel when
  there is room, and read deadlines pass. Nothing obliges an uplink to send or end,
  nor a spectator to read.

- `RelayControl!FairSpec`: the lobby's ticker comes between questions of players (strong
  fairness of `UpdateRelays`, which is disabled while a question is answered), relays
  send statuses and read, connections are served, and one whose relay is silent or gone
  ends by its read deadline. Nothing obliges a relay to dial, nor the command that
  starts relays to succeed.
- `BattleRoute!FairSpec`: the server takes what its paths present, and each of its paths
  presents the next message in the end, which `EverythingArrives` shows of a link.
  Nothing is asked of direct paths.
- `LobbyConn!FairSpec`: goroutines that can go on do; strong fairness where they wait for
  a lock or a place in the channel (Go's mutexes and channels do not starve a waiter),
  and of the event loop, whose `select` chooses among channel and ticker at random. No
  fairness of clients: one may be gone without a word, and only the silence ends it.

## 6. What is proved

Each theorem below is about every value of the constants that its module's assumptions
allow. All but the scanner's, which are about a function, rest on one inductive invariant
of their module (`IInv`): it holds at first, every step keeps it, and it implies the
properties. The assumptions say only what kind of thing a constant is, except where this
section says more.

`BattleLinkProofs` proves `LinkIsSound` (`LinkSound`) and `LinkIsChannel`, that a link
implements `ChannelSpec`, for all authors, first numbers, rings and windows smaller than
the ring. `RingHasRoom` stays what it is in the model, a guard on pushing (section 3).
`LinkSound` alone is not inductive: that a packet leaves no hole at its receiver holds
because what an end counts as acknowledged has arrived (`AcksAreDelivered`), though counts
move backwards with late packets; because the ring still holds what may be sent again
(`RingKeeps`, `RoomLeft`); and because packets, in the net and in hand, carry a stretch of
what was pushed (`PacketsCarry`, `HandsCarry`). That the filter takes the next message and
no other needs that authors number without gaps (`Numbered`) and that it knows the last
number of each (`FilterKnows`). For the refinement every step either puts a message into a
channel, takes the next one out, or changes neither.

`BattleServerProofs` proves `RoomsAreSound`, `StreamsAreUnbroken` and `BattlesStayApart`
for all numbers of peers, sessions, battles and rooms. A peer that joined between the two
locks of another's leaving may lose its slot to the clearing (section 7), and goes on in
the room without one, unable to hear but heard by others. Hence a stream is followed by
whether the hearer has its slot: nobody has heard or been heard before it joins
(`Unheard`), and a stream that began goes on while the sender is joined and the hearer has
its slot, which is then in the sender's room and at another position (`StreamsGoOn`).
`RoomsInTurn` says that the room of a battle follows from its number.

Its next part, `PlayersHearInOrder` (`HeardRight`), is about `BattleRoute`, for all players,
windows and numbers of reads. It assumes nothing of the two paths but that a message has a
number above zero: whichever of them presents which message, the filter stands at what the
PS2 was written last (`FilterAtLast`), and zero, where it takes anything, means that nothing
was. So order does not rest on what `BattleLink` guarantees of a path; that something is
heard does (`ServerSuffices`).

Its last part is about `FinScanner`: `ScannerIsRight` (`FinsFound`), hence `EndsAreFound`
(`EndIsFound`), for joins and streams of any length, any bytes and any cuts. After any
number of bytes the scanner either stands where a frame begins in the whole stream, holds
what came of that frame, and no frame began since, or the stream had a frame of size zero
(`Follows`); a byte keeps this (`ByteStep`), and so does a read (`ReadStep`). It needs that
frames do not overlap and none begins behind one of size zero (`NoOverlap`): so the scanner
finds an end frame where the stream has one, and none after framing is lost. Bytes, frames
and reads are counted by a least counterexample each, and the fold, the reference and the
row of scanners are first shown to be functions that satisfy their own recursion
(`FoldDefined`, `BeginsDefined`, `ScannedDefined`).

`LobbyProofs` proves `ListsAlwaysAgree`, `RoomsAlwaysShown`, `BattlesStayTheSame`,
`BattlesAreFair` and `ChatStaysMutual`, all from `InvariantHolds`, for all connections,
users, lobbies (those of two a side, in which no run starts a battle, included), rooms and
battles. Besides the kinds of the constants it assumes `OneConnectionEach`. That the lists
agree needs that `App.users` names the open connections (`LoggedIn`), that who is in a room
is in a lobby and listed there (`Placed`), and that whoever prepares a room was told of no
battle (`Preparing`). That a start takes nobody out of another battle needs
`EntriesEngaged`, entries are of those whose clients asked for them, and `NotPickedAgain`:
a client that was told of a battle has no entry outside a room, and in a room the owner,
who alone can start again, was told as well or has been put out. `RoomsShown` is inductive
with the lists. Every handler is first shown to be one of eleven kinds of steps (logging
in, entering, leaving, making and filling a room, starting a battle, ...), with what
such a step does to whom; each part of the invariant is then kept by each kind. That
battles are fair is about lists only: `StartBattleUsers` and the choice of two a side
return part of a list, in its order, with no more of a side than allowed, which is proved
by counting positions rather than by an induction over lists.

`LobbyProofs` goes on with `BattleInfo`. `InfoRefinesLobby` shows that
`InfoSpec` implements the lobby's `Spec`, hence has all of the above, and
`AnswersAlwaysAgree` (`AnswersAgree`), `ProxiesFindBattles` (`ProxyFindsBattle`) and
`AnswersAlwaysStay` (the action property `AnswersStay`) rest on `InfoInvariantHolds`, for
all relays, platform infos and proxies. `BattleInfoAssumption` says that a client with GGPO
runs the bridge, which is so of the emulators and which the code checks nowhere: without
it the nearest player, who gets no battle info then, might not be told to stream, and only
that somebody is told needs it. The invariant adds to the lobby's that whoever asks still
has the platform info that its battle copied, and a proxy if the battle counts on one (`AskersCopied`): it
comes to ask by the start that copies them, another info is not taken while it is in a
lobby or a battle, and no later start puts another battle in place. So all who ask are
answered from the same copies and work out the same uplink and the same worst times
(`AnsweredAlike`), whatever is offered just then. That relays can be put in order at all is
an induction on their number, done with a least counterexample (`OrderedExists`). Whoever
goes to a battle was told of it, so it is whole (`WentWhole`). `AnswersAlwaysStay` is
proved for proxies of different addresses (`ProxiesApart`), as is so in the run: a user
behind the address of two proxies may be sent to either (section 7).

The end of `LobbyProofs` proves `NoWakeUpIsLost` (`BuffersServed`) of `LobbyConn`, for all
connections, sizes of messages and capacities of the loop's channel. `NoLostWakeUp` is
inductive once two things are added. What a read returned is put into inbuf once
(`ReadOnce`), so that inbuf has its bound; and what the channel holds is a function or an
event of some connection (`LoopTypes`), so that the loop answers nobody else. A dispatcher
goes back to waiting with less than a header, and a message is never shorter than its header
(`ConnAssumption`). That one which stops with the lock strands no message comes of two
guards: it stops only short of a whole one, and readLoop can then add nothing.

`SpectatorProofs` proves `CountsAreRight` (`CountsRight`), `StreamIsWhole` (`WholeStream`)
and the action property `UpToDateAreKept` (`UpToDateStay`), for all numbers of battles and
spectators and all limits. `SpectatorAssumption` has one condition of substance: the
read deadline of an upload is shorter than the stall of a spectator (10 s and 30 s in the
code). A spectator is in one place, although Run's list is out of date during a round
(`OnePlace`, `RequestsFit`), so nobody is counted out twice; views that a round took
earlier never say that an upload is over which still grows (`ViewsFit`, `FinishedFit`); and a
spectator with nothing left to get has been idle no longer than its upload has been silent
(`IdleAsSilent`, `IdleInRound`).

`RelayProofs` proves, for all sets of ids, tokens and addresses, any number of
slots and sessions and any timeouts (from `RelayAssumption` only):

- `TypesHold`, `BindingsMatch`, `ActiveHeld`, `MembersOnly`: the type invariant and
  the three safety invariants of `Relay`;
- `PathKeptAlways`: the action property `PlayingPathKept`.

All rest on `InductiveInvariant`, `Spec => []IInv`. The invariants alone are not
inductive. That a rebinding leaves no binding behind depends on slots keeping an
address under its own family (`FamiliesAgree`): otherwise the old address found
under the new one's family would not be the one unbound. That a removal sweeps the
right bindings depends on sessions being registered under their own id
(`IdsAgree`), so that no session is registered twice, and on bindings naming
registered sessions only (`BoundToRegistered`). That two members pinged with one
token depends on every held address having shown its session's token
(`ShownAgree`). There is one lemma per action; the long ones first state the
action's effect slot by slot and address by address (`PingEffect`, `GgpoEffect`,
`Removal`) and then prove the conjuncts one by one.

`SignInProofs` proves all that is stated of `SignIn`, from `SignInAssumption` only, for
all numbers of requests, flows, users and accounts and all limits: `ServeOnce`
(`SingleUse`, the type invariant included), `LimitsHold` (`LimitsKept`) and `OneClient`
(`OneLetIn`). The argument is again one invariant. A request that is under way relies on
what it read before other requests went on: `RequestsPrepared` says what, and that it
stays so (accounts are never deleted, and codes and logins only grow in number).
`FlowsApart` says that a flow is in one place, pending, with one request, in one code or
done, so that neither the provider's answer nor a code can be used by two requests.
`CarriedGone` says that a carry-over code that a request carries is not there to take
any more. `SessionsApart` says that a session id belongs to one login, answered or under
way. `OneClient` follows from that alone: the lobby compares the session id of the
account, which the last login has set, so the temporary key is not what keeps a second
client out. For the limits a link is appended in the step that counts, and
`LinkAdded` relates the two counts.

`RelayControlProofs` proves `RelaysAreKnown` (`RelaysKnown`), `TokensWillReach`
(`TokensReach`) and the action property `KeptUntilTheEnd` (`KeptUntilEnd`), for any number
of relays and regions, any queue and any timeouts. `ControlAssumption` has two conditions
beyond kinds: the sessions are finitely many, and none is numbered 0, which stands for a
shutdown in the queue. That a token reaches its relay relates three
places: the lobby's table for a connection, the queue of that connection, and the table of
the relay that reads it. It is inductive with two facts about who points where: a relay
reads a connection of its own (`DialsOwn`), so that no step of another relay's connection
changes what it will hold, and a relay is known by a connection that was made
(`KnownByConn`), which is served and was registered. `KeptUntilTheEnd` is the code's
comparison of pointers in `UnregisterRelayIf`, together with the invariant.

`RecordsProofs` proves `TotalsAreRight` (`TotalsRight`), `PagesAreRight`
(`RankingPagesRight`), `OneReplayIsTaken` (`OneReplay`) and the action property
`UpdatesAreKept` (`UpdatesKept`), for any finite sets of users and battles, any results,
uploads and size of a page. `RecordsAssumption` says besides that `None` is no row, total,
peer or ranking. Totals are right because a user comes back only from battles that have its
row and its copy (`PlayersFought`), has no rows before it is registered (`NewUsers`), and
because whoever has a result recorded owes totals until they are written (`LoopFits`); a
row that is new or counted as played changes no total, as a total depends on nothing but
the results in the rows (`TotalsSame`). Pages are right because no ranking is cached between
a result and its totals (`LoopFits`), a cached ranking holds registered users, each once
(`CacheFits`), and whoever reads on has read it up to its page (`WalkFits`). A sum over
battles is a recursion over a set; that it is a number, and 0 for zeros, is an induction on
the size of the set, done with a least counterexample (`LeastOf`, from `WFMin`).

Only model-checked, as out of the prover's reach, is liveness: `EverythingArrives`,
`SessionsEnd`, `WatchersEnd`, `RelaysStop`, `ServerSuffices` and `GoneIsForgotten`.

## 7. What was found

None of these breaks a property that a run checks; each is how the code behaves where
the model stops or is careful.

- relay.go:139 says every player of a battle gets the same token. A session that was
  dropped after 2 idle minutes, or after 3 hours, gets a new token at the next request,
  and players who asked before keep the old one.
- room.go:15 says that a peer's index is its position. Between the two locks of
  `Leave` a peer may join, and `Clear` then wipes it out; it is in the room and has no
  slot. What does hold is that nobody gets a slot of another (`RoomsSound`).
- Two connections that present one session id at once can end the battle server's
  process (`ClearBattleInfo` in `BattleServer`).
- A user who logs in on a second connection while the first is still open can
  leave things behind: `OnClose` of the first deletes the user's entry although it names
  the second; the lobby looks up members of a room by user id, so when the owner
  of the first connection's room leaves, the second connection is put out of a
  room it was not in; and `Lobby.Exit` keeps the entry of a user that is no longer
  listed. `Lobby` is therefore stated for users with one connection.
- A message may be handled after the close of its connection: the dispatcher may choose
  its channel when both it and the context are ready (server.go:189), and a user that
  such a message logs in is in `App.users` with no connection. `LobbyConn` has this
  behaviour (`loggedIn`, beside `peers`); no property excludes it.
- Who leaves the room after a battle by jumping to the top page keeps
  `inBattleAfterRoom`; its chat then reaches nobody but itself (`ChatIsMutual` leaves it out).
- When an entered member leaves a room, others are sent its new state and user count, but
  not the number of entries.
- A spectator that reads all it is sent may still be dropped as stalled: a round has
  time for about 33 full sockets, the next begins one spectator further on, and 90
  rounds without being served are a stall, while 512 may watch a battle. What does hold
  is that a spectator with nothing left to get is not dropped (`UpToDateStay`).
- A carry-over code is used up although linking fails after it, because the account is
  linked already or the limit is reached.
- zproxy reports whom it reaches by address (`src/zproxy/main.go`), the lobby looks the
  report up by user id (app_core.go:403): the P2P map of a battle is always empty. It is
  logged and handed on, but nothing reads it, so `BattleInfo` leaves it out.
- A zproxy that registers with `_AUTO_` is taken for any user with its public address;
  behind one NAT that may be another player's (`RegisterProxy`), in place of the player's
  own, and a player that asks again is then sent elsewhere.
- RPC Status (app_rpc.go:193) takes a battle as shown once the session of one of its users
  was in another, and so may leave one out.

## 8. Not modelled

Formatting and parsing of messages but for what a handler does with their content; news
and fixed screens; rules of a room but the player count; a second connection of a user that
is logged in, to the lobby; lobby battles of two a side; the
battle server's timeouts as clocks (a peer may leave at any time) and the framing of TCP;
the pages and the identity provider of the sign-in; the console, STUN and UPnP of zproxy;
anything that only reads. Whole components and the reasons are in `PROJECT.json`: the packet
router rewrites single packets, DNAS replays recorded ones, chat notices go to outside
services, bots and benchmarks are tools, and `zdxsv.pb.go` and `assets.go` are generated.
