---------------------------- MODULE RelayControl ----------------------------
(***************************************************************************)
(* Regional relays: how the lobby learns of them, tells them the tokens of *)
(* battles, starts them and shuts them down (pkg/lobby/relay_control.go,   *)
(* relay_regions.go, relay_provision.go).  What a relay does with players  *)
(* is module Relay; here it is a table of session tokens.                  *)
(*                                                                         *)
(* At the lobby the event loop, a goroutine per connection that reads      *)
(* statuses and one that writes controls meet in regionalRelays and in the *)
(* token table of a connection; each of their locked regions is an action. *)
(* A connection ends at its two ends at different times, and a relay may   *)
(* be on its next one while the lobby still reads what it sent on the      *)
(* last.  A RegionalRelay names the connection that made it.               *)
(***************************************************************************)
EXTENDS Naturals, FiniteSets, SequencesExt

CONSTANTS
  Relays,        \* the public addresses of relays
  Regions,
  RegionOf,      \* [Relays -> Regions]
  Ids,           \* session ids of battles
  Crowds,        \* the sets of players that may be online at a time
  GroupOf,       \* the region group of each player
  MinUsers,      \* relayMinUsers (4)
  QueueLen,      \* relayControlQueueLen (256)
  IdleShutdown,  \* relayIdleShutdown, in rounds of updateRelays
  StartRetry,    \* relayStartRetry, in rounds of updateRelays
  MaxConns,      \* bound: control connections ever made
  MaxTokens      \* bound: tokens ever drawn

ASSUME ControlAssumption ==
  /\ RegionOf \in [Relays -> Regions]
  /\ IsFiniteSet(Ids) /\ 0 \notin Ids
  /\ {MinUsers, QueueLen, IdleShutdown, StartRetry, MaxConns, MaxTokens} \subseteq Nat

VARIABLES
  up,          \* the relays that run
  table,       \* table[r]: the token of each session of relay r, 0 for none
  dialed,      \* dialed[r]: the connection relay r reads, or 0
  conns,       \* every control connection made, in order
  byAddr,      \* regionalRelays.byAddr: a RegionalRelay, or NoRelay
  asking,      \* the battle whose relays the event loop tells a player of
  sinceNeeded, \* by region: rounds since lastNeeded, or Never
  sinceStart,  \* by region: rounds since lastStart
  starting,    \* the regions whose start command runs
  online,      \* the players in App.users that know relays
  drawn        \* how many tokens were drawn; they are numbered

relayVars == <<up, table, dialed>>
lobbyVars == <<byAddr, asking, sinceNeeded, sinceStart, online, drawn>>
vars == <<relayVars, lobbyVars, conns, starting>>

Never == IdleShutdown + 1
Nobody == [id |-> 0, todo |-> {}]
Shutdown == [id |-> 0, token |-> 0]
NoTokens == [id \in Ids |-> 0]

NoRelay == [conn |-> 0, active |-> 0, canStop |-> FALSE]

(* out, statuses: what is queued or under way in the two directions.       *)
(* held: the session count of the status that is worked on.  lost: the     *)
(* sessions that did not fit the queue, with 0 for a shutdown.             *)
NewConn(r) ==
  [relay |-> r, served |-> TRUE, registered |-> FALSE, tokens |-> NoTokens,
   out |-> <<>>, statuses |-> <<>>, held |-> <<>>, lost |-> {}]

Init ==
  /\ up \in SUBSET Relays
  /\ table = [r \in Relays |-> NoTokens]
  /\ dialed = [r \in Relays |-> 0]
  /\ conns = <<>>
  /\ byAddr = [r \in Relays |-> NoRelay]
  /\ asking = Nobody
  /\ sinceNeeded = [g \in Regions |-> Never]
  /\ sinceStart = [g \in Regions |-> StartRetry]
  /\ starting = {}
  /\ online = {}
  /\ drawn = 0

Offered == {r \in Relays : byAddr[r] # NoRelay}

Pushed(conn, ctl) ==
  CASE ~ conn.served -> conn
    [] conn.served /\ Len(conn.out) < QueueLen -> [conn EXCEPT !.out = Append(@, ctl)]
    [] OTHER -> [conn EXCEPT !.lost = @ \cup {ctl.id}]

(* A connection that ended at the lobby: its tokens are still there for    *)
(* who took it from byAddr before, and the relay may read what was written *)
(* already; and one that ended at the relay.                               *)
Ended(conn, written) ==
  [NewConn(conn.relay) EXCEPT !.served = FALSE, !.tokens = conn.tokens,
                              !.out = SubSeq(conn.out, 1, written)]
Unread(r) ==
  [c \in DOMAIN conns |-> IF c = dialed[r] /\ ~ conns[c].served
                          THEN [conns[c] EXCEPT !.out = <<>>] ELSE conns[c]]

-----------------------------------------------------------------------------
(* A player asks for its battle: relayServers takes the relays under the   *)
(* lock and then a token of each without it.                               *)
Ask(id) ==
  /\ asking = Nobody
  /\ Offered # {}
  /\ asking' = [id |-> id, todo |-> {byAddr[r].conn : r \in Offered}]
  /\ UNCHANGED <<relayVars, conns, byAddr, sinceNeeded, sinceStart, online,
                 drawn, starting>>

(* remoteRelaySessions.SessionToken; some of the other tokens may be past  *)
(* relayMaxLifetime.                                                       *)
SessionToken(c) ==
  LET id   == asking.id
      conn == conns[c]
  IN  /\ c \in asking.todo
      /\ asking' = IF asking.todo = {c} THEN Nobody
                   ELSE [asking EXCEPT !.todo = @ \ {c}]
      /\ \/ conn.tokens[id] # 0 /\ UNCHANGED <<conns, drawn>>
         \/ /\ conn.tokens[id] = 0 /\ drawn < MaxTokens
            /\ drawn' = drawn + 1
            /\ \E old \in SUBSET (Ids \ {id}) :
                 conns' = [conns EXCEPT ![c] = Pushed(
                   [conn EXCEPT !.tokens = [k \in Ids |->
                      IF k = id THEN drawn + 1 ELSE IF k \in old THEN 0 ELSE @[k]],
                      !.lost = @ \ {id}],
                   [id |-> id, token |-> drawn + 1])]
      /\ UNCHANGED <<relayVars, byAddr, sinceNeeded, sinceStart, online, starting>>

(* Players come and go. *)
Login(crowd) ==
  /\ asking = Nobody
  /\ online' = crowd
  /\ UNCHANGED <<relayVars, conns, byAddr, asking, sinceNeeded, sinceStart,
                 drawn, starting>>

RelayNeeded ==
  /\ Cardinality(online) >= MinUsers
  /\ Cardinality({GroupOf[p] : p \in online}) > 1

Aged(rounds, most) == IF rounds < most THEN rounds + 1 ELSE rounds

(* Mutant of LastNeeded: a relay that is there when the lobby starts gets  *)
(* no time to begin from.                                                  *)
LastNeededOnly(running) ==
  [g \in Regions |-> IF RelayNeeded THEN 0 ELSE Aged(sinceNeeded[g], IdleShutdown)]

LastNeeded(running) ==
  [g \in Regions |-> IF RelayNeeded \/ (sinceNeeded[g] = Never /\ g \in running) THEN 0
                     ELSE Aged(sinceNeeded[g], IdleShutdown)]

(* updateRelays: start a relay where one is needed, and shut down those    *)
(* that are not and whose last status said that they have no sessions.     *)
UpdateRelays ==
  LET running == {RegionOf[r] : r \in Offered}
      needed  == LastNeeded(running)
      since   == [g \in Regions |-> Aged(sinceStart[g], StartRetry)]
      starts  == {g \in Regions \ running : RelayNeeded /\ since[g] = StartRetry}
      stops   == {r \in Offered : /\ needed[RegionOf[r]] = IdleShutdown
                                  /\ byAddr[r].active = 0 /\ byAddr[r].canStop}
  IN  /\ asking = Nobody
      /\ sinceNeeded' = needed
      /\ sinceStart' = [g \in Regions |-> IF g \in starts THEN 0 ELSE since[g]]
      /\ starting' = starting \cup starts
      /\ conns' = [c \in DOMAIN conns |->
                     IF \E r \in stops : byAddr[r].conn = c
                     THEN Pushed(conns[c], Shutdown) ELSE conns[c]]
      /\ byAddr' = [r \in Relays |->
                     [byAddr[r] EXCEPT !.canStop = @ /\ r \notin stops]]
      /\ UNCHANGED <<relayVars, asking, online, drawn>>

-----------------------------------------------------------------------------
(* The command that StartRelay runs may start a relay of the region or not. *)
StartRelay(g) ==
  /\ g \in starting
  /\ starting' = starting \ {g}
  /\ \/ UNCHANGED up
     \/ \E r \in Relays \ up : RegionOf[r] = g /\ up' = up \cup {r}
  /\ UNCHANGED <<table, dialed, conns, lobbyVars>>

(* RunRegionalRelay and controlSession: a relay keeps a connection. *)
Dial(r) ==
  /\ r \in up /\ dialed[r] = 0 /\ Len(conns) < MaxConns
  /\ conns' = Append(conns, NewConn(r))
  /\ dialed' = [dialed EXCEPT ![r] = Len(conns) + 1]
  /\ UNCHANGED <<up, table, lobbyVars, starting>>
HangUp(r) ==
  /\ dialed[r] # 0
  /\ dialed' = [dialed EXCEPT ![r] = 0]
  /\ conns' = Unread(r)
  /\ UNCHANGED <<up, table, lobbyVars, starting>>
SendStatus(r) ==
  LET c == dialed[r]
  IN  /\ c # 0
      /\ conns[c].served /\ conns[c].statuses = <<>>
      /\ conns' = [conns EXCEPT ![c].statuses =
                     <<Cardinality({id \in Ids : table[r][id] # 0})>>]
      /\ UNCHANGED <<relayVars, lobbyVars, starting>>

(* The relay's process ends, by itself or as the lobby asked it to. *)
Stops(r) ==
  /\ up' = up \ {r}
  /\ table' = [table EXCEPT ![r] = NoTokens]
  /\ dialed' = [dialed EXCEPT ![r] = 0]
Crash(r) ==
  /\ r \in up /\ Stops(r)
  /\ conns' = Unread(r)
  /\ UNCHANGED <<lobbyVars, starting>>

(* Mutant of SetSessionToken: a session that is known is left alone. *)
SetUnknownToken(tokens, ctl) ==
  [tokens EXCEPT ![ctl.id] = IF @ = 0 THEN ctl.token ELSE @]

(* A session that has another token is replaced. *)
SetSessionToken(tokens, ctl) == [tokens EXCEPT ![ctl.id] = ctl.token]
Receive(r) ==
  LET c   == dialed[r]
      ctl == Head(conns[c].out)
  IN  /\ c # 0
      /\ conns[c].out # <<>>
      /\ conns' = [conns EXCEPT ![c].out = Tail(@)]
      /\ IF ctl = Shutdown THEN Stops(r)
         ELSE /\ table' = [table EXCEPT ![r] = SetSessionToken(@, ctl)]
              /\ UNCHANGED <<up, dialed>>
      /\ UNCHANGED <<lobbyVars, starting>>

(* RemoveStaleSessions: one that is idle or too old. *)
RemoveStaleSession(r, id) ==
  /\ table[r][id] # 0
  /\ table' = [table EXCEPT ![r][id] = 0]
  /\ UNCHANGED <<up, dialed, conns, lobbyVars, starting>>

-----------------------------------------------------------------------------
(* serveRelayControlConn: the first status registers the relay, in place   *)
(* of an earlier connection of its address; then, under the lock again,    *)
(* each sets its session count.                                            *)
ReadStatus(c) ==
  LET conn == conns[c]
  IN  /\ conn.served /\ conn.held = <<>> /\ conn.statuses # <<>>
      /\ conns' = [conns EXCEPT ![c].held = conn.statuses, ![c].statuses = <<>>,
                                ![c].registered = TRUE]
      /\ byAddr' = IF conn.registered THEN byAddr
                   ELSE [byAddr EXCEPT ![conn.relay] =
                           [conn |-> c, active |-> 0, canStop |-> TRUE]]
      /\ UNCHANGED <<relayVars, asking, sinceNeeded, sinceStart, online, drawn, starting>>
SetActive(c) ==
  LET conn == conns[c]
  IN  /\ conn.held # <<>>
      /\ conns' = [conns EXCEPT ![c].held = <<>>]
      /\ byAddr' = [byAddr EXCEPT ![conn.relay].active =
                      IF byAddr[conn.relay].conn = c THEN Head(conn.held) ELSE @]
      /\ UNCHANGED <<relayVars, asking, sinceNeeded, sinceStart, online, drawn, starting>>

(* Mutants of UnregisterRelayIf: whoever is registered under the address   *)
(* goes; nobody does.                                                      *)
UnregisterRelay(c) == [byAddr EXCEPT ![conns[c].relay] = NoRelay]

UnregisterNobody(c) == byAddr

UnregisterRelayIf(c) ==
  [byAddr EXCEPT ![conns[c].relay] = IF @.conn = c THEN NoRelay ELSE @]

(* The connection fails at the lobby, or no status came in time. *)
End(c) ==
  /\ conns[c].served /\ conns[c].held = <<>>
  /\ \E written \in 0 .. Len(conns[c].out) :
       conns' = [conns EXCEPT ![c] = IF dialed[@.relay] = c THEN Ended(@, written)
                                     ELSE Ended(@, 0)]
  /\ byAddr' = IF conns[c].registered THEN UnregisterRelayIf(c) ELSE byAddr
  /\ UNCHANGED <<relayVars, asking, sinceNeeded, sinceStart, online, drawn, starting>>

(* The lobby is started anew. *)
Restart ==
  /\ conns' = [c \in DOMAIN conns |-> Ended(conns[c], 0)]
  /\ byAddr' = [r \in Relays |-> NoRelay]
  /\ asking' = Nobody
  /\ sinceNeeded' = [g \in Regions |-> Never]
  /\ sinceStart' = [g \in Regions |-> StartRetry]
  /\ online' = {}
  /\ UNCHANGED <<relayVars, drawn, starting>>

-----------------------------------------------------------------------------
EventLoop ==
  \/ \E id \in Ids : Ask(id)
  \/ \E c \in asking.todo : SessionToken(c)
  \/ \E crowd \in Crowds : Login(crowd)
  \/ UpdateRelays
Relay(r) ==
  \/ Dial(r) \/ HangUp(r) \/ SendStatus(r) \/ Receive(r) \/ Crash(r)
  \/ \E id \in Ids : RemoveStaleSession(r, id)
Connection(c) == ReadStatus(c) \/ SetActive(c) \/ End(c)
Next ==
  \/ EventLoop \/ Restart
  \/ \E g \in Regions : StartRelay(g)
  \/ \E r \in Relays : Relay(r)
  \/ \E c \in DOMAIN conns : Connection(c)

Spec == Init /\ [][Next]_vars

(* Tickers drive updateRelays and the statuses; the goroutines of a        *)
(* connection go on, and the lobby's ends when no status comes any more.   *)
Orphan(c) == conns[c].statuses = <<>> /\ dialed[conns[c].relay] # c
Fairness ==
  /\ SF_vars(UpdateRelays) /\ WF_vars(\E c \in asking.todo : SessionToken(c))
  /\ \A r \in Relays : WF_vars(SendStatus(r)) /\ WF_vars(Receive(r))
  /\ \A c \in 1 .. MaxConns :
       /\ WF_vars(c \in DOMAIN conns /\ (ReadStatus(c) \/ SetActive(c)))
       /\ WF_vars(c \in DOMAIN conns /\ Orphan(c) /\ End(c))
FairSpec == Spec /\ Fairness

-----------------------------------------------------------------------------
(* A control that is sent to a relay, and a connection while that many     *)
(* tokens are drawn.                                                       *)
Counts == 0 .. Cardinality(Ids)
Controls(n) == [id : Ids, token : 1 .. n] \cup {Shutdown}
Connections(n) ==
  [relay : Relays, served : BOOLEAN, registered : BOOLEAN, tokens : [Ids -> 0 .. n],
   out : Seq(Controls(n)), statuses : {<<>>} \cup {<<k>> : k \in Counts},
   held : {<<>>} \cup {<<k>> : k \in Counts}, lost : SUBSET (Ids \cup {0})]

TypeOK ==
  /\ up \subseteq Relays /\ starting \subseteq Regions /\ online \in Crowds \cup {{}}
  /\ table \in [Relays -> [Ids -> 0 .. drawn]]
  /\ Len(conns) <= MaxConns /\ drawn \in 0 .. MaxTokens
  /\ conns \in Seq(Connections(drawn))
  /\ \A c \in DOMAIN conns : Len(conns[c].out) <= QueueLen
  /\ dialed \in [Relays -> 0 .. Len(conns)]
  /\ byAddr \in [Relays -> [conn : 0 .. Len(conns), active : Counts, canStop : BOOLEAN]]
  /\ sinceNeeded \in [Regions -> 0 .. Never]
  /\ sinceStart \in [Regions -> 0 .. StartRetry]
  /\ asking = Nobody \/ asking \in [id : Ids, todo : SUBSET DOMAIN conns]

(* Only a relay whose connection is served is offered, and that connection *)
(* is its own.                                                             *)
OfferedIsServed ==
  \A r \in Offered :
    LET conn == conns[byAddr[r].conn]
    IN  conn.served /\ conn.registered /\ conn.relay = r

(* What is known of relays is bounded and of relays that are served. *)
RelaysKnown == TypeOK /\ OfferedIsServed

(* A relay stops being offered only because the very connection it was     *)
(* offered by ends.                                                        *)
KeptUntilEnd ==
  [][\A r \in Relays :
       r \in Offered /\ r \notin Offered' => ~ conns'[byAddr[r].conn].served]_vars

(* What of a session's token is on its way to the relay: where in the      *)
(* queue, and the last of it.                                              *)
UnderWay(c, id) == {i \in DOMAIN conns[c].out : conns[c].out[i].id = id}
IsLast(i, places) == i \in places /\ \A j \in places : j <= i

(* What players were told last is what the relay that reads the connection *)
(* will hold while the connection lives at both ends, if the queue had     *)
(* room: nothing older comes after it.                                     *)
TokensReach ==
  \A r \in Relays, id \in Ids :
    LET c == dialed[r]
        way == UnderWay(c, id)
    IN  c # 0 /\ conns[c].served /\ conns[c].tokens[id] # 0 /\ id \notin conns[c].lost =>
          IF way = {} THEN table[r][id] \in {0, conns[c].tokens[id]}
          ELSE \A i \in way : IsLast(i, way) => conns[c].out[i].token = conns[c].tokens[id]

(* A relay that is offered, idle and not needed does not stay for ever,    *)
(* unless its shutdown did not fit the queue.                              *)
Lingers(r) ==
  /\ r \in up \cap Offered /\ ~ RelayNeeded
  /\ table[r] = NoTokens /\ 0 \notin conns[byAddr[r].conn].lost
RelaysStop == \A r \in Relays : []<>(~ Lingers(r))

=============================================================================
