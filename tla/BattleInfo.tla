----------------------------- MODULE BattleInfo -----------------------------
(***************************************************************************)
(* What the players of a battle are told of it (pkg/lobby/msg_battle.go,   *)
(* relay_regions.go, app_rpc.go).  After the notice that its battle starts *)
(* each game client asks, one question after the other and each in its own *)
(* time, how many fight, who they are, and where the battle is; with the   *)
(* last answer an emulator gets a battle info, a UDP proxy (zproxy) asks   *)
(* for its battle by RPC.  Each answer is worked out for the one who asks, *)
(* while other players have left the lobby already.  No answer depends on  *)
(* another, so none is a step here: what a player would be told is a       *)
(* function of the state, and the properties compare those of different    *)
(* players and of different times.                                         *)
(*                                                                         *)
(* The lobby's handlers are those of Lobby.tla; this module adds what they *)
(* keep for the answers: platform infos, registrations of proxies, and     *)
(* what a Battle copies of both when it is made.  All players are          *)
(* emulators of one platform.                                              *)
(***************************************************************************)
EXTENDS Lobby

CONSTANTS
  InfosOf,   \* [Conns -> platform infos its client may send]
  Proxied,   \* the connections whose player runs a zproxy
  IpOf,      \* [Conns -> public addresses]; several may be behind one NAT
  Relays,    \* regional relays that may register, numbered as their addresses sort
  OwnRelay,  \* the lobby's own relay
  MaxRelays  \* maxRelaysPerBattle

(* A platform info: its sync fingerprint; whether the emulator runs the bridge itself (udp); has *)
(* a GGPO port (ggpo); its time to the lobby in ms or Unknown (rtt); and   *)
(* whether it knows relays (relay), its time to each region or 0 (near).   *)
(* A GGPO client runs the bridge.                                          *)
Unknown == 1000
Unreachable == 100
PlatformInfos ==
  [sync : UNION {SyncsOf[p] : p \in Conns}, udp : BOOLEAN, ggpo : BOOLEAN, rtt : 0 .. Unknown, relay : BOOLEAN,
   near : [Relays -> 0 .. Unreachable]]
NoInfo == [sync |-> None, udp |-> FALSE, ggpo |-> FALSE, rtt |-> Unknown, relay |-> FALSE,
           near |-> [r \in Relays |-> 0]]

LeftInfo == [NoInfo EXCEPT !.relay = TRUE]

ASSUME BattleInfoAssumption ==
  /\ Relays \subseteq Nat /\ IsFiniteSet(Relays) /\ OwnRelay \notin Relays /\ MaxRelays \in Nat
  /\ Proxied \subseteq Conns /\ DOMAIN IpOf = Conns /\ DOMAIN InfosOf = Conns
  /\ \A p \in Conns : InfosOf[p] \subseteq PlatformInfos
  /\ \A p \in Conns : \A i \in InfosOf[p] : i.ggpo => i.udp

VARIABLES
  info,   \* info[p]: AppPeer.PlatformInfo
  proxy,  \* proxy[p]: AppPeer.proxy*: whose zproxy registered for it
  at      \* at[b]: UDPUsers and PlatformInfo of Battle made[b]

infoVars == <<info, proxy, at>>
allVars == <<vars, infoVars>>

InfoInit ==
  /\ Init
  /\ info = [p \in Conns |-> NoInfo]
  /\ proxy = [p \in Conns |-> None]
  /\ at = <<>>

-----------------------------------------------------------------------------
(* What startBattle copies: who has a proxy that registered in the last 20 *)
(* seconds, which is any of those that have, and everybody's platform info.*)
Snapshots(battle) ==
  LET us == ToSet(battle.users)
  IN  {[udpUsers |-> fresh, info |-> [u \in us |-> info[users[u]]]] :
         fresh \in SUBSET {u \in us : proxy[users[u]] # None}}

(* A handler of Lobby.tla, with what it does to the above: a Battle that   *)
(* is made takes its copies; a test battle needs a proxy that registered;  *)
(* a connection that ends takes its AppPeer with it.                       *)
Copies ==
  IF Len(made') = Len(made) THEN UNCHANGED at
  ELSE LET battle == made'[Len(made')]
       IN  \E snapshot \in Snapshots(battle) :
             /\ battle.lobby = 1 /\ battle.room = 0 => snapshot.udpUsers # {}
             /\ at' = Append(at, snapshot)
Kept(f, none) == [p \in Conns |-> IF conn'[p].state = "in" \/ conn[p].state # "in"
                                  THEN f[p] ELSE none]
Handler(A) ==
  /\ A /\ Copies
  /\ \A p \in Conns : conn[p].lobby = 0 /\ conn'[p].lobby # 0
                       => conn'[p].sync = info[p].sync
  /\ info' = Kept(info, LeftInfo) /\ proxy' = Kept(proxy, None)

(* An emulator sends its platform info before it logs in.  Bound: each     *)
(* connection logs in once.                                                *)
Login(p, i) ==
  /\ OnDecideUserID(p) /\ info[p] = NoInfo
  /\ info' = [info EXCEPT ![p] = i]
  /\ UNCHANGED <<proxy, at>>

(* Mutant of OnPlatformInfo: taken at any time. *)
OnPlatformInfoAnyTime(p, i) ==
  /\ conn[p].state = "in"
  /\ info' = [info EXCEPT ![p] = i]
  /\ UNCHANGED <<vars, proxy, at>>

(* It may send another one, which counts outside lobbies and battles.      *)
OnPlatformInfo(p, i) ==
  /\ conn[p].state = "in" /\ conn[p].lobby = 0 /\ conn[p].battle = 0
  /\ info' = [info EXCEPT ![p] = i]
  /\ UNCHANGED <<vars, proxy, at>>

(* registerProxy by the zproxy of player q, which asks for _AUTO_: a user  *)
(* with its address.                                                       *)
RegisterProxy(q, p) ==
  /\ users[UserOf[p]] = p /\ IpOf[p] = IpOf[q]
  /\ proxy' = [proxy EXCEPT ![p] = q]
  /\ UNCHANGED <<vars, info, at>>

InfoNext ==
  \/ Handler(\E p \in Conns : \/ conn[p].state = "in" /\ Requests(p)
                             \/ RoomRequests(p) \/ OnClose(p))
  \/ Handler(\E u \in Users : BattleTimeout(u))
  \/ \E p \in Conns : \E i \in InfosOf[p] : Login(p, i) \/ OnPlatformInfo(p, i)
  \/ \E q \in Proxied, p \in Conns : RegisterProxy(q, p)

InfoSpec == InfoInit /\ [][InfoNext]_allVars

-----------------------------------------------------------------------------
(* The answers to the player at p, whose battle is conn[p].battle.         *)
PlayersOf(p) == made[conn[p].battle].users
TestBattle(b) == made[b].lobby = 1 /\ made[b].room = 0
OnGetBattleUserPosition(p) == Min({i \in DOMAIN PlayersOf(p) : PlayersOf(p)[i] = UserOf[p]})
OnGetBattleServerAddress(p) ==
  IF UserOf[p] \in at[conn[p].battle].udpUsers THEN <<"proxy", proxy[p]>>
  ELSE <<"server">>

(* Mutant of InfoOf: the others' infos as they are now. *)
InfoNow(p, u) ==
  IF u = UserOf[p] THEN info[p] ELSE IF users[u] = None THEN NoInfo ELSE info[users[u]]

(* Whose infos p is answered from: its own, and what the battle copied.    *)
InfoOf(p, u) == IF u = UserOf[p] THEN info[p] ELSE at[conn[p].battle].info[u]

(* What takes less time comes first; of equals the one with the lower      *)
(* number.                                                                 *)
Before(rtts, i, j) == rtts[i] < rtts[j] \/ (rtts[i] = rtts[j] /\ i < j)
First(rtts) == CHOOSE i \in DOMAIN rtts : \A j \in DOMAIN rtts \ {i} : Before(rtts, i, j)
InOrder(rtts) ==
  CHOOSE list \in SetToSeqs(DOMAIN rtts) :
    \A i, j \in DOMAIN list : i < j => Before(rtts, list[i], list[j])

(* liveUplink: of the players with GGPO the nearest to the lobby, who      *)
(* streams the battle for spectators.                                      *)
Rtts(p) ==
  [i \in {i \in DOMAIN PlayersOf(p) : InfoOf(p, PlayersOf(p)[i]).ggpo} |->
     InfoOf(p, PlayersOf(p)[i]).rtt]
LiveUplink(p) ==
  IF DOMAIN Rtts(p) = {} THEN None ELSE PlayersOf(p)[First(Rtts(p))]

(* battleRelays: of the relays that are offered just now, first the one    *)
(* with the best worst pair; the lobby's own relay last.                   *)
WorstRtt(p, r) ==
  LET near(u) == InfoOf(p, u).near[r]
      via(u, v) == IF near(u) > 0 /\ near(v) > 0 THEN near(u) + near(v) ELSE Unreachable
  IN  Max({0} \cup {via(uv[1], uv[2]) : uv \in {uv \in ToSet(PlayersOf(p)) \X ToSet(PlayersOf(p)) :
                                                uv[1] # uv[2]}})
BattleRelays(p, offered) ==
  LET list == InOrder([r \in offered |-> WorstRtt(p, r)]) \o <<OwnRelay>>
  IN  SubSeq(list, 1, Min({Len(list), MaxRelays}))

(* relayServers: when every player knows relays. *)
RelayServers(p, offered) ==
  IF \E u \in ToSet(PlayersOf(p)) : ~ InfoOf(p, u).relay THEN <<>>
  ELSE BattleRelays(p, offered)
RelayOffers(p) == {RelayServers(p, offered) : offered \in SUBSET Relays}

(* battleInfoNotice, sent with the address to an emulator with a bridge:   *)
(* whom to reach directly, and for a GGPO battle whether to stream it and  *)
(* the relays.                                                             *)
Bridged(p) == ~ TestBattle(conn[p].battle) /\ info[p].udp
Candidates(p) == {u \in ToSet(PlayersOf(p)) \ {UserOf[p]} : InfoOf(p, u).udp}
GgpoPorts(p) == {u \in Candidates(p) : InfoOf(p, u).ggpo}
ToldUplink(p) == Bridged(p) /\ GgpoPorts(p) # {} /\ LiveUplink(p) = UserOf[p]
BattleInfoNotice(p, offered) ==
  [candidates |-> Candidates(p),
   ggpo   |-> GgpoPorts(p),
   uplink |-> ToldUplink(p),
   relays |-> IF GgpoPorts(p) = {} THEN <<>> ELSE RelayServers(p, offered)]

GetBattleServerAddress(p, offered) ==
  [address |-> OnGetBattleServerAddress(p),
   notice  |-> IF Bridged(p) THEN <<BattleInfoNotice(p, offered)>> ELSE <<>>]

(* All that p is told: how many play, who at which position and side, its  *)
(* own position, and where.                                                *)
Answers(p, offered) ==
  [users    |-> PlayersOf(p),
   sides    |-> made[conn[p].battle].sides,
   position |-> OnGetBattleUserPosition(p),
   where    |-> GetBattleServerAddress(p, offered)]

(* getBattleInfo, which a zproxy asks for when its player has arrived: the *)
(* battle that its session went to, if the player is one of its users.     *)
GetBattleInfo(u) ==
  IF battles[u] # 0 /\ u \in ToSet(made[battles[u]].users) THEN battles[u] ELSE 0

-----------------------------------------------------------------------------
(* Who asks for a battle: whoever was told that it starts and has not left *)
(* yet.                                                                    *)
Asking(p) == conn[p].state = "in" /\ client[p].notice # "no"

(* However long a player takes to ask, and whoever left or sent what in    *)
(* the meantime, it is told the same of its battle.  (Regional relays are  *)
(* left out: which are offered may change.)                                *)
AnswersStay ==
  [][\A p \in Conns :
       Asking(p) /\ Asking(p)' /\ conn'[p].battle = conn[p].battle =>
         Answers(p, {})' = Answers(p, {})]_allVars

(* Of the players of one battle at most one is told to stream it; as long  *)
(* as all are there and at least two have GGPO, one is.                    *)
OneUplink ==
  \A b \in DOMAIN made :
    LET here == {p \in Conns : Asking(p) /\ conn[p].battle = b}
        ups  == {p \in here : ToldUplink(p)}
        ggpo == {u \in ToSet(made[b].users) : at[b].info[u].ggpo}
    IN  /\ Cardinality(ups) <= 1
        /\ /\ made[b].whole /\ ~ TestBattle(b) /\ Cardinality(ggpo) >= 2
           /\ {UserOf[p] : p \in here} = ToSet(made[b].users)
           => ups # {}

(* No two players of a battle get two relays in opposite orders, whichever *)
(* relays are offered when each of them asks: relays come and go.          *)
RelayOrderAgrees ==
  \A p, q \in {p \in Conns : Asking(p)} :
    conn[p].battle = conn[q].battle =>
      \A s \in RelayOffers(p), t \in RelayOffers(q) :
        \A i, j \in DOMAIN s, k, l \in DOMAIN t :
          i < j /\ k < l => ~ (s[i] = t[l] /\ s[j] = t[k])

(* What the players of one battle are told of it fits together.            *)
AnswersAgree == OneUplink /\ RelayOrderAgrees

(* Whoever goes to a battle through its proxy is found there, by the RPC,  *)
(* in a battle that all its players were told of.                          *)
ProxyFindsBattle ==
  \A u \in Users : battles[u] # 0 => GetBattleInfo(u) # 0 /\ made[GetBattleInfo(u)].whole

=============================================================================
