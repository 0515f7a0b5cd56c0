------------------------------- MODULE GameWorld -------------------------------
(***************************************************************************)
(* The player registry of GameServer and what may change it.               *)
(*                                                                         *)
(* A GatewaySession is one accepted TCP connection of a gateway process; a *)
(* gateway that reconnects shows up as another session, and the old and    *)
(* the new one may coexist.  Network callbacks of the sessions run on any  *)
(* worker thread, but each only POSTS its packet (or, when the connection  *)
(* breaks, one cleanup task) to the game strand, which runs the tasks one  *)
(* at a time in the order they were posted.  The AI tick runs on the same  *)
(* strand, so a monster's hit falls between two tasks.                     *)
(*                                                                         *)
(* The registry is spread over five places that every handler has to keep  *)
(* in step: playerMap, uidToAccount, gatewayPlayerMap_, the sectors of the *)
(* zone, and the mirror kept in Redis.                                     *)
(*                                                                         *)
(* Left out: the packets the handlers send back (they change no state      *)
(* here), attack and chat requests (Handle_GatewayGameChatReq reads the    *)
(* registry only, the effect of an attack is on monsters), parse failures  *)
(* (the handler returns before it touches anything).                       *)
(*                                                                         *)
(* A definition named Bug_... is a slip the next definition could have     *)
(* had; no behaviour of the specification uses it (see README).            *)
(***************************************************************************)
EXTENDS Zone, Sequences, FiniteSets, Functions

CONSTANTS
  Accounts,       \* account names a gateway may relay packets for
  Gateways,       \* GatewaySession objects, one per accepted connection
  Requests,       \* positions a client may ask to move to
  DefaultHp,      \* GameConstants::Player::DEFAULT_HP
  Damage,         \* attack power of a monster
  Leftover,       \* accounts whose Redis hash outlived an earlier run of the server
  MaxPackets,     \* bound: packets read from gateways in one behaviour
  MaxRefused      \* bound: accounts whose latest Redis command stands refused

ASSUME GameWorldAssumption ==
  /\ Requests \subseteq Points
  /\ DefaultHp \in Nat \ {0}
  /\ Damage \in Nat \ {0}
  /\ Leftover \subseteq Accounts
  /\ MaxPackets \in Nat
  /\ MaxRefused \in Nat

VARIABLES
  link,             \* per session: new, open, closed (read error), stuck (bad header)
  gatewaySessions,  \* sessions BroadcastToGateways addresses
  strand,           \* tasks posted to game_strand_, oldest first
  playerMap,        \* account |-> player
  uidToAccount,     \* uid |-> account
  gatewayPlayerMap, \* session |-> accounts it brought in (absent = empty set)
  uidCounter,       \* next uid
  sectors,          \* the zone's player grid
  redis,            \* external: account |-> hp of its hash, while it is followed
  redisUp,          \* RedisManager::connected_
  refused,          \* history: accounts whose latest command Redis refused
  packets           \* bound: packets read so far

registry == <<playerMap, uidToAccount, gatewayPlayerMap, uidCounter, sectors>>
mirror   == <<redis, redisUp, refused>>
network  == <<link, gatewaySessions, packets>>
vars     == <<network, strand, registry, mirror>>

-------------------------------------------------------------------------------

Spawn == [x |-> 0, y |-> 0]

PacketTasks == [kind : {"move"}, gw : Gateways, acct : Accounts, to : Requests]
                 \cup [kind : {"leave"}, gw : Gateways, acct : Accounts]
CleanupTasks == [kind : {"cleanup"}, gw : Gateways]
Tasks == PacketTasks \cup CleanupTasks

Players == [uid : Nat, pos : Points, hp : Nat]

Online(a) == a \in DOMAIN playerMap

With(f, k, v) == [x \in DOMAIN f \cup {k} |-> IF x = k THEN v ELSE f[x]]
Without(f, ks) == Restrict(f, DOMAIN f \ ks)

Init ==
  /\ link = [g \in Gateways |-> "new"]
  /\ gatewaySessions = {}
  /\ strand = <<>>
  /\ playerMap = <<>>
  /\ uidToAccount = <<>>
  /\ gatewayPlayerMap = [g \in Gateways |-> {}]
  /\ uidCounter = 1
  /\ sectors = EmptyGrid
  /\ redisUp \in BOOLEAN
  /\ redis = IF redisUp THEN [a \in Leftover |-> DefaultHp] ELSE <<>>
  /\ refused = {}
  /\ packets = 0

-------------------------------------------------------------------------------
(* Network side: any worker thread.                                        *)

do_accept(g) ==
  /\ link[g] = "new"
  /\ link' = [link EXCEPT ![g] = "open"]
  /\ gatewaySessions' = gatewaySessions \cup {g}
  /\ UNCHANGED <<packets, strand, registry, mirror>>

\* A complete packet arrived: a copy of its payload is posted to the strand
\* and the next header is read.
ReadPayload(g) ==
  /\ link[g] = "open"
  /\ packets < MaxPackets
  /\ packets' = packets + 1
  /\ \E t \in PacketTasks : t.gw = g /\ strand' = Append(strand, t)
  /\ UNCHANGED <<link, gatewaySessions, registry, mirror>>

\* A header with an impossible size ends the read loop without a word: the
\* session stays registered and its disconnection will never be noticed.
BadHeader(g) ==
  /\ link[g] = "open"
  /\ link' = [link EXCEPT ![g] = "stuck"]
  /\ UNCHANGED <<gatewaySessions, packets, strand, registry, mirror>>

Bug_NoCleanup(g) ==
  /\ link[g] = "open"
  /\ link' = [link EXCEPT ![g] = "closed"]
  /\ gatewaySessions' = gatewaySessions \ {g}
  /\ UNCHANGED <<packets, strand, registry, mirror>>

\* A read error: the cleanup is posted behind the packets already posted.
OnDisconnected(g) ==
  /\ link[g] = "open"
  /\ link' = [link EXCEPT ![g] = "closed"]
  /\ gatewaySessions' = gatewaySessions \ {g}
  /\ strand' = Append(strand, [kind |-> "cleanup", gw |-> g])
  /\ UNCHANGED <<packets, registry, mirror>>

-------------------------------------------------------------------------------
(* Redis: each command of a run is executed, or refused with an error      *)
(* reply: the hash keeps its value and the handler goes on all the same.   *)
(* When a command gets no reply the connection is given up for good: the   *)
(* server never reads or writes a hash again.  Nothing in the server reads *)
(* a hash, so what it holds after a refusal is not followed until the next *)
(* command for it is executed, nor what any holds after the connection.    *)

\* The commands for the accounts as bring their hashes to what they are in new.
RedisRun(as, new) ==
  \/ /\ redisUp
     /\ \E failed \in SUBSET as :
          /\ redis' = Without(new, failed)
          /\ refused' = (refused \ as) \cup failed
     /\ Cardinality(refused') <= MaxRefused
     /\ UNCHANGED redisUp
  \/ /\ redisUp
     /\ redisUp' = FALSE
     /\ redis' = <<>> /\ refused' = {}
  \/ /\ ~redisUp
     /\ UNCHANGED mirror

SetPlayerOnline(a, hp) == RedisRun({a}, With(redis, a, hp))

\* A player who revives has its death reported before: the last command counts.
UpdatePlayerHp(a, hp) == RedisRun({a}, With(redis, a, hp))

Bug_RedisKept(as) == UNCHANGED mirror

RemovePlayers(as) ==
  \/ as # {} /\ RedisRun(as, Without(redis, as))
  \/ as = {} /\ UNCHANGED mirror

-------------------------------------------------------------------------------
(* Game side: one task at a time.                                          *)

Take(kind) ==
  /\ strand # <<>>
  /\ Head(strand).kind = kind
  /\ strand' = Tail(strand)

RegisterPlayerToGateway(g, a) == [gatewayPlayerMap EXCEPT ![g] = @ \cup {a}]

UnregisterPlayerFromGateway(g, a) == [gatewayPlayerMap EXCEPT ![g] = @ \ {a}]

Bug_EverybodysPlayers(g) == DOMAIN playerMap
GetPlayersOfGateway(g) == gatewayPlayerMap[g]

Bug_UidKept == uidCounter
NextUid == uidCounter + 1

Bug_UidForgottenLate(uids) == uidToAccount
EraseUids(uids) == Without(uidToAccount, uids)

\* Positions off the map are pulled back to its border, edges included.
Clamp(p) ==
  LET cut(v, max) == IF v < 0 THEN 0 ELSE IF v > max THEN max ELSE v
  IN  [x |-> cut(p.x, Width), y |-> cut(p.y, Height)]

\* First packet of an account: uid, both maps, the sending session, the zone
\* and Redis.  The UpdatePosition that follows moves from pos to pos.
Register(g, a, pos) ==
  /\ playerMap' = With(playerMap, a, [uid |-> uidCounter, pos |-> pos, hp |-> DefaultHp])
  /\ uidToAccount' = With(uidToAccount, uidCounter, a)
  /\ gatewayPlayerMap' = RegisterPlayerToGateway(g, a)
  /\ uidCounter' = NextUid
  /\ sectors' = UpdatePosition(EnterZone(sectors, uidCounter, pos), uidCounter, pos, pos)
  /\ SetPlayerOnline(a, DefaultHp)

\* A known account: the session that relayed the packet is not looked at.
Relocate(a, pos) ==
  /\ playerMap' = [playerMap EXCEPT ![a].pos = pos]
  /\ sectors' = UpdatePosition(sectors, playerMap[a].uid, playerMap[a].pos, pos)
  /\ UNCHANGED <<uidToAccount, gatewayPlayerMap, uidCounter, mirror>>

Handle_GatewayGameMoveReq ==
  /\ Take("move")
  /\ LET t == Head(strand)
         pos == Clamp(t.to)
     IN  \/ ~Online(t.acct) /\ Register(t.gw, t.acct, pos)
         \/ Online(t.acct) /\ Relocate(t.acct, pos)
  /\ UNCHANGED network

\* The account leaves the SENDING session's set, whoever brought it in.
Handle_GatewayGameLeaveReq ==
  /\ Take("leave")
  /\ LET g == Head(strand).gw
         a == Head(strand).acct
     IN  \/ /\ Online(a)
            /\ playerMap' = Without(playerMap, {a})
            /\ uidToAccount' = EraseUids({playerMap[a].uid})
            /\ gatewayPlayerMap' = UnregisterPlayerFromGateway(g, a)
            /\ sectors' = LeaveZone(sectors, playerMap[a].uid, playerMap[a].pos)
            /\ RemovePlayers({a})
            /\ UNCHANGED uidCounter
         \/ /\ ~Online(a)
            /\ UNCHANGED <<registry, mirror>>
  /\ UNCHANGED network

\* Every account the session brought in and that is still online goes, then
\* the session's entry (RemoveGatewayMapping).
CleanupGateway ==
  /\ Take("cleanup")
  /\ LET g == Head(strand).gw
         gone == {a \in GetPlayersOfGateway(g) : Online(a)}
         leaving(s) == {a \in gone : OnMap(playerMap[a].pos) /\ SectorOf(playerMap[a].pos) = s}
         Uids(as) == {playerMap[a].uid : a \in as}
     IN  /\ playerMap' = Without(playerMap, gone)
         /\ uidToAccount' = EraseUids(Uids(gone))
         /\ sectors' = [s \in Sectors |-> sectors[s] \ Uids(leaving(s))]
         /\ gatewayPlayerMap' = [gatewayPlayerMap EXCEPT ![g] = {}]
         /\ RemovePlayers(gone)
  /\ UNCHANGED <<network, uidCounter>>

Bug_NoFloor(hp) == hp - Damage
Hurt(hp) == IF hp > Damage THEN hp - Damage ELSE 0

\* A monster's hit, out of the AI tick: the victim is looked up by uid; at
\* hp 0 it revives with full hp at the spawn point.
MonsterHit(u) ==
  /\ u \in DOMAIN uidToAccount
  /\ Online(uidToAccount[u])
  /\ LET a == uidToAccount[u]
         p == playerMap[a]
         dead == Hurt(p.hp) = 0
         hp == IF dead THEN DefaultHp ELSE Hurt(p.hp)
     IN  /\ playerMap' = [playerMap EXCEPT ![a].hp = hp,
                                           ![a].pos = IF dead THEN Spawn ELSE @]
         /\ sectors' = IF dead THEN UpdatePosition(sectors, u, p.pos, Spawn) ELSE sectors
         /\ UpdatePlayerHp(a, hp)
  /\ UNCHANGED <<network, strand, uidToAccount, gatewayPlayerMap, uidCounter>>

RunTask ==
  \/ Handle_GatewayGameMoveReq
  \/ Handle_GatewayGameLeaveReq
  \/ CleanupGateway

Next ==
  \/ \E g \in Gateways : do_accept(g) \/ ReadPayload(g) \/ BadHeader(g) \/ OnDisconnected(g)
  \/ RunTask
  \/ \E u \in DOMAIN uidToAccount : MonsterHit(u)

Spec == Init /\ [][Next]_vars

\* A posted task is eventually run: the strand's queue is served by the
\* io_context's worker threads.  Nothing makes a gateway send or disconnect.
FairSpec == Spec /\ WF_vars(RunTask)

-------------------------------------------------------------------------------
(* Properties.                                                             *)

\* Every variable keeps its type.
TypeOK ==
  /\ link \in [Gateways -> {"new", "open", "closed", "stuck"}]
  /\ gatewaySessions \subseteq Gateways
  /\ strand \in Seq(Tasks)
  /\ DOMAIN playerMap \subseteq Accounts
  /\ playerMap \in [DOMAIN playerMap -> Players]
  /\ DOMAIN uidToAccount \subseteq Nat
  /\ uidToAccount \in [DOMAIN uidToAccount -> Accounts]
  /\ gatewayPlayerMap \in [Gateways -> SUBSET Accounts]
  /\ uidCounter \in Nat
  /\ sectors \in [Sectors -> SUBSET Nat]
  /\ DOMAIN redis \subseteq Accounts
  /\ redis \in [DOMAIN redis -> Nat]
  /\ redisUp \in BOOLEAN
  /\ refused \subseteq Accounts
  /\ packets \in Nat

\* playerMap and uidToAccount stay inverse to each other through joins, leaves,
\* gateway failures and revivals: AOI lists, the monsters' target look-ups and
\* the attack callback all go from one map to the other and back.
RegistryBijective ==
  /\ \A a \in DOMAIN playerMap :
       /\ playerMap[a].uid \in DOMAIN uidToAccount
       /\ uidToAccount[playerMap[a].uid] = a
  /\ \A u \in DOMAIN uidToAccount :
       /\ Online(uidToAccount[u])
       /\ playerMap[uidToAccount[u]].uid = u

\* Who may be asked to remove the players that session g brought in: g itself
\* until its disconnection was noticed, or its cleanup while it is in the strand.
\* A session that read a bad header is no longer read from, so its disconnection
\* is never noticed: what it brought in stays, and counts here as accounted for.
CleanupDue(g) == \E i \in DOMAIN strand : strand[i].kind = "cleanup" /\ strand[i].gw = g
Accountable(g) == link[g] \in {"open", "stuck"} \/ CleanupDue(g)

\* No zombies after a disconnection (GatewaySession.cpp, OnDisconnected): every
\* online player is in the set of some session that is open, stuck on a bad
\* header, or about to be cleaned up, however packets of the old and the new
\* session of a reconnecting gateway interleave.
NoZombie ==
  \A a \in DOMAIN playerMap : \E g \in Gateways :
    a \in gatewayPlayerMap[g] /\ Accountable(g)

\* The zone holds each online player in the sector of its position, in no
\* other, and holds nobody else.
SectorsExact ==
  \A s \in Sectors :
    sectors[s] = {playerMap[a].uid : a \in
                    {b \in DOMAIN playerMap : OnMap(playerMap[b].pos)
                                              /\ SectorOf(playerMap[b].pos) = s}}

\* As long as the Redis connection lasts, an online account's hash holds its
\* hp, and an account that went offline has no hash (RemovePlayer), but for the
\* accounts whose latest command Redis refused: nobody repeats it.
RedisMirror ==
  redisUp =>
    /\ \A a \in DOMAIN playerMap \ refused : a \in DOMAIN redis /\ redis[a] = playerMap[a].hp
    /\ \A a \in DOMAIN redis \ refused : Online(a) \/ a \in Leftover

\* A uid is never bound to a second account: a monster that keeps the uid of
\* a player who left (GiveUpChase keeps target_user_id_) can only miss.
UidNeverRebound ==
  [][\A u \in DOMAIN uidToAccount' :
       \/ u \in DOMAIN uidToAccount /\ uidToAccount'[u] = uidToAccount[u]
       \/ u \notin DOMAIN uidToAccount /\ u >= uidCounter]_vars

\* Seen from outside, the five places and the tasks that keep them in step are
\* one table (PlayerRegistry): an account is in it once, at a place on the map or
\* its border, and a uid is for one account for ever.
Registry == INSTANCE PlayerRegistry WITH
  Places <- Ground,
  online <- [u \in DOMAIN uidToAccount |->
               [account |-> uidToAccount[u], pos |-> playerMap[uidToAccount[u]].pos]],
  next <- uidCounter

IsRegistry == Registry!Spec

\* A player goes offline only by a leave packet for its own account or by the
\* failure of a session that brought it in.
RemovalJustified ==
  [][\A a \in DOMAIN playerMap :
       a \in DOMAIN playerMap' \/
         /\ strand # <<>>
         /\ LET t == Head(strand)
            IN  \/ t.kind = "leave" /\ t.acct = a
                \/ t.kind = "cleanup" /\ a \in gatewayPlayerMap[t.gw]]_vars

\* After a gateway connection broke, the players it brought in are removed
\* and its entry stays empty (GatewaySession.cpp, "game_strand_에 유저 일괄
\* 정리 요청을 post").
FailedGatewayReaped ==
  \A g \in Gateways : link[g] = "closed" ~> [](gatewayPlayerMap[g] = {})

\* The zone holds no uid of a player who is gone (GatewaySession.cpp claims
\* it of a failed gateway's players: no ghosts left in the AOI broadcast).
NoGhost == \A s \in Sectors : sectors[s] \subseteq DOMAIN uidToAccount

===============================================================================
