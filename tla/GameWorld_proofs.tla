---------------------------- MODULE GameWorld_proofs ----------------------------
(* Theorems about GameWorld for every value of its constants.              *)
EXTENDS GameWorld, TLAPS, SequenceTheorems

-------------------------------------------------------------------------------
(* Lemmas on the operators of the model.                                   *)

\* The empty registry has an empty domain.
LEMMA EmptyDomain == DOMAIN <<>> = {}
  OBVIOUS

\* A clamped position is a point.
LEMMA ClampType ==
  ASSUME NEW p \in Points
  PROVE  Clamp(p) \in Points
  BY ZoneAssumption DEF Clamp, Points

\* The zone's operators take grids of uids to grids of uids.
LEMMA GridType ==
  ASSUME NEW grid \in [Sectors -> SUBSET Nat], NEW id \in Nat, NEW p, NEW q
  PROVE  /\ EnterZone(grid, id, p) \in [Sectors -> SUBSET Nat]
         /\ LeaveZone(grid, id, p) \in [Sectors -> SUBSET Nat]
         /\ UpdatePosition(grid, id, p, q) \in [Sectors -> SUBSET Nat]
  <1>1. ASSUME NEW g \in [Sectors -> SUBSET Nat], NEW s
        PROVE  /\ AddTo(g, s, id) \in [Sectors -> SUBSET Nat]
               /\ RemoveFrom(g, s, id) \in [Sectors -> SUBSET Nat]
    BY DEF AddTo, RemoveFrom
  <1>2. QED
    BY <1>1 DEF EnterZone, LeaveZone, UpdatePosition

-------------------------------------------------------------------------------
(* Type correctness.                                                       *)

MapsOK ==
  /\ DOMAIN playerMap \subseteq Accounts
  /\ playerMap \in [DOMAIN playerMap -> Players]
  /\ DOMAIN uidToAccount \subseteq Nat
  /\ uidToAccount \in [DOMAIN uidToAccount -> Accounts]

RedisOK ==
  /\ DOMAIN redis \subseteq Accounts
  /\ redis \in [DOMAIN redis -> Nat]
  /\ redisUp \in BOOLEAN
  /\ refused \subseteq Accounts

\* Whatever a run of Redis commands ends in, the mirror stays typed.
LEMMA RedisRunType ==
  ASSUME RedisOK, NEW as \in SUBSET Accounts, NEW new,
         DOMAIN new \subseteq Accounts, new \in [DOMAIN new -> Nat], RedisRun(as, new)
  PROVE  RedisOK'
<1>1. CASE \E failed \in SUBSET as :
             redis' = Without(new, failed) /\ refused' = (refused \ as) \cup failed /\ UNCHANGED redisUp
  BY <1>1 DEF RedisOK, Without, Restrict
<1>2. CASE redis' = <<>> /\ refused' = {} /\ redisUp' = FALSE
  <2>1. redis' \in [{} -> Nat]
    BY <1>2
  <2> QED
    BY <1>2, <2>1, EmptyDomain DEF RedisOK
<1>3. CASE UNCHANGED mirror
  BY <1>3 DEF RedisOK, mirror
<1> QED
  BY <1>1, <1>2, <1>3 DEF RedisRun

LEMMA RedisSetType ==
  ASSUME RedisOK, NEW a \in Accounts, NEW hp \in Nat,
         SetPlayerOnline(a, hp) \/ UpdatePlayerHp(a, hp)
  PROVE  RedisOK'
<1> DEFINE new == With(redis, a, hp)
<1>1. DOMAIN new \subseteq Accounts /\ new \in [DOMAIN new -> Nat]
  BY DEF RedisOK, With
<1>2. RedisRun({a}, new)
  BY DEF SetPlayerOnline, UpdatePlayerHp
<1> HIDE DEF new
<1> QED
  BY <1>1, <1>2, RedisRunType

LEMMA RedisRemoveType ==
  ASSUME RedisOK, NEW as \in SUBSET Accounts, RemovePlayers(as)
  PROVE  RedisOK'
<1> DEFINE new == Without(redis, as)
<1>1. CASE RedisRun(as, new)
  <2>1. DOMAIN new \subseteq Accounts /\ new \in [DOMAIN new -> Nat]
    BY DEF RedisOK, Without, Restrict
  <2> HIDE DEF new
  <2> QED
    BY <1>1, <2>1, RedisRunType
<1>2. CASE UNCHANGED mirror
  BY <1>2 DEF RedisOK, mirror
<1> QED
  BY <1>1, <1>2 DEF RemovePlayers

\* The task at the head of the strand and the rest of it are well formed.
LEMMA TakeType ==
  ASSUME TypeOK, NEW kind, Take(kind)
  PROVE  /\ Head(strand) \in Tasks
         /\ Head(strand).kind = kind
         /\ Head(strand).gw \in Gateways
         /\ kind # "cleanup" => Head(strand).acct \in Accounts
         /\ kind = "move" => Head(strand).to \in Requests
         /\ strand' \in Seq(Tasks)
  <1>1. strand \in Seq(Tasks) /\ strand # <<>>
    BY DEF TypeOK, Take
  <1>2. Head(strand) \in Tasks /\ Tail(strand) \in Seq(Tasks)
    BY <1>1
  <1>3. QED
    BY <1>2 DEF Take, Tasks, PacketTasks, CleanupTasks

NetworkOK ==
  /\ link \in [Gateways -> {"new", "open", "closed", "stuck"}]
  /\ gatewaySessions \subseteq Gateways
  /\ packets \in Nat

RegistryOK ==
  /\ MapsOK
  /\ gatewayPlayerMap \in [Gateways -> SUBSET Accounts]
  /\ uidCounter \in Nat
  /\ sectors \in [Sectors -> SUBSET Nat]

LEMMA TypeOKParts ==
  TypeOK <=> NetworkOK /\ RegistryOK /\ RedisOK /\ strand \in Seq(Tasks)
  BY DEF TypeOK, NetworkOK, RegistryOK, MapsOK, RedisOK

LEMMA MoveType ==
  ASSUME TypeOK, Handle_GatewayGameMoveReq
  PROVE  TypeOK'
  <1> DEFINE t == Head(strand)
  <1> DEFINE pos == Clamp(t.to)
  <1>1. /\ t.gw \in Gateways /\ t.acct \in Accounts /\ t.to \in Requests
        /\ strand' \in Seq(Tasks)
    BY TakeType DEF Handle_GatewayGameMoveReq
  <1>2. pos \in Points
    BY <1>1, ClampType, GameWorldAssumption
  <1> HIDE DEF t, pos
  <1>3. NetworkOK'
    BY DEF Handle_GatewayGameMoveReq, network, TypeOK, NetworkOK
  <1>4. CASE ~Online(t.acct) /\ Register(t.gw, t.acct, pos)
    <2>1. MapsOK'
      BY <1>1, <1>2, <1>4, GameWorldAssumption
      DEF Register, With, TypeOK, MapsOK, Players
    <2>2. /\ gatewayPlayerMap' \in [Gateways -> SUBSET Accounts]
          /\ uidCounter' \in Nat
      BY <1>1, <1>4 DEF Register, RegisterPlayerToGateway, NextUid, TypeOK
    <2>3. sectors' \in [Sectors -> SUBSET Nat]
      BY <1>4, GridType DEF Register, TypeOK
    <2>4. RedisOK'
      BY <1>1, <1>4, RedisSetType, TypeOKParts, GameWorldAssumption DEF Register
    <2>5. QED
      BY <1>1, <1>3, <2>1, <2>2, <2>3, <2>4
      DEF TypeOK, NetworkOK, MapsOK, RedisOK
  <1>5. CASE Online(t.acct) /\ Relocate(t.acct, pos)
    <2>1. playerMap[t.acct] \in Players
      BY <1>5 DEF Online, TypeOK
    <2>2. MapsOK'
      BY <1>2, <1>5, <2>1 DEF Relocate, TypeOK, MapsOK, Players, Online
    <2>3. sectors' \in [Sectors -> SUBSET Nat]
      BY <1>5, <2>1, GridType DEF Relocate, TypeOK, Players
    <2>4. QED
      BY <1>1, <1>3, <1>5, <2>2, <2>3 DEF Relocate, mirror, TypeOK, NetworkOK, MapsOK
  <1>6. QED
    BY <1>4, <1>5 DEF Handle_GatewayGameMoveReq, t, pos

LEMMA LeaveType ==
  ASSUME TypeOK, Handle_GatewayGameLeaveReq
  PROVE  TypeOK'
  <1> DEFINE g == Head(strand).gw
  <1> DEFINE a == Head(strand).acct
  <1>1. /\ g \in Gateways /\ a \in Accounts
        /\ strand' \in Seq(Tasks)
    BY TakeType DEF Handle_GatewayGameLeaveReq
  <1> HIDE DEF g, a
  <1>2. NetworkOK'
    BY DEF Handle_GatewayGameLeaveReq, network, TypeOK, NetworkOK
  <1>3. CASE ~Online(a) /\ UNCHANGED <<registry, mirror>>
    BY <1>1, <1>2, <1>3 DEF registry, mirror, TypeOK, NetworkOK
  <1>4. CASE /\ Online(a)
             /\ playerMap' = Without(playerMap, {a})
             /\ uidToAccount' = EraseUids({playerMap[a].uid})
             /\ gatewayPlayerMap' = UnregisterPlayerFromGateway(g, a)
             /\ sectors' = LeaveZone(sectors, playerMap[a].uid, playerMap[a].pos)
             /\ RemovePlayers({a})
             /\ UNCHANGED uidCounter
    <2>1. playerMap[a] \in Players
      BY <1>4 DEF Online, TypeOK
    <2>2. MapsOK'
      BY <1>4 DEF EraseUids, Without, Restrict, TypeOK, MapsOK
    <2>3. gatewayPlayerMap' \in [Gateways -> SUBSET Accounts]
      BY <1>1, <1>4 DEF UnregisterPlayerFromGateway, TypeOK
    <2>4. sectors' \in [Sectors -> SUBSET Nat]
      BY <1>4, <2>1, GridType DEF TypeOK, Players
    <2>5. RedisOK'
      BY <1>1, <1>4, RedisRemoveType, TypeOKParts
    <2>6. QED
      BY <1>1, <1>2, <1>4, <2>2, <2>3, <2>4, <2>5
      DEF TypeOK, NetworkOK, MapsOK, RedisOK
  <1>5. QED
    BY <1>3, <1>4 DEF Handle_GatewayGameLeaveReq, g, a

LEMMA CleanupType ==
  ASSUME TypeOK, CleanupGateway
  PROVE  TypeOK'
  <1>1. strand' \in Seq(Tasks) /\ Head(strand).gw \in Gateways
    BY TakeType DEF CleanupGateway
  <1>2. NetworkOK'
    BY DEF CleanupGateway, network, TypeOK, NetworkOK
  <1>3. MapsOK'
    BY DEF CleanupGateway, EraseUids, Without, Restrict, TypeOK, MapsOK
  <1>4. /\ gatewayPlayerMap' \in [Gateways -> SUBSET Accounts]
        /\ uidCounter' \in Nat
        /\ sectors' \in [Sectors -> SUBSET Nat]
    BY <1>1 DEF CleanupGateway, TypeOK
  <1>5. RedisOK'
    <2> DEFINE gone == {a \in GetPlayersOfGateway(Head(strand).gw) : Online(a)}
    <2>1. gone \subseteq Accounts
      BY DEF Online, TypeOK
    <2>2. RemovePlayers(gone)
      BY DEF CleanupGateway
    <2> HIDE DEF gone
    <2> QED
      BY <2>1, <2>2, RedisRemoveType, TypeOKParts
  <1>6. QED
    BY <1>1, <1>2, <1>3, <1>4, <1>5 DEF TypeOK, NetworkOK, MapsOK, RedisOK

LEMMA MonsterHitType ==
  ASSUME TypeOK, NEW u \in DOMAIN uidToAccount, MonsterHit(u)
  PROVE  TypeOK'
  <1> DEFINE a == uidToAccount[u]
  <1> DEFINE dead == Hurt(playerMap[a].hp) = 0
  <1> DEFINE hp == IF dead THEN DefaultHp ELSE Hurt(playerMap[a].hp)
  <1>1. a \in Accounts /\ u \in Nat /\ a \in DOMAIN playerMap /\ playerMap[a] \in Players
    BY DEF TypeOK, MonsterHit, Online
  <1>2. hp \in Nat
    BY <1>1, GameWorldAssumption DEF Hurt, Players
  <1>3. Spawn \in Points
    BY DEF Spawn, Points
  <1>4. /\ playerMap' = [playerMap EXCEPT ![a].hp = hp, ![a].pos = IF dead THEN Spawn ELSE @]
        /\ sectors' = IF dead THEN UpdatePosition(sectors, u, playerMap[a].pos, Spawn)
                              ELSE sectors
        /\ UpdatePlayerHp(a, hp)
        /\ UNCHANGED <<network, strand, uidToAccount, gatewayPlayerMap, uidCounter>>
    BY DEF MonsterHit
  <1> HIDE DEF a, dead, hp
  <1>5. MapsOK'
    BY <1>1, <1>2, <1>3, <1>4 DEF TypeOK, MapsOK, Players
  <1>6. sectors' \in [Sectors -> SUBSET Nat]
    BY <1>1, <1>4, GridType DEF TypeOK
  <1>7. RedisOK'
    BY <1>1, <1>2, <1>4, RedisSetType, TypeOKParts
  <1>8. QED
    BY <1>4, <1>5, <1>6, <1>7 DEF network, TypeOK, NetworkOK, MapsOK, RedisOK

LEMMA NetworkType ==
  ASSUME TypeOK, NEW g \in Gateways,
         do_accept(g) \/ ReadPayload(g) \/ BadHeader(g) \/ OnDisconnected(g)
  PROVE  TypeOK'
  <1> USE DEF registry, mirror, TypeOK
  <1>1. CASE do_accept(g)
    BY <1>1 DEF do_accept
  <1>2. CASE ReadPayload(g)
    <2>1. strand' \in Seq(Tasks)
      BY <1>2 DEF ReadPayload, Tasks
    <2>2. QED
      BY <1>2, <2>1 DEF ReadPayload
  <1>3. CASE BadHeader(g)
    BY <1>3 DEF BadHeader
  <1>4. CASE OnDisconnected(g)
    <2>1. [kind |-> "cleanup", gw |-> g] \in Tasks
      BY DEF Tasks, CleanupTasks
    <2>2. QED
      BY <1>4, <2>1 DEF OnDisconnected
  <1>5. QED
    BY <1>1, <1>2, <1>3, <1>4

LEMMA StepKeepsTypes ==
  ASSUME TypeOK, [Next]_vars
  PROVE  TypeOK'
  <1>1. CASE UNCHANGED vars
    BY <1>1 DEF vars, network, registry, mirror, TypeOK
  <1>2. CASE Next
    BY <1>2, NetworkType, MoveType, LeaveType, CleanupType, MonsterHitType
    DEF Next, RunTask
  <1>3. QED
    BY <1>1, <1>2

\* The registry, the strand, the zone and the mirror keep their types,
\* whatever the gateways send and whenever they fail.
THEOREM TypeCorrect == Spec => []TypeOK
  <1>1. Init => TypeOK
    BY EmptyDomain, GameWorldAssumption DEF Init, TypeOK, EmptyGrid
  <1>2. TypeOK /\ [Next]_vars => TypeOK'
    BY StepKeepsTypes
  <1>3. QED
    BY <1>1, <1>2, PTL DEF Spec

-------------------------------------------------------------------------------
(* playerMap and uidToAccount are inverse to each other.  What makes it    *)
(* inductive: no uid in use has been handed out twice.                     *)

UidsIssued == \A u \in DOMAIN uidToAccount : u < uidCounter

RegistryInv == TypeOK /\ RegistryBijective /\ UidsIssued

\* Removing a set of online accounts and exactly their uids.
LEMMA RemovalKeepsRegistry ==
  ASSUME RegistryInv, NEW gone \in SUBSET DOMAIN playerMap,
         playerMap' = Without(playerMap, gone),
         uidToAccount' = EraseUids({playerMap[a].uid : a \in gone}),
         UNCHANGED uidCounter
  PROVE  RegistryBijective' /\ UidsIssued'
  <1> DEFINE uids == {playerMap[a].uid : a \in gone}
  <1>1. /\ DOMAIN playerMap' = DOMAIN playerMap \ gone
        /\ \A a \in DOMAIN playerMap' : playerMap'[a] = playerMap[a]
    BY DEF Without, Restrict
  <1>2. /\ DOMAIN uidToAccount' = DOMAIN uidToAccount \ uids
        /\ \A u \in DOMAIN uidToAccount' : uidToAccount'[u] = uidToAccount[u]
    BY DEF EraseUids, Without, Restrict
  <1>3. ASSUME NEW a \in DOMAIN playerMap'
        PROVE  /\ playerMap'[a].uid \in DOMAIN uidToAccount'
               /\ uidToAccount'[playerMap'[a].uid] = a
    <2>1. playerMap[a].uid \notin uids
      BY <1>1 DEF RegistryInv, RegistryBijective
    <2>2. QED
      BY <1>1, <1>2, <2>1 DEF RegistryInv, RegistryBijective
  <1>4. ASSUME NEW u \in DOMAIN uidToAccount'
        PROVE  /\ uidToAccount'[u] \in DOMAIN playerMap'
               /\ playerMap'[uidToAccount'[u]].uid = u
    <2>1. uidToAccount[u] \in DOMAIN playerMap /\ playerMap[uidToAccount[u]].uid = u
      BY <1>2 DEF RegistryInv, RegistryBijective, Online
    <2>2. u \notin uids
      BY <1>2
    <2>3. uidToAccount[u] \notin gone
      BY <2>1, <2>2
    <2>4. uidToAccount'[u] = uidToAccount[u]
      BY <1>2
    <2>5. QED
      BY <1>1, <2>1, <2>3, <2>4
  <1>5. UidsIssued'
    BY <1>2 DEF RegistryInv, UidsIssued
  <1>6. QED
    BY <1>3, <1>4, <1>5 DEF RegistryBijective, Online

\* Writing position or hp of a player does not touch the registry.
LEMMA UpdateKeepsRegistry ==
  ASSUME RegistryInv, DOMAIN playerMap' = DOMAIN playerMap,
         \A a \in DOMAIN playerMap : playerMap'[a].uid = playerMap[a].uid,
         UNCHANGED <<uidToAccount, uidCounter>>
  PROVE  RegistryBijective' /\ UidsIssued'
  BY DEF RegistryInv, RegistryBijective, UidsIssued, Online

LEMMA RegisterKeepsRegistry ==
  ASSUME RegistryInv, NEW g, NEW a, NEW pos, ~Online(a), Register(g, a, pos)
  PROVE  RegistryBijective' /\ UidsIssued'
  <1>1. /\ DOMAIN playerMap' = DOMAIN playerMap \cup {a}
        /\ playerMap'[a].uid = uidCounter
        /\ \A b \in DOMAIN playerMap : playerMap'[b] = playerMap[b]
    BY DEF With, Register, Online
  <1>2. uidCounter \notin DOMAIN uidToAccount
    BY DEF RegistryInv, UidsIssued, TypeOK
  <1>3. /\ DOMAIN uidToAccount' = DOMAIN uidToAccount \cup {uidCounter}
        /\ uidToAccount'[uidCounter] = a
        /\ \A u \in DOMAIN uidToAccount : uidToAccount'[u] = uidToAccount[u]
    BY <1>2 DEF With, Register
  <1>4. UidsIssued'
    <2>1. uidCounter' = uidCounter + 1 /\ uidCounter \in Nat
      BY DEF Register, NextUid, RegistryInv, TypeOK
    <2>2. \A u \in DOMAIN uidToAccount : u \in Nat /\ u < uidCounter
      BY DEF RegistryInv, TypeOK, UidsIssued
    <2>3. \A u \in DOMAIN uidToAccount : u < uidCounter'
      BY <2>1, <2>2
    <2>4. uidCounter < uidCounter'
      BY <2>1
    <2>5. QED
      BY <1>3, <2>3, <2>4 DEF UidsIssued
  <1>5. ASSUME NEW b \in DOMAIN playerMap'
        PROVE  /\ playerMap'[b].uid \in DOMAIN uidToAccount'
               /\ uidToAccount'[playerMap'[b].uid] = b
    <2>1. CASE b = a
      BY <1>1, <1>3, <2>1
    <2>2. CASE b # a
      <3>1. b \in DOMAIN playerMap /\ playerMap'[b] = playerMap[b]
        BY <1>1, <2>2
      <3>2. QED
        BY <1>3, <3>1 DEF RegistryInv, RegistryBijective
    <2>3. QED
      BY <2>1, <2>2
  <1>6. ASSUME NEW u \in DOMAIN uidToAccount'
        PROVE  /\ uidToAccount'[u] \in DOMAIN playerMap'
               /\ playerMap'[uidToAccount'[u]].uid = u
    <2>1. CASE u = uidCounter
      BY <1>1, <1>3, <2>1
    <2>2. CASE u # uidCounter
      <3>1. u \in DOMAIN uidToAccount /\ uidToAccount'[u] = uidToAccount[u]
        BY <1>3, <2>2
      <3>2. QED
        BY <1>1, <3>1 DEF RegistryInv, RegistryBijective, Online
    <2>3. QED
      BY <2>1, <2>2
  <1>7. QED
    BY <1>4, <1>5, <1>6 DEF RegistryBijective, Online

LEMMA StepKeepsRegistry ==
  ASSUME RegistryInv, [Next]_vars
  PROVE  RegistryBijective' /\ UidsIssued'
  <1>1. CASE UNCHANGED <<playerMap, uidToAccount, uidCounter>>
    BY <1>1, UpdateKeepsRegistry
  <1>2. ASSUME NEW g \in Gateways,
               do_accept(g) \/ ReadPayload(g) \/ BadHeader(g) \/ OnDisconnected(g)
        PROVE  UNCHANGED <<playerMap, uidToAccount, uidCounter>>
    BY <1>2 DEF do_accept, ReadPayload, BadHeader, OnDisconnected, registry
  <1>3. CASE Handle_GatewayGameMoveReq
    <2> DEFINE t == Head(strand)
    <2>1. CASE ~Online(t.acct) /\ Register(t.gw, t.acct, Clamp(t.to))
      BY <2>1, RegisterKeepsRegistry
    <2>2. CASE Online(t.acct) /\ Relocate(t.acct, Clamp(t.to))
      <3>1. playerMap[t.acct] \in Players
        BY <2>2 DEF Online, RegistryInv, TypeOK
      <3>2. /\ DOMAIN playerMap' = DOMAIN playerMap
            /\ \A a \in DOMAIN playerMap : playerMap'[a].uid = playerMap[a].uid
        BY <2>2, <3>1 DEF Relocate, Players, RegistryInv, TypeOK
      <3>3. QED
        BY <2>2, <3>2, UpdateKeepsRegistry DEF Relocate
    <2>3. QED
      BY <1>3, <2>1, <2>2 DEF Handle_GatewayGameMoveReq
  <1>4. CASE Handle_GatewayGameLeaveReq
    <2> DEFINE a == Head(strand).acct
    <2>1. CASE UNCHANGED <<registry, mirror>>
      BY <1>1, <2>1 DEF registry
    <2>2. CASE /\ Online(a)
               /\ playerMap' = Without(playerMap, {a})
               /\ uidToAccount' = EraseUids({playerMap[a].uid})
               /\ UNCHANGED uidCounter
      <3>1. {playerMap[b].uid : b \in {a}} = {playerMap[a].uid}
        OBVIOUS
      <3> HIDE DEF a
      <3>2. {a} \in SUBSET DOMAIN playerMap
        BY <2>2 DEF Online
      <3>3. QED
        BY <2>2, <3>1, <3>2, RemovalKeepsRegistry
    <2>3. QED
      BY <1>4, <2>1, <2>2 DEF Handle_GatewayGameLeaveReq
  <1>5. CASE CleanupGateway
    <2> DEFINE gone == {a \in GetPlayersOfGateway(Head(strand).gw) : Online(a)}
    <2>1. gone \in SUBSET DOMAIN playerMap
      BY DEF Online
    <2>2. /\ playerMap' = Without(playerMap, gone)
          /\ uidToAccount' = EraseUids({playerMap[a].uid : a \in gone})
          /\ UNCHANGED uidCounter
      BY <1>5 DEF CleanupGateway
    <2> HIDE DEF gone
    <2>3. QED
      BY <2>1, <2>2, RemovalKeepsRegistry
  <1>6. ASSUME NEW u \in DOMAIN uidToAccount, MonsterHit(u)
        PROVE  RegistryBijective' /\ UidsIssued'
    <2> DEFINE a == uidToAccount[u]
    <2>1. a \in DOMAIN playerMap /\ playerMap[a] \in Players
      BY <1>6 DEF MonsterHit, Online, RegistryInv, TypeOK
    <2>2. PICK hp, pos :
             playerMap' = [playerMap EXCEPT ![a].hp = hp, ![a].pos = pos]
      BY <1>6 DEF MonsterHit
    <2>3. /\ DOMAIN playerMap' = DOMAIN playerMap
          /\ \A b \in DOMAIN playerMap : playerMap'[b].uid = playerMap[b].uid
      BY <2>1, <2>2 DEF Players, RegistryInv, TypeOK
    <2>4. QED
      BY <1>6, <2>3, UpdateKeepsRegistry DEF MonsterHit
  <1>7. CASE UNCHANGED vars
    BY <1>1, <1>7 DEF vars, registry
  <1>8. QED
    BY <1>1, <1>2, <1>3, <1>4, <1>5, <1>6, <1>7 DEF Next, RunTask

\* The two maps of the registry stay inverse to each other, and every uid in
\* use is below the counter, for any number of sessions, accounts, packets.
THEOREM RegistryCorrect == Spec => [](RegistryBijective /\ UidsIssued)
  <1>1. Init => RegistryBijective /\ UidsIssued
    BY EmptyDomain DEF Init, RegistryBijective, UidsIssued
  <1>2. TypeOK /\ RegistryBijective /\ UidsIssued /\ [Next]_vars
          => RegistryBijective' /\ UidsIssued'
    BY StepKeepsRegistry DEF RegistryInv
  <1>3. QED
    BY <1>1, <1>2, TypeCorrect, PTL DEF Spec

\* A uid is never bound to a second account.
THEOREM UidsNeverRebound == Spec => UidNeverRebound
  <1>1. ASSUME TypeOK, RegistryBijective /\ UidsIssued, [Next]_vars
        PROVE  [\A u \in DOMAIN uidToAccount' :
                  \/ u \in DOMAIN uidToAccount /\ uidToAccount'[u] = uidToAccount[u]
                  \/ u \notin DOMAIN uidToAccount /\ u >= uidCounter]_vars
    <2> SUFFICES ASSUME NEW u \in DOMAIN uidToAccount'
                 PROVE  \/ u \in DOMAIN uidToAccount /\ uidToAccount'[u] = uidToAccount[u]
                        \/ u \notin DOMAIN uidToAccount /\ u >= uidCounter
      OBVIOUS
    <2>1. uidCounter \in Nat /\ uidCounter \notin DOMAIN uidToAccount
      BY <1>1 DEF UidsIssued, TypeOK
    <2>2. CASE UNCHANGED uidToAccount
      BY <2>2
    <2>3. CASE \E g, a, pos : Register(g, a, pos)
      BY <2>1, <2>3 DEF Register, With
    <2>4. CASE \E uids : uidToAccount' = EraseUids(uids)
      BY <2>4 DEF EraseUids, Without, Restrict
    <2>5. QED
      BY <1>1, <2>2, <2>3, <2>4
      DEF Next, RunTask, do_accept, ReadPayload, BadHeader, OnDisconnected, registry, vars,
          Handle_GatewayGameMoveReq, Handle_GatewayGameLeaveReq, CleanupGateway,
          MonsterHit, Relocate
  <1>2. QED
    BY <1>1, TypeCorrect, RegistryCorrect, PTL DEF Spec, UidNeverRebound

-------------------------------------------------------------------------------
(* No zombies.  A session's packets stay in front of its cleanup in the    *)
(* strand, so when the cleanup has run nothing can add to its set again.   *)

FromCleanup(i) == strand[i].kind = "cleanup"

\* A task comes from a session that was accepted; a cleanup from a closed one.
SendersKnown ==
  \A i \in DOMAIN strand :
    /\ link[strand[i].gw] # "new"
    /\ FromCleanup(i) => link[strand[i].gw] = "closed"

\* The cleanup of a session is the last of its tasks.
CleanupLast ==
  \A i, j \in DOMAIN strand : i < j /\ FromCleanup(i) => strand[j].gw # strand[i].gw

\* Whose packets are still in the strand is still accountable.
SendersAccountable ==
  \A g \in Gateways : (\E i \in DOMAIN strand : strand[i].gw = g) => Accountable(g)

\* Only accountable sessions have players, and every player has a session.
OwnersAccountable == \A g \in Gateways : gatewayPlayerMap[g] # {} => Accountable(g)
EverybodyOwned == \A a \in DOMAIN playerMap : \E g \in Gateways : a \in gatewayPlayerMap[g]

ZombieInv == SendersKnown /\ CleanupLast /\ SendersAccountable
               /\ OwnersAccountable /\ EverybodyOwned

\* What a posted task changes: one more entry at the end of the strand.
LEMMA PostFacts ==
  ASSUME TypeOK, NEW t \in Tasks, strand' = Append(strand, t)
  PROVE  /\ DOMAIN strand' = DOMAIN strand \cup {Len(strand) + 1}
         /\ \A i \in DOMAIN strand : i \in Nat /\ i < Len(strand) + 1 /\ strand'[i] = strand[i]
         /\ strand'[Len(strand) + 1] = t
  BY DEF TypeOK

\* What running a task changes: the first entry goes, the others move up.
LEMMA TakeFacts ==
  ASSUME TypeOK, NEW kind, Take(kind)
  PROVE  /\ 1 \in DOMAIN strand
         /\ strand[1] = Head(strand)
         /\ strand[1].kind = kind
         /\ \A i \in DOMAIN strand' : /\ i \in Nat
                                      /\ i + 1 \in DOMAIN strand
                                      /\ strand'[i] = strand[i + 1]
         /\ \A i \in DOMAIN strand : i # 1 => /\ i \in Nat
                                              /\ i - 1 \in DOMAIN strand'
                                              /\ strand'[i - 1] = strand[i]
  <1>1. strand \in Seq(Tasks) /\ strand # <<>> /\ strand' = Tail(strand)
    BY DEF TypeOK, Take
  <1>2. Len(strand) \in Nat /\ Len(strand) > 0 /\ DOMAIN strand = 1..Len(strand)
    BY <1>1
  <1>3. /\ DOMAIN strand' = 1..(Len(strand) - 1)
        /\ \A i \in 1..(Len(strand) - 1) : strand'[i] = strand[i + 1]
    BY <1>1, <1>2
  <1>4. QED
    BY <1>1, <1>2, <1>3 DEF Take

\* Posting a packet of an open session.
LEMMA PostKeepsStrand ==
  ASSUME TypeOK, ZombieInv, NEW g \in Gateways, link[g] = "open",
         NEW t \in PacketTasks, t.gw = g, strand' = Append(strand, t), UNCHANGED link
  PROVE  /\ SendersKnown' /\ CleanupLast' /\ SendersAccountable'
         /\ \A h \in Gateways : Accountable(h) => Accountable(h)'
  <1>1. t \in Tasks /\ t.kind # "cleanup"
    BY DEF Tasks, PacketTasks
  <1>2. \A h \in Gateways : Accountable(h) => Accountable(h)'
    BY <1>1, PostFacts DEF Accountable, CleanupDue
  <1>3. \A i \in DOMAIN strand : strand[i].gw \in Gateways
    BY DEF TypeOK, Tasks, PacketTasks, CleanupTasks
  <1>4. SendersKnown'
    BY <1>1, PostFacts DEF ZombieInv, SendersKnown, FromCleanup
  <1>5. CleanupLast'
    <2> SUFFICES ASSUME NEW i \in DOMAIN strand', NEW j \in DOMAIN strand',
                        i < j, strand'[i].kind = "cleanup"
                 PROVE  strand'[j].gw # strand'[i].gw
      BY DEF CleanupLast, FromCleanup
    <2>1. i \in DOMAIN strand /\ strand'[i] = strand[i]
      BY <1>1, PostFacts
    <2>2. CASE j \in DOMAIN strand
      BY <2>1, <2>2, <1>1, PostFacts DEF ZombieInv, CleanupLast, FromCleanup
    <2>3. CASE j = Len(strand) + 1
      BY <2>1, <2>3, <1>1, PostFacts DEF ZombieInv, SendersKnown, FromCleanup
    <2>4. QED
      BY <2>2, <2>3, <1>1, PostFacts
  <1>6. SendersAccountable'
    <2> SUFFICES ASSUME NEW h \in Gateways, NEW i \in DOMAIN strand', strand'[i].gw = h
                 PROVE  Accountable(h)'
      BY DEF SendersAccountable
    <2>1. CASE i \in DOMAIN strand
      BY <2>1, <1>1, <1>2, PostFacts DEF ZombieInv, SendersAccountable
    <2>2. CASE i = Len(strand) + 1
      BY <2>2, <1>1, PostFacts DEF Accountable
    <2>3. QED
      BY <2>1, <2>2, <1>1, PostFacts
  <1>7. QED
    BY <1>2, <1>4, <1>5, <1>6

\* Posting the cleanup of a session whose connection broke.
LEMMA CloseKeepsStrand ==
  ASSUME TypeOK, ZombieInv, NEW g \in Gateways, OnDisconnected(g)
  PROVE  /\ SendersKnown' /\ CleanupLast' /\ SendersAccountable'
         /\ \A h \in Gateways : Accountable(h) => Accountable(h)'
  <1> DEFINE t == [kind |-> "cleanup", gw |-> g]
  <1>1. t \in Tasks /\ t.kind = "cleanup" /\ t.gw = g
    BY DEF Tasks, CleanupTasks
  <1>2. strand' = Append(strand, t) /\ link' = [link EXCEPT ![g] = "closed"]
    BY DEF OnDisconnected
  <1> HIDE DEF t
  <1>3. CleanupDue(g)'
    BY <1>1, <1>2, PostFacts DEF CleanupDue
  <1>4. \A h \in Gateways : h # g => link'[h] = link[h]
    BY <1>2 DEF TypeOK
  <1>5. link'[g] = "closed" /\ link[g] = "open"
    BY <1>2 DEF TypeOK, OnDisconnected
  <1>6. \A h \in Gateways : Accountable(h) => Accountable(h)'
    <2> SUFFICES ASSUME NEW h \in Gateways, Accountable(h), h # g
                 PROVE  Accountable(h)'
      BY <1>3 DEF Accountable
    <2>1. CleanupDue(h) => CleanupDue(h)'
      BY <1>1, <1>2, PostFacts DEF CleanupDue
    <2>2. QED
      BY <1>4, <2>1 DEF Accountable
  <1>7. \A i \in DOMAIN strand : strand[i].gw \in Gateways
    BY DEF TypeOK, Tasks, PacketTasks, CleanupTasks
  <1>8. SendersKnown'
    <2> SUFFICES ASSUME NEW i \in DOMAIN strand'
                 PROVE  /\ link'[strand'[i].gw] # "new"
                        /\ strand'[i].kind = "cleanup" => link'[strand'[i].gw] = "closed"
      BY DEF SendersKnown, FromCleanup
    <2>1. CASE i \in DOMAIN strand
      <3>1. strand'[i] = strand[i]
        BY <1>1, <1>2, <2>1, PostFacts
      <3>2. QED
        BY <1>4, <1>5, <1>7, <2>1, <3>1 DEF ZombieInv, SendersKnown, FromCleanup
    <2>2. CASE i = Len(strand) + 1
      BY <1>1, <1>2, <1>5, <2>2, PostFacts
    <2>3. QED
      BY <1>1, <1>2, <2>1, <2>2, PostFacts
  <1>9. CleanupLast'
    <2> SUFFICES ASSUME NEW i \in DOMAIN strand', NEW j \in DOMAIN strand',
                        i < j, strand'[i].kind = "cleanup"
                 PROVE  strand'[j].gw # strand'[i].gw
      BY DEF CleanupLast, FromCleanup
    <2>1. i \in DOMAIN strand /\ strand'[i] = strand[i]
      BY <1>1, <1>2, PostFacts
    <2>2. CASE j \in DOMAIN strand
      BY <2>1, <2>2, <1>1, <1>2, PostFacts DEF ZombieInv, CleanupLast, FromCleanup
    <2>3. CASE j = Len(strand) + 1
      <3>1. strand'[j].gw = g
        BY <1>1, <1>2, <2>3, PostFacts
      <3>2. QED
        BY <1>5, <2>1, <3>1 DEF ZombieInv, SendersKnown, FromCleanup
    <2>4. QED
      BY <2>2, <2>3, <1>1, <1>2, PostFacts
  <1>10. SendersAccountable'
    <2> SUFFICES ASSUME NEW h \in Gateways, h # g, NEW i \in DOMAIN strand', strand'[i].gw = h
                 PROVE  Accountable(h)'
      BY <1>3 DEF SendersAccountable, Accountable
    <2>1. i \in DOMAIN strand /\ strand[i].gw = h
      BY <1>1, <1>2, PostFacts
    <2>2. QED
      BY <2>1, <1>6 DEF ZombieInv, SendersAccountable
  <1>11. QED
    BY <1>6, <1>8, <1>9, <1>10

\* Running a packet's task leaves every session as accountable as it was.
LEMMA PacketTakenKeepsStrand ==
  ASSUME TypeOK, ZombieInv, NEW kind, kind # "cleanup", Take(kind), UNCHANGED link
  PROVE  /\ SendersKnown' /\ CleanupLast' /\ SendersAccountable'
         /\ \A h \in Gateways : Accountable(h) => Accountable(h)'
  <1>1. \A h \in Gateways : Accountable(h) => Accountable(h)'
    <2> SUFFICES ASSUME NEW h \in Gateways, CleanupDue(h)
                 PROVE  CleanupDue(h)'
      BY DEF Accountable
    <2>1. PICK i \in DOMAIN strand : strand[i].kind = "cleanup" /\ strand[i].gw = h
      BY DEF CleanupDue
    <2>2. i # 1
      BY <2>1, TakeFacts
    <2>3. QED
      BY <2>1, <2>2, TakeFacts DEF CleanupDue
  <1>2. SendersKnown' /\ CleanupLast'
    BY TakeFacts DEF ZombieInv, SendersKnown, CleanupLast, FromCleanup
  <1>3. SendersAccountable'
    <2> SUFFICES ASSUME NEW h \in Gateways, NEW i \in DOMAIN strand', strand'[i].gw = h
                 PROVE  Accountable(h)'
      BY DEF SendersAccountable
    <2>1. i + 1 \in DOMAIN strand /\ strand[i + 1].gw = h
      BY TakeFacts
    <2>2. QED
      BY <2>1, <1>1 DEF ZombieInv, SendersAccountable
  <1>4. QED
    BY <1>1, <1>2, <1>3

\* Running a cleanup: only its own session stops being accountable, and it
\* has no task left.
LEMMA CleanupTakenKeepsStrand ==
  ASSUME TypeOK, ZombieInv, Take("cleanup"), UNCHANGED link
  PROVE  /\ SendersKnown' /\ CleanupLast' /\ SendersAccountable'
         /\ \A h \in Gateways : h # Head(strand).gw /\ Accountable(h) => Accountable(h)'
  <1> DEFINE g == Head(strand).gw
  <1>1. strand[1].kind = "cleanup" /\ strand[1].gw = g /\ 1 \in DOMAIN strand
    BY TakeFacts
  <1> HIDE DEF g
  <1>2. \A h \in Gateways : h # g /\ Accountable(h) => Accountable(h)'
    <2> SUFFICES ASSUME NEW h \in Gateways, h # g, CleanupDue(h)
                 PROVE  CleanupDue(h)'
      BY DEF Accountable
    <2>1. PICK i \in DOMAIN strand : strand[i].kind = "cleanup" /\ strand[i].gw = h
      BY DEF CleanupDue
    <2>2. i # 1
      BY <1>1, <2>1
    <2>3. QED
      BY <2>1, <2>2, TakeFacts DEF CleanupDue
  <1>3. SendersKnown' /\ CleanupLast'
    BY TakeFacts DEF ZombieInv, SendersKnown, CleanupLast, FromCleanup
  <1>4. SendersAccountable'
    <2> SUFFICES ASSUME NEW h \in Gateways, NEW i \in DOMAIN strand', strand'[i].gw = h
                 PROVE  Accountable(h)'
      BY DEF SendersAccountable
    <2>1. /\ i \in Nat /\ i + 1 \in DOMAIN strand /\ strand[i + 1].gw = h
          /\ i + 1 > 1
      <3>1. i \in Nat /\ i + 1 \in DOMAIN strand /\ strand[i + 1].gw = h
        BY TakeFacts
      <3>2. DOMAIN strand' \subseteq Nat \ {0}
        BY TakeType DEF TypeOK
      <3>3. QED
        BY <3>1, <3>2
    <2>2. h # g
      BY <1>1, <2>1 DEF ZombieInv, CleanupLast, FromCleanup
    <2>3. QED
      BY <1>2, <2>1, <2>2 DEF ZombieInv, SendersAccountable
  <1>5. QED
    BY <1>2, <1>3, <1>4 DEF g

-------------------------------------------------------------------------------

\* A step that takes no player away from a session and brings none in.
LEMMA StillOwned ==
  ASSUME ZombieInv, UNCHANGED gatewayPlayerMap, DOMAIN playerMap' = DOMAIN playerMap,
         \A h \in Gateways : Accountable(h) => Accountable(h)'
  PROVE  OwnersAccountable' /\ EverybodyOwned'
  BY DEF ZombieInv, OwnersAccountable, EverybodyOwned

\* A move registers the account under the session that sent the packet, which
\* is accountable because the packet was still in the strand.
LEMMA MoveKeepsOwned ==
  ASSUME TypeOK, ZombieInv, Handle_GatewayGameMoveReq
  PROVE  OwnersAccountable' /\ EverybodyOwned'
  <1> DEFINE g == Head(strand).gw
             a == Head(strand).acct
  <1>1. Take("move") /\ UNCHANGED link
    BY DEF Handle_GatewayGameMoveReq, network
  <1>2. \A h \in Gateways : Accountable(h) => Accountable(h)'
    BY <1>1, PacketTakenKeepsStrand
  <1>3. g \in Gateways /\ a \in Accounts /\ Accountable(g)
    <2>1. 1 \in DOMAIN strand /\ strand[1] = Head(strand) /\ strand[1].kind = "move"
      BY <1>1, TakeFacts
    <2>2. strand[1] \in Tasks
      BY <2>1 DEF TypeOK
    <2>3. g \in Gateways /\ a \in Accounts
      BY <2>1, <2>2 DEF Tasks, PacketTasks, CleanupTasks
    <2>4. QED
      BY <2>1, <2>3 DEF ZombieInv, SendersAccountable
  <1>4. CASE Register(g, a, Clamp(Head(strand).to))
    <2>1. /\ DOMAIN playerMap' = DOMAIN playerMap \cup {a}
          /\ gatewayPlayerMap' = [gatewayPlayerMap EXCEPT ![g] = @ \cup {a}]
      BY <1>4 DEF Register, With, RegisterPlayerToGateway
    <2> HIDE DEF g, a
    <2>2. \A h \in Gateways : /\ gatewayPlayerMap[h] \subseteq gatewayPlayerMap'[h]
                              /\ h # g => gatewayPlayerMap'[h] = gatewayPlayerMap[h]
      BY <2>1 DEF TypeOK
    <2>3. a \in gatewayPlayerMap'[g]
      BY <1>3, <2>1 DEF TypeOK
    <2>4. QED
      BY <1>2, <1>3, <2>1, <2>2, <2>3 DEF ZombieInv, OwnersAccountable, EverybodyOwned
  <1>5. CASE Online(a) /\ Relocate(a, Clamp(Head(strand).to))
    <2>1. UNCHANGED gatewayPlayerMap /\ DOMAIN playerMap' = DOMAIN playerMap
      BY <1>5 DEF Relocate
    <2>2. QED
      BY <1>2, <2>1, StillOwned
  <1>6. QED
    BY <1>4, <1>5 DEF Handle_GatewayGameMoveReq

\* A leave takes the account from the sender's set, and offline as well.
LEMMA LeaveKeepsOwned ==
  ASSUME TypeOK, ZombieInv, Handle_GatewayGameLeaveReq
  PROVE  OwnersAccountable' /\ EverybodyOwned'
  <1> DEFINE g == Head(strand).gw
             a == Head(strand).acct
  <1>1. Take("leave") /\ UNCHANGED link
    BY DEF Handle_GatewayGameLeaveReq, network
  <1>2. \A h \in Gateways : Accountable(h) => Accountable(h)'
    BY <1>1, PacketTakenKeepsStrand
  <1>3. CASE ~Online(a) /\ UNCHANGED <<registry, mirror>>
    <2>1. UNCHANGED gatewayPlayerMap /\ DOMAIN playerMap' = DOMAIN playerMap
      BY <1>3 DEF registry
    <2>2. QED
      BY <1>2, <2>1, StillOwned
  <1>4. CASE /\ playerMap' = Without(playerMap, {a})
             /\ gatewayPlayerMap' = UnregisterPlayerFromGateway(g, a)
    <2>1. DOMAIN playerMap' = DOMAIN playerMap \ {a}
      BY <1>4 DEF Without, Restrict
    <2>2. gatewayPlayerMap' = [gatewayPlayerMap EXCEPT ![g] = @ \ {a}]
      BY <1>4 DEF UnregisterPlayerFromGateway
    <2> HIDE DEF g, a
    <2>3. \A h \in Gateways : /\ gatewayPlayerMap[h] \ {a} \subseteq gatewayPlayerMap'[h]
                              /\ gatewayPlayerMap'[h] \subseteq gatewayPlayerMap[h]
      BY <2>2 DEF TypeOK
    <2>4. OwnersAccountable'
      BY <1>2, <2>3 DEF ZombieInv, OwnersAccountable
    <2>5. EverybodyOwned'
      BY <2>1, <2>3 DEF ZombieInv, EverybodyOwned
    <2>6. QED
      BY <2>4, <2>5
  <1>5. QED
    BY <1>3, <1>4 DEF Handle_GatewayGameLeaveReq

\* A cleanup ends the session's claim on every player of its set; a player
\* who stays online was not in it, so another session owns that player.
LEMMA CleanupKeepsOwned ==
  ASSUME TypeOK, ZombieInv, CleanupGateway
  PROVE  OwnersAccountable' /\ EverybodyOwned'
  <1> DEFINE g == Head(strand).gw
             gone == {a \in GetPlayersOfGateway(g) : Online(a)}
  <1>1. Take("cleanup") /\ UNCHANGED link
    BY DEF CleanupGateway, network
  <1>2. \A h \in Gateways : h # g /\ Accountable(h) => Accountable(h)'
    BY <1>1, CleanupTakenKeepsStrand
  <1>3. /\ playerMap' = Without(playerMap, gone)
        /\ gatewayPlayerMap' = [gatewayPlayerMap EXCEPT ![g] = {}]
    BY DEF CleanupGateway
  <1>4. DOMAIN playerMap' = DOMAIN playerMap \ gatewayPlayerMap[g]
    BY <1>3 DEF Without, Restrict, GetPlayersOfGateway, Online
  <1> HIDE DEF g, gone
  <1>5. \A h \in Gateways : /\ h # g => gatewayPlayerMap'[h] = gatewayPlayerMap[h]
                            /\ h = g => gatewayPlayerMap'[h] = {}
    BY <1>3 DEF TypeOK
  <1>6. OwnersAccountable'
    BY <1>2, <1>5 DEF ZombieInv, OwnersAccountable
  <1>7. EverybodyOwned'
    BY <1>4, <1>5 DEF ZombieInv, EverybodyOwned
  <1>8. QED
    BY <1>6, <1>7

LEMMA StepKeepsZombieInv ==
  ASSUME TypeOK, ZombieInv, [Next]_vars
  PROVE  ZombieInv'
  <1>1. ASSUME NEW g \in Gateways, do_accept(g) PROVE ZombieInv'
    <2>1. /\ link' = [link EXCEPT ![g] = "open"] /\ link[g] = "new"
          /\ UNCHANGED <<strand, playerMap, gatewayPlayerMap>>
      BY <1>1 DEF do_accept, registry
    <2>2. \A h \in Gateways : /\ h # g => link'[h] = link[h]
                              /\ h = g => link'[h] = "open"
      BY <2>1 DEF TypeOK
    <2>3. \A h \in Gateways : Accountable(h) => Accountable(h)'
      BY <2>1, <2>2 DEF Accountable, CleanupDue
    <2>4. \A i \in DOMAIN strand : strand[i].gw \in Gateways /\ strand[i].gw # g
      BY <2>1 DEF TypeOK, Tasks, PacketTasks, CleanupTasks, ZombieInv, SendersKnown
    <2>5. SendersKnown'
      BY <2>1, <2>2, <2>4 DEF ZombieInv, SendersKnown, FromCleanup
    <2>6. CleanupLast' /\ SendersAccountable'
      BY <2>1, <2>3 DEF ZombieInv, CleanupLast, SendersAccountable, FromCleanup
    <2>7. QED
      BY <2>1, <2>3, <2>5, <2>6, StillOwned DEF ZombieInv
  <1>2. ASSUME NEW g \in Gateways, BadHeader(g) PROVE ZombieInv'
    <2>1. /\ link' = [link EXCEPT ![g] = "stuck"] /\ link[g] = "open"
          /\ UNCHANGED <<strand, playerMap, gatewayPlayerMap>>
      BY <1>2 DEF BadHeader, registry
    <2>2. \A h \in Gateways : /\ h # g => link'[h] = link[h]
                              /\ h = g => link'[h] = "stuck"
      BY <2>1 DEF TypeOK
    <2>3. \A h \in Gateways : Accountable(h) => Accountable(h)'
      BY <2>1, <2>2 DEF Accountable, CleanupDue
    <2>4. \A i \in DOMAIN strand : strand[i].gw \in Gateways
      BY DEF TypeOK, Tasks, PacketTasks, CleanupTasks
    <2>5. SendersKnown'
      BY <2>1, <2>2, <2>4 DEF ZombieInv, SendersKnown, FromCleanup
    <2>6. CleanupLast' /\ SendersAccountable'
      BY <2>1, <2>3 DEF ZombieInv, CleanupLast, SendersAccountable, FromCleanup
    <2>7. QED
      BY <2>1, <2>3, <2>5, <2>6, StillOwned DEF ZombieInv
  <1>3. ASSUME NEW g \in Gateways, ReadPayload(g) PROVE ZombieInv'
    <2>1. /\ link[g] = "open" /\ UNCHANGED <<link, playerMap, gatewayPlayerMap>>
          /\ \E t \in PacketTasks : t.gw = g /\ strand' = Append(strand, t)
      BY <1>3 DEF ReadPayload, registry
    <2>2. QED
      BY <2>1, PostKeepsStrand, StillOwned DEF ZombieInv
  <1>4. ASSUME NEW g \in Gateways, OnDisconnected(g) PROVE ZombieInv'
    <2>1. UNCHANGED <<playerMap, gatewayPlayerMap>>
      BY <1>4 DEF OnDisconnected, registry
    <2>2. QED
      BY <1>4, <2>1, CloseKeepsStrand, StillOwned DEF ZombieInv
  <1>5. CASE Handle_GatewayGameMoveReq
    <2>1. Take("move") /\ UNCHANGED link
      BY <1>5 DEF Handle_GatewayGameMoveReq, network
    <2>2. QED
      BY <1>5, <2>1, PacketTakenKeepsStrand, MoveKeepsOwned DEF ZombieInv
  <1>6. CASE Handle_GatewayGameLeaveReq
    <2>1. Take("leave") /\ UNCHANGED link
      BY <1>6 DEF Handle_GatewayGameLeaveReq, network
    <2>2. QED
      BY <1>6, <2>1, PacketTakenKeepsStrand, LeaveKeepsOwned DEF ZombieInv
  <1>7. CASE CleanupGateway
    <2>1. Take("cleanup") /\ UNCHANGED link
      BY <1>7 DEF CleanupGateway, network
    <2>2. QED
      BY <1>7, <2>1, CleanupTakenKeepsStrand, CleanupKeepsOwned DEF ZombieInv
  <1>8. ASSUME NEW u \in DOMAIN uidToAccount, MonsterHit(u) PROVE ZombieInv'
    <2>1. UNCHANGED <<link, strand, gatewayPlayerMap>> /\ DOMAIN playerMap' = DOMAIN playerMap
      BY <1>8 DEF MonsterHit, network
    <2>2. \A h \in Gateways : Accountable(h) => Accountable(h)'
      BY <2>1 DEF Accountable, CleanupDue
    <2>3. SendersKnown' /\ CleanupLast' /\ SendersAccountable'
      BY <2>1, <2>2 DEF ZombieInv, SendersKnown, CleanupLast, SendersAccountable, FromCleanup
    <2>4. QED
      BY <2>1, <2>2, <2>3, StillOwned DEF ZombieInv
  <1>9. CASE UNCHANGED vars
    <2>1. UNCHANGED <<link, strand, playerMap, gatewayPlayerMap>>
      BY <1>9 DEF vars, network, registry
    <2>2. QED
      BY <2>1 DEF ZombieInv, SendersKnown, CleanupLast, SendersAccountable, FromCleanup,
                  OwnersAccountable, EverybodyOwned, Accountable, CleanupDue
  <1>10. QED
    BY <1>1, <1>2, <1>3, <1>4, <1>5, <1>6, <1>7, <1>8, <1>9 DEF Next, RunTask

LEMMA ZombieInvHolds == Spec => []ZombieInv
  <1>1. Init => ZombieInv
    BY DEF Init, ZombieInv, SendersKnown, CleanupLast, SendersAccountable, FromCleanup,
           OwnersAccountable, EverybodyOwned
  <1>2. TypeOK /\ ZombieInv /\ [Next]_vars => ZombieInv'
    BY StepKeepsZombieInv
  <1>3. QED
    BY TypeCorrect, <1>1, <1>2, PTL DEF Spec

\* Every online player is in the set of a session that is open, that got stuck on
\* a bad header (no disconnection of it is ever noticed), or whose cleanup is still
\* to run, for any number of gateways and accounts, any interleaving of their
\* packets and any monster hits.
THEOREM NoZombies == Spec => []NoZombie
  <1>1. ZombieInv => NoZombie
    BY DEF ZombieInv, OwnersAccountable, EverybodyOwned, NoZombie
  <1>2. QED
    BY ZombieInvHolds, <1>1, PTL

-------------------------------------------------------------------------------
(* What a step does to the players, the zone and the mirror at once.       *)

\* What is left of the commands that report hp for account a.
HpSet(a, hp) ==
  redisUp' =>
    /\ redisUp
    /\ DOMAIN redis' \subseteq DOMAIN redis \cup {a}
    /\ \A b \in DOMAIN redis \ {a} : b \in DOMAIN redis' /\ redis'[b] = redis[b]
    /\ refused' \in {refused \ {a}, refused \cup {a}}
    /\ a \notin refused' => a \in DOMAIN redis' /\ redis'[a] = hp

\* What is left of those that delete the hashes of the accounts as.
HashesDeleted(as) ==
  redisUp' =>
    /\ redisUp
    /\ DOMAIN redis' \subseteq DOMAIN redis
    /\ \A b \in DOMAIN redis \ as : b \in DOMAIN redis' /\ redis'[b] = redis[b]
    /\ refused \ as \subseteq refused' /\ refused' \subseteq refused \cup as
    /\ DOMAIN redis' \cap as \subseteq refused'

LEMMA RedisEffect ==
  ASSUME redisUp \in BOOLEAN
  PROVE  /\ \A a, hp : SetPlayerOnline(a, hp) \/ UpdatePlayerHp(a, hp) => HpSet(a, hp)
         /\ \A as : RemovePlayers(as) => (as = {} /\ UNCHANGED mirror) \/ HashesDeleted(as)
<1>1. ASSUME NEW a, NEW hp, SetPlayerOnline(a, hp) \/ UpdatePlayerHp(a, hp) PROVE HpSet(a, hp)
  <2> SUFFICES ASSUME RedisRun({a}, With(redis, a, hp)), redisUp' PROVE HpSet(a, hp)
    BY <1>1 DEF SetPlayerOnline, UpdatePlayerHp, HpSet
  <2>1. PICK failed \in SUBSET {a} :
          /\ redisUp
          /\ redis' = Without(With(redis, a, hp), failed)
          /\ refused' = (refused \ {a}) \cup failed
    BY DEF RedisRun, mirror
  <2>2. failed = {} \/ failed = {a}
    OBVIOUS
  <2>3. /\ DOMAIN redis' = (DOMAIN redis \cup {a}) \ failed
        /\ \A b \in DOMAIN redis' : redis'[b] = IF b = a THEN hp ELSE redis[b]
    BY <2>1 DEF Without, Restrict, With
  <2> QED
    BY <2>1, <2>2, <2>3 DEF HpSet
<1>2. ASSUME NEW as, RemovePlayers(as)
      PROVE  (as = {} /\ UNCHANGED mirror) \/ HashesDeleted(as)
  <2> SUFFICES ASSUME RedisRun(as, Without(redis, as)), redisUp' PROVE HashesDeleted(as)
    BY <1>2 DEF RemovePlayers, HashesDeleted
  <2>1. PICK failed \in SUBSET as :
          /\ redisUp
          /\ redis' = Without(Without(redis, as), failed)
          /\ refused' = (refused \ as) \cup failed
    BY DEF RedisRun, mirror
  <2>2. DOMAIN redis' = DOMAIN redis \ as /\ \A b \in DOMAIN redis' : redis'[b] = redis[b]
    BY <2>1 DEF Without, Restrict
  <2> QED
    BY <2>1, <2>2 DEF HashesDeleted
<1> QED
  BY <1>1, <1>2

Joined(a, pos) ==
  /\ ~Online(a)
  /\ playerMap' = With(playerMap, a, [uid |-> uidCounter, pos |-> pos, hp |-> DefaultHp])
  /\ sectors' = UpdatePosition(EnterZone(sectors, uidCounter, pos), uidCounter, pos, pos)
  /\ HpSet(a, DefaultHp)
  /\ uidToAccount' = With(uidToAccount, uidCounter, a)
  /\ uidCounter' = uidCounter + 1

Moved(a, pos, hp) ==
  /\ Online(a)
  /\ DOMAIN playerMap' = DOMAIN playerMap
  /\ \A b \in DOMAIN playerMap \ {a} : playerMap'[b] = playerMap[b]
  /\ playerMap'[a].uid = playerMap[a].uid
  /\ playerMap'[a].pos = pos /\ playerMap'[a].hp = hp
  /\ sectors' = UpdatePosition(sectors, playerMap[a].uid, playerMap[a].pos, pos)
  /\ \/ hp = playerMap[a].hp /\ UNCHANGED mirror
     \/ HpSet(a, hp)
  /\ UNCHANGED <<uidToAccount, uidCounter>>

Removed(gone) ==
  /\ gone \subseteq DOMAIN playerMap
  /\ playerMap' = Without(playerMap, gone)
  /\ \A s \in Sectors : sectors'[s] = sectors[s] \
       {playerMap[a].uid : a \in {b \in gone : OnMap(playerMap[b].pos)
                                               /\ SectorOf(playerMap[b].pos) = s}}
  /\ (gone = {} /\ UNCHANGED mirror) \/ HashesDeleted(gone)
  /\ uidToAccount' = Without(uidToAccount, {playerMap[a].uid : a \in gone})
  /\ UNCHANGED uidCounter
  /\ strand # <<>>
  /\ \/ Head(strand).kind = "leave" /\ gone = {Head(strand).acct}
     \/ Head(strand).kind = "cleanup" /\ gone \subseteq gatewayPlayerMap[Head(strand).gw]

\* Where a player may be put.
Landings == {Clamp(p) : p \in Requests} \cup {Spawn}

LEMMA PlayersChange ==
  ASSUME TypeOK, RegistryBijective, [Next]_vars
  PROVE  \/ UNCHANGED <<playerMap, sectors, mirror, uidToAccount, uidCounter>>
         \/ \E a, pos : Joined(a, pos) /\ pos \in Landings
         \/ \E a, pos, hp : /\ Moved(a, pos, hp)
                            /\ pos \in Landings \/ pos = playerMap[a].pos
         \/ \E gone : Removed(gone)
<1>1. CASE UNCHANGED vars
  BY <1>1 DEF vars, registry
<1>2. ASSUME NEW g \in Gateways,
             do_accept(g) \/ ReadPayload(g) \/ BadHeader(g) \/ OnDisconnected(g)
      PROVE  UNCHANGED <<playerMap, sectors, mirror, uidToAccount, uidCounter>>
  BY <1>2 DEF do_accept, ReadPayload, BadHeader, OnDisconnected, registry
<1>3. CASE Handle_GatewayGameMoveReq
  <2> DEFINE t == Head(strand)
             pos == Clamp(t.to)
  <2>1. pos \in Landings
    BY <1>3, TakeType DEF Handle_GatewayGameMoveReq, Landings
  <2>2. CASE ~Online(t.acct) /\ Register(t.gw, t.acct, pos)
    <3> HIDE DEF t, pos
    <3>1. HpSet(t.acct, DefaultHp)
      BY <2>2, RedisEffect DEF Register, TypeOK
    <3>2. Joined(t.acct, pos)
      BY <2>2, <3>1 DEF Register, Joined, NextUid
    <3> QED
      BY <2>1, <3>2
  <2>3. CASE Online(t.acct) /\ Relocate(t.acct, pos)
    <3>1. playerMap[t.acct] \in Players
      BY <2>3 DEF Online, TypeOK
    <3>2. /\ playerMap' = [playerMap EXCEPT ![t.acct].pos = pos]
          /\ sectors' = UpdatePosition(sectors, playerMap[t.acct].uid, playerMap[t.acct].pos, pos)
          /\ UNCHANGED <<mirror, uidToAccount, uidCounter>>
      BY <2>3 DEF Relocate
    <3> HIDE DEF t, pos
    <3>3. Moved(t.acct, pos, playerMap[t.acct].hp)
      BY <2>3, <3>1, <3>2 DEF Moved, Online, Players
    <3> QED
      BY <2>1, <3>3
  <2> QED
    BY <1>3, <2>2, <2>3 DEF Handle_GatewayGameMoveReq
<1>4. CASE Handle_GatewayGameLeaveReq
  <2> DEFINE a == Head(strand).acct
  <2>1. CASE UNCHANGED <<registry, mirror>>
    BY <2>1 DEF registry
  <2>2. CASE /\ Online(a)
             /\ playerMap' = Without(playerMap, {a})
             /\ sectors' = LeaveZone(sectors, playerMap[a].uid, playerMap[a].pos)
             /\ RemovePlayers({a})
             /\ uidToAccount' = EraseUids({playerMap[a].uid})
             /\ UNCHANGED uidCounter
    <3>1. strand # <<>> /\ Head(strand).kind = "leave"
      BY <1>4 DEF Handle_GatewayGameLeaveReq, Take
    <3> HIDE DEF a
    <3>2. ASSUME NEW s \in Sectors
          PROVE  sectors'[s] = sectors[s] \
                   {playerMap[c].uid : c \in {b \in {a} : OnMap(playerMap[b].pos)
                                                        /\ SectorOf(playerMap[b].pos) = s}}
      <4>1. CASE OnMap(playerMap[a].pos) /\ SectorOf(playerMap[a].pos) = s
        <5>1. {playerMap[c].uid : c \in {b \in {a} : OnMap(playerMap[b].pos)
                          /\ SectorOf(playerMap[b].pos) = s}} = {playerMap[a].uid}
          BY <4>1
        <5> QED
          BY <2>2, <4>1, <5>1 DEF LeaveZone, RemoveFrom, TypeOK
      <4>2. CASE ~(OnMap(playerMap[a].pos) /\ SectorOf(playerMap[a].pos) = s)
        <5>1. {playerMap[c].uid : c \in {b \in {a} : OnMap(playerMap[b].pos)
                          /\ SectorOf(playerMap[b].pos) = s}} = {}
          BY <4>2
        <5>2. sectors'[s] = sectors[s]
          BY <2>2, <4>2 DEF LeaveZone, RemoveFrom, TypeOK
        <5> QED
          BY <5>1, <5>2
      <4> QED
        BY <4>1, <4>2
    <3>3. {playerMap[b].uid : b \in {a}} = {playerMap[a].uid}
      OBVIOUS
    <3>4. HashesDeleted({a})
      BY <2>2, RedisEffect DEF TypeOK
    <3>5. Removed({a})
      BY <2>2, <3>1, <3>2, <3>3, <3>4 DEF Removed, Online, EraseUids, a
    <3> QED
      BY <3>5
  <2> QED
    BY <1>4, <2>1, <2>2 DEF Handle_GatewayGameLeaveReq
<1>5. CASE CleanupGateway
  <2> DEFINE gone == {a \in GetPlayersOfGateway(Head(strand).gw) : Online(a)}
  <2>1. gone \subseteq DOMAIN playerMap /\ gone \subseteq gatewayPlayerMap[Head(strand).gw]
    BY DEF Online, GetPlayersOfGateway
  <2>2. strand # <<>> /\ Head(strand).kind = "cleanup"
    BY <1>5 DEF CleanupGateway, Take
  <2>3. /\ playerMap' = Without(playerMap, gone)
        /\ RemovePlayers(gone)
        /\ uidToAccount' = Without(uidToAccount, {playerMap[a].uid : a \in gone})
        /\ UNCHANGED uidCounter
        /\ sectors' = [s \in Sectors |-> sectors[s] \
             {playerMap[a].uid : a \in {b \in gone : OnMap(playerMap[b].pos)
                                                     /\ SectorOf(playerMap[b].pos) = s}}]
    BY <1>5 DEF CleanupGateway, EraseUids
  <2> HIDE DEF gone
  <2>4. (gone = {} /\ UNCHANGED mirror) \/ HashesDeleted(gone)
    BY <2>3, RedisEffect DEF TypeOK
  <2>5. Removed(gone)
    BY <2>1, <2>2, <2>3, <2>4 DEF Removed
  <2> QED
    BY <2>5
<1>6. ASSUME NEW u \in DOMAIN uidToAccount, MonsterHit(u)
      PROVE  \E a, pos, hp : Moved(a, pos, hp) /\ (pos \in Landings \/ pos = playerMap[a].pos)
  <2> DEFINE a == uidToAccount[u]
             dead == Hurt(playerMap[a].hp) = 0
             hp == IF dead THEN DefaultHp ELSE Hurt(playerMap[a].hp)
             pos == IF dead THEN Spawn ELSE playerMap[a].pos
  <2>1. a \in DOMAIN playerMap /\ playerMap[a] \in Players /\ playerMap[a].uid = u
    BY <1>6 DEF MonsterHit, Online, TypeOK, RegistryBijective
  <2>2. /\ playerMap' = [playerMap EXCEPT ![a].hp = hp, ![a].pos = IF dead THEN Spawn ELSE @]
        /\ sectors' = IF dead THEN UpdatePosition(sectors, u, playerMap[a].pos, Spawn) ELSE sectors
        /\ UpdatePlayerHp(a, hp)
        /\ UNCHANGED <<uidToAccount, uidCounter>>
    BY <1>6 DEF MonsterHit
  <2>3. UpdatePosition(sectors, u, playerMap[a].pos, playerMap[a].pos) = sectors
    BY DEF UpdatePosition
  <2>4. sectors' = UpdatePosition(sectors, playerMap[a].uid, playerMap[a].pos, pos)
    BY <2>1, <2>2, <2>3
  <2>5. pos \in Landings \/ pos = playerMap[a].pos
    BY DEF Landings
  <2> HIDE DEF hp, dead, a
  <2>6. /\ DOMAIN playerMap' = DOMAIN playerMap
        /\ \A b \in DOMAIN playerMap \ {a} : playerMap'[b] = playerMap[b]
        /\ playerMap'[a].uid = playerMap[a].uid
        /\ playerMap'[a].pos = pos /\ playerMap'[a].hp = hp
    BY <2>1, <2>2 DEF TypeOK, Players
  <2> HIDE DEF pos
  <2>7. Moved(a, pos, hp)
    <3>1. HpSet(a, hp)
      BY <2>2, RedisEffect DEF TypeOK
    <3> QED
      BY <2>1, <2>2, <2>4, <2>6, <3>1 DEF Moved, Online
  <2> QED
    BY <2>5, <2>7
<1> QED
  BY <1>1, <1>2, <1>3, <1>4, <1>5, <1>6 DEF Next, RunTask

-------------------------------------------------------------------------------
(* The registry seen from outside.                                         *)

\* Move requests and the spawn point are on the map or its border.
LEMMA LandingsGround == Landings \subseteq Ground
<1>1. \A p \in Requests : Clamp(p) \in Ground
  BY GameWorldAssumption, ZoneAssumption DEF Clamp, Ground, Points
<1>2. Spawn \in Ground
  BY ZoneAssumption DEF Spawn, Ground
<1> QED
  BY <1>1, <1>2 DEF Landings

EverybodyOnGround == \A a \in DOMAIN playerMap : playerMap[a].pos \in Ground

\* Every step of the registry's tasks is one step of the table, or none.
LEMMA StepIsTableStep ==
  ASSUME TypeOK, RegistryBijective, UidsIssued, EverybodyOnGround, [Next]_vars
  PROVE  EverybodyOnGround' /\ [Registry!Next]_(Registry!vars)
<1> DEFINE table == [u \in DOMAIN uidToAccount |->
                       [account |-> uidToAccount[u], pos |-> playerMap[uidToAccount[u]].pos]]
<1> SUFFICES /\ EverybodyOnGround'
             /\ \/ UNCHANGED <<table, uidCounter>>
                \/ \E a \in Accounts, p \in Ground :
                     /\ \A u \in DOMAIN table : table[u].account # a
                     /\ table' = [u \in DOMAIN table \cup {uidCounter} |->
                                   IF u = uidCounter THEN [account |-> a, pos |-> p] ELSE table[u]]
                     /\ uidCounter' = uidCounter + 1
                \/ \E u \in DOMAIN table, p \in Ground :
                     table' = [table EXCEPT ![u].pos = p] /\ UNCHANGED uidCounter
                \/ \E us \in SUBSET DOMAIN table :
                     table' = [u \in DOMAIN table \ us |-> table[u]] /\ UNCHANGED uidCounter
  BY DEF Registry!Next, Registry!vars, Registry!Join, Registry!Move, Registry!Leave
<1>1. CASE UNCHANGED <<playerMap, sectors, mirror, uidToAccount, uidCounter>>
  BY <1>1 DEF EverybodyOnGround
<1>2. ASSUME NEW a, NEW pos, Joined(a, pos), pos \in Landings
      PROVE  /\ EverybodyOnGround'
             /\ \E b \in Accounts, p \in Ground :
                     /\ \A u \in DOMAIN table : table[u].account # b
                     /\ table' = [u \in DOMAIN table \cup {uidCounter} |->
                                   IF u = uidCounter THEN [account |-> b, pos |-> p] ELSE table[u]]
                     /\ uidCounter' = uidCounter + 1
  <2>1. /\ DOMAIN playerMap' = DOMAIN playerMap \cup {a} /\ a \notin DOMAIN playerMap
        /\ playerMap'[a].pos = pos
        /\ \A b \in DOMAIN playerMap : playerMap'[b] = playerMap[b]
    BY <1>2 DEF Joined, With, Online
  <2>2. uidCounter \notin DOMAIN uidToAccount
    BY DEF UidsIssued, TypeOK
  <2>3. /\ DOMAIN uidToAccount' = DOMAIN uidToAccount \cup {uidCounter}
        /\ uidToAccount'[uidCounter] = a
        /\ \A u \in DOMAIN uidToAccount : uidToAccount'[u] = uidToAccount[u]
    BY <1>2, <2>2 DEF Joined, With
  <2>4. pos \in Ground
    BY <1>2, LandingsGround
  <2>5. EverybodyOnGround'
    BY <2>1, <2>4 DEF EverybodyOnGround
  <2>6. \A u \in DOMAIN uidToAccount : uidToAccount[u] \in DOMAIN playerMap /\ uidToAccount[u] # a
    BY <2>1 DEF RegistryBijective, Online
  <2>7. table' = [u \in DOMAIN table \cup {uidCounter} |->
                    IF u = uidCounter THEN [account |-> a, pos |-> pos] ELSE table[u]]
    BY <2>1, <2>2, <2>3, <2>6
  <2>8. a \in Accounts
    <3>1. TypeOK'
      BY StepKeepsTypes
    <3> QED
      BY <2>1, <3>1 DEF TypeOK
  <2>9. uidCounter' = uidCounter + 1 /\ \A u \in DOMAIN table : table[u].account # a
    BY <1>2, <2>6 DEF Joined
  <2> HIDE DEF table
  <2> QED
    BY <2>4, <2>5, <2>7, <2>8, <2>9
<1>3. ASSUME NEW a, NEW pos, NEW hp, Moved(a, pos, hp),
             pos \in Landings \/ pos = playerMap[a].pos
      PROVE  /\ EverybodyOnGround'
             /\ \E u \in DOMAIN table, p \in Ground :
                  table' = [table EXCEPT ![u].pos = p] /\ UNCHANGED uidCounter
  <2> DEFINE u == playerMap[a].uid
  <2>1. /\ u \in DOMAIN uidToAccount /\ uidToAccount[u] = a
        /\ \A v \in DOMAIN uidToAccount : /\ uidToAccount[v] \in DOMAIN playerMap
                                          /\ uidToAccount[v] = a => v = u
    BY <1>3 DEF Moved, RegistryBijective, Online
  <2>2. /\ DOMAIN playerMap' = DOMAIN playerMap
        /\ \A b \in DOMAIN playerMap \ {a} : playerMap'[b] = playerMap[b]
        /\ playerMap'[a].pos = pos
        /\ UNCHANGED <<uidToAccount, uidCounter>>
    BY <1>3 DEF Moved
  <2>3. pos \in Ground
    BY <1>3, LandingsGround DEF EverybodyOnGround, Moved, Online
  <2> HIDE DEF u
  <2>4. table' = [table EXCEPT ![u].pos = pos]
    BY <2>1, <2>2
  <2>5. EverybodyOnGround'
    BY <2>2, <2>3 DEF EverybodyOnGround
  <2>6. u \in DOMAIN table /\ UNCHANGED uidCounter
    BY <2>1, <2>2
  <2> HIDE DEF table
  <2> QED
    BY <2>3, <2>4, <2>5, <2>6
<1>4. ASSUME NEW gone, Removed(gone)
      PROVE  /\ EverybodyOnGround'
             /\ \E us \in SUBSET DOMAIN table :
                  table' = [u \in DOMAIN table \ us |-> table[u]] /\ UNCHANGED uidCounter
  <2> DEFINE us == {playerMap[a].uid : a \in gone}
  <2>1. /\ DOMAIN playerMap' = DOMAIN playerMap \ gone /\ gone \subseteq DOMAIN playerMap
        /\ \A b \in DOMAIN playerMap' : playerMap'[b] = playerMap[b]
        /\ DOMAIN uidToAccount' = DOMAIN uidToAccount \ us
        /\ \A u \in DOMAIN uidToAccount' : uidToAccount'[u] = uidToAccount[u]
        /\ UNCHANGED uidCounter
    BY <1>4 DEF Removed, Without, Restrict
  <2>2. us \in SUBSET DOMAIN table
    BY <2>1 DEF RegistryBijective
  <2>3. \A u \in DOMAIN uidToAccount \ us : uidToAccount[u] \in DOMAIN playerMap'
    BY <2>1 DEF RegistryBijective, Online
  <2>4. EverybodyOnGround'
    BY <2>1 DEF EverybodyOnGround
  <2> HIDE DEF us
  <2>5. table' = [u \in DOMAIN table \ us |-> table[u]]
    BY <2>1, <2>3
  <2> QED
    BY <2>1, <2>2, <2>4, <2>5
<1> QED
  BY <1>1, <1>2, <1>3, <1>4, PlayersChange

\* The five places the handlers keep in step implement the table: an account is
\* online once, on the map or its border, under a uid of its own for ever, however
\* packets, failing gateways and monsters' hits interleave.
THEOREM RegistryIsTable == Spec => IsRegistry
<1>1. Init => Registry!Init /\ EverybodyOnGround
  BY EmptyDomain DEF Init, Registry!Init, EverybodyOnGround
<1>2. ASSUME TypeOK, RegistryBijective /\ UidsIssued, EverybodyOnGround, [Next]_vars
      PROVE  EverybodyOnGround' /\ [Registry!Next]_(Registry!vars)
  BY <1>2, StepIsTableStep
<1> QED
  BY <1>1, <1>2, TypeCorrect, RegistryCorrect, PTL DEF Spec, IsRegistry, Registry!Spec

-------------------------------------------------------------------------------
(* The mirror.                                                             *)

LEMMA StepKeepsMirror ==
  ASSUME TypeOK, RegistryBijective, RedisMirror, [Next]_vars
  PROVE  RedisMirror'
<1>1. CASE UNCHANGED <<playerMap, sectors, mirror, uidToAccount, uidCounter>>
  BY <1>1 DEF RedisMirror, mirror, Online
<1>2. ASSUME NEW a, NEW pos, Joined(a, pos)
      PROVE  RedisMirror'
  <2> SUFFICES ASSUME redisUp'
               PROVE  /\ \A b \in DOMAIN playerMap' \ refused' :
                           b \in DOMAIN redis' /\ redis'[b] = playerMap'[b].hp
                      /\ \A b \in DOMAIN redis' \ refused' : b \in DOMAIN playerMap' \/ b \in Leftover
    BY DEF RedisMirror, Online
  <2>1. HpSet(a, DefaultHp)
    BY <1>2 DEF Joined
  <2>2. /\ DOMAIN playerMap' = DOMAIN playerMap \cup {a} /\ playerMap'[a].hp = DefaultHp
        /\ \A b \in DOMAIN playerMap \ {a} : playerMap'[b] = playerMap[b]
    BY <1>2 DEF Joined, With
  <2> QED
    BY <2>1, <2>2 DEF HpSet, RedisMirror, Online
<1>3. ASSUME NEW a, NEW pos, NEW hp, Moved(a, pos, hp)
      PROVE  RedisMirror'
  <2> SUFFICES ASSUME redisUp'
               PROVE  /\ \A b \in DOMAIN playerMap' \ refused' :
                           b \in DOMAIN redis' /\ redis'[b] = playerMap'[b].hp
                      /\ \A b \in DOMAIN redis' \ refused' : b \in DOMAIN playerMap' \/ b \in Leftover
    BY DEF RedisMirror, Online
  <2>1. CASE hp = playerMap[a].hp /\ UNCHANGED mirror
    BY <1>3, <2>1 DEF Moved, RedisMirror, Online, mirror
  <2>2. CASE HpSet(a, hp)
    BY <1>3, <2>2 DEF Moved, HpSet, RedisMirror, Online
  <2> QED
    BY <1>3, <2>1, <2>2 DEF Moved
<1>4. ASSUME NEW gone, Removed(gone)
      PROVE  RedisMirror'
  <2> SUFFICES ASSUME redisUp'
               PROVE  /\ \A b \in DOMAIN playerMap' \ refused' :
                           b \in DOMAIN redis' /\ redis'[b] = playerMap'[b].hp
                      /\ \A b \in DOMAIN redis' \ refused' : b \in DOMAIN playerMap' \/ b \in Leftover
    BY DEF RedisMirror, Online
  <2>1. /\ DOMAIN playerMap' = DOMAIN playerMap \ gone
        /\ \A b \in DOMAIN playerMap' : playerMap'[b] = playerMap[b]
    BY <1>4 DEF Removed, Without, Restrict
  <2>2. CASE gone = {} /\ UNCHANGED mirror
    BY <2>1, <2>2 DEF RedisMirror, Online, mirror
  <2>3. CASE HashesDeleted(gone)
    BY <2>1, <2>3 DEF HashesDeleted, RedisMirror, Online
  <2> QED
    BY <1>4, <2>2, <2>3 DEF Removed
<1> QED
  BY <1>1, <1>2, <1>3, <1>4, PlayersChange

\* While the connection to Redis lasts, the hash of an online account holds its hp
\* and no other account has a hash but for an earlier run's, except for accounts
\* whose latest command Redis refused (RedisManager: nobody repeats it).
THEOREM MirrorExact == Spec => []RedisMirror
<1>1. Init => RedisMirror
  BY EmptyDomain DEF Init, RedisMirror
<1>2. TypeOK /\ RegistryBijective /\ RedisMirror /\ [Next]_vars => RedisMirror'
  BY StepKeepsMirror
<1> QED
  BY <1>1, <1>2, TypeCorrect, RegistryCorrect, PTL DEF Spec

\* Nobody goes offline but by a leave packet for the account or by the failure of
\* a session that brought it in (Handle_GatewayGameLeaveReq, OnDisconnected).
THEOREM RemovalsJustified == Spec => RemovalJustified
<1>1. ASSUME TypeOK, RegistryBijective, [Next]_vars
      PROVE  [\A a \in DOMAIN playerMap :
                a \in DOMAIN playerMap' \/
                  /\ strand # <<>>
                  /\ LET t == Head(strand)
                     IN  \/ t.kind = "leave" /\ t.acct = a
                         \/ t.kind = "cleanup" /\ a \in gatewayPlayerMap[t.gw]]_vars
  <2> SUFFICES ASSUME NEW a \in DOMAIN playerMap, a \notin DOMAIN playerMap'
               PROVE  /\ strand # <<>>
                      /\ \/ Head(strand).kind = "leave" /\ Head(strand).acct = a
                         \/ Head(strand).kind = "cleanup" /\ a \in gatewayPlayerMap[Head(strand).gw]
    OBVIOUS
  <2>1. PICK gone : Removed(gone)
    <3>1. ~UNCHANGED playerMap
      OBVIOUS
    <3>2. \A b, pos : ~Joined(b, pos)
      BY DEF Joined, With
    <3>3. \A b, pos, hp : ~Moved(b, pos, hp)
      BY DEF Moved
    <3> QED
      BY <1>1, <3>1, <3>2, <3>3, PlayersChange
  <2>2. a \in gone
    BY <2>1 DEF Removed, Without, Restrict
  <2> QED
    BY <2>1, <2>2 DEF Removed
<1> QED
  BY <1>1, TypeCorrect, RegistryCorrect, PTL DEF Spec, RemovalJustified

-------------------------------------------------------------------------------
(* The zone, as long as no request ends on the right or the lower edge.    *)

\* Player by player what SectorsExact says as an equality of sets.
Placed(s) == \A u : u \in sectors[s] <=>
  \E a \in DOMAIN playerMap : playerMap[a].uid = u /\ SectorOf(playerMap[a].pos) = s

EverybodyOnMap == \A a \in DOMAIN playerMap : OnMap(playerMap[a].pos)

ZoneInv == EverybodyOnMap /\ \A s \in Sectors : Placed(s)

LEMMA ZoneIsExact == ZoneInv => SectorsExact
<1> SUFFICES ASSUME ZoneInv, NEW s \in Sectors
             PROVE  sectors[s] = {playerMap[a].uid : a \in
                      {b \in DOMAIN playerMap : OnMap(playerMap[b].pos)
                                                /\ SectorOf(playerMap[b].pos) = s}}
  BY DEF SectorsExact
<1>1. Placed(s) /\ EverybodyOnMap
  BY DEF ZoneInv
<1> QED
  BY <1>1 DEF Placed, EverybodyOnMap

\* What entering the zone does to one sector.
LEMMA SectorEntered ==
  ASSUME NEW grid, DOMAIN grid = Sectors, NEW id, NEW p, OnMap(p), NEW s \in Sectors
  PROVE  EnterZone(grid, id, p)[s] = IF SectorOf(p) = s THEN grid[s] \cup {id} ELSE grid[s]
BY DEF EnterZone, AddTo

\* What a player on the map who goes to a place on the map does to one sector.
WentFrom(before, after, id, p, q, s) ==
  after[s] = IF SectorOf(p) = SectorOf(q) THEN before[s]
             ELSE IF SectorOf(q) = s THEN before[s] \cup {id}
             ELSE IF SectorOf(p) = s THEN before[s] \ {id}
             ELSE before[s]

LEMMA SectorAfter ==
  ASSUME NEW grid, DOMAIN grid = Sectors, NEW id, NEW p, NEW q, OnMap(p), OnMap(q),
         NEW s \in Sectors
  PROVE  WentFrom(grid, UpdatePosition(grid, id, p, q), id, p, q, s)
<1> USE DEF WentFrom
<1>1. CASE SectorOf(p) = SectorOf(q)
  BY <1>1 DEF UpdatePosition
<1>2. CASE SectorOf(p) # SectorOf(q)
  <2> DEFINE with == AddTo(grid, SectorOf(q), id)
  <2>1. UpdatePosition(grid, id, p, q) = RemoveFrom(with, SectorOf(p), id)
    BY <1>2 DEF UpdatePosition
  <2>2. /\ DOMAIN with = Sectors
        /\ with[s] = IF SectorOf(q) = s THEN grid[s] \cup {id} ELSE grid[s]
    BY DEF AddTo
  <2> HIDE DEF with
  <2>3. RemoveFrom(with, SectorOf(p), id)[s] = IF SectorOf(p) = s THEN with[s] \ {id} ELSE with[s]
    BY <2>2 DEF RemoveFrom
  <2>4. CASE SectorOf(q) = s
    BY <1>2, <2>1, <2>2, <2>3, <2>4
  <2>5. CASE SectorOf(q) # s
    BY <1>2, <2>1, <2>2, <2>3, <2>5
  <2> QED
    BY <2>4, <2>5
<1> QED
  BY <1>1, <1>2

LEMMA StepKeepsZone ==
  ASSUME TypeOK, RegistryBijective, ZoneInv, [Next]_vars,
         \A p \in Requests : OnMap(Clamp(p))
  PROVE  ZoneInv'
<1>1. \A p \in Landings : OnMap(p)
  <2>1. OnMap(Spawn)
    BY ZoneAssumption DEF OnMap, Spawn
  <2> QED
    BY <2>1 DEF Landings
<1>2. \A a, b \in DOMAIN playerMap : playerMap[a].uid = playerMap[b].uid => a = b
  BY DEF RegistryBijective
<1>3. DOMAIN sectors = Sectors
  BY DEF TypeOK
<1>4. EverybodyOnMap /\ \A s \in Sectors : Placed(s)
  BY DEF ZoneInv
<1>5. CASE UNCHANGED <<playerMap, sectors, mirror, uidToAccount, uidCounter>>
  BY <1>4, <1>5 DEF ZoneInv, EverybodyOnMap, Placed
<1>6. ASSUME NEW a, NEW pos, Joined(a, pos), pos \in Landings
      PROVE  ZoneInv'
  <2>1. OnMap(pos)
    BY <1>1, <1>6
  <2>2. /\ DOMAIN playerMap' = DOMAIN playerMap \cup {a} /\ a \notin DOMAIN playerMap
        /\ playerMap'[a].uid = uidCounter /\ playerMap'[a].pos = pos
        /\ \A b \in DOMAIN playerMap : playerMap'[b] = playerMap[b]
    BY <1>6 DEF Joined, With, Online
  <2>3. EverybodyOnMap'
    BY <1>4, <2>1, <2>2 DEF EverybodyOnMap
  <2>4. ASSUME NEW s \in Sectors PROVE Placed(s)'
    <3>1. sectors' = EnterZone(sectors, uidCounter, pos)
      BY <1>6 DEF Joined, UpdatePosition
    <3>2. sectors'[s] = IF SectorOf(pos) = s THEN sectors[s] \cup {uidCounter} ELSE sectors[s]
      BY <1>3, <2>1, <3>1, SectorEntered
    <3>3. Placed(s)
      BY <1>4
    <3> QED
      BY <2>2, <3>2, <3>3 DEF Placed
  <2> QED
    BY <2>3, <2>4 DEF ZoneInv
<1>7. ASSUME NEW a, NEW pos, NEW hp, Moved(a, pos, hp),
             pos \in Landings \/ pos = playerMap[a].pos
      PROVE  ZoneInv'
  <2>1. a \in DOMAIN playerMap /\ OnMap(playerMap[a].pos) /\ OnMap(pos)
    BY <1>1, <1>4, <1>7 DEF Moved, Online, EverybodyOnMap
  <2>2. /\ DOMAIN playerMap' = DOMAIN playerMap
        /\ \A b \in DOMAIN playerMap \ {a} : playerMap'[b] = playerMap[b]
        /\ playerMap'[a].uid = playerMap[a].uid /\ playerMap'[a].pos = pos
        /\ sectors' = UpdatePosition(sectors, playerMap[a].uid, playerMap[a].pos, pos)
    BY <1>7 DEF Moved
  <2>3. EverybodyOnMap'
    BY <1>4, <2>1, <2>2 DEF EverybodyOnMap
  <2>4. ASSUME NEW s \in Sectors PROVE Placed(s)'
    <3>1. sectors'[s] =
            IF SectorOf(playerMap[a].pos) = SectorOf(pos) THEN sectors[s]
            ELSE IF SectorOf(pos) = s THEN sectors[s] \cup {playerMap[a].uid}
            ELSE IF SectorOf(playerMap[a].pos) = s THEN sectors[s] \ {playerMap[a].uid}
            ELSE sectors[s]
      <4>1. WentFrom(sectors, sectors', playerMap[a].uid, playerMap[a].pos, pos, s)
        BY <1>3, <2>1, <2>2, SectorAfter
      <4> QED
        BY <4>1 DEF WentFrom
    <3>2. Placed(s)
      BY <1>4
    <3>3. ASSUME NEW u, u # playerMap[a].uid
          PROVE  u \in sectors'[s] <=>
            \E b \in DOMAIN playerMap' : playerMap'[b].uid = u /\ SectorOf(playerMap'[b].pos) = s
      <4>1. u \in sectors'[s] <=> u \in sectors[s]
        BY <3>1, <3>3
      <4>2. \A b \in DOMAIN playerMap : b = a \/ playerMap'[b] = playerMap[b]
        BY <2>2
      <4> QED
        BY <2>2, <3>2, <3>3, <4>1, <4>2 DEF Placed
    <3>4. playerMap[a].uid \in sectors'[s] <=> SectorOf(pos) = s
      <4>1. playerMap[a].uid \in sectors[s] <=> SectorOf(playerMap[a].pos) = s
        BY <1>2, <2>1, <3>2 DEF Placed
      <4> QED
        BY <3>1, <4>1
    <3>5. (\E b \in DOMAIN playerMap' : playerMap'[b].uid = playerMap[a].uid
                                        /\ SectorOf(playerMap'[b].pos) = s) <=> SectorOf(pos) = s
      BY <1>2, <2>1, <2>2
    <3> QED
      BY <3>3, <3>4, <3>5 DEF Placed
  <2> QED
    BY <2>3, <2>4 DEF ZoneInv
<1>8. ASSUME NEW gone, Removed(gone)
      PROVE  ZoneInv'
  <2>1. /\ DOMAIN playerMap' = DOMAIN playerMap \ gone /\ gone \subseteq DOMAIN playerMap
        /\ \A b \in DOMAIN playerMap' : playerMap'[b] = playerMap[b]
    BY <1>8 DEF Removed, Without, Restrict
  <2>2. EverybodyOnMap'
    BY <1>4, <2>1 DEF EverybodyOnMap
  <2>3. ASSUME NEW s \in Sectors PROVE Placed(s)'
    <3> DEFINE leaving == {b \in gone : OnMap(playerMap[b].pos) /\ SectorOf(playerMap[b].pos) = s}
    <3>1. sectors'[s] = sectors[s] \ {playerMap[a].uid : a \in leaving}
      BY <1>8 DEF Removed
    <3>2. Placed(s)
      BY <1>4
    <3>3. \A b \in gone : b \in leaving <=> SectorOf(playerMap[b].pos) = s
      BY <1>4, <2>1 DEF EverybodyOnMap
    <3>4. \A b \in leaving : b \in gone
      OBVIOUS
    <3> HIDE DEF leaving
    <3>5. \A u : u \in {playerMap[a].uid : a \in leaving} <=> \E a \in leaving : playerMap[a].uid = u
      OBVIOUS
    <3>6. ASSUME NEW u, u \in sectors'[s]
          PROVE  \E b \in DOMAIN playerMap' : playerMap'[b].uid = u /\ SectorOf(playerMap'[b].pos) = s
      <4>1. PICK b \in DOMAIN playerMap : playerMap[b].uid = u /\ SectorOf(playerMap[b].pos) = s
        BY <3>1, <3>2, <3>6 DEF Placed
      <4>2. b \notin leaving
        BY <3>1, <3>5, <3>6, <4>1
      <4> QED
        BY <2>1, <3>3, <4>1, <4>2
    <3>7. ASSUME NEW b \in DOMAIN playerMap', SectorOf(playerMap'[b].pos) = s
          PROVE  playerMap'[b].uid \in sectors'[s]
      <4>1. b \in DOMAIN playerMap /\ b \notin gone /\ playerMap'[b] = playerMap[b]
        BY <2>1
      <4>2. playerMap[b].uid \in sectors[s]
        BY <3>2, <3>7, <4>1 DEF Placed
      <4>3. \A a \in leaving : playerMap[a].uid # playerMap[b].uid
        BY <1>2, <2>1, <3>4, <4>1
      <4> QED
        BY <3>1, <3>5, <4>1, <4>2, <4>3
    <3> QED
      BY <3>6, <3>7 DEF Placed
  <2> QED
    BY <2>2, <2>3 DEF ZoneInv
<1> QED
  BY <1>5, <1>6, <1>7, <1>8, PlayersChange

\* If no request is answered with a place on the right or the lower edge, the zone
\* holds every online player in the sector of its position and nobody else
\* (Zone::UpdatePosition, Zone::LeaveZone); MCGameWorldEdge shows that the
\* premise is needed.
THEOREM ZoneExact ==
  ASSUME \A p \in Requests : OnMap(Clamp(p))
  PROVE  Spec => []SectorsExact
<1>1. Init => ZoneInv
  <2> SUFFICES ASSUME Init PROVE ZoneInv
    OBVIOUS
  <2>1. DOMAIN playerMap = {} /\ \A s \in Sectors : sectors[s] = {}
    BY EmptyDomain DEF Init, EmptyGrid
  <2> QED
    BY <2>1 DEF ZoneInv, EverybodyOnMap, Placed
<1>2. TypeOK /\ RegistryBijective /\ ZoneInv /\ [Next]_vars => ZoneInv'
  BY StepKeepsZone
<1> QED
  BY <1>1, <1>2, ZoneIsExact, TypeCorrect, RegistryCorrect, PTL DEF Spec

-------------------------------------------------------------------------------
(* Who is shown to whom, with no premise on the requests.                  *)

\* Two coordinates at most a sector's side apart are in the same row (column) or
\* in adjacent ones; in adjacent ones, they are less than two sides apart.
LEMMA AdjacentSlices ==
  ASSUME NEW x \in Int, NEW y \in Int
  PROVE  /\ x - y \in -SectorSize..SectorSize => x \div SectorSize - y \div SectorSize \in -1..1
         /\ x \div SectorSize - y \div SectorSize \in -1..1
              => x - y < 2 * SectorSize /\ y - x < 2 * SectorSize
<1> DEFINE S == SectorSize
           a == x \div S
           b == y \div S
<1>1. S \in Nat \ {0}
  BY ZoneAssumption
<1> HIDE DEF S
<1>2. /\ a \in Int /\ b \in Int
      /\ S * a <= x /\ x < S * a + S
      /\ S * b <= y /\ y < S * b + S
  BY <1>1
<1> HIDE DEF a, b
<1>3. \A c, d \in Int : c >= d => S * c >= S * d
  BY <1>1
<1>4. S * (b + 2) = S * b + 2 * S /\ S * (a + 2) = S * a + 2 * S
  BY <1>1, <1>2
<1>5. ASSUME x - y \in -S..S PROVE a - b \in -1..1
  <2>1. ~(a >= b + 2)
    BY <1>1, <1>2, <1>3, <1>4, <1>5
  <2>2. ~(b >= a + 2)
    BY <1>1, <1>2, <1>3, <1>4, <1>5
  <2> QED
    BY <1>2, <2>1, <2>2
<1>6. ASSUME a - b \in -1..1 PROVE x - y < 2 * S /\ y - x < 2 * S
  <2>1. S * (b + 1) = S * b + S /\ S * (a + 1) = S * a + S
    BY <1>1, <1>2
  <2>2. S * a <= S * (b + 1) /\ S * b <= S * (a + 1)
    BY <1>2, <1>3, <1>6
  <2> QED
    BY <1>1, <1>2, <2>1, <2>2
<1> QED
  BY <1>5, <1>6 DEF a, b, S

\* A coordinate on the map is in one of its rows (columns).
LEMMA SliceOnMap ==
  ASSUME NEW W \in Nat \ {0}, NEW x \in Int, 0 <= x, x < W
  PROVE  x \div SectorSize \in 0..((W + SectorSize - 1) \div SectorSize - 1)
BY ZoneAssumption

Apart(p, q, d) == p.x - q.x \in -d..d /\ p.y - q.y \in -d..d

\* The sector of a place no further than a sector's side is among the nine.
LEMMA NearIsNeighbour ==
  ASSUME NEW p \in Points, NEW q \in Points, OnMap(p), OnMap(q), Apart(q, p, SectorSize)
  PROVE  SectorOf(q) \in Sectors /\ SectorOf(q) \in Neighbours(p)
<1>1. q.x \in Int /\ q.y \in Int /\ p.x \in Int /\ p.y \in Int
  BY DEF Points
<1>2. SectorOf(q) \in Sectors
  BY <1>1, SliceOnMap, ZoneAssumption DEF SectorOf, Sectors, Rows, Cols, OnMap
<1>3. /\ SectorOf(q).row - SectorOf(p).row \in -1..1
      /\ SectorOf(q).col - SectorOf(p).col \in -1..1
  BY <1>1, AdjacentSlices DEF SectorOf, Apart
<1> QED
  BY <1>2, <1>3 DEF Neighbours

\* Ghosts there may be, but nobody on the map is missing from the sector of its place.
NobodyMissing ==
  \A a \in DOMAIN playerMap :
    OnMap(playerMap[a].pos) => playerMap[a].uid \in sectors[SectorOf(playerMap[a].pos)]

LEMMA OnMapSector ==
  ASSUME NEW p \in Points, OnMap(p)
  PROVE  SectorOf(p) \in Sectors
BY NearIsNeighbour, ZoneAssumption DEF Apart, Points

\* Joining or moving puts the player where it now stands and takes nobody else away.
LEMMA PlacedAfter ==
  ASSUME NEW grid, DOMAIN grid = Sectors, NEW id, NEW p \in Points, NEW q \in Points
  PROVE  /\ OnMap(q) => id \in UpdatePosition(EnterZone(grid, id, q), id, q, q)[SectorOf(q)]
         /\ OnMap(q) /\ (OnMap(p) => id \in grid[SectorOf(p)])
              => id \in UpdatePosition(grid, id, p, q)[SectorOf(q)]
         /\ \A s \in Sectors : \A other \in grid[s] : other # id =>
              /\ other \in UpdatePosition(grid, id, p, q)[s]
              /\ other \in UpdatePosition(EnterZone(grid, id, q), id, q, q)[s]
<1>1. UpdatePosition(EnterZone(grid, id, q), id, q, q) = EnterZone(grid, id, q)
  BY DEF UpdatePosition
<1>2. OnMap(q) => SectorOf(q) \in Sectors
  BY OnMapSector
<1>3. /\ OnMap(q) => id \in EnterZone(grid, id, q)[SectorOf(q)]
      /\ \A s \in Sectors : grid[s] \subseteq EnterZone(grid, id, q)[s]
  BY <1>2 DEF EnterZone, AddTo
<1>4. ASSUME OnMap(p), OnMap(q)
      PROVE  /\ id \in grid[SectorOf(p)] => id \in UpdatePosition(grid, id, p, q)[SectorOf(q)]
             /\ \A s \in Sectors : \A other \in grid[s] : other # id =>
                  other \in UpdatePosition(grid, id, p, q)[s]
  <2>1. \A s \in Sectors : WentFrom(grid, UpdatePosition(grid, id, p, q), id, p, q, s)
    BY <1>4, SectorAfter
  <2> QED
    BY <1>2, <1>4, <2>1 DEF WentFrom
<1>5. ASSUME ~(OnMap(p) /\ OnMap(q))
      PROVE  /\ OnMap(q) => id \in UpdatePosition(grid, id, p, q)[SectorOf(q)]
             /\ \A s \in Sectors : \A other \in grid[s] : other # id =>
                  other \in UpdatePosition(grid, id, p, q)[s]
  BY <1>2, <1>5 DEF UpdatePosition, AddTo
<1> QED
  BY <1>1, <1>3, <1>4, <1>5

LEMMA StepMissesNobody ==
  ASSUME TypeOK, RegistryBijective, UidsIssued, NobodyMissing, [Next]_vars
  PROVE  NobodyMissing'
<1>1. /\ DOMAIN sectors = Sectors
      /\ \A a \in DOMAIN playerMap : playerMap[a].pos \in Points
      /\ \A a, b \in DOMAIN playerMap : playerMap[a].uid = playerMap[b].uid => a = b
      /\ \A a \in DOMAIN playerMap : playerMap[a].uid # uidCounter
  BY DEF TypeOK, Players, RegistryBijective, UidsIssued
<1>2. Landings \subseteq Points
  BY LandingsGround, ZoneAssumption DEF Ground, Points
<1>3. \A a \in DOMAIN playerMap : OnMap(playerMap[a].pos) => SectorOf(playerMap[a].pos) \in Sectors
  BY <1>1, OnMapSector
<1>4. CASE UNCHANGED <<playerMap, sectors, mirror, uidToAccount, uidCounter>>
  BY <1>4 DEF NobodyMissing
<1>5. ASSUME NEW a, NEW pos, Joined(a, pos), pos \in Landings
      PROVE  NobodyMissing'
  <2>1. /\ DOMAIN playerMap' = DOMAIN playerMap \cup {a} /\ a \notin DOMAIN playerMap
        /\ playerMap'[a].uid = uidCounter /\ playerMap'[a].pos = pos
        /\ \A b \in DOMAIN playerMap : playerMap'[b] = playerMap[b]
        /\ sectors' = UpdatePosition(EnterZone(sectors, uidCounter, pos), uidCounter, pos, pos)
    BY <1>5 DEF Joined, With, Online
  <2>2. OnMap(pos) => uidCounter \in sectors'[SectorOf(pos)]
    BY <1>1, <1>2, <1>5, <2>1, PlacedAfter
  <2>3. \A s \in Sectors : \A other \in sectors[s] : other # uidCounter => other \in sectors'[s]
    BY <1>1, <1>2, <1>5, <2>1, PlacedAfter
  <2> QED
    BY <1>1, <1>3, <2>1, <2>2, <2>3 DEF NobodyMissing
<1>6. ASSUME NEW a, NEW pos, NEW hp, Moved(a, pos, hp),
             pos \in Landings \/ pos = playerMap[a].pos
      PROVE  NobodyMissing'
  <2>1. /\ a \in DOMAIN playerMap /\ DOMAIN playerMap' = DOMAIN playerMap
        /\ \A b \in DOMAIN playerMap \ {a} : playerMap'[b] = playerMap[b]
        /\ playerMap'[a].uid = playerMap[a].uid /\ playerMap'[a].pos = pos
        /\ sectors' = UpdatePosition(sectors, playerMap[a].uid, playerMap[a].pos, pos)
    BY <1>6 DEF Moved, Online
  <2>2. pos \in Points /\ playerMap[a].pos \in Points
    BY <1>1, <1>2, <1>6, <2>1
  <2>3. OnMap(pos) => playerMap[a].uid \in sectors'[SectorOf(pos)]
    BY <1>1, <2>1, <2>2, PlacedAfter DEF NobodyMissing
  <2>4. \A s \in Sectors : \A other \in sectors[s] :
          other # playerMap[a].uid => other \in sectors'[s]
    BY <1>1, <2>1, <2>2, PlacedAfter
  <2>5. ASSUME NEW b \in DOMAIN playerMap', OnMap(playerMap'[b].pos), b # a
        PROVE  playerMap'[b].uid \in sectors'[SectorOf(playerMap'[b].pos)]
    BY <1>1, <1>3, <2>1, <2>4, <2>5 DEF NobodyMissing
  <2> QED
    BY <2>1, <2>3, <2>5 DEF NobodyMissing
<1>7. ASSUME NEW gone, Removed(gone)
      PROVE  NobodyMissing'
  <2>1. /\ DOMAIN playerMap' = DOMAIN playerMap \ gone /\ gone \subseteq DOMAIN playerMap
        /\ \A b \in DOMAIN playerMap' : playerMap'[b] = playerMap[b]
    BY <1>7 DEF Removed, Without, Restrict
  <2> SUFFICES ASSUME NEW b \in DOMAIN playerMap', OnMap(playerMap[b].pos)
               PROVE  playerMap[b].uid \in sectors'[SectorOf(playerMap[b].pos)]
    BY <2>1 DEF NobodyMissing
  <2> DEFINE s == SectorOf(playerMap[b].pos)
             leaving == {c \in gone : OnMap(playerMap[c].pos) /\ SectorOf(playerMap[c].pos) = s}
  <2>2. b \in DOMAIN playerMap /\ b \notin gone /\ s \in Sectors /\ playerMap[b].uid \in sectors[s]
    BY <1>3, <2>1 DEF NobodyMissing
  <2>3. sectors'[s] = sectors[s] \ {playerMap[c].uid : c \in leaving}
    BY <1>7, <2>2 DEF Removed
  <2>4. leaving \subseteq gone
    OBVIOUS
  <2> HIDE DEF leaving, s
  <2>5. playerMap[b].uid \notin {playerMap[c].uid : c \in leaving}
    BY <1>1, <2>1, <2>2, <2>4
  <2> QED
    BY <2>2, <2>3, <2>5 DEF s
<1> QED
  BY <1>4, <1>5, <1>6, <1>7, PlayersChange

\* Players on the map that stand at most a sector's side apart are shown to each other.
NearSeen ==
  \A a, b \in DOMAIN playerMap :
    LET p == playerMap[a].pos
        q == playerMap[b].pos
    IN  OnMap(p) /\ OnMap(q) /\ Apart(q, p, SectorSize)
          => playerMap[b].uid \in InAOI(sectors, p)

\* Whatever positions are asked for, no player on the map misses what happens at most
\* a sector's side away (Zone::GetPlayersInAOI, asked by every broadcast): a walk over
\* the edge may leave ghosts in the zone, but never hides anybody.
THEOREM NearIsShown == Spec => []NearSeen
<1>1. Init => NobodyMissing
  BY EmptyDomain DEF Init, NobodyMissing
<1>2. TypeOK /\ (RegistryBijective /\ UidsIssued) /\ NobodyMissing /\ [Next]_vars => NobodyMissing'
  BY StepMissesNobody
<1>3. TypeOK /\ NobodyMissing => NearSeen
  <2> SUFFICES ASSUME TypeOK, NobodyMissing,
                      NEW a \in DOMAIN playerMap, NEW b \in DOMAIN playerMap,
                      OnMap(playerMap[a].pos), OnMap(playerMap[b].pos),
                      Apart(playerMap[b].pos, playerMap[a].pos, SectorSize)
               PROVE  playerMap[b].uid \in InAOI(sectors, playerMap[a].pos)
    BY DEF NearSeen
  <2>1. playerMap[a].pos \in Points /\ playerMap[b].pos \in Points
    BY DEF TypeOK, Players
  <2>2. SectorOf(playerMap[b].pos) \in Neighbours(playerMap[a].pos)
    BY <2>1, NearIsNeighbour
  <2>3. playerMap[b].uid \in sectors[SectorOf(playerMap[b].pos)]
    BY DEF NobodyMissing
  <2> QED
    BY <2>2, <2>3 DEF InAOI
<1> QED
  BY <1>1, <1>2, <1>3, TypeCorrect, RegistryCorrect, PTL DEF Spec

\* Whoever is shown is online and less than two sectors' sides away.
FarHidden ==
  \A a \in DOMAIN playerMap : \A u \in InAOI(sectors, playerMap[a].pos) :
    \E b \in DOMAIN playerMap :
      playerMap[b].uid = u /\ Apart(playerMap[b].pos, playerMap[a].pos, 2 * SectorSize - 1)

\* While nobody asks for the right or the lower edge, a broadcast reaches nobody who
\* is offline or as far as two sectors' sides away (Zone::GetPlayersInAOI).
THEOREM FarIsHidden ==
  ASSUME \A p \in Requests : OnMap(Clamp(p))
  PROVE  Spec => []FarHidden
<1>1. TypeOK /\ SectorsExact => FarHidden
  <2> SUFFICES ASSUME TypeOK, SectorsExact, NEW a \in DOMAIN playerMap,
                      NEW u \in InAOI(sectors, playerMap[a].pos)
               PROVE  \E b \in DOMAIN playerMap :
                        /\ playerMap[b].uid = u
                        /\ Apart(playerMap[b].pos, playerMap[a].pos, 2 * SectorSize - 1)
    BY DEF FarHidden
  <2> DEFINE p == playerMap[a].pos
  <2>1. PICK s \in Neighbours(p) : u \in sectors[s]
    BY DEF InAOI
  <2>2. s \in Sectors /\ s.row - SectorOf(p).row \in -1..1 /\ s.col - SectorOf(p).col \in -1..1
    BY DEF Neighbours
  <2>3. PICK b \in DOMAIN playerMap : playerMap[b].uid = u /\ SectorOf(playerMap[b].pos) = s
    BY <2>1, <2>2 DEF SectorsExact
  <2> DEFINE q == playerMap[b].pos
  <2>4. p.x \in Int /\ p.y \in Int /\ q.x \in Int /\ q.y \in Int
    BY DEF TypeOK, Players, Points
  <2> HIDE DEF p, q
  <2>5. /\ q.y \div SectorSize - p.y \div SectorSize \in -1..1
        /\ q.x \div SectorSize - p.x \div SectorSize \in -1..1
    BY <2>2, <2>3 DEF SectorOf, q
  <2>6. /\ q.x - p.x < 2 * SectorSize /\ p.x - q.x < 2 * SectorSize
        /\ q.y - p.y < 2 * SectorSize /\ p.y - q.y < 2 * SectorSize
    BY <2>4, <2>5, AdjacentSlices
  <2>7. Apart(q, p, 2 * SectorSize - 1)
    BY <2>4, <2>6, ZoneAssumption DEF Apart
  <2> QED
    BY <2>3, <2>7 DEF p, q
<1> QED
  BY <1>1, ZoneExact, TypeCorrect, PTL

-------------------------------------------------------------------------------
(* A failed gateway, once its cleanup has run.                             *)

Reaped(g) == link[g] = "closed" /\ ~CleanupDue(g)

LEMMA StepKeepsReaped ==
  ASSUME TypeOK, NEW g \in Gateways, Reaped(g), [Next]_vars
  PROVE  Reaped(g)'
<1>1. ASSUME UNCHANGED strand, link'[g] = "closed"
      PROVE  Reaped(g)'
  BY <1>1 DEF Reaped, CleanupDue
<1>2. ASSUME NEW t \in Tasks, strand' = Append(strand, t), t.kind # "cleanup" \/ t.gw # g,
             link'[g] = "closed"
      PROVE  Reaped(g)'
  BY <1>2, PostFacts DEF Reaped, CleanupDue
<1>3. ASSUME NEW kind, Take(kind), UNCHANGED link
      PROVE  Reaped(g)'
  BY <1>3, TakeFacts DEF Reaped, CleanupDue
<1>4. ASSUME NEW h \in Gateways, do_accept(h) \/ BadHeader(h)
      PROVE  Reaped(g)'
  <2>1. UNCHANGED strand /\ h # g
    BY <1>4 DEF do_accept, BadHeader, Reaped
  <2>2. link'[g] = link[g]
    BY <1>4, <2>1 DEF do_accept, BadHeader, TypeOK
  <2> QED
    BY <1>1, <2>1, <2>2 DEF Reaped
<1>5. ASSUME NEW h \in Gateways, ReadPayload(h)
      PROVE  Reaped(g)'
  <2>1. UNCHANGED link /\ \E t \in PacketTasks : t.gw = h /\ strand' = Append(strand, t)
    BY <1>5 DEF ReadPayload
  <2>2. \A t \in PacketTasks : t \in Tasks /\ t.kind # "cleanup"
    BY DEF Tasks, PacketTasks
  <2> QED
    BY <1>2, <2>1, <2>2 DEF Reaped
<1>6. ASSUME NEW h \in Gateways, OnDisconnected(h)
      PROVE  Reaped(g)'
  <2>1. h # g
    BY <1>6 DEF OnDisconnected, Reaped
  <2>2. [kind |-> "cleanup", gw |-> h] \in Tasks
    BY DEF Tasks, CleanupTasks
  <2>3. link'[g] = link[g]
    BY <1>6, <2>1 DEF OnDisconnected, TypeOK
  <2> QED
    BY <1>2, <1>6, <2>1, <2>2, <2>3 DEF OnDisconnected, Reaped
<1>7. CASE RunTask
  BY <1>3, <1>7 DEF RunTask, Handle_GatewayGameMoveReq, Handle_GatewayGameLeaveReq,
                    CleanupGateway, network
<1>8. ASSUME NEW u \in DOMAIN uidToAccount, MonsterHit(u)
      PROVE  Reaped(g)'
  BY <1>1, <1>8 DEF MonsterHit, network, Reaped
<1>9. CASE UNCHANGED vars
  BY <1>1, <1>9 DEF vars, network, Reaped
<1> QED
  BY <1>4, <1>5, <1>6, <1>7, <1>8, <1>9 DEF Next

\* Once the cleanup of a failed gateway has run, no packet it sent before, and nothing
\* else, ever puts a player back into its set: the safety half of FailedGatewayReaped.
THEOREM ReapedForGood ==
  ASSUME NEW g \in Gateways
  PROVE  Spec => [](Reaped(g) => [](gatewayPlayerMap[g] = {}))
<1>1. TypeOK /\ Reaped(g) /\ [Next]_vars => Reaped(g)'
  BY StepKeepsReaped
<1>2. ZombieInv /\ Reaped(g) => gatewayPlayerMap[g] = {}
  BY DEF ZombieInv, OwnersAccountable, Accountable, Reaped
<1> QED
  BY <1>1, <1>2, TypeCorrect, ZombieInvHolds, PTL DEF Spec

===============================================================================
