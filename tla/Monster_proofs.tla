---------------------------- MODULE Monster_proofs ----------------------------
(***************************************************************************)
(* Theorems about Monster, for every map, navmesh, range, timer and number *)
(* of players.                                                             *)
(*                                                                         *)
(* What a method of Monster promises about the object it returns is said   *)
(* once, by the lemmas; a step is then a chain of methods.                 *)
(***************************************************************************)
EXTENDS Monster, SequenceTheorems, TLAPS

-------------------------------------------------------------------------------
(* The methods of the object.                                              *)

PathRequests == [from : Field, to : Ground, state : States, fresh : BOOLEAN]

Objects ==
  [state : States, pos : Field, target : Uids \cup {NoTarget}, goal : Ground,
   path : Seq(Ground), index : Nat \ {0}, hp : Nat, attackTimer : Nat, deadTimer : Nat,
   requests : SUBSET PathRequests]

LEMMA NewVersionType ==
  ASSUME NEW rs \in SUBSET PathRequests
  PROVE  NewVersion(rs) \in SUBSET PathRequests
BY DEF NewVersion, PathRequests

\* CalculatePath only adds a request.
LEMMA CalculatePathKeeps ==
  ASSUME NEW m \in Objects
  PROVE  /\ CalculatePath(m) \in Objects
         /\ CalculatePath(m).state = m.state /\ CalculatePath(m).pos = m.pos
         /\ CalculatePath(m).hp = m.hp /\ CalculatePath(m).attackTimer = m.attackTimer
         /\ CalculatePath(m).target = m.target /\ CalculatePath(m).goal = m.goal
<1> DEFINE r == [from |-> m.pos, to |-> m.goal, state |-> m.state, fresh |-> TRUE]
<1>1. r \in PathRequests
  BY DEF Objects, PathRequests
<1>2. m.requests \in SUBSET PathRequests
  BY DEF Objects
<1>3. NewVersion(m.requests) \cup {r} \in SUBSET PathRequests
  BY <1>1, <1>2, NewVersionType
<1>4. CalculatePath(m) = [m EXCEPT !.requests = NewVersion(m.requests) \cup {r}]
  BY DEF CalculatePath
<1> HIDE DEF r
<1> QED
  BY <1>3, <1>4 DEF Objects

\* The map is a part of where a monster can be.
LEMMA GroundIsField == Ground \subseteq Field
<1>1. ASSUME NEW n \in Nat, NEW k \in Nat PROVE 0..n \subseteq -k..(n + k)
  BY <1>1
<1> QED
  BY <1>1, ZoneAssumption, MonsterAssumption DEF Ground, Field

\* A walk changes the position only, and keeps it in the field.
LEMMA WalkType ==
  ASSUME NEW m \in Objects, NEW n \in Walk(m)
  PROVE  \E q \in Toward(m.pos, Waypoint(m)) : q \in Field /\ n = [m EXCEPT !.pos = q]
BY DEF Walk, Toward

\* The next waypoint, if there is one, is on the ground.
LEMMA WaypointType ==
  ASSUME NEW m \in Objects, ~Exhausted(m)
  PROVE  Waypoint(m) \in Ground
<1>1. m.path \in Seq(Ground) /\ m.index \in Nat \ {0}
  BY DEF Objects
<1>2. Len(m.path) \in Nat /\ m.index \in 1..Len(m.path)
  BY <1>1, LenProperties DEF Exhausted
<1> QED
  BY <1>1, <1>2, ElementOfSeq DEF Waypoint

\* A point is within any distance of itself.
LEMMA OnTheSpot ==
  ASSUME NEW p \in Ground, NEW e \in Nat
  PROVE  Within(p, p, e)
<1>1. p.x \in Int /\ p.y \in Int
  BY ZoneAssumption DEF Ground
<1>2. Squared(p, p) = 0
  BY <1>1 DEF Squared
<1>3. e * e \in Nat
  OBVIOUS
<1> QED
  BY <1>2, <1>3 DEF Within

\* What the tick does before it moves the monster: it looks for a target.
Looked(m, seen) ==
  /\ seen \in Objects
  /\ seen.pos = m.pos /\ seen.hp = m.hp /\ seen.attackTimer = m.attackTimer
  /\ seen.state \in {m.state, "CHASE", "RETURN"}

LEMMA ProcessLooks ==
  ASSUME TypeOK, mon.state # "DEAD", NEW seen \in Process(mon)
  PROVE  /\ Looked(mon, seen)
         /\ seen.state = "IDLE" => mon.state = "IDLE"
         /\ seen.state = "ATTACK" =>
              /\ mon.state = "ATTACK" /\ Online(mon.target) /\ seen.target = mon.target
              /\ Within(seen.goal, players[mon.target], TargetEpsilon)
         /\ mon.state = "ATTACK" => seen.state \in {"ATTACK", "RETURN"}
<1>1. mon \in Objects
  BY DEF TypeOK, Objects, PathRequests
<1>2. Home \in Ground
  BY MonsterAssumption
<1>3. \A u \in DOMAIN players : u \in Uids /\ players[u] \in Ground
  BY DEF TypeOK
<1>4. CASE mon.state = "IDLE"
  <2>1. seen \in ProcessIdle(mon)
    BY <1>4 DEF Process
  <2>2. CASE seen = mon
    BY <1>1, <1>4, <2>2 DEF Looked
  <2>3. CASE \E u \in Spotted(mon) : seen = SetTarget(mon, u, players[u])
    <3>1. PICK u \in DOMAIN players : seen = SetTarget(mon, u, players[u])
      BY <2>3 DEF Spotted
    <3> DEFINE n == [mon EXCEPT !.target = u, !.goal = players[u], !.state = "CHASE"]
    <3>2. /\ n \in Objects /\ n.pos = mon.pos /\ n.hp = mon.hp
          /\ n.attackTimer = mon.attackTimer /\ n.state = "CHASE"
      BY <1>1, <1>3 DEF Objects, States
    <3>3. seen = CalculatePath(n)
      BY <3>1 DEF SetTarget
    <3> HIDE DEF n
    <3> QED
      BY <1>4, <3>2, <3>3, CalculatePathKeeps DEF Looked, Objects
  <2> QED
    BY <2>1, <2>2, <2>3 DEF ProcessIdle
<1>5. CASE mon.state \in {"CHASE", "ATTACK"} /\ Keeps(mon)
  <2>1. seen = UpdateTargetPosition(mon, players[mon.target]) /\ Online(mon.target)
    BY <1>5 DEF Process, ProcessChase, ProcessAttack, Keeps
  <2> DEFINE n == [mon EXCEPT !.goal = players[mon.target]]
  <2>2. /\ n \in Objects /\ n.pos = mon.pos /\ n.hp = mon.hp
        /\ n.attackTimer = mon.attackTimer /\ n.state = mon.state
        /\ n.goal = players[mon.target] /\ n.target = mon.target
    BY <1>1, <1>3, <2>1 DEF Objects, Online
  <2>3. \/ seen = mon /\ Within(mon.goal, players[mon.target], TargetEpsilon)
        \/ seen = CalculatePath(n)
    BY <2>1 DEF UpdateTargetPosition
  <2>4. Within(n.goal, players[mon.target], TargetEpsilon)
    BY <1>3, <2>1, <2>2, OnTheSpot, MonsterAssumption DEF Online
  <2> HIDE DEF n
  <2>5. CASE seen = mon /\ Within(mon.goal, players[mon.target], TargetEpsilon)
    BY <1>1, <1>5, <2>1, <2>5 DEF Looked
  <2>6. CASE seen = CalculatePath(n)
    BY <1>1, <1>5, <2>1, <2>2, <2>4, <2>6, CalculatePathKeeps DEF Looked
  <2> QED
    BY <2>3, <2>5, <2>6
<1>6. CASE mon.state \in {"CHASE", "ATTACK"} /\ ~Keeps(mon)
  <2>1. seen = GiveUpChase(mon) \/ seen = GiveUpAttack(mon)
    BY <1>6 DEF Process, ProcessChase, ProcessAttack
  <2> DEFINE n == [mon EXCEPT !.state = "RETURN", !.goal = Home]
             k == [mon EXCEPT !.state = "RETURN", !.target = NoTarget, !.goal = Home]
  <2>2. /\ n \in Objects /\ n.pos = mon.pos /\ n.hp = mon.hp
        /\ n.attackTimer = mon.attackTimer /\ n.state = "RETURN"
    BY <1>1, <1>2 DEF Objects, States
  <2>3. /\ k \in Objects /\ k.pos = mon.pos /\ k.hp = mon.hp
        /\ k.attackTimer = mon.attackTimer /\ k.state = "RETURN"
    BY <1>1, <1>2 DEF Objects, States
  <2>4. seen = CalculatePath(n) \/ seen = CalculatePath(k)
    BY <2>1 DEF GiveUpChase, GiveUpAttack
  <2> HIDE DEF n, k
  <2>5. CASE seen = CalculatePath(n)
    BY <1>6, <2>2, <2>5, CalculatePathKeeps DEF Looked
  <2>6. CASE seen = CalculatePath(k)
    BY <1>6, <2>3, <2>6, CalculatePathKeeps DEF Looked
  <2> QED
    BY <2>4, <2>5, <2>6
<1>7. CASE mon.state = "RETURN"
  BY <1>1, <1>7 DEF Process, Looked
<1> QED
  BY <1>1, <1>4, <1>5, <1>6, <1>7 DEF Objects, States

-------------------------------------------------------------------------------
(* The tick.                                                               *)

\* What Update makes of the object: it walks, or changes what it does.
LEMMA UpdateMoves ==
  ASSUME NEW m \in Objects, m.state # "DEAD", NEW n \in Update(m)
  PROVE  /\ n \in Objects
         /\ n.hp = m.hp /\ n.state # "DEAD"
         /\ n.state = "IDLE" => \/ m.state = "IDLE" /\ n.pos = m.pos
                               \/ n.pos = Home
         /\ n.attackTimer < m.attackTimer =>
              /\ m.state = "ATTACK" /\ Within(m.pos, m.goal, AttackRange)
              /\ n.pos = m.pos
<1> DEFINE Goal == /\ n \in Objects
                   /\ n.hp = m.hp /\ n.state # "DEAD"
                   /\ n.state = "IDLE" => \/ m.state = "IDLE" /\ n.pos = m.pos
                                         \/ n.pos = Home
                   /\ n.attackTimer < m.attackTimer =>
                        /\ m.state = "ATTACK" /\ Within(m.pos, m.goal, AttackRange)
                        /\ n.pos = m.pos
<1>1. m.attackTimer \in Nat /\ m.hp \in Nat /\ m.index \in Nat \ {0} /\ m.pos \in Field
  BY DEF Objects
<1>2. ASSUME NEW q \in Field, n = [m EXCEPT !.pos = q], m.state \in {"CHASE", "RETURN"}
      PROVE  Goal
  BY <1>1, <1>2 DEF Objects
<1>3. ASSUME n = [m EXCEPT !.index = m.index + 1], m.state \in {"CHASE", "RETURN"}
      PROVE  Goal
  BY <1>1, <1>3 DEF Objects
<1>4. CASE m.state = "CHASE"
  <2>1. \/ n = m
        \/ n = [m EXCEPT !.state = "ATTACK"]
        \/ n = [m EXCEPT !.index = m.index + 1]
        \/ n \in Walk(m)
    BY <1>4 DEF Update, UpdateChase
  <2>2. CASE n = m
    BY <1>1, <1>4, <2>2
  <2>3. CASE n = [m EXCEPT !.state = "ATTACK"]
    BY <1>1, <1>4, <2>3 DEF Objects, States
  <2>4. CASE n \in Walk(m)
    BY <1>2, <1>4, <2>4, WalkType
  <2> QED
    BY <1>3, <1>4, <2>1, <2>2, <2>3, <2>4
<1>5. CASE m.state = "RETURN"
  <2>1. \/ n = [m EXCEPT !.pos = Home, !.state = "IDLE"]
        \/ n = [m EXCEPT !.index = m.index + 1]
        \/ n \in Walk(m)
    BY <1>5 DEF Update, UpdateReturn
  <2>2. CASE n = [m EXCEPT !.pos = Home, !.state = "IDLE"]
    <3>1. Home \in Field
      BY MonsterAssumption, GroundIsField
    <3> DEFINE k == [m EXCEPT !.pos = Home]
    <3>2. /\ k \in Objects /\ k.pos = Home /\ k.hp = m.hp /\ k.attackTimer = m.attackTimer
      BY <3>1 DEF Objects
    <3>3. n = [k EXCEPT !.state = "IDLE"]
      BY <2>2 DEF Objects
    <3> HIDE DEF k
    <3>4. /\ n \in Objects /\ n.hp = k.hp /\ n.pos = k.pos
          /\ n.attackTimer = k.attackTimer /\ n.state = "IDLE"
      BY <3>2, <3>3 DEF Objects, States
    <3> QED
      BY <1>1, <3>2, <3>4
  <2>3. CASE n \in Walk(m)
    BY <1>2, <1>5, <2>3, WalkType
  <2> QED
    BY <1>3, <1>5, <2>1, <2>2, <2>3
<1>6. CASE m.state = "ATTACK"
  <2>1. n = UpdateAttack(m)
    BY <1>6 DEF Update
  <2>2. CASE ~Within(m.pos, m.goal, AttackRange)
    <3> DEFINE k == [m EXCEPT !.state = "CHASE"]
    <3>1. k \in Objects /\ k.state = "CHASE" /\ k.hp = m.hp /\ k.attackTimer = m.attackTimer
      BY DEF Objects, States
    <3>2. n = CalculatePath(k)
      BY <2>1, <2>2 DEF UpdateAttack
    <3> HIDE DEF k
    <3> QED
      BY <1>1, <3>1, <3>2, CalculatePathKeeps
  <2>3. CASE Within(m.pos, m.goal, AttackRange)
    <3>1. Cooldown \in Nat \ {0}
      BY MonsterAssumption
    <3>2. \/ /\ n = [m EXCEPT !.attackTimer = m.attackTimer + 1 - Cooldown]
             /\ m.attackTimer + 1 - Cooldown \in Nat
          \/ n = [m EXCEPT !.attackTimer = m.attackTimer + 1]
      BY <1>1, <2>1, <2>3, <3>1 DEF UpdateAttack, Strikes
    <3>3. ASSUME NEW t \in Nat, n = [m EXCEPT !.attackTimer = t]
          PROVE  /\ n \in Objects /\ n.hp = m.hp /\ n.state = m.state /\ n.pos = m.pos
      BY <3>3 DEF Objects
    <3>4. \E t \in Nat : n = [m EXCEPT !.attackTimer = t]
      BY <1>1, <3>2
    <3> QED
      BY <1>6, <2>3, <3>3, <3>4
  <2> QED
    BY <2>2, <2>3
<1>7. CASE m.state = "IDLE"
  BY <1>1, <1>7 DEF Update
<1> QED
  BY <1>4, <1>5, <1>6, <1>7 DEF Objects, States

LEMMA ObjectType == TypeOK <=>
  /\ mon \in Objects
  /\ grid \in [Sectors -> SUBSET {MonsterId}]
  /\ DOMAIN players \subseteq Uids
  /\ players \in [DOMAIN players -> Ground]
BY DEF TypeOK, Objects, PathRequests

\* Sync moves the monster's id and no other.
LEMMA SyncType ==
  ASSUME TypeOK, NEW before, NEW after
  PROVE  Sync(before, after) \in [Sectors -> SUBSET {MonsterId}]
<1>1. ASSUME NEW g \in [Sectors -> SUBSET {MonsterId}], NEW s
      PROVE  /\ AddTo(g, s, MonsterId) \in [Sectors -> SUBSET {MonsterId}]
             /\ RemoveFrom(g, s, MonsterId) \in [Sectors -> SUBSET {MonsterId}]
  BY DEF AddTo, RemoveFrom
<1> QED
  BY <1>1 DEF Sync, UpdatePositionMonster, TypeOK

\* An attack leaves the players where they may be.
LEMMA AttackType ==
  ASSUME TypeOK, NEW u, OnAttack(u) \/ UNCHANGED players
  PROVE  DOMAIN players' \subseteq Uids /\ players' \in [DOMAIN players' -> Ground]
<1>1. PlayerSpawn \in Ground
  BY MonsterAssumption
<1>2. players' = players \/ players' = [players EXCEPT ![u] = PlayerSpawn]
  BY DEF OnAttack
<1> QED
  BY <1>1, <1>2 DEF TypeOK

MonsterInv == TypeOK /\ IdleAtHome /\ DeadMeansNoHp

LEMMA InitMonster == Init => MonsterInv
<1> SUFFICES ASSUME Init PROVE MonsterInv
  OBVIOUS
<1>1. /\ Home \in Ground /\ MaxHp \in Nat /\ MaxHp # 0 /\ Cooldown \in Nat
      /\ [x |-> 0, y |-> 0] \in Ground /\ Home \in Field
  BY MonsterAssumption, ZoneAssumption, GroundIsField DEF Ground
<1>2. /\ mon = [state |-> "IDLE", pos |-> Home, target |-> NoTarget,
                goal |-> [x |-> 0, y |-> 0], path |-> <<>>, index |-> 1, requests |-> {},
                hp |-> MaxHp, attackTimer |-> Cooldown, deadTimer |-> 0]
      /\ grid = EnterZone(EmptyGrid, MonsterId, Home) /\ players = <<>>
  BY DEF Init
<1>3. mon \in Objects /\ mon.state = "IDLE" /\ mon.pos = Home /\ mon.hp = MaxHp
  BY <1>1, <1>2, EmptySeq DEF Objects, States
<1>4. grid \in [Sectors -> SUBSET {MonsterId}]
  BY <1>2 DEF EnterZone, EmptyGrid, AddTo
<1>5. DOMAIN players = {}
  BY <1>2
<1> QED
  BY <1>1, <1>2, <1>3, <1>4, <1>5, ObjectType DEF MonsterInv, IdleAtHome, DeadMeansNoHp

LEMMA TickKeeps ==
  ASSUME MonsterInv, Tick
  PROVE  MonsterInv'
<1>1. mon \in Objects
  BY ObjectType DEF MonsterInv
<1>2. CASE TickAlive
  <2>1. PICK seen \in Process(mon) :
          /\ mon' \in Update(seen) /\ grid' = Sync(mon, mon')
          /\ OnAttack(seen.target) \/ UNCHANGED players
    BY <1>2 DEF TickAlive
  <2>2. mon.state # "DEAD"
    BY <1>2 DEF TickAlive
  <2>3. Looked(mon, seen) /\ (seen.state = "IDLE" => mon.state = "IDLE")
    BY <2>2, ProcessLooks DEF MonsterInv
  <2>4. seen \in Objects /\ seen.state # "DEAD" /\ seen.hp = mon.hp /\ seen.pos = mon.pos
    BY <2>2, <2>3 DEF Looked
  <2>5. /\ mon' \in Objects /\ mon'.hp = mon.hp /\ mon'.state # "DEAD"
        /\ mon'.state = "IDLE" => mon'.pos = Home
    <3>1. mon.state = "IDLE" => mon.pos = Home
      BY DEF MonsterInv, IdleAtHome
    <3> QED
      BY <2>1, <2>3, <2>4, <3>1, UpdateMoves
  <2>6. grid' \in [Sectors -> SUBSET {MonsterId}]
    BY <2>1, SyncType DEF MonsterInv
  <2>7. DOMAIN players' \subseteq Uids /\ players' \in [DOMAIN players' -> Ground]
    BY <2>1, AttackType DEF MonsterInv
  <2> QED
    BY <2>2, <2>5, <2>6, <2>7 DEF MonsterInv, TypeOK, Objects, PathRequests, IdleAtHome, DeadMeansNoHp
<1>3. CASE TickDead
  <2>1. mon.state = "DEAD" /\ mon' = ProcessDead(mon) /\ UNCHANGED <<grid, players>>
    BY <1>3 DEF TickDead
  <2> DEFINE waited == [mon EXCEPT !.deadTimer = mon.deadTimer + 1]
  <2>2. waited \in Objects /\ waited.state = "DEAD" /\ waited.hp = mon.hp
    BY <1>1, <2>1 DEF Objects
  <2>3. mon' = waited \/ mon' = Respawn(waited)
    BY <2>1 DEF ProcessDead
  <2> HIDE DEF waited
  <2>4. CASE mon' = waited
    BY <2>1, <2>2, <2>4 DEF MonsterInv, TypeOK, Objects, PathRequests, IdleAtHome, DeadMeansNoHp
  <2>5. CASE mon' = Respawn(waited)
    <3>1. Home \in Field /\ MaxHp \in Nat /\ MaxHp # 0
      BY MonsterAssumption, GroundIsField
    <3>2. NewVersion(waited.requests) \in SUBSET PathRequests
      BY <2>2, NewVersionType DEF Objects
    <3>3. mon' \in Objects /\ mon'.state = "IDLE" /\ mon'.pos = Home /\ mon'.hp = MaxHp
      BY <2>2, <2>5, <3>1, <3>2, EmptySeq DEF Respawn, Objects, States
    <3> QED
      BY <2>1, <3>1, <3>3 DEF MonsterInv, TypeOK, Objects, PathRequests, IdleAtHome, DeadMeansNoHp
  <2> QED
    BY <2>3, <2>4, <2>5
<1> QED
  BY <1>2, <1>3 DEF Tick

LEMMA DeliverKeeps ==
  ASSUME MonsterInv, Deliver
  PROVE  MonsterInv'
<1>1. mon \in Objects
  BY ObjectType DEF MonsterInv
<1>2. PICK r \in mon.requests :
        LET done == [mon EXCEPT !.requests = mon.requests \ {r}]
            path == FindPath(r.from, r.to)
            there == Len(path) > 1 /\ Reached(mon.pos, path[1])
        IN  \/ mon' = [done EXCEPT !.path = path, !.index = IF there THEN 2 ELSE 1]
            \/ mon' = done
  BY DEF Deliver
<1> DEFINE done == [mon EXCEPT !.requests = mon.requests \ {r}]
<1>3. /\ done \in Objects /\ done.state = mon.state /\ done.pos = mon.pos /\ done.hp = mon.hp
  BY <1>1 DEF Objects
<1>4. r.from \in Field /\ r.to \in Ground
  BY <1>1 DEF Objects, PathRequests
<1>5. FindPath(r.from, r.to) \in Seq(Ground)
  BY <1>4, MonsterAssumption DEF Field
<1> HIDE DEF done
<1>6. \/ mon' = done
      \/ \E n \in {1, 2} : mon' = [done EXCEPT !.path = FindPath(r.from, r.to), !.index = n]
  BY <1>2 DEF done
<1>7. mon' \in Objects /\ mon'.state = mon.state /\ mon'.pos = mon.pos /\ mon'.hp = mon.hp
  <2>1. CASE mon' = done
    BY <1>3, <2>1
  <2>2. ASSUME NEW n \in {1, 2}, NEW p \in Seq(Ground), mon' = [done EXCEPT !.path = p, !.index = n]
        PROVE  mon' \in Objects /\ mon'.state = mon.state /\ mon'.pos = mon.pos /\ mon'.hp = mon.hp
    <3>1. /\ mon'.state = done.state /\ mon'.pos = done.pos /\ mon'.hp = done.hp
          /\ mon' \in Objects
      <4> DEFINE routed == [done EXCEPT !.path = p]
      <4>1. /\ routed \in Objects /\ routed.state = done.state /\ routed.pos = done.pos
            /\ routed.hp = done.hp
        BY <1>3 DEF Objects
      <4>2. mon' = [routed EXCEPT !.index = n] /\ n \in Nat \ {0}
        BY <2>2, <1>3 DEF Objects
      <4> HIDE DEF routed
      <4> QED
        BY <4>1, <4>2 DEF Objects
    <3> QED
      BY <1>3, <3>1
  <2> QED
    BY <1>5, <1>6, <2>1, <2>2
<1>8. UNCHANGED <<grid, players>>
  BY DEF Deliver
<1> QED
  BY <1>7, <1>8 DEF MonsterInv, TypeOK, Objects, PathRequests, IdleAtHome, DeadMeansNoHp

LEMMA PacketsKeep ==
  ASSUME MonsterInv,
         \/ \E u \in Uids : Handle_GatewayGameAttackReq(u) \/ PlayerMoves(u)
         \/ \E us \in SUBSET DOMAIN players : PlayersLeave(us)
         \/ Handle_WorldGameMonsterBuff
  PROVE  MonsterInv'
<1>1. mon \in Objects
  BY ObjectType DEF MonsterInv
<1>2. CASE \E u \in Uids : Handle_GatewayGameAttackReq(u)
  <2>1. PlayerDamage \in Nat
    BY MonsterAssumption
  <2> DEFINE hurt == TakeDamage(mon, PlayerDamage)
  <2>2. hurt \in Objects /\ hurt.state = mon.state /\ hurt.pos = mon.pos
    <3> DEFINE left == IF mon.hp > PlayerDamage THEN mon.hp - PlayerDamage ELSE 0
    <3>1. left \in Nat
      BY <1>1, <2>1 DEF Objects
    <3>2. hurt = [mon EXCEPT !.hp = left]
      BY DEF TakeDamage
    <3> HIDE DEF left
    <3> QED
      BY <1>1, <3>1, <3>2 DEF Objects
  <2>3. mon.state # "DEAD" /\ (mon' = IF hurt.hp = 0 THEN Die(hurt) ELSE hurt)
        /\ UNCHANGED <<grid, players>>
    BY <1>2 DEF Handle_GatewayGameAttackReq
  <2> HIDE DEF hurt
  <2>4. CASE hurt.hp = 0
    <3>1. NewVersion(hurt.requests) \in SUBSET PathRequests
      BY <2>2, NewVersionType DEF Objects
    <3>2. mon' \in Objects /\ mon'.state = "DEAD" /\ mon'.hp = 0
      BY <2>2, <2>3, <2>4, <3>1 DEF Die, Objects, States
    <3> QED
      BY <2>3, <3>2 DEF MonsterInv, TypeOK, Objects, PathRequests, IdleAtHome, DeadMeansNoHp
  <2>5. CASE hurt.hp # 0
    BY <2>2, <2>3, <2>5 DEF MonsterInv, TypeOK, Objects, PathRequests, IdleAtHome, DeadMeansNoHp
  <2> QED
    BY <2>4, <2>5
<1>3. CASE \E u \in Uids : PlayerMoves(u)
  <2>1. PICK u \in Uids, p \in Places :
          players' = [v \in DOMAIN players \cup {u} |-> IF v = u THEN p ELSE players[v]]
    BY <1>3 DEF PlayerMoves
  <2>2. p \in Ground
    BY MonsterAssumption
  <2>3. UNCHANGED <<mon, grid>>
    BY <1>3 DEF PlayerMoves
  <2> QED
    BY <2>1, <2>2, <2>3 DEF MonsterInv, TypeOK, IdleAtHome, DeadMeansNoHp
<1>4. CASE \E us \in SUBSET DOMAIN players : PlayersLeave(us)
  BY <1>4 DEF PlayersLeave, MonsterInv, TypeOK, IdleAtHome, DeadMeansNoHp
<1>5. CASE Handle_WorldGameMonsterBuff
  <2>1. mon.state # "DEAD" /\ mon' = [mon EXCEPT !.hp = mon.hp + 1] /\ UNCHANGED <<grid, players>>
    BY <1>5 DEF Handle_WorldGameMonsterBuff, Buffable
  <2>2. mon' \in Objects /\ mon'.state = mon.state /\ mon'.pos = mon.pos /\ mon'.hp # 0
    BY <1>1, <2>1 DEF Objects
  <2> QED
    BY <2>1, <2>2 DEF MonsterInv, TypeOK, Objects, PathRequests, IdleAtHome, DeadMeansNoHp
<1> QED
  BY <1>2, <1>3, <1>4, <1>5

LEMMA MonsterInductive == MonsterInv /\ [Next]_vars => MonsterInv'
<1> SUFFICES ASSUME MonsterInv, [Next]_vars PROVE MonsterInv'
  OBVIOUS
<1>1. CASE UNCHANGED vars
  BY <1>1 DEF vars, MonsterInv, TypeOK, IdleAtHome, DeadMeansNoHp
<1>2. CASE Next
  BY <1>2, TickKeeps, DeliverKeeps, PacketsKeep DEF Next
<1> QED
  BY <1>1, <1>2

\* The object, the grid and the players keep their types: a monster is always
\* on the ground, whatever paths come back, and its timers never run below 0.
THEOREM TypeCorrect == Spec => []TypeOK
BY InitMonster, MonsterInductive, PTL DEF Spec, MonsterInv

\* A monster on guard is at home, however its chase and its return were cut
\* short (Monster::UpdateReturn, Monster::Respawn).
THEOREM GuardIsAtHome == Spec => []IdleAtHome
BY InitMonster, MonsterInductive, PTL DEF Spec, MonsterInv

\* A monster is dead exactly when its hp is used up, in whatever order attacks,
\* buffs and the respawn come (Monster::Die, Handle_WorldGameMonsterBuff).
THEOREM DeadIffNoHp == Spec => []DeadMeansNoHp
BY InitMonster, MonsterInductive, PTL DEF Spec, MonsterInv

\* The triangle inequality, on squares of distances.
LEMMA Triangle ==
  ASSUME NEW p \in Points, NEW q \in Points, NEW t \in Points,
         NEW r \in Nat, NEW e \in Nat, Within(p, q, r), Within(q, t, e)
  PROVE  Within(p, t, r + e)
<1>1. ASSUME NEW a \in Int, NEW b \in Int, NEW c \in Int, NEW d \in Int,
             a * a + b * b <= r * r, c * c + d * d <= e * e
      PROVE  (a + c) * (a + c) + (b + d) * (b + d) <= (r + e) * (r + e)
  <2> DEFINE X == a * c + b * d
             Y == a * d - b * c
             M == a * a + b * b
             N == c * c + d * d
  <2>1. X \in Int /\ Y \in Int /\ M \in Int /\ N \in Int
    OBVIOUS
  <2>2. M >= 0 /\ N >= 0 /\ Y * Y >= 0
    OBVIOUS
  <2>3. X * X + Y * Y = M * N
    OBVIOUS
  <2> HIDE DEF X, Y, M, N
  <2>4. M * N <= (r * r) * (e * e)
    <3>1. ASSUME NEW u \in Nat, NEW v \in Nat, NEW k \in Nat, u <= v PROVE u * k <= v * k
      BY <3>1
    <3>2. M \in Nat /\ N \in Nat /\ r * r \in Nat /\ e * e \in Nat
      BY <2>1, <2>2
    <3>3. M * N <= (r * r) * N
      BY <1>1, <3>1, <3>2 DEF M
    <3>4. N * (r * r) <= (e * e) * (r * r)
      BY <1>1, <3>1, <3>2 DEF N
    <3>5. ASSUME NEW u \in Nat, NEW v \in Nat PROVE u * v = v * u /\ u * v \in Nat
      OBVIOUS
    <3> QED
      BY <3>2, <3>3, <3>4, <3>5
  <2>5. X <= r * e
    <3>1. ASSUME NEW z \in Nat, X * X <= z * z PROVE X <= z
      BY <2>1, <3>1
    <3>2. r * e \in Nat /\ (r * r) * (e * e) = (r * e) * (r * e)
      OBVIOUS
    <3>3. X * X <= M * N
      BY <2>1, <2>2, <2>3
    <3> QED
      BY <2>1, <2>4, <3>1, <3>2, <3>3
  <2>6. (a + c) * (a + c) + (b + d) * (b + d) = M + N + 2 * X
    BY DEF M, N, X
  <2>7. (r + e) * (r + e) = r * r + e * e + 2 * (r * e)
    OBVIOUS
  <2> QED
    BY <1>1, <2>1, <2>5, <2>6, <2>7 DEF M, N
<1>2. p.x \in Int /\ p.y \in Int /\ q.x \in Int /\ q.y \in Int /\ t.x \in Int /\ t.y \in Int
  BY DEF Points
<1> DEFINE a == p.x - q.x
           b == p.y - q.y
           c == q.x - t.x
           d == q.y - t.y
<1>3. a \in Int /\ b \in Int /\ c \in Int /\ d \in Int
  BY <1>2
<1>4. a * a + b * b <= r * r /\ c * c + d * d <= e * e
  BY DEF Within, Squared
<1>5. p.x - t.x = a + c /\ p.y - t.y = b + d
  BY <1>2
<1> HIDE DEF a, b, c, d
<1>6. (a + c) * (a + c) + (b + d) * (b + d) <= (r + e) * (r + e)
  BY <1>1, <1>3, <1>4
<1> QED
  BY <1>5, <1>6 DEF Within, Squared

\* A strike is at an online player who stands, but for the small moves the monster
\* does not follow, within reach (GameServer's AI tick looks at the target before
\* Update; Monster::UpdateTargetPosition).
THEOREM StrikesReach == Spec => StrikesInReach
<1> DEFINE Fair == mon.state = "ATTACK" /\ mon'.attackTimer < mon.attackTimer
             => Online(mon.target) /\ Within(mon'.pos, players[mon.target], AttackRange + TargetEpsilon)
<1>1. TypeOK /\ [Next]_vars => [Fair]_vars
  <2> SUFFICES ASSUME TypeOK, Next, mon.state = "ATTACK", mon'.attackTimer < mon.attackTimer
               PROVE  Online(mon.target) /\ Within(mon'.pos, players[mon.target], AttackRange + TargetEpsilon)
    OBVIOUS
  <2>1. mon \in Objects
    BY ObjectType
  <2>2. TickAlive
    <3>1. mon.attackTimer \in Nat
      BY <2>1 DEF Objects
    <3>2. ~UNCHANGED mon
      BY <3>1
    <3>3. ~Deliver
      <4> SUFFICES ASSUME Deliver PROVE mon'.attackTimer = mon.attackTimer
        BY <3>1
      <4> QED
        BY <2>1 DEF Deliver, Objects
    <3>4. \A u \in Uids : ~Handle_GatewayGameAttackReq(u)
      <4> SUFFICES ASSUME NEW u \in Uids, Handle_GatewayGameAttackReq(u)
                   PROVE  mon'.attackTimer = mon.attackTimer
        BY <3>1
      <4> QED
        BY <2>1 DEF Handle_GatewayGameAttackReq, TakeDamage, Die, Objects
    <3>5. ~Handle_WorldGameMonsterBuff
      <4> SUFFICES ASSUME Handle_WorldGameMonsterBuff PROVE mon'.attackTimer = mon.attackTimer
        BY <3>1
      <4> QED
        BY <2>1 DEF Handle_WorldGameMonsterBuff, Objects
    <3>6. ~TickDead
      BY DEF TickDead
    <3> QED
      BY <3>2, <3>3, <3>4, <3>5, <3>6 DEF Next, Tick, PlayerMoves, PlayersLeave
  <2>3. PICK seen \in Process(mon) : mon' \in Update(seen)
    BY <2>2 DEF TickAlive
  <2>4. /\ Looked(mon, seen)
        /\ seen.state = "ATTACK" => Online(mon.target) /\ Within(seen.goal, players[mon.target], TargetEpsilon)
        /\ seen.state \in {"ATTACK", "RETURN"}
    BY <2>3, ProcessLooks
  <2>5. seen.state = "ATTACK" /\ Within(seen.pos, seen.goal, AttackRange) /\ mon'.pos = seen.pos
    BY <2>3, <2>4, UpdateMoves DEF Looked
  <2>6. mon.target \in DOMAIN players /\ players[mon.target] \in Points
    BY <2>4, <2>5, ZoneAssumption DEF Online, TypeOK, Ground, Points
  <2>7. seen.pos \in Points /\ seen.goal \in Points
    <3>1. Field \subseteq Points /\ Ground \subseteq Points
      BY ZoneAssumption, MonsterAssumption DEF Field, Ground, Points
    <3> QED
      BY <2>4, <3>1 DEF Looked, Objects
  <2>8. AttackRange \in Nat /\ TargetEpsilon \in Nat
    BY MonsterAssumption
  <2> QED
    BY <2>4, <2>5, <2>6, <2>7, <2>8, Triangle
<1> QED
  BY <1>1, TypeCorrect, PTL DEF Spec, StrikesInReach

-------------------------------------------------------------------------------
(* Where the paths lead.                                                   *)

\* Players stand where packets or a revival put them.
PlayersPlaced == \A u \in DOMAIN players : players[u] \in Places \cup {PlayerSpawn}

\* The object with another state, target and goal.
Aimed(m, s, u, p) == [m EXCEPT !.state = s, !.target = u, !.goal = p]

\* What a method does to an object, in one of few ways.
LEMMA ProcessCases ==
  ASSUME TypeOK, PlayersPlaced, mon.state # "DEAD", NEW seen \in Process(mon)
  PROVE  \/ seen = mon
         \/ \E n \in Objects :
              /\ seen = CalculatePath(n) /\ n.goal \in Goals
              /\ n.pos = mon.pos /\ n.path = mon.path /\ n.requests = mon.requests
<1>1. mon \in Objects /\ Home \in Ground /\ Home \in Goals
  BY ObjectType, MonsterAssumption DEF Goals
<1>2. \A u \in DOMAIN players : u \in Uids /\ players[u] \in Ground /\ players[u] \in Goals
  BY DEF TypeOK, PlayersPlaced, Goals
<1>3. ASSUME NEW s \in States, NEW u \in Uids \cup {NoTarget}, NEW p \in Ground
      PROVE  /\ Aimed(mon, s, u, p) \in Objects
             /\ Aimed(mon, s, u, p).pos = mon.pos /\ Aimed(mon, s, u, p).path = mon.path
             /\ Aimed(mon, s, u, p).goal = p /\ Aimed(mon, s, u, p).requests = mon.requests
  <2>1. Aimed(mon, s, u, p) \in Objects
    BY <1>1 DEF Objects, Aimed
  <2> QED
    BY <1>1, <2>1 DEF Objects, Aimed
<1>4. mon.state \in States /\ mon.target \in Uids \cup {NoTarget} /\ mon.goal \in Ground
  BY <1>1 DEF Objects
<1>5. CASE mon.state = "IDLE"
  <2>1. seen = mon \/ \E u \in DOMAIN players : seen = SetTarget(mon, u, players[u])
    BY <1>5 DEF Process, ProcessIdle, Spotted
  <2>2. ASSUME NEW u \in DOMAIN players, seen = SetTarget(mon, u, players[u])
        PROVE  \E n \in Objects :
                 /\ seen = CalculatePath(n) /\ n.goal \in Goals
                 /\ n.pos = mon.pos /\ n.path = mon.path /\ n.requests = mon.requests
    <3>1. seen = CalculatePath(Aimed(mon, "CHASE", u, players[u]))
      BY <1>1, <2>2 DEF SetTarget, Aimed, Objects
    <3>2. "CHASE" \in States
      BY DEF States
    <3> QED
      BY <1>2, <1>3, <3>1, <3>2
  <2> QED
    BY <2>1, <2>2
<1>6. CASE mon.state \in {"CHASE", "ATTACK"} /\ Keeps(mon)
  <2>1. mon.target \in DOMAIN players
    BY <1>6 DEF Keeps, Online
  <2>2. \/ seen = mon
        \/ seen = CalculatePath([mon EXCEPT !.goal = players[mon.target]])
    BY <1>6 DEF Process, ProcessChase, ProcessAttack, UpdateTargetPosition
  <2>3. [mon EXCEPT !.goal = players[mon.target]]
          = Aimed(mon, mon.state, mon.target, players[mon.target])
    BY <1>1 DEF Objects, Aimed
  <2> QED
    BY <1>2, <1>3, <1>4, <2>1, <2>2, <2>3
<1>7. CASE mon.state \in {"CHASE", "ATTACK"} /\ ~Keeps(mon)
  <2>1. \/ seen = CalculatePath([mon EXCEPT !.state = "RETURN", !.goal = Home])
        \/ seen = CalculatePath([mon EXCEPT !.state = "RETURN", !.target = NoTarget, !.goal = Home])
    BY <1>7 DEF Process, ProcessChase, ProcessAttack, GiveUpChase, GiveUpAttack
  <2>2. /\ [mon EXCEPT !.state = "RETURN", !.goal = Home]
             = Aimed(mon, "RETURN", mon.target, Home)
        /\ [mon EXCEPT !.state = "RETURN", !.target = NoTarget, !.goal = Home]
             = Aimed(mon, "RETURN", NoTarget, Home)
    BY <1>1 DEF Objects, Aimed
  <2>3. "RETURN" \in States
    BY DEF States
  <2>4. \E u \in Uids \cup {NoTarget} : seen = CalculatePath(Aimed(mon, "RETURN", u, Home))
    BY <1>4, <2>1, <2>2
  <2> QED
    BY <1>1, <1>3, <2>3, <2>4
<1>8. CASE mon.state = "RETURN"
  BY <1>8 DEF Process
<1> QED
  BY <1>4, <1>5, <1>6, <1>7, <1>8 DEF States

LEMMA UpdateCases ==
  ASSUME NEW m \in Objects, NEW n \in Update(m)
  PROVE  \/ n = m
         \/ m.state = "CHASE" /\ n = [m EXCEPT !.state = "ATTACK"]
         \/ n = [m EXCEPT !.index = m.index + 1]
         \/ ~Exhausted(m) /\ n \in Walk(m)
         \/ n = [m EXCEPT !.pos = Home, !.state = "IDLE"]
         \/ m.state = "ATTACK" /\ n = CalculatePath([m EXCEPT !.state = "CHASE"])
         \/ n = [m EXCEPT !.attackTimer = m.attackTimer + 1 - Cooldown]
         \/ n = [m EXCEPT !.attackTimer = m.attackTimer + 1]
<1>1. CASE m.state = "CHASE"
  BY <1>1 DEF Update, UpdateChase
<1>2. CASE m.state = "RETURN"
  BY <1>2 DEF Update, UpdateReturn
<1>3. CASE m.state = "ATTACK"
  BY <1>3 DEF Update, UpdateAttack
<1>4. CASE m.state \notin {"CHASE", "RETURN", "ATTACK"}
  BY <1>4 DEF Update
<1> QED
  BY <1>1, <1>2, <1>3, <1>4

UnderWay(m) == m.state \in {"CHASE", "ATTACK", "RETURN"}

\* Where the monster is and may be led, where paths were asked from and to.
Walks(m, W, R) ==
  /\ m.pos \in R /\ m.path \in Seq(W)
  /\ UnderWay(m) => m.goal \in Goals
  /\ \A r \in m.requests : r.from \in R /\ r.to \in Goals

LEMMA AskedWalks ==
  ASSUME NEW W, NEW R, NEW m \in Objects, m.pos \in R, m.path \in Seq(W), m.goal \in Goals,
         \A r \in m.requests : r.from \in R /\ r.to \in Goals
  PROVE  Walks(CalculatePath(m), W, R)
<1> DEFINE r == [from |-> m.pos, to |-> m.goal, state |-> m.state, fresh |-> TRUE]
           n == CalculatePath(m)
<1>1. /\ n.requests = NewVersion(m.requests) \cup {r} /\ n.goal = m.goal
      /\ n.pos = m.pos /\ n.path = m.path
  BY DEF CalculatePath, Objects
<1>2. \A q \in NewVersion(m.requests) : q.from \in R /\ q.to \in Goals
  BY DEF NewVersion, Objects, PathRequests
<1>3. r.from \in R /\ r.to \in Goals
  OBVIOUS
<1> HIDE DEF r, n
<1>4. Walks(n, W, R)
  BY <1>1, <1>2, <1>3 DEF Walks
<1> QED
  BY <1>4 DEF n

\* Update walks between waypoints, or home.
LEMMA UpdateWalks ==
  ASSUME NEW W, NEW R, Walkable(W, R), NEW m \in Objects, Walks(m, W, R), NEW n \in Update(m)
  PROVE  Walks(n, W, R)
<1>1. CASE ~Exhausted(m) /\ n \in Walk(m)
  <2>1. m.path \in Seq(W) /\ m.index \in 1..Len(m.path)
    <3>1. m.path \in Seq(W) /\ m.index \in Nat \ {0}
      BY DEF Walks, Objects
    <3>2. Len(m.path) \in Nat
      BY <3>1, LenProperties
    <3> QED
      BY <1>1, <3>1, <3>2 DEF Exhausted
  <2>2. Waypoint(m) \in W
    BY <2>1, ElementOfSeq DEF Waypoint
  <2>3. Toward(m.pos, Waypoint(m)) \subseteq R
    BY <2>2 DEF Walks, Walkable
  <2>4. PICK q \in R : n = [m EXCEPT !.pos = q]
    BY <1>1, <2>3, WalkType
  <2>5. /\ n.pos = q /\ n.path = m.path
        /\ n.goal = m.goal /\ n.state = m.state /\ n.requests = m.requests
    BY <2>4 DEF Objects
  <2> QED
    BY <2>5 DEF Walks, UnderWay
<1>2. CASE m.state = "ATTACK" /\ n = CalculatePath([m EXCEPT !.state = "CHASE"])
  <2> DEFINE k == [m EXCEPT !.state = "CHASE"]
  <2>1. /\ k \in Objects /\ k.pos = m.pos /\ k.path = m.path
        /\ k.goal = m.goal /\ k.requests = m.requests
    BY DEF Objects, States
  <2>2. n = CalculatePath(k)
    BY <1>2
  <2> HIDE DEF k
  <2> QED
    BY <1>2, <2>1, <2>2, AskedWalks DEF Walks, UnderWay
<1>3. CASE n = [m EXCEPT !.pos = Home, !.state = "IDLE"]
  <2>1. /\ n.pos = Home /\ n.path = m.path
        /\ n.state = "IDLE" /\ n.requests = m.requests
    BY <1>3 DEF Objects
  <2> QED
    BY <2>1 DEF Walks, Walkable, UnderWay
<1>4. CASE \/ n = m
           \/ m.state = "CHASE" /\ n = [m EXCEPT !.state = "ATTACK"]
           \/ n = [m EXCEPT !.index = m.index + 1]
           \/ n = [m EXCEPT !.attackTimer = m.attackTimer + 1 - Cooldown]
           \/ n = [m EXCEPT !.attackTimer = m.attackTimer + 1]
  <2>1. /\ n.pos = m.pos /\ n.path = m.path
        /\ n.goal = m.goal /\ n.requests = m.requests
        /\ n.state = m.state \/ m.state = "CHASE"
    BY <1>4 DEF Objects
  <2> QED
    BY <2>1 DEF Walks, UnderWay
<1> QED
  BY <1>1, <1>2, <1>3, <1>4, UpdateCases

\* Looking for a target keeps the monster where it is and aims it at a goal.
LEMMA ProcessWalks ==
  ASSUME NEW W, NEW R, TypeOK, PlayersPlaced, Walks(mon, W, R), mon.state # "DEAD", NEW seen \in Process(mon)
  PROVE  Walks(seen, W, R)
<1>1. CASE seen = mon
  BY <1>1
<1>2. CASE \E n \in Objects :
             /\ seen = CalculatePath(n) /\ n.goal \in Goals
             /\ n.pos = mon.pos /\ n.path = mon.path /\ n.requests = mon.requests
  BY <1>2, AskedWalks DEF Walks
<1> QED
  BY <1>1, <1>2, ProcessCases

LEMMA DeliverWalks ==
  ASSUME NEW W, NEW R, Walkable(W, R), TypeOK, Walks(mon, W, R), Deliver
  PROVE  Walks(mon', W, R)
<1>1. mon \in Objects
  BY ObjectType
<1>2. PICK r \in mon.requests :
        LET done == [mon EXCEPT !.requests = mon.requests \ {r}]
            path == FindPath(r.from, r.to)
            there == Len(path) > 1 /\ Reached(mon.pos, path[1])
        IN  mon' = IF Accepts(r)
                   THEN [done EXCEPT !.path = path, !.index = IF there THEN 2 ELSE 1]
                   ELSE done
  BY DEF Deliver
<1>3. FindPath(r.from, r.to) \in Seq(W)
  BY DEF Walks, Walkable
<1>4. /\ mon'.pos = mon.pos /\ mon'.path \in {mon.path, FindPath(r.from, r.to)}
      /\ mon'.goal = mon.goal /\ mon'.state = mon.state /\ mon'.requests \subseteq mon.requests
  BY <1>1, <1>2 DEF Objects
<1> QED
  BY <1>3, <1>4 DEF Walks, UnderWay

LEMMA StepWalks ==
  ASSUME NEW W, NEW R, Walkable(W, R), TypeOK, PlayersPlaced, Walks(mon, W, R), [Next]_vars
  PROVE  Walks(mon', W, R) /\ PlayersPlaced'
<1>1. mon \in Objects
  BY ObjectType
<1>2. CASE TickAlive
  <2>1. PICK seen \in Process(mon) :
          mon' \in Update(seen) /\ (OnAttack(seen.target) \/ UNCHANGED players)
    BY <1>2 DEF TickAlive
  <2>2. mon.state # "DEAD"
    BY <1>2 DEF TickAlive
  <2>3. seen \in Objects
    BY <2>2, ProcessLooks DEF Looked
  <2>4. Walks(seen, W, R)
    BY <2>2, ProcessWalks
  <2>5. Walks(mon', W, R)
    BY <2>1, <2>3, <2>4, UpdateWalks
  <2>6. players' = players \/ players' = [players EXCEPT ![seen.target] = PlayerSpawn]
    BY <2>1 DEF OnAttack
  <2>7. PlayersPlaced'
    BY <2>6 DEF PlayersPlaced, TypeOK
  <2> QED
    BY <2>5, <2>7
<1>3. CASE TickDead
  <2>1. \A r \in NewVersion(mon.requests) : r.from \in R /\ r.to \in Goals
    BY <1>1 DEF NewVersion, Objects, PathRequests, Walks
  <2>2. /\ mon'.state \in {"DEAD", "IDLE"}
        /\ \/ mon'.pos = mon.pos /\ mon'.path = mon.path
           \/ mon'.pos = Home /\ mon'.path = <<>>
        /\ mon'.requests \in {mon.requests, NewVersion(mon.requests)}
    BY <1>1, <1>3 DEF TickDead, ProcessDead, Respawn, Objects
  <2>3. <<>> \in Seq(W)
    BY EmptySeq
  <2>4. Walks(mon', W, R)
    BY <2>1, <2>2, <2>3 DEF Walks, Walkable, UnderWay
  <2> QED
    BY <1>3, <2>4 DEF TickDead, PlayersPlaced
<1>4. CASE Deliver
  BY <1>4, DeliverWalks DEF Deliver, PlayersPlaced
<1>5. CASE \E u \in Uids : Handle_GatewayGameAttackReq(u)
  <2> DEFINE hurt == TakeDamage(mon, PlayerDamage)
  <2>1. (mon' = hurt \/ mon' = Die(hurt)) /\ UNCHANGED players
    BY <1>5 DEF Handle_GatewayGameAttackReq
  <2>2. CASE mon' = hurt
    <3>1. /\ mon'.pos = mon.pos /\ mon'.path = mon.path /\ mon'.state = mon.state
          /\ mon'.goal = mon.goal /\ mon'.requests = mon.requests
      BY <1>1, <2>2 DEF TakeDamage, Objects
    <3> QED
      BY <2>1, <3>1 DEF Walks, UnderWay, PlayersPlaced
  <2>3. CASE mon' = Die(hurt)
    <3>1. \A r \in NewVersion(mon.requests) : r.from \in R /\ r.to \in Goals
      BY <1>1 DEF NewVersion, Objects, PathRequests, Walks
    <3>2. /\ mon'.pos = mon.pos /\ mon'.path = mon.path /\ mon'.state = "DEAD"
          /\ mon'.requests = NewVersion(mon.requests)
      BY <1>1, <2>3 DEF Die, TakeDamage, Objects
    <3> QED
      BY <2>1, <3>1, <3>2 DEF Walks, UnderWay, PlayersPlaced
  <2> QED
    BY <2>1, <2>2, <2>3
<1>6. CASE Handle_WorldGameMonsterBuff
  <2>1. /\ mon'.pos = mon.pos /\ mon'.path = mon.path /\ mon'.state = mon.state
        /\ mon'.goal = mon.goal /\ mon'.requests = mon.requests
    BY <1>1, <1>6 DEF Handle_WorldGameMonsterBuff, Objects
  <2> QED
    BY <1>6, <2>1 DEF Walks, UnderWay, PlayersPlaced, Handle_WorldGameMonsterBuff
<1>7. CASE \E u \in Uids : PlayerMoves(u)
  BY <1>7 DEF PlayerMoves, PlayersPlaced
<1>8. CASE \E us \in SUBSET DOMAIN players : PlayersLeave(us)
  BY <1>8 DEF PlayersLeave, PlayersPlaced
<1>9. CASE UNCHANGED vars
  BY <1>9 DEF vars, PlayersPlaced
<1> QED
  BY <1>2, <1>3, <1>4, <1>5, <1>6, <1>7, <1>8, <1>9 DEF Next, Tick

Confined(W, R) == Walks(mon, W, R) /\ PlayersPlaced

\* Nothing takes the monster off walkable ground.
LEMMA StaysOnWalkable ==
  ASSUME NEW W, NEW R, Walkable(W, R)
  PROVE  /\ Init => Confined(W, R)
         /\ TypeOK /\ Confined(W, R) /\ [Next]_vars => Confined(W, R)'
<1>1. ASSUME Init PROVE Confined(W, R)
  <2>1. <<>> \in Seq(W)
    BY EmptySeq
  <2>2. mon.state = "IDLE" /\ mon.pos = Home /\ mon.path = <<>> /\ mon.requests = {}
    BY <1>1 DEF Init
  <2> QED
    BY <1>1, <2>1, <2>2 DEF Init, Confined, Walks, UnderWay, PlayersPlaced, Walkable
<1>2. ASSUME TypeOK, Confined(W, R), [Next]_vars PROVE Confined(W, R)'
  <2>1. Walks(mon', W, R) /\ PlayersPlaced'
    BY <1>2, StepWalks DEF Confined
  <2> QED
    BY <2>1 DEF Confined, Walks, UnderWay
<1> QED
  BY <1>1, <1>2

\* The request that counts is for the present goal, and will be accepted.
AsksForGoal(m, r) ==
  /\ r.to = m.goal
  /\ r.state = m.state \/ (r.state = "CHASE" /\ m.state = "ATTACK")

Led(m, R) == m.path # <<>> /\ \A a \in R : End(m.path) = End(FindPath(a, m.goal))

GoalOK(m, R) ==
  UnderWay(m) =>
    /\ \A r \in m.requests : r.fresh => AsksForGoal(m, r)
    /\ (\E r \in m.requests : r.fresh) \/ Led(m, R)

LEMMA AskedIsOK ==
  ASSUME NEW R, NEW m \in Objects
  PROVE  GoalOK(CalculatePath(m), R)
<1> DEFINE r == [from |-> m.pos, to |-> m.goal, state |-> m.state, fresh |-> TRUE]
           n == CalculatePath(m)
<1>1. n.requests = NewVersion(m.requests) \cup {r} /\ n.goal = m.goal /\ n.state = m.state
  BY DEF CalculatePath, Objects
<1>2. \A q \in NewVersion(m.requests) : ~q.fresh
  BY DEF NewVersion, Objects, PathRequests
<1>3. r.to = m.goal /\ r.state = m.state /\ r.fresh
  OBVIOUS
<1> HIDE DEF r, n
<1>4. GoalOK(n, R)
  BY <1>1, <1>2, <1>3 DEF GoalOK, AsksForGoal
<1> QED
  BY <1>4 DEF n

\* What neither the goal, the path nor the requests are touched by.
LEMMA SameIsOK ==
  ASSUME NEW R, NEW m, NEW n, GoalOK(m, R),
         n.goal = m.goal, n.path = m.path, n.requests = m.requests,
         n.state = m.state \/ (m.state = "CHASE" /\ n.state = "ATTACK") \/ ~UnderWay(n)
  PROVE  GoalOK(n, R)
BY DEF GoalOK, UnderWay, AsksForGoal, Led

LEMMA UpdateIsOK ==
  ASSUME NEW R, NEW m \in Objects, GoalOK(m, R), NEW n \in Update(m)
  PROVE  GoalOK(n, R)
<1>1. CASE n = CalculatePath([m EXCEPT !.state = "CHASE"])
  <2>1. [m EXCEPT !.state = "CHASE"] \in Objects
    BY DEF Objects, States
  <2> QED
    BY <1>1, <2>1, AskedIsOK
<1>2. CASE n # CalculatePath([m EXCEPT !.state = "CHASE"])
  <2> DEFINE Same == /\ n.goal = m.goal /\ n.path = m.path /\ n.requests = m.requests
                     /\ \/ n.state = m.state
                        \/ m.state = "CHASE" /\ n.state = "ATTACK"
                        \/ n.state = "IDLE"
  <2>1. ASSUME NEW q \in Field, n = [m EXCEPT !.pos = q] PROVE Same
    BY <2>1 DEF Objects
  <2>2. ASSUME ~\E q \in Field : n = [m EXCEPT !.pos = q] PROVE Same
    <3>1. \/ n = m
          \/ m.state = "CHASE" /\ n = [m EXCEPT !.state = "ATTACK"]
          \/ n = [m EXCEPT !.index = m.index + 1]
          \/ n = [m EXCEPT !.pos = Home, !.state = "IDLE"]
          \/ n = [m EXCEPT !.attackTimer = m.attackTimer + 1 - Cooldown]
          \/ n = [m EXCEPT !.attackTimer = m.attackTimer + 1]
      <4>1. n \notin Walk(m)
        BY <2>2, WalkType
      <4> QED
        BY <1>2, <4>1, UpdateCases
    <3> QED
      BY <3>1 DEF Objects
  <2>3. Same
    BY <2>1, <2>2
  <2> QED
    BY <2>3, SameIsOK DEF UnderWay
<1> QED
  BY <1>1, <1>2

\* A path comes back: if it counts it leads to the goal, and if it does not,
\* another request is the fresh one.
LEMMA DeliveredIsOK ==
  ASSUME NEW W, NEW R, Answers(R), Walks(mon, W, R), PlayersPlaced,
         TypeOK, GoalOK(mon, R), Deliver
  PROVE  GoalOK(mon', R)
<1>1. mon \in Objects
  BY ObjectType
<1>2. PICK r \in mon.requests :
        LET done == [mon EXCEPT !.requests = mon.requests \ {r}]
            path == FindPath(r.from, r.to)
            there == Len(path) > 1 /\ Reached(mon.pos, path[1])
        IN  mon' = IF Accepts(r)
                   THEN [done EXCEPT !.path = path, !.index = IF there THEN 2 ELSE 1]
                   ELSE done
  BY DEF Deliver
<1>3. mon'.state = mon.state /\ mon'.goal = mon.goal /\ mon'.requests = mon.requests \ {r}
  BY <1>1, <1>2 DEF Objects
<1>4. r.to \in Goals /\ r.from \in R
  BY DEF Walks
<1>5. CASE Accepts(r)
  <2>1. mon'.path = FindPath(r.from, r.to)
    BY <1>1, <1>2, <1>5 DEF Objects
  <2>2. SUFFICES ASSUME UnderWay(mon) PROVE GoalOK(mon', R)
    BY <1>3 DEF GoalOK, UnderWay
  <2>3. r.to = mon.goal
    BY <1>5, <2>2 DEF Accepts, GoalOK, AsksForGoal
  <2>4. Led(mon', R)
    BY <1>3, <1>4, <2>1, <2>3 DEF Led, Answers
  <2> QED
    BY <1>3, <2>2, <2>4 DEF GoalOK, AsksForGoal
<1>6. CASE ~Accepts(r)
  <2>1. mon'.path = mon.path
    BY <1>1, <1>2, <1>6 DEF Objects
  <2>2. SUFFICES ASSUME UnderWay(mon) PROVE GoalOK(mon', R)
    BY <1>3 DEF GoalOK, UnderWay
  <2>3. ~r.fresh
    BY <1>6, <2>2 DEF Accepts, GoalOK, AsksForGoal, UnderWay
  <2> QED
    BY <1>3, <2>1, <2>2, <2>3 DEF GoalOK, AsksForGoal, Led
<1> QED
  BY <1>5, <1>6

LEMMA StepKeepsGoal ==
  ASSUME NEW W, NEW R, Answers(R), Walks(mon, W, R), PlayersPlaced,
         TypeOK, GoalOK(mon, R), [Next]_vars
  PROVE  GoalOK(mon', R)
<1>1. mon \in Objects
  BY ObjectType
<1>2. CASE TickAlive
  <2>1. PICK seen \in Process(mon) : mon' \in Update(seen)
    BY <1>2 DEF TickAlive
  <2>2. mon.state # "DEAD"
    BY <1>2 DEF TickAlive
  <2>3. seen \in Objects
    BY <2>2, ProcessLooks DEF Looked
  <2>4. GoalOK(seen, R)
    BY <2>2, ProcessCases, AskedIsOK
  <2> QED
    BY <2>1, <2>3, <2>4, UpdateIsOK
<1>3. CASE TickDead
  <2>1. mon'.state \in {"DEAD", "IDLE"}
    BY <1>1, <1>3 DEF TickDead, ProcessDead, Respawn, Objects
  <2> QED
    BY <2>1 DEF GoalOK, UnderWay
<1>4. CASE Deliver
  BY <1>4, DeliveredIsOK
<1>5. CASE \E u \in Uids : Handle_GatewayGameAttackReq(u)
  <2> DEFINE hurt == TakeDamage(mon, PlayerDamage)
  <2>1. mon' = hurt \/ mon' = Die(hurt)
    BY <1>5 DEF Handle_GatewayGameAttackReq
  <2>2. CASE mon' = hurt
    <3>1. /\ mon'.goal = mon.goal /\ mon'.path = mon.path /\ mon'.requests = mon.requests
          /\ mon'.state = mon.state
      BY <1>1, <2>2 DEF TakeDamage, Objects
    <3> QED
      BY <3>1, SameIsOK
  <2>3. CASE mon' = Die(hurt)
    <3>1. mon'.state = "DEAD"
      BY <1>1, <2>3 DEF Die, TakeDamage, Objects
    <3> QED
      BY <3>1 DEF GoalOK, UnderWay
  <2> QED
    BY <2>1, <2>2, <2>3
<1>6. CASE Handle_WorldGameMonsterBuff
  <2>1. /\ mon'.goal = mon.goal /\ mon'.path = mon.path /\ mon'.requests = mon.requests
        /\ mon'.state = mon.state
    BY <1>1, <1>6 DEF Handle_WorldGameMonsterBuff, Objects
  <2> QED
    BY <2>1, SameIsOK
<1>7. CASE UNCHANGED mon
  BY <1>7
<1>8. CASE (\E u \in Uids : PlayerMoves(u)) \/ (\E us \in SUBSET DOMAIN players : PlayersLeave(us))
  BY <1>8 DEF PlayerMoves, PlayersLeave
<1> QED
  BY <1>2, <1>3, <1>4, <1>5, <1>6, <1>7, <1>8 DEF Next, Tick, vars

\* If the navmesh always answers from ground the monster never gets off, and where a
\* path ends depends on its goal alone, a monster under way follows a path to its
\* present goal once the last path asked for has come back, in whatever order the AI
\* threads finished (the callback of Monster::CalculatePath).
THEOREM PathsLeadToGoal ==
  ASSUME NEW CONSTANT W, NEW CONSTANT R, Walkable(W, R), Answers(R)
  PROVE  Spec => []PathLeadsToGoal
<1>1. Init => GoalOK(mon, R)
  BY DEF Init, GoalOK, UnderWay
<1>2. TypeOK /\ Confined(W, R) /\ GoalOK(mon, R) /\ [Next]_vars => GoalOK(mon, R)'
  <2>1. TypeOK /\ Confined(W, R) /\ GoalOK(mon, R) /\ [Next]_vars => GoalOK(mon', R)
    BY StepKeepsGoal DEF Confined
  <2> QED
    BY <2>1 DEF GoalOK, UnderWay, AsksForGoal, Led
<1>3. Confined(W, R) /\ GoalOK(mon, R) => PathLeadsToGoal
  BY DEF PathLeadsToGoal, GoalOK, UnderWay, Led, Confined, Walks
<1>4. /\ Init => Confined(W, R)
      /\ TypeOK /\ Confined(W, R) /\ [Next]_vars => Confined(W, R)'
  BY StaysOnWalkable
<1> QED
  BY <1>1, <1>2, <1>3, <1>4, TypeCorrect, PTL DEF Spec

-------------------------------------------------------------------------------
(* The monster's place in the zone.                                        *)

\* A division of a coordinate on the map is a row or a column.
LEMMA InASector ==
  ASSUME NEW p \in Inland
  PROVE  SectorOf(p) \in Sectors
<1>1. ASSUME NEW S \in Nat \ {0}, NEW W \in Nat, NEW x \in Nat, x < W
      PROVE  x \div S \in 0..(((W + S - 1) \div S) - 1)
  <2>1. x + S <= W + S - 1
    BY <1>1
  <2> QED
    BY <1>1, <2>1, SMTT(30)
<1>2. p.x \in Nat /\ p.x < Width /\ p.y \in Nat /\ p.y < Height
  BY ZoneAssumption DEF Inland, Ground, OnMap
<1>3. p.x \div SectorSize \in 0..(Cols - 1)
  BY <1>1, <1>2, ZoneAssumption DEF Cols
<1>4. p.y \div SectorSize \in 0..(Rows - 1)
  BY <1>1, <1>2, ZoneAssumption DEF Rows
<1> QED
  BY <1>3, <1>4 DEF SectorOf, Sectors

\* Where a monster is alive, it is the tick that moves it, and the tick tells the zone.
LEMMA StepRegisters ==
  ASSUME NEW W, NEW R, Walkable(W, R), R \subseteq Inland,
         TypeOK, PlayersPlaced, Walks(mon, W, R), [Next]_vars,
         mon.state # "DEAD", Moved(mon.pos, mon'.pos), SectorOf(mon'.pos) # SectorOf(mon.pos)
  PROVE  /\ MonsterId \in grid'[SectorOf(mon'.pos)]
         /\ MonsterId \notin grid'[SectorOf(mon.pos)]
<1>1. mon \in Objects
  BY ObjectType
<1>2. TickAlive
  <2>1. mon'.pos # mon.pos
    OBVIOUS
  <2>2. ~TickDead
    BY DEF TickDead
  <2>3. ~Deliver
    BY <1>1, <2>1 DEF Deliver, Objects
  <2>4. \A u \in Uids : ~Handle_GatewayGameAttackReq(u)
    BY <1>1, <2>1 DEF Handle_GatewayGameAttackReq, TakeDamage, Die, Objects
  <2>5. ~Handle_WorldGameMonsterBuff
    BY <1>1, <2>1 DEF Handle_WorldGameMonsterBuff, Objects
  <2> QED
    BY <2>1, <2>2, <2>3, <2>4, <2>5 DEF Next, Tick, PlayerMoves, PlayersLeave, vars
<1>3. grid' = Sync(mon, mon')
  BY <1>2 DEF TickAlive
<1>4. Walks(mon', W, R)
  BY StepWalks
<1>5. mon.pos \in Inland /\ mon'.pos \in Inland
  BY <1>4 DEF Walks
<1>6. /\ OnMap(mon.pos) /\ OnMap(mon'.pos)
      /\ SectorOf(mon.pos) \in Sectors /\ SectorOf(mon'.pos) \in Sectors
  BY <1>5, InASector DEF Inland
<1>7. grid' = RemoveFrom(AddTo(grid, SectorOf(mon'.pos), MonsterId), SectorOf(mon.pos), MonsterId)
  BY <1>3, <1>6 DEF Sync, UpdatePositionMonster
<1>8. grid \in [Sectors -> SUBSET {MonsterId}]
  BY ObjectType
<1> QED
  BY <1>6, <1>7, <1>8 DEF AddTo, RemoveFrom

\* If walks along the navmesh's paths, steps over a waypoint included, keep off the
\* map's borders, a living monster that moves over a sector's border by more than
\* POSITION_EPSILON is registered where it stands and no longer where it was
\* (MonsterManager, SyncMonsterPosition).
THEOREM MovesRegister ==
  ASSUME NEW CONSTANT W, NEW CONSTANT R, Walkable(W, R), R \subseteq Inland
  PROVE  Spec => MoveRegisters
<1> DEFINE Told == mon.state # "DEAD" /\ Moved(mon.pos, mon'.pos)
                       /\ SectorOf(mon'.pos) # SectorOf(mon.pos)
                     => /\ MonsterId \in grid'[SectorOf(mon'.pos)]
                        /\ MonsterId \notin grid'[SectorOf(mon.pos)]
<1>1. TypeOK /\ Confined(W, R) /\ [Next]_vars => [Told]_vars
  BY StepRegisters DEF Confined
<1>2. /\ Init => Confined(W, R)
      /\ TypeOK /\ Confined(W, R) /\ [Next]_vars => Confined(W, R)'
  BY StaysOnWalkable
<1> QED
  BY <1>1, <1>2, TypeCorrect, PTL DEF Spec, MoveRegisters

===============================================================================
