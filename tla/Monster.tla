-------------------------------- MODULE Monster --------------------------------
(***************************************************************************)
(* One monster of GameServer: its state machine, the paths it asks the AI  *)
(* thread pool for, and its place in the zone.                             *)
(*                                                                         *)
(* Everything that changes the monster runs on the game strand, one task   *)
(* at a time: the AI tick, the handlers of players' packets, and the       *)
(* delivery of a path.  Only FindPath runs elsewhere, on several threads,  *)
(* so paths come back late and in any order.                               *)
(*                                                                         *)
(* Positions are points of a lattice as fine as POSITION_EPSILON.  A tick  *)
(* walks speed * dt towards the next waypoint, dt measured, and does not   *)
(* stop at it: the monster may step over a waypoint, and off the map.      *)
(* Timers count ticks, whatever their length.                              *)
(* Players are seen as the registry shows them: uid |-> position, absent   *)
(* when offline (the two maps of GameWorld are inverse to each other).     *)
(*                                                                         *)
(* Left out: the packets sent, the players' hp (a hit may send the victim  *)
(* to the spawn point), and the zone's part in finding somebody to attack  *)
(* (the aggro range is far below a sector's side).                         *)
(***************************************************************************)
EXTENDS Zone, Sequences, FiniteSets

CONSTANTS
  Uids,            \* uids of players
  Places,          \* where players may stand
  PlayerSpawn,     \* where a player revives
  MonsterId,
  Home,            \* spawn_position_
  AttackRange, AggroRange, ChaseRange, PlayerAttackRange,
  Strides,         \* lengths of a tick's walk, MOVE_SPEED * delta_time
  MaxStride,       \* bound: the longest of them
  WaypointEpsilon, \* nearer than this, a waypoint is reached
  PositionEpsilon, \* moves this small are not synchronised
  TargetEpsilon,   \* moves of the target this small are not followed
  MaxHp,           \* max_hp_
  HpCap,           \* bound: a buff never lifts hp above it (nor past an int)
  PlayerDamage,    \* what one attack of a player takes, at least MIN_DAMAGE
  Cooldown,        \* attack_cooldown_, in ticks
  RespawnTicks,    \* respawn_sec_, in ticks
  FindPath(_, _),  \* external: the navmesh query, a sequence of waypoints
  MaxRequests      \* bound: path requests outstanding

ASSUME MonsterAssumption ==
  /\ Places \subseteq Ground /\ PlayerSpawn \in Ground /\ Home \in Ground
  /\ OnMap(Home)
  /\ MaxHp \in Nat \ {0} /\ HpCap \in Nat /\ PlayerDamage \in Nat \ {0}
  /\ Cooldown \in Nat \ {0} /\ RespawnTicks \in Nat
  /\ MaxRequests \in Nat /\ MaxStride \in Nat /\ Strides \subseteq 1..MaxStride
  /\ {AttackRange, WaypointEpsilon, PositionEpsilon, TargetEpsilon} \subseteq Nat
  /\ \A a \in [x : -MaxStride..(Width + MaxStride), y : -MaxStride..(Height + MaxStride)],
        b \in Ground : FindPath(a, b) \in Seq(Ground)

NoTarget == 0

ASSUME UidAssumption == NoTarget \notin Uids

VARIABLES
  mon,      \* the Monster object, with the path requests it has outstanding
  grid,     \* the zone's monster grid
  players   \* uid |-> position of the players online

vars == <<mon, grid, players>>

-------------------------------------------------------------------------------

States == {"IDLE", "CHASE", "ATTACK", "RETURN", "DEAD"}

\* Where a monster can be: a last step may lead over the border.
Field == [x : -MaxStride..(Width + MaxStride), y : -MaxStride..(Height + MaxStride)]

\* dist(p, q) < r and dist(p, q) <= r
Squared(p, q) == (p.x - q.x) * (p.x - q.x) + (p.y - q.y) * (p.y - q.y)
Closer(p, q, r) == Squared(p, q) < r * r
Within(p, q, r) == Squared(p, q) <= r * r

\* k is (delta / distance) * stride, rounded up or down; distance2 is the square
\* of the distance, and squares that keep their sign compare as the numbers do.
Signed(k) == IF k < 0 THEN -(k * k) ELSE k * k
Rounds(k, delta, stride, distance2) ==
  LET exact == Signed(delta * stride)
  IN  Signed(k - 1) * distance2 < exact /\ exact < Signed(k + 1) * distance2

\* Where one tick's walk towards waypoint w may end.
Toward(p, w) ==
  {q \in [x : (p.x - MaxStride)..(p.x + MaxStride), y : (p.y - MaxStride)..(p.y + MaxStride)] :
     /\ q \in Field
     /\ \E stride \in Strides :
          /\ Rounds(q.x - p.x, w.x - p.x, stride, Squared(p, w))
          /\ Rounds(q.y - p.y, w.y - p.y, stride, Squared(p, w))}

\* path_index_ counts from 0, index from 1
Exhausted(m) == m.index > Len(m.path)
Waypoint(m) == m.path[m.index]
Reached(p, w) == Closer(p, w, WaypointEpsilon)

Init ==
  /\ mon = [state |-> "IDLE", pos |-> Home, target |-> NoTarget,
            goal |-> [x |-> 0, y |-> 0], path |-> <<>>, index |-> 1, requests |-> {},
            hp |-> MaxHp, attackTimer |-> Cooldown, deadTimer |-> 0]
  /\ grid = EnterZone(EmptyGrid, MonsterId, Home)
  /\ players = <<>>

-------------------------------------------------------------------------------
(* The methods of Monster, from the object before to the object after.     *)

\* ++path_request_version_: a request is fresh while its version is the last
\* one given out, which is all a version is compared for.
NewVersion(requests) == {[r EXCEPT !.fresh = FALSE] : r \in requests}

CalculatePath(m) ==
  [m EXCEPT !.requests = NewVersion(@) \cup
     {[from |-> m.pos, to |-> m.goal, state |-> m.state, fresh |-> TRUE]}]

SetTarget(m, u, p) ==
  CalculatePath([m EXCEPT !.target = u, !.goal = p, !.state = "CHASE"])

Bug_GoalKept(m, p) == m

\* The goal lags behind a target that moves little by little.
UpdateTargetPosition(m, p) ==
  IF Within(m.goal, p, TargetEpsilon) THEN m ELSE CalculatePath([m EXCEPT !.goal = p])

\* The target's uid is kept.
GiveUpChase(m) == CalculatePath([m EXCEPT !.state = "RETURN", !.goal = Home])

GiveUpAttack(m) ==
  CalculatePath([m EXCEPT !.state = "RETURN", !.target = NoTarget, !.goal = Home])

Walk(m) == {[m EXCEPT !.pos = q] : q \in Toward(m.pos, Waypoint(m))}

\* In CHASE: the next WAYPOINT within attack range starts the attack.
UpdateChase(m) ==
  IF Exhausted(m) THEN {m}
  ELSE IF Within(m.pos, Waypoint(m), AttackRange) THEN {[m EXCEPT !.state = "ATTACK"]}
  ELSE IF Reached(m.pos, Waypoint(m)) THEN {[m EXCEPT !.index = @ + 1]}
  ELSE Walk(m)

Bug_ReturnsOnTheSpot(m) ==
  IF Exhausted(m) THEN {[m EXCEPT !.state = "IDLE"]}
  ELSE IF Reached(m.pos, Waypoint(m)) THEN {[m EXCEPT !.index = @ + 1]}
  ELSE Walk(m)

\* In RETURN: at the end of the path, or without one, the monster is put home.
UpdateReturn(m) ==
  IF Exhausted(m) THEN {[m EXCEPT !.pos = Home, !.state = "IDLE"]}
  ELSE IF Reached(m.pos, Waypoint(m)) THEN {[m EXCEPT !.index = @ + 1]}
  ELSE Walk(m)

Bug_NoCooldown(m) == Within(m.pos, m.goal, AttackRange)

\* In ATTACK: out of reach of where the target was last seen, back to CHASE.
Strikes(m) == Within(m.pos, m.goal, AttackRange) /\ m.attackTimer + 1 >= Cooldown

UpdateAttack(m) ==
  IF ~Within(m.pos, m.goal, AttackRange) THEN CalculatePath([m EXCEPT !.state = "CHASE"])
  ELSE IF Strikes(m) THEN [m EXCEPT !.attackTimer = @ + 1 - Cooldown]
  ELSE [m EXCEPT !.attackTimer = @ + 1]

Update(m) ==
  CASE m.state = "CHASE"  -> UpdateChase(m)
    [] m.state = "RETURN" -> UpdateReturn(m)
    [] m.state = "ATTACK" -> {UpdateAttack(m)}
    [] OTHER -> {m}

TakeDamage(m, damage) == [m EXCEPT !.hp = IF @ > damage THEN @ - damage ELSE 0]

Die(m) == [m EXCEPT !.hp = 0, !.state = "DEAD", !.requests = NewVersion(@)]

Respawn(m) ==
  [m EXCEPT !.hp = MaxHp, !.state = "IDLE", !.pos = Home, !.deadTimer = 0,
            !.target = NoTarget, !.requests = NewVersion(@), !.path = <<>>]

-------------------------------------------------------------------------------
(* The AI tick.                                                            *)

Online(u) == u \in DOMAIN players

\* ProcessDeadMonster: the zone is not told that the monster is home again.
ProcessDead(m) ==
  LET waited == [m EXCEPT !.deadTimer = @ + 1]
  IN  IF waited.deadTimer < RespawnTicks THEN waited ELSE Respawn(waited)

\* ProcessChaseMonster and ProcessAttackMonster: keep after the target while
\* it is online and near, else give up.
Keeps(m) == Online(m.target) /\ Within(players[m.target], m.pos, ChaseRange)

ProcessChase(m) ==
  IF Keeps(m) THEN UpdateTargetPosition(m, players[m.target]) ELSE GiveUpChase(m)

ProcessAttack(m) ==
  IF Keeps(m) THEN UpdateTargetPosition(m, players[m.target]) ELSE GiveUpAttack(m)

\* ProcessIdleMonster: the first player met in the aggro range, if any.
Spotted(m) == {u \in DOMAIN players : Closer(players[u], m.pos, AggroRange)}
ProcessIdle(m) ==
  IF Spotted(m) = {} THEN {m} ELSE {SetTarget(m, u, players[u]) : u \in Spotted(m)}

Process(m) ==
  CASE m.state = "IDLE"   -> ProcessIdle(m)
    [] m.state = "CHASE"  -> {ProcessChase(m)}
    [] m.state = "ATTACK" -> {ProcessAttack(m)}
    [] OTHER -> {m}

Bug_SyncTooEarly(before, after) == grid

Apart(a, b, e) == a - b > e \/ b - a > e
Moved(p, q) == Apart(p.x, q.x, PositionEpsilon) \/ Apart(p.y, q.y, PositionEpsilon)

\* SyncMonsterPosition: the zone does not hear of the smallest moves, as when a
\* monster at the end of its way back is put home.
Sync(before, after) ==
  IF Moved(before.pos, after.pos)
  THEN UpdatePositionMonster(grid, MonsterId, before.pos, after.pos) ELSE grid

\* The attack callback: a victim whose hp is used up revives elsewhere.
OnAttack(u) ==
  IF Online(u)
  THEN players' \in {players, [players EXCEPT ![u] = PlayerSpawn]}
  ELSE UNCHANGED players

TickAlive ==
  /\ mon.state # "DEAD"
  /\ \E seen \in Process(mon) : \E moved \in Update(seen) :
       /\ mon' = moved
       /\ grid' = Sync(mon, moved)
       /\ IF seen.state = "ATTACK" /\ Strikes(seen)
          THEN OnAttack(seen.target) ELSE UNCHANGED players

TickDead ==
  /\ mon.state = "DEAD"
  /\ mon' = ProcessDead(mon)
  /\ UNCHANGED <<grid, players>>

Tick == (TickAlive \/ TickDead) /\ Cardinality(mon'.requests) <= MaxRequests

-------------------------------------------------------------------------------
(* Paths come back.                                                        *)

Bug_AnyVersion(r) ==
  \/ r.state = mon.state /\ mon.state # "DEAD"
  \/ r.state = "CHASE" /\ mon.state = "ATTACK"

\* A path counts if no later one was asked for and the monster still does
\* what it was doing, or has started to attack since.
Accepts(r) ==
  /\ r.fresh
  /\ mon.state # "DEAD"
  /\ r.state = mon.state \/ (r.state = "CHASE" /\ mon.state = "ATTACK")

Deliver ==
  \E r \in mon.requests :
    /\ LET done == [mon EXCEPT !.requests = @ \ {r}]
           path == FindPath(r.from, r.to)
           there == Len(path) > 1 /\ Reached(mon.pos, path[1])
       IN  mon' = IF Accepts(r)
                  THEN [done EXCEPT !.path = path, !.index = IF there THEN 2 ELSE 1]
                  ELSE done
    /\ UNCHANGED <<grid, players>>

-------------------------------------------------------------------------------
(* Packets of players and of WorldServer.                                  *)

\* Handle_GatewayGameAttackReq: a monster the zone shows, alive and near.
Handle_GatewayGameAttackReq(u) ==
  /\ Online(u)
  /\ MonsterId \in InAOI(grid, players[u])
  /\ mon.state # "DEAD"
  /\ Within(players[u], mon.pos, PlayerAttackRange)
  /\ LET hurt == TakeDamage(mon, PlayerDamage)
     IN  mon' = IF hurt.hp = 0 THEN Die(hurt) ELSE hurt
  /\ UNCHANGED <<grid, players>>

Bug_BuffsTheDead == mon.hp < HpCap

\* SetHp adds; AdminService lets only positive amounts through.
Buffable == mon.state # "DEAD" /\ mon.hp < HpCap
Handle_WorldGameMonsterBuff ==
  /\ Buffable
  /\ mon' = [mon EXCEPT !.hp = @ + 1]
  /\ UNCHANGED <<grid, players>>

\* GameWorld's steps, as the monster sees them (PlayerRegistry).
PlayerMoves(u) ==
  /\ \E p \in Places :
       players' = [v \in DOMAIN players \cup {u} |-> IF v = u THEN p ELSE players[v]]
  /\ UNCHANGED <<mon, grid>>

\* The cleanup of a gateway takes several players at once.
PlayersLeave(us) ==
  /\ players' = [v \in DOMAIN players \ us |-> players[v]]
  /\ UNCHANGED <<mon, grid>>

Next ==
  \/ Tick
  \/ Deliver
  \/ \E u \in Uids : Handle_GatewayGameAttackReq(u) \/ PlayerMoves(u)
  \/ \E us \in SUBSET DOMAIN players : PlayersLeave(us)
  \/ Handle_WorldGameMonsterBuff

Spec == Init /\ [][Next]_vars

-------------------------------------------------------------------------------
(* Properties.                                                             *)

\* Every variable keeps its type.
TypeOK ==
  /\ mon \in [state : States, pos : Field, target : Uids \cup {NoTarget}, goal : Ground,
              path : Seq(Ground), index : Nat \ {0}, hp : Nat, attackTimer : Nat, deadTimer : Nat,
              requests : SUBSET [from : Field, to : Ground, state : States, fresh : BOOLEAN]]
  /\ grid \in [Sectors -> SUBSET {MonsterId}]
  /\ DOMAIN players \subseteq Uids
  /\ players \in [DOMAIN players -> Ground]

End(path) == path[Len(path)]

\* Once the path asked for last has come back, a monster that is under way
\* follows a path to its present goal (Monster.cpp, "stale results are
\* ignored"), in whatever order the AI threads finished.
PathLeadsToGoal ==
  mon.state \in {"CHASE", "ATTACK", "RETURN"} =>
    \/ \E r \in mon.requests : r.fresh
    \/ mon.path # <<>> /\ End(mon.path) = End(FindPath(mon.pos, mon.goal))

\* A monster on guard is at home, although a return may be cut short by a path
\* that is used up before the new one comes.
IdleAtHome == mon.state = "IDLE" => mon.pos = Home

\* A monster is dead exactly when its hp is used up, buffs included.
DeadMeansNoHp == mon.state = "DEAD" <=> mon.hp = 0

\* A monster strikes only a player who is online and, but for the small moves the
\* monster does not follow, within its reach: where the player stands now, and not
\* where a path was asked for.
StrikesInReach ==
  [][mon.state = "ATTACK" /\ mon'.attackTimer < mon.attackTimer
       => /\ Online(mon.target)
          /\ Within(mon'.pos, players[mon.target], AttackRange + TargetEpsilon)]_vars

\* A living monster that moves over the border of a sector, by more than
\* POSITION_EPSILON, ends the step registered where it stands and no longer where it
\* was (SyncMonsterPosition), even if the zone had lost track of it before.
MoveRegisters ==
  [][mon.state # "DEAD" /\ Moved(mon.pos, mon'.pos) /\ SectorOf(mon'.pos) # SectorOf(mon.pos)
       => /\ MonsterId \in grid'[SectorOf(mon'.pos)]
          /\ MonsterId \notin grid'[SectorOf(mon.pos)]]_vars

-------------------------------------------------------------------------------
(* What the theorems about paths ask of the navmesh.                       *)

Inland == {p \in Ground : OnMap(p)}

\* What a monster ever goes to.
Goals == Places \cup {PlayerSpawn, Home}

\* Paths lead along W, and walking along them, steps over a waypoint included, the
\* monster never gets off R.
Walkable(W, R) ==
  /\ R \subseteq Field /\ Home \in R
  /\ \A p \in R, w \in W : Toward(p, w) \subseteq R
  /\ \A a \in R, b \in Goals : FindPath(a, b) \in Seq(W)

\* The navmesh answers, and where a path ends depends on its goal alone.
Answers(R) ==
  \A c \in Goals : \E e \in Ground :
    \A a \in R : FindPath(a, c) # <<>> /\ End(FindPath(a, c)) = e

===============================================================================
