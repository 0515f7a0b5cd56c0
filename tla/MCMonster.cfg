\* One player, who may leave and come back, on the L-shaped map.
SPECIFICATION Spec
CONSTANTS
  Width = 16
  Height = 16
  SectorSize = 10
  Uids = {1}
  Places <- Arm
  PlayerSpawn <- Corner
  MonsterId = 10000
  Home <- HomeEnd
  AttackRange = 3
  AggroRange = 6
  ChaseRange = 7
  PlayerAttackRange = 3
  Strides = {4}
  MaxStride = 4
  WaypointEpsilon = 2
  PositionEpsilon = 1
  TargetEpsilon = 2
  MaxHp = 1
  HpCap = 2
  PlayerDamage = 1
  Cooldown = 2
  RespawnTicks = 1
  FindPath <- LPath
  MaxRequests = 2
INVARIANTS
  TypeOK
  PathLeadsToGoal
  IdleAtHome
  DeadMeansNoHp
PROPERTIES
  StrikesInReach
  MoveRegisters
