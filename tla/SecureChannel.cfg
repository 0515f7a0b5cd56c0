SPECIFICATION Spec
CONSTANTS
  Modulus = 6
  Window = 2
  Jump = 3
  PerWindow = 2
  MaxViolations = 2
  QueueMax = 1
  LinkMax = 2
  MaxNumber = 8
INVARIANTS
  TypeOK
  GatewayUnderstands
  ClientUnderstands
CHECK_DEADLOCK FALSE
