SPECIFICATION S2SFairSpec
CONSTANTS
  QueueMax = 3
  MaxSends = 3
  MaxOutages = 2
INVARIANTS
  AlwaysTrying
  NeverStalls
PROPERTY
  Reconnects
CHECK_DEADLOCK FALSE
