SPECIFICATION S2SSpec
CONSTANTS
  QueueMax = 3
  MaxSends = 3
  MaxOutages = 2
INVARIANT
  CompletesHead
CHECK_DEADLOCK FALSE
