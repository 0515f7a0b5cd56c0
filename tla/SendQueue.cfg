SPECIFICATION FairSpec
CONSTANTS
  QueueMax = 2
  MaxSends = 8
INVARIANTS
  SingleWrite
  QueueBounded
PROPERTIES
  Drained
  IsFifoChannel
CHECK_DEADLOCK FALSE
