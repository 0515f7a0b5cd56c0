SPECIFICATION Spec
CONSTANTS
  Width = 2
  Height = 1
  SectorSize = 1
  Accounts = {a1, a2}
  Gateways = {g1, g2}
  Requests <- EdgeRequests
  DefaultHp = 3
  Damage = 2
  Leftover = {a2}
  MaxPackets = 3
  MaxRefused = 0
INVARIANT
  NoGhost
CHECK_DEADLOCK FALSE
