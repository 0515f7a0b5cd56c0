\* Clients stay off the right and the lower edge of the map.
SPECIFICATION FairSpec
CONSTANTS
  Width = 2
  Height = 1
  SectorSize = 1
  Accounts = {a1, a2}
  Gateways = {g1, g2}
  Requests <- InteriorRequests
  DefaultHp = 3
  Damage = 2
  Leftover = {a2}
  MaxPackets = 3
  MaxRefused = 1
INVARIANTS
  TypeOK
  RegistryBijective
  NoZombie
  SectorsExact
  RedisMirror
PROPERTIES
  IsRegistry
  RemovalJustified
  FailedGatewayReaped
CHECK_DEADLOCK FALSE
