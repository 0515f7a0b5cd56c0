SPECIFICATION Spec
CONSTANTS
  MaxBots = 2
  Target = 2
  Rate = 1
  NoToken = NoToken
  NoAccount = NoAccount
  Sessions = {1, 2}
INVARIANTS
  ListedMeansHeld
  AccountsBounded
PROPERTIES
  IsSessionTokens
  NoStaleToken
CHECK_DEADLOCK FALSE
