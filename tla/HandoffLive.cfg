SPECIFICATION FairSpec
CONSTANTS
  MaxBots = 2
  Target = 1
  Rate = 1
  NoToken = NoToken
  NoAccount = NoAccount
  Sessions = {1, 2}
PROPERTIES
  GoneIsUnlisted
  IdComesBack
CHECK_DEADLOCK FALSE
