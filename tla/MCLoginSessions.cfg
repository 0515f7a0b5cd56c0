SPECIFICATION FairSpec
CONSTANTS
  s1 = s1
  s2 = s2
  a1 = a1
  a2 = a2
  NoAccount = NoAccount
  Sessions <- TwoSessions
  Accounts <- OneAccount
  Patience = 1
  MaxLogins = 1
INVARIANTS
  TypeOK
  TokensOnlyForOwn
PROPERTIES
  LoginExclusive
  GoneIsNoticed
CHECK_DEADLOCK FALSE
