SPECIFICATION FairSpec
CONSTANTS
  Names = {n1}
  Passwords = {p1, p2}
  DbThreads = {t1, t2}
  Known = {}
  MaxLogins = 3
  NoLogin = NoLogin
INVARIANTS PoolSuffices FetchedUidsFree Authentic
PROPERTIES EveryLoginAnswered IsLoginChecks
CHECK_DEADLOCK FALSE
