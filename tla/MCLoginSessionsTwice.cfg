SPECIFICATION Spec
CONSTANTS
  s1 = s1
  s2 = s2
  a1 = a1
  a2 = a2
  NoAccount = NoAccount
  Sessions <- TwoSessions
  Accounts <- OneAccount
  Patience = 1
  MaxLogins = 1
INVARIANT
  DisconnectedOnce
CHECK_DEADLOCK FALSE
