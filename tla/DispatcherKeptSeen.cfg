CONSTANTS
  m1 = m1
  m2 = m2
  s1 = s1
  n1 = n1
  n2 = n2
  Messages = {m1, m2}
  Kind <- MCKind
  FollowUps = 1
  MaxTries = 1
  MaxBridges = 2
  MaxReplays = 1
  Crashes = FALSE
SPECIFICATION Spec
INVARIANTS
  KeptWereNotSeen
CHECK_DEADLOCK FALSE
