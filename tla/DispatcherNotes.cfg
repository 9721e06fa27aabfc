CONSTANTS
  m1 = m1
  m2 = m2
  s1 = s1
  n1 = n1
  n2 = n2
  Messages = {m1, n1, n2}
  Kind <- MCKind
  FollowUps = 0
  MaxTries = 0
  MaxBridges = 1
  MaxReplays = 0
  Crashes = FALSE
SPECIFICATION FairSpec
VIEW MCView
INVARIANTS
  ReportedNotesWereSeen
PROPERTIES
  MessagesEnd
CHECK_DEADLOCK FALSE
