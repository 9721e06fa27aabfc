CONSTANTS
  m1 = m1
  m2 = m2
  s1 = s1
  n1 = n1
  n2 = n2
  Messages = {m1, m2, s1}
  Kind <- MCKind
  FollowUps = 1
  MaxTries = 1
  MaxBridges = 2
  MaxReplays = 1
  Crashes = TRUE
SPECIFICATION Spec
SYMMETRY MCSymmetry
VIEW MCTurnsView
INVARIANTS
  OneTurnAtATime
  FileInOrder
PROPERTIES
  AnsweredOnce
CHECK_DEADLOCK FALSE
