CONSTANTS
  a1 = a1
  a2 = a2
  c1 = c1
  c2 = c2
  Agents = {a1, a2}
  Configs = {c1, c2}
  MaxWrites = 2
  MaxAdapters = 2
SPECIFICATION FairSpec
VIEW MCView
INVARIANTS
  AdaptersFollowTheFile
  FailureIsRetried
  StatusIsTrue
  RefusedIsReported
PROPERTIES
  NoStartAfterTheStop
  StopEnds
CHECK_DEADLOCK FALSE
