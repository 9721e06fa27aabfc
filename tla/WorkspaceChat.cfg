SPECIFICATION FairSpec
CONSTANTS
  MaxTurns = 2
  Here = Here
  Gone = Gone
  NoSpace = NoSpace
  TooLarge = {1}
  MaxAttempts = 2
  MaxChunks <- EachOne
  MaxSteps <- FirstOnly
  MaxFaults = 1
VIEW MCView
INVARIANTS
  OwnLineOnly
  RemembersTheirSpace
PROPERTIES
  EndsAsEllipsis
  EveryWriteEnds
CHECK_DEADLOCK FALSE
