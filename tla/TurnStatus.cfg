SPECIFICATION FairSpec
CONSTANTS
  t1 = t1
  t2 = t2
  NoTool = NoTool
  Tools = {t1, t2}
  MaxInputs <- FirstTwice
  MaxAnswers = 1
  MaxSummaries = 1
  MaxFaults = 1
VIEW MCView
INVARIANTS
  OneLine
PROPERTIES
  GoneAtTheEnd
  BelowTheAnswer
  NamesTheStep
CHECK_DEADLOCK FALSE
