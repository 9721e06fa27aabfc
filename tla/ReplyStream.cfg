SPECIFICATION FairSpec
CONSTANTS
  Chunks <- OneAndMore
  SentenceMin = 2
  MaxChars = 4
  MarkerMax = 3
  TagMax = 2
  SummaryHeadings = 2
  MaxText = 4
  MaxHeld = 4
VIEW MCView
INVARIANTS
  CutIsReal
  SummaryNotSent
PROPERTIES
  PiecesAreWhole
  FinishedTextLeaves
CHECK_DEADLOCK FALSE
