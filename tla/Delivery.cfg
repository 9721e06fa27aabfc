CONSTANTS
  p1 = p1
  turn = turn
  notice = notice
  People = {p1}
  Senders = {turn, notice}
  Person <- OnePerson
  Direct = {notice}
  Kinds = {"both"}
  MaxChunks <- TwoAndOne
  Retries = 1
  MaxFaults = 2
  MaxAdapters = 2
  MaxWaiting = 0
SPECIFICATION FairSpec
VIEW MCView
INVARIANTS
  EachHasOnePlace
  
  InOrder
PROPERTIES
  SentBehindTheKept
  KeptIsSent
CHECK_DEADLOCK FALSE
