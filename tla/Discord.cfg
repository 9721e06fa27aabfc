SPECIFICATION FairSpec
CONSTANTS
  Messages = {1, 2}
  Sends = {1}
  MaxTicks = 1
  StaleAfter = 3
  MaxAge = 3
  MaxClients = 2
VIEW MCView
INVARIANTS
  NoGhost
  BlipIsNotSilence
PROPERTIES
  SendsEnd
CHECK_DEADLOCK FALSE
