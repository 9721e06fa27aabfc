CONSTANTS
  k1 = k1
  k2 = k2
  a1 = a1
  p1 = p1
  p2 = p2
  p3 = p3
  p4 = p4
  Keys = {k1}
  Agents = {a1}
  Prompts = {p1, p2}
  AgentOf <- MCAgentOf
  KeyOf <- MCKeyOf
  Opens <- MCOpens
  Limits = {1}
  MaxSpawns = 3
  MaxReloads = 0
  MaxRestarts = 1
  Stops = FALSE
SPECIFICATION Spec
VIEW MCView
INVARIANTS
  NoOrphanChild
  ConversationKept
  PromptHasOnePlace
  AlongsideIsWaitedFor
PROPERTIES
  EndedSessionIsSentNothing
CHECK_DEADLOCK FALSE
