CONSTANTS
  k1 = k1
  k2 = k2
  a1 = a1
  p1 = p1
  p2 = p2
  p3 = p3
  p4 = p4
  Keys = {k1, k2}
  Agents = {a1}
  Prompts = {p2, p3, p4}
  AgentOf <- MCAgentOf
  KeyOf <- MCKeyOf
  Opens <- MCOpens
  Limits = {1, 2}
  MaxSpawns = 2
  MaxReloads = 1
  MaxRestarts = 0
  Stops = FALSE
SPECIFICATION Spec
VIEW MCView
SYMMETRY MCSymmetry
PROPERTIES
  RoomForEverySession
CHECK_DEADLOCK FALSE
