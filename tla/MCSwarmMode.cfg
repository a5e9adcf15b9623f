SPECIFICATION ModeSpec
CONSTANTS
  v = v
  w = w
  a = a
  b = b
  s = s
  t = t
  Node = {v, w}
  Ros2 = {v}
  Slot = {a, b}
  Swarm = {s, t}
  NoNode = NoNode
  NoSlot = NoSlot
  NoSwarm = NoSwarm
  Nothing = Nothing
  ManagementSent <- MCManagement
  NodeSent <- MCNodes
  PositionSent <- MCPositions
  AttitudeSent = {w}
  RequestSent = {"swarm_status"}
  Phases = {"fixedWing", "transition"}
  SocketBound = 1
INVARIANTS
  ModeTypeOK
  FormationStartsFromScratch
PROPERTIES
  ModeKeepsPromise
  EveryRequestAnswered
