SPECIFICATION FleetSpec
CONSTANTS
  v = v
  w = w
  a = a
  b = b
  s = s
  t = t
  Node = {v, w}
  Px4 = {v, w}
  Slot = {a, b}
  Swarm = {s, t}
  NoNode = NoNode
  NoSlot = NoSlot
  NoSwarm = NoSwarm
  Nothing = Nothing
  ManagementSent = {}
  NodeSent = {}
  InformationSent = {}
  StatusDue = {TRUE}
  Members <- MCMembers
  Formations <- MCFormations
  Leaders = {w}
  MaxScripts = 2
  MaxFaults = 1
  MaxOperations = 2
  LinkBound = 1
CHECK_DEADLOCK FALSE
INVARIANTS
  FliesOneFormation
