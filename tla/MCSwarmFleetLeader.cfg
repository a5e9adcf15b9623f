SPECIFICATION FleetSpec
CONSTANTS
  v = v
  w = w
  a = a
  b = b
  s = s
  t = t
  Node = {v, w}
  Px4 = {v, w}
  Slot = {a, b}
  Swarm = {s, t}
  NoNode = NoNode
  NoSlot = NoSlot
  NoSwarm = NoSwarm
  Nothing = Nothing
  ManagementSent = {}
  NodeSent = {}
  InformationSent = {}
  StatusDue = {TRUE}
  Members <- MCMembers
  Formations <- MCFormations
  Leaders = {v, w}
  MaxScripts = 1
  MaxFaults = 0
  MaxOperations = 3
  LinkBound = 1
CHECK_DEADLOCK FALSE
INVARIANTS
  FollowersStay
