SPECIFICATION Spec
CONSTANTS
  u = u
  v = v
  w = w
  front = front
  west = west
  east = east
  s = s
  t = t
  Node = {u, v, w}
  Slot = {front, west, east}
  Swarm = {s, t}
  NoNode = NoNode
  NoSlot = NoSlot
  NoSwarm = NoSwarm
  WithNode = {}
  Deployments <- LosesVehicles
  Formations <- MCFormations
  MaxScripts = 1
  MaxFaults = 0
  MaxEvents = 2
  AnswerBound = 1
CHECK_DEADLOCK FALSE
INVARIANTS
  OneSwarmPerVehicle
