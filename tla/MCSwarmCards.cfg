SPECIFICATION Spec
CONSTANTS
  u = u
  v = v
  w = w
  front = front
  west = west
  east = east
  s = s
  t = t
  Node = {v, w}
  Slot = {front, west, east}
  Swarm = {s, t}
  NoNode = NoNode
  NoSlot = NoSlot
  NoSwarm = NoSwarm
  WithNode = {v, w}
  Deployments <- SameVehicles
  Formations <- MCFormations
  MaxScripts = 2
  MaxFaults = 1
  MaxEvents = 3
  AnswerBound = 1
CHECK_DEADLOCK FALSE
INVARIANTS
  CardsTypeOK
  
  FlightIsOnCard
  NobodyForgotten
PROPERTIES
  EveryFlightIsFound
