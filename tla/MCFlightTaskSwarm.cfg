SPECIFICATION Spec
CONSTANTS
  v = v
  w = w
  x = x
  a = a
  b = b
  s = s
  t = t
  Node = {v, w, x}
  Px4 = {v}
  Slot = {a, b}
  Swarm = {s, t}
  NoNode = NoNode
  NoSlot = NoSlot
  NoSwarm = NoSwarm
  Nothing = Nothing
  ManagementSent <- MCManagement
  NodeSent <- MCNodes
  StatusDue = {TRUE}
  InformationSent <- MCInformation
INVARIANTS
  TypeOK
  CountIsSize
  FliesReportedSlots
  PendingIsIncomplete
  LocatedAreNeighbours
  ActiveReportIsWhole
PROPERTIES
  SlotsMoveTogether
  FliesOldWhileUpdating
  PositionsSurviveSwitch
  KeepsPromise
