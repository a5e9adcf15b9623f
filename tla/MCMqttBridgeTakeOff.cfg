SPECIFICATION Spec
CONSTANTS
  v = v
  w = w
  x = x
  Vehicle = {v, w, x}
  Order <- MCOrder
  Leader = w
  Fleets = {{}}
  CustomMode = {"External1", "External2"}
  NoMode = NoMode
  Down = Down
  Absent = Absent
  Nothing = Nothing
  TakeOffs = {"takeoff", "vtol_takeoff"}
  MaxTakeOffs = 1
  MaxCrashes = 1
CHECK_DEADLOCK FALSE
PROPERTIES
  SlotsAreSpaced
