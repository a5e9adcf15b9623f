SPECIFICATION Spec
CONSTANTS
  Streams <- MCStreams
  Default <- MCDefault
  Nobody = Nobody
  MaxCommands = 3
CHECK_DEADLOCK FALSE
INVARIANTS
  StreamsTypeOK
  NamesAreAlive
  OwnRate
  RequestReachesStream
  StreamIsThere
PROPERTIES
  CommandsReturn
  LinkEnds
