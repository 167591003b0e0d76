SPECIFICATION Spec
CONSTANTS
  Addresses = 2
  LpdPort = 2
  Reserved = 3
  Settings <- MCSettings
  Items = 2
  Locked = {1}
  MaxChanges = 2
  PipeSize = 2
  WireSize = 1
  Chunk = 2
  MaxFaults = 1
INVARIANTS NothingMissed EndMeansAll
PROPERTIES LogCatchesUp
CHECK_DEADLOCK FALSE
