SPECIFICATION LiveSpec
CONSTANTS
  Peers = {p1, p2}
  ReceiveChannelSize = 1
  MaxBatch = 2
INVARIANTS
  HandlersDown
PROPERTIES
  StopEnds
CHECK_DEADLOCK FALSE
