SPECIFICATION Spec
CONSTANTS
  LastHeight = 3
  RoundStart = 3
  EmptyHeights = {2}
  BlockChanSize = 2
INVARIANTS
  NeverStuck
CHECK_DEADLOCK FALSE
