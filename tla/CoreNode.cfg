SPECIFICATION LiveSpec
CONSTANTS
  LastHeight = 3
  RoundStart = 3
  EmptyHeights = {1, 2}
  BlockChanSize = 2
INVARIANTS
  PendingBeyondTip
  GapsPulled
  BlockedAtRoundStart
PROPERTIES
  
  CatchUp
CHECK_DEADLOCK FALSE
