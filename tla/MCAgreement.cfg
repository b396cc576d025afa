SPECIFICATION Spec
CONSTANTS
  b1 = b1
  b2 = b2
  NULL = NULL
  SKIP = SKIP
  None = None
  Members = {m1, m2, m3, m4}
  NotarySetSize = 4
  Blocks = {b1, b2}
  Distance <- MCDistance
  Settings <- MCSettings
SYMMETRY MCSymmetry
CHECK_DEADLOCK FALSE
INVARIANTS
  NoForkVote
  BlockAgreement
  EmptyAgreement
  
  IInv
PROPERTY
  Refines
