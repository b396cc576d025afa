SPECIFICATION Spec
CONSTANTS
  Replica = {r1, r2}
  Address = {a1}
  InitialBalances = {1, 2}
  MaxHeight = 2
  MaxTxs = 1
  Costs = {1}
  MaxGain = 1
SYMMETRY Symmetric
INVARIANTS
  
  ReservationsExact
  AcceptedNeverInvalid
  HonestBlockNeverInvalid
