SPECIFICATION LiveSpec
CONSTANTS
  Replica = {r1}
  Address = {a1}
  InitialBalances = {2}
  MaxHeight = 3
  MaxTxs = 1
  Costs = {1}
  MaxGain = 0
INVARIANTS
  IInv
PROPERTIES
  EveryBlockExecuted
