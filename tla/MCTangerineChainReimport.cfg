SPECIFICATION Spec
CONSTANTS
  MaxHeight = 5
  RoundStart = {3}
  EmptyBlocks = {2}
  Witness <- MCWitness
  TriesInMemory = 3
  Modes = {TRUE}
  Leads = {5}
  MaxStops = 1
  MaxCrashes = 1
INVARIANTS
  InsertedIsHead
