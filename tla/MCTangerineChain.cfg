SPECIFICATION LiveSpec
CONSTANTS
  MaxHeight = 5
  RoundStart = {3}
  EmptyBlocks = {2}
  Witness <- MCWitness
  TriesInMemory = 3
  Modes = {TRUE, FALSE}
  Leads = {2, 5}
  MaxStops = 1
  MaxCrashes = 2
INVARIANTS
  ChainContiguous
  HeadStateAvailable
  RoundHeightsRight
  HeadDurable
  StateForCore
  OrderlyInserts
PROPERTIES
  EveryBlockInserted
  HeadCatchesUp
