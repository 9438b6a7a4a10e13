CONSTANTS
  Datasets <- SmallDatasets
  Durations = {0, 2}
  Gaps = {0, 2}
  MaxTime = 5
  MaxAnswer = 2
  Warmups = 1
  WarmupRounds = 1
  Cap = 2
  Geometries <- PoolShapes
  FreeMemory = {600, 1900, 4000}
  Reserve = 100
SPECIFICATION Spec
INVARIANTS LedgerOfWindow ArrivalsCausal FittedPoolFits
PROPERTIES RunEnds
CHECK_DEADLOCK FALSE
