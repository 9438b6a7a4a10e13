CONSTANTS
  Batches = {1, 2}
  MaxDecodeGraphEntries = 1
  MaxCaptureAttempts = 2
  Addrs = {a1, a2}
  Shapes = {s1, s2}
  a1 = a1
  a2 = a2
  s1 = s1
  s2 = s2
  Faults = {"launch"}
  MaxSteps = 4
  MaxSchedulers = 2
SPECIFICATION Spec
INVARIANT StagingIntact
SYMMETRY Symmetry
CHECK_DEADLOCK FALSE
