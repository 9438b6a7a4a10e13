CONSTANTS
  Batches = {1, 2, 3}
  MaxDecodeGraphEntries = 2
  MaxCaptureAttempts = 2
  Addrs = {1, 2}
  Shapes = {1, 2}
  Faults = {"begin", "capture", "instantiate", "launch", "forward"}
  MaxSteps = 3
  MaxSchedulers = 2
SPECIFICATION Spec
INVARIANTS StagingSettled BuffersLive GeometryCurrent ForwardOwnInputs ResultsAreOwn
CHECK_DEADLOCK FALSE
