SPECIFICATION Spec
CHECK_DEADLOCK FALSE
CONSTANTS
  LayerNum <- Layers2
  PackWidth = 2
  VecWidth = 3
  Tile = 2
  Warps = 3
  KChunk = 2
  Splits <- SplitLimits
  SmCount = 2
  Threads = 5
  HfConfigs <- Hf
  Models <- Uniform
  Passes <- Kinds
INVARIANTS LogitsRight CacheRight
