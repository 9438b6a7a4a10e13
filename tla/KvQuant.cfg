CONSTANTS
  Quad = 2
  DecodeTile = 8
  MaxSplits = 2
  PrefillTile = 4
  LegacyTile = 4
  WarpsPerCta = 2
  Score <- Zigzag
  BlockSize = 8
  GroupSize = 4
  MaxSlots = 2
  Blocks = {1, 2, 3, 4}
  MaxLen = 10
  Texts <- Sayings
  Chunks = {1, 3, 6}
  Configs <- Served
SPECIFICATION Spec
INVARIANTS AttentionExact WritesDisjoint PartialsPublished
CHECK_DEADLOCK FALSE
