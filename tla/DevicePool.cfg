CONSTANTS
  Alignment = 2
  DeviceMem = 12
  Sizes = {1, 4, 5}
  Waterline = 5
SPECIFICATION Spec
INVARIANTS RegionsTiled LiveBacked LedgerExact IdleRegionsWhole
