\* A pool too small for its rows: allocations fail, and reclaim runs.
CONSTANTS
  NumBlocks = 4
  NumRows = 3
  MaxBlocksPerSeq = 2
SPECIFICATION Spec
INVARIANTS TypeOK InvariantHolds RowsOwned RoomToGrow
PROPERTIES HeldNeverHandedOut UnpinnedOnlyWhenParked
