CONSTANTS
  NumBlocks = 4
  NumRows = 2
  MaxBlocksPerSeq = 3
  MaxEntries = 1
  Prompts <- BranchingPrompts
  RootHash <- NoHash
  BlockHash <- PrefixHash
SPECIFICATION Spec
INVARIANTS CacheCoherent KVIntact MatchMountable
PROPERTIES SharedReadOnly
