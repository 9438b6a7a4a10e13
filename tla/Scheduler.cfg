\* The pool as KVManager sizes it, with failing forward passes.
CONSTANTS
  NumBlocks = 6
  NumRows = 2
  MaxBlocksPerSeq = 3
  MaxEntries = 3
  RootHash <- NoHash
  BlockHash <- PrefixHash
  BlockSize = 2
  MaxBatch = 2
  MaxSeqLen = 6
  MaxGenLen = 3
  PrefillReserve = 3
  HistoryLimit = 0
  CacheOn = TRUE
  ForwardMayFail = TRUE
  Requests <- MixedRequests
  MaxRequests = 3
SPECIFICATION Spec
INVARIANTS Accounted KVIntact SizedPoolSuffices
PROPERTIES Lifecycle
CHECK_DEADLOCK FALSE
