\* A pool too small for its rows: preemption, re-prefill, force-finish,
\* and more requests than rows; in the end every request is finished.
CONSTANTS
  NumBlocks = 6
  NumRows = 3
  MaxBlocksPerSeq = 4
  MaxEntries = 2
  RootHash <- NoHash
  BlockHash <- PrefixHash
  BlockSize = 2
  MaxBatch = 3
  MaxSeqLen = 8
  MaxGenLen = 4
  PrefillReserve = 4
  HistoryLimit = 0
  CacheOn = TRUE
  ForwardMayFail = FALSE
  Requests <- ContendingRequests
  MaxRequests = 4
SPECIFICATION Spec
INVARIANTS KVIntact BatchSound AdmissionNeverBlocked
PROPERTIES PreemptionSuffices PoolSpec EveryRequestEnds
CHECK_DEADLOCK FALSE
