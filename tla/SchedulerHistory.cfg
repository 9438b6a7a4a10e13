\* Six short requests through a history of four records: the fifth retirement
\* drops two of them at once.
CONSTANTS
  NumBlocks = 2
  NumRows = 2
  MaxBlocksPerSeq = 1
  MaxEntries = 1
  RootHash <- NoHash
  BlockHash <- PrefixHash
  BlockSize = 4
  MaxBatch = 2
  MaxSeqLen = 3
  MaxGenLen = 2
  PrefillReserve = 3
  HistoryLimit = 4
  CacheOn = FALSE
  ForwardMayFail = TRUE
  Requests <- ShortRequests
  MaxRequests = 6
SPECIFICATION Spec
INVARIANTS HistoryExact
CHECK_DEADLOCK FALSE
