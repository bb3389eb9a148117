SPECIFICATION Spec
CONSTANTS
  MaxStreams = 2
  MaxPackets = 3
  MaxSeq = 3
  MaxBatch = 2
  MaxQueued = 1
  FlushCalls <- Seeks
  MaxFlushes = 2
INVARIANT NothingWantedSkipped
INVARIANT AtMostOneSlips
CHECK_DEADLOCK FALSE
