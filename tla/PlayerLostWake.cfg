SPECIFICATION FairSpec
CONSTANTS
  MaxPackets = 2
  SeqOf <- MCSeqOf2
  Chunks = 2
  MaxQueued = 1
  MaxBatch = 1
  FlushCalls <- FlushSome
  MaxCalls = 3
  U64Max = 15
PROPERTY ResumePlays
CHECK_DEADLOCK FALSE
