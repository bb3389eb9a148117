SPECIFICATION FairSpec
CONSTANTS
  MaxPackets = 3
  SeqOf <- MCSeqOf3
  Chunks = 2
  MaxQueued = 1
  MaxBatch = 1
  FlushCalls <- FlushMixed
  MaxCalls = 2
  U64Max = 15
INVARIANT PendingCounts
INVARIANT FlushExact
INVARIANT FlushReaches
INVARIANT AsleepHasNoWork
PROPERTY ImplementsQueue
PROPERTY EverythingPlays
PROPERTY DropReturns
CHECK_DEADLOCK FALSE
