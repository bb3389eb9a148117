SPECIFICATION FairSpec
CONSTANTS
  Size = 3
  Chunk = 2
  FadeLen = 2
  Volumes <- SomeVolumes
  MuteDb <- Mute
  FloorDb <- Floor
  MinLevel = 0
  MaxLevel = 2
  MaxLag = 2
  MaxStops = 1
  MaxSinks = 2
  MaxSets = 3
INVARIANT NoClick
INVARIANT WrittenAhead
INVARIANT NoBurst
PROPERTY WriteReturns
CHECK_DEADLOCK FALSE
