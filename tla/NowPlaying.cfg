SPECIFICATION FeedFairSpec
CONSTANTS
  v1 = v1
  v2 = v2
  Displays = {d1}
  Values = {v1, v2}
  Nothing = Nothing
  Capacity = 2
  WireRoom = 1
  MaxPublished = 4
  MaxLinks = 2
INVARIANT NothingIsLost
PROPERTY CatchesUp
CHECK_DEADLOCK FALSE
