SPECIFICATION FairSpec
CONSTANTS
  c1 = c1
  c2 = c2
  c3 = c3
  Conns <- TwoConns
  NoConn = NoConn
  MaxRequests = 3
  Timeouts = "any"
  Crosses = TRUE
INVARIANT HolderIsAlive
PROPERTY ClaimReturns
PROPERTY EvictedCloses
CHECK_DEADLOCK FALSE
