SPECIFICATION FairSpec
CONSTANTS
  Conns <- TwoConns
  Knowing <- Guest
  MaxConnections = 1
  Kinds <- SomeKinds
  MaxRequests <- Few
  WireRoom = 3
  Prime = 7
  Generator = 5
  Fragment = 2
INVARIANT InStep
INVARIANT PairedFirst
INVARIANT SrpAgrees
INVARIANT TlvRoundTrips
PROPERTY InOrder
PROPERTY ClearEnds
CHECK_DEADLOCK FALSE
