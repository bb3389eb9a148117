SPECIFICATION Spec
CONSTANTS
  c1 = c1
  c2 = c2
  c3 = c3
  Conns <- ThreeConns
  NoConn = NoConn
  MaxRequests = 3
  Timeouts = "stuck"
  Crosses = FALSE
SYMMETRY Symmetry
INVARIANT OneDevice
INVARIANT OneSession
INVARIANT LastStreamWins
INVARIANT LosersAreTold
CHECK_DEADLOCK FALSE
