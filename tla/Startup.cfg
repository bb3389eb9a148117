SPECIFICATION Spec
CONSTANTS
  p1 = p1
  p2 = p2
  Procs = {p1, p2}
  Nobody = Nobody
  Stale = Stale
  Settings <- SomeSettings
  MaxStarts = 4
SYMMETRY Symmetry
INVARIANT IdentityStable
INVARIANT AloneIsReached
CHECK_DEADLOCK FALSE
