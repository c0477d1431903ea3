SPECIFICATION Spec
CONSTANTS
  u = u
  v = v
  x = x
  y = y
  i1 = i1
  i2 = i2
  i3 = i3
  Nobody = Nobody
  Item = {i1, i2}
  Worker = {u, v}
  MaxRetries = 1
  Capacity = 1
  DelayBound = 2
  DispatchBound = 3
  FaultBound = 1
INVARIANTS
  NeverStuck
  NoDoubleRunUnderClaims
  NothingForgotten
PROPERTIES
  CompletedStays
SYMMETRY JobSymmetry
CHECK_DEADLOCK FALSE
