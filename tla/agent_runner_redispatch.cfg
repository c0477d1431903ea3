SPECIFICATION Spec
CONSTANTS
  u = u
  v = v
  x = x
  y = y
  i1 = i1
  i2 = i2
  i3 = i3
  Nobody = Nobody
  Item = {i1, i2, i3}
  Worker = {u, v, x, y}
  MaxRetries = 0
  Capacity = 1
  DelayBound = 0
  DispatchBound = 3
  FaultBound = 1
INVARIANTS
  NoDoubleRun
CONSTRAINT OnlyHostsLost
SYMMETRY JobSymmetry
CHECK_DEADLOCK FALSE
