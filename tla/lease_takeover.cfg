SPECIFICATION Spec
CONSTANTS
  a = a
  b = b
  c = c
  d = d
  e = e
  Process = {a, b, c, d, e}
  Nobody = Nobody
  NoLease = NoLease
  HostOf <- TwoHosts
  Forcing = {d}
  Slow = {e}
INVARIANTS
  OneOrchestrator
PROPERTIES
  LiveLeaseStays
  DeadLeaseStaysStale
CHECK_DEADLOCK FALSE
