SPECIFICATION LockFairSpec
CONSTANTS
  a = a
  b = b
  c = c
  d = d
  Process = {a, b, c, d}
  Nobody = Nobody
  HostOf <- TwoHosts
INVARIANTS
  ExclusiveUntilDeath
PROPERTY
  LeftLockRecovers
CHECK_DEADLOCK FALSE
