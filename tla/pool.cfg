SPECIFICATION FairSpec
CONSTANTS
  p = p
  d = d
  c = c
  Task = {p, c, d}
  Code = {c, d}
  MaxCapacity = 2
INVARIANTS
  PermitsMatchHolders
  NoLostWakeup
  
PROPERTIES
  NoLaunchAfterShutdown
  FuturesSettled
  ShutdownCompletes
CHECK_DEADLOCK FALSE
