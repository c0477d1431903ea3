SPECIFICATION ClaimFairSpec
CONSTANTS
  Process = {a, b, c}
  Nobody = Nobody
  MayCrash = TRUE
  Item = {i}
  NoItem = NoItem
INVARIANTS
  OneOwner
PROPERTIES
  ImplementsMutex
  StaleLockRecovers
CHECK_DEADLOCK FALSE
