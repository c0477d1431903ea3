SPECIFICATION FairSpec
CONSTANTS
  P = P
  Q = Q
  R = R
  X = X
  Y = Y
  Z = Z
  Pool = {P, Q, R}
  Launch = {X, Y, Z}
  Home <- MCHome
  Limit = 1
  Reach <- MCReach
  Scalar = {Z}
  Patient = {P, Q}
  FailOpen = {R}
  Nobody = Nobody
INVARIANTS
  WithinLimit
PROPERTIES
  LiveSlotStays
  SlotsComeBack
CHECK_DEADLOCK FALSE
