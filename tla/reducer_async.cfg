SPECIFICATION Spec
CHECK_DEADLOCK FALSE
CONSTANTS
  Step <- PairSteps
  Expanding = {}
  Clause <- PairClauses
  Item = {}
  AttemptId = {1, 2, 3}
  NoItem = NoItem
  MaxAttempts <- Twice
  BaseSeconds = 1
  Multiplier = 2
  MaxSeconds = 2
  LateStart = TRUE
  GenerationBound = 2
  RosterBound = 0
  RosterLenBound = 0
  ClockBound = 1
INVARIANTS
  OneCommitPerGeneration
  SucceededIffCommitted
PROPERTIES
  HistoryAppendOnly
