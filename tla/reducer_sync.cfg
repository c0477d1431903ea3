SPECIFICATION FairSpec
CHECK_DEADLOCK FALSE
CONSTANTS
  Step <- ChainSteps
  Expanding <- ChainExpanding
  Clause <- ChainClauses
  Item = {a}
  AttemptId = {1, 2, 3, 4, 5, 6, 7, 8}
  NoItem = NoItem
  MaxAttempts <- InterpretTwice
  BaseSeconds = 1
  Multiplier = 2
  MaxSeconds = 1
  LateStart = FALSE
  GenerationBound = 2
  RosterBound = 1
  RosterLenBound = 2
  ClockBound = 2
INVARIANTS
  SingleLiveAttempt
  SkipStaysJustified
  SucceededOverCurrentWorld
  RetryCeiling
PROPERTIES
  Drains
