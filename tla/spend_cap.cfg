SPECIFICATION FairCapSpec
CONSTANTS
  A = A
  B = B
  C = C
  A1 = A1
  A2 = A2
  B1 = B1
  C1 = C1
  C2 = C2
  C3 = C3
  Step = {A, B, C}
  Roster <- MCRoster
  Plans <- MCPlans
  Costs = {1}
  Price = 1
  Attempts <- MCAttempts
  Caps = {4}
  DefaultCap = 2
  RunLimit = 1
  DefaultScopes = 2
  StepLimit <- MCStepLimit
  MinFinished = 1
  MaxFailed = 1
  OfFinished = 2
  LaunchBound = 2
  FaultBound = 2
PROPERTIES
  SpendBounded
  EveryLaunchEnds
CHECK_DEADLOCK FALSE
