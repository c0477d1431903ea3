SPECIFICATION Spec
CHECK_DEADLOCK FALSE
CONSTANTS
  AttemptBound = 3
  CrashBound = 2
INVARIANTS
  StatusHonest
  ReconcileRestores
PROPERTIES
  ImplementsTaskLog
  InvalidationSticks
  CompletionStands
