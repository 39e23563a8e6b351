SPECIFICATION Spec
CONSTANTS
  Tasks = {a, b, c}
  Mutexes <- ThreeMutexes
  Critical <- CriticalMutexes
  NestedReads = FALSE
  Cancelable = {a, b}
  LateCancels = TRUE
  Watched = 2
INVARIANTS
  Exclusion
  OwnersHold
  WriterOwnsAlone
  NobodyForgotten
  PriorityCounts
PROPERTIES
  FairLock
\* A mutex that a cancelled task has left locked may stop every task.
CHECK_DEADLOCK FALSE
