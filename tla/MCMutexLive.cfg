SPECIFICATION FairSpec
CONSTANTS
  Tasks = {a, b, c}
  Mutexes <- TwoMutexes
  Critical = {}
  NestedReads = FALSE
  Cancelable = {a}
  LateCancels = FALSE
  Watched = 2
INVARIANT
  UnusedIsFree
PROPERTIES
  LockEnds
