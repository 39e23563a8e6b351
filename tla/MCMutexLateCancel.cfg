SPECIFICATION Spec
CONSTANTS
  Tasks = {a, b, c}
  Mutexes <- TwoMutexes
  Critical = {}
  NestedReads = FALSE
  Cancelable = {a, b, c}
  LateCancels = TRUE
  Watched = 2
INVARIANT
  UnusedIsFree
