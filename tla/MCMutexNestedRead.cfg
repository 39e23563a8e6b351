SPECIFICATION Spec
CONSTANTS
  Tasks = {a, b, c}
  Mutexes <- TwoMutexes
  Critical = {}
  NestedReads = TRUE
  Cancelable = {a, b, c}
  LateCancels = FALSE
  Watched = 2
INVARIANT
  WriterOwnsAlone
