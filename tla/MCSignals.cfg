SPECIFICATION SignalsSpec
CONSTANTS
  Waiters = {w1, w2, w3}
  Times = {1, 2}
  NoTask = NoTask
  HandOverCancels = TRUE
INVARIANT LockedIsOwner
CHECK_DEADLOCK FALSE
