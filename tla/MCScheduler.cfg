SPECIFICATION Spec
CONSTANTS
  Tasks = {main, timer, a, b}
  NoTask = NoTask
  CPU_COUNT = 2
  Main = main
  Service = timer
  Signals = {st, sm, s1}
  TimerSignal = st
  MainSignal = sm
  Delays = {}
  Timeouts = {1}
  Counts = {1, 2}
  Creators = {main, a, b}
  Cancelers = {main, a, b}
  PromptSwitch = TRUE
  SlowAlarm = FALSE
SYMMETRY Symmetry
INVARIANTS
  TypeOK
  OnePlace
  BlockedNeverRuns
  SwitchUnderWay
  FifoHasRoom
  TimerAlive
  SuspendedIsBlocked
PROPERTY
  ServiceNotPreempted
