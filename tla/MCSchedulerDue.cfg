SPECIFICATION Spec
CONSTANTS
  Tasks = {main, timer, a}
  NoTask = NoTask
  CPU_COUNT = 2
  Main = main
  Service = timer
  Signals = {st, sm, s1}
  TimerSignal = st
  MainSignal = sm
  Delays = {1}
  Timeouts <- NoTimeout
  Counts = {1}
  Creators = {main}
  Cancelers = {}
  PromptSwitch = FALSE
  SlowAlarm = FALSE
INVARIANT
  ReadyOnce
