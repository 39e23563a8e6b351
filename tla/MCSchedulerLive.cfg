SPECIFICATION FairSpec
CONSTANTS
  Tasks = {main, timer, a, b}
  NoTask = NoTask
  CPU_COUNT = 1
  Main = main
  Service = timer
  Signals = {st, sm}
  TimerSignal = st
  MainSignal = sm
  Delays = {1}
  Timeouts <- NoTimeout
  Counts = {1}
  Creators = {main}
  Cancelers = {}
  PromptSwitch = TRUE
  SlowAlarm = TRUE
PROPERTIES
  EverySleepEnds
  EveryReadyTaskRuns
  TimerRunsForever
