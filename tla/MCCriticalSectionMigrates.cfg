SPECIFICATION Spec
CONSTANTS
  Tasks = {a, b}
  Idle = Idle
  CPU_COUNT = 2
  Sections <- OneSection
  Free = Free
INVARIANT
  LockNamesItsCore
