SPECIFICATION Spec
CONSTANTS
  Tasks = {a, b, c}
  Idle = Idle
  CPU_COUNT = 2
  Sections <- TwoSections
  Free = Free
INVARIANTS
  MutualExclusion
  HolderExecutes
  CountsNesting
