SPECIFICATION Spec
CONSTANTS
  GroupSize <- GroupSizes
  MaxItems = 13
  Bulk = {2, 5}
  Spills = FALSE
  Keys = {1, 2, 3, 4, 5, 6}
  Valued = {2}
  HeapSize = 100
  HeapGroup = 3
  Requests = {1, 4}
  MaxAllocs = 6
  Reserves <- Places
  Waiters = {w1, w2, w3}
  Times = {1, 2}
  NoTask = NoTask
  HandOverCancels = FALSE
  Senders = {s1, s2}
  MaxHandlers = 4
  RingSize = 2
  Word = 64
  FifoSize = 2
  ChunkSize = 2
  Lengths = {2, 3}
  MaxInput = 3
  MaxOutput = 5
  WritesOverlap = FALSE
  PageSize = 32
  Texts <- SomeTexts
  Junk = {1}
  Errors = {1, 128, 255}
  MaxBurst = 2
  Beyond = {}
  Callers = {c1}
  BlockCount = 2
  PageCount = 2
  Bits = {x}
  Bad = {1}
  Erasable = {0}
  Impatient = FALSE
  Owners = {o1, o2}
  Lambdas = {o2}
  MaxAdded = 3
  MaxDepth = 2
  Careless = {}
  Words <- SomeWords
  Finds <- SomeFinds
  Formats <- SomeFormats
  Numbers = {0, 120}
  MaxText = 3
  Unsafe = {}
  StreamSize = 7
  CopySize = 3
  StreamItems <- SomeItems
  Fragments <- SomeFragments
  DataStart = 5
  Loose = {}
  Classes <- SomeClasses
  Thrown = {"Exception", "Abort", "Status"}
  Functions <- SomeFunctions
  MaxCalls = 3
  Odd = {}
  Objects = {b1, b2}
  Users = {u1, u2}
  Slots = {h}
  NoObject = NoObject
  Reckless = {}
  Elements = {e1, e2, e3}
  Editors = {d1, d2}
  NodeNames = {a}
  NoName = NoName
  NoElement = NoElement
  NoEditor = NoEditor
  Iterating = {d1}
  Iterated = {e2}
  Growing = {e1}
  Sloppy = {}
INVARIANTS
  
  IndexIsSortedSet
  HeapPartition
  WaitKeepsLock
  DispatchInOrder
  DispatchWakes
  ReceivedInOrder
  
  
  
  
  
  
  
  
  
  HandlesHold
  
\* An index that remove has emptied is not used on; tasks of Signals may all be cancelled.
CHECK_DEADLOCK FALSE
