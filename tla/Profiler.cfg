SPECIFICATION ProfilerSpec
CONSTANTS
  Calls = {a, b}
  Null = Null
  StackMaxDepth = 4
  IdxMax = 65535
  EventsOutsideTrace = TRUE
  MaxEvents = 5
  TimedThreads = {t0, w}
  Main = t0
  TimeDepth = 2
  MaxTics = 3
  MaxTimedEvents = 3
  KeyThreads = {0, 1}
  KeyMain = 0
  Unmade = 17
  Early = TRUE
  OthersKeys = TRUE
  DumpPath = TRUE
  MaxKeyEvents = 2
  Images = {{"f", "g"}, {"h"}}
  NoSymbol = "none"
  PhiInverse = 2
  Radix = 2
  Leftovers = {1, 9}
  ScoreUnit = 12
  PageSize = 3
  MaxPages = 2
  NullBlock = NullBlock
  Threads = {t0, t1, t2, t3}
  Tids = {i1, i2, i3}
  Nobody = Nobody
INVARIANTS TypesOK AlignedStackMirrorsCalls TreeIsSampled TimeIsAccounted
INVARIANTS FreeOrHeld PagesBounded EndedThreadsHaveTrees KeyedTreesAreDumped DumpsAreAnalysed
PROPERTY ImplementsAllocator
CHECK_DEADLOCK FALSE
SYMMETRY CallSymmetry
