SPECIFICATION Containers
CONSTANTS
  Unset = Unset
  HeapKeys = {1, 2}
  HeapInitSize = 2
  HeapEmptySlot = 99
  MaxHeapItems = 4
  HashKeys = {1, 2, 3, 5, 6}
  HashItems = {x, y}
  WordBits = 3
  BaseHashLength = 1
  CollisionKT = 1
  LowUsageT = 2
  MaxHashLength = 3
  HashCalls = {"insert", "remove", "replace"}
  QueueItems = {x, y}
  QueueInitSize = 2
  QueueMaxSize = 8
  ReallocMoves = {FALSE}
  MaxNodes = 3
  MaxEdges = 3
  MaxDelNodes = 2
  GraphNull = 0
  GraphCalls = {"undirected"}
  MultiNodes = 2
  MultiEdges = 3
  MultiDelNodes = 3
  MultiCalls = {"undirected", "loop", "parallel"}
  GenTasks <- MCTasks
  GenWeights <- MCWeights
  ShortBits = 16
  GenFiles <- MCFiles
  BlockBaseSize = 3
  BlockWrites <- MCWrites
  BlockSeeks <- MCSeeks
  MaxBlockCells = 6
  MemBufferSize = 2
  NoFile = NoFile
  ArchiveTags = {1}
  ArchiveData <- MCData
  MaxArchiveBlocks = 3
  MaxArchiveLength = 15
INVARIANTS TypesOK SlotsAccountedFor ItemsAreFound GraphsHold ArchiveKeepsBlocks
PROPERTY QueuesKeepOrder
CHECK_DEADLOCK FALSE
