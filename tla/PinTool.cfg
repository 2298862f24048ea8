SPECIFICATION PinTool
CONSTANTS
  Word = 2
  HeaderWords = 2
  BufferSize = 5
  MaxEvents = 3
  MaxTicks = 2
  BufSize = 5
  Unknown = Unknown
  Routines = {f}
  Stub = Stub
  StackBase = 5
  InitStack = 1
  LibrariesPush = TRUE
  BufElements = 1
  MaxAccesses = 2
INVARIANTS TypesOK NothingLost RecordedIsDelivered CallsAreReported
PROPERTY CallsReturn
CHECK_DEADLOCK FALSE
