SPECIFICATION Spec
CONSTANTS
  Calls = {a, b}
  Blocks = {1, 2, 3, 4, 5, 6, 7}
  Null = Null
  Epsilon = 3
  StackMaxDepth = 4
  IdxMax = 65535
  InlineUpdMin = FALSE
  EventsOutsideTrace = TRUE
  MaxEvents = 7
INVARIANT HotMonitored
PROPERTY ImplementsSpaceSaving
CHECK_DEADLOCK FALSE
