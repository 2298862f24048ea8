SPECIFICATION Spec
CONSTANTS
  Calls = {a, b, c, d}
  Blocks = {1, 2, 3, 4, 5, 6, 7}
  Null = Null
  Epsilon = 3
  StackMaxDepth = 2
  IdxMax = 65535
  InlineUpdMin = TRUE
  EventsOutsideTrace = FALSE
  MaxEvents = 18
INVARIANT HotMonitored
CHECK_DEADLOCK FALSE
