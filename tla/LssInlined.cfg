SPECIFICATION Spec
CONSTANTS
  Calls = {a, b, c}
  Blocks = {1, 2, 3, 4, 5, 6, 7}
  Null = Null
  Epsilon = 3
  StackMaxDepth = 3
  IdxMax = 65535
  InlineUpdMin = TRUE
  EventsOutsideTrace = FALSE
  MaxEvents = 8
INVARIANTS StackMirrorsCalls QueueHoldsMonitored NoColdLeaf TreeOfContexts
CHECK_DEADLOCK FALSE
