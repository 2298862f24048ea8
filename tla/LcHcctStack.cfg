SPECIFICATION Spec
CONSTANTS
  Calls = {a, b}
  Epsilon = 3
  Phi = 2
  Increments = {1, 4}
  StackMaxDepth = 3
  MaxWeight = 9
INVARIANT StackIsLive
CHECK_DEADLOCK FALSE
