SPECIFICATION HashSpec
CONSTANTS
  Unset = Unset
  HashKeys = {1, 2, 3, 5, 6}
  HashItems = {x, y}
  WordBits = 3
  BaseHashLength = 1
  CollisionKT = 1
  LowUsageT = 2
  MaxHashLength = 3
  HashCalls = {"insert", "remove", "replace", "replace and shrink"}
INVARIANT HoldsItsItems
CHECK_DEADLOCK FALSE
