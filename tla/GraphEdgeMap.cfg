SPECIFICATION GraphSpec
CONSTANTS
  Unset = Unset
  MaxNodes = 3
  MaxEdges = 3
  MaxDelNodes = 2
  GraphNull = 0
  GraphCalls = {}
INVARIANT MapFindsEdges
CHECK_DEADLOCK FALSE
