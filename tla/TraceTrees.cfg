SPECIFICATION TraceTrees
CONSTANTS
  Calls = {a, b}
  StackMaxDepth = 3
  Epsilon = 3
  Phi = 2
  Increments = {1, 4}
  MaxWeight = 7
  Null = Null
  Counters = 3
  MaxEvents = 8
  BurstSettings <- MCSettings
  MaxBurstEvents = 4
  MaxTicks = 5
  Tau = 2
  RootCounters = {0, 9}
  LazyWeight = 6
INVARIANTS TypesOK TreeIsSpanned LossyCounting OutputIsHot MonitoredHoldTree MetricsAgree BurstsAreSamples
PROPERTY ImplementsSpaceSaving
CHECK_DEADLOCK FALSE
SYMMETRY CallSymmetry
