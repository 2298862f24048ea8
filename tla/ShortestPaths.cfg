SPECIFICATION Spec
CONSTANTS
  Programs = {"LDSP", "LSP", "CDAPSP_DE", "CDAPSP", "LDStar", "main"}
  LdspInfinity = 10
  Step = 1
  Ratio = 2
  MaxUpdates = 2
  LspInfinity = 20
  LspWeights = {0, 1, 2}
  DeInfinity = 12
  MaxCalls = 3
  KingInfinity = 30
  KingUpdates = 3
  MaxChanges = 2
  MAIN_INFINITY = 9
  Lengths = {2}
  MaxCommands = 3
  MaxMaking = 2
  Verbose = FALSE
  Deletions = FALSE
INVARIANTS TypesOK ShortestPathsFound StructuresAreKept ExperimentsAreComparable
PROPERTY CallsEnd
CHECK_DEADLOCK FALSE
