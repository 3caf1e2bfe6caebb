SPECIFICATION KeySpec
CONSTANTS
  Keys <- MCKeys
  Patterns <- MCPatterns
  Star = "*"
  NoIndex = NoIndex
  Clients = {c1, c2}
  MaxCalls = 4
SYMMETRY ClientSymmetry
INVARIANTS Kept TreeIsASet
CHECK_DEADLOCK FALSE
