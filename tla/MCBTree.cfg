SPECIFICATION MCSpec
CONSTANTS
  T = 2
  MaxKey = 30
  MaxBid = 12
  InitTrees <- MCTrees
  None = None
INVARIANTS SearchTree Balanced CallHasRoom NoNodeLeaks
PROPERTIES KeyMapSpec NodeTreeSpec
\* a call that throws ends the program
CHECK_DEADLOCK FALSE
