SPECIFICATION OneSpec
CONSTANTS
  T = 2
  MaxKey = 30
  MaxBid = 12
  InitTrees <- OneTree
  None = None
INVARIANTS RemoveAndSearchReturn
\* a call that throws ends the program
CHECK_DEADLOCK FALSE
