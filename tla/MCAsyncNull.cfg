SPECIFICATION AsyncSpec
CONSTANTS
  Blocks = {1, 2, 3}
  Kinds = {"sync", "async"}
  depth = 1
  Leaves <- MCLeaves
  Buckets <- MCBuckets
  OnPath <- MCOnPath
  Z = 2
  None = None
INVARIANTS FetchPathAddsBlocks
\* a NULL ends the program
CHECK_DEADLOCK FALSE
