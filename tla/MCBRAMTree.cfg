SPECIFICATION MCSpec
CONSTANTS
  Bids = {1, 2, 3, 4, 5, 6, 7}
  depth = 1
  Leaves <- MCLeaves
  Buckets <- MCBuckets
  OnPath <- MCOnPath
  Z = 4
  pad = 0
  maxHeight = 2
  InitTree <- TreeOf6
  Versions = 1
  None = None
  MaxOps = 1
INVARIANTS PositionMap
PROPERTIES NodeTreeSpec
\* no operation begins after the last
CHECK_DEADLOCK FALSE
