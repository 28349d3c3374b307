SPECIFICATION MCSpec
CONSTANTS
  depth = 1
  Z = 1
  Leaves <- MCLeaves
  Buckets <- MCBuckets
  OnPath <- MCOnPath
  Bids = {a, b, c}
  Versions = {1, 2}
  Pad <- MCPad
  NewPathFetched = TRUE
  MaxNodes = 2
  None = None
  DrawnKeys = {1, 2, 3, 4, 5}
  ValuedKeys = {1, 2, 3, 4}
  LargeKeys = {1, 2, 3, 4, 5, 6, 7, 8, 9}
  MinKeys = 8
INVARIANTS SearchTree Balanced PositionMap OneCopy ContentKept FailsOnlyWhenFull
PROPERTIES DictionarySpec
\* the removals stop at MinKeys, an insertion into a full store ends the program
CHECK_DEADLOCK FALSE
