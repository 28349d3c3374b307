SPECIFICATION MCSpec
CONSTANTS
  depth = 2
  Z = 1
  Leaves <- MCLeaves
  Buckets <- MCBuckets
  OnPath <- MCOnPath
  Nodes <- MCNodes
  Groups <- MCGroups
  Size <- MCSize
  Sum <- MCSum
  leaves <- MCleaves
  Sessions <- MCSessions
  None = None
INVARIANTS SeedsAgree StashIsRead
PROPERTY EverySearchEnds
CHECK_DEADLOCK FALSE
