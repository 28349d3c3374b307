SPECIFICATION Spec
CONSTANTS
  depth = 1
  Z = 1
  Nodes = {1, 2, 3, 4}
  Leaves <- MCLeaves
  Buckets <- MCBuckets
  OnPath <- MCOnPath
  None = None
CHECK_DEADLOCK FALSE
INVARIANTS EveryNodeIsStored
