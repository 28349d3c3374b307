SPECIFICATION Spec
CONSTANTS
  depth = 2
  Leaves <- MCLeaves
  Buckets <- MCBuckets
  OnPath <- MCOnPath
  Nodes = {1, 2, 3, 4, 5, 6, 7}
  GroupNodes = {1, 2, 3, 4, 5, 6, 7, 8, 9}
  Z = 2
  T = 4
  MaxInput = 513
  PathDepth = 5
  None = None
INVARIANTS PathsMeetOnce PlacementIsInit OnlyMeetingGroupsLose NodesPlacedOnce TreeIsMade
PROPERTY EverySetupEnds
\* setup is over when everything is placed
CHECK_DEADLOCK FALSE
