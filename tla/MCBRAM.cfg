SPECIFICATION Spec
CONSTANTS
  Bids = {1, 2, 3, 4}
  depth = 1
  Leaves <- MCLeaves
  Buckets <- MCBuckets
  OnPath <- MCOnPath
  Z = 1
  pad = 0
  maxHeight = 0
  InitTree <- TreeOf1
  Versions = 2
  None = None
INVARIANTS TypeOK OneCopy OnItsPath PendingIsScheduled OnlyFetchedIsScheduled ReadsSucceed
PROPERTIES FinalizeKeepsContent
