SPECIFICATION Spec
CONSTANTS
  Rank <- MCRank
  NumBuckets = 5
  NumParams = 6
  BucketOf <- MCBucketOf
  GroupOf <- MCGroupOf
  ProcessGroups <- MCProcessGroups
  BucketSize <- MCBucketSize
  QueueCapacity = 2
  Shared <- MCShared
  HookOrder <- MCHookOrder
  Uses <- MCUses
  NumPasses = 2
INVARIANTS SameOrder NoCircularWait
