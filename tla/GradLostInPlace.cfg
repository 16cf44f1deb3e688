CONSTANTS
  NumBuckets = 5
  NumParams = 7
  BucketOf <- GroupedBucketOf
  GroupOf <- GroupedGroupOf
  UnitOf <- GroupedUnitOf
  NoUnit = 0
  BucketSize <- MCBucketSize
  Shared <- MCTied
  QueueCapacity = 2
  FsdpDoubleBuffer = FALSE
  DoubleBufUnits <- GroupedUnits
  PoolSize = 2
  Setups <- InPlaceTwice
  UsedSets <- AllUsed
  After <- UnitOrder
  MaxMicrobatches = 2
SPECIFICATION Spec
INVARIANTS ReducedOnce
