CONSTANTS
  NumBuckets = 4
  NumParams = 7
  BucketOf <- PooledBucketOf
  GroupOf <- PooledGroupOf
  UnitOf <- PooledUnitOf
  NoUnit = 0
  BucketSize <- MCBucketSize
  Shared <- MCTied
  QueueCapacity = 10
  FsdpDoubleBuffer = TRUE
  DoubleBufUnits <- PooledUnits
  PoolSize = 2
  Setups <- Accumulating
  UsedSets <- SomeUnused
  After <- UnitOrder
  MaxMicrobatches = 2
SPECIFICATION Spec
INVARIANTS NoError
