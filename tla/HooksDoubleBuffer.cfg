CONSTANTS
  NumBuckets = 5
  UnitOf <- GroupedUnit
  NoUnit = 0
  GroupOf <- GroupedGroup
  BucketSize <- MCSize
  HasTranspose <- MCTranspose
  PrefetchSize = 2
  FsdpDoubleBuffer = TRUE
  DoubleBufUnits <- GroupedUnits
  PoolSize = 2
  MaxVersion = 2
  NumModules = 5
  ModuleBuckets <- GroupedModuleBuckets
  IsUnit <- MCIsUnit
  Setups <- PairSetups
  MaxGraphs = 1
SPECIFICATION Spec
INVARIANTS InUseReady NoError
CHECK_DEADLOCK FALSE
