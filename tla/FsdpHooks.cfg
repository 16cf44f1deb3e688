CONSTANTS
  NumBuckets = 4
  UnitOf <- MCUnit
  NoUnit = 0
  GroupOf <- MCGroup
  BucketSize <- MCSize
  HasTranspose <- MCNoTranspose
  PrefetchSize = 1
  FsdpDoubleBuffer = FALSE
  DoubleBufUnits <- MCUnits
  PoolSize = 2
  MaxVersion = 2
  NumModules = 5
  ModuleBuckets <- MCModuleBuckets
  IsUnit <- MCIsUnit
  Setups <- AllSetups
  MaxGraphs = 2
SPECIFICATION Spec
INVARIANTS InUseReady InUseFresh NoError UnitsInMemory UnitsReleasedAfterUse
PROPERTIES UsesPipelineByContract
CHECK_DEADLOCK FALSE
