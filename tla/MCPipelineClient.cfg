CONSTANTS
  NumBuckets = 4
  UnitOf <- MCUnitOf
  NoUnit = "none"
  GroupOf <- MCGroupOf
  BucketSize <- MCBucketSize
  HasTranspose <- MCHasTranspose
  PrefetchSize = 2
  FsdpDoubleBuffer = TRUE
  DoubleBufUnits <- MCDoubleBufUnits
  PoolSize = 1
  MaxVersion = 1
SPECIFICATION ClientSpec
INVARIANTS EventIffCommunicating StorageIffNotEmpty HeldResident
PROPERTY NoOverwrite
CHECK_DEADLOCK FALSE
