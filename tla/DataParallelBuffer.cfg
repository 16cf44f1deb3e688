CONSTANTS
  Jobs <- SoundJobs
SPECIFICATION Spec
INVARIANTS LayoutSound SmallestShard NoError ShardsMatchPlacement GatheredWhole ShareUpdated
CHECK_DEADLOCK FALSE
