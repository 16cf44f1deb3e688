CONSTANTS
  Jobs <- MCJobs
  MaxSteps = 2
SPECIFICATION Spec
INVARIANTS GroupsSound GradSlices WeightsCurrent ShardsDescribed GradientComplete
CHECK_DEADLOCK FALSE
