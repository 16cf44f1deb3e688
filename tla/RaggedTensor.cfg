CONSTANTS
  Jobs <- MCJobs
  Ways <- NoWays
SPECIFICATION Spec
INVARIANTS Denotes PointwiseAligned NormExact SavedOnce NoError
CHECK_DEADLOCK FALSE
