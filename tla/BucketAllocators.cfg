SPECIFICATION Spec
CONSTANTS
  Groups <- MCGroups
  NoUnit = NoUnit
  Kinds <- Kind
  PoolSize = 1
  MaxLive = 1
  MaxWorkspaces = 3
  Data = {d1, d2}
  Unallocated = Unallocated
  Ways = {}
INVARIANTS PoolSuffices Footprint
PROPERTY ActsAsStore
CHECK_DEADLOCK FALSE
