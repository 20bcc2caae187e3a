SPECIFICATION MCSpec
CONSTANTS
  None = None
  Servers = {s1, s2, s3}
  PoolSizes = {1, 2}
  MaxStarts = 2
  Requests = {r1, r2}
  MaxBeats = 3
INVARIANTS
  KeyInv
  LifecycleInOrder
PROPERTIES
  StartEnds
  ServerEnds
CHECK_DEADLOCK FALSE
