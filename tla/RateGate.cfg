SPECIFICATION Spec
CONSTANTS
  Interval = 3
  Burst = 2
  Starts = {0, 5}
  Horizon = 13
  Calls = 6
INVARIANTS
  TypeOK
  RateBound
PROPERTIES
  BucketSpec
CHECK_DEADLOCK FALSE
