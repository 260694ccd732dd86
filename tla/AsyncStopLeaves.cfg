\* Stop returns while an item waits for its retry.
CONSTANTS
  Items = {i1, i2}
  Workers = {w1}
  QueueSize = 1
  MaxRetry = 2
  Free = Free
  Exited = Exited
SPECIFICATION Spec
INVARIANT StopDrains
CHECK_DEADLOCK FALSE
