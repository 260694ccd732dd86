\* Liveness: two requests on one key, one upload that is tried twice.
CONSTANTS
  k1 = k1
  Keys = {k1}
  Values = {v1}
  Procs = {p1, p2}
  None = None
  Modes = {TRUE}
  Ranged = FALSE
  Items = {i1}
  KeyOf <- OneKey
  Workers = {w1}
  QueueSize = 1
  MaxRetry = 2
  Free = Free
  Exited = Exited
SPECIFICATION FairSpec
PROPERTY AckedReachesS3
PROPERTY RequestsReturn
