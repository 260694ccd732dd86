\* Three items, two workers, a queue of two; items are tried twice.
CONSTANTS
  Items = {i1, i2, i3}
  Workers = {w1, w2}
  QueueSize = 2
  MaxRetry = 2
  Free = Free
  Exited = Exited
SPECIFICATION FairSpec
INVARIANT TypeOK
INVARIANT Accounted
INVARIANT TriesRespected
INVARIANT StopEmptiesQueue
PROPERTY UploadsAdvance
PROPERTY AcceptedSettles
PROPERTY StopTerminates
CHECK_DEADLOCK FALSE
