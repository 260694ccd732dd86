\* A GET backfills what a PUT has just overwritten.
CONSTANTS
  k1 = k1
  Keys = {k1}
  Values = {v1, v2}
  Procs = {p1, p2}
  None = None
  Modes = {FALSE}
  Ranged = FALSE
  Items = {}
  KeyOf <- OneKey
  Workers = {w1}
  QueueSize = 1
  MaxRetry = 1
  Free = Free
  Exited = Exited
SYMMETRY Symmetry
SPECIFICATION Spec
INVARIANT WritesPersistToBoth
