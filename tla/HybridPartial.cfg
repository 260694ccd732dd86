\* A GET of a range is the first to ask for an object.
CONSTANTS
  k1 = k1
  Keys = {k1}
  Values = {v1}
  Procs = {p1}
  None = None
  Modes = {FALSE}
  Ranged = TRUE
  Items = {}
  KeyOf <- OneKey
  Workers = {w1}
  QueueSize = 1
  MaxRetry = 1
  Free = Free
  Exited = Exited
SYMMETRY Symmetry
SPECIFICATION Spec
INVARIANT StoresWholeObjects
