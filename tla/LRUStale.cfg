\* A large PUT leaves the small body it replaces in memory.
CONSTANTS
  s = s
  t = t
  m = m
  b = b
  Values = {s, t, m, b}
  SizeOf <- Sizes
  Bodies <- AnyBody
  MaxTotal = 2
  MaxEntry = 4
  MinEntries = 1
  Keys = {k1, k2}
  Procs = {p1, p2}
  None = None
SYMMETRY Symmetry
SPECIFICATION Spec
INVARIANT PutReplaces
