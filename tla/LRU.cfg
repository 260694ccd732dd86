\* Three requests, two keys and room for one in memory.
CONSTANTS
  s = s
  t = t
  m = m
  b = b
  k1 = k1
  k2 = k2
  Values = {s, t, m, b}
  SizeOf <- Sizes
  Bodies <- SomeBodies
  MaxTotal = 2
  MaxEntry = 4
  MinEntries = 1
  Keys = {k1, k2}
  Procs = {p1, p2, p3}
  None = None
SYMMETRY Symmetry
VIEW View
SPECIFICATION MCSpec
INVARIANT TypeOK
INVARIANT StaleOnlyWhenExcused
INVARIANT AckedPutFound
PROPERTY ImplementsCache
