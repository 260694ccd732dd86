\* Two callers on one key, above SingleFlight, with cleanup and restarts.
CONSTANTS
  k1 = k1
  t1 = t1
  None = None
  Keys = {k1}
  Names = {k1, t1}
  TmpOf <- OneTmp
  ShardOf <- OneShard
  Procs = {p1, p2}
  Values = {v1, v2}
  Chunks = 2
  Inodes = {i1, i2, i3, i4}
  SerialPuts = TRUE
  Cleanup = TRUE
SYMMETRY Symmetry
VIEW View
ACTION_CONSTRAINT FirstFree
SPECIFICATION Spec
INVARIANT TypeOK
INVARIANT IInv
INVARIANT EntriesWhole
INVARIANT PartialWritesNeverVisible
PROPERTY OpenEntriesFrozen
PROPERTY ImplementsCacheStore
