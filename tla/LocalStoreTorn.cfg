\* Two PUTs of one key side by side, as a Hybrid backfill allows.
CONSTANTS
  k1 = k1
  t1 = t1
  None = None
  Keys = {k1}
  Names = {k1, t1}
  TmpOf <- OneTmp
  ShardOf <- OneShard
  Procs = {p1, p2, p3}
  Values = {v1, v2}
  Chunks = 2
  Inodes = {i1, i2, i3, i4}
  SerialPuts = FALSE
  Cleanup = FALSE
SYMMETRY Symmetry
VIEW View
ACTION_CONSTRAINT FirstFree
SPECIFICATION Spec
INVARIANT PartialWritesNeverVisible
