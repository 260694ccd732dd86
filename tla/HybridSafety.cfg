\* Both upload modes: two requests on one key, two uploads.
CONSTANTS
  k1 = k1
  Keys = {k1}
  Values = {v1, v2}
  Procs = {p1, p2}
  None = None
  Modes = {TRUE, FALSE}
  Ranged = FALSE
  Items = {i1, i2}
  KeyOf <- OneKey
  Workers = {w1}
  QueueSize = 1
  MaxRetry = 2
  Free = Free
  Exited = Exited
SYMMETRY Symmetry
VIEW View
SPECIFICATION TiersSpec
INVARIANT TypeOK
PROPERTY AckedNeverMissing
INVARIANT SoloPutPersists
INVARIANT DeletedStaysGone
INVARIANT TiersAgree
PROPERTY AckedNotForgotten
INVARIANT OneLeads
