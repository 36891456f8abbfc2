\* Three processes and three blocks compete for two buffers, one may be pinned.
SPECIFICATION Spec
CONSTANTS
  Procs = {p1, p2, p3}
  Blocks = {n1, n2, n3}
  Buffers = {b1, b2}
  Values = {0, 1}
  MaxPinned = 1
  DiskFails = FALSE
SYMMETRY Symmetry
INVARIANTS BuffersAgree NoLostWakeup
PROPERTY Coherent
\* bget panics when every buffer is in use.
CHECK_DEADLOCK FALSE
