\* Three processes share a pipe; the shell runs lines; two processes read the
\* console.
SPECIFICATION StreamsSpec
CONSTANTS
  p1 = p1
  p2 = p2
  p3 = p3
  Procs = {p1, p2, p3}
  PIPESIZE = 2
  Word = 4
  b1 = b1
  b2 = b2
  Bytes = {b1, b2}
  WriteArgs = {3}
  ReadArgs = {2}
  MaxKilled = 1
SYMMETRY Symmetry
INVARIANTS OpenWhileHeld NoLostWakeup
PROPERTIES Fifo LinesServed
CHECK_DEADLOCK FALSE
