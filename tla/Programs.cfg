\* Two processes and crashes between any two disk writes; programs that run alone.
SPECIFICATION ProgramsSpec
CONSTANTS
  p1 = p1
  p2 = p2
  Procs <- TwoProcs
  n1 = n1
  n2 = n2
  n3 = n3
  Blocks <- ThreeBlocks
  Values = {0, 1}
  MAXOPBLOCKS = 4
  LOGSIZE = 8
  NLOG = 8
  OpBlocks = 2
SYMMETRY Symmetry
INVARIANTS DurableOnReturn SpaceReserved SleeperHasWaker 
PROPERTY CrashSafe
\* The programs end.
CHECK_DEADLOCK FALSE
