\* Two and three processes at work in directories of three inodes; the tests on six;
\* and two processes that write, read and throw away two files in five blocks.
SPECIFICATION FilesSpec
CONSTANTS
  p1 = p1
  p2 = p2
  p3 = p3
  Names = {"a", "b", "c", "d", "README"}
  NINODE = 4
  Procs = {p1, p2, p3}
  Scenarios <- AllStarts
  q1 = q1
  q2 = q2
  q3 = q3
  f1 = f1
  f2 = f2
  Files = {f1, f2}
  NBlocks = 5
  NDIRECT = 2
  BSIZE = 2
  MAXOPBLOCKS = 6
  Bytes = {7}
  Lengths = {3, 8}
  MaxCalls = 3
SYMMETRY Symmetry
INVARIANTS LinksMatchNames NoOtherRing  BlocksOwned FitsTheLog
 
CHECK_DEADLOCK FALSE
