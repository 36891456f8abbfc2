\* Three workers take the lock twice each; both 2-bit counters wrap.
SPECIFICATION WorkersSpec
CONSTANTS
  Threads = {1, 2, 3}
  None = None
  Word = 4
  Loops = 2
INVARIANTS MutualExclusion Grouped
PROPERTIES ServedInOrder Finishes
\* The workers and MR_Run return.
CHECK_DEADLOCK FALSE
