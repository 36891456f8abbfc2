\* All calls of programs that join their threads, with and without a lock; the thread
\* tests; threads of a hash map.
SPECIFICATION SharingSpec
CONSTANTS
  NPROC = 4
  NSPACES = 3
  Stacks = {10, 20}
  NENTRIES = 2
  Calls = {"create", "join", "fork", "wait", "sbrk", "exec", "exit"}
  GrowArgs <- ByOne
  MaxSz = 2
  MaxPid = 5
  Disciplines = {{"join"}, {"join", "lock"}}
INVARIANTS SpacesInUse StackHeld PagesMatchSize SleeperHasNoZombie 
 
CHECK_DEADLOCK FALSE
