\* Threads that outlive the main thread of their program.
SPECIFICATION Spec
CONSTANTS
  NPROC = 4
  NSPACES = 2
  Stacks = {10, 20}
  NENTRIES = 2
  Calls = {"create", "wait", "exit"}
  GrowArgs = {}
  MaxSz = 1
  MaxPid = 4
  Disciplines = {{}}
INVARIANT SpaceOutlivesThreads
CHECK_DEADLOCK FALSE
