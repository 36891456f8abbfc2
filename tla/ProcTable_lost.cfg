\* kill leaves sleepTicks behind, and a disk wakeup is lost.
SPECIFICATION Spec
CONSTANTS
  NPROC = 3
  CPUs = {c0}
  BootCpu = c0
  Word = 64
  TicketArgs = {}
  SleepArgs = {0, 2}
  KillArgs = {2}
  SetArgs = {}
  MaxPid = 3
  MaxTicks = 2
  MaxIO = 1
INVARIANT WakeupWakesAll
CHECK_DEADLOCK FALSE
