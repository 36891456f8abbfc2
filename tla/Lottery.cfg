\* Three slots.  The constants are those of the sleepers: see MCLottery.
SPECIFICATION LotterySpec
CONSTANTS
  c0 = c0
  c1 = c1
  NPROC = 3
  CPUs = {c0, c1}
  BootCpu = c0
  \* Two times three tickets are more than INT_MAX.
  Word = 8
  TicketArgs = {3}
  SleepArgs = {0, 2}
  KillArgs = {2}
  SetArgs = {2}
  MaxPid = 3
  MaxTicks = 1
  MaxIO = 1
INVARIANTS RunningOnOneCpu UniquePids NoOrphans NoOversleep WaiterHasNoZombie FairDraw
  SchedulerWorks
PROPERTIES ZombieIsReapedByParent
CHECK_DEADLOCK FALSE
