------------------------------- MODULE MCLottery -------------------------------
(* Two instances of ProcTable for TLC: fork, exit, wait and kill on two    *)
(* processors; and sleep, disk waits and tickets while the second processor*)
(* stands still.  The scheduler tests on one processor, with four slots.   *)
(* And Switch: two processes on two processors, three on one.              *)
EXTENDS ProcTable

CONSTANTS c0, c1
VARIABLES part, test, code, pos, ran, failed
Life == INSTANCE ProcTable WITH
  Word <- 64, TicketArgs <- {}, SleepArgs <- {}, KillArgs <- {1, 2},
  SetArgs <- {}, MaxPid <- 4, MaxTicks <- 1, MaxIO <- 0
Tests == INSTANCE SchedTests WITH
  NPROC <- 4, Word <- 64, TicketArgs <- {2, 5, 10}, SleepArgs <- {2},
  KillArgs <- {3, 4}, SetArgs <- 1 .. 4, MaxPid <- 5, MaxTicks <- 3, MaxIO <- 0

VARIABLES ptable, local, stack, on, next, kcpu, spins, holder, kticks, halted
switchVars == <<ptable, local, stack, on, next, kcpu, spins, holder, kticks, halted>>
Two == INSTANCE Switch WITH
  NPROC <- 2, Cpus <- {c0, c1}, Boot <- c0, Word <- 2, NAP <- 1,
  Behaviour <- {"fork", "wait", "sleep", "kill", "exit"}, cpu <- kcpu, ticks <- kticks,
  panicked <- halted
Three == INSTANCE Switch WITH
  NPROC <- 3, Cpus <- {c0}, Boot <- c0, Word <- 2, NAP <- 1,
  Behaviour <- {"wait", "sleep", "exit"}, cpu <- kcpu, ticks <- kticks, panicked <- halted
ASSUME Two!SwitchAssumption /\ Three!SwitchAssumption

testVars == <<test, code, pos, ran, failed>>

NoTest == test = "" /\ code = 0 /\ pos = 0 /\ ran = 0 /\ failed = FALSE
NoSwitch == /\ ptable = 0 /\ local = 0 /\ stack = 0 /\ on = 0 /\ next = 0 /\ kcpu = 0
            /\ spins = 0 /\ holder = 0 /\ kticks = 0 /\ halted = 0
LotteryInit ==
  \/ part \in {"life", "sleep"} /\ Init /\ NoTest /\ NoSwitch
  \/ part = "tests" /\ Tests!Started /\ Tests!TestsInit /\ NoSwitch
  \/ part = "two" /\ Two!Init /\ Init /\ NoTest
  \/ part = "three" /\ Three!Init /\ Init /\ NoTest
LotteryNext ==
  /\ UNCHANGED part
  /\ \/ part = "life" /\ Life!Next /\ UNCHANGED <<testVars, switchVars>>
     \/ part = "sleep" /\ Next /\ cpu'[c1] = 0 /\ UNCHANGED <<testVars, switchVars>>
     \/ part = "tests" /\ Tests!TestsNext /\ UNCHANGED switchVars
     \/ part = "two" /\ Two!Next /\ UNCHANGED <<vars, testVars>>
     \/ part = "three" /\ Three!Next /\ UNCHANGED <<vars, testVars>>
LotterySpec == LotteryInit /\ [][LotteryNext]_<<part, vars, testVars, switchVars>>

\* What the table rests on and what stands on it: stacks and locks of one
\* processor at a time, interrupts that do not nest, no sleep past a wakeup
\* (see Switch); and the scheduler tests see what they insist on and are let
\* out of wait (see SchedTests).
SchedulerWorks ==
  /\ part = "two" => Two!StacksApart /\ Two!InterruptsDoNotNest /\ Two!NobodyStuck
  /\ part = "three" => Three!StacksApart /\ Three!InterruptsDoNotNest /\ Three!NobodyStuck
  /\ part = "tests" => Tests!TestsPass
=============================================================================
