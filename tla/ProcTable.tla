------------------------------ MODULE ProcTable ------------------------------
(***************************************************************************)
(* The process table of the lottery-scheduled xv6 kernel (P2A): the life   *)
(* of a process from fork to wait, sleep and wakeup, kill, the lottery,    *)
(* the timer.  Every critical section under ptable.lock is one action; a   *)
(* system call that leaves the lock is several, with loc[p] as the place   *)
(* where the kernel thread of p goes on.  A disk request stands for every  *)
(* wait for a device (iderw's loop).                                       *)
(***************************************************************************)
EXTENDS Integers, FiniteSets, FiniteSetsExt

CONSTANTS
  NPROC,       \* number of slots of ptable.proc (64 in param.h)
  CPUs,        \* the processors
  BootCpu,     \* the processor with cpuid() = 0, which counts ticks
  Word,        \* 2^w for the kernel's w-bit int (w = 32)
  TicketArgs,  \* n_tickets that user programs pass to settickets
  SleepArgs,   \* n that user programs pass to sleep
  KillArgs,    \* pids that user programs pass to kill
  SetArgs,     \* pids that user programs pass to settickets
  MaxPid,      \* bound: fork is called while nextpid <= MaxPid
  MaxTicks,    \* bound: the timer runs on past it only while someone sleeps
  MaxIO        \* bound: disk requests issued

ASSUME TableAssumption ==
  /\ NPROC \in Nat \ {0}
  /\ BootCpu \in CPUs
  /\ Word \in Nat \ {0}
  /\ TicketArgs \subseteq Nat \ {0}   \* sys_settickets rejects the others
  /\ SleepArgs \subseteq Int
  /\ KillArgs \subseteq Int
  /\ SetArgs \subseteq Nat
  /\ MaxPid \in Nat /\ MaxTicks \in Nat /\ MaxIO \in Nat

VARIABLES
  proc,      \* ptable.proc: the fields of each slot
  cpu,       \* c->proc, 0 when the processor is in its scheduler loop
  trapping,  \* processors inside trap() for a timer interrupt, before yield
  nextpid,
  ticks,
  loc,       \* where the kernel thread of a slot continues
  np,        \* fork's local np, 0 outside fork
  disk,      \* slots whose disk request the device has not completed
  ios,       \* disk requests issued so far (counted for the bound only)
  panicked,  \* the message of the panic that stopped the kernel, "" if none
  due        \* history: tick at which the sleep() in progress must be over

vars == <<proc, cpu, trapping, nextpid, ticks, loc, np, disk, ios, panicked,
          due>>

Slots == 1 .. NPROC
initproc == 1

States == {"UNUSED", "EMBRYO", "SLEEPING", "RUNNABLE", "RUNNING", "ZOMBIE"}
Locs == {"user", "fork", "stack", "copy", "wait", "sleep", "slept", "io",
         "exit", "exitio"}

\* Sleep channels: an address of the kernel identifies one.
NoChan == <<"none", 0>>
TicksChan == <<"ticks", 0>>
ProcChan(p) == <<"proc", p>>
DiskChan(p) == <<"disk", p>>
Chans == ({"none", "ticks"} \X {0}) \cup ({"proc", "disk"} \X Slots)

Procs == [state : States, pid : Nat, parent : 0 .. NPROC, chan : Chans,
          killed : BOOLEAN, ticket : Nat, boostsleft : Nat,
          sleepTicks : Int, sleepTicksCount : Nat]

TypeOK ==
  /\ proc \in [Slots -> Procs]
  /\ cpu \in [CPUs -> 0 .. NPROC]
  /\ trapping \subseteq CPUs
  /\ nextpid \in Nat
  /\ ticks \in Nat
  /\ loc \in [Slots -> Locs]
  /\ np \in [Slots -> 0 .. NPROC]
  /\ disk \subseteq Slots
  /\ ios \in Nat
  /\ panicked \in {"", "init exiting", "switchuvm: no process"}
  /\ due \in [Slots -> Int]

-----------------------------------------------------------------------------
(* A slot of the zeroed table, and the state userinit leaves.              *)

Zeroed == [state |-> "UNUSED", pid |-> 0, parent |-> 0, chan |-> NoChan,
           killed |-> FALSE, ticket |-> 0, boostsleft |-> 0,
           sleepTicks |-> 0, sleepTicksCount |-> 0]

Init ==
  /\ proc = [p \in Slots |->
               IF p = initproc
               THEN [Zeroed EXCEPT !.state = "RUNNABLE", !.pid = 1, !.ticket = 1]
               ELSE Zeroed]
  /\ cpu = [c \in CPUs |-> 0]
  /\ trapping = {}
  /\ nextpid = 2
  /\ ticks = 0
  /\ loc = [p \in Slots |-> "user"]
  /\ np = [p \in Slots |-> 0]
  /\ disk = {}
  /\ ios = 0
  /\ panicked = ""
  /\ due = [p \in Slots |-> 0]

\* The processor that executes p executes p's own code, not trap().
Executes(c, p) == cpu[c] = p /\ c \notin trapping
Running(p) == \E c \in CPUs : Executes(c, p)
Offcpu(p) == [c \in CPUs |-> IF cpu[c] = p THEN 0 ELSE cpu[c]]

-----------------------------------------------------------------------------
(* sleep and wakeup                                                        *)

\* The calls of wakeup1 after which a sleeper's count reaches its sleepTicks.
CallsLate(f) ==
  LET missing == f.sleepTicks - f.sleepTicksCount
  IN  IF missing < 0 THEN 1 ELSE missing + 1
Calls(f) ==
  LET missing == f.sleepTicks - f.sleepTicksCount
  IN  IF missing < 1 THEN 1 ELSE missing

Woken(f) ==
  [f EXCEPT !.state = "RUNNABLE", !.boostsleft = @ + Calls(f),
            !.sleepTicks = 0, !.sleepTicksCount = 0]

\* n calls of wakeup1(ch) in a row on the table t: every call credits every
\* sleeper, whatever its channel, and a sleeper on ch becomes RUNNABLE in
\* the call that brings its count up to its sleepTicks.
Wakeup1(t, ch, n) ==
  [q \in Slots |->
    IF t[q].state # "SLEEPING" THEN t[q]
    ELSE IF t[q].chan = ch /\ Calls(t[q]) <= n THEN Woken(t[q])
    ELSE [t[q] EXCEPT !.boostsleft = @ + n, !.sleepTicksCount = @ + n]]

\* sleep(ch, lk) up to sched(): p leaves its processor asleep on ch.
SleepOn(p, ch) ==
  /\ proc' = [proc EXCEPT ![p].chan = ch, ![p].state = "SLEEPING"]
  /\ cpu' = Offcpu(p)

\* A system call of p ends; trap() makes a killed process exit.
Return(p, t) ==
  loc' = [loc EXCEPT ![p] = IF t[p].killed THEN "exit" ELSE "user"]

-----------------------------------------------------------------------------
(* The lottery                                                             *)

Runnable == {p \in Slots : proc[p].state = "RUNNABLE"}

Weight(p) == IF proc[p].boostsleft > 0 THEN 2 * proc[p].ticket
                                       ELSE proc[p].ticket

\* hold_lottery takes a boost from every boosted runnable process, the
\* winner or not.
Unboost(q) ==
  IF q \in Runnable /\ proc[q].boostsleft > 0
  THEN [proc[q] EXCEPT !.boostsleft = @ - 1] ELSE proc[q]

\* The sum of the weights of the runnable slots up to p, as a w-bit word.
Count(p) == MapThenSumSet(Weight, {q \in Runnable : q <= p}) % Word

\* total_tickets, as the signed int it is.
TotalTickets == LET u == Count(NPROC) IN IF 2 * u >= Word THEN u - Word ELSE u

\* Slot p is the first runnable one whose count exceeds the number drawn.
WinsEarly(p, n) == /\ p \in Runnable
                   /\ Count(p) >= n
                   /\ \A q \in Runnable : q < p => Count(q) < n
Wins(p, n) == /\ p \in Runnable
              /\ Count(p) > n
              /\ \A q \in Runnable : q < p => Count(q) <= n

\* The winner resumes inside sched(); a sleeper clears its chan before it
\* lets ptable.lock go.
Schedule(c) ==
  /\ cpu[c] = 0
  /\ TotalTickets > 0
  /\ \E n \in 0 .. TotalTickets - 1 : \E p \in Runnable :
       /\ Wins(p, n)
       /\ proc' = [q \in Slots |->
            IF q = p
            THEN [Unboost(q) EXCEPT !.state = "RUNNING", !.chan = NoChan]
            ELSE Unboost(q)]
       /\ cpu' = [cpu EXCEPT ![c] = p]
  /\ UNCHANGED <<trapping, nextpid, ticks, loc, np, disk, ios, panicked, due>>

\* A negative total makes hold_lottery return 0, and switchuvm(0) panics.
SchedulePanic(c) ==
  /\ cpu[c] = 0
  /\ TotalTickets < 0
  /\ panicked' = "switchuvm: no process"
  /\ UNCHANGED <<proc, cpu, trapping, nextpid, ticks, loc, np, disk, ios, due>>

-----------------------------------------------------------------------------
(* The timer                                                               *)

Sleepers == {p \in Slots : proc[p].state = "SLEEPING"
                           /\ proc[p].chan = TicksChan}

\* The timer interrupt: processor 0 counts the tick and wakes the sleepers
\* on it; every processor that interrupted a process goes on to yield().
TimerIntr(c) ==
  /\ c \notin trapping
  /\ \/ /\ c = BootCpu
        /\ ticks < MaxTicks \/ Sleepers # {}   \* bound
        /\ ticks' = ticks + 1
        /\ proc' = Wakeup1(proc, TicksChan, 1)
     \/ /\ c # BootCpu
        /\ cpu[c] # 0
        /\ UNCHANGED <<ticks, proc>>
  /\ trapping' = IF cpu[c] = 0 THEN trapping ELSE trapping \cup {c}
  /\ UNCHANGED <<cpu, nextpid, loc, np, disk, ios, panicked, due>>

\* The end of trap(): a killed process in user space exits, another yields.
Yield(c) ==
  /\ c \in trapping
  /\ trapping' = trapping \ {c}
  /\ LET p == cpu[c] IN
       IF proc[p].killed /\ loc[p] = "user"
       THEN /\ loc' = [loc EXCEPT ![p] = "exit"]
            /\ UNCHANGED <<proc, cpu>>
       ELSE /\ proc' = [proc EXCEPT ![p].state = "RUNNABLE"]
            /\ cpu' = [cpu EXCEPT ![c] = 0]
            /\ UNCHANGED loc
  /\ UNCHANGED <<nextpid, ticks, np, disk, ios, panicked, due>>

-----------------------------------------------------------------------------
(* System calls, made by a process that runs in user space                 *)

InUser(p) == Running(p) /\ loc[p] = "user" /\ ~proc[p].killed

\* What user programs call; init neither exits nor sleeps (init.c).
SysCalls(p) ==
  (IF nextpid <= MaxPid THEN {"fork"} ELSE {}) \cup {"wait"}
    \cup (IF p # initproc THEN {"exit"} ELSE {})
    \cup (IF p # initproc /\ SleepArgs # {} /\ ticks < MaxTicks
            THEN {"sleep"} ELSE {})
    \cup (IF ios < MaxIO THEN {"io"} ELSE {})

\* trap() looks at killed on the way in; the body of the call comes later.
Enter(p) ==
  /\ InUser(p)
  /\ \E call \in SysCalls(p) :
       /\ loc' = [loc EXCEPT ![p] = call]
       /\ IF call = "io" THEN disk' = disk \cup {p} /\ ios' = ios + 1
                         ELSE UNCHANGED <<disk, ios>>
  /\ UNCHANGED <<proc, cpu, trapping, nextpid, ticks, np, panicked, due>>

\* A killed process exits when it next traps; a fault in user space kills.
Trap(p) ==
  /\ Running(p) /\ loc[p] = "user"
  /\ \/ proc[p].killed /\ UNCHANGED proc
     \/ p # initproc /\ proc' = [proc EXCEPT ![p].killed = TRUE]
  /\ loc' = [loc EXCEPT ![p] = "exit"]
  /\ UNCHANGED <<cpu, trapping, nextpid, ticks, np, disk, ios, panicked, due>>

\* The first slot that satisfies the search of kill and settickets.
FirstWithPid(x, q) ==
  /\ proc[q].pid = x
  /\ \A r \in Slots : r < q => proc[r].pid # x

\* "Wake process from sleep if necessary."
KillStateAny(s) == IF s \in {"UNUSED", "EMBRYO", "ZOMBIE"} THEN s ELSE "RUNNABLE"
KillStateZombie(s) == IF s \in {"SLEEPING", "ZOMBIE"} THEN "RUNNABLE" ELSE s
KillState(s) == IF s = "SLEEPING" THEN "RUNNABLE" ELSE s

\* kill looks at no state: a slot that is UNUSED or EMBRYO is marked too.
Kill(p) ==
  /\ InUser(p)
  /\ \E x \in KillArgs, q \in Slots :
       /\ FirstWithPid(x, q)
       /\ LET t == [proc EXCEPT ![q].killed = TRUE,
                                ![q].state = KillState(@)]
          IN  proc' = t /\ Return(p, t)
  /\ UNCHANGED <<cpu, trapping, nextpid, ticks, np, disk, ios, panicked, due>>

Settickets(p) ==
  /\ InUser(p)
  /\ \E x \in SetArgs, n \in TicketArgs, q \in Slots :
       /\ FirstWithPid(x, q)
       /\ proc' = [proc EXCEPT ![q].ticket = n]
  /\ UNCHANGED <<cpu, trapping, nextpid, ticks, loc, np, disk, ios, panicked,
                 due>>

-----------------------------------------------------------------------------
(* fork: allocproc under the lock, then the stack, then the copy           *)

At(p, l) == Running(p) /\ loc[p] = l

\* p->pid = nextpid++
SamePid(n) == n
PidAfter(n) == n + 1

AllocProc(p) ==
  /\ At(p, "fork")
  /\ LET free == {q \in Slots : proc[q].state = "UNUSED"} IN
       \/ /\ free = {}
          /\ Return(p, proc)
          /\ UNCHANGED <<proc, nextpid, np>>
       \/ \E q \in free :
            /\ \A r \in free : q <= r
            /\ proc' = [proc EXCEPT ![q].state = "EMBRYO", ![q].pid = nextpid]
            /\ nextpid' = PidAfter(nextpid)
            /\ np' = [np EXCEPT ![p] = q]
            /\ loc' = [loc EXCEPT ![p] = "stack"]
  /\ UNCHANGED <<cpu, trapping, ticks, disk, ios, panicked, due>>

\* fork gives up: the slot is UNUSED again and keeps its pid.
ForkFails(p) ==
  /\ proc' = [proc EXCEPT ![np[p]].state = "UNUSED"]
  /\ np' = [np EXCEPT ![p] = 0]
  /\ Return(p, proc)

AllocStack(p) ==
  /\ At(p, "stack")
  /\ \/ ForkFails(p)   \* kalloc found no page
     \/ /\ proc' = [proc EXCEPT ![np[p]].ticket = 1,
                                ![np[p]].boostsleft = 0,
                                ![np[p]].sleepTicks = 0,
                                ![np[p]].sleepTicksCount = 0]
        /\ loc' = [loc EXCEPT ![p] = "copy"]
        /\ UNCHANGED np
  /\ UNCHANGED <<cpu, trapping, nextpid, ticks, disk, ios, panicked, due>>

CopyProc(p) ==
  /\ At(p, "copy")
  /\ \/ ForkFails(p)   \* copyuvm found no page
     \/ /\ proc' = [proc EXCEPT ![np[p]].parent = p,
                                ![np[p]].ticket = proc[p].ticket,
                                ![np[p]].state = "RUNNABLE"]
        /\ loc' = [loc EXCEPT ![p] = IF proc[p].killed THEN "exit" ELSE "user",
                              ![np[p]] = "user"]
        /\ np' = [np EXCEPT ![p] = 0]
  /\ UNCHANGED <<cpu, trapping, nextpid, ticks, disk, ios, panicked, due>>

-----------------------------------------------------------------------------
(* sleep(n): one sleep on &ticks, no loop around it                        *)

SysSleep(p) ==
  /\ At(p, "sleep")
  /\ \E n \in SleepArgs :
       /\ proc' = [proc EXCEPT ![p].sleepTicks = n, ![p].chan = TicksChan,
                               ![p].state = "SLEEPING"]
       /\ due' = [due EXCEPT ![p] = ticks + (IF n < 1 THEN 1 ELSE n)]
  /\ cpu' = Offcpu(p)
  /\ loc' = [loc EXCEPT ![p] = "slept"]
  /\ UNCHANGED <<trapping, nextpid, ticks, np, disk, ios, panicked>>

SleepReturns(p) ==
  /\ At(p, "slept")
  /\ Return(p, proc)
  /\ UNCHANGED <<proc, cpu, trapping, nextpid, ticks, np, disk, ios, panicked,
                 due>>

-----------------------------------------------------------------------------
(* A wait for the disk: while(not done) sleep(b, &idelock)                 *)

DiskWait(p) ==
  /\ \E l \in {"io", "exitio"} : At(p, l)
  /\ \/ /\ p \in disk
        /\ SleepOn(p, DiskChan(p))
        /\ UNCHANGED loc
     \/ /\ p \notin disk
        /\ loc[p] = "io"
        /\ Return(p, proc)
        /\ UNCHANGED <<proc, cpu>>
  /\ UNCHANGED <<trapping, nextpid, ticks, np, disk, ios, panicked, due>>

\* ideintr: the request is done, its sleeper is woken under idelock.
DiskIntr(p) ==
  /\ p \in disk
  /\ disk' = disk \ {p}
  /\ proc' = Wakeup1(proc, DiskChan(p), 1)
  /\ UNCHANGED <<cpu, trapping, nextpid, ticks, loc, np, ios, panicked, due>>

-----------------------------------------------------------------------------
(* exit and wait                                                           *)

\* exit closes files and the working directory, which may use the disk.
ExitIO(p) ==
  /\ At(p, "exit") /\ p # initproc
  /\ ios < MaxIO
  /\ ios' = ios + 1
  /\ disk' = disk \cup {p}
  /\ loc' = [loc EXCEPT ![p] = "exitio"]
  /\ UNCHANGED <<proc, cpu, trapping, nextpid, ticks, np, panicked, due>>

Zombies(parent) == {q \in Slots : proc[q].parent = parent
                                  /\ proc[q].state = "ZOMBIE"}

\* "Parent might be sleeping in wait()."
OwnChan(p) == ProcChan(p)
WaitChan(p) == ProcChan(proc[p].parent)

\* "Pass abandoned children to init", after one wakeup1(initproc) for each
\* of them that is a zombie.
PassLiving(p, t) ==
  [q \in Slots |-> IF t[q].parent = p /\ t[q].state # "ZOMBIE"
                   THEN [t[q] EXCEPT !.parent = initproc] ELSE t[q]]
PassChildren(p, t) ==
  LET n     == Cardinality(Zombies(p))
      woken == IF n = 0 THEN t ELSE Wakeup1(t, ProcChan(initproc), n)
  IN  [q \in Slots |-> IF t[q].parent = p
                       THEN [woken[q] EXCEPT !.parent = initproc] ELSE woken[q]]

\* The rest of exit, under ptable.lock.
Exit(p) ==
  /\ At(p, "exit") \/ (At(p, "exitio") /\ p \notin disk)
  /\ p # initproc
  /\ proc' = [PassChildren(p, Wakeup1(proc, WaitChan(p), 1))
                EXCEPT ![p].state = "ZOMBIE"]
  /\ cpu' = Offcpu(p)
  /\ UNCHANGED <<trapping, nextpid, ticks, loc, np, disk, ios, panicked, due>>

ExitPanic ==
  /\ At(initproc, "exit")
  /\ panicked' = "init exiting"
  /\ UNCHANGED <<proc, cpu, trapping, nextpid, ticks, loc, np, disk, ios, due>>

Reaped(f) ==
  [f EXCEPT !.pid = 0, !.parent = 0, !.killed = FALSE, !.state = "UNUSED"]

\* One turn of wait()'s loop: reap the first zombie child, give up, or sleep.
Wait(p) ==
  /\ At(p, "wait")
  /\ \/ \E q \in Zombies(p) :
          /\ \A r \in Zombies(p) : q <= r
          /\ proc' = [proc EXCEPT ![q] = Reaped(@)]
          /\ Return(p, proc)
          /\ UNCHANGED cpu
     \/ /\ Zombies(p) = {}
        /\ proc[p].killed \/ \A q \in Slots : proc[q].parent # p
        /\ Return(p, proc)
        /\ UNCHANGED <<proc, cpu>>
     \/ /\ Zombies(p) = {}
        /\ ~proc[p].killed
        /\ \E q \in Slots : proc[q].parent = p
        /\ SleepOn(p, ProcChan(p))
        /\ UNCHANGED loc
  /\ UNCHANGED <<trapping, nextpid, ticks, np, disk, ios, panicked, due>>

-----------------------------------------------------------------------------
Step(p) ==
  \/ Enter(p) \/ Trap(p) \/ Kill(p) \/ Settickets(p)
  \/ AllocProc(p) \/ AllocStack(p) \/ CopyProc(p)
  \/ SysSleep(p) \/ SleepReturns(p) \/ DiskWait(p)
  \/ ExitIO(p) \/ Exit(p) \/ Wait(p)

Next ==
  /\ panicked = ""
  /\ \/ \E p \in Slots : Step(p) \/ DiskIntr(p)
     \/ \E c \in CPUs : Schedule(c) \/ SchedulePanic(c) \/ TimerIntr(c) \/ Yield(c)
     \/ ExitPanic

Spec == Init /\ [][Next]_vars

-----------------------------------------------------------------------------
(* Properties                                                              *)

Alive(p) == proc[p].state \in {"SLEEPING", "RUNNABLE", "RUNNING"}

\* The scheduler runs a process on one processor at a time: a processor's
\* process is RUNNING, no two processors share one, and no process is
\* RUNNING without a processor (scheduler, yield, sleep and exit hand
\* p->state and c->proc over together).
RunningOnOneCpu ==
  /\ \A p \in Slots : proc[p].state = "RUNNING" <=> \E c \in CPUs : cpu[c] = p
  /\ \A c, d \in CPUs : cpu[c] = cpu[d] /\ cpu[c] # 0 => c = d

\* allocproc never hands out a pid that another slot in use still has.
UniquePids ==
  \A p, q \in Slots :
    /\ proc[p].state # "UNUSED" => proc[p].pid < nextpid
    /\ p # q /\ proc[p].state # "UNUSED" /\ proc[q].state # "UNUSED"
         => proc[p].pid # proc[q].pid

\* exit leaves nobody without a parent that can still call wait(): the
\* parent of every process and zombie but init is a live process.
NoOrphans ==
  \A p \in Slots \ {initproc} :
    Alive(p) \/ proc[p].state = "ZOMBIE" =>
      proc[p].parent \in Slots /\ Alive(proc[p].parent)

\* No lost wakeup between exit and wait: a process asleep in wait() has no
\* zombie child, although kill leaves other sleepers' counters behind.
WaiterHasNoZombie ==
  \A p \in Slots : proc[p].state = "SLEEPING" /\ proc[p].chan = ProcChan(p)
                     => Zombies(p) = {}

\* Nobody but the parent, inside wait(), takes a process out of ZOMBIE: not
\* a kill of its pid, not a wakeup, not the scheduler.
ZombieIsReapedByParent ==
  [][\A q \in Slots :
       proc[q].state = "ZOMBIE" /\ proc'[q].state # "ZOMBIE"
         => /\ proc'[q].state = "UNUSED"
            /\ At(proc[q].parent, "wait")]_vars

\* hold_lottery draws fairly: as long as the tickets add up to an int, the
\* numbers that can be drawn let every runnable process win as many of them
\* as it has tickets, twice as many when it is boosted, and every number has
\* a winner (the two loops that add up tickets agree).
FairDraw ==
  2 * MapThenSumSet(Weight, Runnable) < Word =>
    /\ \A p \in Runnable :
         Cardinality({n \in 0 .. TotalTickets - 1 : Wins(p, n)}) = Weight(p)
    /\ \A n \in 0 .. TotalTickets - 1 : \E p \in Runnable : Wins(p, n)

\* The sleeping process is made runnable by its last tick at the latest,
\* whatever else is woken up meanwhile and whatever kill left behind.
NoOversleep ==
  \A p \in Slots : proc[p].state = "SLEEPING" /\ loc[p] = "slept"
                     => ticks < due[p]

\* "Wake up all processes sleeping on chan": nobody still sleeps on a disk
\* request that ideintr has completed and woken up (proc.c:555).
WakeupWakesAll ==
  \A p \in Slots : proc[p].state = "SLEEPING" /\ proc[p].chan = DiskChan(p)
                     => p \in disk

-----------------------------------------------------------------------------
(* The inductive invariant behind the safety properties                    *)

Forking(p) == loc[p] \in {"stack", "copy"}

\* The EMBRYO between allocproc and the end of fork belongs to one caller.
ForkInv ==
  /\ \A p \in Slots : Forking(p) => np[p] \in Slots
                                    /\ proc[np[p]].state = "EMBRYO"
  /\ \A p, q \in Slots : Forking(p) /\ Forking(q) /\ np[p] = np[q] => p = q

TrapInv == \A c \in trapping : cpu[c] # 0

IInv == /\ TypeOK /\ RunningOnOneCpu /\ TrapInv /\ ForkInv
        /\ Alive(initproc) /\ NoOrphans /\ UniquePids

\* Only kill leaves sleepTicks behind, and whoever it hits never sleeps in
\* wait() again: so one wakeup is enough there.  A sleep() in progress needs
\* no more calls of wakeup1 than there are ticks left to make them.
SleepInv ==
  /\ proc[initproc].parent = 0 /\ \A p \in Slots : proc[p].parent # p
  /\ \A p \in Slots :
       /\ proc[p].state \in {"RUNNABLE", "RUNNING"} /\ ~proc[p].killed
            => proc[p].sleepTicks = 0
       /\ proc[p].state = "SLEEPING" /\ proc[p].chan = ProcChan(p)
            => proc[p].sleepTicks = 0 /\ Zombies(p) = {}
       /\ proc[p].state = "SLEEPING" /\ loc[p] = "slept"
            => proc[p].chan = TicksChan /\ ticks + Calls(proc[p]) <= due[p]
       /\ loc[p] = "copy" => proc[np[p]].sleepTicks = 0

=============================================================================
