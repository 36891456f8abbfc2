--------------------------------- MODULE Switch --------------------------------
(***************************************************************************)
(* Spinlocks, the switch between processes and the scheduler, and traps    *)
(* (P4: spinlock.c, proc.c, trap.c, swtch.S): which thread a processor is  *)
(* on, in the kernel as well, with interrupts on or off.  ProcTable has    *)
(* what the calls do with a table that they hold; here is why they hold    *)
(* it.  Init does not exit, nobody kills it, and pids are slots.           *)
(***************************************************************************)
EXTENDS Integers, Sequences, FiniteSets

CONSTANTS
  NPROC,    \* slots of the table; init has slot 1
  Cpus, Boot,
  Word,     \* ticks wraps, like the uint
  NAP,      \* what sleep is called with
  Behaviour  \* of all processes but init

Slots == 1 .. NPROC
InitProc == 1
Nobody == 0
TicksChan == NPROC + 1       \* wait sleeps on the process
Threads == Slots \cup Cpus   \* the scheduler of a processor has its name

SwitchAssumption ==
  /\ NPROC \in Nat \ {0} /\ Boot \in Cpus /\ Cpus \cap (Slots \cup {Nobody}) = {}
  /\ NAP \in 1 .. Word - 1 /\ Behaviour \subseteq {"fork", "wait", "sleep", "kill", "exit"}

VARIABLES
  ptable,    \* struct proc: state, chan, killed, parent, and whether the slot has a pid
  local,     \* on the kernel stack: intena of sched, ticks0 of sys_sleep, np of fork
  stack,     \* what a thread is in, the innermost last
  on,        \* whose stack the processor uses
  next,      \* p of the loop of its scheduler
  cpu,       \* struct cpu: proc, ncli, intena; and FL_IF: interrupts are on
  spins,     \* the lock that the processor spins for, or "no"
  holder,    \* of a lock: lk->cpu
  ticks,
  panicked

vars == <<ptable, local, stack, on, next, cpu, spins, holder, ticks, panicked>>

Unused == [state |-> "unused", chan |-> Nobody, killed |-> FALSE, parent |-> Nobody, pid |-> FALSE]
NoLocal == [intena |-> FALSE, ticks0 |-> 0, np |-> Nobody]

Init ==
  /\ ptable = [p \in Slots |->
       IF p = InitProc THEN [Unused EXCEPT !.state = "runnable", !.pid = TRUE] ELSE Unused]
  /\ local = [p \in Slots |-> NoLocal]
  /\ stack = [t \in Threads |-> IF t \in Cpus THEN <<"idle">> ELSE <<"forkret">>]
  /\ on = [c \in Cpus |-> c] /\ next = [c \in Cpus |-> 1]
  /\ cpu = [c \in Cpus |-> [proc |-> Nobody, ncli |-> 0, intena |-> FALSE, FL_IF |-> FALSE]]
  /\ spins = [c \in Cpus |-> "no"] /\ holder = [l \in {"ptable", "tickslock"} |-> Nobody]
  /\ ticks = 0 /\ panicked = "no"

State(p) == ptable[p].state
Top(t) == stack[t][Len(stack[t])]
At(c, label) == spins[c] = "no" /\ Top(on[c]) = label
GotoIn(s, t, label) == [s EXCEPT ![t][Len(s[t])] = label]
Goto(c, label) == stack' = GotoIn(stack, on[c], label)

-----------------------------------------------------------------------------
(* spinlock.c                                                              *)

\* pushcli, and whether this processor has the lock already.  Then xchg.
acquire(c, l) ==
  /\ cpu' = [cpu EXCEPT ![c].FL_IF = FALSE, ![c].ncli = @ + 1,
                        ![c].intena = IF cpu[c].ncli = 0 THEN cpu[c].FL_IF ELSE @]
  /\ spins' = [spins EXCEPT ![c] = l]
  /\ panicked' = IF holder[l] = c THEN "acquire" ELSE panicked
  /\ UNCHANGED holder

Xchg(c) ==
  /\ spins[c] # "no" /\ holder[spins[c]] = Nobody
  /\ holder' = [holder EXCEPT ![spins[c]] = c] /\ spins' = [spins EXCEPT ![c] = "no"]
  /\ UNCHANGED <<ptable, local, stack, on, next, cpu, ticks, panicked>>

\* With the intena that sched has put back.
releaseWith(c, l, intena) ==
  /\ holder' = [holder EXCEPT ![l] = Nobody]
  /\ cpu' = [cpu EXCEPT ![c].ncli = @ - 1, ![c].intena = intena,
                        ![c].FL_IF = @ \/ (cpu[c].ncli = 1 /\ intena)]
  /\ panicked' = CASE holder[l] # c -> "release"
                   [] cpu[c].FL_IF -> "popcli - interruptible"
                   [] cpu[c].ncli = 0 -> "popcli"
                   [] OTHER -> panicked
  /\ UNCHANGED spins
release(c, l) == releaseWith(c, l, cpu[c].intena)

-----------------------------------------------------------------------------
(* The switch                                                              *)

\* c gives up the process it is on, which goes on at label.
sched(c, label) ==
  LET p == on[c] IN
  /\ local' = [local EXCEPT ![p].intena = cpu[c].intena]
  /\ stack' = GotoIn(stack, p, label)
  /\ on' = [on EXCEPT ![c] = c]
  /\ panicked' = CASE holder["ptable"] # c -> "sched ptable.lock"
                   [] cpu'[c].ncli # 1 -> "sched locks"
                   [] ptable'[p].state = "running" -> "sched running"
                   [] cpu[c].FL_IF -> "sched interruptible"
                   [] OTHER -> panicked
  /\ UNCHANGED <<next, spins, ticks>>

\* sched leaves the intena that the scheduler found.
NotRestored(c) == cpu[c].intena
\* What sched does when it has the processor again.
Restored(c) == local[on[c]].intena

Sti(c) ==
  /\ At(c, "idle") /\ Goto(c, "lock")
  /\ cpu' = [cpu EXCEPT ![c].FL_IF = TRUE] /\ next' = [next EXCEPT ![c] = 1]
  /\ UNCHANGED <<ptable, local, on, spins, holder, ticks, panicked>>
SchedulerLocks(c) ==
  /\ At(c, "lock") /\ acquire(c, "ptable") /\ Goto(c, "scan")
  /\ UNCHANGED <<ptable, local, on, next, ticks>>

Waiting(c) == {p \in Slots : p >= next[c] /\ State(p) = "runnable"}
Choose(c) ==
  /\ At(c, "scan") /\ Goto(c, "back")
  /\ \E p \in Waiting(c) :
       /\ \A q \in Waiting(c) : p <= q
       /\ cpu' = [cpu EXCEPT ![c].proc = p] /\ on' = [on EXCEPT ![c] = p]
       /\ ptable' = [ptable EXCEPT ![p].state = "running"]
       /\ next' = [next EXCEPT ![c] = p + 1]
  /\ UNCHANGED <<local, spins, holder, ticks, panicked>>
ChooseNone(c) ==
  /\ At(c, "scan") /\ Waiting(c) = {}
  /\ release(c, "ptable") /\ Goto(c, "idle")
  /\ UNCHANGED <<ptable, local, on, next, ticks>>
Back(c) ==
  /\ At(c, "back") /\ Goto(c, "scan")
  /\ cpu' = [cpu EXCEPT ![c].proc = Nobody]
  /\ UNCHANGED <<ptable, local, on, next, spins, holder, ticks, panicked>>

forkret(c) ==
  /\ At(c, "forkret") /\ release(c, "ptable") /\ Goto(c, "return")
  /\ UNCHANGED <<ptable, local, on, next, ticks>>

-----------------------------------------------------------------------------
(* trap                                                                    *)

Calls(p) == IF p = InitProc THEN {"fork", "wait"} ELSE Behaviour
Killed(c) == cpu[c].proc # Nobody /\ ptable[cpu[c].proc].killed

\* A trap gate: interrupts stay on.
Syscall(c) ==
  /\ At(c, "user")
  /\ \E call \in Calls(on[c]) :
       stack' = [stack EXCEPT ![on[c]] = Append(@, IF Killed(c) THEN "exit" ELSE call)]
  /\ UNCHANGED <<ptable, local, on, next, cpu, spins, holder, ticks, panicked>>

\* The user's flags have interrupts on.  A child does not look at killed.
Return(c) ==
  /\ At(c, "return")
  /\ IF Killed(c) /\ Len(stack[on[c]]) > 1 THEN Goto(c, "exit") /\ UNCHANGED cpu
     ELSE /\ stack' = [stack EXCEPT ![on[c]] = <<"user">>]
          /\ cpu' = [cpu EXCEPT ![c].FL_IF = TRUE]
  /\ UNCHANGED <<ptable, local, on, next, spins, holder, ticks, panicked>>

\* The timer, at any instruction with interrupts on.
Interrupt(c) ==
  /\ cpu[c].FL_IF /\ spins[c] = "no"
  /\ cpu' = [cpu EXCEPT ![c].FL_IF = FALSE]
  /\ stack' = [stack EXCEPT ![on[c]] = Append(@, IF c = Boot THEN "tick" ELSE "eoi")]
  /\ UNCHANGED <<ptable, local, on, next, spins, holder, ticks, panicked>>

FromUser(c) == stack[on[c]][Len(stack[on[c]]) - 1] = "user"
MustExit(c) == Killed(c) /\ FromUser(c)
Iret(c) ==
  /\ stack' = [stack EXCEPT ![on[c]] = SubSeq(@, 1, Len(@) - 1)]
  /\ cpu' = [cpu EXCEPT ![c].FL_IF = TRUE]

Tick(c) ==
  /\ At(c, "tick") /\ acquire(c, "tickslock") /\ Goto(c, "count")
  /\ UNCHANGED <<ptable, local, on, next, ticks>>
Count(c) ==
  /\ At(c, "count") /\ ticks' = (ticks + 1) % Word
  /\ acquire(c, "ptable") /\ Goto(c, "wakeup")
  /\ UNCHANGED <<ptable, local, on, next>>
Wakeup1(chans) ==
  [p \in Slots |-> IF State(p) = "sleeping" /\ ptable[p].chan \in chans
                   THEN [ptable[p] EXCEPT !.state = "runnable"] ELSE ptable[p]]
Wakeup(c) ==
  /\ At(c, "wakeup") /\ ptable' = Wakeup1({TicksChan})
  /\ release(c, "ptable") /\ Goto(c, "counted")
  /\ UNCHANGED <<local, on, next, ticks>>
Counted(c) ==
  /\ At(c, "counted") /\ release(c, "tickslock") /\ Goto(c, "eoi")
  /\ UNCHANGED <<ptable, local, on, next, ticks>>

Interrupted(c) == cpu[c].proc # Nobody /\ State(cpu[c].proc) = "running"
Preempt(c) ==
  /\ At(c, "eoi") /\ ~MustExit(c) /\ Interrupted(c)
  /\ acquire(c, "ptable") /\ Goto(c, "yield")
  /\ UNCHANGED <<ptable, local, on, next, ticks>>
Yield(c) ==
  /\ At(c, "yield")
  /\ ptable' = [ptable EXCEPT ![on[c]].state = "runnable"]
  /\ UNCHANGED <<cpu, holder>> /\ sched(c, "yielded")
Yielded(c) ==
  /\ At(c, "yielded") /\ releaseWith(c, "ptable", Restored(c)) /\ Goto(c, "iret")
  /\ UNCHANGED <<ptable, local, on, next, ticks>>
TrapReturns(c) ==
  /\ (At(c, "eoi") /\ ~Interrupted(c)) \/ At(c, "iret")
  /\ ~MustExit(c) /\ Iret(c)
  /\ UNCHANGED <<ptable, local, on, next, spins, holder, ticks, panicked>>
KilledInTrap(c) ==
  /\ At(c, "eoi") \/ At(c, "iret")
  /\ MustExit(c) /\ Goto(c, "exit")
  /\ UNCHANGED <<ptable, local, on, next, cpu, spins, holder, ticks, panicked>>

-----------------------------------------------------------------------------
(* The calls                                                               *)

\* Each begins with acquire.
Entry == [fork |-> "allocproc", wait |-> "scanning", kill |-> "killing", exit |-> "exiting"]
Enter(c) ==
  /\ \E f \in DOMAIN Entry : At(c, f) /\ acquire(c, "ptable") /\ Goto(c, Entry[f])
  /\ UNCHANGED <<ptable, local, on, next, ticks>>

Free == {p \in Slots : State(p) = "unused"}
AllocProc(c) ==
  /\ At(c, "allocproc") /\ release(c, "ptable")
  /\ IF Free = {} THEN Goto(c, "return") /\ UNCHANGED <<ptable, local>>
     ELSE \E np \in Free :
            /\ \A p \in Free : np <= p
            /\ ptable' = [ptable EXCEPT ![np].state = "embryo", ![np].pid = TRUE]
            /\ local' = [local EXCEPT ![on[c]].np = np]
            /\ Goto(c, "copy")
  /\ UNCHANGED <<on, next, ticks>>

np(c) == local[on[c]].np
Made(c) == local' = [local EXCEPT ![on[c]].np = Nobody]
\* No memory: the slot is given back without the lock, and keeps pid and killed.
CopyFails(c) ==
  /\ At(c, "copy") /\ Goto(c, "return") /\ Made(c)
  /\ ptable' = [ptable EXCEPT ![np(c)].state = "unused"]
  /\ UNCHANGED <<on, next, cpu, spins, holder, ticks, panicked>>
Copy(c) ==
  /\ At(c, "copy") /\ acquire(c, "ptable")
  /\ ptable' = [ptable EXCEPT ![np(c)].parent = on[c]]
  /\ stack' = [GotoIn(stack, on[c], "start") EXCEPT ![np(c)] = <<"forkret">>]
  /\ UNCHANGED <<local, on, next, ticks>>
Start(c) ==
  /\ At(c, "start") /\ release(c, "ptable") /\ Goto(c, "return") /\ Made(c)
  /\ ptable' = [ptable EXCEPT ![np(c)].state = "runnable"]
  /\ UNCHANGED <<on, next, ticks>>

Kill(c) ==
  /\ At(c, "killing") /\ release(c, "ptable") /\ Goto(c, "return")
  /\ \E p \in Slots \ {InitProc} :
       ptable' = IF ~ptable[p].pid THEN ptable
                 ELSE [ptable EXCEPT ![p].killed = TRUE,
                         ![p].state = IF @ = "sleeping" THEN "runnable" ELSE @]
  /\ UNCHANGED <<local, on, next, ticks>>

Children(p) == {q \in Slots : ptable[q].parent = p}
Zombies(p) == {q \in Children(p) : State(q) = "zombie"}
Exit(c) ==
  LET p == on[c]
      woken == Wakeup1({ptable[p].parent} \cup (IF Zombies(p) = {} THEN {} ELSE {InitProc}))
  IN
  /\ At(c, "exiting")
  /\ ptable' = [q \in Slots |->
       IF q = p THEN [ptable[p] EXCEPT !.state = "zombie"]
       ELSE [woken[q] EXCEPT !.parent = IF @ = p THEN InitProc ELSE @]]
  /\ UNCHANGED <<cpu, holder>> /\ sched(c, "dead")

\* A parent that the scheduler has left, on a zombie that it has left.
Reap(c) ==
  /\ At(c, "scanning") /\ release(c, "ptable")
  /\ \E q \in Zombies(on[c]) :
       /\ \A r \in Zombies(on[c]) : q <= r
       /\ ptable' = [ptable EXCEPT ![q] = Unused]
       /\ stack' = [GotoIn(stack, on[c], "return") EXCEPT ![q] = <<"forkret">>]
       /\ local' = [local EXCEPT ![q] = NoLocal]
  /\ UNCHANGED <<on, next, ticks>>
NoneToWaitFor(c) ==
  /\ At(c, "scanning") /\ Zombies(on[c]) = {}
  /\ ptable[on[c]].killed \/ Children(on[c]) = {}
  /\ release(c, "ptable") /\ Goto(c, "return")
  /\ UNCHANGED <<ptable, local, on, next, ticks>>

Asleep(p, ch) == [ptable EXCEPT ![p].chan = ch, ![p].state = "sleeping"]
\* sleep with the lock of the table.
WaitSleeps(c) ==
  /\ At(c, "scanning") /\ Zombies(on[c]) = {}
  /\ ~ptable[on[c]].killed /\ Children(on[c]) # {}
  /\ ptable' = Asleep(on[c], on[c])
  /\ UNCHANGED <<cpu, holder>> /\ sched(c, "awake")
WaitAwakes(c) ==
  /\ At(c, "awake") /\ Goto(c, "scanning")
  /\ ptable' = [ptable EXCEPT ![on[c]].chan = Nobody]
  /\ cpu' = [cpu EXCEPT ![c].intena = Restored(c)]
  /\ UNCHANGED <<local, on, next, spins, holder, ticks, panicked>>

\* sys_sleep; then the lock is that of ticks.
SysSleep(c) ==
  /\ At(c, "sleep") /\ acquire(c, "tickslock") /\ Goto(c, "ticks0")
  /\ UNCHANGED <<ptable, local, on, next, ticks>>
Ticks0(c) ==
  /\ At(c, "ticks0") /\ Goto(c, "napping")
  /\ local' = [local EXCEPT ![on[c]].ticks0 = ticks]
  /\ UNCHANGED <<ptable, on, next, cpu, spins, holder, ticks, panicked>>
Due(p) == (ticks - local[p].ticks0) % Word >= NAP
NapEnds(c) ==
  /\ At(c, "napping") /\ (Due(on[c]) \/ ptable[on[c]].killed)
  /\ release(c, "tickslock") /\ Goto(c, "return")
  /\ local' = [local EXCEPT ![on[c]].ticks0 = 0]
  /\ UNCHANGED <<ptable, on, next, ticks>>
NapLocks(c) ==
  /\ At(c, "napping") /\ ~Due(on[c]) /\ ~ptable[on[c]].killed
  /\ acquire(c, "ptable") /\ Goto(c, "unlock")
  /\ UNCHANGED <<ptable, local, on, next, ticks>>
NapSleeps(c) ==
  /\ At(c, "unlock")
  /\ holder' = [holder EXCEPT !["tickslock"] = Nobody]
  /\ cpu' = [cpu EXCEPT ![c].ncli = @ - 1]
  /\ ptable' = Asleep(on[c], TicksChan)
  /\ sched(c, "rested")
NapAwakes(c) ==
  /\ At(c, "rested") /\ Goto(c, "relock") /\ releaseWith(c, "ptable", Restored(c))
  /\ ptable' = [ptable EXCEPT ![on[c]].chan = Nobody]
  /\ UNCHANGED <<local, on, next, ticks>>
NapRelocks(c) ==
  /\ At(c, "relock") /\ acquire(c, "tickslock") /\ Goto(c, "napping")
  /\ UNCHANGED <<ptable, local, on, next, ticks>>

Scheduler(c) ==
  Sti(c) \/ SchedulerLocks(c) \/ Choose(c) \/ ChooseNone(c) \/ Back(c) \/ forkret(c)
Trap(c) ==
  \/ Interrupt(c) \/ Tick(c) \/ Count(c) \/ Wakeup(c) \/ Counted(c) \/ Preempt(c) \/ Yield(c)
  \/ Yielded(c) \/ TrapReturns(c) \/ KilledInTrap(c) \/ Syscall(c) \/ Return(c)
Call(c) ==
  \/ Enter(c) \/ AllocProc(c) \/ CopyFails(c) \/ Copy(c) \/ Start(c) \/ Kill(c) \/ Exit(c)
  \/ Reap(c) \/ NoneToWaitFor(c) \/ WaitSleeps(c) \/ WaitAwakes(c)
  \/ SysSleep(c) \/ Ticks0(c) \/ NapEnds(c) \/ NapLocks(c) \/ NapSleeps(c) \/ NapAwakes(c)
  \/ NapRelocks(c)
Next == panicked = "no" /\ \E c \in Cpus : Xchg(c) \/ Scheduler(c) \/ Trap(c) \/ Call(c)
Spec == Init /\ [][Next]_vars

-----------------------------------------------------------------------------
(* Properties                                                              *)

Held(c) == Cardinality({l \in DOMAIN holder : holder[l] = c})
Handlers == {"tick", "count", "wakeup", "counted", "eoi", "yield", "yielded", "iret"}
Unlocked == holder["ptable"] = Nobody

\* None of the kernel's panics comes (spinlock.c:29-122, proc.c:290-401), a
\* processor with interrupts on holds no lock and ncli counts those it has, so
\* that no handler waits for what it interrupted; two processors never use one
\* kernel stack, nor one that wait frees: whoever gives up a process holds the
\* table until the scheduler is off its stack (proc.c:381-405).
StacksApart ==
  /\ panicked = "no"
  /\ \A c \in Cpus :
       /\ cpu[c].FL_IF => Held(c) = 0
       /\ cpu[c].ncli = Held(c) + (IF spins[c] = "no" THEN 0 ELSE 1)
       /\ \A d \in Cpus : on[c] = on[d] => c = d
  /\ Unlocked => \A p \in Slots : (State(p) = "running") = (\E c \in Cpus : on[c] = p)

\* "intena is a property of this kernel thread, not this CPU" (proc.c:383): a
\* handler that yields and comes back, on any processor, still has interrupts
\* off, so that interrupts do not pile up on a stack.
InterruptsDoNotNest ==
  \A t \in Threads : Cardinality({k \in DOMAIN stack[t] : stack[t][k] \in Handlers}) <= 1

\* "we won't miss any wakeup" (proc.c:453-456), and two who take both locks do
\* not wait for each other.
NobodyStuck ==
  /\ \E c \in Cpus : spins[c] = "no" \/ holder[spins[c]] = Nobody
  /\ \A p \in Slots : Unlocked /\ State(p) = "sleeping" =>
       IF ptable[p].chan = TicksChan
       THEN Due(p) => \E c \in Cpus : At(c, "wakeup") \/ spins[c] = "ptable"
       ELSE Zombies(p) = {}
=============================================================================
