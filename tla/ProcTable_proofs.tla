--------------------------- MODULE ProcTable_proofs ---------------------------
(* Theorems of ProcTable, for every table size and number of processors.   *)
EXTENDS ProcTable, FiniteSetTheorems, TLAPS

-----------------------------------------------------------------------------
(* The helpers: what they leave alone and where they lead.                 *)

\* What wakeups may do to a slot: only a SLEEPING one becomes RUNNABLE.
Awakened(f, g) ==
  /\ g \in Procs
  /\ g.pid = f.pid /\ g.parent = f.parent
  /\ g.state = f.state \/ (f.state = "SLEEPING" /\ g.state = "RUNNABLE")

LEMMA CallsType ==
  ASSUME NEW f \in Procs PROVE Calls(f) \in Nat
<1>1. f.sleepTicks \in Int /\ f.sleepTicksCount \in Int
  BY DEF Procs
<1> QED
  BY <1>1 DEF Calls

\* One field set at a time: a new credit, a new deadline, a new state.
LEMMA FieldsType ==
  ASSUME NEW f \in Procs, NEW k \in Nat
  PROVE  /\ Awakened(f, [f EXCEPT !.boostsleft = k])
         /\ Awakened(f, [f EXCEPT !.sleepTicks = 0])
         /\ Awakened(f, [f EXCEPT !.sleepTicksCount = k])
         /\ f.state = "SLEEPING" => Awakened(f, [f EXCEPT !.state = "RUNNABLE"])
         /\ Awakened(f, f)
  BY DEF Awakened, Procs, States

\* One sleeper woken is still a slot, with the same pid and parent.
LEMMA WokenType ==
  ASSUME NEW f \in Procs, f.state = "SLEEPING" PROVE Awakened(f, Woken(f))
<1> DEFINE f1 == [f EXCEPT !.boostsleft = f.boostsleft + Calls(f)]
           f2 == [f1 EXCEPT !.sleepTicks = 0]
           f3 == [f2 EXCEPT !.sleepTicksCount = 0]
           f4 == [f3 EXCEPT !.state = "RUNNABLE"]
<1>1. f.boostsleft + Calls(f) \in Nat
  BY CallsType DEF Procs
<1>2. Awakened(f, f1) /\ f1.state = "SLEEPING"
  BY <1>1, FieldsType DEF Procs
<1>3. f1 \in Procs
  BY <1>2 DEF Awakened
<1>4. Woken(f) = f4
  BY DEF Woken
<1> HIDE DEF f1
<1>5. Awakened(f1, f2) /\ f2.state = "SLEEPING"
  BY <1>2, <1>3, FieldsType DEF Procs
<1>6. f2 \in Procs
  BY <1>5 DEF Awakened
<1> HIDE DEF f2
<1>7. Awakened(f2, f3) /\ f3.state = "SLEEPING"
  BY <1>5, <1>6, FieldsType DEF Procs
<1>8. f3 \in Procs
  BY <1>7 DEF Awakened
<1> HIDE DEF f3
<1>9. Awakened(f3, f4)
  BY <1>7, <1>8, FieldsType
<1> QED
  BY <1>2, <1>4, <1>5, <1>7, <1>9 DEF Awakened

\* A sleeper credited with n calls is still a slot, with the same pid.
LEMMA CreditedType ==
  ASSUME NEW f \in Procs, NEW n \in Nat
  PROVE  Awakened(f, [f EXCEPT !.boostsleft = @ + n, !.sleepTicksCount = @ + n])
<1> DEFINE f1 == [f EXCEPT !.boostsleft = f.boostsleft + n]
           f2 == [f1 EXCEPT !.sleepTicksCount = f1.sleepTicksCount + n]
<1>1. f.boostsleft + n \in Nat
  BY DEF Procs
<1>2. Awakened(f, f1)
  BY <1>1, FieldsType
<1>3. f1 \in Procs
  BY <1>2 DEF Awakened
<1>4. [f EXCEPT !.boostsleft = @ + n, !.sleepTicksCount = @ + n] = f2
  OBVIOUS
<1> HIDE DEF f1
<1>5. Awakened(f1, f2)
  <2>1. f1.sleepTicksCount + n \in Nat
    BY <1>3 DEF Procs
  <2> QED
    BY <1>3, <2>1, FieldsType
<1> QED
  BY <1>2, <1>4, <1>5 DEF Awakened

\* wakeup1 keeps the table a table and changes no pid and no parent.
LEMMA Wakeup1Type ==
  ASSUME NEW t \in [Slots -> Procs], NEW ch, NEW n \in Nat
  PROVE  /\ Wakeup1(t, ch, n) \in [Slots -> Procs]
         /\ \A q \in Slots : Awakened(t[q], Wakeup1(t, ch, n)[q])
<1>1. \A q \in Slots : Awakened(t[q], t[q])
  BY FieldsType
<1>2. \A q \in Slots : t[q].state = "SLEEPING" => Awakened(t[q], Woken(t[q]))
  BY WokenType
<1>3. \A q \in Slots :
        Awakened(t[q], [t[q] EXCEPT !.boostsleft = @ + n, !.sleepTicksCount = @ + n])
  BY CreditedType
<1>4. \A q \in Slots : Awakened(t[q], Wakeup1(t, ch, n)[q])
  BY <1>1, <1>2, <1>3 DEF Wakeup1
<1>5. \A q \in Slots : Wakeup1(t, ch, n)[q] \in Procs
  BY <1>4 DEF Awakened
<1> QED
  BY <1>4, <1>5 DEF Wakeup1

-----------------------------------------------------------------------------
(* Type correctness                                                        *)

\* Assignments to one field of one slot keep the table a table.
LEMMA AssignState ==
  ASSUME NEW t \in [Slots -> Procs], NEW p, NEW st \in States
  PROVE  [t EXCEPT ![p].state = st] \in [Slots -> Procs]
  BY DEF Procs
LEMMA AssignNat ==
  ASSUME NEW t \in [Slots -> Procs], NEW p, NEW n \in Nat
  PROVE  /\ [t EXCEPT ![p].pid = n] \in [Slots -> Procs]
         /\ [t EXCEPT ![p].ticket = n] \in [Slots -> Procs]
         /\ [t EXCEPT ![p].boostsleft = n] \in [Slots -> Procs]
         /\ [t EXCEPT ![p].sleepTicksCount = n] \in [Slots -> Procs]
<1>1. [t EXCEPT ![p].pid = n] \in [Slots -> Procs]
  BY DEF Procs
<1>2. [t EXCEPT ![p].ticket = n] \in [Slots -> Procs]
  BY DEF Procs
<1>3. [t EXCEPT ![p].boostsleft = n] \in [Slots -> Procs]
  BY DEF Procs
<1>4. [t EXCEPT ![p].sleepTicksCount = n] \in [Slots -> Procs]
  BY DEF Procs
<1> QED
  BY <1>1, <1>2, <1>3, <1>4
LEMMA AssignInt ==
  ASSUME NEW t \in [Slots -> Procs], NEW p, NEW n \in Int
  PROVE  [t EXCEPT ![p].sleepTicks = n] \in [Slots -> Procs]
  BY DEF Procs
LEMMA AssignChan ==
  ASSUME NEW t \in [Slots -> Procs], NEW p, NEW ch \in Chans
  PROVE  [t EXCEPT ![p].chan = ch] \in [Slots -> Procs]
  BY DEF Procs
LEMMA AssignKilled ==
  ASSUME NEW t \in [Slots -> Procs], NEW p, NEW b \in BOOLEAN
  PROVE  [t EXCEPT ![p].killed = b] \in [Slots -> Procs]
  BY DEF Procs
LEMMA AssignParent ==
  ASSUME NEW t \in [Slots -> Procs], NEW p, NEW q \in 0 .. NPROC
  PROVE  [t EXCEPT ![p].parent = q] \in [Slots -> Procs]
  BY DEF Procs

\* The initial table is a table.
LEMMA InitType == Init => TypeOK
<1> SUFFICES ASSUME Init PROVE TypeOK
  OBVIOUS
<1>1. NPROC \in Nat \ {0}
  BY TableAssumption
<1>2. Zeroed \in Procs
  BY <1>1 DEF Zeroed, Procs, States, Chans, NoChan
<1> DEFINE z1 == [Zeroed EXCEPT !.state = "RUNNABLE"]
           z2 == [z1 EXCEPT !.pid = 1]
           z3 == [z2 EXCEPT !.ticket = 1]
<1>3. z1 \in Procs
  BY <1>2 DEF Procs, States
<1>4. [Zeroed EXCEPT !.state = "RUNNABLE", !.pid = 1, !.ticket = 1] = z3
  OBVIOUS
<1> HIDE DEF z1
<1>5. z2 \in Procs
  BY <1>3 DEF Procs
<1> HIDE DEF z2
<1>6. z3 \in Procs
  BY <1>5 DEF Procs
<1>7. proc \in [Slots -> Procs]
  BY <1>2, <1>4, <1>6 DEF Init
<1>8. /\ cpu = [c \in CPUs |-> 0]
      /\ np = [p \in Slots |-> 0]
      /\ due = [p \in Slots |-> 0]
  BY DEF Init
<1>9. /\ cpu \in [CPUs -> 0 .. NPROC]
      /\ np \in [Slots -> 0 .. NPROC]
      /\ due \in [Slots -> Int]
  BY <1>1, <1>8
<1>10. loc \in [Slots -> Locs]
  BY DEF Init, Locs
<1> QED
  BY <1>7, <1>9, <1>10 DEF Init, TypeOK

\* The channels processes sleep on, and Offcpu, have their types.
LEMMA ChanType ==
  /\ NoChan \in Chans /\ TicksChan \in Chans
  /\ \A p \in Slots : ProcChan(p) \in Chans /\ DiskChan(p) \in Chans
  BY DEF NoChan, TicksChan, ProcChan, DiskChan, Chans

LEMMA SlotZero == 0 \in 0 .. NPROC /\ NPROC \in Nat /\ Slots \subseteq 0 .. NPROC
  BY TableAssumption DEF Slots

LEMMA OffcpuType ==
  ASSUME cpu \in [CPUs -> 0 .. NPROC], NEW p
  PROVE  Offcpu(p) \in [CPUs -> 0 .. NPROC]
  BY SlotZero DEF Offcpu

\* Every scheduler and interrupt step keeps the types.
LEMMA CpuType ==
  ASSUME TypeOK, NEW c \in CPUs,
         Schedule(c) \/ SchedulePanic(c) \/ TimerIntr(c) \/ Yield(c)
  PROVE  TypeOK'
<1>1. CASE Schedule(c)
  <2>1. PICK p \in Runnable :
          /\ proc' = [q \in Slots |->
               IF q = p
               THEN [Unboost(q) EXCEPT !.state = "RUNNING", !.chan = NoChan]
               ELSE Unboost(q)]
          /\ cpu' = [cpu EXCEPT ![c] = p]
    BY <1>1 DEF Schedule
  <2>2. \A q \in Slots : Unboost(q) \in Procs
    <3> SUFFICES ASSUME NEW q \in Slots PROVE Unboost(q) \in Procs
      OBVIOUS
    <3>1. proc[q] \in Procs
      BY DEF TypeOK
    <3>2. proc[q].boostsleft \in Nat
      BY <3>1 DEF Procs
    <3>3. CASE q \in Runnable /\ proc[q].boostsleft > 0
      <4>1. proc[q].boostsleft - 1 \in Nat
        BY <3>2, <3>3
      <4> QED
        BY <3>1, <3>3, <4>1, FieldsType DEF Unboost, Awakened
    <3> QED
      BY <3>1, <3>3 DEF Unboost
  <2>3. p \in Slots /\ Unboost(p) \in Procs
    BY <2>2 DEF Runnable
  <2>4. [Unboost(p) EXCEPT !.state = "RUNNING", !.chan = NoChan] \in Procs
    <3> DEFINE u == Unboost(p)
               u1 == [u EXCEPT !.state = "RUNNING"]
    <3>1. [u EXCEPT !.state = "RUNNING", !.chan = NoChan]
            = [u1 EXCEPT !.chan = NoChan]
      OBVIOUS
    <3> HIDE DEF u
    <3>2. u1 \in Procs
      BY <2>3 DEF u, Procs, States
    <3> HIDE DEF u1
    <3>3. [u1 EXCEPT !.chan = NoChan] \in Procs
      BY <3>2, ChanType DEF Procs
    <3> QED
      BY <3>1, <3>3 DEF u
  <2>5. proc' \in [Slots -> Procs]
    BY <2>1, <2>2, <2>4
  <2>6. cpu' \in [CPUs -> 0 .. NPROC]
    <3>1. cpu \in [CPUs -> 0 .. NPROC]
      BY DEF TypeOK
    <3>2. p \in 0 .. NPROC
      BY <2>3, SlotZero
    <3> QED
      BY <2>1, <3>1, <3>2
  <2> QED
    BY <1>1, <2>5, <2>6 DEF Schedule, TypeOK
<1>2. CASE SchedulePanic(c)
  BY <1>2 DEF SchedulePanic, TypeOK
<1>3. CASE TimerIntr(c)
  <2>1. proc \in [Slots -> Procs] /\ ticks \in Nat
    BY DEF TypeOK
  <2>2. Wakeup1(proc, TicksChan, 1) \in [Slots -> Procs]
    BY <2>1, Wakeup1Type
  <2>3. proc' \in [Slots -> Procs] /\ ticks' \in Nat
    BY <1>3, <2>1, <2>2 DEF TimerIntr
  <2>4. trapping' \subseteq CPUs
    BY <1>3 DEF TimerIntr, TypeOK
  <2> QED
    BY <1>3, <2>3, <2>4 DEF TimerIntr, TypeOK
<1>4. CASE Yield(c)
  <2>1. /\ proc \in [Slots -> Procs] /\ cpu \in [CPUs -> 0 .. NPROC]
        /\ loc \in [Slots -> Locs] /\ trapping \subseteq CPUs
    BY DEF TypeOK
  <2>2. "RUNNABLE" \in States /\ "exit" \in Locs
    BY DEF States, Locs
  <2>3. [proc EXCEPT ![cpu[c]].state = "RUNNABLE"] \in [Slots -> Procs]
    BY <2>1, <2>2, AssignState
  <2>4. proc' \in [Slots -> Procs]
    BY <1>4, <2>1, <2>3 DEF Yield
  <2>5. [cpu EXCEPT ![c] = 0] \in [CPUs -> 0 .. NPROC]
    BY <2>1, SlotZero
  <2>6. cpu' \in [CPUs -> 0 .. NPROC]
    BY <1>4, <2>1, <2>5 DEF Yield
  <2>7. loc' \in [Slots -> Locs] /\ trapping' \subseteq CPUs
    BY <1>4, <2>1, <2>2 DEF Yield
  <2> QED
    BY <1>4, <2>4, <2>6, <2>7 DEF Yield, TypeOK
<1> QED
  BY <1>1, <1>2, <1>3, <1>4

\* Return and SleepOn, which end or suspend a system call.
LEMMA ReturnType ==
  ASSUME loc \in [Slots -> Locs], NEW p, NEW t, Return(p, t)
  PROVE  loc' \in [Slots -> Locs]
  BY DEF Return, Locs

LEMMA SleepOnType ==
  ASSUME TypeOK, NEW p, NEW ch \in Chans, SleepOn(p, ch)
  PROVE  proc' \in [Slots -> Procs] /\ cpu' \in [CPUs -> 0 .. NPROC]
<1>1. proc \in [Slots -> Procs] /\ cpu \in [CPUs -> 0 .. NPROC]
  BY DEF TypeOK
<1> DEFINE t == [proc EXCEPT ![p].chan = ch]
<1>2. t \in [Slots -> Procs]
  BY <1>1, AssignChan
<1>3. proc' = [t EXCEPT ![p].state = "SLEEPING"]
  BY DEF SleepOn
<1>4. "SLEEPING" \in States
  BY DEF States
<1> HIDE DEF t
<1>5. proc' \in [Slots -> Procs]
  BY <1>2, <1>3, <1>4, AssignState
<1> QED
  BY <1>1, <1>5, OffcpuType DEF SleepOn

\* Passing the children of p on keeps the types, the pids and, but for a
\* wakeup, the states.
LEMMA PassChildrenType ==
  ASSUME NEW t \in [Slots -> Procs], NEW p
  PROVE  /\ PassChildren(p, t) \in [Slots -> Procs]
         /\ \A q \in Slots :
              LET g == PassChildren(p, t)[q] IN
                /\ g.pid = t[q].pid
                /\ g.parent = IF t[q].parent = p THEN initproc ELSE t[q].parent
                /\ \/ g.state = t[q].state
                   \/ t[q].state = "SLEEPING" /\ g.state = "RUNNABLE"
<1> DEFINE n     == Cardinality(Zombies(p))
           woken == IF n = 0 THEN t ELSE Wakeup1(t, ProcChan(initproc), n)
<1>1. n \in Nat
  <2>1. IsFiniteSet(Slots)
    BY SlotZero, FS_Interval DEF Slots
  <2>2. IsFiniteSet(Zombies(p))
    BY <2>1, FS_Subset DEF Zombies
  <2> QED
    BY <2>2, FS_CardinalityType
<1> HIDE DEF n
<1>2. /\ woken \in [Slots -> Procs]
      /\ \A q \in Slots : Awakened(t[q], woken[q])
  BY <1>1, Wakeup1Type, FieldsType
<1>3. PassChildren(p, t) =
        [q \in Slots |-> IF t[q].parent = p
                         THEN [woken[q] EXCEPT !.parent = initproc] ELSE woken[q]]
  BY DEF PassChildren, n
<1> HIDE DEF woken
<1>4. initproc \in 0 .. NPROC
  BY TableAssumption DEF initproc
<1>5. \A q \in Slots : [woken[q] EXCEPT !.parent = initproc] \in Procs
  BY <1>2, <1>4 DEF Procs
<1>6. \A q \in Slots :
        LET g == [woken[q] EXCEPT !.parent = initproc] IN
          /\ g.pid = woken[q].pid /\ g.state = woken[q].state
          /\ g.parent = initproc
  BY <1>2 DEF Procs
<1> QED
  BY <1>2, <1>3, <1>5, <1>6 DEF Awakened

\* The whole of exit keeps the types, pids, parents but init's, and states.
LEMMA ExitEffect ==
  ASSUME TypeOK, NEW p \in Slots, Exit(p)
  PROVE  /\ proc' \in [Slots -> Procs]
         /\ proc'[p].state = "ZOMBIE"
         /\ \A q \in Slots :
              /\ proc'[q].pid = proc[q].pid
              /\ proc'[q].parent = IF proc[q].parent = p THEN initproc
                                                        ELSE proc[q].parent
              /\ q # p => \/ proc'[q].state = proc[q].state
                          \/ proc[q].state = "SLEEPING"
                             /\ proc'[q].state = "RUNNABLE"
<1> DEFINE w == Wakeup1(proc, WaitChan(p), 1)
           t == PassChildren(p, w)
<1>1. proc \in [Slots -> Procs]
  BY DEF TypeOK
<1>2. w \in [Slots -> Procs] /\ \A q \in Slots : Awakened(proc[q], w[q])
  BY <1>1, Wakeup1Type
<1>3. proc' = [t EXCEPT ![p].state = "ZOMBIE"]
  BY DEF Exit
<1> HIDE DEF w
<1>4. /\ t \in [Slots -> Procs]
      /\ \A q \in Slots :
           /\ t[q].pid = w[q].pid
           /\ t[q].parent = IF w[q].parent = p THEN initproc ELSE w[q].parent
           /\ \/ t[q].state = w[q].state
              \/ w[q].state = "SLEEPING" /\ t[q].state = "RUNNABLE"
  BY <1>2, PassChildrenType
<1> HIDE DEF t
<1>5. proc' \in [Slots -> Procs]
  BY <1>3, <1>4, AssignState DEF States
<1>6. /\ proc'[p].state = "ZOMBIE"
      /\ proc'[p].pid = t[p].pid /\ proc'[p].parent = t[p].parent
      /\ \A q \in Slots : q # p => proc'[q] = t[q]
  BY <1>3, <1>4 DEF Procs
<1>7. \A q \in Slots : proc'[q].pid = t[q].pid /\ proc'[q].parent = t[q].parent
  BY <1>6
<1> QED
  BY <1>2, <1>4, <1>5, <1>6, <1>7 DEF Awakened

\* Every step of a process keeps the types.
LEMMA StepType ==
  ASSUME TypeOK, NEW p \in Slots, Step(p) \/ DiskIntr(p)
  PROVE  TypeOK'
<1>0. /\ proc \in [Slots -> Procs] /\ cpu \in [CPUs -> 0 .. NPROC]
      /\ loc \in [Slots -> Locs] /\ nextpid \in Nat
      /\ np \in [Slots -> 0 .. NPROC] /\ disk \subseteq Slots /\ ios \in Nat
      /\ due \in [Slots -> Int] /\ ticks \in Nat
  BY DEF TypeOK
<1>1. CASE Enter(p)
  <2>1. loc' \in [Slots -> Locs]
    BY <1>0, <1>1 DEF Enter, SysCalls, Locs
  <2>2. disk' \subseteq Slots /\ ios' \in Nat
    BY <1>0, <1>1 DEF Enter
  <2> QED
    BY <1>1, <2>1, <2>2 DEF Enter, TypeOK
<1>2. CASE Trap(p)
  <2>1. proc' \in [Slots -> Procs]
    <3>1. [proc EXCEPT ![p].killed = TRUE] \in [Slots -> Procs]
      BY <1>0, AssignKilled
    <3> QED
      BY <1>0, <1>2, <3>1 DEF Trap
  <2>2. loc' \in [Slots -> Locs]
    BY <1>0, <1>2 DEF Trap, Locs
  <2> QED
    BY <1>2, <2>1, <2>2 DEF Trap, TypeOK
<1>3. CASE Kill(p)
  <2>1. PICK x \in KillArgs, q \in Slots :
          LET t == [proc EXCEPT ![q].killed = TRUE,
                                ![q].state = KillState(@)]
          IN  proc' = t /\ Return(p, t)
    BY <1>3 DEF Kill
  <2> DEFINE t1 == [proc EXCEPT ![q].killed = TRUE]
  <2>2. t1 \in [Slots -> Procs]
    BY <1>0, AssignKilled
  <2>3. proc' = [t1 EXCEPT ![q].state = KillState(t1[q].state)]
    BY <2>1
  <2> HIDE DEF t1
  <2>4. t1[q].state \in States
    BY <2>2 DEF Procs
  <2>5. KillState(t1[q].state) \in States
    BY <2>4 DEF KillState, States
  <2>6. proc' \in [Slots -> Procs]
    BY <2>2, <2>3, <2>5, AssignState
  <2>7. loc' \in [Slots -> Locs]
    BY <1>0, <2>1, ReturnType
  <2> QED
    BY <1>3, <2>6, <2>7 DEF Kill, TypeOK
<1>4. CASE Settickets(p)
  <2>1. PICK n \in TicketArgs, q \in Slots : proc' = [proc EXCEPT ![q].ticket = n]
    BY <1>4 DEF Settickets
  <2>2. n \in Nat
    BY TableAssumption
  <2>3. proc' \in [Slots -> Procs]
    BY <1>0, <2>1, <2>2, AssignNat
  <2> QED
    BY <1>4, <2>3 DEF Settickets, TypeOK
<1>5. CASE AllocProc(p)
  <2>1. CASE UNCHANGED <<proc, nextpid, np>> /\ Return(p, proc)
    <3>1. loc' \in [Slots -> Locs]
      BY <1>0, <2>1, ReturnType
    <3> QED
      BY <1>5, <2>1, <3>1 DEF AllocProc, TypeOK
  <2>2. CASE ~(UNCHANGED <<proc, nextpid, np>> /\ Return(p, proc))
    <3>1. PICK q \in Slots :
            /\ proc' = [proc EXCEPT ![q].state = "EMBRYO", ![q].pid = nextpid]
            /\ nextpid' = PidAfter(nextpid)
            /\ np' = [np EXCEPT ![p] = q]
            /\ loc' = [loc EXCEPT ![p] = "stack"]
      BY <1>5, <2>2 DEF AllocProc
    <3> DEFINE t1 == [proc EXCEPT ![q].state = "EMBRYO"]
    <3>2. t1 \in [Slots -> Procs]
      BY <1>0, AssignState DEF States
    <3>3. proc' = [t1 EXCEPT ![q].pid = nextpid]
      BY <3>1
    <3> HIDE DEF t1
    <3>4. proc' \in [Slots -> Procs]
      BY <1>0, <3>2, <3>3, AssignNat
    <3>5. nextpid' \in Nat
      BY <1>0, <3>1 DEF PidAfter
    <3>6. np' \in [Slots -> 0 .. NPROC] /\ loc' \in [Slots -> Locs]
      BY <1>0, <3>1, SlotZero DEF Locs
    <3> QED
      BY <1>5, <3>4, <3>5, <3>6 DEF AllocProc, TypeOK
  <2> QED
    BY <2>1, <2>2
<1>6. ASSUME ForkFails(p)
      PROVE  proc' \in [Slots -> Procs] /\ np' \in [Slots -> 0 .. NPROC]
             /\ loc' \in [Slots -> Locs]
  <2>1. proc' \in [Slots -> Procs]
    BY <1>0, <1>6, AssignState DEF ForkFails, States
  <2>2. np' \in [Slots -> 0 .. NPROC]
    BY <1>0, <1>6, SlotZero DEF ForkFails
  <2> QED
    BY <1>0, <1>6, <2>1, <2>2, ReturnType DEF ForkFails
<1>7. CASE AllocStack(p)
  <2>1. CASE ForkFails(p)
    BY <1>6, <1>7, <2>1 DEF AllocStack, TypeOK
  <2>2. CASE ~ForkFails(p)
    <3> DEFINE t1 == [proc EXCEPT ![np[p]].ticket = 1]
               t2 == [t1 EXCEPT ![np[p]].boostsleft = 0]
               t3 == [t2 EXCEPT ![np[p]].sleepTicks = 0]
               t4 == [t3 EXCEPT ![np[p]].sleepTicksCount = 0]
    <3>1. proc' = t4 /\ UNCHANGED np /\ loc' = [loc EXCEPT ![p] = "copy"]
      BY <1>7, <2>2 DEF AllocStack
    <3>2. t1 \in [Slots -> Procs]
      BY <1>0, AssignNat
    <3> HIDE DEF t1
    <3>3. t2 \in [Slots -> Procs]
      BY <3>2, AssignNat
    <3> HIDE DEF t2
    <3>4. t3 \in [Slots -> Procs]
      <4>1. 0 \in Int
        OBVIOUS
      <4> QED
        BY <3>3, <4>1, AssignInt, Zenon
    <3> HIDE DEF t3
    <3>5. t4 \in [Slots -> Procs]
      BY <3>4, AssignNat
    <3> HIDE DEF t4
    <3>6. proc' \in [Slots -> Procs] /\ loc' \in [Slots -> Locs]
      BY <1>0, <3>1, <3>5 DEF Locs
    <3> QED
      BY <1>7, <3>1, <3>6 DEF AllocStack, TypeOK
  <2> QED
    BY <2>1, <2>2
<1>8. CASE CopyProc(p)
  <2>1. CASE ForkFails(p)
    BY <1>6, <1>8, <2>1 DEF CopyProc, TypeOK
  <2>2. CASE ~ForkFails(p)
    <3> DEFINE t1 == [proc EXCEPT ![np[p]].parent = p]
               t2 == [t1 EXCEPT ![np[p]].ticket = proc[p].ticket]
               t3 == [t2 EXCEPT ![np[p]].state = "RUNNABLE"]
    <3>1. /\ proc' = t3
          /\ np' = [np EXCEPT ![p] = 0]
          /\ loc' = [loc EXCEPT ![p] = IF proc[p].killed THEN "exit" ELSE "user",
                                ![np[p]] = "user"]
      BY <1>8, <2>2 DEF CopyProc
    <3>2. t1 \in [Slots -> Procs]
      BY <1>0, SlotZero, AssignParent
    <3>3. proc[p].ticket \in Nat
      BY <1>0 DEF Procs
    <3> HIDE DEF t1
    <3>4. t2 \in [Slots -> Procs]
      BY <3>2, <3>3, AssignNat
    <3> HIDE DEF t2
    <3>5. t3 \in [Slots -> Procs]
      BY <3>4, AssignState DEF States
    <3> HIDE DEF t3
    <3>6. np' \in [Slots -> 0 .. NPROC]
      BY <1>0, <3>1, SlotZero
    <3>7. loc' \in [Slots -> Locs]
      BY <1>0, <3>1 DEF Locs
    <3> QED
      BY <1>8, <3>1, <3>5, <3>6, <3>7 DEF CopyProc, TypeOK
  <2> QED
    BY <2>1, <2>2
<1>9. CASE SysSleep(p)
  <2>1. PICK n \in SleepArgs :
          /\ proc' = [proc EXCEPT ![p].sleepTicks = n, ![p].chan = TicksChan,
                                  ![p].state = "SLEEPING"]
          /\ due' = [due EXCEPT ![p] = ticks + (IF n < 1 THEN 1 ELSE n)]
    BY <1>9 DEF SysSleep
  <2> DEFINE t1 == [proc EXCEPT ![p].sleepTicks = n]
             t2 == [t1 EXCEPT ![p].chan = TicksChan]
             t3 == [t2 EXCEPT ![p].state = "SLEEPING"]
  <2>2. n \in Int
    BY TableAssumption
  <2>3. proc' = t3
    BY <2>1
  <2>4. t1 \in [Slots -> Procs]
    BY <1>0, <2>2, AssignInt
  <2> HIDE DEF t1
  <2>5. t2 \in [Slots -> Procs]
    BY <2>4, ChanType, AssignChan
  <2> HIDE DEF t2
  <2>6. t3 \in [Slots -> Procs]
    BY <2>5, AssignState DEF States
  <2> HIDE DEF t3
  <2>7. due' \in [Slots -> Int]
    BY <1>0, <2>1, <2>2
  <2>8. cpu' \in [CPUs -> 0 .. NPROC] /\ loc' \in [Slots -> Locs]
    BY <1>0, <1>9, OffcpuType DEF SysSleep, Locs
  <2> QED
    BY <1>9, <2>3, <2>6, <2>7, <2>8 DEF SysSleep, TypeOK
<1>10. CASE SleepReturns(p)
  BY <1>0, <1>10, ReturnType DEF SleepReturns, TypeOK
<1>11. CASE DiskWait(p)
  <2>1. proc' \in [Slots -> Procs] /\ cpu' \in [CPUs -> 0 .. NPROC]
    BY <1>0, <1>11, SleepOnType, ChanType DEF DiskWait
  <2>2. loc' \in [Slots -> Locs]
    BY <1>0, <1>11, ReturnType DEF DiskWait
  <2> QED
    BY <1>11, <2>1, <2>2 DEF DiskWait, TypeOK
<1>12. CASE ExitIO(p)
  <2>1. loc' \in [Slots -> Locs] /\ disk' \subseteq Slots /\ ios' \in Nat
    BY <1>0, <1>12 DEF ExitIO, Locs
  <2> QED
    BY <1>12, <2>1 DEF ExitIO, TypeOK
<1>13. CASE Exit(p)
  <2>1. proc' \in [Slots -> Procs] /\ cpu' \in [CPUs -> 0 .. NPROC]
    BY <1>0, <1>13, ExitEffect, OffcpuType DEF Exit
  <2> QED
    BY <1>13, <2>1 DEF Exit, TypeOK
<1>14. CASE Wait(p)
  <2>1. \A q \in Slots : Reaped(proc[q]) \in Procs
    <3> SUFFICES ASSUME NEW q \in Slots PROVE Reaped(proc[q]) \in Procs
      OBVIOUS
    <3> DEFINE f0 == proc[q]
               f1 == [f0 EXCEPT !.pid = 0]
               f2 == [f1 EXCEPT !.parent = 0]
               f3 == [f2 EXCEPT !.killed = FALSE]
               f4 == [f3 EXCEPT !.state = "UNUSED"]
    <3>1. Reaped(proc[q]) = f4
      BY DEF Reaped
    <3>2. f0 \in Procs
      BY <1>0
    <3> HIDE DEF f0
    <3>3. f1 \in Procs
      BY <3>2 DEF Procs
    <3> HIDE DEF f1
    <3>4. f2 \in Procs
      BY <3>3, SlotZero DEF Procs
    <3> HIDE DEF f2
    <3>5. f3 \in Procs
      BY <3>4 DEF Procs
    <3> HIDE DEF f3
    <3>6. f4 \in Procs
      BY <3>5 DEF Procs, States
    <3> QED
      BY <3>1, <3>6
  <2>2. CASE \E q \in Zombies(p) : proc' = [proc EXCEPT ![q] = Reaped(@)]
                                   /\ Return(p, proc) /\ UNCHANGED cpu
    <3>1. proc' \in [Slots -> Procs] /\ loc' \in [Slots -> Locs]
      BY <1>0, <2>1, <2>2, ReturnType DEF Zombies
    <3> QED
      BY <1>14, <2>2, <3>1 DEF Wait, TypeOK
  <2>3. CASE Return(p, proc) /\ UNCHANGED <<proc, cpu>>
    BY <1>0, <1>14, <2>3, ReturnType DEF Wait, TypeOK
  <2>4. CASE SleepOn(p, ProcChan(p)) /\ UNCHANGED loc
    <3>1. proc' \in [Slots -> Procs] /\ cpu' \in [CPUs -> 0 .. NPROC]
      BY <2>4, SleepOnType, ChanType
    <3> QED
      BY <1>14, <2>4, <3>1 DEF Wait, TypeOK
  <2> QED
    BY <1>14, <2>2, <2>3, <2>4 DEF Wait
<1>15. CASE DiskIntr(p)
  <2>1. proc' \in [Slots -> Procs] /\ disk' \subseteq Slots
    BY <1>0, <1>15, Wakeup1Type DEF DiskIntr
  <2> QED
    BY <1>15, <2>1 DEF DiskIntr, TypeOK
<1> QED
  BY <1>1, <1>2, <1>3, <1>4, <1>5, <1>7, <1>8, <1>9, <1>10, <1>11, <1>12,
     <1>13, <1>14, <1>15 DEF Step

-----------------------------------------------------------------------------
(* The inductive invariant                                                 *)

\* The types that the steps below need.
LEMMA TypeParts ==
  ASSUME TypeOK
  PROVE  /\ proc \in [Slots -> Procs] /\ cpu \in [CPUs -> 0 .. NPROC]
         /\ loc \in [Slots -> Locs] /\ nextpid \in Nat
         /\ np \in [Slots -> 0 .. NPROC] /\ trapping \subseteq CPUs
  BY DEF TypeOK

\* Unboost takes a boost away and nothing else.
LEMMA UnboostType ==
  ASSUME proc \in [Slots -> Procs], NEW q \in Slots
  PROVE  /\ Unboost(q) \in Procs /\ Unboost(q).pid = proc[q].pid
         /\ Unboost(q).parent = proc[q].parent
         /\ Unboost(q).state = proc[q].state
<1>1. proc[q] \in Procs /\ proc[q].boostsleft \in Nat
  BY DEF Procs
<1>2. CASE q \in Runnable /\ proc[q].boostsleft > 0
  <2>1. proc[q].boostsleft - 1 \in Nat
    BY <1>1, <1>2
  <2> QED
    BY <1>1, <1>2, <2>1 DEF Unboost, Procs
<1> QED
  BY <1>1, <1>2 DEF Unboost

\* An assignment to the state of a slot, and to its chan, by their effect.
LEMMA SetState ==
  ASSUME NEW t \in [Slots -> Procs], NEW p \in Slots, NEW st
  PROVE  LET u == [t EXCEPT ![p].state = st] IN
           /\ u[p].state = st
           /\ \A q \in Slots : /\ u[q].pid = t[q].pid
                               /\ u[q].parent = t[q].parent
                               /\ q # p => u[q] = t[q]
  BY DEF Procs

LEMMA SetChan ==
  ASSUME NEW t \in [Slots -> Procs], NEW p \in Slots, NEW ch
  PROVE  LET u == [t EXCEPT ![p].chan = ch] IN
           \A q \in Slots : /\ u[q].pid = t[q].pid
                            /\ u[q].parent = t[q].parent
                            /\ u[q].state = t[q].state
  BY DEF Procs

\* init's slot exists, is alone, and the first step's invariant holds.
LEMMA InitIInv == Init => IInv
<1> SUFFICES ASSUME Init PROVE IInv
  OBVIOUS
<1>1. TypeOK
  BY InitType
<1>2. /\ proc = [p \in Slots |->
                  IF p = initproc
                  THEN [Zeroed EXCEPT !.state = "RUNNABLE", !.pid = 1, !.ticket = 1]
                  ELSE Zeroed]
      /\ cpu = [c \in CPUs |-> 0] /\ trapping = {} /\ nextpid = 2
      /\ loc = [p \in Slots |-> "user"]
  BY DEF Init
<1>3. initproc \in Slots
  BY TableAssumption DEF initproc, Slots
<1>4. /\ proc[initproc].state = "RUNNABLE" /\ proc[initproc].pid = 1
      /\ \A p \in Slots \ {initproc} : proc[p].state = "UNUSED"
  BY <1>2, <1>3 DEF Zeroed
<1>5. RunningOnOneCpu /\ TrapInv
  <2>1. \A p \in Slots : proc[p].state # "RUNNING" /\ p # 0
    BY <1>4 DEF Slots
  <2> QED
    BY <1>2, <2>1 DEF RunningOnOneCpu, TrapInv
<1>6. ForkInv
  BY <1>2 DEF ForkInv, Forking
<1>7. Alive(initproc) /\ NoOrphans /\ UniquePids
  BY <1>2, <1>3, <1>4 DEF Alive, NoOrphans, UniquePids
<1> QED
  BY <1>1, <1>5, <1>6, <1>7 DEF IInv

\* Steps that at most wake sleepers up and leave the processors alone.
LEMMA AwakeStep ==
  ASSUME IInv, TypeOK',
         \A q \in Slots :
           /\ proc'[q].pid = proc[q].pid /\ proc'[q].parent = proc[q].parent
           /\ \/ proc'[q].state = proc[q].state
              \/ proc[q].state = "SLEEPING" /\ proc'[q].state = "RUNNABLE",
         UNCHANGED <<cpu, nextpid, np>>,
         \A c \in trapping' : c \in trapping \/ cpu[c] # 0,
         \A q \in Slots : Forking(q)' => Forking(q)
  PROVE  IInv'
<1>0. initproc \in Slots
  BY TableAssumption DEF initproc, Slots
<1>1. \A q \in Slots :
        /\ proc'[q].pid = proc[q].pid /\ proc'[q].parent = proc[q].parent
        /\ \/ proc'[q].state = proc[q].state
           \/ proc[q].state = "SLEEPING" /\ proc'[q].state = "RUNNABLE"
  OBVIOUS
<1>2. \A q \in Slots : Alive(q)' <=> Alive(q)
  BY <1>1 DEF Alive
<1>3. RunningOnOneCpu'
  BY <1>1 DEF IInv, RunningOnOneCpu
<1>4. TrapInv'
  BY DEF IInv, TrapInv
<1>5. ForkInv'
  BY <1>1 DEF IInv, ForkInv
<1>6. Alive(initproc)'
  BY <1>0, <1>2 DEF IInv
<1>7. NoOrphans'
  BY <1>1, <1>2 DEF IInv, NoOrphans
<1>8. UniquePids'
  BY <1>1 DEF IInv, UniquePids
<1> QED
  BY <1>3, <1>4, <1>5, <1>6, <1>7, <1>8 DEF IInv

\* Steps in which the running process p goes to sleep or is preempted.
LEMMA LeaveStep ==
  ASSUME IInv, TypeOK', NEW p \in Slots, NEW c \in CPUs, cpu[c] = p,
         \A d \in CPUs : cpu'[d] = IF cpu[d] = p THEN 0 ELSE cpu[d],
         c \notin trapping', trapping' \subseteq trapping,
         UNCHANGED <<nextpid, np>>,
         proc'[p].state \in {"SLEEPING", "RUNNABLE"},
         \A q \in Slots : /\ proc'[q].pid = proc[q].pid
                          /\ proc'[q].parent = proc[q].parent
                          /\ q # p => proc'[q].state = proc[q].state,
         \A q \in Slots : Forking(q)' => Forking(q)
  PROVE  IInv'
<1>0. initproc \in Slots /\ p # 0 /\ trapping \subseteq CPUs
  <2>1. initproc \in Slots
    BY TableAssumption DEF initproc, Slots
  <2>2. p # 0
    BY DEF Slots
  <2>3. TypeOK
    BY DEF IInv
  <2>4. trapping \subseteq CPUs
    BY <2>3, TypeParts
  <2> QED
    BY <2>1, <2>2, <2>4
<1>1. proc[p].state = "RUNNING" /\ \A d \in CPUs : cpu[d] = p => d = c
  BY <1>0 DEF IInv, RunningOnOneCpu
<1>2. \A q \in Slots : Alive(q)' <=> Alive(q)
  BY <1>1 DEF Alive
<1>3. RunningOnOneCpu'
  BY <1>0, <1>1 DEF IInv, RunningOnOneCpu, Slots
<1>4. TrapInv'
  BY <1>0, <1>1 DEF IInv, TrapInv
<1>5. ForkInv'
  BY <1>1 DEF IInv, ForkInv
<1>6. Alive(initproc)'
  BY <1>0, <1>2 DEF IInv
<1>7. NoOrphans'
  <2>1. \A q \in Slots : Alive(q)' \/ proc'[q].state = "ZOMBIE"
                            => Alive(q) \/ proc[q].state = "ZOMBIE"
    BY <1>1, <1>2 DEF Alive
  <2>2. \A q \in Slots : proc'[q].parent = proc[q].parent
    OBVIOUS
  <2> QED
    BY <1>2, <2>1, <2>2 DEF IInv, NoOrphans
<1>8. UniquePids'
  BY <1>1 DEF IInv, UniquePids
<1> QED
  BY <1>3, <1>4, <1>5, <1>6, <1>7, <1>8 DEF IInv

\* The lottery puts one runnable process on an idle processor.
LEMMA ScheduleStep ==
  ASSUME IInv, TypeOK', NEW c \in CPUs, Schedule(c)
  PROVE  IInv'
<1>0. /\ TypeOK /\ initproc \in Slots
      /\ proc \in [Slots -> Procs] /\ cpu \in [CPUs -> 0 .. NPROC]
      /\ trapping \subseteq CPUs
  <2>1. TypeOK
    BY DEF IInv
  <2> QED
    BY <2>1, TypeParts, TableAssumption DEF initproc, Slots
<1>1. PICK p \in Runnable :
        /\ proc' = [q \in Slots |->
              IF q = p THEN [Unboost(q) EXCEPT !.state = "RUNNING", !.chan = NoChan]
              ELSE Unboost(q)]
        /\ cpu' = [cpu EXCEPT ![c] = p]
  BY DEF Schedule
<1>2. cpu[c] = 0 /\ UNCHANGED <<trapping, nextpid, loc, np>>
  BY DEF Schedule
<1>3. p \in Slots /\ p # 0 /\ proc[p].state = "RUNNABLE"
  BY DEF Runnable, Slots
<1>4. \A q \in Slots :
        /\ proc'[q].pid = proc[q].pid /\ proc'[q].parent = proc[q].parent
        /\ q # p => proc'[q].state = proc[q].state
        /\ q = p => proc'[q].state = "RUNNING"
  <2> SUFFICES ASSUME NEW q \in Slots
               PROVE  /\ proc'[q].pid = proc[q].pid
                      /\ proc'[q].parent = proc[q].parent
                      /\ q # p => proc'[q].state = proc[q].state
                      /\ q = p => proc'[q].state = "RUNNING"
    OBVIOUS
  <2> DEFINE u == Unboost(q)
  <2>1. /\ u \in Procs /\ u.pid = proc[q].pid /\ u.parent = proc[q].parent
        /\ u.state = proc[q].state
    BY <1>0, UnboostType
  <2>2. proc'[q] = IF q = p THEN [u EXCEPT !.state = "RUNNING", !.chan = NoChan]
                            ELSE u
    BY <1>1
  <2> HIDE DEF u
  <2> DEFINE u1 == [u EXCEPT !.state = "RUNNING"]
  <2>3. [u EXCEPT !.state = "RUNNING", !.chan = NoChan] = [u1 EXCEPT !.chan = NoChan]
    OBVIOUS
  <2>4. /\ u1 \in Procs /\ u1.pid = u.pid /\ u1.parent = u.parent
        /\ u1.state = "RUNNING"
    BY <2>1 DEF Procs, States
  <2> HIDE DEF u1
  <2>5. LET v == [u1 EXCEPT !.chan = NoChan] IN
          v.pid = u1.pid /\ v.parent = u1.parent /\ v.state = u1.state
    BY <2>4 DEF Procs
  <2> QED
    BY <2>1, <2>2, <2>3, <2>4, <2>5
<1>5. \A d \in CPUs : cpu'[d] = IF d = c THEN p ELSE cpu[d]
  BY <1>0, <1>1
<1>6. \A q \in Slots : Alive(q)' <=> Alive(q)
  BY <1>3, <1>4 DEF Alive
<1>7. RunningOnOneCpu'
  <2>1. RunningOnOneCpu
    BY DEF IInv
  <2>2. \A d \in CPUs : cpu[d] # p
    BY <1>3, <2>1 DEF RunningOnOneCpu
  <2> QED
    BY <1>2, <1>3, <1>4, <1>5, <2>1, <2>2 DEF RunningOnOneCpu, Slots
<1>8. TrapInv'
  BY <1>0, <1>2, <1>3, <1>5 DEF IInv, TrapInv
<1>9. ForkInv'
  BY <1>2, <1>3, <1>4 DEF IInv, ForkInv, Forking
<1>10. Alive(initproc)'
  BY <1>0, <1>6 DEF IInv
<1>11. NoOrphans'
  <2>1. \A q \in Slots : Alive(q)' \/ proc'[q].state = "ZOMBIE"
                            => Alive(q) \/ proc[q].state = "ZOMBIE"
    BY <1>4, <1>6
  <2> QED
    BY <1>4, <1>6, <2>1 DEF IInv, NoOrphans
<1>12. UniquePids'
  BY <1>2, <1>3, <1>4 DEF IInv, UniquePids
<1> QED
  BY <1>7, <1>8, <1>9, <1>10, <1>11, <1>12 DEF IInv

\* A process that calls sleep(), of whatever kind, or is preempted.
LEMMA SleepStep ==
  ASSUME IInv, TypeOK', NEW p \in Slots, Running(p),
         NEW ch, NEW t \in [Slots -> Procs],
         \A q \in Slots : /\ t[q].pid = proc[q].pid /\ t[q].state = proc[q].state
                          /\ t[q].parent = proc[q].parent,
         proc' = [t EXCEPT ![p].state = "SLEEPING"], cpu' = Offcpu(p),
         UNCHANGED <<nextpid, np, trapping>>,
         \A q \in Slots : Forking(q)' => Forking(q)
  PROVE  IInv'
<1>1. PICK c \in CPUs : cpu[c] = p /\ c \notin trapping
  BY DEF Running, Executes
<1>2. \A d \in CPUs : cpu'[d] = IF cpu[d] = p THEN 0 ELSE cpu[d]
  BY DEF Offcpu
<1>3. proc'[p].state = "SLEEPING"
  BY SetState
<1>4. \A q \in Slots : /\ proc'[q].pid = proc[q].pid
                       /\ proc'[q].parent = proc[q].parent
                       /\ q # p => proc'[q].state = proc[q].state
  BY SetState
<1> QED
  BY <1>1, <1>2, <1>3, <1>4, LeaveStep

LEMMA YieldStep ==
  ASSUME IInv, TypeOK', NEW c \in CPUs, Yield(c)
  PROVE  IInv'
<1> DEFINE p == cpu[c]
<1>0. /\ proc \in [Slots -> Procs] /\ loc \in [Slots -> Locs]
      /\ cpu \in [CPUs -> 0 .. NPROC] /\ trapping \subseteq CPUs
  <2>1. TypeOK
    BY DEF IInv
  <2> QED
    BY <2>1, TypeParts
<1>1. p \in Slots
  <2>1. p # 0 /\ p \in 0 .. NPROC
    BY <1>0 DEF IInv, TrapInv, Yield
  <2> QED
    BY <2>1, SlotZero DEF Slots
<1>2. c \in trapping /\ trapping' = trapping \ {c} /\ UNCHANGED <<nextpid, np>>
  BY DEF Yield
<1>3. CASE loc' = [loc EXCEPT ![p] = "exit"] /\ UNCHANGED <<proc, cpu>>
  <2>1. \A q \in Slots : Forking(q)' => Forking(q)
    BY <1>0, <1>3 DEF Forking
  <2> QED
    BY <1>2, <1>3, <2>1, AwakeStep
<1>4. CASE /\ proc' = [proc EXCEPT ![p].state = "RUNNABLE"]
           /\ cpu' = [cpu EXCEPT ![c] = 0] /\ UNCHANGED loc
  <2>1. \A d \in CPUs : cpu[d] = p => d = c
    <3>1. p # 0
      BY <1>1 DEF Slots
    <3> QED
      BY <3>1 DEF IInv, RunningOnOneCpu
  <2>2. \A d \in CPUs : cpu'[d] = IF cpu[d] = p THEN 0 ELSE cpu[d]
    BY <1>0, <1>4, <2>1
  <2>3. /\ proc'[p].state = "RUNNABLE"
        /\ \A q \in Slots : /\ proc'[q].pid = proc[q].pid
                            /\ proc'[q].parent = proc[q].parent
                            /\ q # p => proc'[q].state = proc[q].state
    BY <1>0, <1>1, <1>4, SetState
  <2>4. \A q \in Slots : Forking(q)' => Forking(q)
    BY <1>4 DEF Forking
  <2> QED
    BY <1>1, <1>2, <2>2, <2>3, <2>4, LeaveStep
<1> QED
  BY <1>3, <1>4 DEF Yield

\* exit hands every child to init, which is alive and not p.
LEMMA ExitStep ==
  ASSUME IInv, TypeOK', NEW p \in Slots, Exit(p)
  PROVE  IInv'
<1>0. TypeOK /\ initproc \in Slots /\ p # 0 /\ p # initproc
  BY TableAssumption DEF IInv, Exit, initproc, Slots
<1>1. /\ proc'[p].state = "ZOMBIE"
      /\ \A q \in Slots :
           /\ proc'[q].pid = proc[q].pid
           /\ proc'[q].parent = IF proc[q].parent = p THEN initproc
                                                     ELSE proc[q].parent
           /\ q # p => \/ proc'[q].state = proc[q].state
                       \/ proc[q].state = "SLEEPING"
                          /\ proc'[q].state = "RUNNABLE"
  BY <1>0, ExitEffect
<1>2. /\ \A d \in CPUs : cpu'[d] = IF cpu[d] = p THEN 0 ELSE cpu[d]
      /\ UNCHANGED <<trapping, nextpid, loc, np>>
  BY DEF Exit, Offcpu
<1>3. PICK c \in CPUs : cpu[c] = p /\ c \notin trapping
  BY DEF Exit, At, Running, Executes
<1>4. proc[p].state = "RUNNING" /\ \A d \in CPUs : cpu[d] = p => d = c
  BY <1>0, <1>3 DEF IInv, RunningOnOneCpu
<1>5. \A q \in Slots : q # p => (Alive(q)' <=> Alive(q))
  BY <1>1 DEF Alive
<1>6. RunningOnOneCpu'
  BY <1>0, <1>1, <1>2, <1>4 DEF IInv, RunningOnOneCpu, Slots
<1>7. TrapInv'
  <2>1. trapping \subseteq CPUs
    BY <1>0, TypeParts
  <2> QED
    BY <1>2, <1>3, <1>4, <2>1 DEF IInv, TrapInv
<1>8. ForkInv'
  BY <1>1, <1>2, <1>4 DEF IInv, ForkInv, Forking
<1>9. Alive(initproc)'
  BY <1>0, <1>5 DEF IInv
<1>10. NoOrphans'
  <2>1. \A q \in Slots : Alive(q)' \/ proc'[q].state = "ZOMBIE"
                            => Alive(q) \/ proc[q].state = "ZOMBIE"
    BY <1>1, <1>4, <1>5 DEF Alive
  <2>2. \A q \in Slots : proc[q].parent \in Slots /\ Alive(proc[q].parent)
          => /\ proc'[q].parent \in Slots /\ proc'[q].parent # p
             /\ Alive(proc'[q].parent)
    BY <1>0, <1>1 DEF IInv
  <2> QED
    BY <1>5, <2>1, <2>2 DEF IInv, NoOrphans
<1>11. UniquePids'
  BY <1>1, <1>2, <1>4 DEF IInv, UniquePids
<1> QED
  BY <1>6, <1>7, <1>8, <1>9, <1>10, <1>11 DEF IInv

\* wait takes one zombie out of the table: nobody's parent and no pid in use.
LEMMA ReapStep ==
  ASSUME IInv, TypeOK', NEW p \in Slots, NEW q \in Zombies(p),
         proc' = [proc EXCEPT ![q] = Reaped(@)],
         UNCHANGED <<cpu, trapping, nextpid, np>>,
         \A r \in Slots : Forking(r)' => Forking(r)
  PROVE  IInv'
<1>0. /\ TypeOK /\ initproc \in Slots
      /\ proc \in [Slots -> Procs]
  <2>1. TypeOK
    BY DEF IInv
  <2> QED
    BY <2>1, TypeParts, TableAssumption DEF initproc, Slots
<1>1. q \in Slots /\ proc[q].state = "ZOMBIE"
  BY DEF Zombies
<1>2. proc'[q].state = "UNUSED" /\ \A r \in Slots : r # q => proc'[r] = proc[r]
  BY <1>0, <1>1 DEF Reaped, Procs
<1>3. \A r \in Slots : Alive(r)' <=> Alive(r)
  BY <1>1, <1>2 DEF Alive
<1>4. RunningOnOneCpu'
  BY <1>1, <1>2 DEF IInv, RunningOnOneCpu
<1>5. TrapInv'
  BY DEF IInv, TrapInv
<1>6. ForkInv'
  BY <1>1, <1>2 DEF IInv, ForkInv
<1>7. Alive(initproc)'
  BY <1>0, <1>3 DEF IInv
<1>8. NoOrphans'
  <2>1. \A r \in Slots : Alive(r)' \/ proc'[r].state = "ZOMBIE"
          => /\ Alive(r) \/ proc[r].state = "ZOMBIE"
             /\ proc'[r].parent = proc[r].parent
    BY <1>2, <1>3 DEF Alive
  <2> QED
    BY <1>3, <2>1 DEF IInv, NoOrphans
<1>9. UniquePids'
  BY <1>2 DEF IInv, UniquePids
<1> QED
  BY <1>4, <1>5, <1>6, <1>7, <1>8, <1>9 DEF IInv

\* What allocproc and the end of fork write.
LEMMA AllocEffect ==
  ASSUME proc \in [Slots -> Procs], NEW q \in Slots,
         proc' = [proc EXCEPT ![q].state = "EMBRYO", ![q].pid = nextpid]
  PROVE  /\ proc'[q].state = "EMBRYO" /\ proc'[q].pid = nextpid
         /\ \A r \in Slots : /\ proc'[r].parent = proc[r].parent
                             /\ r # q => proc'[r] = proc[r]
<1> DEFINE t == [proc EXCEPT ![q].state = "EMBRYO"]
<1>1. proc' = [t EXCEPT ![q].pid = nextpid]
  OBVIOUS
<1>2. "EMBRYO" \in States
  BY DEF States
<1>3. t \in [Slots -> Procs]
  BY <1>2, AssignState
<1>4. /\ t[q].state = "EMBRYO"
      /\ \A r \in Slots : /\ t[r].parent = proc[r].parent
                          /\ r # q => t[r] = proc[r]
  BY SetState
<1> HIDE DEF t
<1> QED
  BY <1>1, <1>3, <1>4 DEF Procs

LEMMA StackEffect ==
  ASSUME proc \in [Slots -> Procs], NEW q,
         proc' = [proc EXCEPT ![q].ticket = 1, ![q].boostsleft = 0,
                              ![q].sleepTicks = 0, ![q].sleepTicksCount = 0]
  PROVE  \A r \in Slots : /\ proc'[r].pid = proc[r].pid
                          /\ proc'[r].parent = proc[r].parent
                          /\ proc'[r].state = proc[r].state
<1> DEFINE Same(t, u) == /\ u \in [Slots -> Procs]
                         /\ \A r \in Slots : /\ u[r].pid = t[r].pid
                                             /\ u[r].parent = t[r].parent
                                             /\ u[r].state = t[r].state
           t1 == [proc EXCEPT ![q].ticket = 1]
           t2 == [t1 EXCEPT ![q].boostsleft = 0]
           t3 == [t2 EXCEPT ![q].sleepTicks = 0]
           t4 == [t3 EXCEPT ![q].sleepTicksCount = 0]
<1>1. proc' = t4
  OBVIOUS
<1>0. 0 \in Nat /\ 1 \in Nat /\ 0 \in Int
  OBVIOUS
<1>2. Same(proc, t1)
  <2>1. t1 \in [Slots -> Procs]
    BY <1>0, AssignNat
  <2> QED BY <2>1 DEF Procs
<1> HIDE DEF t1
<1>3. Same(t1, t2)
  <2>1. t1 \in [Slots -> Procs]
    BY <1>2
  <2>2. t2 \in [Slots -> Procs]
    BY <1>0, <2>1, AssignNat
  <2> QED BY <2>1, <2>2 DEF Procs
<1> HIDE DEF t2
<1>4. Same(t2, t3)
  <2>1. t2 \in [Slots -> Procs]
    BY <1>3
  <2>2. t3 \in [Slots -> Procs]
    BY <1>0, <2>1, AssignInt
  <2> QED BY <2>1, <2>2 DEF Procs
<1> HIDE DEF t3
<1>5. Same(t3, t4)
  <2>1. t3 \in [Slots -> Procs]
    BY <1>4
  <2>2. t4 \in [Slots -> Procs]
    BY <1>0, <2>1, AssignNat
  <2> QED BY <2>1, <2>2 DEF Procs
<1> HIDE DEF t4
<1> QED
  BY <1>1, <1>2, <1>3, <1>4, <1>5

LEMMA CopyEffect ==
  ASSUME proc \in [Slots -> Procs], NEW p \in Slots, NEW q \in Slots,
         proc' = [proc EXCEPT ![q].parent = p,
                              ![q].ticket = proc[p].ticket,
                              ![q].state = "RUNNABLE"]
  PROVE  /\ proc'[q].state = "RUNNABLE" /\ proc'[q].parent = p
         /\ proc'[q].pid = proc[q].pid
         /\ \A r \in Slots : r # q => proc'[r] = proc[r]
<1> DEFINE t1 == [proc EXCEPT ![q].parent = p]
           t2 == [t1 EXCEPT ![q].ticket = proc[p].ticket]
<1>1. proc' = [t2 EXCEPT ![q].state = "RUNNABLE"]
  OBVIOUS
<1>2. proc[p].ticket \in Nat /\ p \in 0 .. NPROC
  BY SlotZero DEF Procs
<1>3. /\ t1 \in [Slots -> Procs] /\ t1[q].parent = p /\ t1[q].pid = proc[q].pid
      /\ \A r \in Slots : r # q => t1[r] = proc[r]
  BY <1>2 DEF Procs
<1> HIDE DEF t1
<1>4. t2 \in [Slots -> Procs]
  BY <1>2, <1>3, AssignNat
<1>5. /\ t2[q].parent = p /\ t2[q].pid = proc[q].pid
      /\ \A r \in Slots : r # q => t2[r] = proc[r]
  BY <1>3 DEF Procs
<1> HIDE DEF t2
<1> QED
  BY <1>1, <1>4, <1>5, SetState

\* The three steps of fork that take, fill and give back the EMBRYO.
LEMMA AllocStep ==
  ASSUME IInv, TypeOK', NEW p \in Slots, NEW q \in Slots,
         proc[q].state = "UNUSED", loc[p] = "fork",
         proc'[q].state = "EMBRYO", proc'[q].pid = nextpid,
         \A r \in Slots : /\ proc'[r].parent = proc[r].parent
                          /\ r # q => proc'[r] = proc[r],
         nextpid' = PidAfter(nextpid),
         np' = [np EXCEPT ![p] = q],
         loc' = [loc EXCEPT ![p] = "stack"],
         UNCHANGED <<cpu, trapping>>
  PROVE  IInv'
<1>1. /\ proc'[q].state = "EMBRYO" /\ proc'[q].pid = nextpid
      /\ \A r \in Slots : /\ proc'[r].parent = proc[r].parent
                          /\ r # q => proc'[r] = proc[r]
  OBVIOUS
<1>0. /\ initproc \in Slots /\ nextpid \in Nat /\ nextpid' = nextpid + 1
      /\ proc \in [Slots -> Procs] /\ np \in [Slots -> 0 .. NPROC]
      /\ loc \in [Slots -> Locs]
  <2>1. TypeOK
    BY DEF IInv
  <2> QED
    BY <2>1, TypeParts, TableAssumption DEF initproc, Slots, PidAfter
<1>2. \A r \in Slots : Alive(r)' <=> Alive(r)
  BY <1>1 DEF Alive
<1>3. RunningOnOneCpu'
  BY <1>1 DEF IInv, RunningOnOneCpu
<1>4. TrapInv'
  BY DEF IInv, TrapInv
<1>5. ForkInv'
  <2>1. /\ np'[p] = q
        /\ \A r \in Slots : r # p => np'[r] = np[r] /\ (Forking(r)' <=> Forking(r))
    BY <1>0 DEF Forking
  <2> QED
    BY <1>1, <2>1 DEF IInv, ForkInv
<1>6. Alive(initproc)'
  BY <1>0, <1>2 DEF IInv
<1>7. NoOrphans'
  <2>1. \A r \in Slots : Alive(r)' \/ proc'[r].state = "ZOMBIE"
                            => Alive(r) \/ proc[r].state = "ZOMBIE"
    BY <1>1, <1>2
  <2> QED
    BY <1>1, <1>2, <2>1 DEF IInv, NoOrphans
<1>8. UniquePids'
  <2>1. \A r \in Slots : r # q /\ proc[r].state # "UNUSED" => proc[r].pid < nextpid
    BY DEF IInv, UniquePids
  <2>2. \A r \in Slots : proc[r].pid \in Nat
    BY <1>0 DEF Procs
  <2>3. \A r, u \in Slots : r # u /\ proc[r].state # "UNUSED"
          /\ proc[u].state # "UNUSED" => proc[r].pid # proc[u].pid
    BY DEF IInv, UniquePids
  <2>4. \A r \in Slots : proc'[r].state # "UNUSED" =>
          /\ proc'[r].pid < nextpid + 1
          /\ r # q => proc[r].state # "UNUSED" /\ proc'[r].pid = proc[r].pid
                      /\ proc'[r].pid # nextpid
    BY <1>0, <1>1, <2>1, <2>2
  <2> QED
    BY <1>0, <1>1, <2>3, <2>4 DEF UniquePids
<1> QED
  BY <1>3, <1>4, <1>5, <1>6, <1>7, <1>8 DEF IInv

LEMMA ForkFailsStep ==
  ASSUME IInv, TypeOK', NEW p \in Slots, Forking(p), ForkFails(p),
         UNCHANGED <<cpu, trapping, nextpid>>
  PROVE  IInv'
<1> DEFINE q == np[p]
<1>0. /\ initproc \in Slots
      /\ proc \in [Slots -> Procs] /\ np \in [Slots -> 0 .. NPROC]
      /\ loc \in [Slots -> Locs]
  <2>1. TypeOK
    BY DEF IInv
  <2> QED
    BY <2>1, TypeParts, TableAssumption DEF initproc, Slots
<1>1. q \in Slots /\ proc[q].state = "EMBRYO"
  BY DEF IInv, ForkInv
<1>2. /\ proc'[q].state = "UNUSED"
      /\ \A r \in Slots : /\ proc'[r].parent = proc[r].parent
                          /\ r # q => proc'[r] = proc[r]
  BY <1>0, <1>1, SetState DEF ForkFails
<1>3. /\ ~Forking(p)'
      /\ \A r \in Slots : r # p => np'[r] = np[r] /\ (Forking(r)' <=> Forking(r))
  BY <1>0 DEF ForkFails, Return, Forking
<1> HIDE DEF q
<1>4. \A r \in Slots : Alive(r)' <=> Alive(r)
  BY <1>1, <1>2 DEF Alive
<1>5. RunningOnOneCpu'
  BY <1>1, <1>2 DEF IInv, RunningOnOneCpu
<1>6. TrapInv'
  BY DEF IInv, TrapInv
<1>7. ForkInv'
  BY <1>2, <1>3 DEF IInv, ForkInv, q
<1>8. Alive(initproc)'
  BY <1>0, <1>4 DEF IInv
<1>9. NoOrphans'
  <2>1. \A r \in Slots : Alive(r)' \/ proc'[r].state = "ZOMBIE"
                            => Alive(r) \/ proc[r].state = "ZOMBIE"
    BY <1>2, <1>4
  <2> QED
    BY <1>2, <1>4, <2>1 DEF IInv, NoOrphans
<1>10. UniquePids'
  BY <1>1, <1>2 DEF IInv, UniquePids
<1> QED
  BY <1>5, <1>6, <1>7, <1>8, <1>9, <1>10 DEF IInv

LEMMA CopyStep ==
  ASSUME IInv, TypeOK', NEW p \in Slots, Running(p), Forking(p),
         proc'[np[p]].state = "RUNNABLE", proc'[np[p]].parent = p,
         proc'[np[p]].pid = proc[np[p]].pid,
         \A r \in Slots : r # np[p] => proc'[r] = proc[r],
         loc' = [loc EXCEPT ![p] = IF proc[p].killed THEN "exit" ELSE "user",
                            ![np[p]] = "user"],
         np' = [np EXCEPT ![p] = 0],
         UNCHANGED <<cpu, trapping, nextpid>>
  PROVE  IInv'
<1> DEFINE q == np[p]
<1>0. /\ initproc \in Slots /\ p # 0
      /\ proc \in [Slots -> Procs] /\ np \in [Slots -> 0 .. NPROC]
      /\ loc \in [Slots -> Locs] /\ cpu \in [CPUs -> 0 .. NPROC]
  <2>1. TypeOK
    BY DEF IInv
  <2> QED
    BY <2>1, TypeParts, TableAssumption DEF initproc, Slots
<1>1. q \in Slots /\ proc[q].state = "EMBRYO"
  BY DEF IInv, ForkInv
<1>2. /\ proc'[q].state = "RUNNABLE" /\ proc'[q].parent = p
      /\ proc'[q].pid = proc[q].pid
      /\ \A r \in Slots : r # q => proc'[r] = proc[r]
  OBVIOUS
<1>3. /\ ~Forking(p)'
      /\ \A r \in Slots : r # p => np'[r] = np[r] /\ (Forking(r)' => Forking(r))
  <2>1. p # q
    <3>1. \E c \in CPUs : cpu[c] = p
      BY DEF Running, Executes
    <3> QED
      BY <1>1, <3>1 DEF IInv, RunningOnOneCpu
  <2> QED
    BY <1>0, <1>1, <2>1 DEF Forking
<1> HIDE DEF q
<1>4. Alive(p) /\ p # q
  <2>1. \E c \in CPUs : cpu[c] = p
    BY DEF Running, Executes
  <2>2. proc[p].state = "RUNNING"
    BY <2>1 DEF IInv, RunningOnOneCpu
  <2> QED
    BY <1>1, <2>2 DEF Alive
<1>5. \A r \in Slots : Alive(r) => Alive(r)' /\ r # q
  BY <1>1, <1>2 DEF Alive
<1>6. RunningOnOneCpu'
  BY <1>1, <1>2 DEF IInv, RunningOnOneCpu
<1>7. TrapInv'
  BY DEF IInv, TrapInv
<1>8. ForkInv'
  BY <1>2, <1>3 DEF IInv, ForkInv, q
<1>9. Alive(initproc)'
  BY <1>0, <1>5 DEF IInv
<1>10. NoOrphans'
  <2>1. \A r \in Slots : r # q =>
          proc'[r].parent = proc[r].parent /\ proc'[r].state = proc[r].state
    BY <1>2
  <2>2. \A r \in Slots : r # q /\ (Alive(r)' \/ proc'[r].state = "ZOMBIE")
                            => Alive(r) \/ proc[r].state = "ZOMBIE"
    BY <2>1 DEF Alive
  <2>3. \A r \in Slots \ {initproc} : r # q /\ (Alive(r)' \/ proc'[r].state = "ZOMBIE")
          => proc'[r].parent \in Slots /\ Alive(proc'[r].parent)
    BY <2>1, <2>2 DEF IInv, NoOrphans
  <2> QED
    BY <1>2, <1>4, <1>5, <2>3 DEF NoOrphans
<1>11. UniquePids'
  BY <1>1, <1>2 DEF IInv, UniquePids
<1> QED
  BY <1>6, <1>7, <1>8, <1>9, <1>10, <1>11 DEF IInv

\* Each step of a process keeps the invariant.
LEMMA StepIInv ==
  ASSUME IInv, TypeOK', NEW p \in Slots, Step(p) \/ DiskIntr(p)
  PROVE  IInv'
<1>0. /\ TypeOK /\ proc \in [Slots -> Procs] /\ loc \in [Slots -> Locs]
      /\ trapping \subseteq CPUs
  <2>1. TypeOK
    BY DEF IInv
  <2> QED
    BY <2>1, TypeParts
<1>a. Running(p) => \E c \in CPUs : cpu[c] = p
  BY DEF Running, Executes
<1>b. ASSUME NEW t, Return(p, t) PROVE \A q \in Slots : Forking(q)' => Forking(q)
  BY <1>0, <1>b DEF Return, Forking
<1>1. CASE Enter(p)
  <2>1. \A q \in Slots : Forking(q)' => Forking(q)
    BY <1>0, <1>1 DEF Enter, SysCalls, Forking
  <2> QED
    BY <1>1, <2>1, AwakeStep DEF Enter
<1>2. CASE Trap(p)
  <2>1. \A q \in Slots : /\ proc'[q].pid = proc[q].pid
                         /\ proc'[q].parent = proc[q].parent
                         /\ proc'[q].state = proc[q].state
    BY <1>0, <1>2 DEF Trap, Procs
  <2>2. \A q \in Slots : Forking(q)' => Forking(q)
    BY <1>0, <1>2 DEF Trap, Forking
  <2> QED
    BY <1>2, <2>1, <2>2, AwakeStep DEF Trap
<1>3. CASE Kill(p)
  <2>1. PICK x \in KillArgs, q \in Slots :
          LET t == [proc EXCEPT ![q].killed = TRUE, ![q].state = KillState(@)]
          IN  proc' = t /\ Return(p, t)
    BY <1>3 DEF Kill
  <2> DEFINE t1 == [proc EXCEPT ![q].killed = TRUE]
             st == KillState(proc[q].state)
  <2>2. /\ t1 \in [Slots -> Procs]
        /\ \A r \in Slots : /\ t1[r].pid = proc[r].pid /\ t1[r].state = proc[r].state
                            /\ t1[r].parent = proc[r].parent
    BY <1>0 DEF Procs
  <2>3. proc' = [t1 EXCEPT ![q].state = st]
    BY <1>0, <2>1
  <2>4. st = proc[q].state \/ (proc[q].state = "SLEEPING" /\ st = "RUNNABLE")
    BY DEF KillState
  <2>5. \A r \in Slots : Forking(r)' => Forking(r)
    BY <1>b, <2>1
  <2> HIDE DEF t1, st
  <2>6. \A r \in Slots :
          /\ proc'[r].pid = proc[r].pid /\ proc'[r].parent = proc[r].parent
          /\ \/ proc'[r].state = proc[r].state
             \/ proc[r].state = "SLEEPING" /\ proc'[r].state = "RUNNABLE"
    BY <2>2, <2>3, <2>4, SetState
  <2>7. UNCHANGED <<cpu, trapping, nextpid, np>>
    BY <1>3 DEF Kill
  <2> QED
    BY <2>5, <2>6, <2>7, AwakeStep
<1>4. CASE Settickets(p)
  <2>1. \A q \in Slots : /\ proc'[q].pid = proc[q].pid
                         /\ proc'[q].parent = proc[q].parent
                         /\ proc'[q].state = proc[q].state
    BY <1>0, <1>4 DEF Settickets, Procs
  <2> QED
    BY <1>4, <2>1, AwakeStep DEF Settickets, Forking
<1>5. CASE AllocProc(p)
  <2>1. CASE Return(p, proc) /\ UNCHANGED <<proc, nextpid, np>>
    BY <1>5, <1>b, <2>1, AwakeStep DEF AllocProc
  <2>2. CASE \E q \in Slots :
               /\ proc[q].state = "UNUSED"
               /\ proc' = [proc EXCEPT ![q].state = "EMBRYO", ![q].pid = nextpid]
               /\ nextpid' = PidAfter(nextpid) /\ np' = [np EXCEPT ![p] = q]
               /\ loc' = [loc EXCEPT ![p] = "stack"]
    <3>1. loc[p] = "fork" /\ UNCHANGED <<cpu, trapping>>
      BY <1>5 DEF AllocProc, At
    <3>2. PICK q \in Slots :
               /\ proc[q].state = "UNUSED"
               /\ proc' = [proc EXCEPT ![q].state = "EMBRYO", ![q].pid = nextpid]
               /\ nextpid' = PidAfter(nextpid) /\ np' = [np EXCEPT ![p] = q]
               /\ loc' = [loc EXCEPT ![p] = "stack"]
      BY <2>2
    <3>3. /\ proc'[q].state = "EMBRYO" /\ proc'[q].pid = nextpid
          /\ \A r \in Slots : /\ proc'[r].parent = proc[r].parent
                              /\ r # q => proc'[r] = proc[r]
      BY <1>0, <3>2, AllocEffect
    <3> QED
      BY <3>1, <3>2, <3>3, AllocStep
  <2> QED
    BY <1>5, <2>1, <2>2 DEF AllocProc
<1>6. CASE AllocStack(p)
  <2>1. Forking(p) /\ UNCHANGED <<cpu, trapping, nextpid>>
    BY <1>6 DEF AllocStack, At, Forking
  <2>2. CASE ForkFails(p)
    BY <2>1, <2>2, ForkFailsStep
  <2>3. CASE /\ proc' = [proc EXCEPT ![np[p]].ticket = 1,
                                     ![np[p]].boostsleft = 0,
                                     ![np[p]].sleepTicks = 0,
                                     ![np[p]].sleepTicksCount = 0]
             /\ loc' = [loc EXCEPT ![p] = "copy"]
             /\ UNCHANGED np
    <3>1. \A q \in Slots : /\ proc'[q].pid = proc[q].pid
                           /\ proc'[q].parent = proc[q].parent
                           /\ proc'[q].state = proc[q].state
      BY <1>0, <2>3, StackEffect
    <3>2. \A q \in Slots : Forking(q)' => Forking(q)
      BY <1>0, <2>1, <2>3 DEF Forking
    <3> QED
      BY <2>1, <2>3, <3>1, <3>2, AwakeStep
  <2> QED
    BY <1>6, <2>2, <2>3 DEF AllocStack
<1>7. CASE CopyProc(p)
  <2>1. /\ Running(p) /\ Forking(p) /\ np[p] \in Slots
        /\ UNCHANGED <<cpu, trapping, nextpid>>
    BY <1>7 DEF CopyProc, At, Forking, IInv, ForkInv
  <2>2. CASE ForkFails(p)
    BY <2>1, <2>2, ForkFailsStep
  <2>3. CASE ~ForkFails(p)
    <3>1. /\ proc' = [proc EXCEPT ![np[p]].parent = p,
                                  ![np[p]].ticket = proc[p].ticket,
                                  ![np[p]].state = "RUNNABLE"]
          /\ loc' = [loc EXCEPT ![p] = IF proc[p].killed THEN "exit" ELSE "user",
                                ![np[p]] = "user"]
          /\ np' = [np EXCEPT ![p] = 0]
      BY <1>7, <2>3 DEF CopyProc
    <3>2. /\ proc'[np[p]].state = "RUNNABLE" /\ proc'[np[p]].parent = p
          /\ proc'[np[p]].pid = proc[np[p]].pid
          /\ \A r \in Slots : r # np[p] => proc'[r] = proc[r]
      BY <1>0, <2>1, <3>1, CopyEffect
    <3> QED
      BY <2>1, <3>1, <3>2, CopyStep
  <2> QED
    BY <2>2, <2>3
<1>8. CASE SysSleep(p)
  <2>1. PICK n \in SleepArgs :
          proc' = [proc EXCEPT ![p].sleepTicks = n, ![p].chan = TicksChan,
                               ![p].state = "SLEEPING"]
    BY <1>8 DEF SysSleep
  <2> DEFINE t1 == [proc EXCEPT ![p].sleepTicks = n]
             t2 == [t1 EXCEPT ![p].chan = TicksChan]
  <2>2. n \in Int
    BY TableAssumption
  <2>3. /\ t1 \in [Slots -> Procs]
        /\ \A q \in Slots : /\ t1[q].pid = proc[q].pid /\ t1[q].state = proc[q].state
                            /\ t1[q].parent = proc[q].parent
    BY <1>0, <2>2 DEF Procs
  <2>4. proc' = [t2 EXCEPT ![p].state = "SLEEPING"]
    BY <2>1
  <2> HIDE DEF t1
  <2>5. t2 \in [Slots -> Procs]
    BY <2>3, ChanType, AssignChan
  <2>6. \A q \in Slots : /\ t2[q].pid = proc[q].pid /\ t2[q].state = proc[q].state
                         /\ t2[q].parent = proc[q].parent
    BY <2>3, SetChan
  <2> HIDE DEF t2
  <2>7. /\ Running(p) /\ cpu' = Offcpu(p) /\ UNCHANGED <<nextpid, np, trapping>>
        /\ \A q \in Slots : Forking(q)' => Forking(q)
    BY <1>0, <1>8 DEF SysSleep, At, Forking
  <2> QED
    BY <2>4, <2>5, <2>6, <2>7, SleepStep
<1>9. CASE SleepReturns(p)
  BY <1>9, <1>b, AwakeStep DEF SleepReturns
<1>c. ASSUME NEW ch \in Chans, SleepOn(p, ch), Running(p),
             UNCHANGED <<loc, nextpid, np, trapping>>
      PROVE  IInv'
  <2> DEFINE t == [proc EXCEPT ![p].chan = ch]
  <2>1. proc' = [t EXCEPT ![p].state = "SLEEPING"] /\ cpu' = Offcpu(p)
    BY <1>c DEF SleepOn
  <2>2. t \in [Slots -> Procs]
    BY <1>0, <1>c, AssignChan
  <2>3. \A q \in Slots : /\ t[q].pid = proc[q].pid /\ t[q].state = proc[q].state
                         /\ t[q].parent = proc[q].parent
    BY <1>0, SetChan
  <2>4. \A q \in Slots : Forking(q)' => Forking(q)
    BY <1>c DEF Forking
  <2> HIDE DEF t
  <2> QED
    BY <1>c, <2>1, <2>2, <2>3, <2>4, SleepStep
<1>10. CASE DiskWait(p)
  <2>1. Running(p) /\ UNCHANGED <<nextpid, np, trapping>>
    BY <1>10 DEF DiskWait, At
  <2>2. CASE SleepOn(p, DiskChan(p)) /\ UNCHANGED loc
    BY <1>c, <2>1, <2>2, ChanType
  <2>3. CASE Return(p, proc) /\ UNCHANGED <<proc, cpu>>
    BY <1>b, <2>1, <2>3, AwakeStep
  <2> QED
    BY <1>10, <2>2, <2>3 DEF DiskWait
<1>11. CASE ExitIO(p)
  <2>1. \A q \in Slots : Forking(q)' => Forking(q)
    BY <1>0, <1>11 DEF ExitIO, Forking
  <2> QED
    BY <1>11, <2>1, AwakeStep DEF ExitIO
<1>12. CASE Exit(p)
  BY <1>12, ExitStep
<1>13. CASE Wait(p)
  <2>1. Running(p) /\ UNCHANGED <<nextpid, np, trapping>>
    BY <1>13 DEF Wait, At
  <2>2. CASE \E q \in Zombies(p) : /\ proc' = [proc EXCEPT ![q] = Reaped(@)]
                                   /\ Return(p, proc) /\ UNCHANGED cpu
    BY <1>b, <2>1, <2>2, ReapStep
  <2>3. CASE Return(p, proc) /\ UNCHANGED <<proc, cpu>>
    BY <1>b, <2>1, <2>3, AwakeStep
  <2>4. CASE SleepOn(p, ProcChan(p)) /\ UNCHANGED loc
    BY <1>c, <2>1, <2>4, ChanType
  <2> QED
    BY <1>13, <2>2, <2>3, <2>4 DEF Wait
<1>14. CASE DiskIntr(p)
  <2>1. \A q \in Slots : Awakened(proc[q], proc'[q])
    BY <1>0, <1>14, Wakeup1Type DEF DiskIntr
  <2>2. \A q \in Slots :
          /\ proc'[q].pid = proc[q].pid /\ proc'[q].parent = proc[q].parent
          /\ \/ proc'[q].state = proc[q].state
             \/ proc[q].state = "SLEEPING" /\ proc'[q].state = "RUNNABLE"
    BY <2>1 DEF Awakened
  <2> QED
    BY <1>14, <2>2, AwakeStep DEF DiskIntr, Forking
<1> QED
  BY <1>1, <1>2, <1>3, <1>4, <1>5, <1>6, <1>7, <1>8, <1>9, <1>10, <1>11,
     <1>12, <1>13, <1>14 DEF Step

\* Each step of a processor keeps the invariant.
LEMMA CpuIInv ==
  ASSUME IInv, TypeOK', NEW c \in CPUs,
         Schedule(c) \/ SchedulePanic(c) \/ TimerIntr(c) \/ Yield(c)
  PROVE  IInv'
<1>1. CASE Schedule(c)
  BY <1>1, ScheduleStep
<1>2. CASE SchedulePanic(c)
  BY <1>2, AwakeStep DEF SchedulePanic, Forking
<1>3. CASE TimerIntr(c)
  <2>1. TypeOK
    BY DEF IInv
  <2>2. proc \in [Slots -> Procs]
    BY <2>1, TypeParts
  <2>3. \A q \in Slots : Awakened(proc[q], proc'[q])
    BY <1>3, <2>2, Wakeup1Type, FieldsType DEF TimerIntr
  <2>4. \A q \in Slots :
          /\ proc'[q].pid = proc[q].pid /\ proc'[q].parent = proc[q].parent
          /\ \/ proc'[q].state = proc[q].state
             \/ proc[q].state = "SLEEPING" /\ proc'[q].state = "RUNNABLE"
    BY <2>3 DEF Awakened
  <2> QED
    BY <1>3, <2>4, AwakeStep DEF TimerIntr, Forking
<1>4. CASE Yield(c)
  BY <1>4, YieldStep
<1> QED
  BY <1>1, <1>2, <1>3, <1>4

\* ExitPanic and stuttering leave everything IInv reads as it was.
LEMMA NextIInv == IInv /\ [Next]_vars => IInv'
<1> SUFFICES ASSUME IInv, [Next]_vars PROVE IInv'
  OBVIOUS
<1>0. TypeOK
  BY DEF IInv
<1>1. CASE \E p \in Slots : Step(p) \/ DiskIntr(p)
  BY <1>0, <1>1, StepType, StepIInv
<1>2. CASE \E c \in CPUs : Schedule(c) \/ SchedulePanic(c) \/ TimerIntr(c) \/ Yield(c)
  BY <1>0, <1>2, CpuType, CpuIInv
<1>3. CASE ExitPanic
  <2>1. TypeOK'
    BY <1>0, <1>3 DEF ExitPanic, TypeOK
  <2> QED
    BY <1>3, <2>1, AwakeStep DEF ExitPanic, Forking
<1>4. CASE UNCHANGED vars
  <2>1. TypeOK'
    BY <1>0, <1>4 DEF vars, TypeOK
  <2> QED
    BY <1>4, <2>1, AwakeStep DEF vars, Forking
<1> QED
  BY <1>1, <1>2, <1>3, <1>4 DEF Next

-----------------------------------------------------------------------------
(* Sleepers and zombies                                                    *)

\* What a step may do to a slot that neither falls asleep, exits, is reaped
\* nor is the child of the fork that ends.
StaysAsleep(f, g) ==
  /\ f.state = "SLEEPING" /\ g.state = "SLEEPING"
  /\ g.chan = f.chan /\ g.sleepTicks = f.sleepTicks
  /\ g.sleepTicksCount >= f.sleepTicksCount
StaysUp(f, g) ==
  /\ f.state \in {"SLEEPING", "RUNNABLE", "RUNNING"}
  /\ g.state \in {"RUNNABLE", "RUNNING"}
  /\ \/ g.killed \/ g.sleepTicks = 0
     \/ /\ f.state # "SLEEPING"
        /\ g.sleepTicks = f.sleepTicks /\ g.killed = f.killed
StaysDead(f, g) ==
  /\ \/ f.state \in {"UNUSED", "EMBRYO"} /\ g.state \in {"UNUSED", "EMBRYO"}
     \/ f.state = "ZOMBIE" /\ g.state = "ZOMBIE"
  /\ g.sleepTicks = f.sleepTicks \/ g.sleepTicks = 0
Held(f, g) == StaysAsleep(f, g) \/ StaysUp(f, g) \/ StaysDead(f, g)
Kept(f, g) == g.parent = f.parent /\ Held(f, g)

LEMMA KeptSame == ASSUME NEW f \in Procs PROVE Kept(f, f)
<1>1. f.state \in States /\ f.sleepTicksCount >= f.sleepTicksCount
  BY DEF Procs
<1>2. f.state = "SLEEPING" => StaysAsleep(f, f)
  BY <1>1 DEF StaysAsleep
<1>3. f.state \in {"RUNNABLE", "RUNNING"} => StaysUp(f, f)
  BY DEF StaysUp
<1>4. f.state \in {"UNUSED", "EMBRYO", "ZOMBIE"} => StaysDead(f, f)
  BY DEF StaysDead
<1> QED
  BY <1>1, <1>2, <1>3, <1>4 DEF Kept, Held, States

LEMMA ChansDiffer ==
  \A p \in Slots : /\ TicksChan # ProcChan(p) /\ DiskChan(p) # ProcChan(p)
                   /\ \A q \in Slots : DiskChan(q) # ProcChan(p)
                   /\ \A q \in Slots : ProcChan(q) = ProcChan(p) => p = q
  BY DEF TicksChan, ProcChan, DiskChan

\* A sleeper is let go by the Calls-th call of wakeup1, and every call that
\* does not let it go brings it one nearer, or leaves it at the last one.
LEMMA CallsStep ==
  ASSUME NEW f \in Procs
  PROVE  /\ Calls(f) >= 1
         /\ f.sleepTicks = 0 => Calls(f) = 1
         /\ \A g \in Procs : StaysAsleep(f, g) => Calls(g) <= Calls(f)
         /\ \A g \in Procs : /\ g.sleepTicks = f.sleepTicks /\ Calls(f) > 1
                             /\ g.sleepTicksCount = f.sleepTicksCount + 1
                             => Calls(g) = Calls(f) - 1
<1>1. f.sleepTicks \in Int /\ f.sleepTicksCount \in Nat
  BY DEF Procs
<1>2. \A g \in Procs : g.sleepTicks \in Int /\ g.sleepTicksCount \in Nat
  BY DEF Procs
<1>3. Calls(f) >= 1 /\ (f.sleepTicks = 0 => Calls(f) = 1)
  BY <1>1 DEF Calls
<1>4. ASSUME NEW g \in Procs, StaysAsleep(f, g) PROVE Calls(g) <= Calls(f)
  <2>1. /\ g.sleepTicksCount \in Nat /\ g.sleepTicksCount >= f.sleepTicksCount
        /\ g.sleepTicks = f.sleepTicks
    BY <1>2, <1>4 DEF StaysAsleep
  <2> QED
    BY <1>1, <2>1 DEF Calls
<1>5. ASSUME NEW g \in Procs, g.sleepTicks = f.sleepTicks, Calls(f) > 1,
             g.sleepTicksCount = f.sleepTicksCount + 1
      PROVE  Calls(g) = Calls(f) - 1
  BY <1>1, <1>5 DEF Calls
<1> QED
  BY <1>3, <1>4, <1>5

\* What n calls of wakeup1 do to one sleeper.
LEMMA WakeupEffect ==
  ASSUME NEW t \in [Slots -> Procs], NEW ch, NEW n \in Nat, NEW q \in Slots
  PROVE  LET f == t[q]
             g == Wakeup1(t, ch, n)[q] IN
           /\ Kept(f, g)
           /\ f.state # "SLEEPING" => g = f
           /\ f.state = "SLEEPING" /\ f.chan = ch /\ Calls(f) <= n
                => g.state = "RUNNABLE"
           /\ g.state = "SLEEPING" =>
                /\ StaysAsleep(f, g)
                /\ g.sleepTicksCount = f.sleepTicksCount + n
                /\ f.chan = ch => Calls(f) > n
<1> DEFINE f == t[q]
           w == Woken(f)
           k == [f EXCEPT !.boostsleft = @ + n, !.sleepTicksCount = @ + n]
<1>1. f \in Procs
  OBVIOUS
<1>2. Wakeup1(t, ch, n)[q] = IF f.state # "SLEEPING" THEN f
                             ELSE IF f.chan = ch /\ Calls(f) <= n THEN w ELSE k
  BY DEF Wakeup1
<1>3. f.state = "SLEEPING" => w.state = "RUNNABLE" /\ w.sleepTicks = 0
                              /\ w.parent = f.parent
  BY <1>1 DEF Woken, Procs
<1>4. /\ k.state = f.state /\ k.chan = f.chan /\ k.sleepTicks = f.sleepTicks
      /\ k.parent = f.parent /\ k.sleepTicksCount = f.sleepTicksCount + n
  BY <1>1 DEF Procs
<1>5. f.sleepTicksCount \in Nat /\ Calls(f) \in Nat
  BY <1>1, CallsType DEF Procs
<1>6. f.state = "SLEEPING" => Kept(f, w)
  BY <1>3 DEF Kept, Held, StaysUp
<1>7. f.state = "SLEEPING" => Kept(f, k) /\ StaysAsleep(f, k)
  BY <1>4, <1>5 DEF Kept, Held, StaysAsleep
<1>8. Kept(f, f)
  BY <1>1, KeptSame
<1> HIDE DEF f, w, k
<1> QED
  BY <1>2, <1>3, <1>4, <1>5, <1>6, <1>7, <1>8 DEF f

\* What a slot that goes to sleep in a step looks like.
FallsAsleep(q) ==
  /\ proc[q].state = "RUNNING" /\ proc'[q].state = "SLEEPING"
  /\ proc'[q].parent = proc[q].parent
  /\ \/ /\ proc'[q].chan = TicksChan /\ loc'[q] = "slept"
        /\ ticks' + Calls(proc'[q]) <= due'[q]
     \/ proc'[q].chan = DiskChan(q) /\ loc'[q] # "slept"
     \/ /\ proc'[q].chan = ProcChan(q) /\ loc'[q] # "slept"
        /\ proc'[q].sleepTicks = 0 /\ Zombies(q) = {}

\* A step in which nobody exits, is reaped or is born.
QuietStep ==
  /\ \A q \in Slots : Kept(proc[q], proc'[q]) \/ FallsAsleep(q)
  /\ \A q \in Slots : StaysAsleep(proc[q], proc'[q]) /\ loc'[q] = "slept" =>
       /\ loc[q] = "slept" /\ due'[q] = due[q]
       /\ ticks' + Calls(proc'[q]) <= ticks + Calls(proc[q])
  /\ \A q \in Slots : loc'[q] = "copy" => proc'[np'[q]].sleepTicks = 0

LEMMA QuietSleepInv ==
  ASSUME IInv, TypeOK', SleepInv, QuietStep
  PROVE  SleepInv'
<1>1. \A q \in Slots : /\ proc[q] \in Procs /\ proc'[q] \in Procs
                       /\ Calls(proc[q]) \in Nat /\ Calls(proc'[q]) \in Nat
                       /\ due[q] \in Int /\ ticks \in Nat /\ ticks' \in Nat
  BY CallsType DEF IInv, TypeOK
<1>2. /\ proc'[initproc].parent = 0
      /\ \A q \in Slots : proc'[q].parent # q
  <2>1. \A q \in Slots : proc'[q].parent = proc[q].parent
    BY DEF QuietStep, Kept, Held, FallsAsleep
  <2>2. initproc \in Slots
    BY TableAssumption DEF initproc, Slots
  <2> QED
    BY <2>1, <2>2 DEF SleepInv
<1>3. \A q \in Slots : Zombies(q)' = Zombies(q)
  <2>1. \A r \in Slots : /\ proc'[r].parent = proc[r].parent
                         /\ proc'[r].state = "ZOMBIE" <=> proc[r].state = "ZOMBIE"
    BY DEF QuietStep, Kept, Held, FallsAsleep, StaysAsleep, StaysUp, StaysDead
  <2> QED
    BY <2>1 DEF Zombies
<1>4. ASSUME NEW q \in Slots, proc'[q].state \in {"RUNNABLE", "RUNNING"},
             ~proc'[q].killed
      PROVE  proc'[q].sleepTicks = 0
  <2>1. StaysUp(proc[q], proc'[q])
    BY <1>4 DEF QuietStep, Kept, Held, FallsAsleep, StaysAsleep, StaysDead
  <2> QED
    BY <1>4, <2>1 DEF SleepInv, StaysUp
<1>5. \A q \in Slots : proc'[q].state = "SLEEPING" =>
        StaysAsleep(proc[q], proc'[q]) \/ FallsAsleep(q)
  BY DEF QuietStep, Kept, Held, StaysUp, StaysDead
<1>6. ASSUME NEW q \in Slots, proc'[q].state = "SLEEPING",
             proc'[q].chan = ProcChan(q)
      PROVE  proc'[q].sleepTicks = 0 /\ Zombies(q) = {}
  <2>1. CASE StaysAsleep(proc[q], proc'[q])
    BY <1>6, <2>1 DEF SleepInv, StaysAsleep
  <2>2. CASE FallsAsleep(q)
    BY <1>6, <2>2, ChansDiffer DEF FallsAsleep
  <2> QED
    BY <1>5, <1>6, <2>1, <2>2
<1>7. ASSUME NEW q \in Slots, proc'[q].state = "SLEEPING", loc'[q] = "slept"
      PROVE  proc'[q].chan = TicksChan /\ ticks' + Calls(proc'[q]) <= due'[q]
  <2>1. CASE StaysAsleep(proc[q], proc'[q])
    <3>1. /\ loc[q] = "slept" /\ due'[q] = due[q]
          /\ ticks' + Calls(proc'[q]) <= ticks + Calls(proc[q])
      BY <1>7, <2>1 DEF QuietStep
    <3>2. /\ proc[q].chan = TicksChan /\ ticks + Calls(proc[q]) <= due[q]
          /\ proc'[q].chan = proc[q].chan
      BY <2>1, <3>1 DEF SleepInv, StaysAsleep
    <3> HIDE DEF TicksChan
    <3> QED
      BY <1>1, <3>1, <3>2
  <2>2. CASE FallsAsleep(q)
    BY <1>7, <2>2 DEF FallsAsleep
  <2> QED
    BY <1>5, <1>7, <2>1, <2>2
<1>8. \A q \in Slots : loc'[q] = "copy" => proc'[np'[q]].sleepTicks = 0
  BY DEF QuietStep
<1> QED
  BY <1>2, <1>3, <1>4, <1>6, <1>7, <1>8 DEF SleepInv

\* wait takes one zombie out of the table.
ReapingStep ==
  \E p \in Slots : \E q \in Zombies(p) :
    /\ At(p, "wait")
    /\ proc' = [proc EXCEPT ![q] = Reaped(@)]
    /\ Return(p, proc)
    /\ UNCHANGED <<np, ticks, due>>

LEMMA ReapingSleepInv ==
  ASSUME IInv, TypeOK', SleepInv, ReapingStep
  PROVE  SleepInv'
<1>1. PICK p \in Slots, q \in Slots :
        /\ q \in Zombies(p)
        /\ proc' = [proc EXCEPT ![q] = Reaped(@)]
        /\ Return(p, proc) /\ UNCHANGED <<np, ticks, due>>
  BY DEF ReapingStep, Zombies
<1>2. /\ proc \in [Slots -> Procs] /\ loc \in [Slots -> Locs]
      /\ q \in Slots /\ proc[q].state = "ZOMBIE" /\ initproc \in Slots
  <2>1. q \in Slots /\ proc[q].state = "ZOMBIE"
    BY <1>1 DEF Zombies
  <2>2. initproc \in Slots
    BY TableAssumption DEF initproc, Slots
  <2> QED
    BY <2>1, <2>2, TypeParts DEF IInv
<1>3. /\ proc'[q].state = "UNUSED" /\ proc'[q].parent = 0
      /\ \A r \in Slots : r # q => proc'[r] = proc[r]
  BY <1>1, <1>2 DEF Reaped, Procs
<1>4. /\ proc'[initproc].parent = 0
      /\ \A r \in Slots : proc'[r].parent # r
  BY <1>2, <1>3, SlotZero DEF SleepInv, Slots
<1>5. \A r \in Slots : Zombies(r)' \subseteq Zombies(r)
  BY <1>3 DEF Zombies
<1>6. \A r \in Slots : loc'[r] \in {"slept", "copy"} => loc'[r] = loc[r]
  BY <1>1, <1>2 DEF Return
<1>7. \A r \in Slots : loc'[r] = "copy" => proc'[np'[r]].sleepTicks = 0
  <2>1. \A r \in Slots : loc[r] = "copy" => np[r] \in Slots /\ np[r] # q
    BY <1>2 DEF IInv, ForkInv, Forking
  <2> QED
    BY <1>1, <1>3, <1>6, <2>1 DEF SleepInv
<1>8. \A r \in Slots : proc'[r].state \in {"SLEEPING", "RUNNABLE", "RUNNING"}
        => proc'[r] = proc[r]
  BY <1>3
<1>9. \A r \in Slots :
        /\ proc'[r].state \in {"RUNNABLE", "RUNNING"} /\ ~proc'[r].killed
             => proc'[r].sleepTicks = 0
        /\ proc'[r].state = "SLEEPING" /\ proc'[r].chan = ProcChan(r)
             => proc'[r].sleepTicks = 0 /\ Zombies(r)' = {}
  BY <1>5, <1>8 DEF SleepInv
<1>10. \A r \in Slots : proc'[r].state = "SLEEPING" /\ loc'[r] = "slept"
             => proc'[r].chan = TicksChan /\ ticks' + Calls(proc'[r]) <= due'[r]
  BY <1>1, <1>6, <1>8 DEF SleepInv
<1> QED
  BY <1>4, <1>7, <1>9, <1>10 DEF SleepInv

\* fork ends: the EMBRYO of one caller becomes a runnable child.
BirthStep ==
  \E p \in Slots :
    /\ loc[p] = "copy" /\ Running(p)
    /\ proc'[np[p]].state = "RUNNABLE" /\ proc'[np[p]].parent = p
    /\ proc'[np[p]].sleepTicks = proc[np[p]].sleepTicks
    /\ \A r \in Slots : r # np[p] => proc'[r] = proc[r]
    /\ loc' = [loc EXCEPT ![p] = IF proc[p].killed THEN "exit" ELSE "user",
                          ![np[p]] = "user"]
    /\ np' = [np EXCEPT ![p] = 0]
    /\ UNCHANGED <<ticks, due>>

LEMMA BirthSleepInv ==
  ASSUME IInv, TypeOK', SleepInv, BirthStep
  PROVE  SleepInv'
<1>1. PICK p \in Slots :
        /\ loc[p] = "copy" /\ Running(p)
        /\ proc'[np[p]].state = "RUNNABLE" /\ proc'[np[p]].parent = p
        /\ proc'[np[p]].sleepTicks = proc[np[p]].sleepTicks
        /\ \A r \in Slots : r # np[p] => proc'[r] = proc[r]
        /\ loc' = [loc EXCEPT ![p] = IF proc[p].killed THEN "exit" ELSE "user",
                              ![np[p]] = "user"]
        /\ np' = [np EXCEPT ![p] = 0]
        /\ UNCHANGED <<ticks, due>>
  BY DEF BirthStep
<1> DEFINE q == np[p]
<1>2. /\ loc \in [Slots -> Locs] /\ np \in [Slots -> 0 .. NPROC]
      /\ q \in Slots /\ proc[q].state = "EMBRYO" /\ initproc \in Slots
  <2>1. q \in Slots /\ proc[q].state = "EMBRYO"
    BY <1>1 DEF IInv, ForkInv, Forking
  <2>2. initproc \in Slots
    BY TableAssumption DEF initproc, Slots
  <2> QED
    BY <2>1, <2>2, TypeParts DEF IInv
<1>3. /\ proc'[q].state = "RUNNABLE" /\ proc'[q].parent = p
      /\ proc'[q].sleepTicks = 0
      /\ \A r \in Slots : r # q => proc'[r] = proc[r]
  BY <1>1 DEF SleepInv
<1>4. /\ loc'[p] \in {"exit", "user"} /\ loc'[q] = "user"
      /\ \A r \in Slots : r # p /\ r # q => loc'[r] = loc[r] /\ np'[r] = np[r]
      /\ p # q => np'[q] = np[q]
  BY <1>1, <1>2
<1>5. p # q
  <2>1. \E c \in CPUs : cpu[c] = p
    BY <1>1 DEF Running, Executes
  <2>2. proc[p].state = "RUNNING"
    BY <2>1 DEF IInv, RunningOnOneCpu
  <2> QED
    BY <1>2, <2>2
<1>6. q # initproc
  BY <1>2 DEF IInv, Alive
<1>7. \A r \in Slots : loc[r] = "copy" /\ r # p => np[r] \in Slots /\ np[r] # q
  BY <1>1, <1>2 DEF IInv, ForkInv, Forking
<1> HIDE DEF q
<1>8. /\ proc'[initproc].parent = 0
      /\ \A r \in Slots : proc'[r].parent # r
  BY <1>2, <1>3, <1>5, <1>6 DEF SleepInv
<1>9. \A r \in Slots : Zombies(r)' \subseteq Zombies(r)
  BY <1>3 DEF Zombies
<1>10. \A r \in Slots : loc'[r] = "copy" => proc'[np'[r]].sleepTicks = 0
  <2>1. \A r \in Slots : loc'[r] = "copy" =>
          loc[r] = "copy" /\ r # p /\ np'[r] = np[r]
    BY <1>4
  <2> QED
    BY <1>3, <1>7, <2>1 DEF SleepInv
<1>11. ASSUME NEW r \in Slots
       PROVE  /\ proc'[r].state \in {"RUNNABLE", "RUNNING"} /\ ~proc'[r].killed
                   => proc'[r].sleepTicks = 0
              /\ proc'[r].state = "SLEEPING" /\ proc'[r].chan = ProcChan(r)
                   => proc'[r].sleepTicks = 0 /\ Zombies(r)' = {}
  BY <1>3, <1>9 DEF SleepInv
<1>12. ASSUME NEW r \in Slots, proc'[r].state = "SLEEPING", loc'[r] = "slept"
       PROVE  proc'[r].chan = TicksChan /\ ticks' + Calls(proc'[r]) <= due'[r]
  <2>1. loc[r] = "slept" /\ proc'[r] = proc[r]
    BY <1>3, <1>4, <1>12
  <2> QED
    BY <1>1, <1>12, <2>1 DEF SleepInv
<1> QED
  BY <1>8, <1>10, <1>11, <1>12 DEF SleepInv

\* Two steps of that kind are one.
LEMMA HeldTwice ==
  ASSUME NEW f \in Procs, NEW g \in Procs, NEW h \in Procs, Held(f, g), Held(g, h)
  PROVE  Held(f, h)
<1>0. /\ f.sleepTicksCount \in Nat /\ g.sleepTicksCount \in Nat
      /\ h.sleepTicksCount \in Nat
      /\ f.killed \in BOOLEAN /\ g.killed \in BOOLEAN /\ h.killed \in BOOLEAN
  BY DEF Procs
<1>1. CASE StaysAsleep(f, g) /\ StaysAsleep(g, h)
  BY <1>0, <1>1 DEF StaysAsleep, Held
<1>2. CASE StaysAsleep(f, g) /\ StaysUp(g, h)
  BY <1>2 DEF StaysAsleep, StaysUp, Held
<1>3. CASE StaysUp(f, g) /\ StaysUp(g, h)
  BY <1>0, <1>3 DEF StaysUp, Held
<1>4. CASE StaysDead(f, g) /\ StaysDead(g, h)
  BY <1>4 DEF StaysDead, Held
<1> QED
  BY <1>1, <1>2, <1>3, <1>4 DEF Held, StaysAsleep, StaysUp, StaysDead

\* Handing children over wakes init when one of them is a zombie.
LEMMA PassEffect ==
  ASSUME NEW t \in [Slots -> Procs], NEW p, NEW q \in Slots
  PROVE  LET f == t[q]
             g == PassChildren(p, t)[q] IN
           /\ Held(f, g)
           /\ Zombies(p) # {} /\ f.chan = ProcChan(initproc) /\ Calls(f) <= 1
                => g.state # "SLEEPING"
           /\ f.state # "SLEEPING" => g.sleepTicks = f.sleepTicks
<1> DEFINE n     == Cardinality(Zombies(p))
           woken == IF n = 0 THEN t ELSE Wakeup1(t, ProcChan(initproc), n)
           f == t[q]
           w == woken[q]
<1>1. n \in Nat /\ (Zombies(p) # {} => n # 0)
  <2>1. IsFiniteSet(Slots)
    BY SlotZero, FS_Interval DEF Slots
  <2>2. IsFiniteSet(Zombies(p))
    BY <2>1, FS_Subset DEF Zombies
  <2> QED
    BY <2>2, FS_CardinalityType, FS_EmptySet
<1> HIDE DEF n
<1>2. f \in Procs /\ Calls(f) \in Nat
  BY CallsType
<1>3. /\ w \in Procs /\ Held(f, w)
      /\ Zombies(p) # {} /\ f.chan = ProcChan(initproc) /\ Calls(f) <= 1
           => w.state # "SLEEPING"
      /\ f.state # "SLEEPING" => w.sleepTicks = f.sleepTicks
  <2>1. CASE n # 0
    <3>1. woken = Wakeup1(t, ProcChan(initproc), n)
      BY <2>1
    <3>2. w \in Procs
      BY <1>1, <3>1, Wakeup1Type
    <3>3. /\ Kept(f, w) /\ (f.state # "SLEEPING" => w = f)
          /\ w.state = "SLEEPING" /\ f.chan = ProcChan(initproc) => Calls(f) > n
      BY <1>1, <3>1, WakeupEffect
    <3> QED
      BY <1>1, <1>2, <2>1, <3>2, <3>3 DEF Kept
  <2>2. CASE n = 0
    BY <1>1, <1>2, <2>2, KeptSame DEF Kept
  <2> QED
    BY <2>1, <2>2
<1>4. PassChildren(p, t)[q] = IF f.parent = p THEN [w EXCEPT !.parent = initproc]
                                              ELSE w
  BY DEF PassChildren, n
<1> HIDE DEF f, w
<1>5. LET g == [w EXCEPT !.parent = initproc] IN
        /\ g.state = w.state /\ g.killed = w.killed /\ g.chan = w.chan
        /\ g.sleepTicks = w.sleepTicks /\ g.sleepTicksCount = w.sleepTicksCount
  BY <1>3 DEF Procs
<1>6. Held(f, [w EXCEPT !.parent = initproc])
  BY <1>3, <1>5 DEF Held, StaysAsleep, StaysUp, StaysDead
<1> QED
  BY <1>3, <1>4, <1>5, <1>6 DEF f

\* What exit does to the slots but its own: children go to init, sleepers
\* of the parent that one call lets go are let go, and so is init when a
\* zombie is among the children.
LEMMA ExitKeeps ==
  ASSUME TypeOK, NEW p \in Slots, Exit(p), NEW q \in Slots, q # p
  PROVE  LET f == proc[q]
             g == proc'[q] IN
           /\ Held(f, g)
           /\ f.state # "SLEEPING" => g.sleepTicks = f.sleepTicks
           /\ g.state = "SLEEPING" =>
                /\ f.state = "SLEEPING" /\ f.chan = WaitChan(p) => Calls(f) > 1
                /\ Zombies(p) # {} /\ f.chan = ProcChan(initproc) => Calls(f) > 1
<1> DEFINE t == Wakeup1(proc, WaitChan(p), 1)
           f == proc[q]
           w == t[q]
           g == proc'[q]
<1>1. proc \in [Slots -> Procs] /\ f \in Procs /\ Calls(f) \in Nat
  BY CallsType, TypeParts
<1>2. t \in [Slots -> Procs] /\ w \in Procs /\ Calls(w) \in Nat
  BY <1>1, Wakeup1Type, CallsType
<1>3. /\ Kept(f, w) /\ (f.state # "SLEEPING" => w = f)
      /\ f.state = "SLEEPING" /\ f.chan = WaitChan(p) /\ Calls(f) <= 1
           => w.state = "RUNNABLE"
      /\ w.state = "SLEEPING" => StaysAsleep(f, w)
  BY <1>1, WakeupEffect
<1>4. proc' = [PassChildren(p, t) EXCEPT ![p].state = "ZOMBIE"]
  BY DEF Exit
<1> HIDE DEF t
<1>5. PassChildren(p, t) \in [Slots -> Procs]
  BY <1>2, PassChildrenType
<1>6. g = PassChildren(p, t)[q] /\ g \in Procs
  BY <1>4, <1>5
<1>7. /\ Held(w, g) /\ (w.state # "SLEEPING" => g.sleepTicks = w.sleepTicks)
      /\ Zombies(p) # {} /\ w.chan = ProcChan(initproc) /\ Calls(w) <= 1
           => g.state # "SLEEPING"
  BY <1>2, <1>6, PassEffect
<1> HIDE DEF f, w, g
<1>8. Held(f, g)
  BY <1>1, <1>2, <1>3, <1>6, <1>7, HeldTwice DEF Kept
<1>9. ASSUME g.state = "SLEEPING"
      PROVE  /\ f.state = "SLEEPING" /\ f.chan = WaitChan(p) => Calls(f) > 1
             /\ Zombies(p) # {} /\ f.chan = ProcChan(initproc) => Calls(f) > 1
  <2>1. w.state = "SLEEPING"
    BY <1>7, <1>9 DEF Held, StaysAsleep, StaysUp, StaysDead
  <2>2. StaysAsleep(f, w) /\ w.chan = f.chan /\ Calls(w) <= Calls(f)
    BY <1>1, <1>2, <1>3, <2>1, CallsStep DEF StaysAsleep
  <2> QED
    BY <1>1, <1>2, <1>3, <1>7, <1>9, <2>1, <2>2
<1>10. f.state # "SLEEPING" => g.sleepTicks = f.sleepTicks
  BY <1>3, <1>7
<1> QED
  BY <1>8, <1>9, <1>10 DEF f, g

LEMMA ExitSleepInv ==
  ASSUME IInv, TypeOK', SleepInv, NEW p \in Slots, Exit(p)
  PROVE  SleepInv'
<1>1. /\ TypeOK /\ UNCHANGED <<loc, np, ticks, due>> /\ p # initproc
      /\ initproc \in Slots
  BY TableAssumption DEF IInv, Exit, initproc, Slots
<1>2. \A q \in Slots : /\ proc[q] \in Procs /\ proc'[q] \in Procs
                       /\ Calls(proc[q]) \in Nat /\ Calls(proc'[q]) \in Nat
                       /\ due[q] \in Int /\ ticks \in Nat
  BY CallsType DEF IInv, TypeOK
<1>3. proc[p].state = "RUNNING"
  <2>1. \E c \in CPUs : cpu[c] = p
    BY DEF Exit, At, Running, Executes
  <2> QED
    BY <2>1 DEF IInv, RunningOnOneCpu
<1>4. /\ proc'[p].state = "ZOMBIE"
      /\ \A q \in Slots : proc'[q].parent = IF proc[q].parent = p THEN initproc
                                                               ELSE proc[q].parent
  BY <1>1, ExitEffect
<1>5. \A q \in Slots : q # p => Held(proc[q], proc'[q])
  BY <1>1, ExitKeeps
<1>6. \A q \in Slots : q # p /\ proc'[q].state = "SLEEPING" =>
        /\ proc[q].chan = WaitChan(p) => Calls(proc[q]) > 1
        /\ Zombies(p) # {} /\ proc[q].chan = ProcChan(initproc)
             => Calls(proc[q]) > 1
        /\ StaysAsleep(proc[q], proc'[q])
  <2>1. \A q \in Slots : q # p /\ proc'[q].state = "SLEEPING" =>
          StaysAsleep(proc[q], proc'[q])
    BY <1>5 DEF Held, StaysUp, StaysDead
  <2> QED
    BY <1>1, <2>1, ExitKeeps DEF StaysAsleep
<1>7. /\ proc'[initproc].parent = 0
      /\ \A q \in Slots : proc'[q].parent # q
  <2>1. proc[initproc].parent = 0 /\ 0 # p /\ 0 # initproc
    BY <1>1 DEF SleepInv, Slots, initproc
  <2> QED
    BY <1>1, <1>4, <2>1 DEF SleepInv
<1>8. ASSUME NEW q \in Slots, proc'[q].state \in {"RUNNABLE", "RUNNING"},
             ~proc'[q].killed
      PROVE  proc'[q].sleepTicks = 0
  <2>1. StaysUp(proc[q], proc'[q])
    BY <1>4, <1>5, <1>8 DEF Held, StaysAsleep, StaysDead
  <2> QED
    BY <1>8, <2>1 DEF SleepInv, StaysUp
<1>9. ASSUME NEW q \in Slots, proc'[q].state = "SLEEPING",
             proc'[q].chan = ProcChan(q)
      PROVE  proc'[q].sleepTicks = 0 /\ Zombies(q)' = {}
  <2>1. q # p /\ StaysAsleep(proc[q], proc'[q])
    BY <1>4, <1>6, <1>9
  <2>2. /\ proc[q].state = "SLEEPING" /\ proc[q].chan = ProcChan(q)
        /\ proc'[q].sleepTicks = proc[q].sleepTicks
    BY <1>9, <2>1 DEF StaysAsleep
  <2>3. proc[q].sleepTicks = 0 /\ Zombies(q) = {}
    BY <2>2 DEF SleepInv
  <2>4. Calls(proc[q]) = 1
    BY <1>2, <2>3, CallsStep
  <2>5. proc[p].parent # q
    BY <1>6, <1>9, <2>1, <2>2, <2>4 DEF WaitChan
  <2>6. Zombies(p) # {} => q # initproc
    BY <1>6, <1>9, <2>1, <2>2, <2>4
  <2>7. ASSUME NEW r \in Slots, proc'[r].state = "ZOMBIE", proc'[r].parent = q
        PROVE  FALSE
    <3>1. CASE r = p
      <4>1. proc[p].parent # p
        BY DEF SleepInv
      <4> QED
        BY <1>4, <2>5, <2>7, <3>1, <4>1
    <3>2. CASE r # p
      <4>1. proc[r].state = "ZOMBIE"
        BY <1>5, <2>7, <3>2 DEF Held, StaysAsleep, StaysUp, StaysDead
      <4>2. r \in Zombies(q) \/ (r \in Zombies(p) /\ q = initproc)
        BY <1>4, <2>7, <4>1 DEF Zombies
      <4> QED
        BY <2>3, <2>6, <4>2
    <3> QED
      BY <3>1, <3>2
  <2> QED
    BY <2>2, <2>3, <2>7 DEF Zombies
<1>10. ASSUME NEW q \in Slots, proc'[q].state = "SLEEPING", loc'[q] = "slept"
       PROVE  proc'[q].chan = TicksChan /\ ticks' + Calls(proc'[q]) <= due'[q]
  <2>1. q # p /\ StaysAsleep(proc[q], proc'[q])
    BY <1>4, <1>6, <1>10
  <2>2. Calls(proc'[q]) <= Calls(proc[q])
    BY <1>2, <2>1, CallsStep
  <2>3. /\ proc[q].chan = TicksChan /\ ticks + Calls(proc[q]) <= due[q]
        /\ proc'[q].chan = proc[q].chan
    BY <1>1, <1>10, <2>1 DEF SleepInv, StaysAsleep
  <2>4. ticks' = ticks /\ due' = due
    BY <1>1
  <2> HIDE DEF TicksChan
  <2> QED
    BY <1>2, <2>2, <2>3, <2>4
<1>11. ASSUME NEW q \in Slots, loc'[q] = "copy"
       PROVE  proc'[np'[q]].sleepTicks = 0
  <2>1. loc[q] = "copy" /\ np' = np
    BY <1>1, <1>11
  <2>2. np[q] \in Slots /\ proc[np[q]].state = "EMBRYO"
    BY <2>1 DEF IInv, ForkInv, Forking
  <2>3. np[q] # p
    BY <1>3, <2>2
  <2>4. proc'[np[q]].sleepTicks = proc[np[q]].sleepTicks
    BY <1>1, <2>2, <2>3, ExitKeeps
  <2> QED
    BY <2>1, <2>4 DEF SleepInv
<1> QED
  BY <1>7, <1>8, <1>9, <1>10, <1>11 DEF SleepInv

\* A step that changes no kernel thread's place but to leave it.
LEMMA QuietByKept ==
  ASSUME IInv, TypeOK', SleepInv, ticks' = ticks, due' = due,
         \A q \in Slots : Kept(proc[q], proc'[q]),
         \A q \in Slots : /\ loc'[q] = "slept" => loc[q] = "slept"
                          /\ loc'[q] = "copy" => loc[q] = "copy" /\ np'[q] = np[q]
  PROVE  QuietStep
<1>1. \A q \in Slots : /\ proc[q] \in Procs /\ proc'[q] \in Procs
                       /\ Calls(proc[q]) \in Nat /\ Calls(proc'[q]) \in Nat
                       /\ ticks \in Nat
  BY CallsType DEF IInv, TypeOK
<1>2. ASSUME NEW q \in Slots, StaysAsleep(proc[q], proc'[q]), loc'[q] = "slept"
      PROVE  /\ loc[q] = "slept" /\ due'[q] = due[q]
             /\ ticks' + Calls(proc'[q]) <= ticks + Calls(proc[q])
  <2>1. Calls(proc'[q]) <= Calls(proc[q])
    BY <1>1, <1>2, CallsStep
  <2> QED
    BY <1>1, <1>2, <2>1
<1>3. ASSUME NEW q \in Slots, loc'[q] = "copy" PROVE proc'[np'[q]].sleepTicks = 0
  <2>1. /\ loc[q] = "copy" /\ np'[q] = np[q] /\ np[q] \in Slots
        /\ proc[np[q]].state = "EMBRYO" /\ proc[np[q]].sleepTicks = 0
    BY <1>3 DEF IInv, ForkInv, Forking, SleepInv
  <2> QED
    BY <2>1 DEF Kept, Held, StaysAsleep, StaysUp, StaysDead
<1> QED
  BY <1>2, <1>3 DEF QuietStep

\* A step in which p alone changes, and falls asleep.
LEMMA QuietByFall ==
  ASSUME IInv, SleepInv, NEW p \in Slots, FallsAsleep(p), loc'[p] # "copy",
         \A q \in Slots : q # p => /\ proc'[q] = proc[q] /\ loc'[q] = loc[q]
                                   /\ due'[q] = due[q],
         UNCHANGED <<ticks, np>>
  PROVE  QuietStep
<1>1. \A q \in Slots : proc[q] \in Procs /\ Calls(proc[q]) \in Nat /\ ticks \in Nat
  BY CallsType DEF IInv, TypeOK
<1>2. \A q \in Slots : Kept(proc[q], proc'[q]) \/ FallsAsleep(q)
  BY <1>1, KeptSame
<1>3. ~StaysAsleep(proc[p], proc'[p])
  BY DEF FallsAsleep, StaysAsleep
<1>4. ASSUME NEW q \in Slots, StaysAsleep(proc[q], proc'[q]), loc'[q] = "slept"
      PROVE  /\ loc[q] = "slept" /\ due'[q] = due[q]
             /\ ticks' + Calls(proc'[q]) <= ticks + Calls(proc[q])
  <2>1. q # p /\ proc'[q] = proc[q]
    BY <1>3, <1>4
  <2> QED
    BY <1>1, <1>4, <2>1
<1>5. ASSUME NEW q \in Slots, loc'[q] = "copy" PROVE proc'[np'[q]].sleepTicks = 0
  <2>1. /\ loc[q] = "copy" /\ np'[q] = np[q] /\ np[q] \in Slots
        /\ proc[np[q]].state = "EMBRYO" /\ proc[np[q]].sleepTicks = 0
    BY <1>5 DEF IInv, ForkInv, Forking, SleepInv
  <2>2. np[q] # p
    BY <2>1 DEF FallsAsleep
  <2> QED
    BY <2>1, <2>2
<1> QED
  BY <1>2, <1>4, <1>5 DEF QuietStep

\* The steps of the processors and the devices.
LEMMA CpuQuiet ==
  ASSUME IInv, TypeOK', SleepInv, NEW c \in CPUs,
         Schedule(c) \/ SchedulePanic(c) \/ TimerIntr(c) \/ Yield(c)
  PROVE  QuietStep
<1>0. /\ TypeOK /\ proc \in [Slots -> Procs] /\ cpu \in [CPUs -> 0 .. NPROC]
      /\ loc \in [Slots -> Locs] /\ trapping \subseteq CPUs /\ ticks \in Nat
  BY TypeParts DEF IInv, TypeOK
<1>1. \A q \in Slots : Kept(proc[q], proc[q])
  BY <1>0, KeptSame
<1>2. CASE Schedule(c)
  <2>1. PICK p \in Runnable :
          proc' = [q \in Slots |->
               IF q = p
               THEN [Unboost(q) EXCEPT !.state = "RUNNING", !.chan = NoChan]
               ELSE Unboost(q)]
    BY <1>2 DEF Schedule
  <2>2. ASSUME NEW q \in Slots PROVE Kept(proc[q], proc'[q])
    <3> DEFINE f == proc[q]
               u == Unboost(q)
               v == [u EXCEPT !.state = "RUNNING", !.chan = NoChan]
    <3>1. /\ u.state = f.state /\ u.chan = f.chan /\ u.killed = f.killed
          /\ u.sleepTicks = f.sleepTicks /\ u.parent = f.parent
          /\ u.sleepTicksCount = f.sleepTicksCount
      BY <1>0 DEF Unboost, Procs
    <3>2. u \in Procs
      BY <1>0, UnboostType
    <3>3. proc'[q] = IF q = p THEN v ELSE u
      BY <2>1
    <3>4. q = p => f.state = "RUNNABLE"
      BY DEF Runnable
    <3>5. f \in Procs /\ f.sleepTicksCount \in Nat
      BY <1>0 DEF Procs
    <3> HIDE DEF u
    <3>6. /\ v.state = "RUNNING" /\ v.killed = u.killed
          /\ v.sleepTicks = u.sleepTicks /\ v.parent = u.parent
      BY <3>2 DEF Procs
    <3> HIDE DEF v
    <3>7. Kept(f, f)
      BY <1>1
    <3> HIDE DEF f
    <3>8. Kept(f, u)
      BY <3>1, <3>5, <3>7 DEF Kept, Held, StaysAsleep, StaysUp, StaysDead
    <3>9. q = p => Kept(f, v)
      BY <3>1, <3>4, <3>6 DEF Kept, Held, StaysUp
    <3> QED
      BY <3>3, <3>8, <3>9 DEF f
  <2>3. UNCHANGED <<loc, np, ticks, due>>
    BY <1>2 DEF Schedule
  <2> QED
    BY <2>2, <2>3, QuietByKept
<1>3. CASE SchedulePanic(c)
  BY <1>1, <1>3, QuietByKept DEF SchedulePanic
<1>4. CASE TimerIntr(c)
  <2>1. UNCHANGED <<loc, np, due>>
    BY <1>4 DEF TimerIntr
  <2>2. CASE UNCHANGED <<ticks, proc>>
    BY <1>1, <2>1, <2>2, QuietByKept
  <2>3. CASE ticks' = ticks + 1 /\ proc' = Wakeup1(proc, TicksChan, 1)
    <3>1. ASSUME NEW q \in Slots
          PROVE  LET f == proc[q]
                     g == proc'[q] IN
                   /\ Kept(f, g)
                   /\ g.state = "SLEEPING" =>
                        /\ StaysAsleep(f, g)
                        /\ g.sleepTicksCount = f.sleepTicksCount + 1
                        /\ f.chan = TicksChan => Calls(f) > 1
      BY <1>0, <2>3, WakeupEffect
    <3>2. ASSUME NEW q \in Slots, StaysAsleep(proc[q], proc'[q]), loc'[q] = "slept"
          PROVE  /\ loc[q] = "slept" /\ due'[q] = due[q]
                 /\ ticks' + Calls(proc'[q]) <= ticks + Calls(proc[q])
      <4>1. loc[q] = "slept" /\ due'[q] = due[q]
        BY <2>1, <3>2
      <4>2. proc[q].state = "SLEEPING" /\ proc'[q].state = "SLEEPING"
            /\ proc'[q].sleepTicks = proc[q].sleepTicks
        BY <3>2 DEF StaysAsleep
      <4>3. proc[q].chan = TicksChan
        BY <4>1, <4>2 DEF SleepInv
      <4>4. Calls(proc[q]) > 1 /\ proc'[q].sleepTicksCount = proc[q].sleepTicksCount + 1
        BY <3>1, <4>2, <4>3
      <4>5. proc[q] \in Procs /\ proc'[q] \in Procs
        BY <1>0 DEF TypeOK
      <4>6. Calls(proc'[q]) = Calls(proc[q]) - 1 /\ Calls(proc[q]) \in Nat
        BY <4>2, <4>4, <4>5, CallsStep, CallsType
      <4> QED
        BY <1>0, <2>3, <4>1, <4>6
    <3>3. ASSUME NEW q \in Slots, loc'[q] = "copy"
          PROVE  proc'[np'[q]].sleepTicks = 0
      <4>1. /\ np'[q] = np[q] /\ np[q] \in Slots
            /\ proc[np[q]].state = "EMBRYO" /\ proc[np[q]].sleepTicks = 0
        BY <2>1, <3>3 DEF IInv, ForkInv, Forking, SleepInv
      <4> QED
        BY <3>1, <4>1 DEF Kept, Held, StaysAsleep, StaysUp, StaysDead
    <3> QED
      BY <3>1, <3>2, <3>3 DEF QuietStep
  <2> QED
    BY <1>4, <2>2, <2>3 DEF TimerIntr
<1>5. CASE Yield(c)
  <2> DEFINE p == cpu[c]
  <2>1. p \in Slots /\ proc[p].state = "RUNNING"
    <3>1. p # 0 /\ p \in 0 .. NPROC
      BY <1>0, <1>5 DEF IInv, TrapInv, Yield
    <3>2. p \in Slots
      BY <3>1, SlotZero DEF Slots
    <3> QED
      BY <3>2 DEF IInv, RunningOnOneCpu
  <2>2. UNCHANGED <<np, ticks, due>>
    BY <1>5 DEF Yield
  <2>3. CASE loc' = [loc EXCEPT ![p] = "exit"] /\ UNCHANGED proc
    BY <1>0, <1>1, <2>2, <2>3, QuietByKept
  <2>4. CASE proc' = [proc EXCEPT ![p].state = "RUNNABLE"] /\ UNCHANGED loc
    <3> DEFINE f == proc[p]
               g == proc'[p]
    <3>1. /\ g.state = "RUNNABLE" /\ g.parent = f.parent /\ g.killed = f.killed
          /\ g.sleepTicks = f.sleepTicks
          /\ \A q \in Slots : q # p => proc'[q] = proc[q]
      BY <1>0, <2>1, <2>4 DEF Procs
    <3>2. Kept(f, g)
      BY <2>1, <3>1 DEF Kept, Held, StaysUp
    <3>3. \A q \in Slots : Kept(proc[q], proc'[q])
      BY <1>1, <3>1, <3>2
    <3> QED
      BY <2>2, <2>4, <3>3, QuietByKept
  <2> QED
    BY <1>5, <2>3, <2>4 DEF Yield
<1> QED
  BY <1>2, <1>3, <1>4, <1>5

\* sleep() on a channel of its own, as wait and iderw call it.
LEMMA SleepOnQuiet ==
  ASSUME IInv, SleepInv, NEW p \in Slots, NEW ch, Running(p), SleepOn(p, ch),
         loc[p] \notin {"slept", "copy"},
         \/ ch = DiskChan(p)
         \/ ch = ProcChan(p) /\ ~proc[p].killed /\ Zombies(p) = {},
         UNCHANGED <<loc, ticks, np, due>>
  PROVE  QuietStep
<1>1. proc \in [Slots -> Procs] /\ proc[p].state = "RUNNING"
  <2>1. \E c \in CPUs : cpu[c] = p
    BY DEF Running, Executes
  <2> QED
    BY <2>1, TypeParts DEF IInv, RunningOnOneCpu
<1> DEFINE g == proc'[p]
<1>2. /\ g.state = "SLEEPING" /\ g.chan = ch /\ g.parent = proc[p].parent
      /\ g.sleepTicks = proc[p].sleepTicks
      /\ \A q \in Slots : q # p => proc'[q] = proc[q]
  BY <1>1 DEF SleepOn, Procs
<1>3. ~proc[p].killed => proc[p].sleepTicks = 0
  BY <1>1 DEF SleepInv
<1>4. FallsAsleep(p)
  BY <1>1, <1>2, <1>3 DEF FallsAsleep
<1> QED
  BY <1>2, <1>4, QuietByFall

\* The kinds of step a process, or its disk request, can make.
LEMMA StepKinds ==
  ASSUME IInv, TypeOK', SleepInv, NEW p \in Slots, Step(p) \/ DiskIntr(p)
  PROVE  QuietStep \/ ReapingStep \/ BirthStep \/ Exit(p)
<1>0. /\ TypeOK /\ proc \in [Slots -> Procs] /\ loc \in [Slots -> Locs]
      /\ np \in [Slots -> 0 .. NPROC]
  BY TypeParts DEF IInv
<1>1. \A q \in Slots : Kept(proc[q], proc[q])
  BY <1>0, KeptSame
<1>a. ASSUME Running(p) PROVE proc[p].state = "RUNNING"
  <2>1. \E c \in CPUs : cpu[c] = p
    BY <1>a DEF Running, Executes
  <2> QED
    BY <2>1 DEF IInv, RunningOnOneCpu
<1>b. ASSUME NEW t, Return(p, t)
      PROVE  \A q \in Slots : /\ loc'[q] = "slept" => loc[q] = "slept"
                              /\ loc'[q] = "copy" => loc[q] = "copy"
  BY <1>0, <1>b DEF Return
<1>c. ASSUME Return(p, proc), UNCHANGED <<proc, ticks, np, due>> PROVE QuietStep
  BY <1>1, <1>b, <1>c, QuietByKept
<1>d. ASSUME Forking(p), ForkFails(p), UNCHANGED <<ticks, due>> PROVE QuietStep
  <2> DEFINE q == np[p]
             f == proc[q]
             g == proc'[q]
  <2>1. q \in Slots /\ f.state = "EMBRYO"
    BY <1>d DEF IInv, ForkInv
  <2>2. /\ g.state = "UNUSED" /\ g.parent = f.parent /\ g.sleepTicks = f.sleepTicks
        /\ \A r \in Slots : r # q => proc'[r] = proc[r]
    BY <1>0, <1>d, <2>1 DEF ForkFails, Procs
  <2>3. Kept(f, g)
    BY <2>1, <2>2 DEF Kept, Held, StaysDead
  <2>4. \A r \in Slots : Kept(proc[r], proc'[r])
    BY <1>1, <2>2, <2>3
  <2>5. \A r \in Slots : loc'[r] = "copy" => r # p
    BY <1>0, <1>d DEF ForkFails, Return
  <2>6. \A r \in Slots : loc'[r] = "copy" => np'[r] = np[r]
    BY <1>0, <1>d, <2>5 DEF ForkFails
  <2>7. \A r \in Slots : /\ loc'[r] = "slept" => loc[r] = "slept"
                         /\ loc'[r] = "copy" => loc[r] = "copy"
    BY <1>b, <1>d DEF ForkFails
  <2> QED
    BY <1>d, <2>4, <2>6, <2>7, QuietByKept
<1>2. CASE Enter(p)
  <2>1. \A q \in Slots : /\ loc'[q] = "slept" => loc[q] = "slept"
                         /\ loc'[q] = "copy" => loc[q] = "copy"
    BY <1>0, <1>2 DEF Enter, SysCalls
  <2> QED
    BY <1>1, <1>2, <2>1, QuietByKept DEF Enter
<1>3. CASE Trap(p)
  <2>1. \A q \in Slots : /\ loc'[q] = "slept" => loc[q] = "slept"
                         /\ loc'[q] = "copy" => loc[q] = "copy"
    BY <1>0, <1>3 DEF Trap
  <2>2. CASE UNCHANGED proc
    BY <1>1, <1>3, <2>1, <2>2, QuietByKept DEF Trap
  <2>3. CASE proc' = [proc EXCEPT ![p].killed = TRUE]
    <3> DEFINE f == proc[p]
               g == proc'[p]
    <3>1. /\ g.killed /\ g.state = f.state /\ g.parent = f.parent
          /\ \A q \in Slots : q # p => proc'[q] = proc[q]
      BY <1>0, <2>3 DEF Procs
    <3>2. f.state = "RUNNING"
      BY <1>3, <1>a DEF Trap
    <3>3. Kept(f, g)
      BY <3>1, <3>2 DEF Kept, Held, StaysUp
    <3>4. \A q \in Slots : Kept(proc[q], proc'[q])
      BY <1>1, <3>1, <3>3
    <3> QED
      BY <1>3, <2>1, <3>4, QuietByKept DEF Trap
  <2> QED
    BY <1>3, <2>2, <2>3 DEF Trap
<1>4. CASE Kill(p)
  <2>1. PICK x \in KillArgs, q \in Slots :
          LET t == [proc EXCEPT ![q].killed = TRUE, ![q].state = KillState(@)]
          IN  proc' = t /\ Return(p, t)
    BY <1>4 DEF Kill
  <2> DEFINE f == proc[q]
             g == proc'[q]
  <2>2. /\ g.killed /\ g.state = KillState(f.state) /\ g.parent = f.parent
        /\ g.sleepTicks = f.sleepTicks /\ f.state \in States
        /\ \A r \in Slots : r # q => proc'[r] = proc[r]
    BY <1>0, <2>1 DEF Procs
  <2>3. Kept(f, g)
    BY <2>2 DEF Kept, Held, StaysUp, StaysDead, KillState, States
  <2>4. \A r \in Slots : Kept(proc[r], proc'[r])
    BY <1>1, <2>2, <2>3
  <2> QED
    BY <1>4, <1>b, <2>1, <2>4, QuietByKept DEF Kill
<1>5. CASE Settickets(p)
  <2>1. PICK n \in TicketArgs, q \in Slots : proc' = [proc EXCEPT ![q].ticket = n]
    BY <1>5 DEF Settickets
  <2> DEFINE f == proc[q]
             g == proc'[q]
  <2>2. /\ g.state = f.state /\ g.parent = f.parent /\ g.chan = f.chan
        /\ g.sleepTicks = f.sleepTicks /\ g.killed = f.killed
        /\ g.sleepTicksCount = f.sleepTicksCount
        /\ \A r \in Slots : r # q => proc'[r] = proc[r]
    BY <1>0, <2>1 DEF Procs
  <2>3. Kept(f, g)
    BY <1>1, <2>2 DEF Kept, Held, StaysAsleep, StaysUp, StaysDead
  <2>4. \A r \in Slots : Kept(proc[r], proc'[r])
    BY <1>1, <2>2, <2>3
  <2> QED
    BY <1>5, <2>4, QuietByKept DEF Settickets
<1>6. CASE AllocProc(p)
  <2>1. CASE Return(p, proc) /\ UNCHANGED <<proc, nextpid, np>>
    BY <1>6, <1>c, <2>1 DEF AllocProc
  <2>2. CASE \E q \in Slots :
               /\ proc[q].state = "UNUSED"
               /\ proc' = [proc EXCEPT ![q].state = "EMBRYO", ![q].pid = nextpid]
               /\ np' = [np EXCEPT ![p] = q]
               /\ loc' = [loc EXCEPT ![p] = "stack"]
    <3>1. PICK q \in Slots :
               /\ proc[q].state = "UNUSED"
               /\ proc' = [proc EXCEPT ![q].state = "EMBRYO", ![q].pid = nextpid]
               /\ np' = [np EXCEPT ![p] = q]
               /\ loc' = [loc EXCEPT ![p] = "stack"]
      BY <2>2
    <3> DEFINE f == proc[q]
               g == proc'[q]
    <3>2. /\ g.state = "EMBRYO" /\ g.parent = f.parent
          /\ g.sleepTicks = f.sleepTicks
          /\ \A r \in Slots : r # q => proc'[r] = proc[r]
      BY <1>0, <3>1 DEF Procs
    <3>3. Kept(f, g)
      BY <3>1, <3>2 DEF Kept, Held, StaysDead
    <3>4. \A r \in Slots : Kept(proc[r], proc'[r])
      BY <1>1, <3>2, <3>3
    <3>5. \A r \in Slots : /\ loc'[r] = "slept" => loc[r] = "slept"
                           /\ loc'[r] = "copy" => loc[r] = "copy" /\ np'[r] = np[r]
      BY <1>0, <3>1
    <3> QED
      BY <1>6, <3>4, <3>5, QuietByKept DEF AllocProc
  <2> QED
    BY <1>6, <2>1, <2>2 DEF AllocProc
<1>7. CASE AllocStack(p)
  <2>1. /\ Forking(p) /\ UNCHANGED <<ticks, due>>
        /\ np[p] \in Slots /\ proc[np[p]].state = "EMBRYO"
    BY <1>7 DEF AllocStack, At, Forking, IInv, ForkInv
  <2>2. CASE ForkFails(p)
    BY <1>d, <2>1, <2>2
  <2>3. CASE /\ proc' = [proc EXCEPT ![np[p]].ticket = 1,
                                     ![np[p]].boostsleft = 0,
                                     ![np[p]].sleepTicks = 0,
                                     ![np[p]].sleepTicksCount = 0]
             /\ loc' = [loc EXCEPT ![p] = "copy"]
             /\ UNCHANGED np
    <3> DEFINE q == np[p]
               f == proc[q]
               g == proc'[q]
    <3>1. /\ g.state = f.state /\ g.parent = f.parent /\ g.sleepTicks = 0
          /\ \A r \in Slots : r # q => proc'[r] = proc[r]
      BY <1>0, <2>1, <2>3 DEF Procs
    <3>2. Kept(f, g)
      BY <2>1, <3>1 DEF Kept, Held, StaysDead
    <3>3. \A r \in Slots : Kept(proc[r], proc'[r])
      BY <1>1, <3>1, <3>2
    <3>4. ASSUME NEW r \in Slots, loc'[r] = "copy"
          PROVE  proc'[np'[r]].sleepTicks = 0
      <4>1. CASE r = p
        BY <2>3, <3>1, <4>1
      <4>2. CASE r # p
        <5>1. /\ loc[r] = "copy" /\ np[r] \in Slots
              /\ proc[np[r]].sleepTicks = 0
          BY <1>0, <2>3, <3>4, <4>2 DEF IInv, ForkInv, Forking, SleepInv
        <5>2. np'[r] = np[r]
          BY <2>3
        <5> QED
          BY <3>1, <5>1, <5>2
      <4> QED
        BY <4>1, <4>2
    <3>5. ASSUME NEW r \in Slots, StaysAsleep(proc[r], proc'[r]), loc'[r] = "slept"
          PROVE  /\ loc[r] = "slept" /\ due'[r] = due[r]
                 /\ ticks' + Calls(proc'[r]) <= ticks + Calls(proc[r])
      <4>1. r # q /\ proc'[r] = proc[r]
        BY <2>1, <3>1, <3>5 DEF StaysAsleep
      <4>2. loc[r] = "slept"
        BY <1>0, <2>3, <3>5
      <4>3. Calls(proc[r]) \in Nat /\ ticks \in Nat
        BY <1>0, CallsType DEF TypeOK
      <4> QED
        BY <2>1, <4>1, <4>2, <4>3
    <3> QED
      BY <3>3, <3>4, <3>5 DEF QuietStep
  <2> QED
    BY <1>7, <2>2, <2>3 DEF AllocStack
<1>8. CASE CopyProc(p)
  <2>1. /\ Running(p) /\ loc[p] = "copy" /\ Forking(p) /\ np[p] \in Slots
        /\ UNCHANGED <<ticks, due>>
    BY <1>8 DEF CopyProc, At, Forking, IInv, ForkInv
  <2>2. CASE ForkFails(p)
    BY <1>d, <2>1, <2>2
  <2>3. CASE ~ForkFails(p)
    <3>1. /\ proc' = [proc EXCEPT ![np[p]].parent = p,
                                  ![np[p]].ticket = proc[p].ticket,
                                  ![np[p]].state = "RUNNABLE"]
          /\ loc' = [loc EXCEPT ![p] = IF proc[p].killed THEN "exit" ELSE "user",
                                ![np[p]] = "user"]
          /\ np' = [np EXCEPT ![p] = 0]
      BY <1>8, <2>3 DEF CopyProc
    <3>2. /\ proc'[np[p]].state = "RUNNABLE" /\ proc'[np[p]].parent = p
          /\ proc'[np[p]].sleepTicks = proc[np[p]].sleepTicks
          /\ \A r \in Slots : r # np[p] => proc'[r] = proc[r]
      BY <1>0, <2>1, <3>1 DEF Procs
    <3> QED
      BY <2>1, <3>1, <3>2 DEF BirthStep
  <2> QED
    BY <2>2, <2>3
<1>9. CASE SysSleep(p)
  <2>1. PICK n \in SleepArgs :
          /\ proc' = [proc EXCEPT ![p].sleepTicks = n, ![p].chan = TicksChan,
                                  ![p].state = "SLEEPING"]
          /\ due' = [due EXCEPT ![p] = ticks + (IF n < 1 THEN 1 ELSE n)]
    BY <1>9 DEF SysSleep
  <2> DEFINE g == proc'[p]
             f == proc[p]
  <2>2. n \in Int /\ ticks \in Nat /\ due \in [Slots -> Int]
    BY <1>0, TableAssumption DEF TypeOK
  <2>3. /\ g.state = "SLEEPING" /\ g.chan = TicksChan /\ g.parent = f.parent
        /\ g.sleepTicks = n /\ g.sleepTicksCount = f.sleepTicksCount
        /\ f.sleepTicksCount \in Nat
        /\ \A q \in Slots : q # p => proc'[q] = proc[q]
    BY <1>0, <2>1 DEF Procs
  <2>4. ticks + Calls(g) <= due'[p]
    <3>1. due'[p] = ticks + (IF n < 1 THEN 1 ELSE n)
      BY <2>1, <2>2
    <3> HIDE DEF g, f
    <3> QED
      BY <2>2, <2>3, <3>1 DEF Calls
  <2>5. /\ UNCHANGED <<ticks, np>> /\ Running(p)
        /\ loc' = [loc EXCEPT ![p] = "slept"]
    BY <1>9 DEF SysSleep, At
  <2>6. FallsAsleep(p)
    BY <1>0, <1>a, <2>3, <2>4, <2>5 DEF FallsAsleep
  <2>7. \A q \in Slots : q # p => loc'[q] = loc[q] /\ due'[q] = due[q]
    BY <1>0, <2>1, <2>2, <2>5
  <2>8. loc'[p] # "copy"
    BY <1>0, <2>5
  <2> QED
    BY <2>3, <2>5, <2>6, <2>7, <2>8, QuietByFall
<1>10. CASE SleepReturns(p)
  BY <1>10, <1>c DEF SleepReturns
<1>11. CASE DiskWait(p)
  <2>1. /\ Running(p) /\ loc[p] \notin {"slept", "copy"}
        /\ UNCHANGED <<ticks, np, due>>
    BY <1>11 DEF DiskWait, At
  <2>2. CASE SleepOn(p, DiskChan(p)) /\ UNCHANGED loc
    BY <2>1, <2>2, SleepOnQuiet
  <2>3. CASE Return(p, proc) /\ UNCHANGED <<proc, cpu>>
    BY <1>c, <2>1, <2>3
  <2> QED
    BY <1>11, <2>2, <2>3 DEF DiskWait
<1>12. CASE ExitIO(p)
  <2>1. \A q \in Slots : /\ loc'[q] = "slept" => loc[q] = "slept"
                         /\ loc'[q] = "copy" => loc[q] = "copy"
    BY <1>0, <1>12 DEF ExitIO
  <2> QED
    BY <1>1, <1>12, <2>1, QuietByKept DEF ExitIO
<1>13. CASE Wait(p)
  <2>1. /\ At(p, "wait") /\ Running(p) /\ loc[p] \notin {"slept", "copy"}
        /\ UNCHANGED <<ticks, np, due>>
    BY <1>13 DEF Wait, At
  <2>2. CASE \E q \in Zombies(p) : /\ proc' = [proc EXCEPT ![q] = Reaped(@)]
                                   /\ Return(p, proc)
    BY <2>1, <2>2 DEF ReapingStep
  <2>3. CASE Return(p, proc) /\ UNCHANGED <<proc, cpu>>
    BY <1>c, <2>1, <2>3
  <2>4. CASE /\ Zombies(p) = {} /\ ~proc[p].killed
             /\ SleepOn(p, ProcChan(p)) /\ UNCHANGED loc
    BY <2>1, <2>4, SleepOnQuiet
  <2> QED
    BY <1>13, <2>2, <2>3, <2>4 DEF Wait
<1>14. CASE DiskIntr(p)
  <2>1. \A q \in Slots : Kept(proc[q], proc'[q])
    BY <1>0, <1>14, WakeupEffect DEF DiskIntr
  <2> QED
    BY <1>14, <2>1, QuietByKept DEF DiskIntr
<1> QED
  BY <1>2, <1>3, <1>4, <1>5, <1>6, <1>7, <1>8, <1>9, <1>10, <1>11, <1>12,
     <1>13, <1>14 DEF Step

LEMMA InitSleepInv == Init => SleepInv
<1> SUFFICES ASSUME Init PROVE SleepInv
  OBVIOUS
<1>1. initproc \in Slots /\ \A p \in Slots : p # 0
  BY TableAssumption DEF initproc, Slots
<1>2. \A p \in Slots :
        /\ proc[p].state \in {"UNUSED", "RUNNABLE"}
        /\ proc[p].parent = 0 /\ proc[p].sleepTicks = 0
        /\ loc[p] = "user"
  BY DEF Init, Zeroed
<1> QED
  BY <1>1, <1>2 DEF SleepInv

\* All that can happen in one step of the kernel.
LEMMA AllKinds ==
  ASSUME IInv, TypeOK', SleepInv, [Next]_vars
  PROVE  QuietStep \/ ReapingStep \/ BirthStep \/ \E p \in Slots : Exit(p)
<1>0. \A q \in Slots : Kept(proc[q], proc[q])
  BY KeptSame DEF IInv, TypeOK
<1>1. CASE \E p \in Slots : Step(p) \/ DiskIntr(p)
  BY <1>1, StepKinds
<1>2. CASE \E c \in CPUs : Schedule(c) \/ SchedulePanic(c) \/ TimerIntr(c) \/ Yield(c)
  BY <1>2, CpuQuiet
<1>3. CASE ExitPanic
  BY <1>0, <1>3, QuietByKept DEF ExitPanic
<1>4. CASE UNCHANGED vars
  BY <1>0, <1>4, QuietByKept DEF vars
<1> QED
  BY <1>1, <1>2, <1>3, <1>4 DEF Next

LEMMA NextSleepInv == IInv /\ IInv' /\ SleepInv /\ [Next]_vars => SleepInv'
<1> SUFFICES ASSUME IInv, IInv', SleepInv, [Next]_vars PROVE SleepInv'
  OBVIOUS
<1>1. TypeOK'
  BY DEF IInv
<1>2. QuietStep \/ ReapingStep \/ BirthStep \/ \E p \in Slots : Exit(p)
  BY <1>1, AllKinds
<1> QED
  BY <1>1, <1>2, QuietSleepInv, ReapingSleepInv, BirthSleepInv, ExitSleepInv

\* A ZOMBIE leaves that state in the step of wait that reaps it, only there.
LEMMA ZombieStep ==
  ASSUME IInv, TypeOK', SleepInv, [Next]_vars, NEW q \in Slots,
         proc[q].state = "ZOMBIE", proc'[q].state # "ZOMBIE"
  PROVE  proc'[q].state = "UNUSED" /\ At(proc[q].parent, "wait")
<1>1. ~QuietStep
  BY DEF QuietStep, Kept, Held, FallsAsleep, StaysAsleep, StaysUp, StaysDead
<1>2. ~BirthStep
  <2> SUFFICES ASSUME BirthStep PROVE FALSE
    OBVIOUS
  <2>1. PICK p \in Slots : /\ loc[p] = "copy"
                           /\ \A r \in Slots : r # np[p] => proc'[r] = proc[r]
    BY DEF BirthStep
  <2>2. proc[np[p]].state = "EMBRYO"
    BY <2>1 DEF IInv, ForkInv, Forking
  <2> QED
    BY <2>1, <2>2
<1>3. ASSUME NEW p \in Slots, Exit(p) PROVE FALSE
  <2>1. TypeOK
    BY DEF IInv
  <2> QED
    BY <1>3, <2>1, ExitEffect
<1>4. PICK p \in Slots, r \in Slots :
        /\ r \in Zombies(p) /\ At(p, "wait")
        /\ proc' = [proc EXCEPT ![r] = Reaped(@)]
  BY <1>1, <1>2, <1>3, AllKinds DEF ReapingStep, Zombies
<1>5. proc \in [Slots -> Procs]
  BY DEF IInv, TypeOK
<1>6. r = q
  BY <1>4, <1>5
<1>7. proc'[q].state = "UNUSED"
  BY <1>4, <1>5, <1>6 DEF Reaped, Procs
<1> QED
  BY <1>4, <1>6, <1>7 DEF Zombies

-----------------------------------------------------------------------------
(* The theorems                                                            *)

\* Every reachable state of the process table satisfies IInv.
THEOREM Invariance == Spec => []IInv
  BY InitIInv, NextIInv, PTL DEF Spec

\* The fields of every slot stay in their ranges (allocproc, fork, sleep,
\* wakeup1, kill, exit and wait together).
THEOREM TypeCorrect == Spec => []TypeOK
<1>1. IInv => TypeOK
  BY DEF IInv
<1> QED
  BY <1>1, Invariance, PTL

\* c->proc and p->state agree on every processor: nobody is scheduled twice.
THEOREM OneCpu == Spec => []RunningOnOneCpu
<1>1. IInv => RunningOnOneCpu
  BY DEF IInv
<1> QED
  BY <1>1, Invariance, PTL

\* exit's hand-over to init leaves every process with a living parent.
THEOREM ParentsLive == Spec => []NoOrphans
<1>1. IInv => NoOrphans
  BY DEF IInv
<1> QED
  BY <1>1, Invariance, PTL

\* No pid of a slot in use is handed out twice by allocproc.
THEOREM PidsDiffer == Spec => []UniquePids
<1>1. IInv => UniquePids
  BY DEF IInv
<1> QED
  BY <1>1, Invariance, PTL

\* What lies behind the next three: whom kill hit, and who is asleep on what.
THEOREM SleepInvariance == Spec => []SleepInv
  BY Invariance, InitSleepInv, NextSleepInv, PTL DEF Spec

\* exit wakes a parent asleep in wait() by the one wakeup1 it makes, and
\* init by one for each zombie it hands over: no zombie child of a sleeper
\* in wait() goes unseen, with any number of processes and processors.
THEOREM NoLostChild == Spec => []WaiterHasNoZombie
<1>1. SleepInv => WaiterHasNoZombie
  BY DEF SleepInv, WaiterHasNoZombie
<1> QED
  BY <1>1, SleepInvariance, PTL

\* sleep(n) is over after n ticks at the latest: wakeup1's count of calls
\* runs ahead of the ticks, never behind.
THEOREM SleepEnds == Spec => []NoOversleep
<1>1. IInv /\ SleepInv => NoOversleep
  <2> SUFFICES ASSUME IInv, SleepInv, NEW p \in Slots,
                      proc[p].state = "SLEEPING", loc[p] = "slept"
               PROVE  ticks < due[p]
    BY DEF NoOversleep
  <2>1. proc[p] \in Procs /\ ticks \in Nat /\ due[p] \in Int
    BY DEF IInv, TypeOK
  <2>2. Calls(proc[p]) \in Nat /\ Calls(proc[p]) >= 1
    BY <2>1, CallsType, CallsStep
  <2>3. ticks + Calls(proc[p]) <= due[p]
    BY DEF SleepInv
  <2> QED
    BY <2>1, <2>2, <2>3
<1> QED
  BY <1>1, Invariance, SleepInvariance, PTL

\* Nobody but the parent's wait() takes a zombie out of the table.
THEOREM OnlyWaitReaps == Spec => ZombieIsReapedByParent
<1> DEFINE A == \A q \in Slots :
                  proc[q].state = "ZOMBIE" /\ proc'[q].state # "ZOMBIE"
                    => /\ proc'[q].state = "UNUSED"
                       /\ At(proc[q].parent, "wait")
<1>1. IInv /\ IInv' /\ SleepInv /\ [Next]_vars => A
  BY ZombieStep DEF IInv
<1>2. IInv /\ IInv' /\ SleepInv /\ [Next]_vars => [A]_vars
  BY <1>1
<1> HIDE DEF A
<1>3. Spec => [][A]_vars
  BY <1>2, Invariance, SleepInvariance, PTL DEF Spec
<1> QED
  BY <1>3 DEF A, ZombieIsReapedByParent
=============================================================================
