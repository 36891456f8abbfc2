------------------------------ MODULE SchedTests ------------------------------
(***************************************************************************)
(* The tests of the lottery scheduler (P2A), and those of usertests.c and  *)
(* forktest.c that fork and wait, run on ProcTable.  A test is slot 2 with *)
(* pid 2, its children get 3 and 4; init, its parent, waits.               *)
(* The checks that hold with a probability (how often who is drawn) are    *)
(* left out, and with them test_6, test_7, test_9 and test_12, which check *)
(* nothing else; sleeps are of two ticks.                                  *)
(***************************************************************************)
EXTENDS ProcTable, Sequences

VARIABLES
  test,    \* the program
  code,    \* the part of it that a slot runs ...
  pos,     \* ... and its line there
  ran,     \* runTicks is above 0
  failed   \* a check did not hold

testVars == <<test, code, pos, ran, failed>>

Line(o, p, n, r) == [op |-> o, pid |-> p, n |-> n, is |-> r]
Call(o) == Line(o, 0, 0, "any")
fork(child) == Line("fork", 0, 0, child)
sleep == Call("sleep")
exit == Call("exit")
spin == Call("spin")
Wait1(r) == Line("wait", 0, 0, r)
kill(pid) == Line("kill", pid, 0, "any")
settickets(pid, n, r) == Line("settickets", pid, n, r)
\* getpinfo, and then a look at the entry with the pid.
Info(what, pid, n) == Line("getpinfo", pid, n, what)

Program(m, a, b) == [main |-> m, a |-> a, b |-> b]
Alone(m) == Program(m, <<exit>>, <<exit>>)

-----------------------------------------------------------------------------
(* The programs                                                            *)

test_2 == Alone(<<Info("ran", 2, 0), exit>>)
test_3 == Alone(<<settickets(1, 10, "ok"), Info("tickets", 1, 10), exit>>)
\* The third call gets a bad pointer.
test_4 == Alone(<<settickets(-1, 10, "fails"), settickets(2, 0, "fails"),
                  Info("bad", 2, 0), exit>>)
test_5 == Program(
  <<Info("tickets", 2, 1), settickets(2, 10, "ok"), fork("a"), Wait1("any"), exit>>,
  <<Info("tickets", 3, 10), exit>>, <<>>)

\* Two children that write for ever, until they are killed.
test_8 == Program(
  <<fork("a"), fork("b"), sleep, kill(3), kill(4), Wait1("any"), Wait1("any"), exit>>,
  <<settickets(3, 10, "any"), spin>>, <<settickets(4, 2, "any"), spin>>)
test_13 == Program(
  <<fork("a"), sleep, fork("b"), sleep, kill(3), kill(4), Wait1("any"), Wait1("any"),
    exit>>,
  <<settickets(3, 5, "any"), sleep, spin>>, <<settickets(4, 2, "any"), spin>>)
\* Two of the five children.
test_14 == Program(
  <<fork("a"), fork("b"), sleep, Info("any", 2, 0), kill(3), kill(4), Wait1("any"),
    Wait1("any"), exit>>,
  <<settickets(3, 5, "any"), spin>>, <<settickets(4, 2, "any"), spin>>)

test_10 == Program(
  <<fork("a"), Wait1("any"), fork("a"), Info("fresh", 4, 0), Wait1("any"), exit>>,
  <<exit>>, <<>>)
test_11 == Alone(<<sleep, Info("boosted", 2, 2), exit>>)

loop == <<sleep, exit>>
schedtest == Program(
  <<fork("a"), settickets(3, 2, "any"), fork("b"), settickets(4, 5, "any"), sleep,
    Info("any", 2, 0), Wait1("child"), Wait1("child"), exit>>, loop, loop)

\* Two of the hundred rounds.
exitwait == Program(
  <<fork("a"), Wait1("child"), fork("a"), Wait1("child"), exit>>, <<exit>>, <<>>)
\* Until the table is full.
forktest == Program(
  <<fork("a"), fork("a"), fork("full"), Wait1("child"), Wait1("child"), Wait1("none"), exit>>,
  <<exit>>, <<>>)
\* Two of the three children; the pipe makes the test wait for what b writes.
preempt == Program(
  <<fork("a"), fork("b"), Call("read"), kill(3), kill(4), Wait1("child"), Wait1("child"), exit>>,
  <<spin>>, <<Call("write"), spin>>)

Tests == {test_2, test_3, test_4, test_5, test_8, test_10, test_11, test_13, test_14,
          schedtest, exitwait, forktest, preempt}

-----------------------------------------------------------------------------
TestsInit ==
  /\ test \in Tests
  /\ code = [p \in Slots |-> "main"] /\ pos = [p \in Slots |-> 1]
  /\ ran = [p \in Slots |-> FALSE]
  /\ failed = FALSE

\* The system when the shell has started the test.
Started ==
  /\ proc = [p \in Slots |->
       CASE p = 1 -> [Zeroed EXCEPT !.state = "SLEEPING", !.pid = 1, !.ticket = 1,
                                    !.chan = ProcChan(1)]
         [] p = 2 -> [Zeroed EXCEPT !.state = "RUNNABLE", !.pid = 2, !.ticket = 1,
                                    !.parent = 1]
         [] OTHER -> Zeroed]
  /\ nextpid = 3
  /\ loc = [p \in Slots |-> IF p = 1 THEN "wait" ELSE "user"]
  /\ np = [p \in Slots |-> 0] /\ due = [p \in Slots |-> 0]
  /\ cpu = [c \in CPUs |-> 0] /\ trapping = {} /\ ticks = 0
  /\ disk = {} /\ ios = 0 /\ panicked = ""

This(p) == test[code[p]][pos[p]]
Advance(p) == pos' = [pos EXCEPT ![p] = @ + 1]
HasPid(q, pid) == FirstWithPid(pid, q)

\* What the entry of the test's pstat shows.
Shows(l) ==
  \/ l.is = "any"
  \/ \E q \in Slots :
       /\ HasPid(q, l.pid) /\ proc[q].state # "UNUSED"
       /\ l.is = "ran" => ran[q] /\ proc[q].boostsleft = 0
       /\ l.is = "tickets" => proc[q].ticket = l.n
       /\ l.is = "fresh" => proc[q].boostsleft = 0
       /\ l.is = "boosted" => proc[q].boostsleft \in l.n - 2 .. l.n

\* Calls that neither sleep nor switch.
SysSettickets(p, l) ==
  LET valid == l.pid >= 0 /\ l.n > 0 /\ \E q \in Slots : HasPid(q, l.pid) IN
    /\ IF valid
       THEN /\ Settickets(p)
            /\ \A q \in Slots : HasPid(q, l.pid) =>
                 proc' = [proc EXCEPT ![q].ticket = l.n]
       ELSE UNCHANGED vars
    /\ failed' = (l.is # "any" /\ valid # (l.is = "ok"))

SysKill(p, l) ==
  /\ Kill(p)
  /\ \A q \in Slots : HasPid(q, l.pid) => proc'[q].killed
  /\ \A r \in Slots : proc'[r] # proc[r] => HasPid(r, l.pid)

SysGetpinfo(l) ==
  /\ UNCHANGED vars
  /\ failed' = (l.is # "bad" /\ ~Shows(l))

HasWritten == \E q \in Slots : code[q] = "b" /\ proc[q].parent = 2 /\ pos[q] > 1

Direct(p) ==
  LET l == This(p) IN
    /\ InUser(p)
    /\ \/ l.op = "settickets" /\ SysSettickets(p, l)
       \/ l.op = "kill" /\ SysKill(p, l) /\ UNCHANGED failed
       \/ l.op = "getpinfo" /\ SysGetpinfo(l)
       \/ l.op = "write" /\ UNCHANGED <<vars, failed>>
       \/ l.op = "read" /\ HasWritten /\ UNCHANGED <<vars, failed>>
    /\ Advance(p) /\ UNCHANGED <<test, code, ran>>

\* A step of fork, wait, exit or sleep.  fork finds memory, if it finds a slot.
Calling(p) ==
  LET l == This(p) IN
    \/ Enter(p) /\ loc'[p] = l.op
    \/ Trap(p) /\ proc[p].killed
    \/ AllocProc(p) /\ (np'[p] # 0 \/ l.is = "full")
    \/ AllocStack(p) /\ np'[p] # 0
    \/ CopyProc(p) /\ proc'[np[p]].state = "RUNNABLE"
    \/ SysSleep(p) \/ SleepReturns(p) \/ Exit(p) \/ Wait(p)

Copied(p) == loc[p] = "copy" /\ loc'[p] # "copy"
Waits(p) == loc[p] = "wait" /\ loc'[p] = "user"
Called(p) ==
  /\ p # initproc /\ Calling(p)
  /\ LET next == IF loc[p] # "user" /\ loc'[p] = "user"
                 THEN [pos EXCEPT ![p] = @ + 1] ELSE pos
     IN  pos' = IF Copied(p) THEN [next EXCEPT ![np[p]] = 1] ELSE next
  /\ code' = IF Copied(p) THEN [code EXCEPT ![np[p]] = This(p).is] ELSE code
  /\ ran' = IF loc[p] = "stack" THEN [ran EXCEPT ![np[p]] = FALSE] ELSE ran
  /\ failed' =
       \/ Waits(p) /\ This(p).is = "child" /\ Zombies(p) = {}
       \/ Waits(p) /\ This(p).is = "none" /\ Zombies(p) # {}
       \/ loc[p] = "fork" /\ This(p).is = "full" /\ np'[p] # 0
  /\ UNCHANGED test

Scheduled(c) ==
  /\ Schedule(c)
  /\ ran' = [ran EXCEPT ![cpu'[c]] = TRUE]
  /\ UNCHANGED <<test, code, pos, failed>>

TestsNext ==
  /\ ~failed
  /\ \/ \E p \in Slots \ {initproc} : (Direct(p) \/ Called(p))
     \/ Wait(initproc) /\ UNCHANGED testVars
     \/ Scheduled(BootCpu)
     \/ (TimerIntr(BootCpu) \/ Yield(BootCpu)) /\ UNCHANGED testVars

-----------------------------------------------------------------------------
(* Properties                                                              *)

\* The checks of the scheduler tests that do not depend on luck hold (test_2.c
\* to test_14.c, schedtest.c; usertests.c:356-426, forktest.c): tickets are set,
\* inherited and refused, a child starts without a boost, a sleeper is boosted
\* for about the ticks it slept, wait returns each child once.
\* And a test that has not ended is not asleep for good: kill and exit of its
\* children let it out of wait.
TestsPass ==
  /\ ~failed
  /\ \/ proc[2].state \in {"UNUSED", "ZOMBIE"}
     \/ \E p \in Slots \ {initproc} : proc[p].state \in {"EMBRYO", "RUNNABLE", "RUNNING"}
     \/ Sleepers # {}
=============================================================================
