----------------------------- MODULE ThreadTests ------------------------------
(***************************************************************************)
(* The thread tests of P3B, run on the kernel and library of Threads: what *)
(* main and the threads do line by line, with the values that the tests    *)
(* insist on.  The tests that call clone and join themselves are run with  *)
(* thread_create and thread_join, which make those calls.  Thirty threads  *)
(* become two, 2000 rounds MaxPid - 2, and sleep is left out.  A lock is   *)
(* held by one thread: TicketLock is about how.                            *)
(***************************************************************************)
EXTENDS Threads, SequencesExt

VARIABLES
  test,    \* the program
  code,    \* which part of it the thread of a slot runs ...
  pos,     \* ... and its next line there
  made,    \* the pid that its last thread_create returned
  tmp,     \* the register of a load
  var,     \* the globals of the program
  held,    \* the slot that holds each lock, or 0
  failed   \* an assert did not hold

testVars == <<test, code, pos, made, tmp, var, held, failed>>

Globals == {"global", "arg1", "arg2", "size", "a", "flag", "count"}
Locks == {"lock", "lock2"}

\* Lines: a system or library call, an access to a global, or a jump of some
\* lines, for Below when the global is below a number.
Line(o, v, n, t) == [op |-> o, v |-> v, n |-> n, to |-> t]
Create1(part) == Line("create", part, 0, 0)
Join1(result) == Line("join", result, 0, 0)
Wait1(result) == Line("wait", result, 0, 0)
fork == Line("fork", "", 0, 0)
exit == Line("exit", "", 0, 0)
sbrk(n) == Line("sbrk", "", n, 0)
SizeTo(v) == Line("size", v, 0, 0)
SizeIs(v) == Line("sized", v, 0, 0)
Set(v, n) == Line("set", v, n, 0)
Load(v) == Line("load", v, 0, 0)
Store(v, n) == Line("store", v, n, 0)
Expect(v, n) == Line("expect", v, n, 0)
Spin(v, n) == Line("spin", v, n, 0)
Below(v, n, t) == Line("below", v, n, t)
Goto(t) == Line("goto", "", 0, t)
acquire(l) == Line("acquire", l, 0, 0)
release(l) == Line("release", l, 0, 0)
Add(v, n) == <<Load(v), Store(v, n)>>

Program(m, w) == [main |-> m, worker |-> w, other |-> <<exit>>]
TwoThreads == <<Create1("worker"), Create1("worker")>>
JoinBoth == <<Join1("some"), Join1("some"), exit>>

-----------------------------------------------------------------------------
(* The programs                                                            *)

test_1 == Program(
  <<Set("global", 1), Create1("worker"), Spin("global", 5), Join1("made"), exit>>,
  <<Expect("global", 1), Set("global", 5), exit>>)

test_2 == Program(
  <<Set("arg1", 11), Set("arg2", 22), Set("global", 1), Create1("worker"),
    Spin("global", 33), Expect("arg1", 44), Expect("arg2", 55), Join1("made"), exit>>,
  <<Expect("arg1", 11), Expect("arg2", 22), Set("arg1", 44), Set("arg2", 55),
    Expect("global", 1), Set("global", 33), exit>>)

\* test_5 and test_10; test_8 also waits for a child that is not there.
Counts(arg, arg_, end) ==
  <<Expect("arg1", arg), Expect("arg2", arg_), Expect("global", 1)>>
  \o Add("global", 1) \o end
WithArgs(arg, arg_, calls) ==
  <<Set("global", 1), Set("arg1", arg), Set("arg2", arg_), Create1("worker")>>
  \o calls \o <<Join1("made"), Expect("global", 2), exit>>
test_5 == Program(WithArgs(42, 24, <<>>), Counts(42, 24, <<exit>>))
test_8 == Program(WithArgs(42, 24, <<Wait1("none")>>), Counts(42, 24, <<exit>>))
test_10 == Program(WithArgs(35, 42, <<>>), Counts(35, 42, <<exit>>))

\* The thread returns to no address: the trap kills it, and it exits.
trap == exit
test_14 == Program(WithArgs(42, 24, <<>>), Counts(42, 24, <<trap>>))

test_7 == Program(<<fork, Join1("none"), Wait1("some"), exit>>, <<>>)

Round == <<Set("global", 1), Create1("worker"), Join1("made"), Expect("global", 5)>>
test_11 == Program(
  FlattenSeq([i \in 1 .. MaxPid - 2 |-> Round]) \o <<exit>>,
  <<Expect("global", 1)>> \o Add("global", 4) \o <<exit>>)

test_12 == Program(
  <<acquire("lock"), acquire("lock2")>> \o TwoThreads
  \o <<SizeTo("size"), Goto(3), release("lock"), acquire("lock"),
       Below("global", 2, -2), Set("global", 0), sbrk(1), SizeTo("size"),
       release("lock"), Goto(3), release("lock2"), acquire("lock2"),
       Below("global", 2, -2), release("lock2")>> \o JoinBoth,
  <<acquire("lock"), SizeIs("size")>> \o Add("global", 1)
  \o <<release("lock"), acquire("lock2"), SizeIs("size")>> \o Add("global", 1)
  \o <<release("lock2"), exit>>)

test_13 == Program(
  <<Set("global", 1), Set("arg1", 11), Set("arg2", 22)>> \o TwoThreads \o JoinBoth,
  <<Expect("arg1", 11), Expect("arg2", 22), Expect("global", 1), exit>>)

Locked(lines) == <<acquire("lock")>> \o lines \o <<release("lock")>>
loops == 2
test_15 == Program(
  TwoThreads \o <<Join1("some"), Join1("some"), Expect("global", 2 * loops), exit>>,
  Locked(Add("global", 1)) \o Locked(Add("global", 1)) \o <<exit>>)

\* main adds to a without the lock; b is global.
race == Program(
  <<Set("flag", 1)>> \o TwoThreads \o Add("a", 2) \o <<Set("flag", 0)>> \o JoinBoth,
  <<Below("flag", 1, 9), acquire("lock"), Below("a", 1, 5)>>
  \o Add("a", -1) \o Add("global", 1) \o <<release("lock"), Goto(-8), exit>>)

\* A producer of two samples, a buffer of one, a consumer that counts them:
\* running_flag is flag, trail_i is a, success is global.
Started == <<acquire("lock"), Below("flag", 1, 3), release("lock"), Goto(3),
             release("lock"), Goto(-5)>>
BUFFSIZE == 1
Sample == <<Below("flag", 1, 8), acquire("lock"), Below("a", BUFFSIZE, 3),
            release("lock"), Goto(-3)>> \o Add("a", 1) \o <<release("lock")>>
produce == Started \o Sample \o Sample
           \o <<acquire("lock"), Set("flag", 0), release("lock"), exit>>
consume == Started
           \o <<Below("a", 1, 2), Goto(2), Below("flag", 1, 9), acquire("lock"),
                Below("a", 1, 5)>>
           \o Add("a", -1) \o Add("global", 1) \o <<release("lock"), Goto(-10), exit>>
pi == [main |-> <<Create1("worker"), Create1("other"), Set("flag", 1)>> \o JoinBoth,
       worker |-> produce, other |-> consume]

Tests == {test_1, test_2, test_5, test_7, test_8, test_10, test_11, test_12, test_13,
          test_14, test_15, race, pi}

-----------------------------------------------------------------------------
TestsInit ==
  /\ test \in Tests
  /\ code = [p \in Slots |-> "main"] /\ pos = [p \in Slots |-> 1]
  /\ made = [p \in Slots |-> 0] /\ tmp = [p \in Slots |-> 0]
  /\ var = [v \in Globals |-> 0] /\ held = [l \in Locks |-> 0]
  /\ failed = FALSE

This(p) == test[code[p]][pos[p]]
By(p, n) == pos' = [pos EXCEPT ![p] = @ + n]

\* A line of the program itself.
Local(p) ==
  LET l == This(p)
      SetVar(n) == By(p, 1) /\ var' = [var EXCEPT ![l.v] = n] /\ UNCHANGED <<tmp, held>>
      Hold(from, to) == /\ held[l.v] = from /\ held' = [held EXCEPT ![l.v] = to]
                        /\ By(p, 1) /\ UNCHANGED <<tmp, var>>
      Jump(n) == By(p, n) /\ UNCHANGED <<tmp, var, held>>
  IN
    /\ At(p, "user") /\ p # initproc
    /\ \/ l.op = "set" /\ SetVar(l.n)
       \/ l.op = "size" /\ SetVar(proc[p].sz)
       \/ l.op = "store" /\ SetVar(tmp[p] + l.n)
       \/ /\ l.op = "load" /\ tmp' = [tmp EXCEPT ![p] = var[l.v]]
          /\ By(p, 1) /\ UNCHANGED <<var, held>>
       \/ l.op = "acquire" /\ Hold(0, p)
       \/ l.op = "release" /\ Hold(p, 0)
       \/ l.op = "spin" /\ var[l.v] = l.n /\ Jump(1)
       \/ l.op = "below" /\ Jump(IF var[l.v] < l.n THEN l.to ELSE 1)
       \/ l.op = "goto" /\ Jump(l.to)
       \/ l.op \in {"expect", "sized"} /\ Jump(1)
    /\ failed' = (IF l.op = "expect" THEN var[l.v] # l.n
                  ELSE l.op = "sized" /\ var[l.v] # proc[p].sz)
    /\ UNCHANGED <<vars, test, code, made>>

\* A step of the call that the line makes; there is memory for it.
Calling(p) ==
  LET l == This(p) IN
    \/ At(p, "user") /\ l.op = "create" /\ Create(p)
    \/ At(p, "user") /\ l.op = "fork" /\ Fork(p)
    \/ At(p, "user") /\ l.op = "exit" /\ Exit(p)
    \/ l.op = "join" /\ Join(p)
    \/ l.op = "wait" /\ Wait(p)
    \/ At(p, "user") /\ l.op = "sbrk" /\ Grow(p) /\ ctx'[p].y = proc[p].sz + l.n
    \/ Clone(p) /\ ctx'[p].at = "share"
    \/ CloneShare(p) \/ CloneSize(p) \/ CloneStart(p)
    \/ FindEntry(p) \/ PutAddress(p) \/ PutPid(p)
    \/ ForkCopy(p) /\ ctx'[p].at = "child"
    \/ ForkStart(p) \/ FreeStack(p)
    \/ GrowPage(p) /\ ctx'[p].at = "grow"
    \/ GrowStore(p)

\* What the call returns, when it does.
Returns(p) == proc'[p].state = "RUNNABLE" /\ ctx'[p].at = "user"
Reaps == {q \in Slots : proc[q].pid # 0 /\ proc'[q].pid = 0}
Result(p) ==
  IF ctx[p].at \in {"forget", "find", "pid"} THEN ctx[p].x
  ELSE IF Reaps = {} THEN -1 ELSE proc[Min(Reaps)].pid
Meets(p, is, n) ==
  CASE is = "made" -> n = made[p] [] is = "some" -> n > 0 [] is = "none" -> n = -1

\* clone and fork start the thread or child at its first line.
Starting(p) == ctx[p].at \in {"start", "child"}
Runs1(p) == IF ctx[p].at = "start" THEN This(p).v ELSE "other"

Called(p) ==
  /\ p # initproc /\ Calling(p) /\ UNCHANGED keeps
  /\ code' = IF Starting(p) THEN [code EXCEPT ![ctx[p].x] = Runs1(p)] ELSE code
  /\ LET next == IF Returns(p) THEN [pos EXCEPT ![p] = @ + 1] ELSE pos IN
       pos' = IF Starting(p) THEN [next EXCEPT ![ctx[p].x] = 1] ELSE next
  /\ made' = IF Returns(p) /\ This(p).op = "create"
             THEN [made EXCEPT ![p] = Result(p)] ELSE made
  /\ failed' = /\ Returns(p) /\ This(p).op \in {"join", "wait"}
                /\ ~Meets(p, This(p).v, Result(p))
  /\ UNCHANGED <<test, tmp, var, held>>

TestsNext ==
  /\ ~failed
  /\ \/ \E p \in Slots : (Local(p) \/ Called(p))
     \/ Wait(initproc) /\ UNCHANGED <<keeps, testVars>>

TestsSpec == Init /\ TestsInit /\ [][TestsNext]_<<vars, testVars>>

-----------------------------------------------------------------------------
(* Properties                                                              *)

\* A thread has a call or a line that it can go on with.
CanGoOn(p) ==
  LET l == This(p) IN
    /\ p # initproc /\ proc[p].state = "RUNNABLE"
    /\ ~(/\ ctx[p].at = "user"
         /\ \/ l.op = "acquire" /\ held[l.v] # 0
            \/ l.op = "release" /\ held[l.v] # p
            \/ l.op = "spin" /\ var[l.v] # l.n)

\* The asserts of the thread tests hold (test_1.c to test_15.c: shared memory,
\* arguments, join returns the clone's pid, wait and join divide the children,
\* the one size), no thread waits for what cannot come, and what two
\* threads hand over under a lock is neither lost nor counted twice (pi.c).
TestsPass ==
  /\ ~failed
  /\ \/ \E p \in Slots : CanGoOn(p)
     \/ \A p \in Slots \ {initproc} : proc[p].state \in {"UNUSED", "ZOMBIE"}
  /\ test = pi => var["global"] + var["a"] <= 2
=============================================================================
