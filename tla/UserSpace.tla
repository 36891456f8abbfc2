------------------------------- MODULE UserSpace ------------------------------
(***************************************************************************)
(* What is in the memory of user programs (P2A: vm.c, exec.c, syscall.c,   *)
(* sysfile.c), byte for byte: exec and the stack that main finds, fork,    *)
(* sbrk, the arguments that the kernel fetches through pointers, faults;   *)
(* and the tests of usertests.c about them.  Frames has what happens when  *)
(* memory runs out in the middle of a call: here a call gets what it needs *)
(* or nothing, and a page table costs nothing.  An int has two bytes.      *)
(***************************************************************************)
EXTENDS Integers, FiniteSets, SequencesExt

CONSTANTS
  Procs, First,   \* slots of the process table; a slot is its pid
  NFrames,
  PGSIZE, MAXARG,
  KERNBASE,       \* half of the address space
  Files,          \* of a name: [magic, phs: program headers], see LoadSegment
  MaxCalls

VARIABLES space,    \* of a process: its pages, from address 0
          proc,     \* struct proc, and esp and eax of its trap frame
          lines,    \* what a test has still to do
          calls, failed, panicked
vars == <<space, proc, lines, calls, failed, panicked>>

WORD == 2
UINT == 2 * KERNBASE
Page == 0 .. PGSIZE - 1
Zeroed == [user |-> TRUE, bytes |-> [b \in Page |-> 0]]
\* Init, and the shell that has started First.
Outside == 0
Nothing == [file |-> "", args |-> <<>>]
Unused == [state |-> "unused", parent |-> Outside, killed |-> FALSE, sz |-> 0, esp |-> 0,
           eax |-> 0, asked |-> Nothing]

-----------------------------------------------------------------------------
(* Address spaces (vm.c)                                                   *)

Pages(n) == (n + PGSIZE - 1) \div PGSIZE
Mapped(s, a) == a \in 0 .. PGSIZE * Len(s) - 1
\* What the program may touch; so may the kernel, and the guard page as well.
UserMay(s, a) == Mapped(s, a) /\ s[a \div PGSIZE + 1].user
Byte(s, a) == s[a \div PGSIZE + 1].bytes[a % PGSIZE]
IntAt(s, a) == Byte(s, a) + 256 * Byte(s, a + 1)
IntBytes(n) == <<n % 256, n \div 256>>
\* memmove of bs to address a.
Stored(s, a, bs) ==
  [k \in DOMAIN s |-> [s[k] EXCEPT !.bytes = [b \in Page |->
     LET i == (k - 1) * PGSIZE + b - a + 1 IN IF i \in DOMAIN bs THEN bs[i] ELSE @[b]]]]

Left == NFrames - FoldFunction(LAMBDA s, n : Len(s) + n, 0, space)
allocuvm(s, newsz) == s \o [k \in 1 .. Pages(newsz) - Len(s) |-> Zeroed]
\* s has its frames already.
FitsIn(s, newsz) == newsz < KERNBASE /\ Pages(newsz) - Len(s) <= Left
deallocuvm(s, newsz) == SubSeq(s, 1, Pages(newsz))
clearpteu(s, k) == [s EXCEPT ![k].user = FALSE]
\* copyuvm without the flags.
CopyOfBytes(s) == [k \in DOMAIN s |-> [s[k] EXCEPT !.user = TRUE]]
copyuvm(s) == s
CopyoutMay(s, a, n) == \A x \in a .. a + n - 1 : UserMay(s, x)

-----------------------------------------------------------------------------
(* exec                                                                    *)

Bad == [ok |-> FALSE, space |-> <<>>, sz |-> 0]
\* [load, vaddr, memsz, filesz, data]: data is what readi gets of filesz bytes.
LoadSegment(acc, ph) ==
  LET end == (ph.vaddr + ph.memsz) % UINT
      top == IF end < acc.sz THEN acc.sz ELSE end
      pages == allocuvm(acc.space, top)
  IN CASE ~acc.ok \/ ~ph.load -> acc
       [] \/ ph.memsz < ph.filesz \/ end < ph.vaddr \/ top = 0
          \/ end >= KERNBASE \/ ph.vaddr % PGSIZE # 0
          \/ Len(ph.data) # ph.filesz -> Bad
       [] OTHER -> [ok |-> TRUE, space |-> Stored(pages, ph.vaddr, ph.data), sz |-> top]
Loaded(f) ==
  IF ~Files[f].magic THEN Bad
  ELSE FoldLeft(LoadSegment, [ok |-> TRUE, space |-> <<>>, sz |-> 0], Files[f].phs)

\* The guard page and the stack.
WithStack(img) ==
  LET top == PGSIZE * (Pages(img.sz) + 2) IN
  IF ~img.ok \/ top >= KERNBASE THEN Bad
  ELSE [ok |-> TRUE, sz |-> top,
        space |-> clearpteu(allocuvm(img.space, top), Pages(img.sz) + 1)]

Align(a) == a - (a % WORD)
\* Strings go below each other; a copyout to the guard page fails.
PushString(acc, s) ==
  LET sp == Align(acc.sp - (Len(s) + 1)) IN
  IF ~acc.ok \/ ~CopyoutMay(acc.space, sp, Len(s) + 1) THEN [acc EXCEPT !.ok = FALSE]
  ELSE [acc EXCEPT !.sp = sp, !.space = Stored(@, sp, Append(s, 0)), !.ptrs = Append(@, sp)]
PushArgs(img, args) ==
  FoldLeft(PushString, [ok |-> img.ok, sp |-> img.sz, space |-> img.space, ptrs |-> <<>>], args)

\* argv is above argc and itself, in one slot less than the code counts with a
\* pointer to argv too many.
ArgvAt(sp, argc) == sp - (argc + 1) * WORD
ArgvAtEnd(sp, argc) == sp - argc * WORD
ustack(sp, ptrs) ==
  <<UINT - 1, Len(ptrs), ArgvAt(sp, Len(ptrs))>> \o Append(ptrs, 0)
WithArgs(img, args) ==
  LET s == PushArgs(img, args)
      words == ustack(s.sp, s.ptrs)
      sp == s.sp - WORD * Len(words)
  IN IF ~s.ok \/ ~CopyoutMay(s.space, sp, WORD * Len(words)) THEN Bad
     ELSE [ok |-> TRUE, sz |-> img.sz, esp |-> sp,
           space |-> Stored(s.space, sp, FlattenSeq([i \in DOMAIN words |-> IntBytes(words[i])]))]

-----------------------------------------------------------------------------
(* The arguments of a call (syscall.c)                                     *)

fetchint(p, a) == a + WORD <= proc[p].sz
\* Where the argument of a call is: above the return address.
argint(sp) == (sp + WORD) % UINT
Nuls(p, a) == {x \in a .. proc[p].sz - 1 : Byte(space[p], x) = 0}
fetchstr(p, a) == a < proc[p].sz /\ Nuls(p, a) # {}
StrAt(s, a, end) == [i \in 1 .. end - a |-> Byte(s, a + i - 1)]
Str(p, a) == StrAt(space[p], a, CHOOSE x \in Nuls(p, a) : \A y \in Nuls(p, a) : x <= y)
argptr(p, a, n) == n >= 0 /\ a < proc[p].sz /\ a + n <= proc[p].sz

\* The arguments that sys_exec finds at uargv, if it takes them.
Arg(p, uargv, i) == IntAt(space[p], uargv + WORD * i)
TakesArgs(p, uargv, n) ==
  /\ \A i \in 0 .. n : fetchint(p, uargv + WORD * i)
  /\ Arg(p, uargv, n) = 0
  /\ \A i \in 0 .. n - 1 : Arg(p, uargv, i) # 0 /\ fetchstr(p, Arg(p, uargv, i))
ArgCounts(p, uargv) == {n \in 0 .. MAXARG - 1 : TakesArgs(p, uargv, n)}
Args(p, uargv, n) == [i \in 1 .. n |-> Str(p, Arg(p, uargv, i - 1))]

-----------------------------------------------------------------------------
(* What a program does                                                     *)

Runs(p) == panicked = "none" /\ proc[p].state = "runs" /\ ~proc[p].killed
Returns(p, r) == proc' = [proc EXCEPT ![p].eax = r, ![p].asked = Nothing]
\* A fault in the kernel is its end.
KernelTouches(p, addrs) ==
  panicked' = IF \A a \in addrs : Mapped(space[p], a) THEN "none" ELSE "trap"

exit(p) ==
  /\ proc' = [q \in Procs |->
       CASE q = p -> [proc[p] EXCEPT !.state = "zombie", !.asked = Nothing]
         [] proc[q].parent = p -> [proc[q] EXCEPT !.parent = Outside]
         [] OTHER -> proc[q]]
  /\ UNCHANGED <<space, panicked>>
\* A killed process on its way back, and one whose access has faulted.
Dies(p) == panicked = "none" /\ proc[p].state = "runs" /\ proc[p].killed /\ exit(p)
Faults(p) ==
  /\ proc' = [proc EXCEPT ![p].killed = TRUE, ![p].asked = Nothing]
  /\ UNCHANGED <<space, panicked>>

Store(p, a, b) ==
  IF UserMay(space[p], a)
  THEN space' = [space EXCEPT ![p] = Stored(@, a, <<b>>)] /\ Returns(p, 0) /\ UNCHANGED panicked
  ELSE Faults(p)
Load(p, a) ==
  IF UserMay(space[p], a)
  THEN Returns(p, Byte(space[p], a)) /\ UNCHANGED <<space, panicked>>
  ELSE Faults(p)

\* [ok, sz, space].  No process frees its own code (see Frames); a size below
\* 0 is a large one, to which deallocuvm does not shrink.
growproc(p, n) ==
  LET old == proc[p].sz
      new == (old + n) % UINT
  IN CASE n > 0 -> [ok |-> FitsIn(space[p], new), sz |-> new, space |-> allocuvm(space[p], new)]
       [] n < 0 /\ new >= old -> [ok |-> TRUE, sz |-> old, space |-> space[p]]
       [] OTHER -> [ok |-> TRUE, sz |-> new, space |-> deallocuvm(space[p], new)]
Sbrk(p, n) ==
  /\ (proc[p].sz + n) % UINT # 0
  /\ LET g == growproc(p, n) IN
     IF g.ok
     THEN /\ space' = [space EXCEPT ![p] = g.space]
          /\ proc' = [proc EXCEPT ![p].sz = g.sz, ![p].eax = proc[p].sz, ![p].asked = Nothing]
     ELSE Returns(p, -1) /\ UNCHANGED space
  /\ UNCHANGED panicked

Fork(p, c) ==
  /\ proc[c].state = "unused"
  /\ IF Len(space[p]) <= Left
     THEN /\ space' = [space EXCEPT ![c] = copyuvm(space[p])]
          /\ proc' = [proc EXCEPT ![p].eax = c, ![p].asked = Nothing,
                                  ![c] = [proc[p] EXCEPT !.parent = p, !.eax = 0]]
     ELSE Returns(p, -1) /\ UNCHANGED space
  /\ UNCHANGED panicked

Exec(p, f, uargv) ==
  /\ UNCHANGED panicked
  /\ \/ \E n \in ArgCounts(p, uargv) :
          LET img == WithArgs(WithStack(Loaded(f)), Args(p, uargv, n)) IN
          IF img.ok /\ Len(img.space) <= Left
          THEN /\ space' = [space EXCEPT ![p] = img.space]
               /\ proc' = [proc EXCEPT ![p].sz = img.sz, ![p].esp = img.esp, ![p].eax = 0,
                             ![p].asked = [file |-> f, args |-> Args(p, uargv, n)]]
          ELSE Returns(p, -1) /\ UNCHANGED space
     \/ ArgCounts(p, uargv) = {} /\ Returns(p, -1) /\ UNCHANGED space

\* wait, when it need not sleep: freevm and an unused slot.
Children(p) == {c \in Procs : proc[c].parent = p /\ proc[c].state # "unused"}
Reap(c) ==
  /\ proc[c].state = "zombie"
  /\ space' = [space EXCEPT ![c] = <<>>]
Wait(p) ==
  /\ \/ \E c \in Children(p) :
          /\ Reap(c)
          /\ proc' = [proc EXCEPT ![c] = Unused, ![p].eax = c, ![p].asked = Nothing]
     \/ Children(p) = {} /\ Returns(p, -1) /\ UNCHANGED space
  /\ UNCHANGED panicked
Kill(p, c) ==
  /\ IF proc[c].state = "unused" THEN Returns(p, -1)
     ELSE proc' = [proc EXCEPT ![c].killed = TRUE, ![p].eax = 0, ![p].asked = Nothing]
  /\ UNCHANGED <<space, panicked>>

\* n bytes of a file to address a; the kernel does not look at PTE_U.
Read(p, a, n) ==
  IF argptr(p, a, n)
  THEN /\ KernelTouches(p, a .. a + n - 1) /\ Returns(p, n)
       /\ space' = [space EXCEPT ![p] = Stored(@, a, [i \in 1 .. n |-> 9])]
  ELSE Returns(p, -1) /\ UNCHANGED <<space, panicked>>
\* A file that is not there, and a new name at a.
Link(p, a) ==
  /\ Returns(p, -1) /\ KernelTouches(p, a .. proc[p].sz - 1) /\ UNCHANGED space
\* sleep with the stack pointer at sp.
SleepAt(p, sp) ==
  LET a == argint(sp) IN
  /\ UNCHANGED space
  /\ IF fetchint(p, a) THEN KernelTouches(p, {a, a + 1}) /\ Returns(p, 0)
     ELSE Returns(p, -1) /\ UNCHANGED panicked

-----------------------------------------------------------------------------
(* Programs that do anything                                               *)

Init ==
  /\ space = [p \in Procs |-> IF p = First THEN WithStack(Loaded("init")).space ELSE <<>>]
  /\ proc = [p \in Procs |-> IF p # First THEN Unused
       ELSE [Unused EXCEPT !.state = "runs", !.sz = WithStack(Loaded("init")).sz,
                           !.esp = WithStack(Loaded("init")).sz - WORD]]
  /\ calls = 0 /\ failed = FALSE /\ panicked = "none"
InitFree == Init /\ lines = [p \in Procs |-> <<>>]

\* Around the pages of the program, the guard page, the stack and the end.
Addresses(p) ==
  {0, proc[p].esp, proc[p].sz, KERNBASE}
  \cup {a \in {proc[p].sz - d : d \in {1, PGSIZE, PGSIZE + 1, 2 * PGSIZE}} : a > 0}
\* The argv that main got, those in the data of the program, and worse.
Argvs(p) ==
  {4, 6, 8, 10, 12, proc[p].sz - WORD, proc[p].sz - 1}
  \cup (IF Mapped(space[p], proc[p].esp + 5) THEN {IntAt(space[p], proc[p].esp + 2 * WORD)} ELSE {})
Does(p) ==
  \/ \E a \in Addresses(p) : Store(p, a, 8) \/ Link(p, a) \/ SleepAt(p, a)
  \/ \E a \in Addresses(p), n \in {-1, 1, 2} : Read(p, a, n)
  \/ \E n \in {1, PGSIZE, -1, -PGSIZE, -KERNBASE + 1} : Sbrk(p, n)
  \/ \E c \in Procs : Fork(p, c)
  \/ \E f \in DOMAIN Files, u \in Argvs(p) : Exec(p, f, u)
  \/ Wait(p) \/ exit(p)
NextFree ==
  /\ UNCHANGED <<lines, failed>>
  /\ \E p \in Procs :
       \/ calls < MaxCalls /\ calls' = calls + 1 /\ Runs(p) /\ Does(p)
       \/ Dies(p) /\ UNCHANGED calls
       \/ /\ proc[p].parent = Outside /\ Reap(p)
          /\ proc' = [proc EXCEPT ![p] = Unused] /\ UNCHANGED <<calls, panicked>>

-----------------------------------------------------------------------------
(* The tests                                                               *)

\* is: what the call may return, and a fault returns nothing; code: of a child.
Line(o, a, n, is, code) == [op |-> o, a |-> a, n |-> n, is |-> is, code |-> code]
Anything == -1 .. UINT
load(a, is) == Line("load", a, 0, is, <<>>)
sbrk(n, was) == Line("sbrk", 0, n, {was}, <<>>)
sbrkTo(sz, is) == Line("sbrk to", 0, sz, is, <<>>)
fork(c, code) == Line("fork", 0, c, {c}, code)
exec(f, uargv, is) == Line("exec", uargv, 0, is, f)
wait == Line("wait", 0, 0, Procs, <<>>)
kill(c) == Line("kill", 0, c, {0}, <<>>)

\* The test program has two pages, and a few pages are BIG.
Brk == 4 * PGSIZE
BIG == 8 * PGSIZE
Hog == <<sbrkTo(BIG, Anything), Line("sit", 0, 0, {}, <<>>)>>
sbrktest ==
  LET end == Brk + PGSIZE + 1 IN
  FlattenSeq([i \in 1 .. PGSIZE + 1 |->
    <<sbrk(1, Brk + i - 1), Line("store", Brk + i - 1, 1, {0}, <<>>)>>])
  \o <<fork(2, <<sbrk(1, end), sbrk(1, end + 1)>>), sbrk(1, end), sbrk(1, end + 1), wait>>
  \o <<sbrkTo(BIG, {end + 2}), Line("store", BIG - 1, 99, {0}, <<>>), sbrk(-PGSIZE, BIG),
       sbrk(0, BIG - PGSIZE), sbrk(PGSIZE, BIG - PGSIZE), sbrk(0, BIG),
       load(BIG - 1, Anything \ {99}), sbrkTo(Brk, {BIG})>>
  \o <<fork(2, <<load(KERNBASE, {})>>), wait>>
  \o <<fork(2, Hog), Line("await", 0, 2, {0}, <<>>), fork(3, Hog), Line("await", 0, 3, {0}, <<>>),
       sbrk(PGSIZE, Brk), kill(2), wait, kill(3), wait, sbrkTo(Brk, {Brk + PGSIZE})>>
validatetest ==
  FlattenSeq([i \in 1 .. 6 |->
    <<fork(2, <<Line("sleep at", (i - 1) * PGSIZE, 0, Anything, <<>>)>>), kill(2), wait,
      Line("link", (i - 1) * PGSIZE, 0, {-1}, <<>>)>>])
bsstest == [i \in 1 .. PGSIZE |-> load(PGSIZE + i - 1, {0})]
bigargtest == <<fork(2, <<exec("echo", 6, {-1})>>), wait>>
exectest == <<exec("echo", 10, {0})>>
uio == <<fork(2, <<Line("io", 0, 0, {}, <<>>)>>), wait>>
argptest == <<Line("read", Brk - 1, -1, Anything, <<>>)>>
Tests == {sbrktest, validatetest, bsstest, bigargtest, exectest, uio, argptest}

InitTests == Init /\ \E t \in Tests : lines = [p \in Procs |-> IF p = First THEN t ELSE <<>>]
Sitting(c) == lines[c] # <<>> /\ lines[c][1].op = "sit"
Act(p, l) ==
  \/ l.op = "store" /\ Store(p, l.a, l.n)
  \/ l.op = "load" /\ Load(p, l.a)
  \/ l.op = "sbrk" /\ Sbrk(p, l.n)
  \/ l.op = "sbrk to" /\ Sbrk(p, l.n - proc[p].sz)
  \/ l.op = "fork" /\ Fork(p, l.n)
  \/ l.op = "exec" /\ Exec(p, l.code, l.a)
  \/ l.op = "wait" /\ Wait(p)
  \/ l.op = "kill" /\ Kill(p, l.n)
  \/ l.op = "read" /\ Read(p, l.a, l.n)
  \/ l.op = "link" /\ Link(p, l.a)
  \/ l.op = "sleep at" /\ SleepAt(p, l.a)
  \/ l.op = "await" /\ Sitting(l.n) /\ Returns(p, 0) /\ UNCHANGED <<space, panicked>>
  \/ l.op = "io" /\ Faults(p)
Obeys(p) ==
  LET l == lines[p][1] IN
  /\ Runs(p) /\ lines[p] # <<>> /\ Act(p, l)
  /\ lines' = [q \in Procs |->
       CASE q = p -> Tail(lines[p])
         [] l.op = "fork" /\ q = l.n /\ proc'[q].state = "runs" -> l.code
         [] OTHER -> lines[q]]
  /\ failed' = (~proc'[p].killed /\ proc'[p].eax \notin l.is)
  /\ UNCHANGED calls
NextTests ==
  \E p \in Procs :
    \/ Obeys(p)
    \/ Dies(p) /\ UNCHANGED <<lines, calls, failed>>
    \/ Runs(p) /\ lines[p] = <<>> /\ exit(p) /\ UNCHANGED <<lines, calls, failed>>

-----------------------------------------------------------------------------
(* Properties                                                              *)

\* main's argc and argv, read through the pointers on its stack (user.h).
CString(s, a) == CHOOSE str \in {StrAt(s, a, e) : e \in a .. PGSIZE * Len(s) - 1} :
  Byte(s, a + Len(str)) = 0 /\ \A i \in DOMAIN str : str[i] # 0
ArgsOfMain(s, sp) ==
  LET argc == IntAt(s, sp + WORD)
      argv == IntAt(s, sp + 2 * WORD)
  IN [i \in 1 .. argc |-> CString(s, IntAt(s, argv + WORD * (i - 1)))]

\* The byte that a program finds at a below its stack: of the last segment of
\* its file that has one, or 0.
InFile(f, a) ==
  LET phs == Files[f].phs
      has == {i \in DOMAIN phs : phs[i].load /\ a - phs[i].vaddr \in 0 .. phs[i].filesz - 1}
  IN IF has = {} THEN 0
     ELSE LET i == CHOOSE j \in has : \A k \in has : k <= j
          IN phs[i].data[a - phs[i].vaddr + 1]

\* A program starts as it was asked for: its arguments are those that exec was
\* called with, although they lie in the memory that exec replaces, and its
\* memory is its file, zeroes, a guard page and a stack (exec.c).  A child
\* starts with the pages of its parent, also the guard page (vm.c).  The kernel
\* does not fault on a pointer that it has checked (syscall.c), and a process
\* has the pages of its size.
StartsAsAsked ==
  /\ panicked = "none"
  /\ \A p \in Procs : proc[p].state \in {"runs", "zombie"} => Len(space[p]) = Pages(proc[p].sz)
  /\ \A p \in Procs : proc[p].asked # Nothing =>
       LET s == space[p]
           f == proc[p].asked.file
           guard == Len(s) - 1
       IN /\ ArgsOfMain(s, proc[p].esp) = proc[p].asked.args
          /\ \A k \in DOMAIN s : s[k].user = (k # guard)
          /\ \A a \in 0 .. PGSIZE * (guard - 1) - 1 : Byte(s, a) = InFile(f, a)
          /\ \A a \in PGSIZE * guard .. proc[p].esp - 1 : Byte(s, a) = 0

\* The tests pass and do not get stuck (usertests.c).
TestsPass ==
  /\ ~failed
  /\ lines[First] = <<>> \/ \E p \in Procs :
       \/ proc[p].killed
       \/ Runs(p) /\ IF lines[p] = <<>> THEN p # First ELSE
            CASE lines[p][1].op = "wait" ->
                   Children(p) = {} \/ \E c \in Children(p) : proc[c].state = "zombie"
              [] lines[p][1].op = "await" -> Sitting(lines[p][1].n)
              [] OTHER -> lines[p][1].op # "sit"
=============================================================================
