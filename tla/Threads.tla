------------------------------- MODULE Threads -------------------------------
(***************************************************************************)
(* Kernel threads of P3B: clone and join beside fork, wait, exec, exit and *)
(* sbrk, on address spaces that several slots of the process table share,  *)
(* and the library calls thread_create and thread_join with their table of *)
(* stacks, which is memory of the program.  Processes that are RUNNABLE    *)
(* take steps in any order; a critical section under ptable.lock is one.   *)
(***************************************************************************)
EXTENDS Integers, FiniteSets, FiniteSetsExt

CONSTANTS
  NPROC,       \* slots of ptable.proc
  NSPACES,     \* address spaces that fit in memory
  Stacks,      \* blocks that malloc(2 * PGSIZE) can return
  NENTRIES,    \* length of addressArray and pidsArray (64)
  Calls,       \* the calls that programs make
  GrowArgs,    \* page counts passed to sbrk, positive and negative
  MaxSz,       \* bound: pages of a process
  MaxPid,      \* bound: no clone or fork once nextpid exceeds it
  Disciplines  \* what programs may observe, as sets of rules: "join", a
               \* thread joins its threads before it exits or calls exec;
               \* "lock", sbrk, fork and thread_create calls on one space
               \* exclude each other

ASSUME ThreadsAssumption ==
  /\ NPROC \in Nat /\ NPROC >= 2
  /\ NSPACES \in Nat /\ NSPACES >= 2
  /\ Stacks \subseteq Nat \ {0}
  /\ NENTRIES \in Nat \ {0}
  /\ Calls \subseteq {"create", "join", "fork", "wait", "sbrk", "exec", "exit"}
  /\ GrowArgs \subseteq Int
  /\ MaxSz \in Nat \ {0} /\ MaxPid \in Nat
  /\ Disciplines \subseteq SUBSET {"join", "lock"}

VARIABLES
  proc,      \* ptable.proc
  nextpid,
  ctx,       \* where the thread of a slot is, with three locals
  mem,       \* pages mapped in a space; its malloc blocks and its table
  spaces,    \* allocated page directories
  twice,     \* a page directory was freed while it was free
  panicked,  \* the message of the panic that stopped the kernel
  keeps      \* the rules that the programs of this behaviour observe

vars == <<proc, nextpid, ctx, mem, spaces, twice, panicked, keeps>>

Slots == 1 .. NPROC
Spaces == 1 .. NSPACES
Entries == 1 .. NENTRIES
initproc == 1

States == {"UNUSED", "EMBRYO", "RUNNABLE", "SLEEPING", "ZOMBIE"}
Places == {"user", "join", "wait", "clone", "share", "size", "start", "find",
           "addr", "pid", "forget", "copy", "child", "grow"}

TypeOK ==
  /\ proc \in [Slots -> [state : States, pid : Nat, parent : 0 .. NPROC,
                         pgdir : 0 .. NSPACES, sz : Nat, stack : Stacks \cup {0}]]
  /\ nextpid \in Nat
  /\ ctx \in [Slots -> [at : Places, x : Int, y : Int, z : Int]]
  /\ mem \in [Spaces -> [mapped : SUBSET Nat, blocks : SUBSET Stacks,
                         table : [Entries -> [addr : Stacks \cup {0}, pid : Int]]]]
  /\ spaces \subseteq Spaces
  /\ twice \in BOOLEAN
  /\ panicked \in {"none", "remap", "copyuvm: page not present"}
  /\ keeps \in Disciplines

Image == [mapped |-> {0}, blocks |-> {},
          table |-> [i \in Entries |-> [addr |-> 0, pid |-> 0]]]
Unused == [state |-> "UNUSED", pid |-> 0, parent |-> 0, pgdir |-> 0, sz |-> 0,
           stack |-> 0]
User == [at |-> "user", x |-> 0, y |-> 0, z |-> 0]

\* init and one program, its child, after exec.
Init ==
  /\ proc = [p \in Slots |->
       IF p > 2 THEN Unused
       ELSE [Unused EXCEPT !.state = "RUNNABLE", !.pid = p, !.parent = p - 1,
                           !.pgdir = p, !.sz = 1]]
  /\ nextpid = 3
  /\ ctx = [p \in Slots |-> User]
  /\ mem = [d \in Spaces |-> Image]
  /\ spaces = {1, 2}
  /\ twice = FALSE
  /\ panicked = "none"
  /\ keeps \in Disciplines

-----------------------------------------------------------------------------
Alive(q) == proc[q].state \in {"RUNNABLE", "SLEEPING", "ZOMBIE"}
Space(p) == proc[p].pgdir
Together(p, q) == Space(p) = Space(q)

At(p, place) == panicked = "none" /\ proc[p].state = "RUNNABLE"
                /\ ctx[p].at = place
Go(p, place, x, y, z) ==
  ctx' = [ctx EXCEPT ![p] = [at |-> place, x |-> x, y |-> y, z |-> z]]
Return(p) == ctx' = [ctx EXCEPT ![p] = User]

\* A program other than init makes the call; init only waits (init.c).
Makes(p, call) ==
  /\ At(p, "user")
  /\ call \in IF p = initproc THEN {"wait"} ELSE Calls

\* The discipline of the program on one address space.
LockFree(p) ==
  "lock" \in keeps =>
    \A q \in Slots : q # p /\ Alive(q) /\ Together(p, q)
                       => ctx[q].at \in {"user", "join", "wait", "forget"}

Threads(p) == {q \in Slots : proc[q].parent = p /\ q # p /\ Together(p, q)}
Children(p) == {q \in Slots : proc[q].parent = p /\ ~Together(p, q)}
Zombies(S) == {q \in S : proc[q].state = "ZOMBIE"}

-----------------------------------------------------------------------------
(* allocproc; clone; fork                                                  *)

\* Guard: a free slot and, for the bound, a pid.  The calls below fail without.
AllocProc(p, place, s) ==
  LET free == {q \in Slots : proc[q].state = "UNUSED"} IN
  /\ free # {} /\ nextpid <= MaxPid
  /\ proc' = [proc EXCEPT ![Min(free)].state = "EMBRYO",
                          ![Min(free)].pid = nextpid,
                          ![Min(free)].stack = 0]
  /\ nextpid' = nextpid + 1
  /\ Go(p, place, Min(free), s, 0)

\* thread_create: malloc of the stack.
Create(p) ==
  /\ Makes(p, "create") /\ LockFree(p)
  /\ LET free == Stacks \ mem[Space(p)].blocks IN
       /\ free # {}
       /\ mem' = [mem EXCEPT ![Space(p)].blocks = @ \cup {Min(free)}]
       /\ Go(p, "clone", 0, Min(free), 0)
  /\ UNCHANGED <<proc, nextpid, spaces, twice, panicked>>

Clone(p) ==
  /\ At(p, "clone")
  /\ \/ AllocProc(p, "share", ctx[p].y) /\ UNCHANGED mem
     \/ /\ mem' = [mem EXCEPT ![Space(p)].blocks = @ \ {ctx[p].y}]
        /\ Return(p)
        /\ UNCHANGED <<proc, nextpid>>
  /\ UNCHANGED <<spaces, twice, panicked>>

\* np->pgdir is set, curproc->sz read ...
CloneShare(p) ==
  /\ At(p, "share")
  /\ proc' = [proc EXCEPT ![ctx[p].x].pgdir = Space(p)]
  /\ Go(p, "size", ctx[p].x, ctx[p].y, proc[p].sz)
  /\ UNCHANGED <<nextpid, mem, spaces, twice, panicked>>

\* ... and np->sz written, then the other fields.
StackBase(s) == s
CloneSize(p) ==
  /\ At(p, "size")
  /\ proc' = [proc EXCEPT ![ctx[p].x].sz = ctx[p].z,
                          ![ctx[p].x].parent = p,
                          ![ctx[p].x].stack = StackBase(ctx[p].y)]
  /\ Go(p, "start", ctx[p].x, ctx[p].y, 0)
  /\ UNCHANGED <<nextpid, mem, spaces, twice, panicked>>

\* clone returns the pid to thread_create.
CloneStart(p) ==
  /\ At(p, "start")
  /\ proc' = [proc EXCEPT ![ctx[p].x].state = "RUNNABLE"]
  /\ Go(p, "find", proc[ctx[p].x].pid, ctx[p].y, 0)
  /\ UNCHANGED <<nextpid, mem, spaces, twice, panicked>>

\* thread_create looks for a free entry and fills its two words.
Table(p) == mem[Space(p)].table
FreeEntries(p) == {i \in Entries : Table(p)[i].addr = 0}
FindEntry(p) ==
  /\ At(p, "find")
  /\ IF FreeEntries(p) = {} THEN Return(p)
     ELSE Go(p, "addr", ctx[p].x, ctx[p].y, Min(FreeEntries(p)))
  /\ UNCHANGED <<proc, nextpid, mem, spaces, twice, panicked>>

PutAddress(p) ==
  /\ At(p, "addr")
  /\ mem' = [mem EXCEPT ![Space(p)].table[ctx[p].z].addr = ctx[p].y]
  /\ Go(p, "pid", ctx[p].x, ctx[p].y, ctx[p].z)
  /\ UNCHANGED <<proc, nextpid, spaces, twice, panicked>>

PutPid(p) ==
  /\ At(p, "pid")
  /\ mem' = [mem EXCEPT ![Space(p)].table[ctx[p].z].pid = ctx[p].x]
  /\ Return(p)
  /\ UNCHANGED <<proc, nextpid, spaces, twice, panicked>>

\* fork fails when it has no slot or no memory, also after allocproc.
Fork(p) ==
  /\ Makes(p, "fork") /\ LockFree(p)
  /\ AllocProc(p, "copy", 0)
  /\ UNCHANGED <<mem, spaces, twice, panicked>>

ForkCopy(p) ==
  /\ At(p, "copy")
  /\ LET q == ctx[p].x
         free == Spaces \ spaces
         d == Min(free)
     IN
       \/ /\ proc' = [proc EXCEPT ![q].state = "UNUSED"]
          /\ Return(p)
          /\ UNCHANGED <<mem, spaces, panicked>>
       \/ /\ free # {}
          /\ 0 .. proc[p].sz - 1 \subseteq mem[Space(p)].mapped
          /\ spaces' = spaces \cup {d}
          /\ mem' = [mem EXCEPT ![d] =
                       [mem[Space(p)] EXCEPT !.mapped = 0 .. proc[p].sz - 1]]
          /\ proc' = [proc EXCEPT ![q].pgdir = d, ![q].sz = proc[p].sz,
                                  ![q].parent = p]
          /\ Go(p, "child", q, 0, 0)
          /\ UNCHANGED panicked
       \/ /\ ~(0 .. proc[p].sz - 1 \subseteq mem[Space(p)].mapped)
          /\ panicked' = "copyuvm: page not present"
          /\ UNCHANGED <<proc, ctx, mem, spaces>>
  /\ UNCHANGED <<nextpid, twice>>

ForkStart(p) ==
  /\ At(p, "child")
  /\ proc' = [proc EXCEPT ![ctx[p].x].state = "RUNNABLE"]
  /\ Return(p)
  /\ UNCHANGED <<nextpid, mem, spaces, twice, panicked>>

-----------------------------------------------------------------------------
(* exit, wait, join                                                        *)

\* freevm; the memory is gone.
FreeVm(d) ==
  /\ spaces' = spaces \ {d}
  /\ mem' = [mem EXCEPT ![d] = Image]
  /\ twice' = (twice \/ d \notin spaces)

\* exit wakes the parent, and init when it inherits a zombie.
Woken(p) ==
  {proc[p].parent} \cup
  (IF Zombies({q \in Slots : proc[q].parent = p}) = {} THEN {} ELSE {initproc})

Exit(p) ==
  /\ Makes(p, "exit")
  /\ "join" \in keeps => Threads(p) = {}
  /\ proc' = [q \in Slots |->
       IF q = p THEN [proc[q] EXCEPT !.state = "ZOMBIE"]
       ELSE [proc[q] EXCEPT
              !.parent = IF @ = p THEN initproc ELSE @,
              !.state = IF q \in Woken(p) /\ @ = "SLEEPING" THEN "RUNNABLE"
                        ELSE @]]
  /\ UNCHANGED <<nextpid, ctx, mem, spaces, twice, panicked>>

Reaped(q) == [proc EXCEPT ![q].state = "UNUSED", ![q].pid = 0, ![q].parent = 0]

\* wait: a child with a space of its own, which goes with it.
Wait(p) ==
  /\ Makes(p, "wait") \/ At(p, "wait")
  /\ LET kids == Children(p)
         q == Min(Zombies(kids))
     IN
       \/ /\ Zombies(kids) # {}
          /\ proc' = Reaped(q)
          /\ FreeVm(Space(q))
          /\ Return(p)
       \/ /\ kids = {}
          /\ Return(p)
          /\ UNCHANGED <<proc, mem, spaces, twice>>
       \/ /\ kids # {} /\ Zombies(kids) = {}
          /\ proc' = [proc EXCEPT ![p].state = "SLEEPING"]
          /\ Go(p, "wait", 0, 0, 0)
          /\ UNCHANGED <<mem, spaces, twice>>
  /\ UNCHANGED <<nextpid, panicked>>

\* join: a thread; thread_join goes on with its pid and stack.
JoinAll(p) == Children(p) \cup Threads(p)
Joinable(p) == Threads(p)
FirstExited(S) == {q \in Zombies(S) : q = Min(S)}
Exited(S) == Zombies(S)
Join(p) ==
  /\ Makes(p, "join") \/ At(p, "join")
  /\ LET kids == Joinable(p)
         q == Min(Exited(kids))
     IN
       \/ /\ Exited(kids) # {}
          /\ proc' = Reaped(q)
          /\ Go(p, "forget", proc[q].pid, proc[q].stack, 0)
       \/ /\ kids = {}
          /\ Return(p)
          /\ UNCHANGED proc
       \/ /\ kids # {} /\ Exited(kids) = {}
          /\ proc' = [proc EXCEPT ![p].state = "SLEEPING"]
          /\ Go(p, "join", 0, 0, 0)
  /\ UNCHANGED <<nextpid, mem, spaces, twice, panicked>>

\* thread_join frees the address that the table has for the pid.
FirstTaken(p, pid) ==
  {i \in Entries \ FreeEntries(p) : \A j \in 1 .. i - 1 : j \in FreeEntries(p)}
EntryOf(p, pid) == {i \in Entries : Table(p)[i].pid = pid}
FreeStack(p) ==
  /\ At(p, "forget")
  /\ LET mine == EntryOf(p, ctx[p].x)
         m == mem[Space(p)]
     IN mem' = [mem EXCEPT ![Space(p)] =
          [m EXCEPT !.blocks = m.blocks \ {m.table[i].addr : i \in mine},
                    !.table = [i \in Entries |->
                      IF i \in mine THEN [addr |-> 0, pid |-> -1] ELSE m.table[i]]]]
  /\ Return(p)
  /\ UNCHANGED <<proc, nextpid, spaces, twice, panicked>>

-----------------------------------------------------------------------------
(* exec and sbrk                                                           *)

Exec(p) ==
  /\ Makes(p, "exec")
  /\ "join" \in keeps =>
       \A q \in Slots : q # p /\ Alive(q) => ~Together(p, q)
  /\ LET free == Spaces \ spaces IN
       /\ free # {}
       /\ proc' = [proc EXCEPT ![p].pgdir = Min(free), ![p].sz = 1]
       /\ mem' = [mem EXCEPT ![Space(p)] = Image]
       /\ spaces' = (spaces \cup {Min(free)}) \ {Space(p)}
       /\ twice' = (twice \/ Space(p) \notin spaces)
  /\ UNCHANGED <<nextpid, ctx, panicked>>

\* growproc reads sz without a lock.
Grow(p) ==
  /\ Makes(p, "sbrk") /\ LockFree(p)
  /\ \E n \in GrowArgs :
       /\ proc[p].sz + n \in 1 .. MaxSz   \* bound
       /\ Go(p, "grow", proc[p].sz, proc[p].sz + n, proc[p].sz)
  /\ UNCHANGED <<proc, nextpid, mem, spaces, twice, panicked>>

\* One page of allocuvm or deallocuvm.
GrowPage(p) ==
  /\ At(p, "grow")
  /\ LET a == ctx[p].x
         b == ctx[p].y
         m == mem[Space(p)].mapped
     IN
       \/ /\ a < b /\ a \in m
          /\ panicked' = "remap"
          /\ UNCHANGED <<ctx, mem>>
       \/ /\ a < b /\ a \notin m
          /\ mem' = [mem EXCEPT ![Space(p)].mapped = m \cup {a}]
          /\ Go(p, "grow", a + 1, b, ctx[p].z)
          /\ UNCHANGED panicked
       \/ /\ a < b   \* out of memory: back to the old size
          /\ mem' = [mem EXCEPT ![Space(p)].mapped = m \ (ctx[p].z .. b - 1)]
          /\ Return(p)
          /\ UNCHANGED panicked
       \/ /\ a > b
          /\ mem' = [mem EXCEPT ![Space(p)].mapped = m \ {a - 1}]
          /\ Go(p, "grow", a - 1, b, ctx[p].z)
          /\ UNCHANGED panicked
  /\ UNCHANGED <<proc, nextpid, spaces, twice>>

\* The new size goes to every slot with this page directory.
SizedAlone(p, q) == q = p
Sized(p, q) == Together(p, q)
GrowStore(p) ==
  /\ At(p, "grow") /\ ctx[p].x = ctx[p].y
  /\ proc' = [q \in Slots |->
       IF Sized(p, q) THEN [proc[q] EXCEPT !.sz = ctx[p].y] ELSE proc[q]]
  /\ Return(p)
  /\ UNCHANGED <<nextpid, mem, spaces, twice, panicked>>

-----------------------------------------------------------------------------
Step(p) ==
  \/ Create(p) \/ Clone(p) \/ CloneShare(p) \/ CloneSize(p) \/ CloneStart(p)
  \/ FindEntry(p) \/ PutAddress(p) \/ PutPid(p)
  \/ Fork(p) \/ ForkCopy(p) \/ ForkStart(p)
  \/ Exit(p) \/ Wait(p) \/ Join(p) \/ FreeStack(p)
  \/ Exec(p) \/ Grow(p) \/ GrowPage(p) \/ GrowStore(p)

Next == (\E p \in Slots : Step(p)) /\ UNCHANGED keeps

Spec == Init /\ [][Next]_vars

-----------------------------------------------------------------------------
(* Properties                                                              *)

\* No thread of a space outlives it: wait frees the address space only with
\* the last reference.
SpaceOutlivesThreads == \A q \in Slots : Alive(q) => Space(q) \in spaces

\* Exactly the spaces of living processes, and of one that fork sets up, are
\* allocated: exit, wait, join and exec in any order lose none, free none in
\* use and free none twice.
SpacesInUse ==
  /\ TypeOK
  /\ SpaceOutlivesThreads
  /\ ~twice
  /\ \A d \in spaces : \E q \in Slots :
       /\ Space(q) = d
       /\ Alive(q) \/ \E p \in Slots : ctx[p].at = "child" /\ ctx[p].x = q

Runs(q) == proc[q].state \in {"RUNNABLE", "SLEEPING"} /\ proc[q].stack # 0
Recorded(q) ==
  \/ /\ ctx[proc[q].parent].at \in {"find", "addr", "pid"}
     /\ ctx[proc[q].parent].x = proc[q].pid
  \/ \E i \in Entries :
       /\ {j \in Entries : Table(q)[j].pid = proc[q].pid} = {i}
       /\ Table(q)[i].addr = proc[q].stack

\* The stack of a thread that can still run is a malloc block of its own:
\* thread_join frees the stack of the joined thread and no other.  And a
\* thread that has not been joined has one entry in the table, with its own
\* stack, unless its creator is still writing it: join will free it.
StackHeld ==
  "lock" \in keeps => \A q \in Slots :
    /\ Runs(q) =>
         /\ proc[q].stack \in mem[Space(q)].blocks
         /\ \A r \in Slots : Runs(r) /\ Together(q, r) /\ r # q
                             => proc[r].stack # proc[q].stack
    /\ Alive(q) /\ proc[q].stack # 0 => Recorded(q)

\* All threads of a space have its size, and between calls of sbrk exactly
\* the pages below it are mapped; mappages never meets a page that is.
PagesMatchSize ==
  "lock" \in keeps =>
    /\ \A p, q \in Slots : Alive(p) /\ Alive(q) /\ Together(p, q)
                            => proc[p].sz = proc[q].sz
    /\ \A p \in Slots :
         Alive(p) /\ (\A q \in Slots : Together(p, q) => ctx[q].at # "grow")
           => mem[Space(p)].mapped = 0 .. proc[p].sz - 1
    /\ panicked = "none"

\* No exit is lost on a parent: one that sleeps in join has no thread, and one
\* that sleeps in wait no child, that is already a zombie.
SleeperHasNoZombie ==
  \A p \in Slots : proc[p].state = "SLEEPING" =>
    Zombies(IF ctx[p].at = "join" THEN Threads(p) ELSE Children(p)) = {}
=============================================================================
