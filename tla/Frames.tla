-------------------------------- MODULE Frames -------------------------------
(***************************************************************************)
(* The page frames of xv6: the free list (kalloc.c), page directories and  *)
(* page tables (vm.c), and the calls that fill and empty address spaces,   *)
(* fork, exec, growproc and wait (proc.c, exec.c).  Every kalloc is a step,*)
(* so that memory may run out between any two; what is freed together is   *)
(* one step.  A frame holds W entries; the last one of a page directory    *)
(* names the page table of the kernel's mappings.                          *)
(***************************************************************************)
EXTENDS Integers, FiniteSets

CONSTANTS
  Procs,     \* slots of the process table
  First,     \* the first process
  NFrames, W,
  Sizes,     \* pages that exec loads, and pages by which sbrk grows
  MaxCalls   \* fork, exec and sbrk calls in a behaviour

VARIABLES
  freelist,  \* kmem.freelist: how often each frame is on it
  mem,       \* the entries of each frame: frame numbers, 0 for none
  state, kstack, pgdir, sz, parent,
  job,       \* the address space that a process is building
  doomed,    \* processes without code
  calls,
  panicked

table == <<state, kstack, pgdir, sz, parent>>
vars == <<freelist, mem, table, job, doomed, calls, panicked>>

Frames == 1..NFrames
KERNBASE == (W - 1) * W
NPDE == W - 1
Empty == [k \in 0..W - 1 |-> 0]
JUNK == NFrames + 1
Junk == [k \in 0..W - 1 |-> JUNK]
Job(why, child, d, from, end) ==
  [why |-> why, child |-> child, d |-> d, va |-> from, end |-> end,
   from |-> from, page |-> 0]
NoJob == Job("none", First, 0, 0, 0)

\* kinit has freed every frame; userinit has set up initcode in the first ones.
Init ==
  /\ freelist = [f \in Frames |-> IF f <= 5 THEN 0 ELSE 1]
  /\ mem = [f \in Frames |->
              CASE f = 1 -> [Empty EXCEPT ![0] = 3, ![NPDE] = 2]
                [] f = 3 -> [Empty EXCEPT ![0] = 4]
                [] f \in {2, 4, 5} -> Empty
                [] OTHER -> Junk]
  /\ state = [p \in Procs |-> IF p = First THEN "runs" ELSE "unused"]
  /\ kstack = [p \in Procs |-> IF p = First THEN 5 ELSE 0]
  /\ pgdir = [p \in Procs |-> IF p = First THEN 1 ELSE 0]
  /\ sz = [p \in Procs |-> IF p = First THEN 1 ELSE 0]
  /\ parent = [p \in Procs |-> First]
  /\ job = [p \in Procs |-> NoJob]
  /\ doomed = {} /\ calls = 0 /\ panicked = "none"

-----------------------------------------------------------------------------
(* kalloc, kfree, walkpgdir                                                *)

\* Which of the free frames kalloc returns matters to no one: the first.
OnList == {f \in Frames : freelist[f] > 0}
NoMemory == OnList = {}
Got == CHOOSE f \in OnList : \A g \in OnList : f <= g
Rest == [freelist EXCEPT ![Got] = @ - 1]
Fresh(f) == [mem EXCEPT ![f] = Empty]

\* The entry for page va; a directory without that page table has none.
PtabOf(m, d, va) == m[d][va \div W]
Pte(m, d, va) == IF PtabOf(m, d, va) = 0 THEN 0 ELSE m[PtabOf(m, d, va)][va % W]

Mapped(m, d, lo, hi) == {va \in lo..hi - 1 : Pte(m, d, va) # 0}
PagesOf(m, d, lo, hi) == {Pte(m, d, va) : va \in Mapped(m, d, lo, hi)}
Ptabs(m, d) == {m[d][k] : k \in {j \in 0..NPDE : m[d][j] # 0}}

\* The frames of a set back to the list, filled with junk.
Kfree(fs, m) ==
  /\ freelist' = [f \in Frames |-> freelist[f] + (IF f \in fs THEN 1 ELSE 0)]
  /\ mem' = [f \in Frames |-> IF f \in fs THEN Junk ELSE m[f]]

\* deallocuvm: the frames from page lo to page hi, and the cleared entries.
Unmapped(m, d, lo, hi) ==
  [f \in Frames |->
     [k \in 0..W - 1 |->
        IF \E va \in Mapped(m, d, lo, hi) : PtabOf(m, d, va) = f /\ va % W = k
        THEN 0 ELSE m[f][k]]]
DeallocUvm(d, hi, lo) == PagesOf(mem, d, lo, hi)
FreeVm(d) == DeallocUvm(d, KERNBASE, 0) \cup Ptabs(mem, d) \cup {d}

-----------------------------------------------------------------------------
(* The calls                                                               *)

Free(p) == panicked = "none" /\ state[p] = "runs" /\ job[p] = NoJob
Ready(p) == Free(p) /\ p \notin doomed
Counts == calls < MaxCalls /\ calls' = calls + 1

\* allocproc: a slot and a kernel stack; then copyuvm begins.
Fork(p, c) ==
  /\ Ready(p) /\ state[c] = "unused" /\ ~NoMemory /\ Counts
  /\ kstack' = [kstack EXCEPT ![c] = Got]
  /\ freelist' = Rest /\ mem' = Fresh(Got)
  /\ state' = [state EXCEPT ![c] = "embryo"]
  /\ parent' = [parent EXCEPT ![c] = p]
  /\ job' = [job EXCEPT ![p] = Job("fork", c, 0, 0, sz[p])]
  /\ UNCHANGED <<pgdir, sz, doomed, panicked>>

Exec(p, n) ==
  /\ Ready(p) /\ n + 2 < KERNBASE /\ Counts
  /\ job' = [job EXCEPT ![p] = Job("exec", First, 0, 0, n)]
  /\ UNCHANGED <<freelist, mem, table, doomed, panicked>>

\* Grow by n pages; below KERNBASE only.
Grow(p, n) ==
  /\ Ready(p) /\ sz[p] + n < KERNBASE /\ Counts
  /\ job' = [job EXCEPT ![p] = Job("grow", First, pgdir[p], sz[p], sz[p] + n)]
  /\ UNCHANGED <<freelist, mem, table, doomed, panicked>>

\* deallocuvm to 0 is taken for a failure: the size stays, the code is gone.
Shrink(p, n) ==
  /\ Ready(p) /\ n <= sz[p] /\ Counts
  /\ Kfree(DeallocUvm(pgdir[p], sz[p], sz[p] - n),
           Unmapped(mem, pgdir[p], sz[p] - n, sz[p]))
  /\ sz' = IF n = sz[p] THEN sz ELSE [sz EXCEPT ![p] = @ - n]
  /\ doomed' = IF n = sz[p] THEN doomed \cup {p} ELSE doomed
  /\ UNCHANGED <<state, kstack, pgdir, parent, job, panicked>>

Exit(p) ==
  /\ Free(p) /\ p # First
  /\ state' = [state EXCEPT ![p] = "zombie"]
  /\ parent' = [c \in Procs |-> IF parent[c] = p THEN First ELSE parent[c]]
  /\ UNCHANGED <<freelist, mem, kstack, pgdir, sz, job, doomed, calls, panicked>>

Reaped(c) == {kstack[c]} \cup FreeVm(pgdir[c])

\* wait finds a zombie.
Wait(p, c) ==
  /\ Free(p) /\ state[c] = "zombie" /\ parent[c] = p /\ c # First
  /\ Kfree(Reaped(c), mem)
  /\ kstack' = [kstack EXCEPT ![c] = 0] /\ pgdir' = [pgdir EXCEPT ![c] = 0]
  /\ state' = [state EXCEPT ![c] = "unused"] /\ sz' = [sz EXCEPT ![c] = 0]
  /\ doomed' = doomed \ {c}
  /\ UNCHANGED <<parent, job, calls, panicked>>

-----------------------------------------------------------------------------
(* The steps of a job                                                      *)

Builds(p) == panicked = "none" /\ job[p] # NoJob
Extends(p) == job[p].why \in {"grow", "exec", "stack"}

\* The page that could not be mapped.
PageForgotten(p) == {}
Unmappable(p) == {job[p].page} \ {0}

\* What a job that fails gives back: allocuvm what it has mapped, and the page
\* it could not map; exec and fork the whole new space, fork the kernel stack.
RollBack(p) ==
  LET j == job[p] IN
  Unmappable(p)
  \cup (IF Extends(p) /\ j.d # 0 THEN DeallocUvm(j.d, j.end, j.from) ELSE {})
  \cup (IF j.why # "grow" /\ j.d # 0 THEN FreeVm(j.d) ELSE {})
  \cup (IF j.why = "fork" THEN {kstack[j.child]} ELSE {})

Failed(p) ==
  LET j == job[p] IN
  /\ Kfree(RollBack(p),
           IF j.why = "grow" THEN Unmapped(mem, j.d, j.from, j.end) ELSE mem)
  /\ kstack' = IF j.why = "fork" THEN [kstack EXCEPT ![j.child] = 0] ELSE kstack
  /\ state' = IF j.why = "fork" THEN [state EXCEPT ![j.child] = "unused"] ELSE state
  /\ job' = [job EXCEPT ![p] = NoJob]
  /\ UNCHANGED <<pgdir, sz, parent, panicked>>

HasKernel(p) == Builds(p) /\ job[p].d # 0 /\ mem[job[p].d][NPDE] # 0
NeedsPage(p) == job[p].page = 0 /\ job[p].va < job[p].end
NeedsTable(p) == job[p].page # 0 /\ PtabOf(mem, job[p].d, job[p].va) = 0

OutOfMemory(p) ==
  /\ Builds(p) /\ NoMemory
  /\ HasKernel(p) => NeedsPage(p) \/ NeedsTable(p)
  /\ Failed(p)

\* exec: a file that is not a program, an argument list that does not fit.
BadProgram(p) == Builds(p) /\ job[p].why \in {"exec", "stack"} /\ job[p].page = 0
                 /\ Failed(p)

Alloc(p, m, j) ==
  /\ ~NoMemory
  /\ freelist' = Rest /\ mem' = m
  /\ job' = [job EXCEPT ![p] = j]
  /\ UNCHANGED <<table, panicked>>

\* setupkvm: the directory, then the kernel's page table.
NewDirectory(p) ==
  /\ Builds(p) /\ job[p].d = 0
  /\ Alloc(p, Fresh(Got), [job[p] EXCEPT !.d = Got])
KernelTable(p) ==
  LET d == job[p].d IN
  /\ Builds(p) /\ d # 0 /\ mem[d][NPDE] = 0
  /\ Alloc(p, [Fresh(Got) EXCEPT ![d][NPDE] = Got], job[p])
NewPage(p) ==
  /\ HasKernel(p) /\ NeedsPage(p)
  /\ Alloc(p, Fresh(Got), [job[p] EXCEPT !.page = Got])
NewTable(p) ==
  LET j == job[p] IN
  /\ HasKernel(p) /\ NeedsTable(p)
  /\ Alloc(p, [Fresh(Got) EXCEPT ![j.d][j.va \div W] = Got], j)

MapPage(p) ==
  LET j == job[p] IN
  /\ HasKernel(p) /\ j.page # 0 /\ PtabOf(mem, j.d, j.va) # 0
  /\ IF Pte(mem, j.d, j.va) # 0
     THEN panicked' = "remap" /\ UNCHANGED <<mem, job>>
     ELSE /\ mem' = [mem EXCEPT ![PtabOf(mem, j.d, j.va)][j.va % W] = j.page]
          /\ job' = [job EXCEPT ![p] = [j EXCEPT !.page = 0, !.va = @ + 1]]
          /\ UNCHANGED panicked
  /\ UNCHANGED <<freelist, table>>

Complete(p) == HasKernel(p) /\ job[p].page = 0 /\ job[p].va = job[p].end

\* exec: two more pages, the guard page and the stack.
StackPages(p) ==
  /\ Complete(p) /\ job[p].why = "exec"
  /\ job' = [job EXCEPT ![p] = Job("stack", First, @.d, @.end, @.end + 2)]
  /\ UNCHANGED <<freelist, mem, table, panicked>>

Commit(p) ==
  LET j == job[p] IN
  /\ Complete(p) /\ j.why # "exec"
  /\ job' = [job EXCEPT ![p] = NoJob]
  /\ IF j.why = "stack" THEN Kfree(FreeVm(pgdir[p]), mem)
     ELSE UNCHANGED <<freelist, mem>>
  /\ LET q == IF j.why = "fork" THEN j.child ELSE p IN
     /\ sz' = [sz EXCEPT ![q] = j.end]
     /\ pgdir' = [pgdir EXCEPT ![q] = j.d]
     /\ state' = [state EXCEPT ![q] = "runs"]
  /\ UNCHANGED <<kstack, parent, panicked>>

Step(p) ==
  /\ UNCHANGED <<doomed, calls>>
  /\ \/ OutOfMemory(p) \/ BadProgram(p) \/ NewDirectory(p) \/ KernelTable(p)
     \/ NewPage(p) \/ NewTable(p) \/ MapPage(p) \/ StackPages(p) \/ Commit(p)

Next == \E p \in Procs :
  \/ \E c \in Procs : Fork(p, c) \/ Wait(p, c)
  \/ \E n \in Sizes : Exec(p, n) \/ Grow(p, n) \/ Shrink(p, n)
  \/ Exit(p) \/ Step(p)

Spec == Init /\ [][Next]_vars

-----------------------------------------------------------------------------
(* Properties                                                              *)

Spaces == {pgdir[p] : p \in Procs} \cup {job[p].d : p \in Procs}
Places(f) ==
  freelist[f]
  + Cardinality({p \in Procs : kstack[p] = f})
  + Cardinality({p \in Procs : job[p].page = f})
  + Cardinality(Spaces \cap {f})
  + Cardinality({e \in (Spaces \ {0}) \X (0..NPDE) : mem[e[1]][e[2]] = f})
  + Cardinality({e \in (Spaces \ {0}) \X (0..KERNBASE - 1) : Pte(mem, e[1], e[2]) = f})

\* Every frame is in exactly one place: on the free list, a kernel stack, a
\* page directory, a page table or a page of one address space (kalloc.c,
\* vm.c), however often memory runs out in the middle of fork, exec or sbrk and
\* whatever is rolled back.  Nothing is leaked, freed twice or mapped twice.
\* And a process has exactly the pages below its size, unless it has freed its
\* own code.
FramesAccounted ==
  /\ panicked = "none"
  /\ \A f \in Frames : Places(f) = 1
  /\ \A p \in Procs : state[p] \in {"runs", "zombie"} /\ job[p] = NoJob /\ p \notin doomed
       => Mapped(mem, pgdir[p], 0, KERNBASE) = 0..sz[p] - 1
=============================================================================
