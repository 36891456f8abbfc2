------------------------------- MODULE MCMemory -------------------------------
(* The clock queue of a process that does anything, and of the test        *)
(* programs (P4), the page frames under all address spaces, and what is in *)
(* those spaces (P2A): a behaviour has one part.                           *)
EXTENDS Integers, Sequences

CONSTANTS p1, p2, p3, NFrames, W, Sizes, MaxCalls
VARIABLES part, mem, vpn, hand, sz, fault, careless, todo, seen, freelist, frames,
          state, kstack, pgdir, size, parent, job, doomed, calls, panicked, space, proc, lines, failed
queueVars == <<mem, vpn, hand, sz, fault, careless>>
lineVars == <<todo, seen>>
tableVars == <<freelist, frames, state, kstack, pgdir, size, parent, job, doomed>>
frameVars == <<tableVars, calls, panicked>>
spaceVars == <<space, proc, lines, failed>>

\* Three slots and up to six pages of two words.
Q == INSTANCE ClockPager WITH
       N <- 3, MaxPages <- 6, PGSIZE <- 2, GrowArgs <- {2, 3, -2, -3},
       MencryptArgs <- {<<0, 3>>, <<2, 1>>, <<3, 2>>}
\* The tests, with the queue they are written for.
T == INSTANCE PagerTests WITH
       N <- 8, MaxPages <- 112, PGSIZE <- 1, GrowArgs <- {}, MencryptArgs <- {}
F == INSTANCE Frames WITH
       Procs <- {p1, p2, p3}, First <- p1, mem <- frames, sz <- size

\* Programs: two pages; one; a gap between two segments; and those that exec
\* refuses.  From address 4 on, pointers to the string at 1 and a NULL.
Data == <<7, 97, 0, 7, 1, 0, 1, 0, 1, 0, 1, 0, 0, 0, 7>>
Load(vaddr, memsz, filesz, data) ==
  [load |-> TRUE, vaddr |-> vaddr, memsz |-> memsz, filesz |-> filesz, data |-> data]
Elf(phs) == [magic |-> TRUE, phs |-> phs]
Files ==
  [init |-> Elf(<<Load(0, 32, 15, Data)>>), echo |-> Elf(<<Load(0, 15, 15, Data)>>),
   two |-> Elf(<<Load(0, 15, 15, Data), [Load(0, 9, 1, <<1>>) EXCEPT !.load = FALSE],
                 Load(32, 6, 4, <<1, 2, 3, 4>>)>>),
   less |-> Elf(<<Load(0, 15, 16, Data)>>), odd |-> Elf(<<Load(8, 4, 1, <<1>>)>>),
   high |-> Elf(<<Load(0, 15, 15, Data), Load(65520, 17, 1, <<1>>)>>),
   short |-> Elf(<<Load(0, 16, 16, Data)>>), none |-> [magic |-> FALSE, phs |-> <<>>]]
\* Memory for two programs and a half; and for sbrktest.
U == INSTANCE UserSpace WITH
       Procs <- 1 .. 2, First <- 1, NFrames <- 9, PGSIZE <- 16, MAXARG <- 4,
       KERNBASE <- 32768, MaxCalls <- 3
UT == INSTANCE UserSpace WITH
       Procs <- 1 .. 3, First <- 1, NFrames <- 18, PGSIZE <- 16, MAXARG <- 4,
       KERNBASE <- 32768
ASSUME Q!PagerAssumption /\ T!PagerAssumption

MemoryInit ==
  /\ part \in {"queue", "tests", "frames", "spaces", "usertests"}
  /\ F!Init
  /\ IF part = "usertests" THEN UT!InitTests ELSE U!InitFree
  /\ IF part = "tests" THEN T!TestInit
     ELSE Q!Init /\ todo = <<>> /\ seen = T!NothingSeen
MemoryNext ==
  /\ UNCHANGED part
  /\ \/ part = "queue" /\ Q!Next /\ UNCHANGED <<lineVars, frameVars, spaceVars>>
     \/ part = "tests" /\ T!TestNext /\ UNCHANGED <<frameVars, spaceVars>>
     \/ part = "frames" /\ F!Next /\ UNCHANGED <<queueVars, lineVars, spaceVars>>
     \/ part = "spaces" /\ U!NextFree /\ UNCHANGED <<queueVars, lineVars, tableVars>>
     \/ part = "usertests" /\ UT!NextTests /\ UNCHANGED <<queueVars, lineVars, tableVars>>
MemorySpec ==
  /\ MemoryInit /\ [][MemoryNext]_<<part, queueVars, lineVars, frameVars, spaceVars>>
  /\ WF_queueVars(part = "queue" /\ Q!Handler)

\* Contents and queue agree with the page table (vm.c), and the test programs
\* print what they should: see ClockPager and PagerTests.
ContentsMatchPte ==
  /\ part = "queue" => Q!ContentsMatchPte
  /\ part = "tests" => T!ContentsMatchPte /\ T!TestsPass
\* The queue is one of the clock algorithm (vm.c): see SecondChance.
ClockAlgorithm ==
  Q!Clock!Init /\ [][part = "queue" => Q!Clock!Next]_queueVars
\* Every fault returns (vm.c).
FaultReturns == part = "queue" => Q!FaultReturns
\* The frames stay accounted for (vm.c, kalloc.c), and the spaces that have them
\* hold what their programs count on: see Frames and UserSpace.
SpacesSound ==
  /\ part = "frames" => F!FramesAccounted
  /\ part = "spaces" => U!StartsAsAsked
  /\ part = "usertests" => UT!TestsPass /\ UT!StartsAsAsked
=============================================================================
