---------------------------- MODULE Threads_proofs ----------------------------
(***************************************************************************)
(* Address spaces are freed with their last thread, when programs join     *)
(* their threads; the threads of a space have its size and its pages, and  *)
(* stacks of their own that join will free, when they also take a lock;    *)
(* and no exit is lost on a parent that sleeps, for any number of slots,   *)
(* spaces and stacks.                                                      *)
(***************************************************************************)
EXTENDS Threads, WellFoundedInduction, FiniteSetTheorems, TLAPS

\* Where a thread is, and what its locals are there.
CtxOf(p) ==
  /\ proc[p].state \in {"UNUSED", "EMBRYO", "ZOMBIE"} => ctx[p].at = "user"
  /\ proc[p].state = "SLEEPING" => ctx[p].at \in {"join", "wait"}
  /\ ctx[p].at \in {"clone", "share", "size", "start", "find", "addr", "pid"}
       => ctx[p].y \in Stacks
  /\ ctx[p].at = "size" => ctx[p].z \in Nat
  /\ ctx[p].at = "grow" =>
       ctx[p].x \in Nat /\ ctx[p].y \in Nat \ {0} /\ ctx[p].z \in Nat
  /\ p = initproc => ctx[p].at \in {"user", "wait"}
CtxInv == \A p \in Slots : CtxOf(p)

\* clone and fork make a slot that belongs to them alone until it runs.
Busy == {p \in Slots : ctx[p].at \in {"share", "size", "start", "copy", "child"}}
KidInv ==
  /\ \A p \in Busy : ctx[p].x \in Slots /\ proc[ctx[p].x].state = "EMBRYO"
  /\ \A p, q \in Busy : ctx[p].x = ctx[q].x => p = q

\* Who runs, or is about to, has a page directory.
Placed ==
  /\ \A q \in Slots : Alive(q) => Space(q) \in Spaces
  /\ \A p \in Busy : ctx[p].at \in {"size", "start", "child"} => Space(ctx[p].x) \in Spaces

Base == TypeOK /\ CtxInv /\ KidInv /\ Placed
IInv == Base /\ SleeperHasNoZombie

-----------------------------------------------------------------------------
(* The least of a set of numbers                                           *)

LEMMA Least ==
  ASSUME NEW S \in SUBSET Nat, S # {}
  PROVE  \E x \in S : \A y \in S : x <= y
<1>1. PICK x \in S : \A y \in S : ~(<<y, x>> \in OpToRel(<, Nat))
  BY WFMin, NatLessThanWellFounded
<1>2. \A y \in S : ~(y < x)
  BY <1>1 DEF OpToRel
<1>3. \A y \in S : x <= y
  BY <1>2
<1> QED BY <1>3

LEMMA MinIs ==
  ASSUME NEW S \in SUBSET Nat, S # {}
  PROVE  Min(S) \in S /\ \A y \in S : Min(S) <= y
BY Least DEF Min

LEMMA MinSlot == ASSUME NEW S \in SUBSET Slots, S # {} PROVE Min(S) \in S
<1>1. S \in SUBSET Nat
  BY ThreadsAssumption DEF Slots
<1> QED BY <1>1, MinIs

LEMMA Inits == initproc \in Slots /\ initproc \in Nat /\ NPROC \in Nat
BY ThreadsAssumption DEF initproc, Slots

-----------------------------------------------------------------------------
(* Types                                                                   *)

Proc == [state : States, pid : Nat, parent : 0 .. NPROC,
         pgdir : 0 .. NSPACES, sz : Nat, stack : Stacks \cup {0}]
Ctx == [at : Places, x : Int, y : Int, z : Int]
Mem == [mapped : SUBSET Nat, blocks : SUBSET Stacks,
        table : [Entries -> [addr : Stacks \cup {0}, pid : Int]]]

LEMMA Types ==
  ASSUME TypeOK
  PROVE  /\ proc \in [Slots -> Proc] /\ ctx \in [Slots -> Ctx] /\ mem \in [Spaces -> Mem]
         /\ nextpid \in Nat /\ spaces \subseteq Spaces /\ Stacks \subseteq Nat
         /\ \A p \in Slots :
              /\ proc[p].state \in States /\ proc[p].pid \in Nat
              /\ proc[p].parent \in 0 .. NPROC /\ proc[p].pgdir \in 0 .. NSPACES
              /\ proc[p].sz \in Nat /\ proc[p].stack \in Stacks \cup {0}
              /\ ctx[p].at \in Places /\ ctx[p].x \in Int /\ ctx[p].y \in Int
              /\ ctx[p].z \in Int
         /\ \A d \in Spaces :
              /\ mem[d].mapped \subseteq Nat /\ mem[d].blocks \subseteq Stacks
              /\ mem[d].table \in [Entries -> [addr : Stacks \cup {0}, pid : Int]]
BY ThreadsAssumption DEF TypeOK, Proc, Ctx, Mem

LEMMA GoType ==
  ASSUME TypeOK, NEW p \in Slots, NEW place \in Places, NEW x \in Int, NEW y \in Int, NEW z \in Int,
         Go(p, place, x, y, z)
  PROVE  /\ ctx' \in [Slots -> Ctx]
         /\ ctx'[p].at = place /\ ctx'[p].x = x /\ ctx'[p].y = y /\ ctx'[p].z = z
         /\ \A q \in Slots \ {p} : ctx'[q] = ctx[q]
BY Types DEF Go, Ctx

LEMMA ReturnType ==
  ASSUME TypeOK, NEW p \in Slots, Return(p)
  PROVE  /\ ctx' \in [Slots -> Ctx] /\ ctx'[p].at = "user"
         /\ \A q \in Slots \ {p} : ctx'[q] = ctx[q]
BY Types DEF Return, User, Ctx, Places

LEMMA MemIs ==
  ASSUME TypeOK, NEW d, NEW v, d \in Spaces => v \in Mem, mem' = [mem EXCEPT ![d] = v]
  PROVE  mem' \in [Spaces -> Mem]
BY Types

LEMMA EntryIs ==
  ASSUME NEW T \in [Entries -> [addr : Stacks \cup {0}, pid : Int]], NEW i,
         NEW e, i \in Entries => e \in [addr : Stacks \cup {0}, pid : Int]
  PROVE  [T EXCEPT ![i] = e] \in [Entries -> [addr : Stacks \cup {0}, pid : Int]]
OBVIOUS

LEMMA AddressIs ==
  ASSUME NEW m \in Mem, NEW i, NEW a \in Stacks \cup {0}
  PROVE  [m EXCEPT !.table[i].addr = a] \in Mem
<1> DEFINE E == [addr : Stacks \cup {0}, pid : Int]
           e == [m.table[i] EXCEPT !.addr = a]
           t == [m.table EXCEPT ![i] = e]
<1>1. m.table \in [Entries -> E]
  BY DEF Mem
<1>2. i \in Entries => e \in E
  BY <1>1
<1>3. [m EXCEPT !.table[i].addr = a] = [m EXCEPT !.table = t]
  OBVIOUS
<1> HIDE DEF e
<1>4. t \in [Entries -> E]
  BY <1>1, <1>2, EntryIs
<1> HIDE DEF t
<1> QED BY <1>3, <1>4 DEF Mem

LEMMA PidIs ==
  ASSUME NEW m \in Mem, NEW i, NEW n \in Int
  PROVE  [m EXCEPT !.table[i].pid = n] \in Mem
<1> DEFINE E == [addr : Stacks \cup {0}, pid : Int]
           e == [m.table[i] EXCEPT !.pid = n]
           t == [m.table EXCEPT ![i] = e]
<1>1. m.table \in [Entries -> E]
  BY DEF Mem
<1>2. i \in Entries => e \in E
  BY <1>1
<1>3. [m EXCEPT !.table[i].pid = n] = [m EXCEPT !.table = t]
  OBVIOUS
<1> HIDE DEF e
<1>4. t \in [Entries -> E]
  BY <1>1, <1>2, EntryIs
<1> HIDE DEF t
<1> QED BY <1>3, <1>4 DEF Mem

\* What is changed of one slot.
LEMMA StateOf ==
  ASSUME TypeOK, NEW q \in Slots, NEW s \in States, proc' = [proc EXCEPT ![q].state = s]
  PROVE  /\ proc' \in [Slots -> Proc]
         /\ proc'[q].state = s
         /\ \A r \in Slots \ {q} : proc'[r] = proc[r]
         /\ \A r \in Slots :
              /\ proc'[r].pid = proc[r].pid /\ proc'[r].parent = proc[r].parent
              /\ proc'[r].pgdir = proc[r].pgdir /\ proc'[r].sz = proc[r].sz
              /\ proc'[r].stack = proc[r].stack
BY Types DEF Proc

LEMMA ReapedIs ==
  ASSUME TypeOK, NEW q \in Slots, proc' = Reaped(q)
  PROVE  /\ proc' \in [Slots -> Proc]
         /\ proc'[q].state = "UNUSED" /\ proc'[q].pid = 0 /\ proc'[q].parent = 0
         /\ \A r \in Slots \ {q} : proc'[r] = proc[r]
         /\ \A r \in Slots : proc'[r].pgdir = proc[r].pgdir
<1>1. proc \in [Slots -> Proc] /\ 0 \in Nat /\ 0 \in 0 .. NPROC /\ "UNUSED" \in States
  BY Types, Inits DEF States
<1>2. proc' = [proc EXCEPT ![q] = [proc[q] EXCEPT !.state = "UNUSED", !.pid = 0, !.parent = 0]]
  BY <1>1 DEF Reaped
<1>3. [proc[q] EXCEPT !.state = "UNUSED", !.pid = 0, !.parent = 0] \in Proc
  BY <1>1 DEF Proc
<1> QED BY <1>1, <1>2, <1>3 DEF Proc

LEMMA AllocIs ==
  ASSUME TypeOK, NEW p \in Slots, NEW place \in Places, NEW s \in Int, AllocProc(p, place, s)
  PROVE  \E q \in Slots :
           /\ proc[q].state = "UNUSED"
           /\ proc' \in [Slots -> Proc] /\ nextpid' = nextpid + 1
           /\ proc'[q].state = "EMBRYO" /\ proc'[q].pid = nextpid
           /\ proc'[q].parent = proc[q].parent /\ proc'[q].pgdir = proc[q].pgdir
           /\ \A r \in Slots \ {q} : proc'[r] = proc[r]
           /\ ctx' \in [Slots -> Ctx]
           /\ ctx'[p].at = place /\ ctx'[p].x = q /\ ctx'[p].y = s /\ ctx'[p].z = 0
           /\ \A r \in Slots \ {p} : ctx'[r] = ctx[r]
<1> DEFINE free == {q \in Slots : proc[q].state = "UNUSED"}
           m == Min(free)
<1>1. free # {}
  BY DEF AllocProc
<1>2. m \in free
  BY <1>1, MinSlot
<1>3. /\ proc' = [proc EXCEPT ![m].state = "EMBRYO", ![m].pid = nextpid, ![m].stack = 0]
      /\ nextpid' = nextpid + 1
      /\ Go(p, place, m, s, 0)
  BY DEF AllocProc
<1> HIDE DEF m
<1>4. m \in Slots /\ proc[m].state = "UNUSED" /\ m \in Int
  BY <1>2 DEF Slots
<1>5. /\ proc' \in [Slots -> Proc]
      /\ proc'[m].state = "EMBRYO" /\ proc'[m].pid = nextpid
      /\ proc'[m].parent = proc[m].parent /\ proc'[m].pgdir = proc[m].pgdir
      /\ \A r \in Slots \ {m} : proc'[r] = proc[r]
  <2>1. proc \in [Slots -> Proc] /\ nextpid \in Nat /\ "EMBRYO" \in States
    BY Types DEF States
  <2> DEFINE v == [proc[m] EXCEPT !.state = "EMBRYO", !.pid = nextpid, !.stack = 0]
  <2>2. proc' = [proc EXCEPT ![m] = v]
    BY <1>3, <1>4, <2>1
  <2>3. /\ v \in Proc /\ v.state = "EMBRYO" /\ v.pid = nextpid
        /\ v.parent = proc[m].parent /\ v.pgdir = proc[m].pgdir
    BY <1>4, <2>1 DEF Proc
  <2> HIDE DEF v
  <2> QED BY <1>4, <2>1, <2>2, <2>3
<1>6. /\ ctx' \in [Slots -> Ctx]
      /\ ctx'[p].at = place /\ ctx'[p].x = m /\ ctx'[p].y = s /\ ctx'[p].z = 0
      /\ \A r \in Slots \ {p} : ctx'[r] = ctx[r]
  BY <1>3, <1>4, GoType
<1> QED BY <1>3, <1>4, <1>5, <1>6

-----------------------------------------------------------------------------
(* The kinds of steps                                                      *)

Others(p) == \A q \in Slots \ {p} : ctx'[q] = ctx[q]
SameSlots(S) == \A q \in Slots \ S : proc'[q] = proc[q]
SameFamily(S) == \A q \in Slots \ S :
  proc'[q].pid = proc[q].pid /\ proc'[q].parent = proc[q].parent /\ proc'[q].pgdir = proc[q].pgdir
SameStates(S) == \A q \in Slots \ S : proc'[q].state = proc[q].state
Runner(p) == p \in Slots /\ proc[p].state = "RUNNABLE"

\* Nothing but memory, sizes and locals.
Quiet(p) ==
  /\ Runner(p) /\ p \notin Busy /\ p \notin Busy' /\ Others(p) /\ CtxOf(p)'
  /\ SameStates({}) /\ SameFamily({}) /\ UNCHANGED <<nextpid, spaces, twice>>

\* The process sleeps in wait or join.
Sleeps(p) ==
  /\ Runner(p) /\ p \notin Busy /\ p \notin Busy' /\ Others(p) /\ CtxOf(p)'
  /\ proc'[p].state = "SLEEPING" /\ SameStates({p}) /\ SameFamily({})
  /\ ctx'[p].at \in {"join", "wait"}
  /\ Zombies(IF ctx'[p].at = "join" THEN Threads(p) ELSE Children(p)) = {}
  /\ UNCHANGED <<nextpid, spaces, twice>>

\* clone or fork take a slot.
Allocates(p, q) ==
  /\ Runner(p) /\ p # initproc /\ p \notin Busy /\ Others(p) /\ CtxOf(p)'
  /\ q \in Slots /\ proc[q].state = "UNUSED" /\ proc'[q].state = "EMBRYO"
  /\ proc'[q].pid = nextpid /\ proc'[q].pgdir = proc[q].pgdir
  /\ SameSlots({q})
  /\ ctx'[p].at \in {"share", "copy"} /\ ctx'[p].x = q
  /\ nextpid' = nextpid + 1 /\ UNCHANGED <<spaces, twice>>

\* They fill the slot in.
Fills(p) ==
  /\ Runner(p) /\ p \in Busy /\ Others(p) /\ CtxOf(p)' /\ ctx'[p].x = ctx[p].x
  /\ SameSlots({ctx[p].x}) /\ proc'[ctx[p].x].state = "EMBRYO"
  /\ proc'[ctx[p].x].pid = proc[ctx[p].x].pid
  /\ UNCHANGED <<nextpid, twice>>
Shares(p) ==
  /\ Fills(p) /\ ctx[p].at = "share" /\ ctx'[p].at = "size"
  /\ proc'[ctx[p].x].pgdir = Space(p) /\ UNCHANGED spaces
Sizes(p) ==
  /\ Fills(p) /\ ctx[p].at = "size" /\ ctx'[p].at = "start"
  /\ proc'[ctx[p].x].parent = p /\ proc'[ctx[p].x].pgdir = proc[ctx[p].x].pgdir
  /\ UNCHANGED spaces
Copies(p) ==
  /\ Fills(p) /\ ctx[p].at = "copy" /\ ctx'[p].at = "child"
  /\ proc'[ctx[p].x].parent = p
  /\ proc'[ctx[p].x].pgdir \in Spaces \ spaces
  /\ spaces' = spaces \cup {proc'[ctx[p].x].pgdir}

\* They let it run, or give it up.
Finishes(p, s) ==
  /\ Runner(p) /\ p \in Busy /\ p \notin Busy' /\ Others(p) /\ CtxOf(p)'
  /\ proc'[ctx[p].x].state = s
  /\ SameSlots({ctx[p].x}) /\ SameFamily({}) /\ UNCHANGED <<nextpid, spaces, twice>>
Starts(p) == Finishes(p, "RUNNABLE") /\ ctx[p].at \in {"start", "child"}
GivesUp(p) == Finishes(p, "UNUSED") /\ ctx[p].at = "copy"

\* wait and join end a zombie.
Reaps(p, q) ==
  /\ Runner(p) /\ p \notin Busy /\ p \notin Busy' /\ Others(p) /\ CtxOf(p)'
  /\ q \in Slots /\ proc[q].state = "ZOMBIE" /\ proc[q].parent = p
  /\ proc'[q].state = "UNUSED" /\ proc'[q].pid = 0 /\ proc'[q].parent = 0
  /\ SameSlots({q}) /\ proc'[q].pgdir = proc[q].pgdir
  /\ nextpid' = nextpid
  /\ \/ ~Together(p, q) /\ FreeVm(Space(q))
     \/ Together(p, q) /\ UNCHANGED <<spaces, twice>>

\* What exit does to the table.
Exits(p) ==
  /\ Runner(p) /\ p # initproc /\ p \notin Busy /\ ctx[p].at = "user" /\ UNCHANGED ctx
  /\ "join" \in keeps => Threads(p) = {}
  /\ proc'[p].state = "ZOMBIE" /\ proc'[p].parent = proc[p].parent
  /\ \A q \in Slots :
       /\ proc'[q].pid = proc[q].pid /\ proc'[q].pgdir = proc[q].pgdir
       /\ q # p => /\ proc'[q].parent = IF proc[q].parent = p THEN initproc ELSE proc[q].parent
                   /\ proc'[q].state = IF q \in Woken(p) /\ proc[q].state = "SLEEPING"
                                       THEN "RUNNABLE" ELSE proc[q].state
  /\ UNCHANGED <<nextpid, spaces, twice>>

\* What exec does.
Execs(p) ==
  /\ Runner(p) /\ p # initproc /\ p \notin Busy /\ ctx[p].at = "user" /\ UNCHANGED ctx
  /\ "join" \in keeps => \A q \in Slots : q # p /\ Alive(q) => ~Together(p, q)
  /\ proc'[p].pgdir \in Spaces \ spaces /\ proc'[p].state = "RUNNABLE"
  /\ proc'[p].pid = proc[p].pid /\ proc'[p].parent = proc[p].parent
  /\ SameSlots({p})
  /\ spaces' = (spaces \cup {proc'[p].pgdir}) \ {Space(p)}
  /\ twice' = (twice \/ Space(p) \notin spaces)
  /\ nextpid' = nextpid

Steps(p) ==
  \/ Quiet(p) \/ Sleeps(p) \/ Shares(p) \/ Sizes(p) \/ Copies(p) \/ Starts(p) \/ GivesUp(p)
  \/ \E q \in Slots : Allocates(p, q) \/ Reaps(p, q)
  \/ Exits(p) \/ Execs(p)

LEMMA AtIs ==
  ASSUME Base, NEW p \in Slots, NEW place \in Places, At(p, place)
  PROVE  /\ Runner(p) /\ ctx[p].at = place /\ CtxOf(p)
         /\ p \in Busy <=> place \in {"share", "size", "start", "copy", "child"}
         /\ p = initproc => place \in {"user", "wait"}
BY DEF At, Runner, Busy, Base, CtxInv, CtxOf

LEMMA CreateKind ==
  ASSUME Base, NEW p \in Slots, Create(p), UNCHANGED keeps
  PROVE  TypeOK' /\ Quiet(p)
<1> DEFINE free == Stacks \ mem[Space(p)].blocks
           m == Min(free)
<1>1. At(p, "user") /\ p # initproc
  BY DEF Create, Makes
<1>2. TypeOK /\ free \in SUBSET Nat /\ free # {}
  BY Types DEF Base, Create
<1>3. m \in Stacks
  BY <1>2, MinIs
<1>4. /\ mem' = [mem EXCEPT ![Space(p)].blocks = @ \cup {m}]
      /\ Go(p, "clone", 0, m, 0)
      /\ UNCHANGED <<proc, nextpid, spaces, twice, panicked>>
  BY DEF Create
<1> HIDE DEF m
<1>5. mem' \in [Spaces -> Mem]
  <2> DEFINE v == [mem[Space(p)] EXCEPT !.blocks = @ \cup {m}]
  <2>1. mem' = [mem EXCEPT ![Space(p)] = v]
    BY <1>4
  <2>2. Space(p) \in Spaces => v \in Mem
    BY <1>2, <1>3, Types DEF Mem
  <2> HIDE DEF v
  <2> QED BY <1>2, <2>1, <2>2, MemIs
<1>6. /\ ctx' \in [Slots -> Ctx] /\ ctx'[p].at = "clone" /\ ctx'[p].y = m /\ Others(p)
  <2>1. m \in Int /\ 0 \in Int /\ "clone" \in Places
    BY <1>2, <1>3, Types DEF Places
  <2> QED BY <1>2, <1>4, <2>1, GoType DEF Others
<1>7. TypeOK'
  BY <1>2, <1>4, <1>5, <1>6 DEF TypeOK, Mem, Ctx
<1>8. Runner(p) /\ p \notin Busy
  BY <1>1, AtIs DEF Places
<1>9. CtxOf(p)' /\ p \notin Busy'
  BY <1>1, <1>3, <1>4, <1>6, <1>8 DEF CtxOf, Busy, Runner
<1> QED BY <1>4, <1>6, <1>7, <1>8, <1>9 DEF Quiet, SameStates, SameFamily

LEMMA QuietIs ==
  ASSUME Base, NEW p \in Slots, NEW place \in Places, At(p, place), NEW t \in Places,
         place \notin {"share", "size", "start", "copy", "child"},
         t \notin {"share", "size", "start", "copy", "child", "grow", "size"},
         p = initproc => t \in {"user", "wait"},
         t \in {"clone", "find", "addr", "pid"} => ctx'[p].y \in Stacks,
         ctx' \in [Slots -> Ctx], Others(p), ctx'[p].at = t,
         proc' = proc, mem' \in [Spaces -> Mem],
         UNCHANGED <<nextpid, spaces, twice, panicked, keeps>>
  PROVE  TypeOK' /\ Quiet(p)
<1>1. Runner(p) /\ p \notin Busy
  BY AtIs
<1>2. TypeOK'
  BY DEF Base, TypeOK, Mem, Ctx
<1>3. CtxOf(p)' /\ p \notin Busy'
  BY <1>1 DEF CtxOf, Busy, Runner
<1> QED BY <1>1, <1>2, <1>3 DEF Quiet, SameStates, SameFamily

LEMMA FindEntryKind ==
  ASSUME Base, NEW p \in Slots, FindEntry(p), UNCHANGED keeps
  PROVE  TypeOK' /\ Quiet(p)
<1>1. At(p, "find") /\ "find" \in Places /\ "user" \in Places /\ "addr" \in Places
  BY DEF FindEntry, Places
<1>2. TypeOK /\ ctx[p].y \in Stacks /\ p # initproc
  BY <1>1, AtIs DEF Base, CtxOf
<1>3. UNCHANGED <<proc, nextpid, mem, spaces, twice, panicked>>
  BY DEF FindEntry
<1>4. mem' \in [Spaces -> Mem]
  BY <1>2, <1>3, Types
<1>5. CASE FreeEntries(p) = {}
  <2>1. Return(p)
    BY <1>5 DEF FindEntry
  <2> QED BY <1>1, <1>2, <1>3, <1>4, <2>1, ReturnType, QuietIs DEF Others
<1>6. CASE FreeEntries(p) # {}
  <2> DEFINE m == Min(FreeEntries(p))
  <2>1. FreeEntries(p) \in SUBSET Nat
    BY ThreadsAssumption DEF FreeEntries, Entries
  <2>2. m \in Int
    BY <1>6, <2>1, MinIs
  <2>3. Go(p, "addr", ctx[p].x, ctx[p].y, m)
    BY <1>6 DEF FindEntry
  <2> HIDE DEF m
  <2>4. ctx[p].x \in Int /\ ctx[p].y \in Int
    BY <1>2, Types
  <2>5. ctx' \in [Slots -> Ctx] /\ ctx'[p].at = "addr" /\ ctx'[p].y = ctx[p].y /\ Others(p)
    BY <1>1, <1>2, <2>2, <2>3, <2>4, GoType DEF Others
  <2> QED BY <1>1, <1>2, <1>3, <1>4, <2>5, QuietIs
<1> QED BY <1>5, <1>6

LEMMA PutAddressKind ==
  ASSUME Base, NEW p \in Slots, PutAddress(p), UNCHANGED keeps
  PROVE  TypeOK' /\ Quiet(p)
<1>1. At(p, "addr") /\ "addr" \in Places /\ "pid" \in Places
  BY DEF PutAddress, Places
<1>2. TypeOK /\ ctx[p].y \in Stacks /\ p # initproc
  BY <1>1, AtIs DEF Base, CtxOf
<1>3. /\ mem' = [mem EXCEPT ![Space(p)].table[ctx[p].z].addr = ctx[p].y]
      /\ Go(p, "pid", ctx[p].x, ctx[p].y, ctx[p].z)
      /\ UNCHANGED <<proc, nextpid, spaces, twice, panicked>>
  BY DEF PutAddress
<1>4. mem' \in [Spaces -> Mem]
  <2> DEFINE v == [mem[Space(p)] EXCEPT !.table[ctx[p].z].addr = ctx[p].y]
  <2>1. mem' = [mem EXCEPT ![Space(p)] = v]
    BY <1>3
  <2>2. Space(p) \in Spaces => v \in Mem
    BY <1>2, Types, AddressIs
  <2> HIDE DEF v
  <2> QED BY <1>2, <2>1, <2>2, MemIs
<1>5. ctx' \in [Slots -> Ctx] /\ ctx'[p].at = "pid" /\ ctx'[p].y = ctx[p].y /\ Others(p)
  <2>1. ctx[p].x \in Int /\ ctx[p].y \in Int /\ ctx[p].z \in Int
    BY <1>2, Types
  <2> QED BY <1>1, <1>2, <1>3, <2>1, GoType DEF Others
<1> QED BY <1>1, <1>2, <1>3, <1>4, <1>5, QuietIs

LEMMA PutPidKind ==
  ASSUME Base, NEW p \in Slots, PutPid(p), UNCHANGED keeps
  PROVE  TypeOK' /\ Quiet(p)
<1>1. At(p, "pid") /\ "pid" \in Places /\ "user" \in Places
  BY DEF PutPid, Places
<1>2. TypeOK
  BY DEF Base
<1>3. /\ mem' = [mem EXCEPT ![Space(p)].table[ctx[p].z].pid = ctx[p].x]
      /\ Return(p)
      /\ UNCHANGED <<proc, nextpid, spaces, twice, panicked>>
  BY DEF PutPid
<1>4. mem' \in [Spaces -> Mem]
  <2> DEFINE v == [mem[Space(p)] EXCEPT !.table[ctx[p].z].pid = ctx[p].x]
  <2>1. mem' = [mem EXCEPT ![Space(p)] = v]
    BY <1>3
  <2>2. Space(p) \in Spaces => v \in Mem
    BY <1>2, Types, PidIs
  <2> HIDE DEF v
  <2> QED BY <1>2, <2>1, <2>2, MemIs
<1> QED BY <1>1, <1>2, <1>3, <1>4, ReturnType, QuietIs DEF Others

LEMMA FreeStackKind ==
  ASSUME Base, NEW p \in Slots, FreeStack(p), UNCHANGED keeps
  PROVE  TypeOK' /\ Quiet(p)
<1>1. At(p, "forget") /\ "forget" \in Places /\ "user" \in Places
  BY DEF FreeStack, Places
<1>2. TypeOK
  BY DEF Base
<1> DEFINE mine == EntryOf(p, ctx[p].x)
           m == mem[Space(p)]
           E == [addr : Stacks \cup {0}, pid : Int]
           t == [i \in Entries |-> IF i \in mine THEN [addr |-> 0, pid |-> -1] ELSE m.table[i]]
           bl == m.blocks \ {m.table[i].addr : i \in mine}
           v == [m EXCEPT !.blocks = bl, !.table = t]
<1>3. mem' = [mem EXCEPT ![Space(p)] = v] /\ Return(p)
        /\ UNCHANGED <<proc, nextpid, spaces, twice, panicked>>
  BY DEF FreeStack
<1>4. Space(p) \in Spaces => v \in Mem
  <2> SUFFICES ASSUME Space(p) \in Spaces PROVE v \in Mem
    OBVIOUS
  <2>1. m \in Mem /\ m.blocks \subseteq Stacks /\ m.table \in [Entries -> E]
    BY <1>2, Types
  <2>2. [addr |-> 0, pid |-> -1] \in E
    OBVIOUS
  <2> HIDE DEF E, m, mine
  <2>3. t \in [Entries -> E] /\ bl \subseteq Stacks
    BY <2>1, <2>2
  <2> HIDE DEF t, bl
  <2> QED BY <2>1, <2>3 DEF Mem, E
<1> HIDE DEF v
<1>5. mem' \in [Spaces -> Mem]
  BY <1>2, <1>3, <1>4, MemIs
<1> QED BY <1>1, <1>2, <1>3, <1>5, ReturnType, QuietIs DEF Others

LEMMA GrowKind ==
  ASSUME Base, NEW p \in Slots, Grow(p), UNCHANGED keeps
  PROVE  TypeOK' /\ Quiet(p)
<1>1. At(p, "user") /\ "user" \in Places /\ "grow" \in Places /\ p # initproc
  BY DEF Grow, Makes, Places
<1>2. TypeOK /\ Runner(p) /\ p \notin Busy
  BY <1>1, AtIs DEF Base
<1>3. PICK n \in GrowArgs : /\ proc[p].sz + n \in 1 .. MaxSz
                            /\ Go(p, "grow", proc[p].sz, proc[p].sz + n, proc[p].sz)
  BY DEF Grow
<1>4. UNCHANGED <<proc, nextpid, mem, spaces, twice, panicked>>
  BY DEF Grow
<1> DEFINE b == proc[p].sz + n
<1>5. b \in Nat \ {0} /\ b \in Int /\ proc[p].sz \in Nat /\ proc[p].sz \in Int
  BY <1>2, <1>3, Types, ThreadsAssumption
<1>6. Go(p, "grow", proc[p].sz, b, proc[p].sz)
  BY <1>3
<1> HIDE DEF b
<1>7. /\ ctx' \in [Slots -> Ctx] /\ Others(p) /\ ctx'[p].at = "grow"
      /\ ctx'[p].x = proc[p].sz /\ ctx'[p].y = b /\ ctx'[p].z = proc[p].sz
  BY <1>1, <1>2, <1>5, <1>6, GoType DEF Others
<1>8. TypeOK'
  BY <1>2, <1>4, <1>7 DEF TypeOK, Ctx
<1>9. CtxOf(p)' /\ p \notin Busy'
  BY <1>1, <1>2, <1>4, <1>5, <1>7 DEF CtxOf, Busy, Runner
<1> QED BY <1>2, <1>4, <1>7, <1>8, <1>9 DEF Quiet, SameStates, SameFamily

LEMMA AllocatesIs ==
  ASSUME Base, NEW p \in Slots, p # initproc, NEW now \in {"user", "clone"}, At(p, now),
         NEW place \in {"share", "copy"},
         NEW s \in Int, place = "share" => s \in Stacks,
         AllocProc(p, place, s), UNCHANGED <<mem, spaces, twice, panicked, keeps>>
  PROVE  TypeOK' /\ \E q \in Slots : Allocates(p, q)
<1>1. TypeOK /\ place \in Places /\ now \in Places
  BY DEF Base, Places
<1>2. PICK q \in Slots :
        /\ proc[q].state = "UNUSED"
        /\ proc' \in [Slots -> Proc] /\ nextpid' = nextpid + 1
        /\ proc'[q].state = "EMBRYO" /\ proc'[q].pid = nextpid
        /\ proc'[q].parent = proc[q].parent /\ proc'[q].pgdir = proc[q].pgdir
        /\ \A r \in Slots \ {q} : proc'[r] = proc[r]
        /\ ctx' \in [Slots -> Ctx]
        /\ ctx'[p].at = place /\ ctx'[p].x = q /\ ctx'[p].y = s /\ ctx'[p].z = 0
        /\ \A r \in Slots \ {p} : ctx'[r] = ctx[r]
  BY <1>1, AllocIs
<1>3. Runner(p) /\ p \notin Busy
  BY <1>1, AtIs
<1>4. TypeOK'
  <2>1. nextpid' \in Nat
    BY <1>1, <1>2, Types
  <2> QED BY <1>1, <1>2, <2>1 DEF TypeOK, Proc, Ctx
<1>5. proc'[p].state = "RUNNABLE"
  BY <1>2, <1>3 DEF Runner
<1>6. CtxOf(p)'
  BY <1>2, <1>5 DEF CtxOf
<1> QED BY <1>2, <1>3, <1>4, <1>6 DEF Allocates, Others, SameSlots

LEMMA CloneKind ==
  ASSUME Base, NEW p \in Slots, Clone(p), UNCHANGED keeps
  PROVE  TypeOK' /\ (Quiet(p) \/ \E q \in Slots : Allocates(p, q))
<1>1. At(p, "clone") /\ "clone" \in Places /\ "user" \in Places
  BY DEF Clone, Places
<1>2. TypeOK /\ ctx[p].y \in Stacks /\ ctx[p].y \in Int /\ p # initproc
  BY <1>1, AtIs, Types DEF Base, CtxOf
<1>3. CASE AllocProc(p, "share", ctx[p].y) /\ UNCHANGED mem
  <2>1. UNCHANGED <<mem, spaces, twice, panicked, keeps>>
    BY <1>3 DEF Clone
  <2> QED BY <1>1, <1>2, <1>3, <2>1, AllocatesIs
<1>4. CASE /\ mem' = [mem EXCEPT ![Space(p)].blocks = @ \ {ctx[p].y}]
           /\ Return(p)
           /\ UNCHANGED <<proc, nextpid>>
  <2>1. mem' \in [Spaces -> Mem]
    <3> DEFINE v == [mem[Space(p)] EXCEPT !.blocks = @ \ {ctx[p].y}]
    <3>1. mem' = [mem EXCEPT ![Space(p)] = v]
      BY <1>4
    <3>2. Space(p) \in Spaces => v \in Mem
      BY <1>2, Types DEF Mem
    <3> HIDE DEF v
    <3> QED BY <1>2, <3>1, <3>2, MemIs
  <2>2. UNCHANGED <<proc, nextpid, spaces, twice, panicked>>
    BY <1>4 DEF Clone
  <2>3. ctx' \in [Slots -> Ctx] /\ ctx'[p].at = "user" /\ Others(p)
    BY <1>2, <1>4, ReturnType DEF Others
  <2> QED BY <1>1, <1>2, <2>1, <2>2, <2>3, QuietIs
<1> QED BY <1>3, <1>4 DEF Clone

LEMMA ForkKind ==
  ASSUME Base, NEW p \in Slots, Fork(p), UNCHANGED keeps
  PROVE  TypeOK' /\ \E q \in Slots : Allocates(p, q)
<1>1. /\ At(p, "user") /\ p # initproc /\ AllocProc(p, "copy", 0) /\ 0 \in Int
      /\ UNCHANGED <<mem, spaces, twice, panicked, keeps>>
  BY DEF Fork, Makes
<1> QED BY <1>1, AllocatesIs

\* What a step between allocproc and the last store has at hand.
LEMMA KidIs ==
  ASSUME Base, NEW p \in Slots, NEW place \in {"share", "size", "start", "copy", "child"},
         At(p, place)
  PROVE  /\ TypeOK /\ Runner(p) /\ p \in Busy /\ p # initproc /\ ctx[p].at = place
         /\ ctx[p].x \in Slots /\ proc[ctx[p].x].state = "EMBRYO" /\ ctx[p].x # p
         /\ ctx[p].x \in Int /\ ctx[p].y \in Int /\ ctx[p].z \in Int
         /\ place \in {"share", "size", "start"} => ctx[p].y \in Stacks
         /\ place = "size" => ctx[p].z \in Nat
<1>1. place \in Places
  BY DEF Places
<1>2. TypeOK /\ Runner(p) /\ p \in Busy /\ p # initproc /\ ctx[p].at = place /\ CtxOf(p)
  BY <1>1, AtIs DEF Base
<1>3. ctx[p].x \in Slots /\ proc[ctx[p].x].state = "EMBRYO"
  BY <1>2 DEF Base, KidInv
<1>4. ctx[p].x # p
  BY <1>2, <1>3 DEF Runner
<1>5. ctx[p].x \in Int /\ ctx[p].y \in Int /\ ctx[p].z \in Int
  BY <1>2, Types
<1> QED BY <1>2, <1>3, <1>4, <1>5 DEF CtxOf

LEMMA CloneShareKind ==
  ASSUME Base, NEW p \in Slots, CloneShare(p), UNCHANGED keeps
  PROVE  TypeOK' /\ Shares(p)
<1> DEFINE k == ctx[p].x
           v == [proc[k] EXCEPT !.pgdir = Space(p)]
<1>1. At(p, "share")
  BY DEF CloneShare
<1>2. /\ TypeOK /\ Runner(p) /\ p \in Busy /\ ctx[p].at = "share"
      /\ k \in Slots /\ proc[k].state = "EMBRYO" /\ k # p /\ k \in Int
      /\ ctx[p].y \in Stacks /\ ctx[p].y \in Int
  BY <1>1, KidIs
<1>3. /\ proc' = [proc EXCEPT ![k] = v]
      /\ Go(p, "size", k, ctx[p].y, proc[p].sz)
      /\ UNCHANGED <<nextpid, mem, spaces, twice, panicked>>
  BY DEF CloneShare
<1>4. v \in Proc /\ v.state = "EMBRYO" /\ v.pid = proc[k].pid /\ v.pgdir = Space(p)
  BY <1>2, Types DEF Proc, Space
<1> HIDE DEF v
<1>5. /\ proc' \in [Slots -> Proc] /\ proc'[k] = v /\ \A r \in Slots \ {k} : proc'[r] = proc[r]
  BY <1>2, <1>3, <1>4, Types
<1>6. /\ ctx' \in [Slots -> Ctx] /\ ctx'[p].at = "size" /\ ctx'[p].x = k
      /\ ctx'[p].y = ctx[p].y /\ ctx'[p].z = proc[p].sz /\ Others(p) /\ proc[p].sz \in Nat
  <2>1. proc[p].sz \in Int /\ proc[p].sz \in Nat /\ "size" \in Places
    BY <1>2, Types DEF Places
  <2> QED BY <1>2, <1>3, <2>1, GoType DEF Others
<1>7. TypeOK'
  BY <1>2, <1>3, <1>5, <1>6 DEF TypeOK, Proc, Ctx
<1>8. proc'[p].state = "RUNNABLE" /\ p # initproc
  BY <1>1, <1>2, <1>5, KidIs DEF Runner
<1>9. CtxOf(p)'
  BY <1>2, <1>6, <1>8 DEF CtxOf
<1> QED BY <1>2, <1>3, <1>4, <1>5, <1>6, <1>7, <1>9 DEF Shares, Fills, SameSlots

LEMMA CloneSizeKind ==
  ASSUME Base, NEW p \in Slots, CloneSize(p), UNCHANGED keeps
  PROVE  TypeOK' /\ Sizes(p)
<1> DEFINE k == ctx[p].x
           v == [proc[k] EXCEPT !.sz = ctx[p].z, !.parent = p, !.stack = ctx[p].y]
<1>1. At(p, "size")
  BY DEF CloneSize
<1>2. /\ TypeOK /\ Runner(p) /\ p \in Busy /\ ctx[p].at = "size"
      /\ k \in Slots /\ proc[k].state = "EMBRYO" /\ k # p /\ k \in Int
      /\ ctx[p].y \in Stacks /\ ctx[p].y \in Int /\ ctx[p].z \in Nat
  BY <1>1, KidIs
<1>3. /\ proc' = [proc EXCEPT ![k] = v]
      /\ Go(p, "start", k, ctx[p].y, 0)
      /\ UNCHANGED <<nextpid, mem, spaces, twice, panicked>>
  BY <1>2, Types DEF CloneSize, StackBase
<1>4. /\ v \in Proc /\ v.state = "EMBRYO" /\ v.pid = proc[k].pid /\ v.pgdir = proc[k].pgdir
      /\ v.parent = p
  <2>1. proc[k] \in Proc /\ p \in 0 .. NPROC
    BY <1>2, Types, Inits DEF Slots
  <2> QED BY <1>2, <2>1 DEF Proc
<1> HIDE DEF v
<1>5. /\ proc' \in [Slots -> Proc] /\ proc'[k] = v /\ \A r \in Slots \ {k} : proc'[r] = proc[r]
  BY <1>2, <1>3, <1>4, Types
<1>6. /\ ctx' \in [Slots -> Ctx] /\ ctx'[p].at = "start" /\ ctx'[p].x = k
      /\ ctx'[p].y = ctx[p].y /\ Others(p)
  <2>1. 0 \in Int /\ "start" \in Places
    BY DEF Places
  <2> QED BY <1>2, <1>3, <2>1, GoType DEF Others
<1>7. TypeOK'
  BY <1>2, <1>3, <1>5, <1>6 DEF TypeOK, Proc, Ctx
<1>8. proc'[p].state = "RUNNABLE" /\ p # initproc
  BY <1>1, <1>2, <1>5, KidIs DEF Runner
<1>9. CtxOf(p)'
  BY <1>2, <1>6, <1>8 DEF CtxOf
<1> QED BY <1>2, <1>3, <1>4, <1>5, <1>6, <1>7, <1>9 DEF Sizes, Fills, SameSlots

\* The last store of clone and fork, and the failure of fork.
LEMMA FinishIs ==
  ASSUME Base, NEW p \in Slots, NEW place \in {"start", "copy", "child"}, At(p, place),
         NEW s \in {"RUNNABLE", "UNUSED"}, proc' = [proc EXCEPT ![ctx[p].x].state = s],
         NEW t \in {"user", "find"}, ctx' \in [Slots -> Ctx], ctx'[p].at = t, Others(p),
         t = "find" => ctx'[p].y \in Stacks,
         UNCHANGED <<nextpid, mem, spaces, twice, panicked, keeps>>
  PROVE  TypeOK' /\ Finishes(p, s)
<1> DEFINE k == ctx[p].x
<1>1. /\ TypeOK /\ Runner(p) /\ p \in Busy /\ p # initproc
      /\ k \in Slots /\ proc[k].state = "EMBRYO" /\ k # p
  BY KidIs
<1>2. s \in States
  BY DEF States
<1> HIDE DEF k
<1>3. proc' = [proc EXCEPT ![k].state = s]
  BY DEF k
<1>4. /\ proc' \in [Slots -> Proc] /\ proc'[k].state = s
      /\ \A r \in Slots \ {k} : proc'[r] = proc[r]
      /\ \A r \in Slots :
           /\ proc'[r].pid = proc[r].pid /\ proc'[r].parent = proc[r].parent
           /\ proc'[r].pgdir = proc[r].pgdir
  BY <1>1, <1>2, <1>3, StateOf
<1>5. TypeOK'
  BY <1>1, <1>4 DEF TypeOK, Proc, Ctx
<1>6. proc'[p].state = "RUNNABLE"
  BY <1>1, <1>4 DEF Runner
<1>7. CtxOf(p)' /\ p \notin Busy'
  BY <1>1, <1>6 DEF CtxOf, Busy
<1> QED BY <1>1, <1>4, <1>5, <1>7 DEF Finishes, SameSlots, SameFamily, k

LEMMA CloneStartKind ==
  ASSUME Base, NEW p \in Slots, CloneStart(p), UNCHANGED keeps
  PROVE  TypeOK' /\ Starts(p)
<1>1. At(p, "start")
  BY DEF CloneStart
<1>2. /\ TypeOK /\ ctx[p].at = "start" /\ ctx[p].x \in Slots
      /\ ctx[p].y \in Stacks /\ ctx[p].y \in Int
  BY <1>1, KidIs
<1>3. /\ proc' = [proc EXCEPT ![ctx[p].x].state = "RUNNABLE"]
      /\ Go(p, "find", proc[ctx[p].x].pid, ctx[p].y, 0)
      /\ UNCHANGED <<nextpid, mem, spaces, twice, panicked, keeps>>
  BY DEF CloneStart
<1>4. ctx' \in [Slots -> Ctx] /\ ctx'[p].at = "find" /\ ctx'[p].y = ctx[p].y /\ Others(p)
  <2>1. proc[ctx[p].x].pid \in Int /\ 0 \in Int /\ "find" \in Places
    BY <1>2, Types DEF Places
  <2> QED BY <1>2, <1>3, <2>1, GoType DEF Others
<1>5. TypeOK' /\ Finishes(p, "RUNNABLE")
  BY <1>1, <1>2, <1>3, <1>4, FinishIs
<1> QED BY <1>2, <1>5 DEF Starts

LEMMA ForkStartKind ==
  ASSUME Base, NEW p \in Slots, ForkStart(p), UNCHANGED keeps
  PROVE  TypeOK' /\ Starts(p)
<1>1. At(p, "child")
  BY DEF ForkStart
<1>2. TypeOK /\ ctx[p].at = "child"
  BY <1>1, KidIs
<1>3. /\ proc' = [proc EXCEPT ![ctx[p].x].state = "RUNNABLE"] /\ Return(p)
      /\ UNCHANGED <<nextpid, mem, spaces, twice, panicked, keeps>>
  BY DEF ForkStart
<1>4. ctx' \in [Slots -> Ctx] /\ ctx'[p].at = "user" /\ Others(p)
  BY <1>2, <1>3, ReturnType DEF Others
<1>5. TypeOK' /\ Finishes(p, "RUNNABLE")
  BY <1>1, <1>2, <1>3, <1>4, FinishIs
<1> QED BY <1>2, <1>5 DEF Starts

LEMMA ForkCopyKind ==
  ASSUME Base, NEW p \in Slots, ForkCopy(p), UNCHANGED keeps
  PROVE  TypeOK' /\ (GivesUp(p) \/ Copies(p) \/ UNCHANGED <<proc, nextpid, ctx, spaces, twice>>)
<1> DEFINE k == ctx[p].x
           free == Spaces \ spaces
           d == Min(free)
           pages == 0 .. proc[p].sz - 1
<1>1. At(p, "copy")
  BY DEF ForkCopy
<1>2. /\ TypeOK /\ Runner(p) /\ p \in Busy /\ ctx[p].at = "copy" /\ p # initproc
      /\ k \in Slots /\ proc[k].state = "EMBRYO" /\ k # p /\ k \in Int
  BY <1>1, KidIs
<1>3. UNCHANGED <<nextpid, twice>>
  BY DEF ForkCopy
<1>4. CASE /\ proc' = [proc EXCEPT ![k].state = "UNUSED"] /\ Return(p)
           /\ UNCHANGED <<mem, spaces, panicked>>
  <2>1. ctx' \in [Slots -> Ctx] /\ ctx'[p].at = "user" /\ Others(p)
    BY <1>2, <1>4, ReturnType DEF Others
  <2>2. TypeOK' /\ Finishes(p, "UNUSED")
    BY <1>1, <1>2, <1>3, <1>4, <2>1, FinishIs
  <2> QED BY <1>2, <2>2 DEF GivesUp
<1>5. CASE /\ free # {}
           /\ spaces' = spaces \cup {d}
           /\ mem' = [mem EXCEPT ![d] = [mem[Space(p)] EXCEPT !.mapped = pages]]
           /\ proc' = [proc EXCEPT ![k].pgdir = d, ![k].sz = proc[p].sz, ![k].parent = p]
           /\ Go(p, "child", k, 0, 0)
           /\ pages \subseteq mem[Space(p)].mapped
           /\ UNCHANGED panicked
  <2>1. d \in free
    <3>1. free \in SUBSET Nat
      BY ThreadsAssumption DEF Spaces
    <3> QED BY <1>5, <3>1, MinIs
  <2> DEFINE v == [proc[k] EXCEPT !.pgdir = d, !.sz = proc[p].sz, !.parent = p]
             w == [mem[Space(p)] EXCEPT !.mapped = pages]
  <2> HIDE DEF d, pages
  <2>2. proc' = [proc EXCEPT ![k] = v]
    BY <1>5
  <2>3. /\ v \in Proc /\ v.state = "EMBRYO" /\ v.pid = proc[k].pid /\ v.pgdir = d
        /\ v.parent = p
    <3>1. proc[k] \in Proc /\ proc[p].sz \in Nat /\ p \in 0 .. NPROC
      BY <1>2, Types, Inits DEF Slots
    <3>2. d \in 0 .. NSPACES
      BY <2>1 DEF Spaces
    <3> QED BY <1>2, <3>1, <3>2 DEF Proc
  <2> HIDE DEF v
  <2>4. /\ proc' \in [Slots -> Proc] /\ proc'[k] = v /\ \A r \in Slots \ {k} : proc'[r] = proc[r]
    BY <1>2, <2>2, <2>3, Types
  <2>5. ctx' \in [Slots -> Ctx] /\ ctx'[p].at = "child" /\ ctx'[p].x = k /\ Others(p)
    <3>1. 0 \in Int /\ "child" \in Places
      BY DEF Places
    <3> QED BY <1>2, <1>5, <3>1, GoType DEF Others
  <2>6. mem' \in [Spaces -> Mem]
    <3>1. Space(p) \in Spaces
      BY <1>2 DEF Base, Placed, Runner, Alive
    <3>2. mem[Space(p)] \in Mem /\ pages \subseteq Nat
      BY <1>2, <1>5, <3>1, Types
    <3>3. w \in Mem
      BY <3>2 DEF Mem
    <3>4. mem' = [mem EXCEPT ![d] = w]
      BY <1>5
    <3> HIDE DEF w
    <3> QED BY <1>2, <3>3, <3>4, MemIs
  <2>7. TypeOK'
    <3>1. spaces' \subseteq Spaces
      BY <1>2, <1>5, <2>1, Types
    <3> QED BY <1>2, <1>3, <1>5, <2>4, <2>5, <2>6, <3>1 DEF TypeOK, Proc, Ctx, Mem
  <2>8. CtxOf(p)'
    <3>1. proc'[p].state = "RUNNABLE"
      BY <1>2, <2>4 DEF Runner
    <3> QED BY <1>2, <2>5, <3>1 DEF CtxOf
  <2>9. Copies(p)
    BY <1>2, <1>3, <1>5, <2>1, <2>3, <2>4, <2>5, <2>8 DEF Copies, Fills, SameSlots
  <2> QED BY <2>7, <2>9
<1>6. CASE /\ panicked' = "copyuvm: page not present"
           /\ UNCHANGED <<proc, ctx, mem, spaces>>
  BY <1>2, <1>3, <1>6 DEF TypeOK
<1> QED BY <1>4, <1>5, <1>6 DEF ForkCopy

LEMMA GrowPageKind ==
  ASSUME Base, NEW p \in Slots, GrowPage(p), UNCHANGED keeps
  PROVE  TypeOK' /\ (Quiet(p) \/ UNCHANGED <<proc, nextpid, ctx, spaces, twice>>)
<1> DEFINE a == ctx[p].x
           b == ctx[p].y
           c == ctx[p].z
           m == mem[Space(p)].mapped
<1>1. At(p, "grow") /\ "grow" \in Places /\ "user" \in Places
  BY DEF GrowPage, Places
<1>2. /\ TypeOK /\ Runner(p) /\ p \notin Busy /\ p # initproc
      /\ a \in Nat /\ b \in Nat \ {0} /\ c \in Nat
  BY <1>1, AtIs DEF Base, CtxOf
<1>3. UNCHANGED <<proc, nextpid, spaces, twice>>
  BY DEF GrowPage
<1>4. Space(p) \in Spaces /\ m \subseteq Nat
  BY <1>2, Types DEF Base, Placed, Runner, Alive
<1> HIDE DEF m, a, b, c
<1>5. ASSUME NEW n \in SUBSET Nat, mem' = [mem EXCEPT ![Space(p)].mapped = n]
      PROVE  mem' \in [Spaces -> Mem]
  <2> DEFINE v == [mem[Space(p)] EXCEPT !.mapped = n]
  <2>1. mem' = [mem EXCEPT ![Space(p)] = v]
    BY <1>5
  <2>2. v \in Mem
    <3>1. mem[Space(p)] \in Mem
      BY <1>2, <1>4, Types
    <3> QED BY <3>1 DEF Mem
  <2> HIDE DEF v
  <2> QED BY <1>2, <2>1, <2>2, MemIs
<1>6. ASSUME NEW e \in Nat, Go(p, "grow", e, b, c), mem' \in [Spaces -> Mem], UNCHANGED panicked
      PROVE  TypeOK' /\ Quiet(p)
  <2>1. e \in Int /\ b \in Int /\ c \in Int
    BY <1>2
  <2>2. /\ ctx' \in [Slots -> Ctx] /\ ctx'[p].at = "grow" /\ ctx'[p].x = e
        /\ ctx'[p].y = b /\ ctx'[p].z = c /\ Others(p)
    BY <1>1, <1>2, <1>6, <2>1, GoType DEF Others
  <2>3. TypeOK'
    BY <1>2, <1>3, <1>6, <2>2 DEF TypeOK, Mem, Ctx
  <2>4. CtxOf(p)' /\ p \notin Busy'
    BY <1>2, <1>3, <2>2 DEF CtxOf, Busy, Runner
  <2> QED BY <1>2, <1>3, <2>2, <2>3, <2>4 DEF Quiet, SameStates, SameFamily
<1>7. CASE a < b /\ a \in m /\ panicked' = "remap" /\ UNCHANGED <<ctx, mem>>
  BY <1>2, <1>3, <1>7 DEF TypeOK
<1>8. CASE /\ a < b /\ a \notin m /\ mem' = [mem EXCEPT ![Space(p)].mapped = m \cup {a}]
           /\ Go(p, "grow", a + 1, b, c) /\ UNCHANGED panicked
  <2>1. m \cup {a} \in SUBSET Nat /\ a + 1 \in Nat
    BY <1>2, <1>4
  <2>2. mem' \in [Spaces -> Mem]
    BY <1>5, <1>8, <2>1
  <2> QED BY <1>6, <1>8, <2>1, <2>2
<1>9. CASE /\ a < b /\ mem' = [mem EXCEPT ![Space(p)].mapped = m \ (c .. b - 1)]
           /\ Return(p) /\ UNCHANGED panicked
  <2>1. m \ (c .. b - 1) \in SUBSET Nat
    BY <1>4
  <2>2. mem' \in [Spaces -> Mem]
    BY <1>5, <1>9, <2>1
  <2>3. ctx' \in [Slots -> Ctx] /\ ctx'[p].at = "user" /\ Others(p)
    BY <1>2, <1>9, ReturnType DEF Others
  <2>4. proc' = proc /\ UNCHANGED <<nextpid, spaces, twice, panicked, keeps>>
    BY <1>3, <1>9
  <2> QED BY <1>1, <1>2, <2>2, <2>3, <2>4, QuietIs
<1>10. CASE /\ a > b /\ mem' = [mem EXCEPT ![Space(p)].mapped = m \ {a - 1}]
            /\ Go(p, "grow", a - 1, b, c) /\ UNCHANGED panicked
  <2>1. m \ {a - 1} \in SUBSET Nat /\ a - 1 \in Nat
    BY <1>2, <1>4, <1>10
  <2>2. mem' \in [Spaces -> Mem]
    BY <1>5, <1>10, <2>1
  <2> QED BY <1>6, <1>10, <2>1, <2>2
<1> QED BY <1>7, <1>8, <1>9, <1>10 DEF GrowPage, m, a, b, c

LEMMA GrowStoreKind ==
  ASSUME Base, NEW p \in Slots, GrowStore(p), UNCHANGED keeps
  PROVE  TypeOK' /\ Quiet(p)
<1>1. At(p, "grow") /\ "grow" \in Places
  BY DEF GrowStore, Places
<1>2. TypeOK /\ Runner(p) /\ p \notin Busy /\ ctx[p].y \in Nat
  BY <1>1, AtIs DEF Base, CtxOf
<1> DEFINE s == ctx[p].y
<1>3. /\ proc' = [q \in Slots |->
            IF Sized(p, q) THEN [proc[q] EXCEPT !.sz = s] ELSE proc[q]]
      /\ Return(p) /\ UNCHANGED <<nextpid, mem, spaces, twice, panicked>>
  BY DEF GrowStore
<1> HIDE DEF s
<1>4. /\ proc' \in [Slots -> Proc]
      /\ \A q \in Slots : /\ proc'[q].state = proc[q].state /\ proc'[q].pid = proc[q].pid
                          /\ proc'[q].parent = proc[q].parent /\ proc'[q].pgdir = proc[q].pgdir
  <2> SUFFICES ASSUME NEW q \in Slots
               PROVE  /\ proc'[q] \in Proc
                      /\ proc'[q].state = proc[q].state /\ proc'[q].pid = proc[q].pid
                      /\ proc'[q].parent = proc[q].parent /\ proc'[q].pgdir = proc[q].pgdir
    BY <1>3
  <2>1. proc[q] \in Proc /\ s \in Nat
    BY <1>2, Types DEF s
  <2>2. proc'[q] = IF Sized(p, q) THEN [proc[q] EXCEPT !.sz = s] ELSE proc[q]
    BY <1>3
  <2> QED BY <2>1, <2>2 DEF Proc
<1>5. ctx' \in [Slots -> Ctx] /\ ctx'[p].at = "user" /\ Others(p)
  BY <1>2, <1>3, ReturnType DEF Others
<1>6. TypeOK'
  BY <1>2, <1>3, <1>4, <1>5 DEF TypeOK, Proc, Ctx
<1>7. CtxOf(p)' /\ p \notin Busy'
  BY <1>2, <1>4, <1>5 DEF CtxOf, Busy, Runner
<1> QED BY <1>2, <1>3, <1>4, <1>5, <1>6, <1>7 DEF Quiet, SameStates, SameFamily

\* wait and join: nothing to wait for, a zombie, or a sleep.
LEMMA ReapIs ==
  ASSUME Base, NEW p \in Slots, NEW now \in {"user", "wait", "join"}, At(p, now),
         NEW q \in Slots, proc[q].state = "ZOMBIE", proc[q].parent = p,
         proc' = Reaped(q), mem' \in [Spaces -> Mem],
         \/ ~Together(p, q) /\ FreeVm(Space(q))
         \/ Together(p, q) /\ UNCHANGED <<spaces, twice>>,
         NEW t \in {"user", "forget"}, p = initproc => t = "user",
         ctx' \in [Slots -> Ctx], ctx'[p].at = t, Others(p),
         UNCHANGED <<nextpid, panicked, keeps>>
  PROVE  TypeOK' /\ Reaps(p, q)
<1>1. TypeOK /\ Runner(p) /\ p \notin Busy
  BY AtIs DEF Base, Places
<1>2. /\ proc' \in [Slots -> Proc]
      /\ proc'[q].state = "UNUSED" /\ proc'[q].pid = 0 /\ proc'[q].parent = 0
      /\ \A r \in Slots \ {q} : proc'[r] = proc[r]
      /\ \A r \in Slots : proc'[r].pgdir = proc[r].pgdir
  BY <1>1, ReapedIs
<1>3. TypeOK'
  <2>1. spaces' \subseteq Spaces /\ twice' \in BOOLEAN
    BY <1>1, Types DEF FreeVm, TypeOK
  <2> QED BY <1>1, <1>2, <2>1 DEF TypeOK, Proc, Ctx, Mem
<1>4. proc'[p].state = "RUNNABLE"
  BY <1>1, <1>2 DEF Runner
<1>5. CtxOf(p)' /\ p \notin Busy'
  BY <1>4 DEF CtxOf, Busy
<1> QED BY <1>1, <1>2, <1>3, <1>5 DEF Reaps, SameSlots

LEMMA SleepIs ==
  ASSUME Base, NEW p \in Slots, NEW now \in {"user", "wait", "join"}, At(p, now),
         NEW t \in {"wait", "join"}, p = initproc => t = "wait", Go(p, t, 0, 0, 0),
         proc' = [proc EXCEPT ![p].state = "SLEEPING"],
         Zombies(IF t = "join" THEN Threads(p) ELSE Children(p)) = {},
         UNCHANGED <<nextpid, mem, spaces, twice, panicked, keeps>>
  PROVE  TypeOK' /\ Sleeps(p)
<1>1. TypeOK /\ Runner(p) /\ p \notin Busy /\ t \in Places /\ 0 \in Int
  BY AtIs DEF Base, Places
<1>2. ctx' \in [Slots -> Ctx] /\ ctx'[p].at = t /\ Others(p)
  BY <1>1, GoType DEF Others
<1>3. /\ proc' \in [Slots -> Proc] /\ proc'[p].state = "SLEEPING"
      /\ \A r \in Slots \ {p} : proc'[r] = proc[r]
      /\ \A r \in Slots :
           /\ proc'[r].pid = proc[r].pid /\ proc'[r].parent = proc[r].parent
           /\ proc'[r].pgdir = proc[r].pgdir
  BY <1>1, StateOf DEF States
<1>4. TypeOK'
  BY <1>1, <1>2, <1>3 DEF TypeOK, Proc, Ctx
<1>5. CtxOf(p)' /\ p \notin Busy'
  BY <1>1, <1>2, <1>3 DEF CtxOf, Busy
<1> QED BY <1>1, <1>2, <1>3, <1>4, <1>5 DEF Sleeps, SameStates, SameFamily

LEMMA ImageIs == Image \in Mem
BY DEF Image, Mem

LEMMA FamilyIs ==
  ASSUME NEW p \in Slots, NEW S \in {Threads(p), Children(p)}, Zombies(S) # {}
  PROVE  /\ Min(Zombies(S)) \in Slots /\ proc[Min(Zombies(S))].state = "ZOMBIE"
         /\ proc[Min(Zombies(S))].parent = p
         /\ S = Threads(p) => Together(p, Min(Zombies(S)))
         /\ S = Children(p) => ~Together(p, Min(Zombies(S)))
<1>1. Zombies(S) \in SUBSET Slots
  BY DEF Zombies, Threads, Children
<1>2. Min(Zombies(S)) \in Zombies(S)
  BY <1>1, MinSlot
<1> QED BY <1>2 DEF Zombies, Threads, Children

LEMMA WaitKind ==
  ASSUME Base, NEW p \in Slots, Wait(p), UNCHANGED keeps
  PROVE  TypeOK' /\ (Quiet(p) \/ Sleeps(p) \/ \E q \in Slots : Reaps(p, q))
<1> DEFINE kids == Children(p)
           q == Min(Zombies(kids))
<1>1. PICK now \in {"user", "wait"} : At(p, now)
  BY DEF Wait, Makes
<1>2. TypeOK /\ now \in Places /\ "user" \in Places /\ UNCHANGED <<nextpid, panicked, keeps>>
  BY DEF Wait, Base, Places
<1>3. CASE Zombies(kids) # {} /\ proc' = Reaped(q) /\ FreeVm(Space(q)) /\ Return(p)
  <2>1. q \in Slots /\ proc[q].state = "ZOMBIE" /\ proc[q].parent = p /\ ~Together(p, q)
    BY <1>3, FamilyIs
  <2> HIDE DEF q
  <2>2. mem' \in [Spaces -> Mem]
    BY <1>2, <1>3, ImageIs, MemIs DEF FreeVm
  <2>3. ctx' \in [Slots -> Ctx] /\ ctx'[p].at = "user" /\ Others(p)
    BY <1>2, <1>3, ReturnType DEF Others
  <2>4. TypeOK' /\ Reaps(p, q)
    BY <1>1, <1>2, <1>3, <2>1, <2>2, <2>3, ReapIs
  <2> QED BY <2>1, <2>4
<1>4. CASE Return(p) /\ UNCHANGED <<proc, mem, spaces, twice>>
  <2>1. ctx' \in [Slots -> Ctx] /\ ctx'[p].at = "user" /\ Others(p)
    BY <1>2, <1>4, ReturnType DEF Others
  <2>2. mem' \in [Spaces -> Mem] /\ proc' = proc /\ UNCHANGED <<nextpid, spaces, twice, panicked, keeps>>
    BY <1>2, <1>4, Types
  <2> QED BY <1>1, <1>2, <2>1, <2>2, QuietIs
<1>5. CASE /\ Zombies(kids) = {} /\ proc' = [proc EXCEPT ![p].state = "SLEEPING"]
           /\ Go(p, "wait", 0, 0, 0) /\ UNCHANGED <<mem, spaces, twice>>
  <2>1. UNCHANGED <<nextpid, mem, spaces, twice, panicked, keeps>>
    BY <1>2, <1>5
  <2> QED BY <1>1, <1>5, <2>1, SleepIs
<1> QED BY <1>3, <1>4, <1>5 DEF Wait

LEMMA JoinKind ==
  ASSUME Base, NEW p \in Slots, Join(p), UNCHANGED keeps
  PROVE  TypeOK' /\ (Quiet(p) \/ Sleeps(p) \/ \E q \in Slots : Reaps(p, q))
<1> DEFINE kids == Threads(p)
           q == Min(Zombies(kids))
<1>1. PICK now \in {"user", "join"} : At(p, now)
  BY DEF Join, Makes
<1>2. TypeOK /\ now \in Places /\ "user" \in Places /\ "forget" \in Places
        /\ UNCHANGED <<nextpid, mem, spaces, twice, panicked, keeps>>
  BY DEF Join, Base, Places
<1>3. p # initproc
  BY <1>1, <1>2, AtIs DEF Join, Makes, At
<1>4. mem' \in [Spaces -> Mem]
  BY <1>2, Types
<1>5. CASE Zombies(kids) # {} /\ proc' = Reaped(q) /\ Go(p, "forget", proc[q].pid, proc[q].stack, 0)
  <2>1. q \in Slots /\ proc[q].state = "ZOMBIE" /\ proc[q].parent = p /\ Together(p, q)
    BY <1>5, FamilyIs
  <2> HIDE DEF q
  <2>2. proc[q].pid \in Int /\ proc[q].stack \in Int /\ 0 \in Int
    BY <1>2, <2>1, Types
  <2>3. ctx' \in [Slots -> Ctx] /\ ctx'[p].at = "forget" /\ Others(p)
    BY <1>2, <1>5, <2>2, GoType DEF Others
  <2>4. TypeOK' /\ Reaps(p, q)
    BY <1>1, <1>2, <1>3, <1>4, <1>5, <2>1, <2>3, ReapIs
  <2> QED BY <2>1, <2>4
<1>6. CASE Return(p) /\ UNCHANGED proc
  <2>1. ctx' \in [Slots -> Ctx] /\ ctx'[p].at = "user" /\ Others(p)
    BY <1>2, <1>6, ReturnType DEF Others
  <2> QED BY <1>1, <1>2, <1>3, <1>4, <1>6, <2>1, QuietIs
<1>7. CASE /\ Zombies(kids) = {} /\ proc' = [proc EXCEPT ![p].state = "SLEEPING"]
           /\ Go(p, "join", 0, 0, 0)
  BY <1>1, <1>2, <1>3, <1>7, SleepIs
<1> QED BY <1>5, <1>6, <1>7 DEF Join, Joinable, Exited

-----------------------------------------------------------------------------
(* exit and exec                                                           *)

LEMMA ExitKind ==
  ASSUME Base, NEW p \in Slots, Exit(p), UNCHANGED keeps
  PROVE  TypeOK' /\ Exits(p)
<1>1. At(p, "user") /\ p # initproc /\ ("join" \in keeps => Threads(p) = {})
  BY DEF Exit, Makes
<1>2. TypeOK /\ Runner(p) /\ p \notin Busy /\ ctx[p].at = "user"
  BY <1>1, AtIs DEF Base, Places
<1> DEFINE par(q) == IF proc[q].parent = p THEN initproc ELSE proc[q].parent
           st(q) == IF q \in Woken(p) /\ proc[q].state = "SLEEPING" THEN "RUNNABLE"
                    ELSE proc[q].state
           new(q) == IF q = p THEN [proc[q] EXCEPT !.state = "ZOMBIE"]
                     ELSE [proc[q] EXCEPT !.parent = par(q), !.state = st(q)]
<1>3. proc' = [q \in Slots |-> new(q)] /\ UNCHANGED <<nextpid, ctx, mem, spaces, twice, panicked>>
  BY DEF Exit
<1>4. ASSUME NEW q \in Slots
      PROVE  /\ new(q) \in Proc
             /\ new(q).pid = proc[q].pid /\ new(q).pgdir = proc[q].pgdir
             /\ q = p => new(q).state = "ZOMBIE" /\ new(q).parent = proc[q].parent
             /\ q # p => new(q).parent = par(q) /\ new(q).state = st(q)
  <2>1. proc[q] \in Proc /\ proc[q].state \in States /\ proc[q].parent \in 0 .. NPROC
    BY <1>2, Types
  <2>2. par(q) \in 0 .. NPROC /\ st(q) \in States /\ "ZOMBIE" \in States
    BY <2>1, Inits DEF States, Slots
  <2> HIDE DEF par, st
  <2> QED BY <2>1, <2>2 DEF Proc
<1> HIDE DEF new
<1>5. \A q \in Slots : proc'[q] = new(q)
  BY <1>3
<1>6. TypeOK'
  <2>1. proc' \in [Slots -> Proc]
    BY <1>3, <1>4
  <2> QED BY <1>2, <1>3, <2>1 DEF TypeOK, Proc
<1> QED BY <1>1, <1>2, <1>3, <1>4, <1>5, <1>6 DEF Exits

LEMMA ExecKind ==
  ASSUME Base, NEW p \in Slots, Exec(p), UNCHANGED keeps
  PROVE  TypeOK' /\ Execs(p)
<1>1. /\ At(p, "user") /\ p # initproc
      /\ "join" \in keeps => \A q \in Slots : q # p /\ Alive(q) => ~Together(p, q)
  BY DEF Exec, Makes
<1>2. TypeOK /\ Runner(p) /\ p \notin Busy /\ ctx[p].at = "user"
  BY <1>1, AtIs DEF Base, Places
<1> DEFINE free == Spaces \ spaces
           d == Min(free)
<1>3. /\ free # {} /\ proc' = [proc EXCEPT ![p].pgdir = d, ![p].sz = 1]
      /\ mem' = [mem EXCEPT ![Space(p)] = Image]
      /\ spaces' = (spaces \cup {d}) \ {Space(p)}
      /\ twice' = (twice \/ Space(p) \notin spaces)
      /\ UNCHANGED <<nextpid, ctx, panicked>>
  BY DEF Exec
<1>4. d \in free
  <2>1. free \in SUBSET Nat
    BY ThreadsAssumption DEF Spaces
  <2> QED BY <1>3, <2>1, MinIs
<1> DEFINE v == [proc[p] EXCEPT !.pgdir = d, !.sz = 1]
<1> HIDE DEF d
<1>5. proc' = [proc EXCEPT ![p] = v]
  BY <1>3
<1>6. /\ v \in Proc /\ v.state = "RUNNABLE" /\ v.pid = proc[p].pid
      /\ v.parent = proc[p].parent /\ v.pgdir = d
  <2>1. proc[p] \in Proc /\ d \in 0 .. NSPACES /\ 1 \in Nat
    BY <1>2, <1>4, Types DEF Spaces
  <2> QED BY <1>2, <2>1 DEF Proc, Runner
<1> HIDE DEF v
<1>7. proc' \in [Slots -> Proc] /\ proc'[p] = v /\ \A r \in Slots \ {p} : proc'[r] = proc[r]
  BY <1>2, <1>5, <1>6, Types
<1>8. TypeOK'
  <2>1. mem' \in [Spaces -> Mem]
    BY <1>2, <1>3, ImageIs, MemIs
  <2>2. spaces' \subseteq Spaces /\ twice' \in BOOLEAN
    BY <1>2, <1>3, <1>4 DEF TypeOK
  <2> QED BY <1>2, <1>3, <1>7, <2>1, <2>2 DEF TypeOK, Proc, Mem
<1> QED BY <1>1, <1>2, <1>3, <1>4, <1>6, <1>7, <1>8 DEF Execs, SameSlots

Idle == UNCHANGED <<proc, nextpid, ctx, spaces, twice>>

LEMMA StepKinds ==
  ASSUME Base, [Next]_vars
  PROVE  TypeOK' /\ UNCHANGED keeps /\ (Idle \/ \E p \in Slots : Steps(p))
<1>1. CASE UNCHANGED vars
  BY <1>1 DEF vars, Base, TypeOK, Idle
<1>2. CASE Next
  <2>1. UNCHANGED keeps
    BY <1>2 DEF Next
  <2>2. PICK p \in Slots : Step(p)
    BY <1>2 DEF Next
  <2>3. CASE Create(p)
    BY <2>1, <2>3, CreateKind DEF Steps
  <2>4. CASE Clone(p)
    BY <2>1, <2>4, CloneKind DEF Steps
  <2>5. CASE CloneShare(p)
    BY <2>1, <2>5, CloneShareKind DEF Steps
  <2>6. CASE CloneSize(p)
    BY <2>1, <2>6, CloneSizeKind DEF Steps
  <2>7. CASE CloneStart(p)
    BY <2>1, <2>7, CloneStartKind DEF Steps
  <2>8. CASE FindEntry(p)
    BY <2>1, <2>8, FindEntryKind DEF Steps
  <2>9. CASE PutAddress(p)
    BY <2>1, <2>9, PutAddressKind DEF Steps
  <2>10. CASE PutPid(p)
    BY <2>1, <2>10, PutPidKind DEF Steps
  <2>11. CASE Fork(p)
    BY <2>1, <2>11, ForkKind DEF Steps
  <2>12. CASE ForkCopy(p)
    BY <2>1, <2>12, ForkCopyKind DEF Steps, Idle
  <2>13. CASE ForkStart(p)
    BY <2>1, <2>13, ForkStartKind DEF Steps
  <2>14. CASE Exit(p)
    BY <2>1, <2>14, ExitKind DEF Steps
  <2>15. CASE Wait(p)
    BY <2>1, <2>15, WaitKind DEF Steps
  <2>16. CASE Join(p)
    BY <2>1, <2>16, JoinKind DEF Steps
  <2>17. CASE FreeStack(p)
    BY <2>1, <2>17, FreeStackKind DEF Steps
  <2>18. CASE Exec(p)
    BY <2>1, <2>18, ExecKind DEF Steps
  <2>19. CASE Grow(p)
    BY <2>1, <2>19, GrowKind DEF Steps
  <2>20. CASE GrowPage(p)
    BY <2>1, <2>20, GrowPageKind DEF Steps, Idle
  <2>21. CASE GrowStore(p)
    BY <2>1, <2>21, GrowStoreKind DEF Steps
  <2> QED BY <2>2, <2>3, <2>4, <2>5, <2>6, <2>7, <2>8, <2>9, <2>10, <2>11, <2>12, <2>13,
             <2>14, <2>15, <2>16, <2>17, <2>18, <2>19, <2>20, <2>21 DEF Step
<1> QED BY <1>1, <1>2

-----------------------------------------------------------------------------
(* Each kind keeps the locals, the new slots and the page directories      *)

\* No slot but that of the step changes its place, or falls asleep.
CtxKept(p) ==
  /\ Others(p) /\ CtxOf(p)'
  /\ \A q \in Slots \ {p} :
       /\ proc'[q].state \in {"UNUSED", "EMBRYO", "ZOMBIE"}
            => proc[q].state \in {"UNUSED", "EMBRYO", "ZOMBIE"}
       /\ proc'[q].state = "SLEEPING" => proc[q].state = "SLEEPING"

LEMMA CtxKeeps ==
  ASSUME CtxInv, NEW p \in Slots, CtxKept(p)
  PROVE  CtxInv'
BY DEF CtxInv, CtxKept, CtxOf, Others

LEMMA QuietKeeps ==
  ASSUME Base, NEW p \in Slots, Quiet(p)
  PROVE  CtxInv' /\ KidInv' /\ Placed'
<1>1. CtxInv'
  BY CtxKeeps DEF Base, Quiet, CtxKept, SameStates
<1>2. Busy' = Busy /\ \A q \in Busy : q \in Slots /\ q # p /\ ctx'[q] = ctx[q]
  BY DEF Quiet, Busy, Others
<1>3. KidInv'
  BY <1>2 DEF Base, KidInv, Quiet, SameStates
<1>4. Placed'
  BY <1>2 DEF Base, Placed, KidInv, Quiet, SameStates, SameFamily, Alive, Space
<1> QED BY <1>1, <1>3, <1>4

LEMMA SleepsKeeps ==
  ASSUME Base, NEW p \in Slots, Sleeps(p)
  PROVE  CtxInv' /\ KidInv' /\ Placed'
<1>1. CtxInv'
  BY CtxKeeps DEF Base, Sleeps, CtxKept, SameStates
<1>2. Busy' = Busy /\ \A q \in Busy : q \in Slots /\ q # p /\ ctx'[q] = ctx[q]
  BY DEF Sleeps, Busy, Others
<1>3. KidInv'
  <2>1. \A q \in Busy : ctx[q].x # p
    BY DEF Base, KidInv, Sleeps, Runner
  <2> QED BY <1>2, <2>1 DEF Base, KidInv, Sleeps, SameStates
<1>4. Placed'
  BY <1>2 DEF Base, Placed, KidInv, Sleeps, SameStates, SameFamily, Alive, Space, Runner
<1> QED BY <1>1, <1>3, <1>4

LEMMA AllocatesKeeps ==
  ASSUME Base, NEW p \in Slots, NEW q \in Slots, Allocates(p, q)
  PROVE  CtxInv' /\ KidInv' /\ Placed'
<1>1. CtxInv'
  BY CtxKeeps DEF Base, Allocates, CtxKept, SameSlots
<1>2. p # q /\ \A r \in Busy : r # p /\ ctx'[r] = ctx[r] /\ ctx[r].x # q
  BY DEF Allocates, Busy, Base, KidInv, Runner, Others
<1>3. Busy' = Busy \cup {p}
  <2>1. p \in Busy'
    BY DEF Busy, Allocates
  <2>2. \A r \in Slots \ {p} : r \in Busy' <=> r \in Busy
    BY DEF Busy, Allocates, Others
  <2> QED BY <2>1, <2>2 DEF Busy
<1>4. KidInv'
  BY <1>2, <1>3 DEF Base, KidInv, Allocates, SameSlots
<1>5. Placed'
  <2>1. \A r \in Slots : Alive(r)' => r # q /\ Alive(r)
    BY DEF Alive, Allocates, SameSlots
  <2>2. \A r \in Slots \ {q} : Space(r)' = Space(r)
    BY DEF Allocates, SameSlots, Space
  <2>3. ctx'[p].at \notin {"size", "start", "child"}
    BY DEF Allocates
  <2>4. \A r \in Busy : ctx[r].x \in Slots \ {q}
    BY <1>2 DEF Base, KidInv
  <2> QED BY <1>2, <1>3, <2>1, <2>2, <2>3, <2>4 DEF Base, Placed, Space
<1> QED BY <1>1, <1>4, <1>5

LEMMA FillsKeeps ==
  ASSUME Base, NEW p \in Slots, Shares(p) \/ Sizes(p) \/ Copies(p)
  PROVE  CtxInv' /\ KidInv' /\ Placed'
<1> DEFINE k == ctx[p].x
<1>1. /\ Fills(p) /\ p \in Busy /\ k \in Slots /\ k # p /\ proc[k].state = "EMBRYO"
      /\ proc'[k].state = "EMBRYO" /\ ctx'[p].x = k /\ Others(p)
      /\ \A r \in Slots \ {k} : proc'[r] = proc[r]
      /\ ctx'[p].at \in {"size", "start", "child"}
  BY DEF Shares, Sizes, Copies, Fills, Base, KidInv, Runner, SameSlots
<1>2. CtxInv'
  BY <1>1, CtxKeeps DEF Base, CtxKept, Fills
<1>3. Busy' = Busy /\ \A r \in Slots : ctx'[r].x = ctx[r].x
  BY <1>1 DEF Busy, Others
<1>4. KidInv'
  <2>1. \A r \in Busy : ctx'[r].x = ctx[r].x /\ ctx[r].x \in Slots /\ proc[ctx[r].x].state = "EMBRYO"
    BY <1>3 DEF Busy, Base, KidInv
  <2>2. \A r \in Slots : proc[r].state = "EMBRYO" => proc'[r].state = "EMBRYO"
    BY <1>1
  <2>3. \A r, s \in Busy : ctx[r].x = ctx[s].x => r = s
    BY DEF Base, KidInv
  <2> QED BY <1>3, <2>1, <2>2, <2>3 DEF KidInv
<1>5. \A r \in Busy : r # p => ctx[r].x \in Slots \ {k} /\ ctx'[r] = ctx[r]
  BY <1>1 DEF Base, KidInv, Busy, Others
<1>6. Space(k)' \in Spaces
  <2>1. CASE Shares(p)
    BY <1>1, <2>1 DEF Shares, Base, Placed, Alive, Fills, Runner, Space
  <2>2. CASE Sizes(p)
    BY <1>1, <2>2 DEF Sizes, Base, Placed, Space
  <2>3. CASE Copies(p)
    BY <1>1, <2>3 DEF Copies, Space
  <2> QED BY <2>1, <2>2, <2>3
<1>7. Placed'
  <2>1. \A r \in Slots : Alive(r)' => Alive(r) /\ r # k
    BY <1>1 DEF Alive
  <2>2. \A r \in Slots \ {k} : Space(r)' = Space(r)
    BY <1>1 DEF Space
  <2>3. \A r \in Slots : Alive(r)' => Space(r)' \in Spaces
    BY <2>1, <2>2 DEF Base, Placed
  <2>4. \A r \in Busy : r # p /\ ctx'[r].at \in {"size", "start", "child"}
                          => proc'[ctx'[r].x].pgdir \in Spaces
    BY <1>5, <2>2 DEF Base, Placed, Space
  <2>5. proc'[ctx'[p].x].pgdir \in Spaces
    BY <1>1, <1>6 DEF Space
  <2> QED BY <1>3, <2>3, <2>4, <2>5 DEF Placed, Space
<1> QED BY <1>2, <1>4, <1>7

LEMMA FinishesKeeps ==
  ASSUME Base, NEW p \in Slots, Starts(p) \/ GivesUp(p)
  PROVE  CtxInv' /\ KidInv' /\ Placed'
<1> DEFINE k == ctx[p].x
<1>1. /\ p \in Busy /\ k \in Slots /\ k # p /\ proc[k].state = "EMBRYO" /\ Others(p)
      /\ CtxOf(p)' /\ p \notin Busy'
      /\ proc'[k].state \in {"RUNNABLE", "UNUSED"}
      /\ proc'[k].state = "RUNNABLE" => ctx[p].at \in {"start", "child"}
      /\ \A r \in Slots \ {k} : proc'[r] = proc[r]
      /\ \A r \in Slots : proc'[r].pgdir = proc[r].pgdir
  BY DEF Starts, GivesUp, Finishes, Base, KidInv, Runner, SameSlots, SameFamily
<1>2. CtxInv'
  BY <1>1, CtxKeeps DEF Base, CtxKept
<1>3. Busy' = Busy \ {p} /\ \A r \in Busy \ {p} : ctx'[r] = ctx[r] /\ ctx[r].x \in Slots \ {k}
  BY <1>1 DEF Busy, Others, Base, KidInv
<1>4. KidInv'
  BY <1>1, <1>3 DEF Base, KidInv
<1>5. Placed'
  <2>1. \A r \in Slots : Alive(r)' => Space(r) \in Spaces
    BY <1>1 DEF Alive, Base, Placed
  <2> QED BY <1>1, <1>3, <2>1 DEF Base, Placed, Space
<1> QED BY <1>2, <1>4, <1>5

LEMMA ReapsKeeps ==
  ASSUME Base, NEW p \in Slots, NEW q \in Slots, Reaps(p, q)
  PROVE  CtxInv' /\ KidInv' /\ Placed'
<1>1. /\ p \notin Busy /\ p \notin Busy' /\ Others(p) /\ CtxOf(p)' /\ p # q
      /\ proc[q].state = "ZOMBIE" /\ proc'[q].state = "UNUSED"
      /\ \A r \in Slots \ {q} : proc'[r] = proc[r]
  BY DEF Reaps, Runner, SameSlots
<1>2. CtxInv'
  BY <1>1, CtxKeeps DEF Base, CtxKept
<1>3. Busy' = Busy /\ \A r \in Busy : ctx'[r] = ctx[r] /\ ctx[r].x \in Slots \ {q}
  BY <1>1 DEF Busy, Others, Base, KidInv
<1>4. KidInv'
  BY <1>1, <1>3 DEF Base, KidInv
<1>5. Placed'
  BY <1>1, <1>3 DEF Base, Placed, Alive, Space
<1> QED BY <1>2, <1>4, <1>5

LEMMA ExitsKeeps ==
  ASSUME Base, NEW p \in Slots, Exits(p)
  PROVE  CtxInv' /\ KidInv' /\ Placed'
<1>1. ctx' = ctx /\ Busy' = Busy /\ ctx[p].at = "user" /\ p # initproc
  BY DEF Exits, Busy
<1>2. CtxInv'
  <2>1. CtxOf(p)'
    BY <1>1 DEF CtxOf, Exits
  <2> QED BY <1>1, <2>1, CtxKeeps DEF Base, CtxKept, Others, Exits
<1>3. KidInv'
  <2>1. \A r \in Busy : ctx[r].x # p /\ ctx[r].x \in Slots /\ proc[ctx[r].x].state = "EMBRYO"
    BY DEF Base, KidInv, Exits, Runner
  <2>2. \A r \in Slots \ {p} : proc[r].state = "EMBRYO" => proc'[r].state = "EMBRYO"
    BY DEF Exits
  <2> QED BY <1>1, <2>1, <2>2 DEF Base, KidInv
<1>4. Placed'
  BY <1>1 DEF Base, Placed, Alive, Space, Exits, Runner, KidInv
<1> QED BY <1>2, <1>3, <1>4

LEMMA ExecsKeeps ==
  ASSUME Base, NEW p \in Slots, Execs(p)
  PROVE  CtxInv' /\ KidInv' /\ Placed'
<1>1. ctx' = ctx /\ Busy' = Busy /\ ctx[p].at = "user" /\ p # initproc
  BY DEF Execs, Busy
<1>2. CtxInv'
  <2>1. CtxOf(p)'
    BY <1>1 DEF CtxOf, Execs
  <2> QED BY <1>1, <2>1, CtxKeeps DEF Base, CtxKept, Others, Execs, SameSlots
<1>3. \A r \in Busy : ctx[r].x \in Slots \ {p}
  BY DEF Base, KidInv, Execs, Runner
<1>4. KidInv'
  BY <1>1, <1>3 DEF Base, KidInv, Execs, SameSlots
<1>5. Placed'
  BY <1>1, <1>3 DEF Base, Placed, Alive, Space, Execs, SameSlots
<1> QED BY <1>2, <1>4, <1>5

LEMMA BaseStep == ASSUME Base, [Next]_vars PROVE Base'
<1>1. TypeOK' /\ (Idle \/ \E p \in Slots : Steps(p))
  BY StepKinds
<1>2. CASE Idle
  BY <1>1, <1>2 DEF Idle, Base, CtxInv, CtxOf, KidInv, Placed, Busy, Alive, Space
<1>3. CASE \E p \in Slots : Steps(p)
  <2>1. PICK p \in Slots : Steps(p)
    BY <1>3
  <2>2. CtxInv' /\ KidInv' /\ Placed'
    BY <2>1, QuietKeeps, SleepsKeeps, AllocatesKeeps, FillsKeeps, FinishesKeeps,
       ReapsKeeps, ExitsKeeps, ExecsKeeps DEF Steps
  <2> QED BY <1>1, <2>2 DEF Base
<1> QED BY <1>1, <1>2, <1>3

-----------------------------------------------------------------------------
(* No exit is lost on a parent                                             *)

\* q is a zombie that p would find in the call it sleeps in.
Misses(p, q) ==
  /\ proc[p].state = "SLEEPING" /\ proc[q].state = "ZOMBIE" /\ proc[q].parent = p
  /\ Together(p, q) <=> ctx[p].at = "join"
Missed == \A p, q \in Slots : ~Misses(p, q)

LEMMA MissedIs == Base => (SleeperHasNoZombie <=> Missed)
<1> SUFFICES ASSUME Base PROVE SleeperHasNoZombie <=> Missed
  OBVIOUS
<1>1. ASSUME NEW p \in Slots, proc[p].state = "SLEEPING"
      PROVE  Zombies(IF ctx[p].at = "join" THEN Threads(p) ELSE Children(p)) = {}
               <=> \A q \in Slots : ~Misses(p, q)
  <2>1. CASE ctx[p].at = "join"
    BY <1>1, <2>1 DEF Zombies, Threads, Misses
  <2>2. CASE ctx[p].at # "join"
    BY <1>1, <2>2 DEF Zombies, Children, Misses
  <2> QED BY <2>1, <2>2
<1>2. \A p \in Slots : proc[p].state # "SLEEPING" => \A q \in Slots : ~Misses(p, q)
  BY DEF Misses
<1> QED BY <1>1, <1>2 DEF SleeperHasNoZombie, Missed

\* No process falls asleep, changes its call asleep, or becomes a zombie.
Calm ==
  \A q \in Slots :
    /\ proc'[q].state = "SLEEPING" =>
         proc[q].state = "SLEEPING" /\ ctx'[q].at = ctx[q].at /\ Space(q)' = Space(q)
    /\ proc'[q].state = "ZOMBIE" =>
         /\ proc[q].state = "ZOMBIE" /\ proc'[q].parent = proc[q].parent
         /\ Space(q)' = Space(q)

LEMMA CalmKeeps == ASSUME Missed, Calm PROVE Missed'
BY DEF Missed, Misses, Calm, Together

LEMMA SleeperStep == ASSUME IInv, [Next]_vars PROVE SleeperHasNoZombie'
<1>1. Base /\ Base' /\ Missed
  BY BaseStep, MissedIs DEF IInv
<1>2. Idle \/ \E p \in Slots : Steps(p)
  BY <1>1, StepKinds
<1>3. CASE Idle
  <2>1. Missed'
    BY <1>1, <1>3 DEF Idle, Missed, Misses, Together, Space
  <2> QED BY <1>1, <2>1, MissedIs, PTL
<1>4. CASE \E p \in Slots : Steps(p)
  <2> SUFFICES Missed'
    BY <1>1, MissedIs, PTL
  <2>1. PICK p \in Slots : Steps(p)
    BY <1>4
  <2>2. CASE Quiet(p)
    <3>1. Calm
      BY <2>2 DEF Quiet, Calm, SameStates, SameFamily, Others, Runner, Space
    <3> QED BY <1>1, <3>1, CalmKeeps
  <2>3. CASE Sleeps(p)
    <3>1. \A q \in Slots : ~Misses(p, q)'
      <4>1. \A q \in Slots : proc'[q].parent = proc[q].parent /\ Space(q)' = Space(q)
                               /\ (proc'[q].state = "ZOMBIE" => proc[q].state = "ZOMBIE")
        BY <2>3 DEF Sleeps, SameFamily, SameStates, Space
      <4>2. CASE ctx'[p].at = "join"
        <5>1. \A q \in Slots : ~(proc[q].state = "ZOMBIE" /\ proc[q].parent = p /\ q # p /\ Together(p, q))
          BY <2>3, <4>2 DEF Sleeps, Zombies, Threads
        <5> QED BY <2>3, <4>1, <4>2, <5>1 DEF Misses, Together, Sleeps
      <4>3. CASE ctx'[p].at # "join"
        <5>1. \A q \in Slots : ~(proc[q].state = "ZOMBIE" /\ proc[q].parent = p /\ ~Together(p, q))
          BY <2>3, <4>3 DEF Sleeps, Zombies, Children
        <5> QED BY <2>3, <4>1, <4>3, <5>1 DEF Misses, Together
      <4> QED BY <4>2, <4>3
    <3>2. \A r \in Slots \ {p} : \A q \in Slots : ~Misses(r, q)'
      BY <1>1, <2>3 DEF Missed, Misses, Sleeps, SameStates, SameFamily, Others, Together, Space
    <3> QED BY <3>1, <3>2 DEF Missed
  <2>4. CASE Shares(p) \/ Sizes(p) \/ Copies(p)
    <3> DEFINE k == ctx[p].x
    <3>1. /\ k \in Slots /\ proc'[k].state = "EMBRYO" /\ proc[p].state = "RUNNABLE" /\ k # p
          /\ \A r \in Slots \ {k} : proc'[r] = proc[r]
          /\ \A r \in Slots \ {p} : ctx'[r] = ctx[r]
      BY <1>1, <2>4 DEF Shares, Sizes, Copies, Fills, SameSlots, Others, Runner, Base, KidInv
    <3>2. Calm
      BY <3>1 DEF Calm, Space
    <3> QED BY <1>1, <3>2, CalmKeeps
  <2>5. CASE Starts(p) \/ GivesUp(p)
    <3> DEFINE k == ctx[p].x
    <3>1. /\ k \in Slots /\ proc'[k].state \in {"RUNNABLE", "UNUSED"}
          /\ proc[p].state = "RUNNABLE" /\ proc[k].state = "EMBRYO"
          /\ \A r \in Slots \ {k} : proc'[r] = proc[r]
          /\ \A r \in Slots \ {p} : ctx'[r] = ctx[r]
      BY <1>1, <2>5 DEF Starts, GivesUp, Finishes, SameSlots, Others, Runner, Base, KidInv
    <3>2. Calm
      BY <3>1 DEF Calm, Space
    <3> QED BY <1>1, <3>2, CalmKeeps
  <2>6. ASSUME NEW q \in Slots, Allocates(p, q) PROVE Missed'
    <3>1. Calm
      BY <2>6 DEF Calm, Allocates, SameSlots, Others, Runner, Space
    <3> QED BY <1>1, <3>1, CalmKeeps
  <2>7. ASSUME NEW q \in Slots, Reaps(p, q) PROVE Missed'
    <3>1. Calm
      BY <2>7 DEF Calm, Reaps, SameSlots, Others, Runner, Space
    <3> QED BY <1>1, <3>1, CalmKeeps
  <2>8. CASE Exits(p)
    <3> SUFFICES ASSUME NEW s \in Slots, NEW q \in Slots, Misses(s, q)' PROVE FALSE
      BY DEF Missed
    <3>1. /\ proc'[s].state = "SLEEPING" /\ proc'[q].state = "ZOMBIE" /\ proc'[q].parent = s
          /\ Together(s, q)' <=> ctx'[s].at = "join"
      BY DEF Misses
    <3>2. s # p /\ s \notin Woken(p) /\ proc[s].state = "SLEEPING"
      BY <2>8, <3>1 DEF Exits
    <3>3. (Together(s, q)' <=> Together(s, q)) /\ ctx' = ctx
      BY <2>8 DEF Exits, Together, Space
    <3>4. CASE q = p
      BY <2>8, <3>1, <3>2, <3>4 DEF Exits, Woken
    <3>5. CASE q # p /\ proc[q].parent = p
      <4>1. s = initproc /\ proc[q].state = "ZOMBIE"
        BY <2>8, <3>1, <3>5 DEF Exits
      <4>2. q \in Zombies({r \in Slots : proc[r].parent = p})
        BY <3>5, <4>1 DEF Zombies
      <4> QED BY <3>2, <4>1, <4>2 DEF Woken
    <3>6. CASE q # p /\ proc[q].parent # p
      <4>1. proc[q].state = "ZOMBIE" /\ proc[q].parent = s
        BY <2>8, <3>1, <3>6 DEF Exits
      <4> QED BY <1>1, <3>1, <3>2, <3>3, <4>1 DEF Missed, Misses
    <3> QED BY <3>4, <3>5, <3>6
  <2>9. CASE Execs(p)
    <3>1. Calm
      BY <2>9 DEF Calm, Execs, SameSlots, Runner, Space
    <3> QED BY <1>1, <3>1, CalmKeeps
  <2> QED BY <2>1, <2>2, <2>3, <2>4, <2>5, <2>6, <2>7, <2>8, <2>9 DEF Steps
<1> QED BY <1>2, <1>3, <1>4

LEMMA InitIInv == Init => IInv
<1> SUFFICES ASSUME Init PROVE IInv
  OBVIOUS
<1>1. NPROC \in Nat /\ NPROC >= 2 /\ NSPACES \in Nat /\ NSPACES >= 2
  BY ThreadsAssumption
<1>2. \A p \in Slots :
        /\ p > 2 => proc[p] = Unused
        /\ p <= 2 => /\ proc[p].state = "RUNNABLE" /\ proc[p].pid = p /\ proc[p].parent = p - 1
                     /\ proc[p].pgdir = p /\ proc[p].sz = 1 /\ proc[p].stack = 0
        /\ proc[p] \in Proc
  <2> SUFFICES ASSUME NEW p \in Slots
               PROVE  /\ p > 2 => proc[p] = Unused
                      /\ p <= 2 => /\ proc[p].state = "RUNNABLE" /\ proc[p].pid = p
                                   /\ proc[p].parent = p - 1
                                   /\ proc[p].pgdir = p /\ proc[p].sz = 1 /\ proc[p].stack = 0
                      /\ proc[p] \in Proc
    OBVIOUS
  <2>1. proc[p] = IF p > 2 THEN Unused
                  ELSE [Unused EXCEPT !.state = "RUNNABLE", !.pid = p, !.parent = p - 1,
                                      !.pgdir = p, !.sz = 1]
    BY DEF Init
  <2>2. p \in Nat /\ p >= 1 /\ p <= NPROC
    BY <1>1 DEF Slots
  <2>3. CASE p > 2
    BY <1>1, <2>1, <2>2, <2>3 DEF Unused, Proc, States
  <2>4. CASE p <= 2
    <3>1. ~(p > 2)
      BY <2>2, <2>4
    <3>2. proc[p] = [state |-> "RUNNABLE", pid |-> p, parent |-> p - 1, pgdir |-> p,
                     sz |-> 1, stack |-> 0]
      BY <2>1, <3>1 DEF Unused
    <3>3. p - 1 \in 0 .. NPROC /\ p \in 0 .. NSPACES
      BY <1>1, <2>2, <2>4
    <3> QED BY <2>2, <2>4, <3>1, <3>2, <3>3 DEF Proc, States
  <2> QED BY <2>2, <2>3, <2>4
<1>3. TypeOK
  <2>1. proc \in [Slots -> Proc]
    BY <1>2 DEF Init
  <2>2. ctx \in [Slots -> Ctx]
    <3>1. User \in Ctx
      BY DEF User, Ctx, Places
    <3> QED BY <3>1 DEF Init
  <2>3. mem \in [Spaces -> Mem]
    BY ImageIs DEF Init
  <2>4. spaces \subseteq Spaces
    <3>1. 1 \in Spaces /\ 2 \in Spaces
      BY <1>1 DEF Spaces
    <3> QED BY <3>1 DEF Init
  <2> QED BY <2>1, <2>2, <2>3, <2>4 DEF Init, TypeOK, Proc, Ctx, Mem
<1>4. Busy = {} /\ \A p \in Slots : ctx[p].at = "user"
  BY DEF Init, User, Busy
<1>5. \A p \in Slots : proc[p].state \in {"UNUSED", "RUNNABLE"}
                         /\ (proc[p].state = "RUNNABLE" => p <= 2)
  BY <1>1, <1>2 DEF Unused, Slots
<1>6. Placed
  BY <1>1, <1>2, <1>4, <1>5 DEF Placed, Alive, Space, Spaces, Slots
<1>7. CtxInv /\ KidInv
  BY <1>4, <1>5 DEF CtxInv, CtxOf, KidInv, Busy
<1>8. SleeperHasNoZombie
  BY <1>5 DEF SleeperHasNoZombie
<1> QED BY <1>3, <1>6, <1>7, <1>8 DEF IInv, Base

\* The types, the locals of every call, the slots that clone and fork fill in,
\* and the absence of a lost exit, in every reachable state.
THEOREM Invariance == Spec => []IInv
<1>1. IInv /\ [Next]_vars => IInv'
  BY BaseStep, SleeperStep DEF IInv
<1> QED BY InitIInv, <1>1, PTL DEF Spec

\* No exit is lost on a parent that sleeps in join or in wait, also when
\* threads exit whose zombies are passed on to init (exit, join, wait).
THEOREM NoLostExit == Spec => []SleeperHasNoZombie
<1>1. IInv => SleeperHasNoZombie
  BY DEF IInv
<1> QED BY Invariance, <1>1, PTL

-----------------------------------------------------------------------------
(* The processes of one space                                              *)

Awake(p) == proc[p].state \in {"RUNNABLE", "SLEEPING"}
Parent(q) == proc[q].parent
Pid(q) == proc[q].pid

\* clone and fork give the new slot a greater pid, then its space and parent.
Follows(p) ==
  /\ Pid(p) < Pid(ctx[p].x)
  /\ ctx[p].at \in {"size", "start"} => Space(ctx[p].x) = Space(p)
  /\ ctx[p].at \in {"start", "child"} => Parent(ctx[p].x) = p
KidsFollow == \A p \in Busy : Follows(p)

\* init and every parent run or sleep; a thread is younger than its parent.
Guarded ==
  /\ Awake(initproc)
  /\ \A q \in Slots \ {initproc} : Alive(q) =>
       /\ Parent(q) \in Slots /\ Awake(Parent(q)) /\ ~Together(q, initproc)
       /\ Together(q, Parent(q)) => Pid(Parent(q)) < Pid(q)

\* Of the processes in a space, all but one were made by another of them.
OneRoot ==
  \A q, r \in Slots \ {initproc} : q # r /\ Alive(q) /\ Alive(r) /\ Together(q, r)
    => Together(q, Parent(q)) \/ Together(r, Parent(r))

PidsBelow == \A q \in Slots : Pid(q) < nextpid

\* fork has copied the space of its child and has not let the child run.
Forking == {p \in Busy : ctx[p].at = "child"}
SpaceInv ==
  /\ ~twice
  /\ \A q \in Slots : Alive(q) => Space(q) \in spaces
  /\ \A p \in Forking :
       /\ Space(ctx[p].x) \in spaces
       /\ \A q \in Slots : Alive(q) => ~Together(q, ctx[p].x)
       /\ \A r \in Forking : r # p => ~Together(ctx[r].x, ctx[p].x)
  /\ \A d \in spaces : \/ \E q \in Slots : Alive(q) /\ Space(q) = d
                       \/ \E p \in Forking : Space(ctx[p].x) = d

Family == PidsBelow /\ KidsFollow /\ Guarded /\ OneRoot
Whole == Base /\ Family /\ SpaceInv

LEMMA BusyIs ==
  ASSUME Base, NEW p \in Busy
  PROVE  p \in Slots /\ proc[p].state = "RUNNABLE" /\ p # initproc
         /\ ctx[p].x \in Slots /\ proc[ctx[p].x].state = "EMBRYO" /\ ctx[p].x # p
<1>1. p \in Slots /\ CtxOf(p)
  BY DEF Busy, Base, CtxInv
<1>2. proc[p].state = "RUNNABLE" /\ p # initproc
  BY <1>1, Types DEF Busy, CtxOf, Base, States
<1>3. ctx[p].x \in Slots /\ proc[ctx[p].x].state = "EMBRYO"
  BY DEF Base, KidInv
<1> QED BY <1>1, <1>2, <1>3

\* No living slot is new or moved, and who is awake stays so.
Shrinks ==
  \A q \in Slots :
    /\ Alive(q)' => Alive(q)
    /\ Awake(q) => Awake(q)'
    /\ Alive(q)' => Pid(q)' = Pid(q) /\ Parent(q)' = Parent(q) /\ Space(q)' = Space(q)

LEMMA ShrinkKeeps == ASSUME Guarded, OneRoot, Shrinks PROVE Guarded' /\ OneRoot'
<1>1. \A q \in Slots : Awake(q) =>
        /\ Awake(q)' /\ Alive(q)' /\ Pid(q)' = Pid(q) /\ Parent(q)' = Parent(q)
        /\ Space(q)' = Space(q)
  BY DEF Shrinks, Awake, Alive
<1>2. Awake(initproc)' /\ Space(initproc)' = Space(initproc)
  BY <1>1, Inits DEF Guarded
<1>3. ASSUME NEW q \in Slots \ {initproc}, Alive(q)'
      PROVE  /\ Alive(q) /\ Parent(q)' = Parent(q) /\ Parent(q) \in Slots /\ Awake(Parent(q))'
             /\ Pid(q)' = Pid(q) /\ Pid(Parent(q))' = Pid(Parent(q))
             /\ Space(q)' = Space(q) /\ Space(Parent(q))' = Space(Parent(q))
  <2>1. Alive(q) /\ Parent(q)' = Parent(q) /\ Pid(q)' = Pid(q) /\ Space(q)' = Space(q)
    BY <1>3 DEF Shrinks
  <2>2. Parent(q) \in Slots /\ Awake(Parent(q))
    BY <2>1 DEF Guarded
  <2> QED BY <1>1, <2>1, <2>2 DEF Awake, Pid, Space
<1>4. Guarded'
  BY <1>2, <1>3 DEF Guarded, Together, Awake, Pid, Space
<1>5. OneRoot'
  BY <1>3 DEF OneRoot, Together, Space
<1> QED BY <1>4, <1>5

\* The parts that a step leaves alone.
LEMMA FollowsKept ==
  ASSUME NEW r \in Busy, Follows(r), ctx'[r] = ctx[r],
         Pid(r)' = Pid(r), Space(r)' = Space(r),
         proc'[ctx[r].x].pid = proc[ctx[r].x].pid,
         proc'[ctx[r].x].parent = proc[ctx[r].x].parent,
         proc'[ctx[r].x].pgdir = proc[ctx[r].x].pgdir
  PROVE  Follows(r)'
BY DEF Follows, Pid, Space, Parent

SpacesStay ==
  /\ \A q \in Slots : (Alive(q)' <=> Alive(q)) /\ (Alive(q) => Space(q)' = Space(q))
  /\ Forking' = Forking
  /\ \A p \in Forking : ctx'[p].x = ctx[p].x /\ proc'[ctx[p].x].pgdir = proc[ctx[p].x].pgdir
  /\ UNCHANGED <<spaces, twice>>

LEMMA SpaceKeeps ==
  ASSUME SpaceInv, SpacesStay
  PROVE  SpaceInv'
<1>1. \A p \in Forking : ctx'[p].x = ctx[p].x /\ Space(ctx[p].x)' = Space(ctx[p].x)
  BY DEF SpacesStay, Space
<1>2. ~twice'
  BY DEF SpaceInv, SpacesStay
<1>3. \A q \in Slots : Alive(q)' => Space(q)' \in spaces'
  BY DEF SpaceInv, SpacesStay
<1>4. ASSUME NEW p \in Forking'
      PROVE  /\ Space(ctx[p].x)' \in spaces'
             /\ \A q \in Slots : Alive(q)' => ~Together(q, ctx[p].x)'
             /\ \A r \in Forking' : r # p => ~Together(ctx[r].x, ctx[p].x)'
  <2>1. p \in Forking /\ Forking' = Forking /\ spaces' = spaces
    BY <1>4 DEF SpacesStay
  <2>2. /\ Space(ctx[p].x) \in spaces
        /\ \A q \in Slots : Alive(q) => Space(q) # Space(ctx[p].x)
        /\ \A r \in Forking : r # p => Space(ctx[r].x) # Space(ctx[p].x)
    BY <2>1 DEF SpaceInv, Together
  <2>3. \A q \in Slots : Alive(q)' => Space(q)' # Space(ctx[p].x)'
    BY <1>1, <2>1, <2>2 DEF SpacesStay
  <2>4. \A r \in Forking : r # p => Space(ctx[r].x)' # Space(ctx[p].x)'
    BY <1>1, <2>1, <2>2
  <2> QED BY <1>1, <2>1, <2>2, <2>3, <2>4 DEF Together
<1>5. ASSUME NEW d \in spaces'
      PROVE  \/ \E q \in Slots : Alive(q)' /\ Space(q)' = d
             \/ \E p \in Forking' : Space(ctx[p].x)' = d
  <2>1. d \in spaces /\ Forking' = Forking
    BY <1>5 DEF SpacesStay
  <2>2. CASE \E q \in Slots : Alive(q) /\ Space(q) = d
    BY <2>2 DEF SpacesStay
  <2>3. CASE \E p \in Forking : Space(ctx[p].x) = d
    BY <1>1, <2>1, <2>3
  <2> QED BY <2>1, <2>2, <2>3 DEF SpaceInv
<1> QED BY <1>2, <1>3, <1>4, <1>5 DEF SpaceInv

LEMMA QuietWhole ==
  ASSUME Whole, NEW p \in Slots, Quiet(p) \/ Sleeps(p)
  PROVE  Family' /\ SpaceInv'
<1>1. /\ Base /\ PidsBelow /\ KidsFollow /\ Guarded /\ OneRoot /\ SpaceInv
      /\ proc[p].state = "RUNNABLE" /\ p \notin Busy /\ p \notin Busy' /\ Others(p)
      /\ proc'[p].state \in {"RUNNABLE", "SLEEPING"}
      /\ \A q \in Slots \ {p} : proc'[q].state = proc[q].state
      /\ \A q \in Slots : /\ proc'[q].pid = proc[q].pid /\ proc'[q].parent = proc[q].parent
                          /\ proc'[q].pgdir = proc[q].pgdir
      /\ UNCHANGED <<nextpid, spaces, twice>>
  BY DEF Whole, Family, Quiet, Sleeps, SameStates, SameFamily, Runner
<1>2. Busy' = Busy /\ Forking' = Forking /\ \A r \in Busy : r \in Slots /\ ctx'[r] = ctx[r]
  BY <1>1 DEF Busy, Forking, Others
<1>3. PidsBelow'
  BY <1>1 DEF PidsBelow, Pid
<1>4. KidsFollow'
  <2> SUFFICES ASSUME NEW r \in Busy PROVE Follows(r)'
    BY <1>2 DEF KidsFollow
  <2>1. ctx[r].x \in Slots /\ r \in Slots
    BY <1>1, BusyIs
  <2> QED BY <1>1, <1>2, <2>1, FollowsKept DEF KidsFollow, Pid, Space
<1>5. Guarded' /\ OneRoot'
  <2>1. Shrinks
    BY <1>1 DEF Shrinks, Alive, Awake, Pid, Parent, Space
  <2> QED BY <1>1, <2>1, ShrinkKeeps
<1>6. SpaceInv'
  <2>1. \A r \in Forking : ctx[r].x \in Slots /\ r \in Busy
    BY <1>1, BusyIs DEF Forking
  <2>2. SpacesStay
    BY <1>1, <1>2, <2>1 DEF SpacesStay, Alive, Space
  <2> QED BY <1>1, <2>2, SpaceKeeps
<1> QED BY <1>3, <1>4, <1>5, <1>6 DEF Family

LEMMA AllocatesWhole ==
  ASSUME Whole, NEW p \in Slots, NEW q \in Slots, Allocates(p, q)
  PROVE  Family' /\ SpaceInv'
<1>1. /\ Base /\ PidsBelow /\ KidsFollow /\ Guarded /\ OneRoot /\ SpaceInv
      /\ proc[p].state = "RUNNABLE" /\ p \notin Busy /\ Others(p)
      /\ proc[q].state = "UNUSED" /\ proc'[q].state = "EMBRYO" /\ proc'[q].pid = nextpid
      /\ \A r \in Slots \ {q} : proc'[r] = proc[r]
      /\ ctx'[p].at \in {"share", "copy"} /\ ctx'[p].x = q
      /\ nextpid' = nextpid + 1 /\ UNCHANGED <<spaces, twice>>
  BY DEF Whole, Family, Allocates, SameSlots, Runner
<1>2. p # q /\ \A r \in Busy : /\ r \in Slots /\ r # q /\ r # p /\ ctx'[r] = ctx[r]
                               /\ ctx[r].x \in Slots /\ ctx[r].x # q
  BY <1>1, BusyIs DEF Others
<1>3. Busy' = Busy \cup {p} /\ Forking' = Forking
  <2>1. p \in Busy' /\ p \notin Forking'
    BY <1>1 DEF Busy, Forking
  <2>2. \A r \in Slots \ {p} : (r \in Busy' <=> r \in Busy) /\ (r \in Forking' <=> r \in Forking)
    BY <1>1 DEF Busy, Forking, Others
  <2>3. p \notin Forking
    BY <1>1 DEF Forking
  <2> QED BY <2>1, <2>2, <2>3 DEF Busy, Forking
<1>4. nextpid \in Nat /\ \A r \in Slots : proc[r].pid \in Nat
  BY <1>1, Types DEF Base
<1>5. PidsBelow'
  BY <1>1, <1>4 DEF PidsBelow, Pid
<1>6. KidsFollow'
  <2>1. ASSUME NEW r \in Busy PROVE Follows(r)'
    BY <1>1, <1>2, <2>1, FollowsKept DEF KidsFollow, Pid, Space
  <2>2. Follows(p)'
    <3>1. Pid(p)' < Pid(q)'
      BY <1>1, <1>2 DEF Pid, PidsBelow
    <3> QED BY <1>1, <3>1 DEF Follows, Pid
  <2> QED BY <1>3, <2>1, <2>2 DEF KidsFollow
<1>7. Guarded' /\ OneRoot'
  <2>1. Shrinks
    BY <1>1 DEF Shrinks, Alive, Awake, Pid, Parent, Space
  <2> QED BY <1>1, <2>1, ShrinkKeeps
<1>8. SpaceInv'
  <2>1. \A r \in Forking : r \in Busy
    BY DEF Forking
  <2>2. SpacesStay
    BY <1>1, <1>2, <1>3, <2>1 DEF SpacesStay, Alive, Space
  <2> QED BY <1>1, <2>2, SpaceKeeps
<1> QED BY <1>5, <1>6, <1>7, <1>8 DEF Family

LEMMA FillsWhole ==
  ASSUME Whole, NEW p \in Slots, Shares(p) \/ Sizes(p) \/ Copies(p)
  PROVE  Family' /\ SpaceInv'
<1> DEFINE k == ctx[p].x
<1>1. /\ Base /\ PidsBelow /\ KidsFollow /\ Guarded /\ OneRoot /\ SpaceInv
      /\ proc[p].state = "RUNNABLE" /\ p \in Busy /\ Others(p) /\ ctx'[p].x = k
      /\ k \in Slots /\ proc[k].state = "EMBRYO" /\ k # p
      /\ proc'[k].state = "EMBRYO" /\ proc'[k].pid = proc[k].pid
      /\ \A r \in Slots \ {k} : proc'[r] = proc[r]
      /\ UNCHANGED <<nextpid, twice>>
      /\ ctx'[p].at \in {"size", "start", "child"}
  <2>1. Fills(p) /\ Base /\ ctx'[p].at \in {"size", "start", "child"}
    BY DEF Shares, Sizes, Copies, Whole
  <2> QED BY <2>1, BusyIs DEF Fills, SameSlots, Whole, Family
<1>2. \A r \in Busy \ {p} : /\ r \in Slots /\ r # k /\ ctx'[r] = ctx[r]
                            /\ ctx[r].x \in Slots /\ ctx[r].x # k
  BY <1>1, BusyIs DEF Others, Base, KidInv
<1>3. Busy' = Busy
  BY <1>1 DEF Busy, Others
<1>4. PidsBelow'
  BY <1>1 DEF PidsBelow, Pid
<1>5. KidsFollow'
  <2>1. ASSUME NEW r \in Busy \ {p} PROVE Follows(r)'
    BY <1>1, <1>2, <2>1, FollowsKept DEF KidsFollow, Pid, Space
  <2>2. Follows(p)'
    <3>1. Follows(p) /\ Pid(p)' = Pid(p) /\ Space(p)' = Space(p) /\ Pid(k)' = Pid(k)
      BY <1>1 DEF KidsFollow, Pid, Space
    <3>2. CASE Shares(p)
      BY <1>1, <3>1, <3>2 DEF Shares, Follows, Pid, Space
    <3>3. CASE Sizes(p)
      BY <1>1, <3>1, <3>3 DEF Sizes, Follows, Pid, Space, Parent
    <3>4. CASE Copies(p)
      BY <1>1, <3>1, <3>4 DEF Copies, Follows, Pid, Space, Parent
    <3> QED BY <3>2, <3>3, <3>4
  <2> QED BY <1>3, <2>1, <2>2 DEF KidsFollow
<1>6. Guarded' /\ OneRoot'
  <2>1. Shrinks
    BY <1>1 DEF Shrinks, Alive, Awake, Pid, Parent, Space
  <2> QED BY <1>1, <2>1, ShrinkKeeps
<1>7. \A q \in Slots : /\ Alive(q)' <=> Alive(q)
                       /\ Alive(q) => Space(q)' = Space(q)
  BY <1>1 DEF Alive, Space
<1>8. CASE Shares(p) \/ Sizes(p)
  <2>1. Forking' = Forking /\ p \notin Forking /\ UNCHANGED spaces
    <3>1. ctx[p].at # "child" /\ ctx'[p].at # "child" /\ UNCHANGED spaces
      BY <1>8 DEF Shares, Sizes
    <3>2. \A r \in Busy \ {p} : r \in Forking' <=> r \in Forking
      BY <1>2, <1>3 DEF Forking
    <3> QED BY <1>3, <3>1, <3>2 DEF Forking
  <2>2. SpacesStay
    BY <1>1, <1>2, <1>7, <2>1 DEF SpacesStay, Forking
  <2>3. SpaceInv'
    BY <1>1, <2>2, SpaceKeeps
  <2> QED BY <1>4, <1>5, <1>6, <2>3 DEF Family
<1>9. CASE Copies(p)
  <2> DEFINE d == Space(k)'
  <2>1. d \notin spaces /\ spaces' = spaces \cup {d}
    BY <1>1, <1>9 DEF Copies, Space
  <2>2. Forking' = Forking \cup {p} /\ p \notin Forking
    <3>1. ctx[p].at # "child" /\ ctx'[p].at = "child"
      BY <1>9 DEF Copies
    <3>2. \A r \in Busy \ {p} : r \in Forking' <=> r \in Forking
      BY <1>2, <1>3 DEF Forking
    <3> QED BY <1>1, <1>3, <3>1, <3>2 DEF Forking
  <2>3. \A r \in Forking : /\ ctx'[r].x = ctx[r].x /\ Space(ctx[r].x)' = Space(ctx[r].x)
                           /\ r \in Busy
    BY <1>1, <1>2, <2>2 DEF Forking, Space
  <2>4. Space(ctx[p].x)' = d
    BY <1>1 DEF Space
  <2> HIDE DEF d, k
  <2>5. \A q \in Slots : Alive(q)' => Space(q)' = Space(q) /\ Space(q) \in spaces
    BY <1>1, <1>7 DEF SpaceInv
  <2>6. ASSUME NEW f \in Forking'
        PROVE  /\ Space(ctx[f].x)' \in spaces'
               /\ \A q \in Slots : Alive(q)' => ~Together(q, ctx[f].x)'
               /\ \A r \in Forking' : r # f => ~Together(ctx[r].x, ctx[f].x)'
    <3>1. \A r \in Forking : /\ Space(ctx[r].x) \in spaces
                             /\ \A q \in Slots : Alive(q) => Space(q) # Space(ctx[r].x)
                             /\ \A s \in Forking : s # r => Space(ctx[s].x) # Space(ctx[r].x)
      BY <1>1 DEF SpaceInv, Together
    <3>2. CASE f = p
      <4>1. \A r \in Forking' : r # f => r \in Forking /\ Space(ctx[r].x)' \in spaces
        BY <2>2, <2>3, <3>1, <3>2
      <4> QED BY <2>1, <2>4, <2>5, <3>2, <4>1 DEF Together
    <3>3. CASE f # p
      <4>1. f \in Forking /\ Space(ctx[f].x)' = Space(ctx[f].x) /\ Space(ctx[f].x) \in spaces
        BY <2>2, <2>3, <3>1, <3>3, <2>6
      <4>2. \A q \in Slots : Alive(q)' => Space(q)' # Space(ctx[f].x)'
        BY <1>7, <2>5, <3>1, <4>1
      <4>3. \A r \in Forking' : r # f => Space(ctx[r].x)' # Space(ctx[f].x)'
        BY <2>1, <2>2, <2>3, <2>4, <3>1, <4>1
      <4> QED BY <2>1, <4>1, <4>2, <4>3 DEF Together
    <3> QED BY <3>2, <3>3
  <2>7. ASSUME NEW e \in spaces'
        PROVE  \/ \E q \in Slots : Alive(q)' /\ Space(q)' = e
               \/ \E f \in Forking' : Space(ctx[f].x)' = e
    <3>1. CASE e = d
      BY <2>2, <2>4, <3>1
    <3>2. CASE e \in spaces
      <4>1. CASE \E q \in Slots : Alive(q) /\ Space(q) = e
        BY <1>7, <4>1
      <4>2. CASE \E f \in Forking : Space(ctx[f].x) = e
        BY <2>2, <2>3, <4>2
      <4> QED BY <1>1, <3>2, <4>1, <4>2 DEF SpaceInv
    <3> QED BY <2>1, <2>7, <3>1, <3>2
  <2>8. ~twice' /\ \A q \in Slots : Alive(q)' => Space(q)' \in spaces'
    BY <1>1, <2>1, <2>5 DEF SpaceInv
  <2>9. SpaceInv'
    BY <2>6, <2>7, <2>8 DEF SpaceInv
  <2> QED BY <1>4, <1>5, <1>6, <2>9 DEF Family
<1> QED BY <1>8, <1>9

LEMMA FinishesWhole ==
  ASSUME Whole, NEW p \in Slots, Starts(p) \/ GivesUp(p)
  PROVE  Family' /\ SpaceInv'
<1>0. PICK k \in Slots : k = ctx[p].x
  BY BusyIs DEF Whole, Starts, GivesUp, Finishes
<1>1. /\ Base /\ PidsBelow /\ KidsFollow /\ Guarded /\ OneRoot /\ SpaceInv
      /\ proc[p].state = "RUNNABLE" /\ p \in Busy /\ p \notin Busy' /\ Others(p)
      /\ k \in Slots /\ proc[k].state = "EMBRYO" /\ k # p /\ p # initproc
      /\ \A r \in Slots \ {k} : proc'[r] = proc[r]
      /\ \A r \in Slots : /\ proc'[r].pid = proc[r].pid /\ proc'[r].parent = proc[r].parent
                          /\ proc'[r].pgdir = proc[r].pgdir
      /\ UNCHANGED <<nextpid, spaces, twice>>
  <2>1. (Finishes(p, "RUNNABLE") \/ Finishes(p, "UNUSED")) /\ Base
    BY DEF Starts, GivesUp, Whole
  <2> QED BY <1>0, <2>1, BusyIs DEF Finishes, SameSlots, SameFamily, Whole, Family
<1>2. \A r \in Busy \ {p} : /\ r \in Slots /\ r # k /\ ctx'[r] = ctx[r]
                            /\ ctx[r].x \in Slots /\ ctx[r].x # k
  BY <1>0, <1>1, BusyIs DEF Others, Base, KidInv
<1>3. Busy' = Busy \ {p} /\ Forking' = Forking \ {p}
  <2>1. Busy' = Busy \ {p}
    BY <1>1 DEF Busy, Others
  <2> QED BY <1>2, <2>1 DEF Forking
<1>4. PidsBelow'
  BY <1>1 DEF PidsBelow, Pid
<1>5. KidsFollow'
  <2>1. ASSUME NEW r \in Busy \ {p} PROVE Follows(r)'
    BY <1>1, <1>2, <2>1, FollowsKept DEF KidsFollow, Pid, Space
  <2> QED BY <1>3, <2>1 DEF KidsFollow
<1>6. CASE GivesUp(p)
  <2>1. proc'[k].state = "UNUSED" /\ ctx[p].at = "copy"
    BY <1>0, <1>6 DEF GivesUp, Finishes
  <2>2. Shrinks
    BY <1>1, <2>1 DEF Shrinks, Alive, Awake, Pid, Parent, Space
  <2>3. Forking' = Forking /\ \A r \in Forking : r \in Busy \ {p}
    BY <1>3, <2>1 DEF Forking
  <2>4. SpacesStay
    BY <1>1, <1>2, <2>1, <2>3 DEF SpacesStay, Alive, Space
  <2> QED BY <1>1, <1>4, <1>5, <2>2, <2>4, ShrinkKeeps, SpaceKeeps DEF Family
<1>7. CASE Starts(p)
  <2>1. proc'[k].state = "RUNNABLE" /\ ctx[p].at \in {"start", "child"}
    BY <1>0, <1>7 DEF Starts, Finishes
  <2>2. Follows(p) /\ Parent(k) = p /\ Pid(p) < Pid(k) /\ Alive(p) /\ Awake(p)
    BY <1>0, <1>1, <2>1 DEF KidsFollow, Follows, Alive, Awake
  <2>3. ctx[p].at = "start" => Space(k) = Space(p)
    BY <1>0, <2>2 DEF Follows
  <2>4. ctx[p].at = "child" => p \in Forking
    BY <1>1 DEF Forking
  <2>5. /\ \A q \in Slots \ {k} : (Alive(q)' <=> Alive(q)) /\ (Awake(q)' <=> Awake(q))
        /\ Alive(k)' /\ Awake(k)' /\ ~Alive(k) /\ ~Awake(k)
        /\ \A q \in Slots : Space(q)' = Space(q) /\ Pid(q)' = Pid(q) /\ Parent(q)' = Parent(q)
    BY <1>1, <2>1 DEF Alive, Awake, Space, Pid, Parent
  <2>6. k # initproc /\ Awake(initproc) /\ Alive(initproc) /\ initproc \in Slots
    BY <2>5, Inits DEF Guarded, Awake, Alive, Whole, Family
  <2>7. Space(k) # Space(initproc) /\ Space(k) \in spaces
    <3>1. CASE ctx[p].at = "start"
      BY <1>1, <2>2, <2>3, <3>1 DEF Guarded, SpaceInv, Together
    <3>2. CASE ctx[p].at = "child"
      BY <1>0, <1>1, <2>4, <2>6, <3>2 DEF SpaceInv, Together
    <3> QED BY <2>1, <3>1, <3>2
  <2>8. \A q \in Slots : Alive(q) /\ Space(q) = Space(k) => ctx[p].at = "start" /\ Space(k) = Space(p)
    BY <1>0, <1>1, <2>1, <2>3, <2>4 DEF SpaceInv, Together
  <2>9. Guarded'
    <3>1. Awake(initproc)'
      BY <2>5, <2>6
    <3>2. ASSUME NEW q \in Slots \ {initproc}, Alive(q)'
          PROVE  /\ Parent(q) \in Slots /\ Awake(Parent(q)) /\ Space(q) # Space(initproc)
                 /\ Space(q) = Space(Parent(q)) => Pid(Parent(q)) < Pid(q)
      <4>1. CASE q = k
        BY <2>2, <2>7, <4>1
      <4>2. CASE q # k
        BY <1>1, <2>5, <3>2, <4>2 DEF Guarded, Together
      <4> QED BY <4>1, <4>2
    <3>3. ASSUME NEW q \in Slots \ {initproc}, Alive(q)'
          PROVE  /\ Parent(q)' \in Slots /\ Awake(Parent(q))' /\ ~Together(q, initproc)'
                 /\ Together(q, Parent(q))' => Pid(Parent(q))' < Pid(q)'
      <4> DEFINE s == Parent(q)
      <4>1. s \in Slots /\ Awake(s) /\ s' = s
        BY <2>5, <3>2, <3>3
      <4>2. Awake(s)'
        BY <2>5, <4>1 DEF Awake
      <4>3. Space(s)' = Space(s) /\ Pid(s)' = Pid(s)
        BY <2>5, <4>1 DEF Space, Pid
      <4> QED BY <2>5, <2>6, <3>2, <3>3, <4>1, <4>2, <4>3 DEF Together
    <3> QED BY <3>1, <3>3 DEF Guarded
  <2>10. OneRoot'
    <3>1. ASSUME NEW q \in Slots \ {initproc}, Alive(q)'
          PROVE  Parent(q)' = Parent(q) /\ Space(Parent(q))' = Space(Parent(q))
      BY <1>1, <2>2, <2>5, <3>1 DEF Space, Guarded
    <3>2. ASSUME NEW q \in Slots \ {initproc}, NEW r \in Slots \ {initproc},
                 q # r, Alive(q)', Alive(r)', Space(q) = Space(r)
          PROVE  Space(q) = Space(Parent(q)) \/ Space(r) = Space(Parent(r))
      BY <1>1, <2>2, <2>5, <2>8, <3>2 DEF OneRoot, Together
    <3> QED BY <2>5, <3>1, <3>2 DEF OneRoot, Together
  <2>11. SpaceInv'
    <3>1. \A q \in Slots : Alive(q)' => Space(q)' \in spaces'
      BY <1>1, <2>5, <2>7 DEF SpaceInv
    <3>2. ASSUME NEW f \in Forking'
          PROVE  /\ f \in Forking \ {p} /\ Space(ctx[f].x)' = Space(ctx[f].x)
                 /\ Space(ctx[f].x) \in spaces /\ Space(k) # Space(ctx[f].x)
      <4>1. f \in Forking \ {p} /\ f \in Busy \ {p}
        BY <1>3, <3>2 DEF Forking
      <4>2. Space(ctx[f].x)' = Space(ctx[f].x)
        BY <1>1, <1>2, <4>1 DEF Space
      <4>3. Space(ctx[f].x) \in spaces
        BY <1>1, <4>1 DEF SpaceInv
      <4>4. Space(k) # Space(ctx[f].x)
        <5>1. CASE ctx[p].at = "start"
          BY <1>1, <2>2, <2>3, <4>1, <5>1 DEF SpaceInv, Together
        <5>2. CASE ctx[p].at = "child"
          BY <1>0, <1>1, <2>4, <4>1, <5>2 DEF SpaceInv, Together
        <5> QED BY <2>1, <5>1, <5>2
      <4> QED BY <4>1, <4>2, <4>3, <4>4
    <3>3. ASSUME NEW f \in Forking'
          PROVE  /\ Space(ctx[f].x)' \in spaces'
                 /\ \A q \in Slots : Alive(q)' => ~Together(q, ctx[f].x)'
                 /\ \A r \in Forking' : r # f => ~Together(ctx[r].x, ctx[f].x)'
      <4>1. \A q \in Slots : Alive(q)' => Space(q)' # Space(ctx[f].x)'
        BY <1>1, <2>5, <3>2 DEF SpaceInv, Together
      <4>2. \A r \in Forking' : r # f => Space(ctx[r].x)' # Space(ctx[f].x)'
        BY <1>1, <3>2 DEF SpaceInv, Together
      <4> QED BY <1>1, <3>2, <4>1, <4>2 DEF Together
    <3>4. ASSUME NEW e \in spaces'
          PROVE  \/ \E q \in Slots : Alive(q)' /\ Space(q)' = e
                 \/ \E f \in Forking' : Space(ctx[f].x)' = e
      <4>1. e \in spaces
        BY <1>1, <3>4
      <4>2. CASE \E q \in Slots : Alive(q) /\ Space(q) = e
        BY <2>5, <4>2
      <4>3. CASE \E f \in Forking : Space(ctx[f].x) = e
        <5>1. PICK f \in Forking : Space(ctx[f].x) = e
          BY <4>3
        <5>2. CASE f = p
          BY <1>0, <1>1, <2>5, <5>1, <5>2
        <5>3. CASE f # p
          BY <1>3, <3>2, <5>1, <5>3
        <5> QED BY <5>2, <5>3
      <4> QED BY <1>1, <4>1, <4>2, <4>3 DEF SpaceInv
    <3> QED BY <1>1, <3>1, <3>3, <3>4 DEF SpaceInv
  <2> QED BY <1>4, <1>5, <2>9, <2>10, <2>11 DEF Family
<1> QED BY <1>6, <1>7

\* A zombie that is not a thread of its parent is the last in its space:
\* the oldest other process there would have a parent that is older still.
LEMMA LastOfSpace ==
  ASSUME Whole, NEW q \in Slots, proc[q].state = "ZOMBIE", ~Together(q, Parent(q))
  PROVE  \A r \in Slots \ {q} : Alive(r) => ~Together(r, q)
<1>1. /\ TypeOK /\ Guarded /\ OneRoot /\ Alive(q) /\ ~Awake(q) /\ q # initproc
  BY DEF Whole, Family, Base, Guarded, Alive, Awake
<1> DEFINE S == {r \in Slots \ {q} : Alive(r) /\ Together(r, q)}
           P == {Pid(r) : r \in S}
<1>2. SUFFICES ASSUME S # {} PROVE FALSE
  OBVIOUS
<1>3. P \in SUBSET Nat /\ P # {}
  BY <1>1, <1>2, Types DEF Pid
<1>4. PICK n \in P : \A x \in P : n <= x
  BY <1>3, Least
<1>5. PICK m \in S : Pid(m) = n
  OBVIOUS
<1>6. m \in Slots /\ m # q /\ Alive(m) /\ Together(m, q)
  OBVIOUS
<1>7. m # initproc
  BY <1>1, <1>6 DEF Guarded, Together
<1>8. Together(m, Parent(m))
  BY <1>1, <1>6, <1>7 DEF OneRoot, Together
<1>9. Parent(m) \in Slots /\ Awake(Parent(m)) /\ Pid(Parent(m)) < Pid(m)
  BY <1>1, <1>6, <1>7, <1>8 DEF Guarded
<1>10. Parent(m) \in S
  BY <1>1, <1>6, <1>8, <1>9 DEF Together, Awake, Alive
<1>11. Pid(m) <= Pid(Parent(m))
  BY <1>4, <1>5, <1>10
<1>12. Pid(m) \in Nat /\ Pid(Parent(m)) \in Nat
  BY <1>1, <1>6, <1>9, Types DEF Pid
<1> QED BY <1>9, <1>11, <1>12

LEMMA ReapsWhole ==
  ASSUME Whole, NEW p \in Slots, NEW q \in Slots, Reaps(p, q)
  PROVE  Family' /\ SpaceInv'
<1>1. /\ Base /\ PidsBelow /\ KidsFollow /\ Guarded /\ OneRoot /\ SpaceInv
      /\ proc[p].state = "RUNNABLE" /\ p \notin Busy /\ p \notin Busy' /\ Others(p)
      /\ proc[q].state = "ZOMBIE" /\ proc[q].parent = p /\ proc'[q].state = "UNUSED"
      /\ proc'[q].pid = 0 /\ p # q
      /\ \A r \in Slots \ {q} : proc'[r] = proc[r]
      /\ nextpid' = nextpid
  BY DEF Whole, Family, Reaps, SameSlots, Runner
<1>2. \A r \in Busy : /\ r \in Slots /\ r # q /\ r # p /\ ctx'[r] = ctx[r]
                      /\ ctx[r].x \in Slots /\ ctx[r].x # q
  BY <1>1, BusyIs DEF Others
<1>3. Busy' = Busy /\ Forking' = Forking /\ Forking \subseteq Busy
  <2>1. Busy' = Busy
    BY <1>1 DEF Busy, Others
  <2> QED BY <1>2, <2>1 DEF Forking
<1>4. PidsBelow'
  <2>1. nextpid \in Nat /\ proc[p].pid \in Nat /\ proc[p].pid < nextpid
    BY <1>1, Types DEF Base, PidsBelow, Pid
  <2> QED BY <1>1, <2>1 DEF PidsBelow, Pid
<1>5. KidsFollow'
  <2>1. ASSUME NEW r \in Busy PROVE Follows(r)'
    BY <1>1, <1>2, <2>1, FollowsKept DEF KidsFollow, Pid, Space
  <2> QED BY <1>3, <2>1 DEF KidsFollow
<1>6. Guarded' /\ OneRoot'
  <2>1. Shrinks
    BY <1>1 DEF Shrinks, Alive, Awake, Pid, Parent, Space
  <2> QED BY <1>1, <2>1, ShrinkKeeps
<1>7. /\ \A r \in Slots : (Alive(r)' <=> Alive(r) /\ r # q) /\ (r # q => Space(r)' = Space(r))
      /\ Alive(p) /\ Alive(q)
      /\ \A f \in Forking : Space(ctx[f].x)' = Space(ctx[f].x)
  BY <1>1, <1>2, <1>3 DEF Alive, Space
<1>8. /\ ~twice' /\ spaces' \subseteq spaces
      /\ \A r \in Slots : Alive(r) /\ r # q => Space(r) \in spaces'
      /\ \A f \in Forking : Space(ctx[f].x) \in spaces'
      /\ \A e \in spaces' : e = Space(q) => Space(p) = e
  <2>1. /\ ~twice /\ Space(q) \in spaces
        /\ \A r \in Slots : Alive(r) => Space(r) \in spaces
        /\ \A f \in Forking : Space(ctx[f].x) \in spaces /\ Space(ctx[f].x) # Space(q)
    BY <1>1, <1>7 DEF SpaceInv, Together
  <2>2. CASE Together(p, q) /\ UNCHANGED <<spaces, twice>>
    BY <2>1, <2>2 DEF Together
  <2>3. CASE ~Together(p, q) /\ FreeVm(Space(q))
    <3>1. ~Together(q, Parent(q))
      BY <1>1, <2>3 DEF Together, Parent
    <3>2. \A r \in Slots \ {q} : Alive(r) => Space(r) # Space(q)
      BY <1>1, <3>1, LastOfSpace DEF Together
    <3> QED BY <2>1, <2>3, <3>2 DEF FreeVm
  <2> QED BY <2>2, <2>3 DEF Reaps
<1>9. SpaceInv'
  <2>1. \A r \in Slots : Alive(r)' => Space(r)' \in spaces'
    BY <1>7, <1>8
  <2>2. ASSUME NEW f \in Forking
        PROVE  /\ Space(ctx[f].x)' \in spaces'
               /\ \A r \in Slots : Alive(r)' => Space(r)' # Space(ctx[f].x)'
               /\ \A g \in Forking : g # f => Space(ctx[g].x)' # Space(ctx[f].x)'
    BY <1>1, <1>7, <1>8 DEF SpaceInv, Together
  <2>3. ASSUME NEW e \in spaces'
        PROVE  \/ \E r \in Slots : Alive(r)' /\ Space(r)' = e
               \/ \E f \in Forking : Space(ctx[f].x)' = e
    <3>1. CASE \E r \in Slots : Alive(r) /\ Space(r) = e
      BY <1>1, <1>7, <1>8, <3>1
    <3>2. CASE \E f \in Forking : Space(ctx[f].x) = e
      BY <1>7, <3>2
    <3> QED BY <1>1, <1>8, <2>3, <3>1, <3>2 DEF SpaceInv
  <2> QED BY <1>3, <1>8, <2>1, <2>2, <2>3 DEF SpaceInv, Together
<1> QED BY <1>4, <1>5, <1>6, <1>9 DEF Family

LEMMA ExitsWhole ==
  ASSUME Whole, "join" \in keeps, NEW p \in Slots, Exits(p)
  PROVE  Family' /\ SpaceInv'
<1>1. /\ Base /\ PidsBelow /\ KidsFollow /\ Guarded /\ OneRoot /\ SpaceInv
      /\ proc[p].state = "RUNNABLE" /\ p \notin Busy /\ p # initproc
      /\ Threads(p) = {} /\ ctx' = ctx
      /\ proc'[p].state = "ZOMBIE" /\ proc'[p].parent = proc[p].parent
      /\ UNCHANGED <<nextpid, spaces, twice>>
  BY DEF Whole, Family, Exits, Runner
<1>2. \A q \in Slots :
        /\ Pid(q)' = Pid(q) /\ Space(q)' = Space(q) /\ (Alive(q)' <=> Alive(q))
        /\ q # p => (Awake(q) => Awake(q)')
        /\ q # p /\ Parent(q) # p => Parent(q)' = Parent(q)
        /\ q # p /\ Parent(q) = p => Parent(q)' = initproc
  BY <1>1 DEF Exits, Pid, Space, Alive, Awake, Parent
<1>3. Busy' = Busy /\ Forking' = Forking /\ Forking \subseteq Busy
  BY <1>1 DEF Busy, Forking
<1>4. \A r \in Busy : r \in Slots /\ r # p /\ ctx[r].x \in Slots /\ ctx[r].x # p
  BY <1>1, BusyIs
<1>5. PidsBelow'
  BY <1>1, <1>2 DEF PidsBelow
<1>6. KidsFollow'
  <2>1. ASSUME NEW r \in Busy PROVE Follows(r)'
    <3>1. Follows(r) /\ ctx' = ctx
      BY <1>1 DEF KidsFollow
    <3>2. /\ Pid(ctx[r].x)' = Pid(ctx[r].x) /\ Space(ctx[r].x)' = Space(ctx[r].x)
          /\ Pid(r)' = Pid(r) /\ Space(r)' = Space(r)
          /\ Parent(ctx[r].x) = r => Parent(ctx[r].x)' = r
      BY <1>1, <1>2, <1>4 DEF Pid, Space, Parent
    <3> QED BY <3>1, <3>2 DEF Follows
  <2> QED BY <1>3, <2>1 DEF KidsFollow
<1>7. Alive(p) /\ Parent(p)' = Parent(p) /\ Parent(p) \in Slots /\ Parent(p) # p
  <2>1. Alive(p) /\ Pid(p) \in Nat
    BY <1>1, Types DEF Alive, Base, Pid
  <2> QED BY <1>1, <2>1 DEF Guarded, Together, Parent
<1>8. Awake(initproc)' /\ Space(initproc)' = Space(initproc)
  BY <1>1, <1>2, Inits DEF Guarded
<1>9. ASSUME NEW q \in Slots \ {initproc}, Alive(q)
      PROVE  /\ Parent(q)' \in Slots /\ Awake(Parent(q))' /\ ~Together(q, initproc)'
             /\ Together(q, Parent(q))' => Pid(Parent(q))' < Pid(q)'
             /\ Together(q, Parent(q)) => Together(q, Parent(q))'
  <2>1. /\ Parent(q) \in Slots /\ Awake(Parent(q)) /\ Space(q) # Space(initproc)
        /\ Space(q) = Space(Parent(q)) => Pid(Parent(q)) < Pid(q)
    BY <1>1, <1>9 DEF Guarded, Together
  <2>2. CASE Parent(q) # p
    <3>1. Parent(q)' = Parent(q)
      BY <1>2, <1>7, <2>2
    <3>2. Awake(Parent(q))' /\ Space(Parent(q))' = Space(Parent(q)) /\ Pid(Parent(q))' = Pid(Parent(q))
      <4>1. PICK s \in Slots : s = Parent(q)
        BY <2>1
      <4>2. Awake(s)' /\ Space(s)' = Space(s) /\ Pid(s)' = Pid(s)
        BY <1>2, <2>1, <2>2, <4>1
      <4> QED BY <3>1, <4>1, <4>2 DEF Awake, Space, Pid
    <3> QED BY <1>2, <1>8, <2>1, <3>1, <3>2 DEF Together
  <2>3. CASE Parent(q) = p
    <3>1. q # p /\ Parent(q)' = initproc
      BY <1>2, <1>7, <2>3
    <3>2. Space(q) # Space(p)
      BY <1>1, <2>3, <3>1 DEF Threads, Together, Parent
    <3>3. Awake(Parent(q))' /\ Space(Parent(q))' = Space(initproc)
      BY <1>8, <3>1 DEF Awake, Space
    <3> QED BY <1>2, <1>8, <2>1, <2>3, <3>1, <3>2, <3>3, Inits DEF Together
  <2> QED BY <2>2, <2>3
<1>10. Guarded'
  BY <1>2, <1>8, <1>9 DEF Guarded
<1>11. OneRoot'
  BY <1>1, <1>2, <1>9 DEF OneRoot, Together
<1>12. SpaceInv'
  <2>1. SpacesStay
    BY <1>1, <1>2, <1>3, <1>4 DEF SpacesStay, Space
  <2> QED BY <1>1, <2>1, SpaceKeeps
<1> QED BY <1>5, <1>6, <1>10, <1>11, <1>12 DEF Family

LEMMA ExecsWhole ==
  ASSUME Whole, "join" \in keeps, NEW p \in Slots, Execs(p)
  PROVE  Family' /\ SpaceInv'
<1>1. PICK n \in Spaces \ spaces : n = proc'[p].pgdir
  BY DEF Execs
<1>2. /\ Base /\ PidsBelow /\ KidsFollow /\ Guarded /\ OneRoot /\ SpaceInv
      /\ proc[p].state = "RUNNABLE" /\ p \notin Busy /\ p # initproc /\ ctx' = ctx
      /\ \A q \in Slots : q # p /\ Alive(q) => Space(q) # Space(p)
      /\ proc'[p].state = "RUNNABLE" /\ proc'[p].pid = proc[p].pid
      /\ proc'[p].parent = proc[p].parent
      /\ \A q \in Slots \ {p} : proc'[q] = proc[q]
      /\ spaces' = (spaces \cup {n}) \ {Space(p)}
      /\ twice' = (twice \/ Space(p) \notin spaces) /\ nextpid' = nextpid
  BY <1>1 DEF Whole, Family, Execs, Runner, SameSlots, Together
<1>3. \A q \in Slots :
        /\ Pid(q)' = Pid(q) /\ Parent(q)' = Parent(q)
        /\ Alive(q)' <=> Alive(q)
        /\ Awake(q)' <=> Awake(q)
        /\ q # p => Space(q)' = Space(q)
  BY <1>2 DEF Pid, Parent, Alive, Awake, Space
<1>4. Space(p)' = n /\ Alive(p)
  BY <1>1, <1>2 DEF Space, Alive
<1>5. Busy' = Busy /\ Forking' = Forking /\ Forking \subseteq Busy
  BY <1>2 DEF Busy, Forking
<1>6. \A r \in Busy : r \in Slots /\ r # p /\ ctx[r].x \in Slots /\ ctx[r].x # p
  BY <1>2, BusyIs
<1>7. PidsBelow'
  BY <1>2, <1>3 DEF PidsBelow
<1>8. KidsFollow'
  <2>1. ASSUME NEW r \in Busy PROVE Follows(r)'
    BY <1>2, <1>6, <2>1, FollowsKept DEF KidsFollow, Pid, Space
  <2> QED BY <1>5, <2>1 DEF KidsFollow
<1>9. \A q \in Slots : Alive(q) => Space(q) \in spaces /\ Space(q) # n
  BY <1>1, <1>2 DEF SpaceInv
<1>10. initproc \in Slots /\ Awake(initproc) /\ Alive(initproc)
         /\ Awake(initproc)' /\ Space(initproc)' = Space(initproc)
  BY <1>2, <1>3, Inits DEF Guarded, Awake, Alive
<1>11. ASSUME NEW q \in Slots \ {initproc}, Alive(q)
       PROVE  /\ Parent(q)' \in Slots /\ Awake(Parent(q))' /\ ~Together(q, initproc)'
              /\ Together(q, Parent(q))' => Pid(Parent(q))' < Pid(q)'
              /\ q # p /\ Together(q, Parent(q)) => Together(q, Parent(q))'
  <2>1. PICK s \in Slots : s = Parent(q)
    BY <1>2, <1>11 DEF Guarded
  <2>2. /\ Awake(s) /\ Alive(s) /\ Space(q) # Space(initproc)
        /\ Space(q) = Space(s) => Pid(s) < Pid(q)
    BY <1>2, <1>11, <2>1 DEF Guarded, Together, Awake, Alive
  <2>3. Parent(q)' = s /\ Awake(s)' /\ Pid(s)' = Pid(s) /\ Pid(q)' = Pid(q)
    BY <1>3, <2>1, <2>2
  <2>4. Space(q)' # Space(initproc)'
    <3>1. CASE q = p
      BY <1>4, <1>9, <1>10, <3>1
    <3>2. CASE q # p
      BY <1>3, <1>10, <2>2, <3>2
    <3> QED BY <3>1, <3>2
  <2>5. s # q
    BY <1>2, <2>2, Types DEF Pid, Base
  <2>6. Space(q)' = Space(s)' => Space(q) = Space(s)
    <3>1. CASE q = p
      BY <1>3, <1>4, <1>9, <2>2, <2>5, <3>1
    <3>2. CASE s = p
      BY <1>3, <1>4, <1>9, <1>11, <2>5, <3>2
    <3>3. CASE q # p /\ s # p
      BY <1>3, <3>3
    <3> QED BY <3>1, <3>2, <3>3
  <2>7. q # p /\ Space(q) = Space(s) => Space(q)' = Space(s)'
    BY <1>2, <1>3, <1>11
  <2>8. Awake(Parent(q))' /\ Pid(Parent(q))' = Pid(s) /\ Space(Parent(q))' = Space(s)'
    BY <2>3 DEF Awake, Pid, Space
  <2> QED BY <2>1, <2>2, <2>3, <2>4, <2>6, <2>7, <2>8 DEF Together
<1>12. Guarded'
  BY <1>3, <1>10, <1>11 DEF Guarded
<1>13. OneRoot'
  <2> SUFFICES ASSUME NEW q \in Slots \ {initproc}, NEW r \in Slots \ {initproc},
                      q # r, Alive(q), Alive(r), Space(q)' = Space(r)'
               PROVE  Together(q, Parent(q))' \/ Together(r, Parent(r))'
    BY <1>3 DEF OneRoot, Together
  <2>1. q # p /\ r # p
    BY <1>3, <1>4, <1>9
  <2>2. Space(q) = Space(r)
    BY <1>3, <2>1
  <2>3. Together(q, Parent(q)) \/ Together(r, Parent(r))
    BY <1>2, <2>2 DEF OneRoot, Together
  <2> QED BY <1>11, <2>1, <2>3
<1>14. SpaceInv'
  <2>1. ~twice' /\ Space(p) \in spaces
    BY <1>2, <1>4 DEF SpaceInv
  <2>2. \A q \in Slots : Alive(q)' => Space(q)' \in spaces'
    <3>1. \A q \in Slots : q # p /\ Alive(q) => Space(q)' \in spaces'
      BY <1>2, <1>3, <1>9
    <3>2. Space(p)' \in spaces'
      BY <1>1, <1>2, <1>4, <2>1
    <3> QED BY <1>3, <3>1, <3>2
  <2>3. ASSUME NEW f \in Forking
        PROVE  /\ Space(ctx[f].x)' = Space(ctx[f].x)
               /\ Space(ctx[f].x) \in spaces' /\ Space(ctx[f].x) # n
    <3>1. Space(ctx[f].x) \in spaces /\ Space(ctx[f].x) # Space(p)
      BY <1>2, <1>4 DEF SpaceInv, Together
    <3> QED BY <1>1, <1>2, <1>5, <1>6, <3>1 DEF Space
  <2>4. ASSUME NEW f \in Forking
        PROVE  /\ Space(ctx[f].x)' \in spaces'
               /\ \A q \in Slots : Alive(q)' => Space(q)' # Space(ctx[f].x)'
               /\ \A g \in Forking : g # f => Space(ctx[g].x)' # Space(ctx[f].x)'
    BY <1>2, <1>3, <1>4, <2>3 DEF SpaceInv, Together
  <2>5. ASSUME NEW e \in spaces'
        PROVE  \/ \E q \in Slots : Alive(q)' /\ Space(q)' = e
               \/ \E f \in Forking : Space(ctx[f].x)' = e
    <3>1. CASE e = n
      BY <1>3, <1>4, <3>1
    <3>2. CASE e \in spaces /\ e # Space(p)
      <4>1. CASE \E q \in Slots : Alive(q) /\ Space(q) = e
        BY <1>3, <3>2, <4>1
      <4>2. CASE \E f \in Forking : Space(ctx[f].x) = e
        BY <2>3, <4>2
      <4> QED BY <1>2, <3>2, <4>1, <4>2 DEF SpaceInv
    <3> QED BY <1>2, <2>5, <3>1, <3>2
  <2> QED BY <1>5, <2>1, <2>2, <2>4, <2>5 DEF SpaceInv, Together
<1> QED BY <1>7, <1>8, <1>12, <1>13, <1>14 DEF Family

LEMMA WholeStep == ASSUME Whole, "join" \in keeps, [Next]_vars PROVE Whole' /\ "join" \in keeps'
<1>1. Base /\ Base' /\ keeps' = keeps /\ (Idle \/ \E p \in Slots : Steps(p))
  BY BaseStep, StepKinds DEF Whole
<1>2. CASE Idle
  <2>1. PidsBelow' /\ KidsFollow' /\ Guarded' /\ OneRoot'
    BY <1>2 DEF Idle, Whole, Family, PidsBelow, KidsFollow, Follows, Busy, Guarded, OneRoot,
                Together, Alive, Awake, Pid, Space, Parent
  <2>2. SpaceInv'
    <3>1. SpacesStay
      BY <1>2 DEF Idle, SpacesStay, Alive, Space, Forking, Busy
    <3> QED BY <3>1, SpaceKeeps DEF Whole
  <2> QED BY <1>1, <2>1, <2>2 DEF Whole, Family
<1>3. CASE \E p \in Slots : Steps(p)
  <2>1. PICK p \in Slots : Steps(p)
    BY <1>3
  <2>2. Family' /\ SpaceInv'
    BY <2>1, QuietWhole, AllocatesWhole, FillsWhole, FinishesWhole, ReapsWhole, ExitsWhole,
       ExecsWhole DEF Steps
  <2> QED BY <1>1, <2>2 DEF Whole
<1> QED BY <1>1, <1>2, <1>3

LEMMA InitWhole == Init => Whole
<1> SUFFICES ASSUME Init PROVE Whole
  OBVIOUS
<1>1. Base
  BY InitIInv DEF IInv
<1>2. NPROC \in Nat /\ NPROC >= 2
  BY ThreadsAssumption
<1>3. \A p \in Slots :
        /\ p > 2 => proc[p] = Unused
        /\ p <= 2 => /\ proc[p].state = "RUNNABLE" /\ proc[p].pid = p /\ proc[p].parent = p - 1
                     /\ proc[p].pgdir = p
  <2> SUFFICES ASSUME NEW p \in Slots
               PROVE  /\ p > 2 => proc[p] = Unused
                      /\ p <= 2 => /\ proc[p].state = "RUNNABLE" /\ proc[p].pid = p
                                   /\ proc[p].parent = p - 1 /\ proc[p].pgdir = p
    OBVIOUS
  <2>1. proc[p] = IF p > 2 THEN Unused
                  ELSE [Unused EXCEPT !.state = "RUNNABLE", !.pid = p, !.parent = p - 1,
                                      !.pgdir = p, !.sz = 1]
    BY DEF Init
  <2>2. p \in Nat
    BY <1>2 DEF Slots
  <2>3. CASE p > 2
    BY <2>1, <2>2, <2>3
  <2>4. CASE ~(p > 2)
    BY <2>1, <2>2, <2>4 DEF Unused
  <2> QED BY <2>2, <2>3, <2>4
<1>4. 1 \in Slots /\ 2 \in Slots /\ initproc = 1 /\ \A p \in Slots : p \in Nat /\ p >= 1
  BY <1>2 DEF Slots, initproc
<1>5. \A p \in Slots : Alive(p) <=> p \in {1, 2}
  BY <1>3, <1>4 DEF Alive, Unused
<1>6. Busy = {} /\ Forking = {}
  BY DEF Init, User, Busy, Forking
<1>7. PidsBelow
  <2>1. nextpid = 3
    BY DEF Init
  <2>2. \A p \in Slots : p > 2 => proc[p].pid = 0
    BY <1>3 DEF Unused
  <2> QED BY <1>3, <1>4, <2>1, <2>2 DEF PidsBelow, Pid
<1>8. Guarded /\ OneRoot
  BY <1>3, <1>4, <1>5 DEF Guarded, OneRoot, Awake, Together, Space, Parent, Pid
<1>9. SpaceInv
  <2>1. ~twice /\ spaces = {1, 2}
    BY DEF Init
  <2>2. \A p \in {1, 2} : p \in Slots /\ Alive(p) /\ Space(p) = p
    BY <1>3, <1>4, <1>5 DEF Space
  <2>3. \A p \in Slots : Alive(p) => Space(p) \in spaces
    BY <1>5, <2>1, <2>2
  <2>4. \A d \in spaces : \E q \in Slots : Alive(q) /\ Space(q) = d
    BY <2>1, <2>2
  <2> QED BY <1>6, <2>1, <2>3, <2>4 DEF SpaceInv
<1> QED BY <1>1, <1>6, <1>7, <1>8, <1>9 DEF Whole, Family, KidsFollow

\* Where all programs join their threads before they exit or call exec, the
\* allocated address spaces are those of living processes and of children that
\* fork is making: no order of clone, fork, exit, wait, join and exec frees one
\* that is in use, frees one twice, or loses one (freevm in wait and exec).
THEOREM SpacesOfTheLiving ==
  ASSUME \A rules \in Disciplines : "join" \in rules
  PROVE  Spec => []SpacesInUse
<1>1. Init => Whole /\ "join" \in keeps
  BY InitWhole DEF Init
<1>2. Whole /\ "join" \in keeps /\ [Next]_vars => (Whole /\ "join" \in keeps)'
  BY WholeStep
<1>3. Whole => SpacesInUse
  <2> SUFFICES ASSUME Whole PROVE SpacesInUse
    OBVIOUS
  <2>1. TypeOK /\ Base /\ SpaceInv
    BY DEF Whole, Base
  <2>2. ~twice /\ SpaceOutlivesThreads
    BY <2>1 DEF SpaceInv, SpaceOutlivesThreads
  <2>3. ASSUME NEW d \in spaces
        PROVE  \E q \in Slots : /\ Space(q) = d
                                /\ Alive(q) \/ \E p \in Slots : ctx[p].at = "child" /\ ctx[p].x = q
    <3>1. CASE \E q \in Slots : Alive(q) /\ Space(q) = d
      BY <3>1
    <3>2. CASE \E p \in Forking : Space(ctx[p].x) = d
      <4>1. PICK p \in Forking : Space(ctx[p].x) = d
        BY <3>2
      <4>2. p \in Slots /\ ctx[p].at = "child" /\ ctx[p].x \in Slots
        BY <2>1, BusyIs DEF Forking
      <4> QED BY <4>1, <4>2
    <3> QED BY <2>1, <3>1, <3>2 DEF SpaceInv
  <2> QED BY <2>1, <2>2, <2>3 DEF SpacesInUse
<1> QED BY <1>1, <1>2, <1>3, PTL DEF Spec

-----------------------------------------------------------------------------
(* Sizes and pages                                                         *)

\* Where thread_create, fork and sbrk are under way.
Exclusive == {"clone", "share", "size", "start", "find", "addr", "pid", "copy", "child", "grow"}
InCall(p) == Alive(p) /\ ctx[p].at \in Exclusive
Pages(p) == mem[Space(p)].mapped
Sz(p) == proc[p].sz

\* sbrk has come to page x on its way from z pages to y.
Midway(p) ==
  /\ Pages(p) = 0 .. ctx[p].x - 1 /\ ctx[p].z = Sz(p)
  /\ \/ ctx[p].z <= ctx[p].x /\ ctx[p].x <= ctx[p].y
     \/ ctx[p].y <= ctx[p].x /\ ctx[p].x <= ctx[p].z

\* The pages are those of the size, or a sbrk is on its way.
Fits(p) ==
  /\ ctx[p].at = "grow" => Midway(p)
  /\ (\A q \in Slots : Alive(q) /\ Together(p, q) => ctx[q].at # "grow")
       => Pages(p) = 0 .. Sz(p) - 1

\* clone and fork give the new slot its size.
KidFits(p) ==
  /\ ctx[p].at = "size" => ctx[p].z = Sz(p)
  /\ ctx[p].at = "start" => Sz(ctx[p].x) = Sz(p)
  /\ ctx[p].at = "child" => Pages(ctx[p].x) = 0 .. Sz(ctx[p].x) - 1

OneCall == \A p, q \in Slots : p # q /\ InCall(p) /\ InCall(q) => ~Together(p, q)
OneSize == \A p, q \in Slots : Alive(p) /\ Alive(q) /\ Together(p, q) => Sz(p) = Sz(q)
Fitting == /\ \A p \in Slots : Alive(p) => Fits(p)
           /\ \A p \in Busy : KidFits(p)
Fresh == \A d \in Spaces \ spaces : mem[d].mapped = {0}
Room == panicked = "none" /\ OneCall /\ OneSize /\ Fitting /\ Fresh

\* What a step leaves of the sizes and pages of the living.
Free(p) == \A q \in Slots : q # p /\ Alive(q) /\ Together(p, q) => ctx[q].at \notin Exclusive
Enters(p) ==
  /\ ctx[p].at # "grow"
  /\ ctx'[p].at \in Exclusive => ctx[p].at \in Exclusive \/ Free(p)
  /\ ctx'[p].at = "grow" => ctx'[p].x = Sz(p) /\ ctx'[p].z = Sz(p)
Kept(q) == Sz(q)' = Sz(q) /\ Space(q)' = Space(q)
PagesKept ==
  /\ \A d \in spaces \cap spaces' : mem'[d].mapped = mem[d].mapped
  /\ \A d \in Spaces \ spaces' : mem'[d].mapped = {0}
Conserves(p) ==
  /\ Runner(p) /\ Others(p) /\ Enters(p) /\ PagesKept /\ panicked' = panicked
  /\ \A q \in Slots : Alive(q)' => Alive(q) /\ Kept(q)
  /\ \A q \in Slots : Alive(q) /\ ~Alive(q)' => ctx[q].at = "user"
  /\ \A r \in Busy \ {p} : Kept(ctx[r].x)
  /\ p \in Busy' => KidFits(p)'

LEMMA NobodyElse ==
  ASSUME Room, NEW p \in Slots, InCall(p)
  PROVE  /\ Free(p)
         /\ ctx[p].at # "grow" => Pages(p) = 0 .. Sz(p) - 1
<1>1. Free(p)
  BY DEF Free, Room, OneCall, InCall
<1>2. ASSUME ctx[p].at # "grow" PROVE Pages(p) = 0 .. Sz(p) - 1
  <2>1. \A q \in Slots : Alive(q) /\ Together(p, q) => ctx[q].at # "grow"
    BY <1>1, <1>2 DEF Free, Exclusive
  <2>2. Fits(p)
    BY DEF Room, Fitting, InCall
  <2> QED BY <2>1, <2>2 DEF Fits
<1> QED BY <1>1, <1>2

LEMMA ConservesKeeps ==
  ASSUME Base, Base', SpaceInv, SpaceInv', Room, NEW p \in Slots, Conserves(p)
  PROVE  Room'
<1>1. /\ Alive(p) /\ Others(p) /\ ctx[p].at # "grow" /\ panicked' = "none"
      /\ ctx'[p].at = "grow" => ctx'[p].x = Sz(p) /\ ctx'[p].z = Sz(p)
      /\ \A q \in Slots : Alive(q)' => Alive(q) /\ Sz(q)' = Sz(q) /\ Space(q)' = Space(q)
  BY DEF Conserves, Runner, Enters, Room, Kept, Alive
<1>2. \A q, r \in Slots : Alive(q)' /\ Alive(r)' => (Together(q, r)' <=> Together(q, r))
  BY <1>1 DEF Together
<1>3. ctx'[p].at \in Exclusive => Free(p)
  <2>1. CASE ctx[p].at \in Exclusive
    BY <1>1, <2>1, NobodyElse DEF InCall
  <2> QED BY <2>1 DEF Conserves, Enters
<1>4. \A q \in Slots \ {p} : ctx'[q] = ctx[q]
  BY <1>1 DEF Others
<1>5. \A q \in Slots : Alive(q)' => Pages(q)' = Pages(q)
  <2> SUFFICES ASSUME NEW q \in Slots, Alive(q)' PROVE Pages(q)' = Pages(q)
    OBVIOUS
  <2>1. Space(q) \in spaces /\ Space(q)' \in spaces' /\ Space(q)' = Space(q)
    BY <1>1 DEF SpaceInv
  <2> QED BY <2>1 DEF Conserves, PagesKept, Pages
<1>6. OneCall'
  <2> SUFFICES ASSUME NEW q \in Slots, NEW r \in Slots, q # r, InCall(q)', InCall(r)'
               PROVE  ~Together(q, r)
    BY <1>2 DEF OneCall, InCall
  <2>1. Alive(q) /\ Alive(r) /\ ctx'[q].at \in Exclusive /\ ctx'[r].at \in Exclusive
    BY <1>1 DEF InCall
  <2>2. CASE q = p
    BY <1>3, <1>4, <2>1, <2>2 DEF Free
  <2>3. CASE r = p
    BY <1>3, <1>4, <2>1, <2>3 DEF Free, Together
  <2>4. CASE q # p /\ r # p
    BY <1>4, <2>1, <2>4 DEF Room, OneCall, InCall
  <2> QED BY <2>2, <2>3, <2>4
<1>7. OneSize'
  BY <1>1, <1>2 DEF Room, OneSize
<1>8. ASSUME NEW r \in Slots, Alive(r)' PROVE Fits(r)'
  <2>1. Alive(r) /\ Fits(r) /\ Sz(r)' = Sz(r) /\ Pages(r)' = Pages(r)
    BY <1>1, <1>5, <1>8 DEF Room, Fitting
  <2>2. ASSUME ctx'[r].at = "grow" PROVE Midway(r)'
    <3>1. CASE r = p
      <4>1. \A q \in Slots : Alive(q) /\ Together(p, q) => ctx[q].at # "grow"
        BY <1>1, <1>3, <2>2, <3>1 DEF Free, Exclusive
      <4>2. Pages(p) = 0 .. Sz(p) - 1
        BY <2>1, <3>1, <4>1 DEF Fits
      <4>3. ctx'[p].x = Sz(p) /\ ctx'[p].z = Sz(p) /\ ctx'[p].y \in Int /\ Sz(p) \in Int
        BY <1>1, <2>2, <3>1, Types DEF Base, TypeOK, Sz
      <4>4. ctx'[p].z <= ctx'[p].y \/ ctx'[p].y <= ctx'[p].z
        BY <4>3
      <4> QED BY <2>1, <3>1, <4>2, <4>3, <4>4 DEF Midway
    <3>2. CASE r # p
      BY <1>4, <2>1, <2>2, <3>2 DEF Fits, Midway
    <3> QED BY <3>1, <3>2
  <2>3. ASSUME \A q \in Slots : Alive(q)' /\ Together(r, q)' => ctx'[q].at # "grow"
        PROVE  Pages(r)' = 0 .. Sz(r)' - 1
    <3>1. ASSUME NEW q \in Slots, Alive(q), Together(r, q) PROVE ctx[q].at # "grow"
      <4>1. CASE ~Alive(q)'
        BY <3>1, <4>1 DEF Conserves
      <4>2. CASE Alive(q)' /\ q # p
        BY <1>2, <1>4, <1>8, <2>3, <3>1, <4>2
      <4> QED BY <1>1, <4>1, <4>2
    <3>2. Pages(r) = 0 .. Sz(r) - 1
      BY <2>1, <3>1 DEF Fits
    <3> QED BY <2>1, <3>2
  <2> QED BY <2>2, <2>3 DEF Fits
<1>9. ASSUME NEW r \in Busy' PROVE KidFits(r)'
  <2>1. CASE r = p
    BY <1>9, <2>1 DEF Conserves
  <2>2. CASE r # p
    <3>1. r \in Slots /\ ctx'[r] = ctx[r] /\ r \in Busy
      BY <1>4, <1>9, <2>2 DEF Busy
    <3>2. Sz(r)' = Sz(r)
      <4>1. proc'[r].state = "RUNNABLE"
        BY <1>9, <3>1, Types DEF Busy, Base, CtxInv, CtxOf, TypeOK, States
      <4>2. Alive(r)'
        BY <4>1 DEF Alive
      <4> QED BY <1>1, <3>1, <4>2
    <3>3. Sz(ctx[r].x)' = Sz(ctx[r].x) /\ Space(ctx[r].x)' = Space(ctx[r].x)
      BY <2>2, <3>1 DEF Conserves, Kept
    <3>4. ctx[r].at = "child" => Pages(ctx[r].x)' = Pages(ctx[r].x)
      <4> SUFFICES ASSUME ctx[r].at = "child" PROVE Pages(ctx[r].x)' = Pages(ctx[r].x)
        OBVIOUS
      <4>1. r \in Forking /\ r \in Forking'
        BY <1>9, <3>1 DEF Forking
      <4>2. Space(ctx[r].x) \in spaces
        BY <4>1 DEF SpaceInv
      <4>3. Space(ctx[r].x)' \in spaces'
        BY <4>1 DEF SpaceInv
      <4>4. Space(ctx[r].x) \in spaces \cap spaces'
        BY <3>3, <4>2, <4>3
      <4> QED BY <3>3, <4>4 DEF Conserves, PagesKept, Pages, Space
    <3>5. KidFits(r)
      BY <3>1 DEF Room, Fitting
    <3> QED BY <3>1, <3>2, <3>3, <3>4, <3>5 DEF KidFits
  <2> QED BY <2>1, <2>2
<1>10. Fresh'
  BY DEF Conserves, PagesKept, Fresh
<1> QED BY <1>1, <1>6, <1>7, <1>8, <1>9, <1>10 DEF Room, Fitting

LEMMA QuietConserves ==
  ASSUME Base, NEW p \in Slots, Quiet(p) \/ Sleeps(p), \A q \in Slots : Sz(q)' = Sz(q),
         PagesKept, Enters(p), panicked' = panicked
  PROVE  Conserves(p)
<1>1. /\ Runner(p) /\ Others(p) /\ p \notin Busy' /\ SameStates({p}) /\ SameFamily({})
      /\ proc'[p].state \in {"RUNNABLE", "SLEEPING"}
  BY DEF Quiet, Sleeps, SameStates, Runner
<1>2. \A q \in Slots : /\ Alive(q)' <=> Alive(q)
                       /\ Kept(q)
  BY <1>1 DEF SameStates, SameFamily, Alive, Runner, Kept, Space
<1>3. \A r \in Busy : ctx[r].x \in Slots
  BY BusyIs
<1> QED BY <1>1, <1>2, <1>3 DEF Conserves

LEMMA SlotConserves ==
  ASSUME Base, NEW p \in Slots, NEW q \in Slots \ {p}, Runner(p), Others(p), SameSlots({q}),
         ~Alive(q)', Alive(q) => ctx[q].at = "user",
         proc[q].state = "EMBRYO" => p \in Busy /\ ctx[p].x = q,
         PagesKept, Enters(p), panicked' = panicked, p \in Busy' => KidFits(p)'
  PROVE  Conserves(p)
<1>1. \A r \in Slots \ {q} : proc'[r] = proc[r]
  BY DEF SameSlots
<1>2. \A r \in Slots \ {q} : /\ Alive(r)' <=> Alive(r)
                             /\ Kept(r)
  BY <1>1 DEF Alive, Kept, Sz, Space
<1>3. ASSUME NEW r \in Busy \ {p} PROVE Kept(ctx[r].x)
  <2>1. ctx[r].x \in Slots /\ proc[ctx[r].x].state = "EMBRYO"
    BY BusyIs
  <2>2. ctx[r].x # q
    BY <2>1 DEF Base, KidInv
  <2>3. PICK k \in Slots \ {q} : k = ctx[r].x /\ k = ctx'[r].x
    BY <2>1, <2>2 DEF Others, Busy
  <2>4. Kept(k)
    BY <1>2
  <2> QED BY <2>3, <2>4 DEF Kept, Sz, Space
<1> QED BY <1>2, <1>3 DEF Conserves

\* The new slot of clone or fork joins the living.
LEMMA StartsRoom ==
  ASSUME Base, Base', Family, SpaceInv, SpaceInv', Room, NEW p \in Slots, Starts(p),
         ctx'[p].at # "grow", \A q \in Slots : Sz(q)' = Sz(q),
         UNCHANGED <<mem, panicked>>
  PROVE  Room'
<1>1. PICK k \in Slots : k = ctx[p].x
  BY BusyIs DEF Starts, Finishes
<1>2. /\ Runner(p) /\ p \in Busy /\ p \notin Busy' /\ Others(p) /\ SameFamily({})
      /\ proc'[k].state = "RUNNABLE" /\ proc[k].state = "EMBRYO" /\ k # p
      /\ \A q \in Slots \ {k} : proc'[q] = proc[q]
      /\ ctx[p].at \in {"start", "child"} /\ spaces' = spaces
  BY <1>1, BusyIs DEF Starts, Finishes, SameSlots
<1>3. /\ \A q \in Slots : Alive(q)' <=> Alive(q) \/ q = k
      /\ \A q \in Slots : Space(q)' = Space(q) /\ Pages(q)' = Pages(q)
      /\ ~Alive(k) /\ Alive(p)
  BY <1>2 DEF Alive, SameFamily, Space, Pages, Runner
<1>4. \A q, r \in Slots : Together(q, r)' <=> Together(q, r)
  BY <1>3 DEF Together
<1>5. /\ ctx[k].at = "user" /\ ctx'[k] = ctx[k] /\ \A q \in Slots \ {p} : ctx'[q] = ctx[q]
      /\ InCall(p) /\ ctx[p].at # "grow"
  BY <1>2, <1>3 DEF Base, CtxInv, CtxOf, Others, InCall, Exclusive
<1>6. /\ Pages(k) = 0 .. Sz(k) - 1
      /\ \A q \in Slots : Alive(q) /\ Together(q, k) => Sz(q) = Sz(k) /\ ctx[q].at # "grow"
  <2>1. KidFits(p) /\ Follows(p)
    BY <1>2 DEF Room, Fitting, Family, KidsFollow
  <2>2. CASE ctx[p].at = "start"
    <3>1. Space(k) = Space(p) /\ Sz(k) = Sz(p)
      BY <1>1, <2>1, <2>2 DEF Follows, KidFits
    <3>2. Pages(k) = 0 .. Sz(k) - 1
      BY <1>5, <3>1, NobodyElse DEF Pages
    <3>3. \A q \in Slots : Alive(q) /\ Together(p, q) => ctx[q].at # "grow"
      BY <1>5, NobodyElse DEF Free, Exclusive
    <3>4. \A q \in Slots : Alive(q) /\ Together(p, q) => Sz(q) = Sz(p)
      BY <1>3 DEF Room, OneSize
    <3> QED BY <3>1, <3>2, <3>3, <3>4 DEF Together
  <2>3. CASE ctx[p].at = "child"
    <3>1. p \in Forking
      BY <1>2, <2>3 DEF Forking
    <3> QED BY <1>1, <2>1, <2>3, <3>1 DEF KidFits, SpaceInv
  <2> QED BY <1>2, <2>2, <2>3
<1>7. OneCall'
  <2>1. \A q \in Slots : InCall(q)' => InCall(q)
    BY <1>3, <1>5 DEF InCall, Exclusive
  <2> QED BY <1>4, <2>1 DEF Room, OneCall
<1>8. OneSize'
  BY <1>3, <1>4, <1>6 DEF Room, OneSize, Together
<1>9. ASSUME NEW r \in Slots, Alive(r)' PROVE Fits(r)'
  <2>1. CASE r = k
    BY <1>3, <1>5, <1>6, <2>1 DEF Fits
  <2>2. CASE Alive(r)
    <3>1. Fits(r)
      BY <2>2 DEF Room, Fitting
    <3>2. ctx'[r].at = "grow" => ctx'[r] = ctx[r]
      BY <1>5
    <3>3. ASSUME \A q \in Slots : Alive(q)' /\ Together(r, q)' => ctx'[q].at # "grow"
          PROVE  \A q \in Slots : Alive(q) /\ Together(r, q) => ctx[q].at # "grow"
      BY <1>3, <1>4, <1>5, <3>3
    <3> QED BY <1>3, <3>1, <3>2, <3>3 DEF Fits, Midway
  <2> QED BY <1>3, <1>9, <2>1, <2>2
<1>10. ASSUME NEW r \in Busy' PROVE KidFits(r)'
  <2>1. r \in Slots /\ r # p /\ ctx'[r] = ctx[r] /\ r \in Busy
    BY <1>2, <1>5, <1>10 DEF Busy
  <2>2. PICK j \in Slots : j = ctx[r].x /\ j = ctx'[r].x
    BY <2>1, BusyIs
  <2>3. KidFits(r)
    BY <2>1 DEF Room, Fitting
  <2> QED BY <1>3, <2>1, <2>2, <2>3 DEF KidFits
<1>11. Fresh' /\ panicked' = "none"
  BY <1>2 DEF Room, Fresh
<1> QED BY <1>7, <1>8, <1>9, <1>10, <1>11 DEF Room, Fitting

\* sbrk maps or unmaps a page, or stores the size.
Moves(p) ==
  /\ Runner(p) /\ ctx[p].at = "grow" /\ Others(p) /\ UNCHANGED <<panicked, spaces>>
  /\ \A q \in Slots : proc'[q].state = proc[q].state /\ proc'[q].pgdir = proc[q].pgdir
  /\ \A d \in Spaces \ {Space(p)} : mem'[d].mapped = mem[d].mapped
  /\ \A q \in Slots : IF Together(p, q) THEN Alive(q) => Sz(q)' = Sz(p)' ELSE Sz(q)' = Sz(q)
  /\ ctx'[p].at \in {"grow", "user"}
  /\ ctx'[p].at = "grow" => Midway(p)'
  /\ ctx'[p].at = "user" => Pages(p)' = 0 .. Sz(p)' - 1

LEMMA MovesKeeps ==
  ASSUME Base, Base', Family, SpaceInv, Room, NEW p \in Slots, Moves(p)
  PROVE  Room'
<1>1. /\ Alive(p) /\ InCall(p) /\ Free(p) /\ spaces' = spaces /\ panicked' = "none"
      /\ ctx[p].at = "grow"
      /\ \A q \in Slots \ {p} : ctx'[q] = ctx[q]
  BY NobodyElse DEF Moves, Runner, Alive, InCall, Exclusive, Others, Room
<1>2. \A q \in Slots : /\ Alive(q)' <=> Alive(q)
                       /\ Space(q)' = Space(q)
  BY DEF Moves, Alive, Space
<1>3. \A q, r \in Slots : Together(q, r)' <=> Together(q, r)
  BY <1>2 DEF Together
<1>4. ASSUME NEW q \in Slots, ~Together(p, q), Space(q) \in Spaces
      PROVE  Sz(q)' = Sz(q) /\ Pages(q)' = Pages(q)
  BY <1>2, <1>4 DEF Moves, Together, Pages
<1>5. \A q \in Slots : Alive(q) => Space(q) \in Spaces
  BY DEF Base, Placed
<1>6. OneCall'
  <2>1. \A q \in Slots : InCall(q)' => InCall(q)
    BY <1>1, <1>2 DEF InCall
  <2> QED BY <1>3, <2>1 DEF Room, OneCall
<1>7. OneSize'
  <2> SUFFICES ASSUME NEW q \in Slots, NEW r \in Slots, Alive(q), Alive(r), Together(q, r)
               PROVE  Sz(q)' = Sz(r)'
    BY <1>2, <1>3 DEF OneSize
  <2>1. CASE Together(p, q)
    BY <2>1 DEF Moves, Together
  <2>2. CASE ~Together(p, q)
    <3>1. ~Together(p, r) /\ Sz(q) = Sz(r)
      BY <2>2 DEF Together, Room, OneSize
    <3> QED BY <1>4, <1>5, <2>2, <3>1
  <2> QED BY <2>1, <2>2
<1>8. ASSUME NEW r \in Slots, Alive(r)' PROVE Fits(r)'
  <2>1. Alive(r)
    BY <1>2, <1>8
  <2>2. CASE Together(p, r)
    <3>1. ctx'[r].at = "grow" => r = p
      BY <1>1, <2>1, <2>2 DEF Free, Exclusive
    <3>2. ctx'[r].at = "grow" => Midway(r)'
      BY <3>1 DEF Moves
    <3>3. Together(r, p)' /\ Alive(p)' /\ Sz(r)' = Sz(p)' /\ Pages(r)' = Pages(p)'
      BY <1>1, <1>2, <1>3, <2>1, <2>2 DEF Moves, Together, Pages
    <3>4. ctx'[p].at # "grow" => Pages(r)' = 0 .. Sz(r)' - 1
      BY <3>3 DEF Moves
    <3> QED BY <3>2, <3>3, <3>4 DEF Fits
  <2>3. CASE ~Together(p, r)
    <3>1. Sz(r)' = Sz(r) /\ Pages(r)' = Pages(r) /\ r # p /\ ctx'[r] = ctx[r] /\ Fits(r)
      BY <1>1, <1>4, <1>5, <2>1, <2>3 DEF Together, Room, Fitting
    <3>2. ASSUME \A q \in Slots : Alive(q)' /\ Together(r, q)' => ctx'[q].at # "grow"
          PROVE  \A q \in Slots : Alive(q) /\ Together(r, q) => ctx[q].at # "grow"
      BY <1>1, <1>2, <1>3, <2>3, <3>2 DEF Together
    <3> QED BY <3>1, <3>2 DEF Fits, Midway
  <2> QED BY <2>2, <2>3
<1>9. ASSUME NEW r \in Busy' PROVE KidFits(r)'
  <2>1. r \in Slots /\ r # p /\ ctx'[r] = ctx[r] /\ r \in Busy
    <3>1. r \in Slots /\ r # p
      BY <1>9 DEF Busy, Moves
    <3> QED BY <1>1, <1>9, <3>1 DEF Busy
  <2>2. PICK j \in Slots : j = ctx[r].x /\ j = ctx'[r].x
    BY <2>1, BusyIs
  <2>3. KidFits(r) /\ Follows(r)
    BY <2>1 DEF Room, Fitting, Family, KidsFollow
  <2>4. Alive(r) /\ ~Together(p, r) /\ Space(r) \in Spaces /\ Sz(r)' = Sz(r)
    <3>1. proc[r].state = "RUNNABLE"
      BY <2>1, BusyIs
    <3>2. Alive(r) /\ InCall(r)
      BY <2>1, <3>1 DEF Alive, InCall, Busy, Exclusive
    <3> QED BY <1>1, <1>4, <1>5, <2>1, <3>2 DEF Room, OneCall
  <2>5. CASE ctx[r].at \in {"size", "start"}
    <3>1. Space(j) = Space(r)
      BY <2>2, <2>3, <2>5 DEF Follows
    <3>2. Sz(j)' = Sz(j)
      BY <1>4, <2>4, <3>1 DEF Together
    <3> QED BY <2>1, <2>2, <2>3, <2>4, <2>5, <3>2 DEF KidFits
  <2>6. CASE ctx[r].at = "child"
    <3>1. r \in Forking
      BY <2>1, <2>6 DEF Forking
    <3>2. Space(j) \in Spaces /\ ~Together(p, j)
      BY <1>1, <2>2, <3>1, Types DEF SpaceInv, Base
    <3> QED BY <1>4, <2>1, <2>2, <2>3, <2>6, <3>2 DEF KidFits
  <2>7. CASE ctx[r].at \notin {"size", "start", "child"}
    BY <2>1, <2>7 DEF KidFits
  <2> QED BY <2>5, <2>6, <2>7
<1>10. Fresh'
  <2>1. Space(p) \in spaces
    BY <1>1 DEF SpaceInv
  <2> QED BY <1>1, <2>1 DEF Moves, Room, Fresh
<1> QED BY <1>1, <1>6, <1>7, <1>8, <1>9, <1>10 DEF Room, Fitting

\* exec gives its only process a space of one page.
LEMMA ExecRoom ==
  ASSUME Base, Base', SpaceInv, SpaceInv', Room, "join" \in keeps, NEW p \in Slots, Execs(p),
         Sz(p)' = 1, panicked' = panicked, mem' = [mem EXCEPT ![Space(p)] = Image]
  PROVE  Room'
<1>1. PICK n \in Spaces \ spaces : n = proc'[p].pgdir
  BY DEF Execs
<1>2. /\ Runner(p) /\ p \notin Busy /\ ctx[p].at = "user" /\ ctx' = ctx /\ Alive(p) /\ Alive(p)'
      /\ \A q \in Slots : q # p /\ Alive(q) => ~Together(p, q)
      /\ \A q \in Slots \ {p} : proc'[q] = proc[q]
      /\ spaces' = (spaces \cup {n}) \ {Space(p)} /\ panicked' = "none"
  BY <1>1 DEF Execs, SameSlots, Runner, Alive, Room
<1>3. /\ Space(p) \in spaces /\ spaces \subseteq Spaces
      /\ \A d \in Spaces : mem'[d].mapped = IF d = Space(p) THEN {0} ELSE mem[d].mapped
  BY <1>2, Types DEF SpaceInv, Base, Image
<1>4. Space(p)' = n /\ n # Space(p) /\ Pages(p)' = {0}
  BY <1>1, <1>3 DEF Space, Pages, Room, Fresh
<1>5. ASSUME NEW q \in Slots \ {p}, Space(q) \in spaces, ~Together(p, q)
      PROVE  Sz(q)' = Sz(q) /\ Space(q)' = Space(q) /\ Pages(q)' = Pages(q) /\ ~Together(p, q)'
  BY <1>2, <1>3, <1>4, <1>5 DEF Sz, Space, Pages, Together
<1>6. \A q \in Slots \ {p} : Alive(q)' =>
        /\ Alive(q) /\ Sz(q)' = Sz(q) /\ Space(q)' = Space(q) /\ Pages(q)' = Pages(q)
        /\ ~Together(p, q)' /\ ~Together(q, p)' /\ ~Together(q, p)
  BY <1>2, <1>5 DEF SpaceInv, Alive, Together
<1>7. OneCall'
  BY <1>2, <1>6 DEF Room, OneCall, InCall, Exclusive, Together
<1>8. OneSize'
  BY <1>6 DEF Room, OneSize, Together
<1>9. ASSUME NEW r \in Slots, Alive(r)' PROVE Fits(r)'
  <2>1. CASE r = p
    <3>1. Pages(p)' = 0 .. Sz(p)' - 1
      BY <1>4
    <3> QED BY <1>2, <2>1, <3>1 DEF Fits
  <2>2. CASE r # p
    <3>1. Fits(r)
      BY <1>6, <1>9, <2>2 DEF Room, Fitting
    <3>2. ASSUME \A q \in Slots : Alive(q)' /\ Together(r, q)' => ctx'[q].at # "grow"
          PROVE  \A q \in Slots : Alive(q) /\ Together(r, q) => ctx[q].at # "grow"
      <4> SUFFICES ASSUME NEW q \in Slots, Alive(q), Together(r, q) PROVE ctx[q].at # "grow"
        OBVIOUS
      <4>1. q # p
        BY <1>6, <1>9, <2>2
      <4>2. Alive(q)' /\ Space(q)' = Space(q) /\ Space(r)' = Space(r)
        BY <1>2, <1>6, <1>9, <2>2, <4>1 DEF Alive
      <4> QED BY <1>2, <3>2, <4>2 DEF Together
    <3> QED BY <1>2, <1>6, <1>9, <2>2, <3>1, <3>2 DEF Fits, Midway
  <2> QED BY <2>1, <2>2
<1>10. ASSUME NEW r \in Busy' PROVE KidFits(r)'
  <2>1. r \in Busy /\ r \in Slots /\ r # p
    BY <1>2, <1>10 DEF Busy
  <2>2. PICK j \in Slots : j = ctx[r].x
    BY <2>1, BusyIs
  <2>3. KidFits(r) /\ proc'[r] = proc[r] /\ j # p
    BY <1>2, <2>1, <2>2, BusyIs DEF Room, Fitting, Runner
  <2>4. Sz(j)' = Sz(j) /\ Sz(r)' = Sz(r)
    BY <1>2, <2>3 DEF Sz
  <2>5. ctx[r].at = "child" => Pages(j)' = Pages(j)
    <3> SUFFICES ASSUME ctx[r].at = "child" PROVE Pages(j)' = Pages(j)
      OBVIOUS
    <3>1. r \in Forking
      BY <2>1 DEF Forking
    <3>2. Space(j) \in spaces /\ ~Together(p, j)
      BY <1>2, <2>2, <3>1 DEF SpaceInv
    <3> QED BY <1>5, <2>3, <3>2
  <2>6. ctx'[r] = ctx[r] /\ j = ctx'[r].x
    BY <1>2, <2>2
  <2> QED BY <2>2, <2>3, <2>4, <2>5, <2>6 DEF KidFits
<1>11. Fresh'
  BY <1>2, <1>3 DEF Room, Fresh
<1> QED BY <1>2, <1>7, <1>8, <1>9, <1>10, <1>11 DEF Room, Fitting

\* What holds around a step where programs take the lock and join their threads.
Around ==
  /\ Whole /\ Whole' /\ Room /\ UNCHANGED keeps
  /\ "lock" \in keeps /\ "join" \in keeps

LEMMA FreeOf == ASSUME "lock" \in keeps, NEW p \in Slots, LockFree(p) PROVE Free(p)
BY DEF LockFree, Free, Exclusive

LEMMA GoIs ==
  ASSUME TypeOK, NEW p \in Slots, NEW place, NEW x, NEW y, NEW z, Go(p, place, x, y, z)
  PROVE  ctx'[p].at = place /\ ctx'[p].x = x /\ ctx'[p].y = y /\ ctx'[p].z = z /\ Others(p)
BY Types DEF Go, Others

LEMMA ReturnIs ==
  ASSUME TypeOK, NEW p \in Slots, Return(p)
  PROVE  ctx'[p].at = "user" /\ Others(p)
BY ReturnType DEF Others

SameMapped == \A d \in Spaces : mem'[d].mapped = mem[d].mapped

LEMMA SameIsKept == ASSUME TypeOK, Room, SameMapped, UNCHANGED spaces PROVE PagesKept
BY Types DEF SameMapped, PagesKept, Room, Fresh

LEMMA SameMappedIs ==
  ASSUME TypeOK, NEW d, NEW v, mem' = [mem EXCEPT ![d] = v],
         d \in Spaces => v.mapped = mem[d].mapped
  PROVE  SameMapped
BY Types DEF SameMapped

LEMMA ConservesRoom == ASSUME Around, NEW p \in Slots, Conserves(p) PROVE Room'
BY ConservesKeeps DEF Around, Whole

LEMMA QuietRoom ==
  ASSUME Around, NEW p \in Slots, Quiet(p) \/ Sleeps(p), \A q \in Slots : Sz(q)' = Sz(q),
         SameMapped, Enters(p), panicked' = panicked
  PROVE  Room'
<1>1. UNCHANGED spaces /\ TypeOK /\ Base /\ Room
  BY DEF Quiet, Sleeps, Around, Whole, Base
<1>2. PagesKept
  BY <1>1, SameIsKept
<1> QED BY <1>1, <1>2, QuietConserves, ConservesRoom

LEMMA AllocatesRoom ==
  ASSUME Around, NEW p \in Slots, NEW q \in Slots, Allocates(p, q), UNCHANGED <<mem, panicked>>,
         ctx[p].at = "clone" \/ (Free(p) /\ ctx[p].at = "user")
  PROVE  Room'
<1>1. TypeOK /\ Base /\ Room /\ UNCHANGED spaces
  BY DEF Around, Whole, Base, Allocates
<1>2. PagesKept
  BY <1>1, SameIsKept DEF SameMapped
<1>3. Enters(p) /\ (p \in Busy' => KidFits(p)')
  BY DEF Allocates, Enters, Exclusive, KidFits
<1>4. q # p /\ ~Alive(q) /\ ~Alive(q)' /\ proc[q].state # "EMBRYO"
  BY DEF Allocates, Runner, Alive
<1>5. Conserves(p)
  BY <1>1, <1>2, <1>3, <1>4, SlotConserves DEF Allocates
<1> QED BY <1>5, ConservesRoom

\* The steps of clone and fork that fill a slot, and the failure of fork.
LEMMA FillsRoom ==
  ASSUME Around, NEW p \in Slots, Fills(p) \/ GivesUp(p), PagesKept, panicked' = panicked,
         ctx'[p].at # "grow", p \in Busy' => KidFits(p)'
  PROVE  Room'
<1>1. PICK k \in Slots : k = ctx[p].x
  BY BusyIs DEF Fills, GivesUp, Finishes, Around, Whole
<1>2. /\ Runner(p) /\ Others(p) /\ p \in Busy /\ SameSlots({k})
      /\ proc'[k].state \in {"EMBRYO", "UNUSED"}
  BY <1>1 DEF Fills, GivesUp, Finishes
<1>3. k # p /\ proc[k].state = "EMBRYO" /\ Base /\ Room
  BY <1>1, <1>2, BusyIs DEF Around, Whole
<1>4. ~Alive(k)' /\ ~Alive(k) /\ Enters(p)
  BY <1>2, <1>3 DEF Alive, Enters, Busy, Exclusive
<1>5. Conserves(p)
  BY <1>1, <1>2, <1>3, <1>4, SlotConserves
<1> QED BY <1>5, ConservesRoom

LEMMA ReapsRoom ==
  ASSUME Around, NEW p \in Slots, NEW q \in Slots, Reaps(p, q), PagesKept, panicked' = panicked,
         ctx[p].at # "grow", ctx'[p].at \in {"user", "forget"}
  PROVE  Room'
<1>1. /\ Runner(p) /\ Others(p) /\ p \notin Busy' /\ SameSlots({q}) /\ Base
      /\ proc[q].state = "ZOMBIE" /\ proc'[q].state = "UNUSED"
  BY DEF Reaps, Around, Whole
<1>2. q # p /\ ~Alive(q)' /\ ctx[q].at = "user"
  BY <1>1 DEF Runner, Alive, Base, CtxInv, CtxOf
<1>3. Enters(p)
  BY DEF Enters, Exclusive
<1>4. Conserves(p)
  BY <1>1, <1>2, <1>3, SlotConserves
<1> QED BY <1>4, ConservesRoom

-----------------------------------------------------------------------------
(* Each action keeps the sizes and pages                                   *)

LEMMA CreateRoom == ASSUME Around, NEW p \in Slots, Create(p) PROVE Room'
<1>1. Quiet(p) /\ TypeOK
  BY CreateKind DEF Around, Whole, Base
<1>2. PICK s : /\ mem' = [mem EXCEPT ![Space(p)].blocks = @ \cup {s}]
               /\ Go(p, "clone", 0, s, 0)
  BY DEF Create
<1>3. ctx[p].at = "user" /\ LockFree(p) /\ UNCHANGED <<proc, panicked>>
  BY DEF Create, Makes, At
<1>4. SameMapped
  <2> DEFINE v == [mem[Space(p)] EXCEPT !.blocks = @ \cup {s}]
  <2>1. mem' = [mem EXCEPT ![Space(p)] = v]
    BY <1>2
  <2>2. Space(p) \in Spaces => v.mapped = mem[Space(p)].mapped
    BY <1>1, Types DEF Mem
  <2> HIDE DEF v
  <2> QED BY <1>1, <2>1, <2>2, SameMappedIs
<1>5. Enters(p)
  BY <1>1, <1>2, <1>3, GoIs, FreeOf DEF Enters, Exclusive, Around
<1> QED BY <1>1, <1>3, <1>4, <1>5, QuietRoom DEF Sz

LEMMA CloneRoom == ASSUME Around, NEW p \in Slots, Clone(p) PROVE Room'
<1>1. TypeOK /\ Base /\ UNCHANGED keeps
  BY DEF Around, Whole, Base
<1>2. At(p, "clone") /\ ctx[p].at = "clone" /\ UNCHANGED <<spaces, twice, panicked>>
  BY DEF Clone, At
<1>3. CASE AllocProc(p, "share", ctx[p].y) /\ UNCHANGED mem
  <2>1. ctx[p].y \in Stacks /\ ctx[p].y \in Int /\ p # initproc
    BY <1>1, <1>2, AtIs, Types DEF CtxOf, Places
  <2>2. PICK q \in Slots : Allocates(p, q)
    BY <1>1, <1>2, <1>3, <2>1, AllocatesIs
  <2>3. UNCHANGED <<mem, panicked>>
    BY <1>2, <1>3
  <2> QED BY <1>2, <2>2, <2>3, AllocatesRoom
<1>4. CASE /\ mem' = [mem EXCEPT ![Space(p)].blocks = @ \ {ctx[p].y}]
           /\ Return(p)
           /\ UNCHANGED <<proc, nextpid>>
  <2>1. Quiet(p)
    <3>1. Quiet(p) \/ \E q \in Slots : Allocates(p, q)
      BY <1>1, CloneKind
    <3> QED BY <1>4, <3>1 DEF Allocates
  <2>2. SameMapped
    <3> DEFINE v == [mem[Space(p)] EXCEPT !.blocks = @ \ {ctx[p].y}]
    <3>1. mem' = [mem EXCEPT ![Space(p)] = v]
      BY <1>4
    <3>2. Space(p) \in Spaces => v.mapped = mem[Space(p)].mapped
      BY <1>1, Types DEF Mem
    <3> HIDE DEF v
    <3> QED BY <1>1, <3>1, <3>2, SameMappedIs
  <2>3. Enters(p)
    BY <1>1, <1>2, <1>4, ReturnIs DEF Enters, Exclusive
  <2> QED BY <1>2, <1>4, <2>1, <2>2, <2>3, QuietRoom DEF Sz
<1> QED BY <1>3, <1>4 DEF Clone

LEMMA CloneShareRoom == ASSUME Around, NEW p \in Slots, CloneShare(p) PROVE Room'
<1>1. TypeOK /\ Shares(p) /\ Room
  BY CloneShareKind DEF Around, Whole, Base
<1>2. Go(p, "size", ctx[p].x, ctx[p].y, proc[p].sz) /\ UNCHANGED <<mem, spaces, panicked>>
  BY DEF CloneShare
<1>3. ctx'[p].at = "size" /\ ctx'[p].z = proc[p].sz
  BY <1>1, <1>2, GoIs
<1>4. proc'[p] = proc[p]
  <2>1. p # ctx[p].x
    BY <1>1, BusyIs DEF Shares, Fills, Around, Whole
  <2> QED BY <1>1, <2>1 DEF Shares, Fills, SameSlots
<1>5. KidFits(p)'
  BY <1>3, <1>4 DEF KidFits, Sz
<1>6. PagesKept
  BY <1>1, <1>2, SameIsKept DEF SameMapped
<1> QED BY <1>1, <1>2, <1>3, <1>5, <1>6, FillsRoom DEF Shares

LEMMA CloneSizeRoom == ASSUME Around, NEW p \in Slots, CloneSize(p) PROVE Room'
<1>1. TypeOK /\ Sizes(p) /\ Room
  BY CloneSizeKind DEF Around, Whole, Base
<1>2. Go(p, "start", ctx[p].x, ctx[p].y, 0) /\ UNCHANGED <<mem, spaces, panicked>>
  BY DEF CloneSize
<1>3. ctx'[p].at = "start" /\ ctx'[p].x = ctx[p].x
  BY <1>1, <1>2, GoIs
<1>4. PICK k \in Slots : k = ctx[p].x /\ k = ctx'[p].x /\ k # p
  BY <1>1, <1>3, BusyIs DEF Sizes, Fills, Around, Whole
<1>5. Sz(k)' = ctx[p].z /\ Sz(p)' = Sz(p)
  <2>1. proc' = [proc EXCEPT ![k].sz = ctx[p].z, ![k].parent = p, ![k].stack = StackBase(ctx[p].y)]
    BY <1>4 DEF CloneSize
  <2>2. proc \in [Slots -> Proc]
    BY <1>1, Types
  <2>3. proc' = [proc EXCEPT ![k] = [proc[k] EXCEPT !.sz = ctx[p].z, !.parent = p,
                                                    !.stack = StackBase(ctx[p].y)]]
    BY <2>1, <2>2
  <2> QED BY <1>4, <2>2, <2>3 DEF Sz, Proc
<1>6. ctx[p].z = Sz(p)
  <2>1. p \in Busy /\ ctx[p].at = "size"
    BY <1>1 DEF Sizes, Fills
  <2> QED BY <1>1, <2>1 DEF Room, Fitting, KidFits
<1>7. KidFits(p)'
  BY <1>3, <1>4, <1>5, <1>6 DEF KidFits
<1>8. PagesKept
  BY <1>1, <1>2, SameIsKept DEF SameMapped
<1> QED BY <1>1, <1>2, <1>3, <1>7, <1>8, FillsRoom DEF Sizes

LEMMA CloneStartRoom == ASSUME Around, NEW p \in Slots, CloneStart(p) PROVE Room'
<1>1. TypeOK /\ Starts(p) /\ Base /\ Base' /\ Family /\ SpaceInv /\ SpaceInv' /\ Room
  BY CloneStartKind DEF Around, Whole, Base
<1>2. ctx'[p].at = "find" /\ UNCHANGED <<mem, panicked>>
  BY <1>1, GoIs DEF CloneStart
<1>3. \A q \in Slots : Sz(q)' = Sz(q)
  BY <1>1, BusyIs, StateOf DEF CloneStart, Sz, Starts, Finishes, States
<1> QED BY <1>1, <1>2, <1>3, StartsRoom

LEMMA ForkStartRoom == ASSUME Around, NEW p \in Slots, ForkStart(p) PROVE Room'
<1>1. TypeOK /\ Starts(p) /\ Base /\ Base' /\ Family /\ SpaceInv /\ SpaceInv' /\ Room
  BY ForkStartKind DEF Around, Whole, Base
<1>2. ctx'[p].at = "user" /\ UNCHANGED <<mem, panicked>>
  BY <1>1, ReturnIs DEF ForkStart
<1>3. \A q \in Slots : Sz(q)' = Sz(q)
  BY <1>1, BusyIs, StateOf DEF ForkStart, Sz, Starts, Finishes, States
<1> QED BY <1>1, <1>2, <1>3, StartsRoom

\* The stores of thread_create and thread_join into the table of stacks.
LEMMA TableRoom ==
  ASSUME Around, NEW p \in Slots, FindEntry(p) \/ PutAddress(p) \/ PutPid(p) \/ FreeStack(p)
  PROVE  Room'
<1>1. TypeOK /\ Quiet(p)
  BY FindEntryKind, PutAddressKind, PutPidKind, FreeStackKind DEF Around, Whole, Base
<1>2. UNCHANGED <<proc, panicked>>
  BY DEF FindEntry, PutAddress, PutPid, FreeStack
<1>3. SameMapped
  <2>1. CASE FindEntry(p)
    BY <2>1 DEF FindEntry, SameMapped
  <2>2. CASE PutAddress(p)
    <3> DEFINE v == [mem[Space(p)] EXCEPT !.table[ctx[p].z].addr = ctx[p].y]
    <3>1. mem' = [mem EXCEPT ![Space(p)] = v]
      BY <2>2 DEF PutAddress
    <3>2. Space(p) \in Spaces => v.mapped = mem[Space(p)].mapped
      BY <1>1, Types DEF Mem
    <3> HIDE DEF v
    <3> QED BY <1>1, <3>1, <3>2, SameMappedIs
  <2>3. CASE PutPid(p)
    <3> DEFINE v == [mem[Space(p)] EXCEPT !.table[ctx[p].z].pid = ctx[p].x]
    <3>1. mem' = [mem EXCEPT ![Space(p)] = v]
      BY <2>3 DEF PutPid
    <3>2. Space(p) \in Spaces => v.mapped = mem[Space(p)].mapped
      BY <1>1, Types DEF Mem
    <3> HIDE DEF v
    <3> QED BY <1>1, <3>1, <3>2, SameMappedIs
  <2>4. CASE FreeStack(p)
    <3>1. PICK bl, t : mem' = [mem EXCEPT ![Space(p)] =
                                 [mem[Space(p)] EXCEPT !.blocks = bl, !.table = t]]
      BY <2>4 DEF FreeStack
    <3> DEFINE v == [mem[Space(p)] EXCEPT !.blocks = bl, !.table = t]
    <3>2. Space(p) \in Spaces => v.mapped = mem[Space(p)].mapped
      BY <1>1, Types DEF Mem
    <3>3. mem' = [mem EXCEPT ![Space(p)] = v]
      BY <3>1
    <3> HIDE DEF v
    <3> QED BY <1>1, <3>2, <3>3, SameMappedIs
  <2> QED BY <2>1, <2>2, <2>3, <2>4
<1>4. Enters(p)
  <2>1. ctx[p].at \in {"find", "addr", "pid", "forget"}
    BY DEF FindEntry, PutAddress, PutPid, FreeStack, At
  <2>2. ctx'[p].at \in {"user", "addr", "pid"}
    BY <1>1, GoIs, ReturnIs DEF FindEntry, PutAddress, PutPid, FreeStack
  <2>3. ctx[p].at = "forget" => ctx'[p].at = "user"
    BY <1>1, ReturnIs DEF FindEntry, PutAddress, PutPid, FreeStack, At
  <2> QED BY <2>1, <2>2, <2>3 DEF Enters, Exclusive
<1> QED BY <1>1, <1>2, <1>3, <1>4, QuietRoom DEF Sz

LEMMA ForkRoom == ASSUME Around, NEW p \in Slots, Fork(p) PROVE Room'
<1>1. PICK q \in Slots : Allocates(p, q)
  BY ForkKind DEF Around, Whole
<1>2. Free(p) /\ ctx[p].at = "user" /\ UNCHANGED <<mem, panicked>>
  BY FreeOf DEF Fork, Makes, At, Around
<1> QED BY <1>1, <1>2, AllocatesRoom

LEMMA ForkCopyRoom == ASSUME Around, NEW p \in Slots, ForkCopy(p) PROVE Room'
<1> DEFINE k == ctx[p].x
           free == Spaces \ spaces
           d == Min(free)
           pages == 0 .. proc[p].sz - 1
<1>1. /\ TypeOK /\ Base /\ Base' /\ Room /\ UNCHANGED keeps
      /\ GivesUp(p) \/ Copies(p) \/ UNCHANGED <<proc, nextpid, ctx, spaces, twice>>
  BY ForkCopyKind DEF Around, Whole, Base
<1>2. At(p, "copy")
  BY DEF ForkCopy
<1>3. /\ p \in Busy /\ ctx[p].at = "copy" /\ Runner(p)
      /\ k \in Slots /\ proc[k].state = "EMBRYO" /\ k # p
  BY <1>1, <1>2, KidIs
<1>4. Alive(p) /\ Pages(p) = pages
  BY <1>1, <1>3, NobodyElse DEF InCall, Exclusive, Sz, Alive, Runner
<1>5. CASE /\ proc' = [proc EXCEPT ![k].state = "UNUSED"] /\ Return(p)
           /\ UNCHANGED <<mem, spaces, panicked>>
  <2>1. ctx'[p].at = "user" /\ Others(p)
    BY <1>1, <1>5, ReturnIs
  <2>2. GivesUp(p)
    <3>1. proc'[k].state = "UNUSED"
      BY <1>1, <1>3, <1>5, StateOf DEF States
    <3>2. proc'[k].state # proc[k].state
      BY <1>3, <3>1
    <3> QED BY <1>1, <3>1, <3>2 DEF Copies, Fills
  <2>3. PagesKept
    BY <1>1, <1>5, SameIsKept DEF SameMapped
  <2> QED BY <1>5, <2>1, <2>2, <2>3, FillsRoom DEF Busy
<1>6. CASE /\ free # {}
           /\ spaces' = spaces \cup {d}
           /\ mem' = [mem EXCEPT ![d] = [mem[Space(p)] EXCEPT !.mapped = pages]]
           /\ proc' = [proc EXCEPT ![k].pgdir = d, ![k].sz = proc[p].sz, ![k].parent = p]
           /\ Go(p, "child", k, 0, 0)
           /\ pages \subseteq mem[Space(p)].mapped
           /\ UNCHANGED panicked
  <2>1. d \in free
    <3>1. free \in SUBSET Nat
      BY ThreadsAssumption DEF Spaces
    <3> QED BY <1>6, <3>1, MinIs
  <2> HIDE DEF d, pages
  <2>2. ctx'[p].at = "child" /\ ctx'[p].x = k
    BY <1>1, <1>6, GoIs
  <2>3. Copies(p)
    BY <1>1, <1>3, <2>2 DEF GivesUp, Finishes, Busy
  <2>4. PICK j \in Slots : j = k /\ j = ctx'[p].x
    BY <1>3, <2>2
  <2>5. Space(j)' = d /\ Sz(j)' = proc[p].sz
    <3>1. proc \in [Slots -> Proc]
      BY <1>1, Types
    <3>2. proc' = [proc EXCEPT ![j] = [proc[j] EXCEPT !.pgdir = d, !.sz = proc[p].sz,
                                                      !.parent = p]]
      BY <1>6, <2>4, <3>1
    <3> QED BY <3>1, <3>2 DEF Sz, Space, Proc
  <2>6. \A e \in Spaces : mem'[e].mapped = IF e = d THEN pages ELSE mem[e].mapped
    <3>1. Space(p) \in Spaces
      BY <1>1, <1>4 DEF Base, Placed
    <3>2. mem[Space(p)] \in Mem /\ mem \in [Spaces -> Mem]
      BY <1>1, <3>1, Types
    <3> QED BY <1>6, <3>2 DEF Mem
  <2>7. KidFits(p)'
    <3>1. Pages(j)' = pages
      BY <2>1, <2>5, <2>6 DEF Pages
    <3> QED BY <2>2, <2>4, <2>5, <3>1 DEF KidFits, pages
  <2>8. PagesKept
    <3>1. spaces \subseteq Spaces
      BY <1>1, Types
    <3> QED BY <1>1, <1>6, <2>1, <2>6, <3>1 DEF PagesKept, Room, Fresh
  <2>9. Fills(p)
    BY <2>3 DEF Copies
  <2> QED BY <1>6, <2>2, <2>7, <2>8, <2>9, FillsRoom
<1>7. CASE ~(pages \subseteq mem[Space(p)].mapped)
  BY <1>4, <1>7 DEF Pages
<1> QED BY <1>5, <1>6, <1>7 DEF ForkCopy

LEMMA ExitRoom == ASSUME Around, NEW p \in Slots, Exit(p) PROVE Room'
<1>1. TypeOK /\ Exits(p) /\ Base /\ Room
  BY ExitKind DEF Around, Whole, Base
<1>2. UNCHANGED <<ctx, mem, spaces, panicked>>
  BY DEF Exit
<1>3. \A q \in Slots : Sz(q)' = Sz(q)
  <2> SUFFICES ASSUME NEW q \in Slots PROVE proc'[q].sz = proc[q].sz
    BY DEF Sz
  <2>1. proc[q] \in Proc
    BY <1>1, Types
  <2>2. PICK s, t : proc'[q] = [proc[q] EXCEPT !.parent = s, !.state = t]
                    \/ proc'[q] = [proc[q] EXCEPT !.state = t]
    BY DEF Exit
  <2> QED BY <2>1, <2>2 DEF Proc
<1>4. \A q \in Slots : (Alive(q)' <=> Alive(q)) /\ Kept(q)
  <2> SUFFICES ASSUME NEW q \in Slots PROVE (Alive(q)' <=> Alive(q)) /\ Kept(q)
    OBVIOUS
  <2>1. Kept(q)
    BY <1>1, <1>3 DEF Exits, Kept, Space
  <2>2. CASE q = p
    BY <1>1, <2>1, <2>2 DEF Exits, Runner, Alive
  <2>3. CASE q # p
    <3>1. proc'[q].state = proc[q].state
          \/ (proc[q].state = "SLEEPING" /\ proc'[q].state = "RUNNABLE")
      <4>1. proc'[q].state = IF q \in Woken(p) /\ proc[q].state = "SLEEPING"
                             THEN "RUNNABLE" ELSE proc[q].state
        BY <1>1, <2>3 DEF Exits
      <4> QED BY <4>1
    <3> QED BY <2>1, <3>1 DEF Alive
  <2> QED BY <2>2, <2>3
<1>5. PagesKept /\ Others(p) /\ Enters(p) /\ p \notin Busy'
  BY <1>1, <1>2, SameIsKept DEF SameMapped, Others, Enters, Exits, Exclusive, Busy
<1>6. ASSUME NEW r \in Busy \ {p} PROVE Kept(ctx[r].x)
  <2>1. PICK j \in Slots : j = ctx[r].x /\ j = ctx'[r].x
    BY <1>1, <1>2, BusyIs
  <2> QED BY <1>4, <2>1 DEF Kept, Sz, Space
<1>7. Conserves(p)
  BY <1>1, <1>2, <1>4, <1>5, <1>6 DEF Conserves, Exits
<1> QED BY <1>7, ConservesRoom

LEMMA WaitRoom == ASSUME Around, NEW p \in Slots, Wait(p) PROVE Room'
<1> DEFINE kids == Children(p)
           q == Min(Zombies(kids))
<1>1. PICK now \in {"user", "wait"} : At(p, now)
  BY DEF Wait, Makes
<1>2. /\ TypeOK /\ Base /\ Room /\ UNCHANGED <<panicked, keeps>> /\ Runner(p)
      /\ ctx[p].at \in {"user", "wait"}
  BY <1>1 DEF Wait, Around, Whole, Base, At, Runner
<1>3. Quiet(p) \/ Sleeps(p) \/ \E r \in Slots : Reaps(p, r)
  BY <1>2, WaitKind
<1>4. CASE Zombies(kids) # {} /\ proc' = Reaped(q) /\ FreeVm(Space(q)) /\ Return(p)
  <2>1. q \in Slots /\ proc[q].state = "ZOMBIE"
    BY <1>4, FamilyIs
  <2> HIDE DEF q
  <2>2. PICK r \in Slots : Reaps(p, r)
    <3>1. proc'[q].state = "UNUSED"
      BY <1>2, <1>4, <2>1, ReapedIs
    <3>2. ~Quiet(p)
      BY <2>1, <3>1 DEF Quiet, SameStates
    <3>3. ~Sleeps(p)
      BY <1>2, <2>1, <3>1 DEF Sleeps, SameStates, Runner
    <3> QED BY <1>3, <3>2, <3>3
  <2>3. PagesKept
    <3>1. /\ mem \in [Spaces -> Mem] /\ Image.mapped = {0}
          /\ mem' = [mem EXCEPT ![Space(q)] = Image] /\ spaces' = spaces \ {Space(q)}
          /\ spaces \subseteq Spaces
      BY <1>2, <1>4, Types DEF FreeVm, Image
    <3> QED BY <1>2, <3>1 DEF PagesKept, Room, Fresh
  <2>4. ctx'[p].at = "user"
    BY <1>2, <1>4, ReturnIs
  <2> QED BY <1>2, <2>2, <2>3, <2>4, ReapsRoom
<1>5. CASE Return(p) /\ UNCHANGED <<proc, mem, spaces, twice>>
  <2>1. ctx'[p].at = "user"
    BY <1>2, <1>5, ReturnIs
  <2>2. Enters(p)
    BY <1>2, <2>1 DEF Enters, Exclusive
  <2>3. Quiet(p) \/ Sleeps(p)
    BY <1>3, <1>5 DEF Reaps
  <2> QED BY <1>2, <1>5, <2>2, <2>3, QuietRoom DEF SameMapped, Sz
<1>6. CASE /\ Zombies(kids) = {} /\ proc' = [proc EXCEPT ![p].state = "SLEEPING"]
           /\ Go(p, "wait", 0, 0, 0) /\ UNCHANGED <<mem, spaces, twice>>
  <2>1. ctx'[p].at = "wait"
    BY <1>2, <1>6, GoIs
  <2>2. Enters(p)
    BY <1>2, <2>1 DEF Enters, Exclusive
  <2>3. /\ proc'[p].state = "SLEEPING" /\ \A r \in Slots \ {p} : proc'[r] = proc[r]
        /\ \A r \in Slots : proc'[r].sz = proc[r].sz
    BY <1>2, <1>6, StateOf DEF States
  <2>4. ~(\E r \in Slots : Reaps(p, r))
    BY <1>2, <2>3 DEF Reaps, Runner
  <2> QED BY <1>2, <1>3, <1>6, <2>2, <2>3, <2>4, QuietRoom DEF SameMapped, Sz
<1> QED BY <1>4, <1>5, <1>6 DEF Wait

LEMMA JoinRoom == ASSUME Around, NEW p \in Slots, Join(p) PROVE Room'
<1> DEFINE kids == Threads(p)
           q == Min(Zombies(kids))
<1>1. PICK now \in {"user", "join"} : At(p, now)
  BY DEF Join, Makes
<1>2. /\ TypeOK /\ Base /\ Room /\ UNCHANGED <<mem, spaces, twice, panicked, keeps>> /\ Runner(p)
      /\ ctx[p].at \in {"user", "join"}
  BY <1>1 DEF Join, Around, Whole, Base, At, Runner
<1>3. Quiet(p) \/ Sleeps(p) \/ \E r \in Slots : Reaps(p, r)
  BY <1>2, JoinKind
<1>4. PagesKept /\ SameMapped
  BY <1>2, SameIsKept DEF SameMapped
<1>5. CASE Zombies(kids) # {} /\ proc' = Reaped(q) /\ Go(p, "forget", proc[q].pid, proc[q].stack, 0)
  <2>1. q \in Slots /\ proc[q].state = "ZOMBIE"
    BY <1>5, FamilyIs
  <2> HIDE DEF q
  <2>2. PICK r \in Slots : Reaps(p, r)
    <3>1. proc'[q].state = "UNUSED"
      BY <1>2, <1>5, <2>1, ReapedIs
    <3>2. ~Quiet(p)
      BY <2>1, <3>1 DEF Quiet, SameStates
    <3>3. ~Sleeps(p)
      BY <1>2, <2>1, <3>1 DEF Sleeps, SameStates, Runner
    <3> QED BY <1>3, <3>2, <3>3
  <2>3. ctx'[p].at = "forget"
    BY <1>2, <1>5, GoIs
  <2> QED BY <1>2, <1>4, <2>2, <2>3, ReapsRoom
<1>6. CASE Return(p) /\ UNCHANGED proc
  <2>1. ctx'[p].at = "user"
    BY <1>2, <1>6, ReturnIs
  <2>2. Enters(p)
    BY <1>2, <2>1 DEF Enters, Exclusive
  <2>3. Quiet(p) \/ Sleeps(p)
    BY <1>3, <1>6 DEF Reaps
  <2> QED BY <1>2, <1>4, <1>6, <2>2, <2>3, QuietRoom DEF Sz
<1>7. CASE /\ Zombies(kids) = {} /\ proc' = [proc EXCEPT ![p].state = "SLEEPING"]
           /\ Go(p, "join", 0, 0, 0)
  <2>1. ctx'[p].at = "join"
    BY <1>2, <1>7, GoIs
  <2>2. Enters(p)
    BY <1>2, <2>1 DEF Enters, Exclusive
  <2>3. /\ proc'[p].state = "SLEEPING" /\ \A r \in Slots \ {p} : proc'[r] = proc[r]
        /\ \A r \in Slots : proc'[r].sz = proc[r].sz
    BY <1>2, <1>7, StateOf DEF States
  <2>4. ~(\E r \in Slots : Reaps(p, r))
    BY <1>2, <2>3 DEF Reaps, Runner
  <2> QED BY <1>2, <1>3, <1>4, <2>2, <2>3, <2>4, QuietRoom DEF Sz
<1> QED BY <1>5, <1>6, <1>7 DEF Join, Joinable, Exited

LEMMA ExecsRoom == ASSUME Around, NEW p \in Slots, Exec(p) PROVE Room'
<1>1. /\ TypeOK /\ Execs(p) /\ Base /\ Base' /\ SpaceInv /\ SpaceInv' /\ Room
      /\ "join" \in keeps
  BY ExecKind DEF Around, Whole, Base
<1>2. mem' = [mem EXCEPT ![Space(p)] = Image] /\ panicked' = panicked
  BY DEF Exec
<1>3. Sz(p)' = 1
  <2>1. PICK n : proc' = [proc EXCEPT ![p].pgdir = n, ![p].sz = 1]
    BY DEF Exec
  <2>2. proc \in [Slots -> Proc]
    BY <1>1, Types
  <2>3. proc' = [proc EXCEPT ![p] = [proc[p] EXCEPT !.pgdir = n, !.sz = 1]]
    BY <2>1, <2>2
  <2> QED BY <2>2, <2>3 DEF Sz, Proc
<1> QED BY <1>1, <1>2, <1>3, ExecRoom

LEMMA GrowRoom == ASSUME Around, NEW p \in Slots, Grow(p) PROVE Room'
<1>1. TypeOK /\ Quiet(p)
  BY GrowKind DEF Around, Whole, Base
<1>2. PICK n : Go(p, "grow", proc[p].sz, n, proc[p].sz)
  BY DEF Grow
<1>3. ctx[p].at = "user" /\ Free(p) /\ UNCHANGED <<proc, mem, panicked>>
  BY FreeOf DEF Grow, Makes, At, Around
<1>4. Enters(p)
  BY <1>1, <1>2, <1>3, GoIs DEF Enters, Sz
<1> QED BY <1>1, <1>3, <1>4, QuietRoom DEF SameMapped, Sz

\* Where sbrk has come to, in numbers.
LEMMA MidwayIs ==
  ASSUME Around, NEW p \in Slots, At(p, "grow")
  PROVE  /\ TypeOK /\ Runner(p) /\ Alive(p) /\ Midway(p) /\ ctx[p].at = "grow"
         /\ ctx[p].x \in Nat /\ ctx[p].y \in Nat /\ ctx[p].z \in Nat
         /\ Space(p) \in Spaces /\ Room /\ Base /\ Base' /\ Family /\ SpaceInv
         /\ panicked = "none"
<1>1. Base /\ Base' /\ Room /\ TypeOK /\ Family /\ SpaceInv /\ "grow" \in Places
  BY DEF Around, Whole, Base, Places
<1>2. Runner(p) /\ ctx[p].at = "grow" /\ CtxOf(p) /\ Alive(p)
  BY <1>1, AtIs DEF Alive, Runner
<1> QED BY <1>1, <1>2 DEF Room, Fitting, Fits, Base, Placed, CtxOf

LEMMA GrowPageRoom == ASSUME Around, NEW p \in Slots, GrowPage(p) PROVE Room'
<1> DEFINE a == ctx[p].x
           b == ctx[p].y
           c == ctx[p].z
           m == Pages(p)
<1>1. At(p, "grow")
  BY DEF GrowPage
<1>2. /\ TypeOK /\ Runner(p) /\ Alive(p) /\ Midway(p) /\ ctx[p].at = "grow"
      /\ a \in Nat /\ b \in Nat /\ c \in Nat
      /\ Space(p) \in Spaces /\ Room /\ Base /\ Base' /\ Family /\ SpaceInv
  BY <1>1, MidwayIs
<1>3. UNCHANGED <<proc, spaces>>
  BY DEF GrowPage
<1>4. m = 0 .. a - 1 /\ c = Sz(p) /\ ((c <= a /\ a <= b) \/ (b <= a /\ a <= c))
  <2>1. Midway(p)
    BY <1>2
  <2> QED BY <2>1 DEF Midway
<1>5. ASSUME NEW n, mem' = [mem EXCEPT ![Space(p)].mapped = n], UNCHANGED panicked,
             Others(p), ctx'[p].at \in {"grow", "user"},
             ctx'[p].at = "grow" => n = 0 .. ctx'[p].x - 1 /\ ctx'[p].z = Sz(p)
                /\ \/ ctx'[p].z <= ctx'[p].x /\ ctx'[p].x <= ctx'[p].y
                   \/ ctx'[p].y <= ctx'[p].x /\ ctx'[p].x <= ctx'[p].z,
             ctx'[p].at = "user" => n = 0 .. Sz(p) - 1
      PROVE  Room'
  <2>1. mem \in [Spaces -> Mem]
    BY <1>2, Types
  <2>2. mem' = [mem EXCEPT ![Space(p)] = [mem[Space(p)] EXCEPT !.mapped = n]]
    BY <1>5
  <2>3. \A d \in Spaces : mem'[d].mapped = IF d = Space(p) THEN n ELSE mem[d].mapped
    BY <2>1, <2>2 DEF Mem
  <2>4. Pages(p)' = n /\ Sz(p)' = Sz(p)
    BY <1>2, <1>3, <2>3 DEF Pages, Space, Sz
  <2>5. Moves(p)
    <3>1. \A q \in Slots : Sz(q)' = Sz(q)
      BY <1>3 DEF Sz
    <3>2. \A q \in Slots : Together(p, q) /\ Alive(q) => Sz(q)' = Sz(p)'
      BY <1>2, <3>1 DEF Room, OneSize
    <3>3. ctx'[p].at = "grow" => Midway(p)'
      BY <1>5, <2>4 DEF Midway
    <3>4. ctx'[p].at = "user" => Pages(p)' = 0 .. Sz(p)' - 1
      BY <1>5, <2>4
    <3> QED BY <1>2, <1>3, <1>5, <2>3, <3>1, <3>2, <3>3, <3>4 DEF Moves
  <2> QED BY <1>2, <2>5, MovesKeeps
<1> HIDE DEF a, b, c, m
<1>6. CASE a < b /\ a \in m
  BY <1>2, <1>4, <1>6
<1>7. CASE /\ a < b /\ mem' = [mem EXCEPT ![Space(p)].mapped = m \cup {a}]
           /\ Go(p, "grow", a + 1, b, c) /\ UNCHANGED panicked
  <2>1. ctx'[p].at = "grow" /\ ctx'[p].x = a + 1 /\ ctx'[p].y = b /\ ctx'[p].z = c /\ Others(p)
    BY <1>2, <1>7, GoIs
  <2>2. m \cup {a} = 0 .. (a + 1) - 1 /\ c <= a + 1 /\ a + 1 <= b
    BY <1>2, <1>4, <1>7
  <2> DEFINE n == m \cup {a}
  <2>3. n = 0 .. ctx'[p].x - 1 /\ ctx'[p].z = Sz(p)
    BY <1>4, <2>1, <2>2
  <2>4. mem' = [mem EXCEPT ![Space(p)].mapped = n]
    BY <1>7
  <2> HIDE DEF n
  <2> QED BY <1>5, <1>7, <2>1, <2>2, <2>3, <2>4
<1>8. CASE /\ a < b /\ mem' = [mem EXCEPT ![Space(p)].mapped = m \ (c .. b - 1)]
           /\ Return(p) /\ UNCHANGED panicked
  <2>1. ctx'[p].at = "user" /\ Others(p)
    BY <1>2, <1>8, ReturnIs
  <2>2. c <= a
    BY <1>2, <1>4, <1>8
  <2>3. m \ (c .. b - 1) = 0 .. c - 1
    BY <1>2, <1>4, <1>8, <2>2
  <2> QED BY <1>4, <1>5, <1>8, <2>1, <2>3
<1>9. CASE /\ a > b /\ mem' = [mem EXCEPT ![Space(p)].mapped = m \ {a - 1}]
           /\ Go(p, "grow", a - 1, b, c) /\ UNCHANGED panicked
  <2>1. ctx'[p].at = "grow" /\ ctx'[p].x = a - 1 /\ ctx'[p].y = b /\ ctx'[p].z = c /\ Others(p)
    BY <1>2, <1>9, GoIs
  <2>2. m \ {a - 1} = 0 .. (a - 1) - 1 /\ b <= a - 1 /\ a - 1 <= c
    BY <1>2, <1>4, <1>9
  <2> QED BY <1>4, <1>5, <1>9, <2>1, <2>2
<1> QED BY <1>6, <1>7, <1>8, <1>9 DEF GrowPage, Pages, m, a, b, c

LEMMA GrowStoreRoom == ASSUME Around, NEW p \in Slots, GrowStore(p) PROVE Room'
<1>1. At(p, "grow") /\ ctx[p].x = ctx[p].y
  BY DEF GrowStore
<1>2. /\ TypeOK /\ Runner(p) /\ Alive(p) /\ Midway(p) /\ ctx[p].at = "grow"
      /\ Space(p) \in Spaces /\ Room /\ Base /\ Base' /\ Family /\ SpaceInv
  BY <1>1, MidwayIs
<1> DEFINE s == ctx[p].y
<1>3. /\ proc' = [q \in Slots |->
            IF Together(p, q) THEN [proc[q] EXCEPT !.sz = s] ELSE proc[q]]
      /\ Return(p) /\ UNCHANGED <<mem, spaces, panicked>>
  BY DEF GrowStore, Sized
<1> HIDE DEF s
<1>4. /\ \A q \in Slots :
           /\ proc'[q].state = proc[q].state /\ proc'[q].pgdir = proc[q].pgdir
           /\ Sz(q)' = IF Together(p, q) THEN s ELSE Sz(q)
  <2> SUFFICES ASSUME NEW q \in Slots
               PROVE  /\ proc'[q].state = proc[q].state /\ proc'[q].pgdir = proc[q].pgdir
                      /\ Sz(q)' = IF Together(p, q) THEN s ELSE Sz(q)
    OBVIOUS
  <2>1. proc[q] \in Proc
    BY <1>2, Types
  <2>2. proc'[q] = IF Together(p, q) THEN [proc[q] EXCEPT !.sz = s] ELSE proc[q]
    BY <1>3
  <2> QED BY <2>1, <2>2 DEF Proc, Sz
<1>5. Sz(p)' = s /\ ctx'[p].at = "user" /\ Others(p)
  BY <1>2, <1>3, <1>4, ReturnIs DEF Together
<1>6. Pages(p)' = 0 .. s - 1
  BY <1>1, <1>2, <1>3, <1>4 DEF Pages, Space, Midway, s
<1>7. Moves(p)
  BY <1>2, <1>3, <1>4, <1>5, <1>6 DEF Moves
<1> QED BY <1>2, <1>7, MovesKeeps

LEMMA RoomStep ==
  ASSUME Whole, Room, "lock" \in keeps, "join" \in keeps, [Next]_vars
  PROVE  Room' /\ "lock" \in keeps'
<1>1. CASE UNCHANGED vars
  <2>1. UNCHANGED vars
    BY <1>1
  <2> QED BY <2>1 DEF vars, Room, OneCall, OneSize, Fitting, Fresh, InCall, Alive, Together,
        Space, Sz, Pages, Fits, KidFits, Midway, Busy
<1>2. CASE Next
  <2>1. PICK p \in Slots : Step(p)
    BY <1>2 DEF Next
  <2>2. keeps' = keeps /\ Around
    BY <1>2, WholeStep DEF Next, Around
  <2>3. Room'
    BY <2>1, <2>2, CreateRoom, CloneRoom, CloneShareRoom, CloneSizeRoom, CloneStartRoom,
       TableRoom, ForkRoom, ForkCopyRoom, ForkStartRoom, ExitRoom, WaitRoom, JoinRoom,
       ExecsRoom, GrowRoom, GrowPageRoom, GrowStoreRoom DEF Step
  <2> QED BY <2>2, <2>3
<1> QED BY <1>1, <1>2

LEMMA InitRoom == Init => Room
<1> SUFFICES ASSUME Init PROVE Room
  OBVIOUS
<1>1. /\ \A p \in Slots : /\ ctx[p].at = "user"
                          /\ Alive(p) => Space(p) = p /\ Sz(p) = 1
      /\ \A d \in Spaces : mem[d].mapped = {0}
      /\ panicked = "none" /\ Busy = {}
  <2>1. ASSUME NEW p \in Slots, Alive(p) PROVE Space(p) = p /\ Sz(p) = 1
    <3>1. proc[p] = IF p > 2 THEN Unused
                    ELSE [Unused EXCEPT !.state = "RUNNABLE", !.pid = p, !.parent = p - 1,
                                        !.pgdir = p, !.sz = 1]
      BY DEF Init
    <3>2. ~(p > 2)
      BY <2>1, <3>1 DEF Alive, Unused
    <3> QED BY <3>1, <3>2 DEF Unused, Space, Sz
  <2>2. \A d \in Spaces : mem[d].mapped = {0}
    BY DEF Init, Image
  <2>3. /\ \A p \in Slots : ctx[p].at = "user"
        /\ panicked = "none" /\ Busy = {}
    BY DEF Init, User, Busy
  <2> QED BY <2>1, <2>2, <2>3
<1>2. \A p \in Slots : Alive(p) => Space(p) \in Spaces
  BY InitWhole DEF Whole, Base, Placed
<1>3. OneCall /\ OneSize /\ Fresh
  BY <1>1 DEF OneCall, OneSize, Fresh, InCall, Exclusive
<1>4. ASSUME NEW p \in Slots, Alive(p) PROVE Fits(p)
  <2>1. Pages(p) = {0} /\ Sz(p) = 1
    BY <1>1, <1>2, <1>4 DEF Pages
  <2>2. Pages(p) = 0 .. Sz(p) - 1
    BY <2>1
  <2> QED BY <1>1, <2>2 DEF Fits
<1> QED BY <1>1, <1>3, <1>4 DEF Room, Fitting

\* Where all programs join their threads, and take a lock around sbrk, fork and
\* thread_create, all threads of a space have its size, between calls of sbrk
\* exactly the pages below it are mapped, and neither mappages nor copyuvm
\* panics (growproc, allocuvm, deallocuvm, clone, fork and exec).
THEOREM PagesOfTheSize ==
  ASSUME \A rules \in Disciplines : "join" \in rules
  PROVE  Spec => []PagesMatchSize
<1> DEFINE Inv == /\ Whole /\ "join" \in keeps
                  /\ "lock" \in keeps => Room
<1>1. Init => Inv
  BY InitWhole, InitRoom DEF Init
<1>2. Inv /\ [Next]_vars => Inv'
  <2> SUFFICES ASSUME Inv, [Next]_vars PROVE Inv'
    OBVIOUS
  <2>1. Whole' /\ "join" \in keeps' /\ keeps' = keeps
    BY WholeStep DEF Next, vars
  <2>2. "lock" \in keeps => Room'
    BY RoomStep
  <2> QED BY <2>1, <2>2
<1>3. Inv => PagesMatchSize
  <2> SUFFICES ASSUME Whole, Room PROVE PagesMatchSize
    BY DEF PagesMatchSize
  <2>1. ASSUME NEW p \in Slots, Alive(p), \A q \in Slots : Together(p, q) => ctx[q].at # "grow"
        PROVE  mem[Space(p)].mapped = 0 .. proc[p].sz - 1
    BY <2>1 DEF Room, Fitting, Fits, Pages, Sz
  <2> QED BY <2>1 DEF PagesMatchSize, Room, OneSize, Sz
<1> QED BY <1>1, <1>2, <1>3, PTL DEF Spec

-----------------------------------------------------------------------------
(* Stacks                                                                  *)

Blocks(p) == mem[Space(p)].blocks
Stack(q) == proc[q].stack
IsThread(q) == Alive(q) /\ Stack(q) # 0

\* Every process has a pid of its own.
OwnPids ==
  /\ \A q \in Slots : proc[q].state # "UNUSED" => Pid(q) > 0
  /\ \A q, r \in Slots : /\ q # r /\ proc[q].state # "UNUSED" /\ proc[r].state # "UNUSED"
                         => Pid(q) # Pid(r)

\* The addresses in a table are different blocks, its pids are different and of
\* the past; an entry that is free has none.
TableSound(t, blocks) ==
  /\ \A i \in Entries : /\ t[i].addr # 0 => t[i].addr \in blocks
                        /\ t[i].addr = 0 => t[i].pid <= 0
                        /\ t[i].pid < nextpid
  /\ \A i, j \in Entries : i # j => /\ t[i].addr = t[j].addr => t[i].addr = 0
                                    /\ t[i].pid = t[j].pid => t[i].pid <= 0
HeapSound(d) == TableSound(mem[d].table, mem[d].blocks)

\* What thread_create and fork have while they are under way.
Making == {"clone", "share", "size", "start", "find", "addr", "pid"}
NoEntryOf(p, pid) == pid > 0 /\ \A i \in Entries : Table(p)[i].pid # pid
HasBlock(p) == ctx[p].at \in Making =>
  /\ ctx[p].y \in Blocks(p)
  /\ ctx[p].at # "pid" => \A i \in Entries : Table(p)[i].addr # ctx[p].y
  /\ ctx[p].at \in {"addr", "pid"} =>
       /\ ctx[p].z \in Entries /\ Table(p)[ctx[p].z].pid <= 0
       /\ Table(p)[ctx[p].z].addr = IF ctx[p].at = "pid" THEN ctx[p].y ELSE 0
HasPid(p) ==
  /\ ctx[p].at \in {"share", "size", "start"} => NoEntryOf(p, Pid(ctx[p].x))
  /\ ctx[p].at \in {"find", "addr", "pid"} => NoEntryOf(p, ctx[p].x) /\ ctx[p].x < nextpid
  /\ ctx[p].at = "start" => Stack(ctx[p].x) = ctx[p].y
  /\ ctx[p].at \in {"copy", "child"} => Stack(ctx[p].x) = 0
\* thread_join has the pid of nobody any more.
HasLeft(p) == ctx[p].at = "forget" =>
  /\ 0 < ctx[p].x /\ ctx[p].x < nextpid
  /\ \A q \in Slots : proc[q].state # "UNUSED" => Pid(q) # ctx[p].x
Creates(p) == HasBlock(p) /\ HasPid(p) /\ HasLeft(p)

\* A thread is in its parent's space, and in the table when its parent has
\* written it there.
Writing(q) ==
  /\ ctx[Parent(q)].at \in {"find", "addr", "pid"}
  /\ ctx[Parent(q)].x = Pid(q) /\ ctx[Parent(q)].y = Stack(q)
Written(q) == \E i \in Entries : Table(q)[i].pid = Pid(q) /\ Table(q)[i].addr = Stack(q)
Listed(q) == q # initproc /\ Together(q, Parent(q)) /\ (Writing(q) \/ Written(q))

StackInv ==
  /\ OwnPids
  /\ \A d \in Spaces : HeapSound(d)
  /\ \A p \in Slots : Creates(p)
  /\ \A q \in Slots : IsThread(q) => Listed(q)

\* What a step leaves of them.
SameHeap(d) == mem'[d].blocks = mem[d].blocks /\ mem'[d].table = mem[d].table
PidsKept(p) ==
  /\ nextpid' >= nextpid
  /\ \A q \in Slots : proc'[q].state # "UNUSED" =>
       \/ proc[q].state # "UNUSED" /\ Pid(q)' = Pid(q)
       \/ /\ proc[q].state = "UNUSED" /\ Pid(q)' = nextpid /\ nextpid' = nextpid + 1
          /\ ctx'[p].x = q
Kin(q) == /\ Pid(q)' = Pid(q) /\ Parent(q)' = Parent(q) /\ Stack(q)' = Stack(q)
          /\ Space(q)' = Space(q)

LEMMA NextPidIs == ASSUME Whole PROVE nextpid \in Nat \ {0}
<1>1. TypeOK /\ PidsBelow /\ nextpid \in Nat
  BY Types DEF Whole, Base, Family
<1>2. Pid(initproc) < nextpid /\ Pid(initproc) \in Nat
  BY <1>1, Inits, Types DEF PidsBelow, Pid
<1> QED BY <1>1, <1>2

LEMMA OwnPidsKeep ==
  ASSUME Whole, Whole', OwnPids, NEW p \in Slots, PidsKept(p)
  PROVE  OwnPids'
<1>1. nextpid \in Nat \ {0} /\ \A q \in Slots : Pid(q) < nextpid /\ Pid(q) \in Nat
  BY NextPidIs, Types DEF Whole, Family, PidsBelow, Base, Pid
<1>2. \A q \in Slots : proc'[q].state # "UNUSED" => Pid(q)' > 0
  BY <1>1 DEF PidsKept, OwnPids
<1>3. ASSUME NEW q \in Slots, NEW r \in Slots, q # r,
             proc'[q].state # "UNUSED", proc'[r].state # "UNUSED"
      PROVE  Pid(q)' # Pid(r)'
  <2>1. CASE proc[q].state # "UNUSED" /\ proc[r].state # "UNUSED"
    BY <1>3, <2>1 DEF PidsKept, OwnPids
  <2>2. CASE proc[q].state = "UNUSED" /\ proc[r].state # "UNUSED"
    <3>1. Pid(q)' = nextpid /\ Pid(r)' = Pid(r)
      BY <1>3, <2>2 DEF PidsKept
    <3> QED BY <1>1, <3>1
  <2>3. CASE proc[q].state # "UNUSED" /\ proc[r].state = "UNUSED"
    <3>1. Pid(r)' = nextpid /\ Pid(q)' = Pid(q)
      BY <1>3, <2>3 DEF PidsKept
    <3> QED BY <1>1, <3>1
  <2>4. CASE proc[q].state = "UNUSED" /\ proc[r].state = "UNUSED"
    BY <1>3, <2>4 DEF PidsKept
  <2> QED BY <2>1, <2>2, <2>3, <2>4
<1> QED BY <1>2, <1>3 DEF OwnPids

LEMMA HeapKept ==
  ASSUME TypeOK, nextpid' \in Nat, nextpid' >= nextpid, NEW d \in Spaces, HeapSound(d), SameHeap(d)
  PROVE  HeapSound(d)'
<1>1. /\ nextpid \in Nat
      /\ \A i \in Entries : mem[d].table[i].pid \in Int
  BY Types
<1>2. \A i \in Entries : mem[d].table[i].pid < nextpid'
  BY <1>1 DEF HeapSound, TableSound
<1> QED BY <1>2 DEF HeapSound, TableSound, SameHeap

\* Whoever does not take the step keeps what it has.
LEMMA CreatesKept ==
  ASSUME Whole, Whole', NEW p \in Slots, PidsKept(p),
         NEW r \in Slots, ctx'[r] = ctx[r], Creates(r),
         ctx[r].at \in Making => Space(r)' = Space(r) /\ SameHeap(Space(r)),
         r \in Busy => Pid(ctx[r].x)' = Pid(ctx[r].x) /\ Stack(ctx[r].x)' = Stack(ctx[r].x)
  PROVE  Creates(r)'
<1>1. /\ TypeOK /\ nextpid \in Nat /\ nextpid' \in Nat /\ nextpid' >= nextpid
      /\ ctx[r].x \in Int
  BY Types DEF Whole, Base, PidsKept, TypeOK
<1>2. ctx[r].at \in Making => Table(r)' = Table(r) /\ Blocks(r)' = Blocks(r)
  BY DEF SameHeap, Table, Blocks
<1>3. HasBlock(r)'
  BY <1>2 DEF HasBlock, Creates
<1>4. HasPid(r)'
  <2>1. ctx[r].at \in {"share", "size", "start", "copy", "child"} <=> r \in Busy
    BY DEF Busy
  <2>2. \A n : NoEntryOf(r, n) /\ ctx[r].at \in Making => NoEntryOf(r, n)'
    BY <1>2 DEF NoEntryOf
  <2>3. ctx[r].at \in {"share", "size", "start"} => NoEntryOf(r, Pid(ctx[r].x))'
    <3> SUFFICES ASSUME ctx[r].at \in {"share", "size", "start"}
                 PROVE  NoEntryOf(r, Pid(ctx[r].x))'
      OBVIOUS
    <3>1. NoEntryOf(r, Pid(ctx[r].x)) /\ Pid(ctx[r].x)' = Pid(ctx[r].x)
      BY <2>1 DEF Creates, HasPid
    <3> QED BY <1>2, <3>1 DEF NoEntryOf, Making
  <2>4. ctx[r].at \in {"find", "addr", "pid"} => NoEntryOf(r, ctx[r].x)' /\ ctx'[r].x < nextpid'
    <3> SUFFICES ASSUME ctx[r].at \in {"find", "addr", "pid"}
                 PROVE  NoEntryOf(r, ctx[r].x)' /\ ctx'[r].x < nextpid'
      OBVIOUS
    <3>1. NoEntryOf(r, ctx[r].x) /\ ctx[r].x < nextpid
      BY DEF Creates, HasPid
    <3> QED BY <1>1, <1>2, <3>1 DEF NoEntryOf, Making
  <2>5. ctx[r].at = "start" => Stack(ctx[r].x)' = ctx'[r].y
    BY <2>1 DEF Creates, HasPid
  <2>6. ctx[r].at \in {"copy", "child"} => Stack(ctx[r].x)' = 0
    BY <2>1 DEF Creates, HasPid
  <2> QED BY <2>3, <2>4, <2>5, <2>6 DEF HasPid
<1>5. HasLeft(r)'
  <2> SUFFICES ASSUME ctx[r].at = "forget"
               PROVE  /\ 0 < ctx[r].x /\ ctx[r].x < nextpid'
                      /\ \A q \in Slots : proc'[q].state # "UNUSED" => Pid(q)' # ctx[r].x
    BY DEF HasLeft
  <2>1. /\ 0 < ctx[r].x /\ ctx[r].x < nextpid
        /\ \A q \in Slots : proc[q].state # "UNUSED" => Pid(q) # ctx[r].x
    BY DEF Creates, HasLeft
  <2> QED BY <1>1, <2>1 DEF PidsKept
<1> QED BY <1>3, <1>4, <1>5 DEF Creates

\* The stacks after a step of p, when its parts are right.
LEMMA StacksAfter ==
  ASSUME Around, StackInv, NEW p \in Slots, Others(p), PidsKept(p),
         \A d \in Spaces : HeapSound(d)',
         \A r \in Slots : Creates(r)',
         \A r \in Slots \ {p} : Alive(r) /\ Alive(r)' => Space(r)' = Space(r),
         \A q \in Slots : IsThread(q)' =>
           \/ Listed(q)'
           \/ /\ IsThread(q) /\ Kin(q)
              /\ Written(q) => Written(q)'
              /\ Parent(q) = p => /\ Space(p)' = Space(p)
                                  /\ Writing(q) => Writing(q)' \/ Written(q)'
  PROVE  StackInv'
<1>1. Whole /\ Whole' /\ OwnPids /\ Guarded /\ Guarded'
  BY DEF Around, StackInv, Whole, Family
<1>2. OwnPids'
  BY <1>1, OwnPidsKeep
<1>3. ASSUME NEW q \in Slots, IsThread(q)' PROVE Listed(q)'
  <2>1. CASE /\ IsThread(q) /\ Kin(q)
             /\ Written(q) => Written(q)'
             /\ Parent(q) = p => /\ Space(p)' = Space(p)
                                 /\ Writing(q) => Writing(q)' \/ Written(q)'
    <3>1. q # initproc /\ Together(q, Parent(q)) /\ (Writing(q) \/ Written(q))
      BY <2>1 DEF StackInv, Listed
    <3>2. PICK r \in Slots : r = Parent(q) /\ r = Parent(q)' /\ Awake(r) /\ Awake(r)'
      <4>1. Alive(q) /\ Alive(q)' /\ Parent(q)' = Parent(q)
        BY <1>3, <2>1 DEF IsThread, Kin
      <4>2. Parent(q) \in Slots /\ Awake(Parent(q))
        BY <1>1, <3>1, <4>1 DEF Guarded
      <4>3. Awake(Parent(q))'
        BY <1>1, <3>1, <4>1 DEF Guarded
      <4> QED BY <4>1, <4>2, <4>3 DEF Awake
    <3>3. Space(r)' = Space(r)
      BY <2>1, <3>2 DEF Awake, Alive
    <3>4. Together(q, Parent(q))'
      BY <2>1, <3>1, <3>2, <3>3 DEF Kin, Together, Space
    <3>5. Writing(q)' \/ Written(q)'
      <4>1. CASE Written(q)
        BY <2>1, <4>1
      <4>2. CASE Writing(q) /\ r = p
        BY <2>1, <3>2, <4>2
      <4>3. CASE Writing(q) /\ r # p
        <5>1. ctx'[r] = ctx[r]
          BY <4>3 DEF Others
        <5> QED BY <2>1, <3>2, <4>3, <5>1 DEF Writing, Kin
      <4> QED BY <3>1, <4>1, <4>2, <4>3
    <3> QED BY <3>1, <3>4, <3>5 DEF Listed
  <2> QED BY <1>3, <2>1
<1> QED BY <1>2, <1>3 DEF StackInv

\* No step but the last of clone makes a thread, moves one or changes its parent.
LEMMA ThreadsStay ==
  ASSUME Around, StackInv, NEW p \in Slots, Steps(p),
         \A q \in Slots : Alive(q)' => Stack(q)' = Stack(q),
         Starts(p) => Stack(ctx[p].x) = 0
  PROVE  /\ \A q \in Slots : IsThread(q)' =>
              /\ IsThread(q) /\ Kin(q)
              /\ q = p \/ Parent(q) = p => Space(p)' = Space(p)
         /\ \A r \in Slots \ {p} : Alive(r) /\ Alive(r)' => Space(r)' = Space(r)
<1>1. Base /\ Guarded /\ "join" \in keeps
  BY DEF Around, Whole, Family
<1>2. ASSUME NEW q \in Slots, IsThread(q)
      PROVE  /\ q # initproc /\ Together(q, Parent(q)) /\ Parent(q) \in Slots
             /\ Awake(Parent(q)) /\ Alive(Parent(q)) /\ Parent(q) # q
  <2>1. q # initproc /\ Together(q, Parent(q)) /\ Alive(q)
    BY <1>2 DEF StackInv, Listed, IsThread
  <2>2. Parent(q) \in Slots /\ Awake(Parent(q)) /\ Pid(Parent(q)) < Pid(q)
    BY <1>1, <2>1 DEF Guarded
  <2>3. Pid(q) \in Nat
    BY <1>1, Types DEF Base, Pid
  <2> QED BY <2>1, <2>2, <2>3 DEF Awake, Alive
<1> DEFINE Goal == /\ \A q \in Slots : IsThread(q)' =>
                        /\ IsThread(q) /\ Kin(q)
                        /\ q = p \/ Parent(q) = p => Space(p)' = Space(p)
                   /\ \A r \in Slots \ {p} : Alive(r) /\ Alive(r)' => Space(r)' = Space(r)
<1>3. ASSUME SameFamily({}), \A q \in Slots : IsThread(q)' => Alive(q) PROVE Goal
  BY <1>3 DEF SameFamily, IsThread, Kin, Pid, Parent, Space
<1>4. ASSUME NEW k \in Slots \ {p}, SameSlots({k}), ~Alive(k)' PROVE Goal
  <2>1. \A q \in Slots \ {k} : proc'[q] = proc[q]
    BY <1>4 DEF SameSlots
  <2>2. ASSUME NEW q \in Slots, IsThread(q)' PROVE IsThread(q) /\ Kin(q) /\ Space(p)' = Space(p)
    <3>1. q # k
      BY <1>4, <2>2 DEF IsThread
    <3> QED BY <1>4, <2>1, <2>2, <3>1 DEF IsThread, Kin, Pid, Parent, Space, Stack, Alive
  <2>3. \A r \in Slots : Alive(r)' => Space(r)' = Space(r)
    BY <1>4, <2>1 DEF Space
  <2> QED BY <2>2, <2>3
<1>5. CASE Quiet(p) \/ Sleeps(p)
  <2>1. SameFamily({}) /\ \A q \in Slots : Alive(q)' => Alive(q)
    BY <1>5 DEF Quiet, Sleeps, SameStates, Runner, Alive
  <2> QED BY <1>3, <2>1 DEF IsThread
<1>6. CASE Fills(p)
  <2>1. PICK k \in Slots \ {p} : k = ctx[p].x
    BY <1>1, <1>6, BusyIs DEF Fills
  <2> QED BY <1>4, <1>6, <2>1 DEF Fills, Alive
<1>7. CASE Finishes(p, "UNUSED")
  <2>1. PICK k \in Slots \ {p} : k = ctx[p].x
    BY <1>1, <1>7, BusyIs DEF Finishes
  <2> QED BY <1>4, <1>7, <2>1 DEF Finishes, Alive
<1>8. CASE Starts(p)
  <2>1. PICK k \in Slots \ {p} : k = ctx[p].x
    BY <1>1, <1>8, BusyIs DEF Starts, Finishes
  <2>2. SameFamily({}) /\ \A q \in Slots \ {k} : proc'[q] = proc[q]
    BY <1>8, <2>1 DEF Starts, Finishes, SameSlots
  <2>3. Stack(k) = 0
    BY <1>8, <2>1
  <2>4. \A q \in Slots : IsThread(q)' => Alive(q)
    BY <2>2, <2>3 DEF IsThread, Alive
  <2> QED BY <1>3, <2>2, <2>4
<1>9. ASSUME NEW q \in Slots, Allocates(p, q) PROVE Goal
  <2>1. q # p /\ ~Alive(q)' /\ SameSlots({q})
    BY <1>9 DEF Allocates, Runner, Alive
  <2> QED BY <1>4, <2>1
<1>10. ASSUME NEW q \in Slots, Reaps(p, q) PROVE Goal
  <2>1. q # p /\ ~Alive(q)' /\ SameSlots({q})
    BY <1>10 DEF Reaps, Runner, Alive
  <2> QED BY <1>4, <2>1
<1>11. CASE Exits(p)
  <2>1. /\ Runner(p) /\ Threads(p) = {} /\ proc'[p].parent = proc[p].parent
        /\ \A q \in Slots :
             /\ Pid(q)' = Pid(q) /\ Space(q)' = Space(q)
             /\ q # p => Parent(q)' = IF Parent(q) = p THEN initproc ELSE Parent(q)
    BY <1>1, <1>11 DEF Exits, Pid, Space, Parent
  <2>2. \A q \in Slots : Alive(q)' => Alive(q)
    <3> SUFFICES ASSUME NEW q \in Slots, Alive(q)' PROVE Alive(q)
      OBVIOUS
    <3>1. CASE q = p
      BY <2>1, <3>1 DEF Runner, Alive
    <3>2. CASE q # p
      <4>1. proc'[q].state = IF q \in Woken(p) /\ proc[q].state = "SLEEPING"
                             THEN "RUNNABLE" ELSE proc[q].state
        BY <1>11, <3>2 DEF Exits
      <4> QED BY <4>1 DEF Alive
    <3> QED BY <3>1, <3>2
  <2>3. ASSUME NEW q \in Slots, IsThread(q)' PROVE IsThread(q) /\ Kin(q)
    <3>1. IsThread(q)
      BY <2>2, <2>3 DEF IsThread
    <3>2. Parent(q) # p
      <4>1. Together(q, Parent(q)) /\ Parent(q) # q
        BY <1>2, <3>1
      <4> QED BY <2>1, <4>1 DEF Threads, Together, Parent
    <3>3. Parent(q)' = Parent(q)
      BY <2>1, <3>2 DEF Parent
    <3> QED BY <2>1, <2>3, <3>1, <3>3 DEF Kin, IsThread
  <2> QED BY <2>1, <2>3
<1>12. CASE Execs(p)
  <2>1. /\ Runner(p) /\ \A q \in Slots : q # p /\ Alive(q) => ~Together(p, q)
        /\ \A q \in Slots \ {p} : proc'[q] = proc[q]
        /\ Alive(p)
    BY <1>1, <1>12 DEF Execs, SameSlots, Runner, Alive
  <2>2. ASSUME NEW q \in Slots, IsThread(q)' PROVE IsThread(q) /\ Kin(q) /\ q # p /\ Parent(q) # p
    <3>1. Stack(q) # 0 /\ Alive(q)
      BY <2>1, <2>2 DEF IsThread, Alive
    <3>2. /\ Together(q, Parent(q)) /\ Parent(q) \in Slots /\ Alive(Parent(q))
          /\ Parent(q) # q
      BY <1>2, <3>1 DEF IsThread
    <3>3. q # p
      BY <2>1, <3>2
    <3>4. Parent(q) # p
      BY <2>1, <3>1, <3>2, <3>3 DEF Together
    <3> QED BY <2>1, <2>2, <3>1, <3>3, <3>4 DEF IsThread, Kin, Pid, Parent, Space
  <2> QED BY <2>1, <2>2 DEF Space
<1> QED BY <1>5, <1>6, <1>7, <1>8, <1>9, <1>10, <1>11, <1>12 DEF Steps, Shares, Sizes, Copies, GivesUp

\* The pids of a step.
LEMMA PidsAfter == ASSUME Whole, NEW p \in Slots, Steps(p) PROVE PidsKept(p)
<1>1. Base /\ nextpid \in Nat \ {0}
  BY NextPidIs DEF Whole
<1>2. CASE Quiet(p) \/ Sleeps(p)
  BY <1>1, <1>2 DEF Quiet, Sleeps, SameStates, SameFamily, Runner, PidsKept, Pid
<1>3. CASE Fills(p)
  <2>1. PICK k \in Slots : k = ctx[p].x /\ proc[k].state = "EMBRYO"
    BY <1>1, <1>3, BusyIs DEF Fills
  <2> QED BY <1>1, <1>3, <2>1 DEF Fills, SameSlots, PidsKept, Pid
<1>4. CASE \E s : Finishes(p, s)
  <2>1. PICK k \in Slots : k = ctx[p].x /\ proc[k].state = "EMBRYO"
    BY <1>1, <1>4, BusyIs DEF Finishes
  <2> QED BY <1>1, <1>4, <2>1 DEF Finishes, SameSlots, SameFamily, PidsKept, Pid
<1>5. ASSUME NEW q \in Slots, Allocates(p, q) PROVE PidsKept(p)
  BY <1>1, <1>5 DEF Allocates, SameSlots, PidsKept, Pid
<1>6. ASSUME NEW q \in Slots, Reaps(p, q) PROVE PidsKept(p)
  BY <1>1, <1>6 DEF Reaps, SameSlots, PidsKept, Pid
<1>7. CASE Exits(p)
  <2>1. ASSUME NEW q \in Slots, proc'[q].state # "UNUSED" PROVE proc[q].state # "UNUSED"
    <3>1. CASE q = p
      BY <1>7, <3>1 DEF Exits, Runner
    <3>2. CASE q # p
      BY <1>7, <2>1, <3>2 DEF Exits
    <3> QED BY <3>1, <3>2
  <2> QED BY <1>1, <1>7, <2>1 DEF Exits, PidsKept, Pid
<1>8. CASE Execs(p)
  BY <1>1, <1>8 DEF Execs, Runner, SameSlots, PidsKept, Pid
<1> QED BY <1>2, <1>3, <1>4, <1>5, <1>6, <1>7, <1>8 DEF Steps, Shares, Sizes, Copies, GivesUp, Starts

\* The stacks of who lives and of the slots that others fill in.
StacksStay(p) ==
  /\ \A q \in Slots : Alive(q)' => Stack(q)' = Stack(q)
  /\ \A r \in Busy \ {p} : Stack(ctx[r].x)' = Stack(ctx[r].x)

LEMMA AllStay ==
  ASSUME Base, NEW p \in Slots, Others(p), \A r \in Slots : Stack(r)' = Stack(r)
  PROVE  StacksStay(p)
<1>1. ASSUME NEW r \in Busy \ {p} PROVE Stack(ctx[r].x)' = Stack(ctx[r].x)
  <2>1. r \in Slots /\ ctx[r].x \in Slots
    BY BusyIs
  <2>2. PICK k \in Slots : k = ctx[r].x /\ k = ctx'[r].x
    BY <2>1 DEF Others
  <2> QED BY <2>2
<1> QED BY <1>1 DEF StacksStay

LEMMA OthersStay ==
  ASSUME Base, NEW p \in Slots, NEW k \in Slots, Others(p), SameSlots({k}), ~Alive(k)',
         proc[k].state = "EMBRYO" => p \in Busy /\ ctx[p].x = k
  PROVE  StacksStay(p)
<1>1. \A r \in Slots \ {k} : Stack(r)' = Stack(r)
  BY DEF SameSlots, Stack
<1>2. ASSUME NEW r \in Busy \ {p} PROVE Stack(ctx[r].x)' = Stack(ctx[r].x)
  <2>1. ctx[r].x \in Slots /\ proc[ctx[r].x].state = "EMBRYO"
    BY BusyIs
  <2>2. ctx[r].x # k
    BY <2>1 DEF Base, KidInv
  <2>3. PICK j \in Slots \ {k} : j = ctx[r].x /\ j = ctx'[r].x
    BY <2>1, <2>2 DEF Others, Busy
  <2> QED BY <1>1, <2>3
<1> QED BY <1>1, <1>2 DEF StacksStay

LEMMA OthersIs == ASSUME NEW p \in Slots, Steps(p) PROVE Others(p) /\ Runner(p)
BY DEF Steps, Quiet, Sleeps, Shares, Sizes, Copies, Fills, Starts, GivesUp, Finishes, Allocates,
       Reaps, Exits, Execs, Others

\* Tables stay, but for spaces that nobody lives in.
TablesStay(p) ==
  /\ \A d \in Spaces : HeapSound(d)'
  /\ \A r \in Slots \ {p} : Alive(r) /\ Alive(r)' => SameHeap(Space(r))
  /\ Space(p)' = Space(p) => SameHeap(Space(p))

LEMMA SameTablesStay ==
  ASSUME Whole, Whole', NEW p \in Slots, PidsKept(p), \A d \in Spaces : HeapSound(d),
         \A d \in Spaces : SameHeap(d), Alive(p)
  PROVE  TablesStay(p)
<1>1. TypeOK /\ nextpid' \in Nat /\ nextpid' >= nextpid
  BY DEF Whole, Base, PidsKept, TypeOK
<1>2. \A d \in Spaces : HeapSound(d)'
  BY <1>1, HeapKept
<1>3. \A r \in Slots : Alive(r) => Space(r) \in Spaces
  BY DEF Whole, Base, Placed
<1> QED BY <1>2, <1>3 DEF TablesStay

\* So in a step of p, with the conditions that are left.
LEMMA OthersCreate ==
  ASSUME Around, StackInv, NEW p \in Slots, Steps(p), StacksStay(p), NEW r \in Slots \ {p},
         ctx[r].at \in Making /\ Alive(r) /\ Alive(r)' =>
           Space(r)' = Space(r) /\ SameHeap(Space(r))
  PROVE  Creates(r)'
<1>1. /\ Whole /\ Whole' /\ Base /\ Base' /\ PidsKept(p) /\ Others(p)
  BY PidsAfter, OthersIs DEF Around, Whole
<1>2. ctx'[r] = ctx[r] /\ Creates(r) /\ CtxOf(r) /\ CtxOf(r)'
  BY <1>1 DEF Others, StackInv, Base, CtxInv
<1>3. ctx[r].at \in Making => Space(r)' = Space(r) /\ SameHeap(Space(r))
  <2> SUFFICES ASSUME ctx[r].at \in Making PROVE Alive(r) /\ Alive(r)'
    OBVIOUS
  <2>1. proc[r].state \in States /\ proc'[r].state \in States
    BY <1>1 DEF Base, TypeOK
  <2> QED BY <1>2, <2>1 DEF CtxOf, Making, States, Alive
<1>4. r \in Busy => Pid(ctx[r].x)' = Pid(ctx[r].x) /\ Stack(ctx[r].x)' = Stack(ctx[r].x)
  <2> SUFFICES ASSUME r \in Busy PROVE Pid(ctx[r].x)' = Pid(ctx[r].x)
    BY DEF StacksStay
  <2>1. PICK k \in Slots : k = ctx[r].x /\ proc[k].state = "EMBRYO"
    BY <1>1, BusyIs
  <2>2. r \in Busy'
    BY <1>2 DEF Busy
  <2>3. proc'[k].state = "EMBRYO"
    BY <1>1, <1>2, <2>1, <2>2 DEF Base, KidInv
  <2>4. Pid(k)' = Pid(k)
    BY <1>1, <2>1, <2>3 DEF PidsKept
  <2> QED BY <1>2, <2>1, <2>4 DEF Pid
<1> QED BY <1>1, <1>2, <1>3, <1>4, CreatesKept

\* thread_create goes on with its thread.
GoesOn(p) == ctx[p].at \in {"find", "addr", "pid"} =>
  /\ ctx'[p].at \in {"find", "addr", "pid"}
  /\ ctx'[p].x = ctx[p].x /\ ctx'[p].y = ctx[p].y

LEMMA StacksKeep ==
  ASSUME Around, StackInv, NEW p \in Slots, Steps(p), StacksStay(p), TablesStay(p),
         Starts(p) => Stack(ctx[p].x) = 0, Creates(p)', GoesOn(p)
  PROVE  StackInv'
<1>1. /\ Whole /\ Whole' /\ Base /\ Base' /\ PidsKept(p) /\ Others(p) /\ Runner(p)
  BY PidsAfter, OthersIs DEF Around, Whole
<1>2. /\ \A q \in Slots : IsThread(q)' =>
           /\ IsThread(q) /\ Kin(q)
           /\ q = p \/ Parent(q) = p => Space(p)' = Space(p)
      /\ \A r \in Slots \ {p} : Alive(r) /\ Alive(r)' => Space(r)' = Space(r)
  BY ThreadsStay DEF StacksStay
<1>3. ASSUME NEW r \in Slots \ {p} PROVE Creates(r)'
  BY <1>2, OthersCreate DEF TablesStay
<1>4. ASSUME NEW q \in Slots, IsThread(q)'
      PROVE  /\ IsThread(q) /\ Kin(q)
             /\ Written(q) => Written(q)'
             /\ Parent(q) = p => /\ Space(p)' = Space(p)
                                 /\ Writing(q) => Writing(q)' \/ Written(q)'
  <2>1. IsThread(q) /\ Kin(q) /\ Alive(q) /\ Alive(q)'
    BY <1>2, <1>4 DEF IsThread
  <2>2. SameHeap(Space(q))
    BY <1>2, <1>4, <2>1 DEF TablesStay
  <2>3. Written(q) => Written(q)'
    BY <2>1, <2>2 DEF Written, Table, SameHeap, Kin
  <2>4. Parent(q) = p => (Writing(q) => Writing(q)')
    BY <2>1 DEF Writing, GoesOn, Kin
  <2> QED BY <1>2, <1>4, <2>1, <2>3, <2>4
<1>5. \A r \in Slots : Creates(r)'
  BY <1>3
<1>6. \A d \in Spaces : HeapSound(d)'
  BY DEF TablesStay
<1> QED BY <1>1, <1>2, <1>4, <1>5, <1>6, StacksAfter

-----------------------------------------------------------------------------
(* Each action keeps the stacks                                            *)

\* Where nothing is held.
LEMMA Idling ==
  ASSUME NEW p, ctx'[p].at \in {"user", "join", "wait", "grow"}
  PROVE  Creates(p)'
BY DEF Creates, HasBlock, HasPid, HasLeft, Making

LEMMA AroundIs ==
  ASSUME Around
  PROVE  /\ Whole /\ Whole' /\ Base /\ Base' /\ TypeOK /\ TypeOK' /\ Room /\ UNCHANGED keeps
         /\ Family /\ SpaceInv /\ "join" \in keeps /\ "lock" \in keeps
BY DEF Around, Whole, Base

\* A step that leaves all stacks and tables alone.
LEMMA PlainStacks ==
  ASSUME Around, StackInv, NEW p \in Slots, Steps(p), \A q \in Slots : Stack(q)' = Stack(q),
         \A d \in Spaces : SameHeap(d), ctx[p].at \notin {"start", "find", "addr", "pid"},
         Creates(p)'
  PROVE  StackInv'
<1>1. /\ Whole /\ Whole' /\ Base /\ PidsKept(p) /\ Others(p) /\ Alive(p)
  BY AroundIs, PidsAfter, OthersIs DEF Runner, Alive
<1>2. StacksStay(p)
  BY <1>1, AllStay
<1>3. TablesStay(p)
  BY <1>1, SameTablesStay DEF StackInv
<1>4. Starts(p) => Stack(ctx[p].x) = 0
  BY DEF Starts, StackInv, Creates, HasPid
<1>5. GoesOn(p)
  BY DEF GoesOn
<1> QED BY <1>2, <1>3, <1>4, <1>5, StacksKeep

LEMMA GrowStacks == ASSUME Around, StackInv, NEW p \in Slots, Grow(p) PROVE StackInv'
<1>1. Quiet(p) /\ TypeOK
  BY GrowKind, AroundIs
<1>2. PICK n : Go(p, "grow", proc[p].sz, n, proc[p].sz)
  BY DEF Grow
<1>3. ctx[p].at = "user" /\ UNCHANGED <<proc, mem>>
  BY DEF Grow, Makes, At
<1>4. ctx'[p].at = "grow"
  BY <1>1, <1>2, GoIs
<1>5. Creates(p)'
  BY <1>4, Idling
<1> QED BY <1>1, <1>3, <1>5, PlainStacks DEF Steps, SameHeap, Stack

LEMMA GrowPageStacks == ASSUME Around, Room', StackInv, NEW p \in Slots, GrowPage(p) PROVE StackInv'
<1> DEFINE a == ctx[p].x
           b == ctx[p].y
<1>1. /\ Quiet(p) \/ UNCHANGED <<proc, nextpid, ctx, spaces, twice>>
      /\ TypeOK /\ ctx[p].at = "grow" /\ UNCHANGED proc
  BY GrowPageKind, AroundIs DEF GrowPage, At
<1>2. a \in Int /\ mem \in [Spaces -> Mem]
  BY <1>1, Types
<1>3. /\ \E n : mem' = [mem EXCEPT ![Space(p)].mapped = n]
      /\ Go(p, "grow", a + 1, b, ctx[p].z) \/ Return(p) \/ Go(p, "grow", a - 1, b, ctx[p].z)
  BY DEF GrowPage, Room
<1>4. \A d \in Spaces : SameHeap(d)
  BY <1>2, <1>3 DEF SameHeap, Mem
<1> HIDE DEF a, b
<1>5. ctx'[p].at = "user" \/ (ctx'[p].at = "grow" /\ ctx'[p].x # a)
  <2>1. CASE Go(p, "grow", a + 1, b, ctx[p].z)
    BY <1>1, <1>2, <2>1, GoIs
  <2>2. CASE Return(p)
    BY <1>1, <2>2, ReturnIs
  <2>3. CASE Go(p, "grow", a - 1, b, ctx[p].z)
    BY <1>1, <1>2, <2>3, GoIs
  <2> QED BY <1>3, <2>1, <2>2, <2>3
<1>6. Quiet(p)
  BY <1>1, <1>5 DEF a
<1>7. Creates(p)'
  BY <1>5, Idling
<1> QED BY <1>1, <1>4, <1>6, <1>7, PlainStacks DEF Steps, Stack

LEMMA GrowStoreStacks == ASSUME Around, StackInv, NEW p \in Slots, GrowStore(p) PROVE StackInv'
<1>1. Quiet(p) /\ TypeOK /\ ctx[p].at = "grow" /\ Return(p) /\ UNCHANGED mem
  BY GrowStoreKind, AroundIs DEF GrowStore, At
<1>2. \A q \in Slots : Stack(q)' = Stack(q)
  <2> SUFFICES ASSUME NEW q \in Slots PROVE Stack(q)' = Stack(q)
    OBVIOUS
  <2>1. proc[q] \in Proc
    BY <1>1, Types
  <2>2. proc'[q] = IF Sized(p, q) THEN [proc[q] EXCEPT !.sz = ctx[p].y] ELSE proc[q]
    BY DEF GrowStore
  <2> QED BY <2>1, <2>2 DEF Proc, Stack
<1>3. Creates(p)'
  BY <1>1, ReturnIs, Idling
<1> QED BY <1>1, <1>2, <1>3, PlainStacks DEF Steps, SameHeap

LEMMA ForkStartStacks == ASSUME Around, StackInv, NEW p \in Slots, ForkStart(p) PROVE StackInv'
<1>1. Starts(p) /\ Base /\ TypeOK /\ At(p, "child") /\ Return(p) /\ UNCHANGED mem
  BY ForkStartKind, AroundIs DEF ForkStart
<1>2. ctx[p].x \in Slots
  BY <1>1, KidIs
<1>3. \A q \in Slots : Stack(q)' = Stack(q)
  BY <1>1, <1>2, StateOf DEF ForkStart, Stack, States
<1>4. Creates(p)'
  BY <1>1, ReturnIs, Idling
<1> QED BY <1>1, <1>3, <1>4, PlainStacks DEF Steps, SameHeap, At

LEMMA ExitStacks == ASSUME Around, StackInv, NEW p \in Slots, Exit(p) PROVE StackInv'
<1>1. Exits(p) /\ TypeOK /\ ctx[p].at = "user" /\ UNCHANGED <<ctx, mem>>
  BY ExitKind, AroundIs DEF Exit, Makes, At
<1>2. \A q \in Slots : Stack(q)' = Stack(q)
  <2> SUFFICES ASSUME NEW q \in Slots PROVE Stack(q)' = Stack(q)
    OBVIOUS
  <2> DEFINE par == IF proc[q].parent = p THEN initproc ELSE proc[q].parent
             st == IF q \in Woken(p) /\ proc[q].state = "SLEEPING" THEN "RUNNABLE"
                   ELSE proc[q].state
  <2>1. proc[q] \in Proc
    BY <1>1, Types
  <2>2. proc'[q] = IF q = p THEN [proc[q] EXCEPT !.state = "ZOMBIE"]
                   ELSE [proc[q] EXCEPT !.parent = par, !.state = st]
    BY DEF Exit
  <2> HIDE DEF par, st
  <2> QED BY <2>1, <2>2 DEF Proc, Stack
<1>3. Creates(p)'
  BY <1>1, Idling
<1> QED BY <1>1, <1>2, <1>3, PlainStacks DEF Steps, SameHeap

LEMMA ReapedStacks ==
  ASSUME TypeOK, NEW q \in Slots, proc' = Reaped(q)
  PROVE  \A r \in Slots : Stack(r)' = Stack(r)
<1>1. proc \in [Slots -> Proc]
  BY Types
<1>2. proc' = [proc EXCEPT ![q] = [proc[q] EXCEPT !.state = "UNUSED", !.pid = 0, !.parent = 0]]
  BY <1>1 DEF Reaped
<1>3. [proc[q] EXCEPT !.state = "UNUSED", !.pid = 0, !.parent = 0].stack = proc[q].stack
  BY <1>1 DEF Proc
<1> QED BY <1>1, <1>2, <1>3 DEF Stack

LEMMA JoinStacks == ASSUME Around, StackInv, NEW p \in Slots, Join(p) PROVE StackInv'
<1> DEFINE kids == Threads(p)
           q == Min(Zombies(kids))
<1>1. /\ TypeOK /\ Base /\ Whole /\ UNCHANGED <<nextpid, mem>>
      /\ ctx[p].at \in {"user", "join"} /\ Steps(p)
  BY AroundIs, JoinKind DEF Join, Makes, At, Steps
<1>2. CASE Zombies(kids) # {} /\ proc' = Reaped(q) /\ Go(p, "forget", proc[q].pid, proc[q].stack, 0)
  <2>1. q \in Slots /\ proc[q].state = "ZOMBIE"
    BY <1>2, FamilyIs
  <2> HIDE DEF q
  <2>2. ctx'[p].at = "forget" /\ ctx'[p].x = Pid(q)
    BY <1>1, <1>2, GoIs DEF Pid
  <2>3. proc'[q].state = "UNUSED" /\ \A r \in Slots \ {q} : proc'[r] = proc[r]
    BY <1>1, <1>2, <2>1, ReapedIs
  <2>4. /\ Pid(q) > 0 /\ Pid(q) < nextpid /\ Pid(q) \in Nat
        /\ \A r \in Slots \ {q} : proc[r].state # "UNUSED" => Pid(r) # Pid(q)
    BY <1>1, <2>1, Types DEF StackInv, OwnPids, Whole, Family, PidsBelow, Pid
  <2>5. HasLeft(p)'
    <3>1. 0 < ctx'[p].x /\ ctx'[p].x < nextpid'
      BY <1>1, <2>2, <2>4
    <3>2. \A r \in Slots : proc'[r].state # "UNUSED" => proc'[r].pid # ctx'[p].x
      BY <2>2, <2>3, <2>4 DEF Pid
    <3> QED BY <3>1, <3>2 DEF HasLeft, Pid
  <2>6. Creates(p)'
    BY <2>2, <2>5 DEF Creates, HasBlock, HasPid, Making
  <2>7. \A r \in Slots : Stack(r)' = Stack(r)
    BY <1>1, <1>2, <2>1, ReapedStacks
  <2> QED BY <1>1, <2>6, <2>7, PlainStacks DEF SameHeap
<1>3. CASE Return(p) /\ UNCHANGED proc
  BY <1>1, <1>3, ReturnIs, Idling, PlainStacks DEF SameHeap, Stack
<1>4. CASE /\ Zombies(kids) = {} /\ proc' = [proc EXCEPT ![p].state = "SLEEPING"]
           /\ Go(p, "join", 0, 0, 0)
  <2>1. ctx'[p].at = "join"
    BY <1>1, <1>4, GoIs
  <2>2. \A r \in Slots : Stack(r)' = Stack(r)
    BY <1>1, <1>4, StateOf DEF Stack, States
  <2> QED BY <1>1, <2>1, <2>2, Idling, PlainStacks DEF SameHeap
<1> QED BY <1>2, <1>3, <1>4 DEF Join, Joinable, Exited

\* The memory of one space is new, and nobody lives there.
LEMMA NewTable ==
  ASSUME Whole, Whole', NEW p \in Slots, PidsKept(p), Alive(p), \A d \in Spaces : HeapSound(d),
         NEW e, NEW m \in Mem, TableSound(m.table, m.blocks), mem' = [mem EXCEPT ![e] = m],
         \A r \in Slots \ {p} : Alive(r) /\ Alive(r)' => Space(r) # e,
         Space(p)' = Space(p) => Space(p) # e
  PROVE  TablesStay(p)
<1>1. /\ TypeOK /\ nextpid \in Nat /\ nextpid' \in Nat /\ nextpid' >= nextpid
      /\ mem \in [Spaces -> Mem]
  BY Types DEF Whole, Base, PidsKept, TypeOK
<1>2. \A d \in Spaces \ {e} : mem'[d] = mem[d]
  BY <1>1
<1>3. ASSUME NEW d \in Spaces PROVE HeapSound(d)'
  <2>1. CASE d = e
    <3>1. mem'[d] = m /\ \A i \in Entries : m.table[i].pid \in Int
      BY <1>1, <2>1 DEF Mem
    <3>2. \A i \in Entries : m.table[i].pid < nextpid
      BY DEF TableSound
    <3>3. \A i \in Entries : m.table[i].pid < nextpid'
      BY <1>1, <3>1, <3>2
    <3> QED BY <3>1, <3>3 DEF HeapSound, TableSound
  <2>2. CASE d # e
    BY <1>1, <1>2, <1>3, <2>2, HeapKept DEF SameHeap
  <2> QED BY <2>1, <2>2
<1>4. \A r \in Slots : Alive(r) => Space(r) \in Spaces
  BY DEF Whole, Base, Placed
<1> QED BY <1>2, <1>3, <1>4 DEF TablesStay, SameHeap

LEMMA ImageSound == ASSUME Whole PROVE Image \in Mem /\ TableSound(Image.table, Image.blocks)
<1>1. nextpid \in Nat \ {0}
  BY NextPidIs
<1>2. \A i \in Entries : Image.table[i].addr = 0 /\ Image.table[i].pid = 0
  BY DEF Image
<1> QED BY <1>1, <1>2, ImageIs DEF TableSound

LEMMA WaitStacks == ASSUME Around, StackInv, NEW p \in Slots, Wait(p) PROVE StackInv'
<1> DEFINE kids == Children(p)
           q == Min(Zombies(kids))
<1>1. /\ TypeOK /\ Base /\ Whole /\ Whole' /\ UNCHANGED nextpid
      /\ ctx[p].at \in {"user", "wait"} /\ Steps(p)
  BY AroundIs, WaitKind DEF Wait, Makes, At, Steps
<1>2. CASE Zombies(kids) # {} /\ proc' = Reaped(q) /\ FreeVm(Space(q)) /\ Return(p)
  <2>1. q \in Slots /\ proc[q].state = "ZOMBIE" /\ proc[q].parent = p /\ ~Together(p, q)
    BY <1>2, FamilyIs
  <2> HIDE DEF q
  <2>2. proc'[q].state = "UNUSED" /\ \A r \in Slots \ {q} : proc'[r] = proc[r]
    BY <1>1, <1>2, <2>1, ReapedIs
  <2>3. PidsKept(p) /\ Others(p) /\ Alive(p)
    BY <1>1, PidsAfter, OthersIs DEF Runner, Alive
  <2>4. StacksStay(p)
    BY <1>1, <1>2, <2>1, <2>3, AllStay, ReapedStacks
  <2>5. \A r \in Slots \ {p} : Alive(r) /\ Alive(r)' => Space(r) # Space(q)
    <3>1. \A r \in Slots \ {q} : Alive(r) => ~Together(r, q)
      BY <1>1, <2>1, LastOfSpace DEF Parent, Together
    <3> QED BY <2>2, <3>1 DEF Alive, Together
  <2>6. Image \in Mem /\ TableSound(Image.table, Image.blocks)
    BY <1>1, ImageSound
  <2>7. /\ mem' = [mem EXCEPT ![Space(q)] = Image] /\ Space(p) # Space(q)
        /\ \A d \in Spaces : HeapSound(d)
    BY <1>2, <2>1 DEF FreeVm, Together, StackInv
  <2>8. TablesStay(p)
    BY <1>1, <2>3, <2>5, <2>6, <2>7, NewTable
  <2>9. ~Starts(p) /\ GoesOn(p)
    BY <1>1 DEF Starts, GoesOn
  <2>10. Creates(p)'
    BY <1>1, <1>2, ReturnIs, Idling
  <2> QED BY <1>1, <2>4, <2>8, <2>9, <2>10, StacksKeep
<1>3. CASE Return(p) /\ UNCHANGED <<proc, mem, spaces, twice>>
  BY <1>1, <1>3, ReturnIs, Idling, PlainStacks DEF SameHeap, Stack
<1>4. CASE /\ Zombies(kids) = {} /\ proc' = [proc EXCEPT ![p].state = "SLEEPING"]
           /\ Go(p, "wait", 0, 0, 0) /\ UNCHANGED <<mem, spaces, twice>>
  <2>1. ctx'[p].at = "wait"
    BY <1>1, <1>4, GoIs
  <2>2. \A r \in Slots : Stack(r)' = Stack(r)
    BY <1>1, <1>4, StateOf DEF Stack, States
  <2> QED BY <1>1, <1>4, <2>1, <2>2, Idling, PlainStacks DEF SameHeap
<1> QED BY <1>2, <1>3, <1>4 DEF Wait

LEMMA ExecStacks == ASSUME Around, StackInv, NEW p \in Slots, Exec(p) PROVE StackInv'
<1>1. /\ Execs(p) /\ TypeOK /\ Base /\ Whole /\ Whole' /\ SpaceInv /\ "join" \in keeps
  BY AroundIs, ExecKind
<1>2. PidsKept(p) /\ Others(p) /\ Runner(p) /\ Alive(p)
  BY <1>1, PidsAfter, OthersIs DEF Runner, Alive, Steps
<1>3. StacksStay(p)
  <2>1. PICK n : proc' = [proc EXCEPT ![p].pgdir = n, ![p].sz = 1]
    BY DEF Exec
  <2>2. proc \in [Slots -> Proc]
    BY <1>1, Types
  <2>3. proc' = [proc EXCEPT ![p] = [proc[p] EXCEPT !.pgdir = n, !.sz = 1]]
    BY <2>1, <2>2
  <2>4. \A r \in Slots : Stack(r)' = Stack(r)
    BY <2>2, <2>3 DEF Stack, Proc
  <2> QED BY <1>1, <1>2, <2>4, AllStay
<1>4. TablesStay(p)
  <2>1. /\ \A r \in Slots \ {p} : Alive(r) => Space(r) # Space(p)
        /\ Space(p)' # Space(p)
    BY <1>1, <1>2 DEF Execs, Together, SpaceInv, Space
  <2>2. mem' = [mem EXCEPT ![Space(p)] = Image] /\ \A d \in Spaces : HeapSound(d)
    BY DEF Exec, StackInv
  <2>3. Image \in Mem /\ TableSound(Image.table, Image.blocks)
    BY <1>1, ImageSound
  <2> QED BY <1>1, <1>2, <2>1, <2>2, <2>3, NewTable
<1>5. ctx[p].at = "user" /\ ctx'[p].at = "user"
  BY <1>1 DEF Execs
<1> QED BY <1>1, <1>3, <1>4, <1>5, StacksKeep, Idling DEF Steps, Starts, GoesOn

LEMMA ForkCopyStacks == ASSUME Around, Room', StackInv, NEW p \in Slots, ForkCopy(p) PROVE StackInv'
<1> DEFINE k == ctx[p].x
           d == Min(Spaces \ spaces)
<1>1. /\ TypeOK /\ Base /\ Whole /\ Whole' /\ SpaceInv /\ At(p, "copy") /\ UNCHANGED <<nextpid, twice>>
      /\ GivesUp(p) \/ Copies(p) \/ UNCHANGED <<proc, nextpid, ctx, spaces, twice>>
  BY AroundIs, ForkCopyKind DEF ForkCopy
<1>2. k \in Slots /\ ctx[p].at = "copy" /\ k \in Int
  BY <1>1, KidIs
<1>3. Stack(k) = 0
  BY <1>2 DEF StackInv, Creates, HasPid
<1>4. CASE proc' = [proc EXCEPT ![k].state = "UNUSED"] /\ Return(p) /\ UNCHANGED mem
  <2>1. ctx'[p].at = "user"
    BY <1>1, <1>4, ReturnIs
  <2>2. Steps(p)
    BY <1>1, <1>2, <2>1 DEF Steps
  <2>3. \A r \in Slots : Stack(r)' = Stack(r)
    BY <1>1, <1>2, <1>4, StateOf DEF Stack, States
  <2> QED BY <1>2, <1>4, <2>1, <2>2, <2>3, Idling, PlainStacks DEF SameHeap
<1>5. CASE /\ Spaces \ spaces # {}
           /\ mem' = [mem EXCEPT ![d] = [mem[Space(p)] EXCEPT !.mapped = 0 .. proc[p].sz - 1]]
           /\ proc' = [proc EXCEPT ![k].pgdir = d, ![k].sz = proc[p].sz, ![k].parent = p]
           /\ Go(p, "child", k, 0, 0)
  <2>1. d \in Spaces \ spaces
    <3>1. Spaces \ spaces \in SUBSET Nat
      BY ThreadsAssumption DEF Spaces
    <3> QED BY <1>5, <3>1, MinIs
  <2> HIDE DEF d
  <2>2. ctx'[p].at = "child" /\ ctx'[p].x = k
    BY <1>1, <1>5, GoIs
  <2>3. Steps(p)
    BY <1>1, <1>2, <2>2 DEF Steps
  <2>4. PidsKept(p) /\ Others(p) /\ Alive(p)
    BY <1>1, <2>3, PidsAfter, OthersIs DEF Runner, Alive
  <2>5. \A r \in Slots : Stack(r)' = Stack(r)
    <3>1. proc \in [Slots -> Proc]
      BY <1>1, Types
    <3>2. proc' = [proc EXCEPT ![k] = [proc[k] EXCEPT !.pgdir = d, !.sz = proc[p].sz, !.parent = p]]
      BY <1>2, <1>5, <3>1
    <3> HIDE DEF k
    <3> QED BY <1>2, <3>1, <3>2 DEF Stack, Proc
  <2>6. StacksStay(p)
    BY <1>1, <2>4, <2>5, AllStay
  <2>7. TablesStay(p)
    <3> DEFINE m == [mem[Space(p)] EXCEPT !.mapped = 0 .. proc[p].sz - 1]
    <3>1. mem[Space(p)] \in Mem /\ Space(p) \in Spaces /\ proc[p].sz \in Nat
      BY <1>1, <2>4, Types DEF Whole, Base, Placed
    <3>2. m \in Mem /\ m.table = mem[Space(p)].table /\ m.blocks = mem[Space(p)].blocks
      BY <3>1 DEF Mem
    <3>3. TableSound(m.table, m.blocks) /\ \A e \in Spaces : HeapSound(e)
      BY <3>1, <3>2 DEF StackInv, HeapSound
    <3>4. \A r \in Slots : Alive(r) => Space(r) # d
      BY <1>1, <2>1 DEF SpaceInv
    <3>5. mem' = [mem EXCEPT ![d] = m]
      BY <1>5
    <3> HIDE DEF m
    <3> QED BY <1>1, <2>4, <3>2, <3>3, <3>4, <3>5, NewTable
  <2>8. Creates(p)'
    <3>1. Stack(ctx[p].x)' = 0
      <4>1. PICK j \in Slots : j = ctx[p].x /\ j = ctx'[p].x /\ Stack(j) = 0
        BY <1>2, <1>3, <2>2
      <4> QED BY <2>5, <4>1
    <3> QED BY <2>2, <3>1 DEF Creates, HasBlock, HasPid, HasLeft, Making
  <2>9. ~Starts(p) /\ GoesOn(p)
    BY <1>2 DEF Starts, GoesOn
  <2> QED BY <2>3, <2>6, <2>7, <2>8, <2>9, StacksKeep
<1>6. CASE panicked' = "copyuvm: page not present"
  BY <1>6 DEF Room
<1> QED BY <1>4, <1>5, <1>6 DEF ForkCopy

\* clone and fork take a slot without a stack, and a pid that no table has.
LEMMA AllocStacks ==
  ASSUME Around, StackInv, NEW p \in Slots, NEW place \in {"share", "copy"}, NEW s \in Int,
         AllocProc(p, place, s), \E q \in Slots : Allocates(p, q), UNCHANGED mem,
         ctx[p].at \in {"user", "clone"}, place = "share" => ctx[p].at = "clone" /\ s = ctx[p].y
  PROVE  StackInv'
<1> DEFINE free == {q \in Slots : proc[q].state = "UNUSED"}
           k == Min(free)
<1>1. /\ TypeOK /\ Base /\ Whole /\ Whole' /\ Steps(p) /\ nextpid \in Nat \ {0}
  BY AroundIs, NextPidIs DEF Steps
<1>2. PidsKept(p) /\ Others(p) /\ Runner(p) /\ Alive(p)
  BY <1>1, PidsAfter, OthersIs DEF Runner, Alive
<1>3. k \in free
  <2>1. free # {}
    BY DEF AllocProc
  <2> QED BY <2>1, MinSlot
<1>4. /\ proc' = [proc EXCEPT ![k].state = "EMBRYO", ![k].pid = nextpid, ![k].stack = 0]
      /\ nextpid' = nextpid + 1 /\ Go(p, place, k, s, 0)
  BY DEF AllocProc
<1> HIDE DEF k
<1>5. k \in Slots /\ proc[k].state = "UNUSED" /\ k # p
  BY <1>2, <1>3 DEF Runner
<1>6. ctx'[p].at = place /\ ctx'[p].x = k /\ ctx'[p].y = s
  BY <1>1, <1>4, GoIs
<1>7. /\ proc'[k].state = "EMBRYO" /\ proc'[k].pid = nextpid /\ proc'[k].stack = 0
      /\ SameSlots({k})
  <2>1. proc \in [Slots -> Proc]
    BY <1>1, Types
  <2>2. proc' = [proc EXCEPT ![k] = [proc[k] EXCEPT !.state = "EMBRYO", !.pid = nextpid, !.stack = 0]]
    BY <1>4, <1>5, <2>1
  <2> QED BY <1>5, <2>1, <2>2 DEF Proc, SameSlots
<1>8. StacksStay(p)
  BY <1>1, <1>2, <1>5, <1>7, OthersStay DEF Alive
<1>9. TablesStay(p)
  BY <1>1, <1>2, SameTablesStay DEF StackInv, SameHeap
<1>10. ctx[p].at \notin {"start", "child", "find", "addr", "pid"}
  OBVIOUS
<1>11. Creates(p)'
  <2>1. /\ Pid(ctx[p].x)' = nextpid /\ Stack(ctx[p].x)' = 0
        /\ Table(p)' = Table(p) /\ Blocks(p)' = Blocks(p)
    BY <1>5, <1>6, <1>7 DEF Pid, Stack, Table, Blocks, Space, SameSlots
  <2>2. CASE place = "copy"
    BY <1>6, <2>1, <2>2 DEF Creates, HasBlock, HasPid, HasLeft, Making
  <2>3. CASE place = "share"
    <3>1. HasBlock(p) /\ ctx[p].at = "clone" /\ s = ctx[p].y
      BY <2>3 DEF StackInv, Creates
    <3>2. HasBlock(p)'
      BY <1>6, <2>1, <2>3, <3>1 DEF HasBlock, Making
    <3>3. \A i \in Entries : Table(p)[i].pid < nextpid /\ Table(p)[i].pid \in Int
      BY <1>1, <1>2, Types DEF StackInv, HeapSound, TableSound, Table, Base, Placed
    <3>4. \A i \in Entries : Table(p)[i].pid # nextpid
      BY <1>1, <3>3
    <3>5. NoEntryOf(p, Pid(ctx[p].x))'
      BY <1>1, <2>1, <3>4 DEF NoEntryOf
    <3> QED BY <1>6, <2>3, <3>2, <3>5 DEF Creates, HasPid, HasLeft
  <2> QED BY <2>2, <2>3
<1>12. ~Starts(p) /\ GoesOn(p)
  BY <1>10 DEF Starts, GoesOn
<1> QED BY <1>1, <1>8, <1>9, <1>11, <1>12, StacksKeep

LEMMA ForkStacks == ASSUME Around, StackInv, NEW p \in Slots, Fork(p) PROVE StackInv'
<1>1. /\ \E q \in Slots : Allocates(p, q)
      /\ AllocProc(p, "copy", 0) /\ UNCHANGED mem /\ ctx[p].at = "user"
  BY AroundIs, ForkKind DEF Fork, Makes, At
<1> QED BY <1>1, AllocStacks

LEMMA CloneShareStacks == ASSUME Around, StackInv, NEW p \in Slots, CloneShare(p) PROVE StackInv'
<1> DEFINE k == ctx[p].x
<1>1. /\ TypeOK /\ Base /\ Steps(p) /\ At(p, "share") /\ UNCHANGED mem
      /\ proc' = [proc EXCEPT ![k].pgdir = Space(p)]
      /\ Go(p, "size", k, ctx[p].y, proc[p].sz)
  BY AroundIs, CloneShareKind DEF CloneShare, Steps
<1>2. k \in Slots /\ ctx[p].at = "share" /\ k # p
  BY <1>1, KidIs
<1>3. \A r \in Slots : Stack(r)' = Stack(r) /\ Pid(r)' = Pid(r) /\ (r # k => Space(r)' = Space(r))
  <2>1. proc \in [Slots -> Proc]
    BY <1>1, Types
  <2>2. proc' = [proc EXCEPT ![k] = [proc[k] EXCEPT !.pgdir = Space(p)]]
    BY <1>1, <1>2, <2>1
  <2> HIDE DEF k
  <2> QED BY <1>2, <2>1, <2>2 DEF Proc, Stack, Pid, Space
<1>4. ctx'[p].at = "size" /\ ctx'[p].x = k /\ ctx'[p].y = ctx[p].y
  BY <1>1, GoIs
<1>5. Creates(p)'
  <2>1. PICK j \in Slots : j = ctx[p].x /\ j = ctx'[p].x
    BY <1>2, <1>4
  <2>2. Pid(j)' = Pid(j) /\ Table(p)' = Table(p) /\ Blocks(p)' = Blocks(p)
    BY <1>1, <1>2, <1>3, <2>1 DEF Table, Blocks
  <2>3. HasBlock(p) /\ NoEntryOf(p, Pid(j))
    BY <1>2, <2>1 DEF StackInv, Creates, HasPid
  <2>4. HasBlock(p)'
    BY <1>2, <1>4, <2>2, <2>3 DEF HasBlock, Making
  <2>5. NoEntryOf(p, Pid(j))'
    BY <2>2, <2>3 DEF NoEntryOf
  <2>6. NoEntryOf(p, Pid(ctx[p].x))'
    BY <2>1, <2>5
  <2> QED BY <1>4, <2>4, <2>6 DEF Creates, HasPid, HasLeft
<1> QED BY <1>1, <1>2, <1>3, <1>5, PlainStacks DEF SameHeap

LEMMA CloneSizeStacks == ASSUME Around, StackInv, NEW p \in Slots, CloneSize(p) PROVE StackInv'
<1> DEFINE k == ctx[p].x
<1>1. /\ TypeOK /\ Base /\ Whole /\ Whole' /\ Steps(p) /\ At(p, "size") /\ UNCHANGED mem
      /\ proc' = [proc EXCEPT ![k].sz = ctx[p].z, ![k].parent = p, ![k].stack = ctx[p].y]
      /\ Go(p, "start", k, ctx[p].y, 0)
  BY AroundIs, CloneSizeKind DEF CloneSize, Steps, StackBase
<1>2. k \in Slots /\ ctx[p].at = "size" /\ k # p /\ proc[k].state = "EMBRYO" /\ p \in Busy
  BY <1>1, KidIs
<1>3. ctx'[p].at = "start" /\ ctx'[p].x = k /\ ctx'[p].y = ctx[p].y
  BY <1>1, GoIs
<1>4. /\ SameSlots({k}) /\ Stack(k)' = ctx[p].y /\ Pid(k)' = Pid(k)
      /\ proc'[k].state = "EMBRYO" /\ Space(p)' = Space(p)
  <2>1. proc \in [Slots -> Proc]
    BY <1>1, Types
  <2> DEFINE v == [proc[k] EXCEPT !.sz = ctx[p].z, !.parent = p, !.stack = ctx[p].y]
  <2>2. proc' = [proc EXCEPT ![k] = v]
    BY <1>1, <1>2, <2>1
  <2> HIDE DEF k
  <2>3. v.state = proc[k].state /\ v.pid = proc[k].pid /\ v.stack = ctx[p].y
    BY <1>2, <2>1 DEF Proc
  <2> HIDE DEF v
  <2>4. proc'[k] = v /\ \A r \in Slots \ {k} : proc'[r] = proc[r]
    BY <1>2, <2>1, <2>2
  <2>5. Stack(k)' = ctx[p].y /\ Pid(k)' = Pid(k) /\ proc'[k].state = "EMBRYO"
    <3>1. PICK j \in Slots : j = k /\ j = k'
      BY <1>2, <1>3 DEF k
    <3> QED BY <1>2, <2>3, <2>4, <3>1 DEF Stack, Pid
  <2> QED BY <1>2, <2>4, <2>5 DEF SameSlots, Space
<1>5. PidsKept(p) /\ Others(p) /\ Alive(p)
  BY <1>1, PidsAfter, OthersIs DEF Runner, Alive
<1>6. StacksStay(p)
  BY <1>1, <1>2, <1>4, <1>5, OthersStay DEF Alive
<1>7. TablesStay(p)
  BY <1>1, <1>5, SameTablesStay DEF StackInv, SameHeap
<1>8. Creates(p)'
  <2>1. PICK j \in Slots : j = ctx[p].x /\ j = ctx'[p].x
    BY <1>2, <1>3
  <2>2. /\ Pid(j)' = Pid(j) /\ Table(p)' = Table(p) /\ Blocks(p)' = Blocks(p)
        /\ Stack(j)' = ctx'[p].y
    BY <1>1, <1>4, <1>3, <2>1 DEF Table, Blocks
  <2>3. HasBlock(p) /\ NoEntryOf(p, Pid(j))
    BY <1>2, <2>1 DEF StackInv, Creates, HasPid
  <2>4. HasBlock(p)'
    BY <1>2, <1>3, <2>2, <2>3 DEF HasBlock, Making
  <2>5. NoEntryOf(p, Pid(j))'
    BY <2>2, <2>3 DEF NoEntryOf
  <2>6. NoEntryOf(p, Pid(ctx[p].x))' /\ Stack(ctx[p].x)' = ctx'[p].y
    BY <2>1, <2>2, <2>5
  <2> QED BY <1>3, <2>4, <2>6 DEF Creates, HasPid, HasLeft
<1>9. ~Starts(p) /\ GoesOn(p)
  BY <1>2 DEF Starts, GoesOn
<1> QED BY <1>1, <1>6, <1>7, <1>8, <1>9, StacksKeep

\* thread_create has found an entry that is free.
LEMMA FindEntryStacks ==
  ASSUME Around, StackInv, NEW p \in Slots, FindEntry(p), FreeEntries(p) # {}
  PROVE  StackInv'
<1> DEFINE z == Min(FreeEntries(p))
<1>1. /\ TypeOK /\ Base /\ Whole /\ Whole' /\ Steps(p) /\ ctx[p].at = "find" /\ UNCHANGED <<proc, mem>>
      /\ Go(p, "addr", ctx[p].x, ctx[p].y, z)
  BY AroundIs, FindEntryKind DEF FindEntry, Steps, At
<1>2. PidsKept(p) /\ Others(p) /\ Alive(p)
  BY <1>1, PidsAfter, OthersIs DEF Runner, Alive
<1>3. z \in FreeEntries(p)
  <2>1. FreeEntries(p) \in SUBSET Nat
    BY ThreadsAssumption DEF FreeEntries, Entries
  <2> QED BY <2>1, MinIs
<1> HIDE DEF z
<1>4. ctx'[p].at = "addr" /\ ctx'[p].x = ctx[p].x /\ ctx'[p].y = ctx[p].y /\ ctx'[p].z = z
  BY <1>1, GoIs
<1>5. StacksStay(p)
  BY <1>1, <1>2, AllStay DEF Stack
<1>6. TablesStay(p)
  BY <1>1, <1>2, SameTablesStay DEF StackInv, SameHeap
<1>7. Creates(p)'
  <2>1. Table(p)' = Table(p) /\ Blocks(p)' = Blocks(p) /\ nextpid' >= nextpid
    BY <1>1, <1>2 DEF Table, Blocks, Space, PidsKept
  <2>2. HasBlock(p) /\ NoEntryOf(p, ctx[p].x) /\ ctx[p].x < nextpid
    BY <1>1 DEF StackInv, Creates, HasPid
  <2>3. z \in Entries /\ Table(p)[z].addr = 0 /\ Table(p)[z].pid <= 0
    BY <1>1, <1>2, <1>3 DEF FreeEntries, StackInv, HeapSound, TableSound, Table, Base, Placed
  <2>4. HasBlock(p)'
    BY <1>1, <1>4, <2>1, <2>2, <2>3 DEF HasBlock, Making
  <2>5. ctx[p].x \in Int /\ nextpid \in Int /\ nextpid' \in Int
    <3>1. nextpid' \in Nat
      BY AroundIs DEF TypeOK
    <3> QED BY <1>1, <3>1, Types
  <2>6. NoEntryOf(p, ctx[p].x)' /\ ctx'[p].x < nextpid'
    BY <1>4, <2>1, <2>2, <2>5 DEF NoEntryOf
  <2> QED BY <1>4, <2>4, <2>6 DEF Creates, HasPid, HasLeft
<1>8. ~Starts(p) /\ GoesOn(p)
  BY <1>1, <1>4 DEF Starts, GoesOn
<1> QED BY <1>1, <1>5, <1>6, <1>7, <1>8, StacksKeep

\* The memory of the caller's space changes, and no slot.
LEMMA MemoryStacks ==
  ASSUME Around, StackInv, NEW p \in Slots, Steps(p), UNCHANGED <<proc, nextpid>>,
         NEW m, mem' = [mem EXCEPT ![Space(p)] = m], TableSound(m.table, m.blocks),
         Creates(p)',
         \A r \in Slots \ {p} : Together(r, p) /\ ctx[r].at \in Making => Creates(r)',
         \A q \in Slots : IsThread(q) /\ Together(q, p) /\ Written(q) => Written(q)',
         \A q \in Slots : IsThread(q) /\ Together(q, p) /\ Parent(q) = p /\ Writing(q)
                          => Writing(q)' \/ Written(q)'
  PROVE  StackInv'
<1>1. /\ Base /\ TypeOK /\ Whole /\ PidsKept(p) /\ Others(p) /\ Runner(p) /\ Alive(p)
      /\ Space(p) \in Spaces
  BY AroundIs, PidsAfter, OthersIs DEF Runner, Alive, Base, Placed
<1>2. mem'[Space(p)] = m /\ \A d \in Spaces \ {Space(p)} : mem'[d] = mem[d]
  BY <1>1, Types
<1>3. StacksStay(p)
  BY <1>1, AllStay DEF Stack
<1>4. ASSUME NEW r \in Slots \ {p} PROVE Creates(r)'
  <2>1. CASE Together(r, p) /\ ctx[r].at \in Making
    BY <2>1
  <2>2. CASE ~(Together(r, p) /\ ctx[r].at \in Making)
    <3>1. ctx[r].at \in Making /\ Alive(r) /\ Alive(r)' =>
            Space(r)' = Space(r) /\ SameHeap(Space(r))
      <4> SUFFICES ASSUME ctx[r].at \in Making, Alive(r)
                   PROVE  Space(r)' = Space(r) /\ SameHeap(Space(r))
        OBVIOUS
      <4>1. Space(r) \in Spaces \ {Space(p)}
        BY <1>1, <2>2 DEF Base, Placed, Together
      <4> QED BY <1>2, <4>1 DEF SameHeap, Space
    <3> QED BY <1>3, <3>1, OthersCreate
  <2> QED BY <2>1, <2>2
<1>5. ASSUME NEW d \in Spaces PROVE HeapSound(d)'
  <2>1. CASE d = Space(p)
    BY <1>2, <2>1 DEF HeapSound, TableSound
  <2>2. CASE d # Space(p)
    <3>1. mem'[d] = mem[d] /\ HeapSound(d)
      BY <1>2, <2>2 DEF StackInv
    <3> QED BY <3>1 DEF HeapSound, TableSound
  <2> QED BY <2>1, <2>2
<1>6. ASSUME NEW q \in Slots, IsThread(q)'
      PROVE  /\ IsThread(q) /\ Kin(q)
             /\ Written(q) => Written(q)'
             /\ Parent(q) = p => /\ Space(p)' = Space(p)
                                 /\ Writing(q) => Writing(q)' \/ Written(q)'
  <2>1. IsThread(q) /\ Kin(q) /\ Space(p)' = Space(p) /\ Alive(q)
    BY <1>6 DEF IsThread, Alive, Kin, Pid, Parent, Stack, Space
  <2>2. Together(q, Parent(q))
    BY <2>1 DEF StackInv, Listed
  <2>3. Written(q) => Written(q)'
    <3>1. CASE Together(q, p)
      BY <2>1, <3>1
    <3>2. CASE ~Together(q, p)
      <4>1. Space(q) \in Spaces \ {Space(p)}
        BY <1>1, <2>1, <3>2 DEF Base, Placed, Together
      <4>2. Table(q)' = Table(q)
        BY <1>2, <4>1 DEF Table, Space
      <4> QED BY <2>1, <4>2 DEF Written, Kin
    <3> QED BY <3>1, <3>2
  <2> QED BY <2>1, <2>2, <2>3
<1>7. /\ \A r \in Slots : Creates(r)'
      /\ \A r \in Slots \ {p} : Alive(r) /\ Alive(r)' => Space(r)' = Space(r)
  BY <1>4 DEF Space
<1> QED BY <1>1, <1>5, <1>6, <1>7, StacksAfter

\* thread_create excludes another in its space.
LEMMA AloneMaking ==
  ASSUME Around, NEW p \in Slots, Free(p)
  PROVE  \A r \in Slots \ {p} : Together(r, p) => ctx[r].at \notin Making
<1> SUFFICES ASSUME NEW r \in Slots \ {p}, Together(r, p), ctx[r].at \in Making PROVE FALSE
  OBVIOUS
<1>1. CtxOf(r) /\ proc[r].state \in States
  BY AroundIs, Types DEF Base, CtxInv
<1>2. Alive(r)
  BY <1>1 DEF CtxOf, Making, States, Alive
<1> QED BY <1>2 DEF Free, Together, Making, Exclusive

\* What the table of the caller's space holds.
LEMMA TableIs ==
  ASSUME Around, StackInv, NEW p \in Slots, Runner(p)
  PROVE  /\ Space(p) \in Spaces /\ mem[Space(p)] \in Mem
         /\ TableSound(Table(p), Blocks(p)) /\ Blocks(p) \subseteq Stacks /\ Stacks \subseteq Nat \ {0}
         /\ Table(p) \in [Entries -> [addr : Stacks \cup {0}, pid : Int]]
         /\ nextpid \in Nat \ {0} /\ Creates(p) /\ Alive(p)
<1>1. Alive(p) /\ Space(p) \in Spaces /\ TypeOK /\ Whole
  BY AroundIs DEF Runner, Alive, Base, Placed
<1>2. mem[Space(p)] \in Mem
  BY <1>1, Types
<1> QED BY <1>1, <1>2, NextPidIs, ThreadsAssumption DEF StackInv, HeapSound, Table, Blocks, Mem

LEMMA CreateStacks == ASSUME Around, StackInv, NEW p \in Slots, Create(p) PROVE StackInv'
<1> DEFINE free == Stacks \ Blocks(p)
           y == Min(free)
           m == [mem[Space(p)] EXCEPT !.blocks = @ \cup {y}]
<1>1. /\ TypeOK /\ Steps(p) /\ Runner(p) /\ Free(p) /\ ctx[p].at = "user"
      /\ UNCHANGED <<proc, nextpid>>
  BY AroundIs, CreateKind, FreeOf DEF Create, Makes, At, Steps, Quiet
<1>2. /\ Space(p) \in Spaces /\ mem[Space(p)] \in Mem
      /\ TableSound(Table(p), Blocks(p)) /\ Stacks \subseteq Nat \ {0}
  BY <1>1, TableIs
<1>3. free # {} /\ mem' = [mem EXCEPT ![Space(p)] = m] /\ Go(p, "clone", 0, y, 0)
  BY DEF Create, Blocks
<1>4. y \in free
  BY <1>2, <1>3, MinIs
<1> HIDE DEF y
<1>5. m.table = Table(p) /\ m.blocks = Blocks(p) \cup {y}
  BY <1>2 DEF Mem, Table, Blocks
<1> HIDE DEF m
<1>6. TableSound(m.table, m.blocks)
  BY <1>2, <1>5 DEF TableSound
<1>7. ctx'[p].at = "clone" /\ ctx'[p].y = y
  BY <1>1, <1>3, GoIs
<1>8. Creates(p)'
  <2>1. mem'[Space(p)] = m /\ Space(p)' = Space(p)
    BY <1>1, <1>2, <1>3, Types DEF Space
  <2>2. Table(p)' = Table(p) /\ Blocks(p)' = Blocks(p) \cup {y}
    BY <1>5, <2>1 DEF Table, Blocks
  <2>3. y # 0 /\ \A i \in Entries : Table(p)[i].addr # y
    BY <1>2, <1>4 DEF TableSound
  <2> QED BY <1>7, <2>2, <2>3 DEF Creates, HasBlock, HasPid, HasLeft, Making
<1>9. \A q \in Slots : Written(q) /\ Together(q, p) => Written(q)'
  <2>1. mem'[Space(p)] = m /\ UNCHANGED proc
    BY <1>1, <1>2, <1>3, Types
  <2> QED BY <1>5, <2>1 DEF Written, Table, Together, Space, Pid, Stack
<1>10. \A q \in Slots : Parent(q) = p => ~Writing(q)
  BY <1>1 DEF Writing
<1> QED BY <1>1, <1>3, <1>6, <1>8, <1>9, <1>10, AloneMaking, MemoryStacks

LEMMA CloneStacks == ASSUME Around, StackInv, NEW p \in Slots, Clone(p) PROVE StackInv'
<1> DEFINE y == ctx[p].y
           m == [mem[Space(p)] EXCEPT !.blocks = @ \ {y}]
<1>1. /\ TypeOK /\ At(p, "clone") /\ Runner(p) /\ ctx[p].at = "clone" /\ y \in Int
      /\ Quiet(p) \/ \E q \in Slots : Allocates(p, q)
  BY AroundIs, CloneKind, Types DEF Clone, At, Runner
<1>2. CASE AllocProc(p, "share", y) /\ UNCHANGED mem
  <2>1. nextpid' # nextpid
    <3>1. nextpid' = nextpid + 1
      BY <1>2 DEF AllocProc
    <3>2. nextpid \in Nat
      BY <1>1, Types
    <3> QED BY <3>1, <3>2
  <2>2. \E q \in Slots : Allocates(p, q)
    BY <1>1, <2>1 DEF Quiet
  <2> QED BY <1>1, <1>2, <2>2, AllocStacks
<1>3. CASE /\ mem' = [mem EXCEPT ![Space(p)].blocks = @ \ {y}]
           /\ Return(p) /\ UNCHANGED <<proc, nextpid>>
  <2>1. /\ Steps(p) /\ Alive(p) /\ Room
    <3>1. ~(\E q \in Slots : Allocates(p, q))
      BY <1>3 DEF Allocates
    <3> QED BY <1>1, <3>1, AroundIs DEF Steps, Runner, Alive
  <2>2. Free(p)
    BY <1>1, <2>1, NobodyElse DEF InCall, Exclusive
  <2>3. /\ Space(p) \in Spaces /\ mem[Space(p)] \in Mem
        /\ TableSound(Table(p), Blocks(p)) /\ HasBlock(p)
    BY <1>1, TableIs DEF Creates
  <2>4. mem' = [mem EXCEPT ![Space(p)] = m]
    BY <1>3
  <2>5. m.table = Table(p) /\ m.blocks = Blocks(p) \ {y}
    BY <2>3 DEF Mem, Table, Blocks
  <2>6. \A i \in Entries : Table(p)[i].addr # y
    BY <1>1, <2>3 DEF HasBlock, Making
  <2> HIDE DEF m, y
  <2>7. TableSound(m.table, m.blocks)
    BY <2>3, <2>5, <2>6 DEF TableSound
  <2>8. Creates(p)'
    BY <1>1, <1>3, ReturnIs, Idling
  <2>9. \A q \in Slots : Written(q) /\ Together(q, p) => Written(q)'
    <3>1. mem'[Space(p)] = m
      BY <1>1, <2>3, <2>4, Types
    <3> QED BY <1>3, <2>5, <3>1 DEF Written, Table, Together, Space, Pid, Stack
  <2>10. \A q \in Slots : Parent(q) = p => ~Writing(q)
    BY <1>1 DEF Writing
  <2> QED BY <1>3, <2>1, <2>2, <2>4, <2>7, <2>8, <2>9, <2>10, AloneMaking, MemoryStacks
<1> QED BY <1>2, <1>3 DEF Clone

\* The stores into the table keep all other entries.
LEMMA PutAddressStacks == ASSUME Around, StackInv, NEW p \in Slots, PutAddress(p) PROVE StackInv'
<1> DEFINE y == ctx[p].y
           z == ctx[p].z
           T == [Table(p) EXCEPT ![z].addr = y]
           m == [mem[Space(p)] EXCEPT !.table = T]
<1>1. /\ TypeOK /\ Steps(p) /\ Runner(p) /\ Alive(p) /\ ctx[p].at = "addr" /\ Room
      /\ UNCHANGED <<proc, nextpid>> /\ Go(p, "pid", ctx[p].x, y, z)
      /\ mem' = [mem EXCEPT ![Space(p)].table[z].addr = y]
  BY AroundIs, PutAddressKind DEF PutAddress, At, Steps, Runner, Alive
<1>2. Free(p)
  BY <1>1, NobodyElse DEF InCall, Exclusive
<1>3. /\ Space(p) \in Spaces /\ mem[Space(p)] \in Mem
      /\ TableSound(Table(p), Blocks(p)) /\ Creates(p) /\ Stacks \subseteq Nat \ {0}
      /\ Table(p) \in [Entries -> [addr : Stacks \cup {0}, pid : Int]]
      /\ Blocks(p) \subseteq Stacks /\ nextpid \in Nat
  BY <1>1, TableIs
<1>4. /\ y \in Blocks(p) /\ z \in Entries /\ Table(p)[z].pid <= 0 /\ Table(p)[z].addr = 0
      /\ \A i \in Entries : Table(p)[i].addr # y
  BY <1>1, <1>3 DEF Creates, HasBlock, Making
<1>5. NoEntryOf(p, ctx[p].x) /\ ctx[p].x < nextpid
  BY <1>1, <1>3 DEF Creates, HasPid
<1>6. mem' = [mem EXCEPT ![Space(p)] = m]
  BY <1>1 DEF Table
<1>7. ctx'[p].at = "pid" /\ ctx'[p].x = ctx[p].x /\ ctx'[p].y = y /\ ctx'[p].z = z
  BY <1>1, GoIs
<1> HIDE DEF y, z
<1>8. \A i \in Entries : T[i].pid = Table(p)[i].pid /\ T[i].addr = IF i = z THEN y ELSE Table(p)[i].addr
  BY <1>3, <1>4
<1> HIDE DEF T
<1>9. m.table = T /\ m.blocks = Blocks(p)
  BY <1>3 DEF Mem, Blocks
<1> HIDE DEF m
<1>10. TableSound(m.table, m.blocks)
  <2>1. y # 0
    BY <1>3, <1>4
  <2> QED BY <1>3, <1>4, <1>8, <1>9, <2>1 DEF TableSound
<1>11. mem'[Space(p)] = m /\ Space(p)' = Space(p)
  BY <1>1, <1>3, <1>6, Types DEF Space
<1>12. Table(p)' = T /\ Blocks(p)' = Blocks(p)
  BY <1>9, <1>11 DEF Table, Blocks
<1>13. Creates(p)'
  BY <1>1, <1>4, <1>5, <1>7, <1>8, <1>12
     DEF Creates, HasBlock, HasPid, HasLeft, Making, NoEntryOf
<1>14. ASSUME NEW q \in Slots, IsThread(q), Together(q, p), Written(q) PROVE Written(q)'
  <2>1. PICK i \in Entries : Table(q)[i].pid = Pid(q) /\ Table(q)[i].addr = Stack(q)
    BY <1>14 DEF Written
  <2>2. Table(q) = Table(p) /\ Table(q)' = T /\ Pid(q)' = Pid(q) /\ Stack(q)' = Stack(q)
    BY <1>1, <1>9, <1>11, <1>14 DEF Table, Together, Space, Pid, Stack
  <2>3. i # z
    BY <1>4, <1>14, <2>1, <2>2 DEF IsThread
  <2>4. T[i].pid = Pid(q) /\ T[i].addr = Stack(q)
    BY <1>8, <2>1, <2>2, <2>3
  <2> QED BY <2>2, <2>4 DEF Written
<1>15. ASSUME NEW q \in Slots, Parent(q) = p, Writing(q) PROVE Writing(q)'
  BY <1>1, <1>7, <1>15 DEF Writing, Parent, Pid, Stack, y
<1> QED BY <1>1, <1>2, <1>6, <1>10, <1>13, <1>14, <1>15, AloneMaking, MemoryStacks

LEMMA PutPidStacks == ASSUME Around, StackInv, NEW p \in Slots, PutPid(p) PROVE StackInv'
<1> DEFINE x == ctx[p].x
           y == ctx[p].y
           z == ctx[p].z
           T == [Table(p) EXCEPT ![z].pid = x]
           m == [mem[Space(p)] EXCEPT !.table = T]
<1>1. /\ TypeOK /\ Steps(p) /\ Runner(p) /\ Alive(p) /\ ctx[p].at = "pid" /\ Room
      /\ UNCHANGED <<proc, nextpid>> /\ Return(p)
      /\ mem' = [mem EXCEPT ![Space(p)].table[z].pid = x] /\ x \in Int
  BY AroundIs, PutPidKind, Types DEF PutPid, At, Steps, Runner, Alive
<1>2. Free(p)
  BY <1>1, NobodyElse DEF InCall, Exclusive
<1>3. /\ Space(p) \in Spaces /\ mem[Space(p)] \in Mem
      /\ TableSound(Table(p), Blocks(p)) /\ Creates(p) /\ Stacks \subseteq Nat \ {0}
      /\ Table(p) \in [Entries -> [addr : Stacks \cup {0}, pid : Int]]
      /\ Blocks(p) \subseteq Stacks /\ nextpid \in Nat
  BY <1>1, TableIs
<1>4. /\ y \in Blocks(p) /\ z \in Entries /\ Table(p)[z].pid <= 0 /\ Table(p)[z].addr = y
  BY <1>1, <1>3 DEF Creates, HasBlock, Making
<1>5. x > 0 /\ x < nextpid /\ \A i \in Entries : Table(p)[i].pid # x
  BY <1>1, <1>3 DEF Creates, HasPid, NoEntryOf
<1>6. mem' = [mem EXCEPT ![Space(p)] = m]
  BY <1>1 DEF Table
<1> HIDE DEF x, y, z
<1>7. \A i \in Entries : T[i].addr = Table(p)[i].addr /\ T[i].pid = IF i = z THEN x ELSE Table(p)[i].pid
  BY <1>3, <1>4
<1> HIDE DEF T
<1>8. m.table = T /\ m.blocks = Blocks(p)
  BY <1>3 DEF Mem, Blocks
<1> HIDE DEF m
<1>9. TableSound(m.table, m.blocks)
  <2>1. y # 0
    BY <1>3, <1>4
  <2> QED BY <1>3, <1>4, <1>5, <1>7, <1>8, <2>1 DEF TableSound
<1>10. mem'[Space(p)] = m
  BY <1>1, <1>3, <1>6, Types
<1>11. Creates(p)'
  BY <1>1, ReturnIs, Idling
<1>12. ASSUME NEW q \in Slots, Together(q, p)
       PROVE  /\ Table(q) = Table(p) /\ Table(q)' = T /\ Pid(q)' = Pid(q) /\ Stack(q)' = Stack(q)
  BY <1>1, <1>8, <1>10, <1>12 DEF Table, Together, Space, Pid, Stack
<1>13. ASSUME NEW q \in Slots, IsThread(q), Together(q, p), Written(q) PROVE Written(q)'
  <2>1. PICK i \in Entries : Table(p)[i].pid = Pid(q) /\ Table(p)[i].addr = Stack(q)
    BY <1>12, <1>13 DEF Written
  <2>2. Pid(q) > 0 /\ Pid(q) \in Nat
    BY <1>1, <1>13, Types DEF StackInv, OwnPids, IsThread, Alive, Pid
  <2>3. i # z
    BY <1>4, <2>1, <2>2
  <2>4. T[i].pid = Pid(q) /\ T[i].addr = Stack(q)
    BY <1>7, <2>1, <2>3
  <2> QED BY <1>12, <1>13, <2>4 DEF Written
<1>14. ASSUME NEW q \in Slots, Together(q, p), Parent(q) = p, Writing(q) PROVE Written(q)'
  <2>1. T[z].pid = Pid(q) /\ T[z].addr = Stack(q)
    BY <1>4, <1>7, <1>14 DEF Writing, x, y
  <2> QED BY <1>4, <1>12, <1>14, <2>1 DEF Written
<1> QED BY <1>1, <1>2, <1>6, <1>9, <1>11, <1>13, <1>14, AloneMaking, MemoryStacks

\* thread_join frees one block, whose pid nobody has any more.
LEMMA FreeStackStacks == ASSUME Around, StackInv, NEW p \in Slots, FreeStack(p) PROVE StackInv'
<1> DEFINE x == ctx[p].x
           mine == EntryOf(p, x)
           T == [i \in Entries |-> IF i \in mine THEN [addr |-> 0, pid |-> -1] ELSE Table(p)[i]]
           B == Blocks(p) \ {Table(p)[i].addr : i \in mine}
           m == [mem[Space(p)] EXCEPT !.blocks = B, !.table = T]
<1>1. /\ TypeOK /\ Base /\ Steps(p) /\ Runner(p) /\ Alive(p) /\ ctx[p].at = "forget"
      /\ UNCHANGED <<proc, nextpid>> /\ Return(p) /\ x \in Int
      /\ mem' = [mem EXCEPT ![Space(p)] = m]
  BY AroundIs, FreeStackKind, Types DEF FreeStack, At, Steps, Runner, Alive, Table, Blocks
<1>2. /\ Space(p) \in Spaces /\ mem[Space(p)] \in Mem
      /\ TableSound(Table(p), Blocks(p)) /\ Creates(p) /\ Stacks \subseteq Nat \ {0}
      /\ Table(p) \in [Entries -> [addr : Stacks \cup {0}, pid : Int]]
      /\ Blocks(p) \subseteq Stacks /\ nextpid \in Nat \ {0}
  BY <1>1, TableIs
<1>3. 0 < x /\ \A q \in Slots : proc[q].state # "UNUSED" => Pid(q) # x
  BY <1>1, <1>2 DEF Creates, HasLeft
<1> HIDE DEF x
<1>4. mine = {i \in Entries : Table(p)[i].pid = x}
  BY DEF EntryOf
<1>5. \A i \in mine : Table(p)[i].addr # 0
  BY <1>2, <1>3, <1>4 DEF TableSound
<1> HIDE DEF mine
<1>6. \A i \in Entries : /\ i \in mine => T[i].addr = 0 /\ T[i].pid = -1
                         /\ i \notin mine => T[i] = Table(p)[i]
  OBVIOUS
<1>7. \A i \in Entries \ mine : Table(p)[i].addr # 0 => Table(p)[i].addr \in B
  BY <1>2, <1>4, <1>5 DEF TableSound
<1>8. B \subseteq Blocks(p) /\ \A y \in Blocks(p) \ B : \E i \in mine : Table(p)[i].addr = y
  OBVIOUS
<1> HIDE DEF T, B
<1>9. m.table = T /\ m.blocks = B
  BY <1>2 DEF Mem
<1> HIDE DEF m
<1>10. TableSound(m.table, m.blocks)
  <2>1. ASSUME NEW i \in Entries
        PROVE  /\ T[i].addr # 0 => T[i].addr \in B
               /\ T[i].addr = 0 => T[i].pid <= 0
               /\ T[i].pid < nextpid
    BY <1>2, <1>6, <1>7, <2>1 DEF TableSound
  <2>2. ASSUME NEW i \in Entries, NEW j \in Entries, i # j
        PROVE  /\ T[i].addr = T[j].addr => T[i].addr = 0
               /\ T[i].pid = T[j].pid => T[i].pid <= 0
    <3>1. CASE i \in mine \/ j \in mine
      BY <1>6, <2>2, <3>1
    <3>2. CASE i \notin mine /\ j \notin mine
      BY <1>2, <1>6, <2>2, <3>2 DEF TableSound
    <3> QED BY <3>1, <3>2
  <2> QED BY <1>9, <2>1, <2>2 DEF TableSound
<1>11. mem'[Space(p)] = m /\ UNCHANGED proc
  BY <1>1, <1>2, Types
<1>12. Creates(p)'
  BY <1>1, ReturnIs, Idling
<1>13. ASSUME NEW q \in Slots, Together(q, p)
       PROVE  /\ Table(q) = Table(p) /\ Table(q)' = T /\ Pid(q)' = Pid(q) /\ Stack(q)' = Stack(q)
              /\ Blocks(q) = Blocks(p) /\ Blocks(q)' = B
  BY <1>9, <1>11, <1>13 DEF Table, Blocks, Together, Space, Pid, Stack
<1>14. ASSUME NEW q \in Slots, IsThread(q), Together(q, p), Written(q) PROVE Written(q)'
  <2>1. PICK i \in Entries : Table(p)[i].pid = Pid(q) /\ Table(p)[i].addr = Stack(q)
    BY <1>13, <1>14 DEF Written
  <2>2. i \notin mine
    BY <1>3, <1>4, <1>14, <2>1 DEF IsThread, Alive
  <2>3. T[i].pid = Pid(q) /\ T[i].addr = Stack(q)
    BY <1>6, <2>1, <2>2
  <2> QED BY <1>13, <1>14, <2>3 DEF Written
<1>15. ASSUME NEW r \in Slots \ {p}, Together(r, p), ctx[r].at \in Making PROVE Creates(r)'
  <2>1. Creates(r) /\ ctx'[r] = ctx[r] /\ ctx[r].y \in Blocks(p)
    BY <1>1, <1>13, <1>15, OthersIs DEF StackInv, Others, Creates, HasBlock
  <2>2. ctx[r].y \in B
    <3> SUFFICES ASSUME NEW i \in mine, Table(p)[i].addr = ctx[r].y PROVE FALSE
      BY <1>8, <2>1
    <3>1. i \in Entries /\ Table(p)[i].pid = x
      BY <1>4
    <3>2. CASE ctx[r].at # "pid"
      BY <1>13, <1>15, <2>1, <3>1, <3>2 DEF Creates, HasBlock
    <3>3. CASE ctx[r].at = "pid"
      <4>1. /\ ctx[r].z \in Entries /\ Table(p)[ctx[r].z].pid <= 0
            /\ Table(p)[ctx[r].z].addr = ctx[r].y
        BY <1>13, <1>15, <2>1, <3>3 DEF Creates, HasBlock
      <4>2. i # ctx[r].z /\ ctx[r].y # 0
        BY <1>2, <1>3, <2>1, <3>1, <4>1
      <4> QED BY <1>2, <3>1, <4>1, <4>2 DEF TableSound
    <3> QED BY <3>2, <3>3
  <2>3. HasBlock(r)'
    <3>1. \A i \in Entries : Table(r)[i].addr # ctx[r].y => T[i].addr # ctx[r].y
      BY <1>2, <1>6, <1>13, <1>15, <2>1
    <3>2. ASSUME NEW i \in Entries, Table(r)[i].pid <= 0 PROVE T[i] = Table(r)[i]
      <4>1. Table(r) = Table(p)
        BY <1>13, <1>15
      <4>2. Table(p)[i].pid # x
        BY <1>1, <1>2, <1>3, <3>2, <4>1
      <4> QED BY <1>4, <1>6, <4>1, <4>2
    <3> QED BY <1>13, <1>15, <2>1, <2>2, <3>1, <3>2 DEF Creates, HasBlock
  <2>4. HasPid(r)'
    <3>1. \A n : NoEntryOf(r, n) => NoEntryOf(r, n)'
      BY <1>4, <1>6, <1>13, <1>15 DEF NoEntryOf
    <3>2. \A j \in Slots : Pid(j)' = Pid(j) /\ Stack(j)' = Stack(j)
      BY <1>11 DEF Pid, Stack
    <3>3. nextpid' = nextpid
      BY <1>1
    <3>4. r \in Busy => ctx[r].x \in Slots
      BY <1>1, BusyIs
    <3>5. ctx[r].at \in {"share", "size", "start"} => NoEntryOf(r, Pid(ctx[r].x))'
      <4> SUFFICES ASSUME ctx[r].at \in {"share", "size", "start"}
                   PROVE  NoEntryOf(r, Pid(ctx[r].x))'
        OBVIOUS
      <4>1. PICK j \in Slots : j = ctx[r].x /\ j = ctx'[r].x
        BY <2>1, <3>4 DEF Busy
      <4>2. NoEntryOf(r, Pid(j))
        BY <2>1, <4>1 DEF Creates, HasPid
      <4>3. NoEntryOf(r, Pid(j))'
        BY <3>1, <3>2, <4>1, <4>2 DEF NoEntryOf
      <4> QED BY <4>1, <4>3
    <3>6. ctx[r].at \in {"find", "addr", "pid"} => NoEntryOf(r, ctx[r].x)' /\ ctx'[r].x < nextpid'
      BY <2>1, <3>1, <3>3 DEF Creates, HasPid, NoEntryOf
    <3>7. ctx[r].at = "start" => Stack(ctx[r].x)' = ctx'[r].y
      BY <2>1, <3>2, <3>4 DEF Creates, HasPid, Busy
    <3> QED BY <1>15, <2>1, <3>5, <3>6, <3>7 DEF HasPid, Making
  <2> QED BY <1>15, <2>1, <2>3, <2>4 DEF Creates, HasLeft, Making
<1>16. \A q \in Slots : Parent(q) = p => ~Writing(q)
  BY <1>1 DEF Writing
<1> QED BY <1>1, <1>10, <1>12, <1>14, <1>15, <1>16, MemoryStacks

\* The new thread is its creator's, who has still to write it to the table.
LEMMA CloneStartStacks == ASSUME Around, StackInv, NEW p \in Slots, CloneStart(p) PROVE StackInv'
<1> DEFINE k == ctx[p].x
           y == ctx[p].y
<1>1. /\ TypeOK /\ Base /\ Whole /\ Whole' /\ Steps(p) /\ At(p, "start") /\ UNCHANGED <<nextpid, mem>>
      /\ proc' = [proc EXCEPT ![k].state = "RUNNABLE"]
      /\ Go(p, "find", proc[k].pid, y, 0)
  BY AroundIs, CloneStartKind DEF CloneStart, Steps
<1>2. k \in Slots /\ ctx[p].at = "start" /\ k # p /\ proc[k].state = "EMBRYO" /\ p \in Busy
  BY <1>1, KidIs
<1>3. PidsKept(p) /\ Others(p) /\ Runner(p) /\ Alive(p)
  BY <1>1, PidsAfter, OthersIs DEF Runner, Alive
<1>4. ctx'[p].at = "find" /\ ctx'[p].x = Pid(k) /\ ctx'[p].y = y
  BY <1>1, GoIs DEF Pid
<1>5. /\ \A q \in Slots \ {k} : proc'[q] = proc[q]
      /\ \A q \in Slots : /\ Pid(q)' = Pid(q) /\ Parent(q)' = Parent(q)
                          /\ Stack(q)' = Stack(q) /\ Space(q)' = Space(q)
  BY <1>1, <1>2, StateOf DEF States, Pid, Parent, Stack, Space
<1>6. /\ Parent(k) = p /\ Space(k) = Space(p) /\ k # initproc
      /\ Pid(k) < nextpid /\ NoEntryOf(p, Pid(k)) /\ Stack(k) = y /\ HasBlock(p)
  BY <1>1, <1>2 DEF Whole, Family, KidsFollow, Follows, Guarded, Awake, PidsBelow,
     StackInv, Creates, HasPid
<1> HIDE DEF k, y
<1>7. StacksStay(p)
  BY <1>1, <1>3, <1>5, AllStay
<1>8. \A r \in Slots : Table(r)' = Table(r) /\ Blocks(r)' = Blocks(r)
  BY <1>1, <1>5 DEF Table, Blocks
<1>9. Creates(p)'
  <2>1. HasBlock(p)'
    BY <1>2, <1>4, <1>6, <1>8 DEF HasBlock, Making, y
  <2>2. NoEntryOf(p, ctx[p].x)' /\ ctx'[p].x < nextpid'
    BY <1>1, <1>4, <1>6, <1>8 DEF NoEntryOf
  <2> QED BY <1>4, <2>1, <2>2 DEF Creates, HasPid, HasLeft
<1>10. \A r \in Slots : Creates(r)'
  BY <1>1, <1>5, <1>7, <1>9, OthersCreate DEF SameHeap
<1>11. \A d \in Spaces : HeapSound(d)'
  BY <1>1 DEF StackInv, HeapSound, TableSound
<1>12. ASSUME NEW q \in Slots, IsThread(q)'
       PROVE  \/ Listed(q)'
              \/ /\ IsThread(q) /\ Kin(q)
                 /\ Written(q) => Written(q)'
                 /\ Parent(q) = p => /\ Space(p)' = Space(p)
                                     /\ Writing(q) => Writing(q)' \/ Written(q)'
  <2>1. CASE q = k
    <3>1. Parent(q)' = p /\ Space(q)' = Space(p)' /\ Pid(q)' = Pid(k) /\ Stack(q)' = y
      BY <1>5, <1>6, <2>1, <1>12
    <3>2. Writing(q)'
      BY <1>4, <3>1 DEF Writing
    <3>3. Together(q, Parent(q))'
      BY <3>1 DEF Together, Space
    <3> QED BY <1>6, <2>1, <3>2, <3>3 DEF Listed, initproc
  <2>2. CASE q # k
    <3>1. IsThread(q) /\ Kin(q)
      BY <1>5, <1>12, <2>2 DEF IsThread, Kin, Alive
    <3>2. Written(q) => Written(q)'
      BY <1>5, <1>8 DEF Written
    <3>3. Parent(q) = p => ~Writing(q)
      BY <1>2 DEF Writing
    <3> QED BY <1>5, <3>1, <3>2, <3>3
  <2> QED BY <2>1, <2>2
<1>13. \A r \in Slots \ {p} : Alive(r) /\ Alive(r)' => Space(r)' = Space(r)
  BY <1>5
<1> QED BY <1>3, <1>10, <1>11, <1>12, <1>13, StacksAfter

\* thread_create finds an entry for its thread.
RoomInTables == \A p \in Slots : At(p, "find") => FreeEntries(p) # {}

LEMMA StackStep ==
  ASSUME Whole, Room, StackInv, RoomInTables, "lock" \in keeps, "join" \in keeps, [Next]_vars
  PROVE  StackInv'
<1>1. CASE UNCHANGED vars
  <2>1. UNCHANGED <<proc, nextpid, ctx, mem>>
    BY <1>1 DEF vars
  <2>2. OwnPids'
    BY <2>1 DEF StackInv, OwnPids, Pid
  <2>3. \A d \in Spaces : HeapSound(d)'
    BY <2>1 DEF StackInv, HeapSound, TableSound
  <2>4. \A p \in Slots : Creates(p)'
    BY <2>1 DEF StackInv, Creates, HasBlock, HasPid, HasLeft, NoEntryOf, Table, Blocks, Space,
       Pid, Stack
  <2>5. \A q \in Slots : IsThread(q)' => Listed(q)'
    BY <2>1 DEF StackInv, IsThread, Listed, Writing, Written, Alive, Together, Space, Pid,
       Parent, Stack, Table
  <2> QED BY <2>2, <2>3, <2>4, <2>5 DEF StackInv
<1>2. CASE Next
  <2>1. PICK p \in Slots : Step(p)
    BY <1>2 DEF Next
  <2>2. keeps' = keeps /\ Around
    BY <1>2, WholeStep DEF Next, Around
  <2>3. Room'
    BY RoomStep
  <2>4. CASE Create(p) \/ Clone(p) \/ CloneShare(p) \/ CloneSize(p) \/ CloneStart(p)
    BY <2>2, <2>4, CreateStacks, CloneStacks, CloneShareStacks, CloneSizeStacks, CloneStartStacks
  <2>5. CASE FindEntry(p) \/ PutAddress(p) \/ PutPid(p) \/ FreeStack(p)
    BY <2>2, <2>5, FindEntryStacks, PutAddressStacks, PutPidStacks, FreeStackStacks
       DEF RoomInTables, FindEntry
  <2>6. CASE Fork(p) \/ ForkCopy(p) \/ ForkStart(p) \/ Exit(p) \/ Wait(p) \/ Join(p) \/ Exec(p)
    BY <2>2, <2>3, <2>6, ForkStacks, ForkCopyStacks, ForkStartStacks, ExitStacks, WaitStacks,
       JoinStacks, ExecStacks
  <2>7. CASE Grow(p) \/ GrowPage(p) \/ GrowStore(p)
    BY <2>2, <2>3, <2>7, GrowStacks, GrowPageStacks, GrowStoreStacks
  <2> QED BY <2>1, <2>4, <2>5, <2>6, <2>7 DEF Step
<1> QED BY <1>1, <1>2

LEMMA InitStacks == Init => StackInv
<1> SUFFICES ASSUME Init PROVE StackInv
  OBVIOUS
<1>1. /\ Whole /\ TypeOK /\ nextpid = 3
      /\ \A d \in Spaces : HeapSound(d)
  <2>1. \A d \in Spaces : mem[d] = Image
    BY DEF Init
  <2> QED BY <2>1, InitWhole, ImageSound DEF HeapSound, Whole, Base, Init
<1>2. \A p \in Slots :
        proc[p] = IF p > 2 THEN Unused
                  ELSE [Unused EXCEPT !.state = "RUNNABLE", !.pid = p, !.parent = p - 1,
                                      !.pgdir = p, !.sz = 1]
  BY DEF Init
<1>3. \A p \in Slots : Stack(p) = 0 /\ (proc[p].state # "UNUSED" => Pid(p) = p)
  <2> SUFFICES ASSUME NEW p \in Slots PROVE Stack(p) = 0 /\ (proc[p].state # "UNUSED" => Pid(p) = p)
    OBVIOUS
  <2>1. CASE p > 2
    <3>1. proc[p] = Unused
      BY <1>2, <2>1
    <3> QED BY <3>1 DEF Unused, Stack, Pid
  <2>2. CASE ~(p > 2)
    BY <1>2, <2>2 DEF Unused, Stack, Pid
  <2> QED BY <2>1, <2>2
<1>4. OwnPids
  BY <1>3 DEF OwnPids, Slots
<1>5. \A p \in Slots : ctx[p].at = "user"
  BY DEF Init, User
<1>6. \A p \in Slots : Creates(p)
  BY <1>5 DEF Creates, HasBlock, HasPid, HasLeft, Making
<1> QED BY <1>1, <1>3, <1>4, <1>6 DEF StackInv, IsThread

LEMMA StackInvHolds == ASSUME Whole, Room, StackInv PROVE StackHeld
<1>1. /\ Base /\ TypeOK /\ Stacks \subseteq Nat \ {0} /\ \A q \in Slots : Pid(q) \in Nat
      /\ Guarded
  BY ThreadsAssumption, Types DEF Whole, Base, Pid, Family
<1>2. ASSUME NEW q \in Slots, IsThread(q)
      PROVE  /\ Pid(q) > 0 /\ Space(q) \in Spaces /\ Parent(q) \in Slots
             /\ Together(q, Parent(q)) /\ q # initproc
             /\ Stack(q) \in Blocks(q) /\ (Writing(q) \/ Written(q))
             /\ TableSound(Table(q), Blocks(q))
             /\ Writing(q) => InCall(Parent(q))
  <2>1. Pid(q) > 0 /\ Space(q) \in Spaces /\ TableSound(Table(q), Blocks(q))
    BY <1>1, <1>2 DEF StackInv, OwnPids, IsThread, Alive, Base, Placed, HeapSound, Table, Blocks
  <2>2. Listed(q) /\ q # initproc /\ Together(q, Parent(q)) /\ (Writing(q) \/ Written(q))
    BY <1>2 DEF StackInv, Listed
  <2>3. Parent(q) \in Slots /\ Alive(Parent(q))
    BY <1>1, <1>2, <2>2 DEF Guarded, IsThread, Awake, Alive
  <2>4. Writing(q) => InCall(Parent(q)) /\ Stack(q) \in Blocks(q)
    <3> SUFFICES ASSUME Writing(q) PROVE InCall(Parent(q)) /\ Stack(q) \in Blocks(q)
      OBVIOUS
    <3>1. Creates(Parent(q))
      BY <2>3 DEF StackInv
    <3> QED BY <2>2, <2>3, <3>1 DEF Writing, InCall, Exclusive, Creates, HasBlock, Making, Blocks,
          Together
  <2>5. Written(q) => Stack(q) \in Blocks(q)
    BY <1>2, <2>1 DEF Written, TableSound, IsThread
  <2> QED BY <2>1, <2>2, <2>3, <2>4, <2>5
<1>3. ASSUME NEW q \in Slots, NEW r \in Slots, IsThread(q), IsThread(r), Together(q, r), q # r
      PROVE  Stack(q) # Stack(r)
  <2>1. /\ Pid(q) # Pid(r) /\ Table(q) = Table(r) /\ Stack(q) # 0
    BY <1>3 DEF StackInv, OwnPids, IsThread, Alive, Table, Together
  <2>2. CASE Written(q) /\ Written(r)
    <3>1. PICK i \in Entries : Table(q)[i].pid = Pid(q) /\ Table(q)[i].addr = Stack(q)
      BY <2>2 DEF Written
    <3>2. PICK j \in Entries : Table(q)[j].pid = Pid(r) /\ Table(q)[j].addr = Stack(r)
      BY <2>1, <2>2 DEF Written
    <3> QED BY <1>2, <1>3, <2>1, <3>1, <3>2 DEF TableSound
  <2>3. CASE Writing(q) /\ Writing(r)
    <3>1. Parent(q) = Parent(r)
      BY <1>2, <1>3, <2>3 DEF Room, OneCall, Together
    <3> QED BY <2>1, <2>3, <3>1 DEF Writing
  <2>4. ASSUME NEW a \in Slots, NEW b \in Slots, IsThread(a), IsThread(b), Together(a, b),
               Writing(a), Written(b), Pid(a) # Pid(b)
        PROVE  Stack(a) # Stack(b)
    <3>1. PICK c \in Slots : c = Parent(a)
      BY <1>2, <2>4
    <3>2. Creates(c) /\ Table(c) = Table(b) /\ ctx[c].at \in {"find", "addr", "pid"}
          /\ ctx[c].x = Pid(a) /\ ctx[c].y = Stack(a)
      BY <1>2, <2>4, <3>1 DEF StackInv, Writing, Table, Together
    <3>3. PICK j \in Entries : Table(c)[j].pid = Pid(b) /\ Table(c)[j].addr = Stack(b)
      BY <2>4, <3>2 DEF Written
    <3>4. CASE ctx[c].at # "pid"
      BY <3>2, <3>3, <3>4 DEF Creates, HasBlock, Making
    <3>5. CASE ctx[c].at = "pid"
      <4>1. /\ ctx[c].z \in Entries /\ Table(c)[ctx[c].z].pid <= 0
            /\ Table(c)[ctx[c].z].addr = Stack(a)
        BY <3>2, <3>5 DEF Creates, HasBlock, Making
      <4>2. Pid(b) > 0 /\ Pid(b) \in Nat /\ TableSound(Table(b), Blocks(b)) /\ Stack(a) # 0
        BY <1>1, <1>2, <2>4 DEF IsThread
      <4>3. j # ctx[c].z
        BY <3>3, <4>1, <4>2
      <4> QED BY <3>2, <3>3, <4>1, <4>2, <4>3 DEF TableSound
    <3> QED BY <3>4, <3>5
  <2>5. Together(r, q)
    BY <1>3 DEF Together
  <2> QED BY <1>2, <1>3, <2>1, <2>2, <2>3, <2>4, <2>5
<1>4. ASSUME NEW q \in Slots, IsThread(q) PROVE Recorded(q)
  <2>1. CASE Writing(q)
    BY <2>1 DEF Writing, Recorded, Parent, Pid
  <2>2. CASE Written(q)
    <3>1. PICK i \in Entries : Table(q)[i].pid = Pid(q) /\ Table(q)[i].addr = Stack(q)
      BY <2>2 DEF Written
    <3>2. ASSUME NEW j \in Entries, Table(q)[j].pid = Pid(q) PROVE j = i
      BY <1>1, <1>2, <1>4, <3>1, <3>2 DEF TableSound
    <3>3. {j \in Entries : Table(q)[j].pid = proc[q].pid} = {i}
      BY <3>1, <3>2 DEF Pid
    <3> QED BY <3>1, <3>3 DEF Recorded, Stack
  <2> QED BY <1>2, <1>4, <2>1, <2>2
<1>5. \A q \in Slots : Runs(q) => IsThread(q)
  BY DEF Runs, IsThread, Alive, Stack
<1> QED BY <1>2, <1>3, <1>4, <1>5 DEF StackHeld, IsThread, Stack, Blocks

\* Where all programs join their threads, and take a lock around sbrk, fork and
\* thread_create, and no table of stacks is full when thread_create looks for an
\* entry: the stack of a thread that can run is a malloc block of its own, and a
\* thread that has not been joined is in the table, once and with its stack, or
\* about to be (thread_create, clone, exit, join, thread_join).
THEOREM StacksOfThreads ==
  ASSUME \A rules \in Disciplines : "join" \in rules
  PROVE  Spec /\ []RoomInTables => []StackHeld
<1> DEFINE Inv == /\ Whole /\ "join" \in keeps
                  /\ "lock" \in keeps => Room /\ StackInv
<1>1. Init => Inv
  BY InitWhole, InitRoom, InitStacks DEF Init
<1>2. Inv /\ RoomInTables /\ [Next]_vars => Inv'
  <2> SUFFICES ASSUME Inv, RoomInTables, [Next]_vars PROVE Inv'
    OBVIOUS
  <2>1. Whole' /\ "join" \in keeps' /\ keeps' = keeps
    BY WholeStep DEF Next, vars
  <2>2. "lock" \in keeps => Room' /\ StackInv'
    BY RoomStep, StackStep
  <2> QED BY <2>1, <2>2
<1>3. Inv => StackHeld
  BY StackInvHolds DEF StackHeld
<1> HIDE DEF Inv
<1> QED BY <1>1, <1>2, <1>3, PTL DEF Spec

\* A table has room for all stacks that malloc can return.
LEMMA TablesSuffice ==
  ASSUME Whole, StackInv, IsFiniteSet(Stacks), Cardinality(Stacks) <= NENTRIES
  PROVE  RoomInTables
<1> SUFFICES ASSUME NEW p \in Slots, At(p, "find"), FreeEntries(p) = {} PROVE FALSE
  BY DEF RoomInTables
<1> DEFINE y == ctx[p].y
           others == Stacks \ {y}
           f == [i \in Entries |-> Table(p)[i].addr]
<1>1. /\ Space(p) \in Spaces /\ TableSound(Table(p), Blocks(p)) /\ HasBlock(p)
      /\ ctx[p].at = "find" /\ Blocks(p) \subseteq Stacks
  <2>1. Space(p) \in Spaces /\ TypeOK
    BY DEF Whole, Base, Placed, Alive, At
  <2> QED BY <2>1, Types DEF StackInv, HeapSound, Table, Blocks, Creates, At
<1>2. y \in Stacks /\ \A i \in Entries : Table(p)[i].addr # y
  BY <1>1 DEF HasBlock, Making
<1>3. \A i \in Entries : Table(p)[i].addr # 0 /\ Table(p)[i].addr \in Stacks
  BY <1>1 DEF FreeEntries, TableSound
<1>4. f \in [Entries -> others]
  BY <1>2, <1>3
<1>5. /\ IsFiniteSet(others) /\ Cardinality(others) = Cardinality(Stacks) - 1
      /\ Cardinality(Stacks) \in Nat
  BY <1>2, FS_RemoveElement, FS_CardinalityType
<1>6. NENTRIES \in Nat \ {0} /\ IsFiniteSet(Entries) /\ Cardinality(Entries) = NENTRIES
  <2>1. NENTRIES \in Nat \ {0}
    BY ThreadsAssumption
  <2> QED BY <2>1, FS_Interval DEF Entries
<1> HIDE DEF y, others, f
<1>7. Cardinality(others) < Cardinality(Entries)
  BY <1>5, <1>6
<1>8. PICK i, j \in Entries : i # j /\ f[i] = f[j]
  BY <1>4, <1>5, <1>6, <1>7, FS_PigeonHole
<1>9. Table(p)[i].addr = Table(p)[j].addr
  BY <1>8 DEF f
<1> QED BY <1>1, <1>3, <1>8, <1>9 DEF TableSound

\* The same without that condition, where the table is as long as there are
\* blocks for stacks.
THEOREM StacksAreHeld ==
  ASSUME \A rules \in Disciplines : "join" \in rules,
         IsFiniteSet(Stacks), Cardinality(Stacks) <= NENTRIES
  PROVE  Spec => []StackHeld
<1> DEFINE Inv == /\ Whole /\ "join" \in keeps
                  /\ "lock" \in keeps => Room /\ StackInv
<1>1. Init => Inv
  BY InitWhole, InitRoom, InitStacks DEF Init
<1>2. Inv /\ [Next]_vars => Inv'
  <2> SUFFICES ASSUME Inv, [Next]_vars PROVE Inv'
    OBVIOUS
  <2>1. Whole' /\ "join" \in keeps' /\ keeps' = keeps
    BY WholeStep DEF Next, vars
  <2>2. "lock" \in keeps => Room' /\ StackInv'
    BY RoomStep, StackStep, TablesSuffice
  <2> QED BY <2>1, <2>2
<1>3. Inv => StackHeld
  BY StackInvHolds DEF StackHeld
<1> HIDE DEF Inv
<1> QED BY <1>1, <1>2, <1>3, PTL DEF Spec
=============================================================================
