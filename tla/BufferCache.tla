----------------------------- MODULE BufferCache -----------------------------
(***************************************************************************)
(* The xv6 buffer cache (bio.c) with its sleep locks (sleeplock.c) and the *)
(* request queue of the IDE driver (ide.c).  A critical section under a    *)
(* spinlock is one step; sleep() gives up the spinlock and wakeup() makes  *)
(* the sleeper look again.  A user has one buffer at a time.               *)
(***************************************************************************)
EXTENDS Integers, FiniteSets, Sequences, SequencesExt, TLC

CONSTANTS
  Procs,       \* processes
  Blocks,      \* blocks of the disk
  Buffers,     \* the NBUF buffers
  Values,      \* contents of a block
  MaxPinned,   \* buffers that log_write leaves dirty at a time
  DiskFails    \* whether a read may end with IDE_ERR

ASSUME BufferAssumption ==
  /\ IsFiniteSet(Procs) /\ IsFiniteSet(Buffers)
  /\ MaxPinned \in Nat /\ DiskFails \in BOOLEAN
  /\ "none" \notin Procs \cup Blocks \cup Buffers

VARIABLES
  block,      \* b->blockno, "none" before the first use
  flags,      \* b->flags
  data,       \* b->data
  refcnt,     \* b->refcnt
  locker,     \* pid in the sleep lock of b, "none" when it is free
  lru,        \* the list of bcache.head, the most recently used first
  idequeue,
  command,    \* what idestart told the disk
  disk,       \* the blocks on the disk
  pc,         \* where each process is
  buf,        \* the buffer that it uses
  asleep,     \* whether it sleeps there
  changed,    \* whether it has changed the data and not yet told anybody
  panicked

vars == <<block, flags, data, refcnt, locker, lru, idequeue, command, disk, pc,
          buf, asleep, changed, panicked>>

bufs == <<block, refcnt, lru>>
drive == <<idequeue, command, disk>>

NoCommand == [op |-> "none"]
ReadOf(n) == [op |-> "read", block |-> n]
WriteOf(n, v) == [op |-> "write", block |-> n, data |-> v]
Commands == {ReadOf(n) : n \in Blocks} \cup {WriteOf(n, v) : n \in Blocks, v \in Values}

TypeOK ==
  /\ block \in [Buffers -> Blocks \cup {"none"}]
  /\ flags \in [Buffers -> SUBSET {"valid", "dirty"}]
  /\ data \in [Buffers -> Values]
  /\ refcnt \in [Buffers -> Nat]
  /\ locker \in [Buffers -> Procs \cup {"none"}]
  /\ lru \in Seq(Buffers) /\ ToSet(lru) = Buffers /\ IsInjective(lru)
  /\ idequeue \in Seq(Buffers)
  /\ command \in {NoCommand} \cup Commands
  /\ disk \in [Blocks -> Values]
  /\ pc \in [Procs -> {"idle", "acquire", "hold", "rw", "disk", "drop"}]
  /\ buf \in [Procs -> Buffers \cup {"none"}]
  /\ asleep \in [Procs -> BOOLEAN]
  /\ changed \in [Procs -> BOOLEAN]
  /\ panicked \in {"none", "bget", "bwrite", "brelse", "not locked",
                   "nothing to do"}

Init ==
  /\ block = [b \in Buffers |-> "none"]
  /\ flags = [b \in Buffers |-> {}]
  /\ \E v \in Values : data = [b \in Buffers |-> v]
  /\ refcnt = [b \in Buffers |-> 0]
  /\ locker = [b \in Buffers |-> "none"]
  /\ lru = SetToSeq(Buffers)
  /\ idequeue = <<>>
  /\ command = NoCommand
  /\ disk \in [Blocks -> Values]
  /\ pc = [p \in Procs |-> "idle"]
  /\ buf = [p \in Procs |-> "none"]
  /\ asleep = [p \in Procs |-> FALSE]
  /\ changed = [p \in Procs |-> FALSE]
  /\ panicked = "none"

At(p, l) == panicked = "none" /\ pc[p] = l /\ ~asleep[p]
Goto(p, l) == pc' = [pc EXCEPT ![p] = l]
Panic(why) == panicked' = why /\ UNCHANGED <<block, flags, data, refcnt, locker,
                lru, idequeue, command, disk, pc, buf, asleep, changed>>

-----------------------------------------------------------------------------
(* bread                                                                   *)

\* bget scans the list for a hit from its head, for a victim from its tail.
FirstOf(S, b) == \E i \in 1 .. Len(lru) : /\ lru[i] = b /\ b \in S
                                         /\ \A j \in 1 .. i - 1 : lru[j] \notin S
LastOf(S, b) == \E i \in 1 .. Len(lru) : /\ lru[i] = b /\ b \in S
                                        /\ \A j \in i + 1 .. Len(lru) : lru[j] \notin S

InUse(n) == {b \in Buffers : block[b] = n /\ refcnt[b] > 0}
Cached(n) == {b \in Buffers : block[b] = n}
Unreferred == {b \in Buffers : refcnt[b] = 0}
Recyclable == {b \in Buffers : refcnt[b] = 0 /\ "dirty" \notin flags[b]}

Use(p, b) == buf' = [buf EXCEPT ![p] = b] /\ Goto(p, "acquire")

Referred(b) == refcnt[b] + 1
NoFlags(b) == {}

Hit(p, n) ==
  /\ At(p, "idle")
  /\ \E b \in Buffers :
       /\ FirstOf(Cached(n), b)
       /\ refcnt' = [refcnt EXCEPT ![b] = Referred(b)]
       /\ Use(p, b)
  /\ UNCHANGED <<block, flags, data, locker, lru, drive, asleep, changed,
                 panicked>>

Miss(p, n) ==
  /\ At(p, "idle") /\ Cached(n) = {}
  /\ \E b \in Buffers :
       /\ LastOf(Recyclable, b)
       /\ block' = [block EXCEPT ![b] = n]
       /\ flags' = [flags EXCEPT ![b] = NoFlags(b)]
       /\ refcnt' = [refcnt EXCEPT ![b] = 1]
       /\ Use(p, b)
  /\ UNCHANGED <<data, locker, lru, drive, asleep, changed, panicked>>

NoBuffers(p, n) ==
  At(p, "idle") /\ Cached(n) = {} /\ Recyclable = {} /\ Panic("bget")

MustRead(b) == "valid" \notin flags[b]

\* acquiresleep, then the test of bread.
Acquire(p) ==
  /\ At(p, "acquire")
  /\ LET b == buf[p] IN
       IF locker[b] # "none"
       THEN asleep' = [asleep EXCEPT ![p] = TRUE] /\ UNCHANGED <<locker, pc>>
       ELSE /\ locker' = [locker EXCEPT ![b] = p]
            /\ Goto(p, IF MustRead(b) THEN "rw" ELSE "hold")
            /\ UNCHANGED asleep
  /\ UNCHANGED <<bufs, flags, data, drive, buf, changed, panicked>>

-----------------------------------------------------------------------------
(* What the holder does: change the data, log_write, bwrite                *)

Change(p, v) ==
  /\ At(p, "hold")
  /\ data' = [data EXCEPT ![buf[p]] = v]
  /\ changed' = [changed EXCEPT ![p] = TRUE]
  /\ UNCHANGED <<bufs, flags, locker, drive, pc, buf, asleep, panicked>>

Dirty == {b \in Buffers : "dirty" \in flags[b]}

\* The log has room for MaxPinned blocks.
LogWrite(p) ==
  /\ At(p, "hold") /\ changed[p]
  /\ Cardinality(Dirty \cup {buf[p]}) <= MaxPinned
  /\ flags' = [flags EXCEPT ![buf[p]] = @ \cup {"dirty"}]
  /\ changed' = [changed EXCEPT ![p] = FALSE]
  /\ UNCHANGED <<bufs, data, locker, drive, pc, buf, asleep, panicked>>

Holding(p) == locker[buf[p]] = p

Bwrite(p) ==
  /\ At(p, "hold")
  /\ IF ~Holding(p) THEN Panic("bwrite")
     ELSE /\ flags' = [flags EXCEPT ![buf[p]] = @ \cup {"dirty"}]
          /\ changed' = [changed EXCEPT ![p] = FALSE]
          /\ Goto(p, "rw")
          /\ UNCHANGED <<bufs, data, locker, drive, buf, asleep, panicked>>

-----------------------------------------------------------------------------
(* The disk                                                                *)

Transfer(b) == IF "dirty" \in flags[b] THEN WriteOf(block[b], data[b])
                                       ELSE ReadOf(block[b])
Start(q) == IF q = <<>> THEN NoCommand ELSE Transfer(Head(q))

Synced(b) == flags[b] = {"valid"}

Iderw(p) ==
  /\ At(p, "rw")
  /\ LET b == buf[p] IN
       IF ~Holding(p) THEN Panic("not locked")
       ELSE IF Synced(b) THEN Panic("nothing to do")
       ELSE /\ idequeue' = Append(idequeue, b)
            /\ command' = IF idequeue = <<>> THEN Transfer(b) ELSE command
            /\ asleep' = [asleep EXCEPT ![p] = TRUE]
            /\ Goto(p, "disk")
            /\ UNCHANGED <<bufs, flags, data, locker, disk, buf, changed,
                           panicked>>

\* The loop of iderw after a wakeup.
Woken(p) ==
  /\ At(p, "disk")
  /\ IF Synced(buf[p]) THEN Goto(p, "hold") /\ UNCHANGED asleep
     ELSE asleep' = [asleep EXCEPT ![p] = TRUE] /\ UNCHANGED pc
  /\ UNCHANGED <<bufs, flags, data, locker, drive, buf, changed, panicked>>

WakeNone(l, b) == asleep
WakeAll(l, b) == [p \in Procs |-> asleep[p] /\ ~(pc[p] = l /\ buf[p] = b)]

NextCommand == Start(Tail(idequeue))

\* The disk has done its command and interrupts.
Ideintr ==
  /\ panicked = "none" /\ command # NoCommand /\ idequeue # <<>>
  /\ LET b == Head(idequeue) IN
       /\ disk' = IF command.op = "write"
                  THEN [disk EXCEPT ![command.block] = command.data] ELSE disk
       /\ \/ "dirty" \notin flags[b]
             /\ data' = [data EXCEPT ![b] = disk[command.block]]
          \/ /\ "dirty" \in flags[b] \/ DiskFails
             /\ UNCHANGED data
       /\ flags' = [flags EXCEPT ![b] = {"valid"}]
       /\ idequeue' = Tail(idequeue)
       /\ command' = NextCommand
       /\ asleep' = WakeAll("disk", b)
  /\ UNCHANGED <<bufs, locker, pc, buf, changed, panicked>>

-----------------------------------------------------------------------------
(* brelse                                                                  *)

\* A caller has logged or written what it changed.
Brelse(p) ==
  /\ At(p, "hold") /\ ~changed[p]
  /\ IF ~Holding(p) THEN Panic("brelse")
     ELSE /\ locker' = [locker EXCEPT ![buf[p]] = "none"]
          /\ asleep' = WakeAll("acquire", buf[p])
          /\ Goto(p, "drop")
          /\ UNCHANGED <<bufs, flags, data, drive, buf, changed, panicked>>

MoveToHead(b) ==
  LET k == CHOOSE i \in 1 .. Len(lru) : lru[i] = b IN
  [i \in 1 .. Len(lru) |-> IF i = 1 THEN b ELSE IF i <= k THEN lru[i - 1] ELSE lru[i]]

Drop(p) ==
  /\ At(p, "drop")
  /\ LET b == buf[p] IN
       /\ refcnt' = [refcnt EXCEPT ![b] = @ - 1]
       /\ lru' = IF refcnt[b] = 1 THEN MoveToHead(b) ELSE lru
  /\ buf' = [buf EXCEPT ![p] = "none"]
  /\ Goto(p, "idle")
  /\ UNCHANGED <<block, flags, data, locker, drive, asleep, changed, panicked>>

\* kill() makes a sleeper runnable.
Kill(p) ==
  /\ panicked = "none" /\ asleep[p]
  /\ asleep' = [asleep EXCEPT ![p] = FALSE]
  /\ UNCHANGED <<bufs, flags, data, locker, drive, pc, buf, changed, panicked>>

Continue(p) == Acquire(p) \/ Iderw(p) \/ Woken(p) \/ Brelse(p) \/ Drop(p)

Next ==
  \/ Ideintr
  \/ \E p \in Procs :
       \/ \E n \in Blocks : Hit(p, n) \/ Miss(p, n) \/ NoBuffers(p, n)
       \/ \E v \in Values : Change(p, v)
       \/ LogWrite(p) \/ Bwrite(p) \/ Continue(p) \/ Kill(p)

Spec == Init /\ [][Next]_vars

-----------------------------------------------------------------------------
(* Properties                                                              *)

\* bget's two scans under one lock: a block is never in two buffers, the list
\* keeps every buffer, and refcnt (bio.c:71,86,129) counts the processes that
\* use the buffer.  "B_VALID: the buffer data has been read from the disk",
\* "B_DIRTY: the buffer data has been modified and needs to be written"
\* (bio.c:17-20): a valid buffer that is not dirty and not being changed
\* equals its block.
BuffersAgree ==
  /\ TypeOK
  /\ \A b \in Buffers : refcnt[b] = Cardinality({p \in Procs : buf[p] = b})
  /\ \A b, c \in Buffers : block[b] = block[c] /\ b # c => block[b] = "none"
  /\ \A b \in Buffers :
       Synced(b) /\ ~(\E p \in Procs : changed[p] /\ buf[p] = b)
         => data[b] = disk[block[b]]

\* A process sleeps in acquiresleep only while somebody has the lock, and in
\* iderw only while its buffer is in the disk's queue, of which the first is
\* the one the disk works on; no caller meets the panics of bwrite, brelse
\* and iderw, and bget's comes only when the buffers do not suffice.
NoLostWakeup ==
  /\ panicked # "none" => /\ panicked = "bget"
                          /\ Cardinality(Buffers) < MaxPinned + Cardinality(Procs)
  /\ \A p \in Procs : asleep[p] =>
       \/ pc[p] = "acquire" /\ locker[buf[p]] \notin {"none", p}
       \/ pc[p] = "disk" /\ buf[p] \in ToSet(idequeue)
  /\ idequeue # <<>> => command = Transfer(Head(idequeue))

\* The value of a block: in its buffer once that is valid or dirty.
Content(n) ==
  LET Filled(b) == block[b] = n /\ flags[b] # {} IN
  IF \E b \in Buffers : Filled(b)
  THEN data[CHOOSE b \in Buffers : Filled(b)] ELSE disk[n]

UsersOf(n) ==
  {p \in Procs : /\ buf[p] # "none" /\ block[buf[p]] = n
                 /\ \/ pc[p] = "hold"
                    \/ pc[p] \in {"rw", "disk"} /\ flags[buf[p]] # {}}

Store == INSTANCE BlockStore WITH
           contents <- [n \in Blocks |-> Content(n)],
           users <- [n \in Blocks |-> UsersOf(n)]

\* "Only one process at a time can use a buffer" (bio.c:14) and every bread
\* finds what the last holder left, through evictions, pins and the disk.
Coherent == Store!Spec

\* One process, and one block, is as good as another.
Symmetry == Permutations(Procs) \cup Permutations(Blocks)
=============================================================================
