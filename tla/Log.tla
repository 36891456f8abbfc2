--------------------------------- MODULE Log ---------------------------------
(***************************************************************************)
(* The redo log of the xv6 file system (log.c) on its buffer cache and     *)
(* disk: begin_op, log_write, end_op, the commit that the last end_op runs *)
(* without a lock, and recovery.  A crash can come between any two disk    *)
(* writes.  A block write is atomic and in order (iderw waits for it).     *)
(***************************************************************************)
EXTENDS Integers, FiniteSets, Sequences, SequencesExt

CONSTANTS
  Procs,        \* processes that make file system calls
  Blocks,       \* blocks of the file system outside the log
  Values,       \* contents of a block
  MAXOPBLOCKS,  \* blocks that begin_op reserves for a call
  LOGSIZE,      \* length of logheader.block
  NLOG,         \* sb.nlog, the blocks of the log with its header
  OpBlocks      \* the different blocks that a call really writes

ASSUME LogAssumption ==
  /\ IsFiniteSet(Procs)
  /\ MAXOPBLOCKS \in Nat \ {0} /\ LOGSIZE \in Nat /\ NLOG \in Nat
  /\ OpBlocks \in 0 .. MAXOPBLOCKS
  /\ LOGSIZE >= MAXOPBLOCKS

\* The calls leave some of what begin_op reserves unused: log_write refuses the
\* last block of the log, and to write a block again when the log is full.
\* (filewrite cuts a write so that it needs 7 of MAXOPBLOCKS = 10 blocks, and
\* mkfs makes NLOG = LOGSIZE.)
ASSUME RoomAssumption ==
  /\ OpBlocks < MAXOPBLOCKS
  /\ LOGSIZE - (MAXOPBLOCKS - OpBlocks) < NLOG - 1

VARIABLES
  home,        \* blocks on disk, at their home
  logged,      \* data blocks of the log on disk
  header,      \* block numbers in the header on disk
  cache,       \* buffers by block, Absent when there is none
  dirty,       \* blocks whose buffer has B_DIRTY
  lh,          \* log.lh, block numbers
  outstanding, \* log.outstanding
  committing,  \* log.committing
  pc,          \* where each process is
  wrote,       \* blocks that the call of each process has written
  task,        \* the disk write that commit or recovery does next
  panicked

vars == <<home, logged, header, cache, dirty, lh, outstanding, committing, pc,
          wrote, task, panicked>>

memory == <<cache, dirty, lh, outstanding, committing, pc, wrote>>

Absent == [absent |-> TRUE]
Buffer(v) == [data |-> v]

Tasks == {"none", "log", "head", "install", "erase", "done", "read",
          "reinstall", "clear"}

TypeOK ==
  /\ home \in [Blocks -> Values]
  /\ logged \in [1 .. LOGSIZE -> Values]
  /\ header \in Seq(Blocks) /\ Len(header) <= LOGSIZE
  /\ cache \in [Blocks -> {Buffer(v) : v \in Values} \cup {Absent}]
  /\ dirty \subseteq Blocks
  /\ lh \in Seq(Blocks) /\ Len(lh) <= LOGSIZE
  /\ outstanding \in Nat
  /\ committing \in BOOLEAN
  /\ pc \in [Procs -> {"idle", "begin", "asleep", "op", "commit"}]
  /\ wrote \in [Procs -> SUBSET Blocks]
  /\ task \in Tasks \X (0 .. LOGSIZE)
  /\ panicked \in {"none", "too big a transaction", "log.committing"}

\* After recovery from an empty log.
Init ==
  /\ home \in [Blocks -> Values]
  /\ \E v \in Values : logged = [i \in 1 .. LOGSIZE |-> v]
  /\ header = <<>>
  /\ cache = [b \in Blocks |-> Absent]
  /\ dirty = {}
  /\ lh = <<>>
  /\ outstanding = 0
  /\ committing = FALSE
  /\ pc = [p \in Procs |-> "idle"]
  /\ wrote = [p \in Procs |-> {}]
  /\ task = <<"none", 0>>
  /\ panicked = "none"

Recovering == task[1] \in {"read", "reinstall", "clear"}
Up == panicked = "none" /\ ~Recovering
Doing(t) == panicked = "none" /\ task[1] = t

-----------------------------------------------------------------------------
(* The buffer cache                                                        *)

Data(b) == IF cache[b] = Absent THEN home[b] ELSE cache[b].data

Bread(b) ==
  /\ Up /\ cache[b] = Absent
  /\ cache' = [cache EXCEPT ![b] = Buffer(home[b])]
  /\ UNCHANGED <<home, logged, header, dirty, lh, outstanding, committing, pc,
                 wrote, task, panicked>>

\* bget recycles a buffer that is not dirty.
Recyclable(b) == b \notin dirty
Recycle(b) ==
  /\ Up /\ cache[b] # Absent /\ Recyclable(b)
  /\ cache' = [cache EXCEPT ![b] = Absent]
  /\ UNCHANGED <<home, logged, header, dirty, lh, outstanding, committing, pc,
                 wrote, task, panicked>>

-----------------------------------------------------------------------------
(* begin_op, log_write, end_op                                             *)

HasRoomNow == Len(lh) + outstanding * MAXOPBLOCKS <= LOGSIZE
HasRoom == Len(lh) + (outstanding + 1) * MAXOPBLOCKS <= LOGSIZE
MayBegin == ~committing /\ HasRoom

Counted == outstanding + 1

BeginOp(p) ==
  /\ Up /\ pc[p] \in {"idle", "begin"}
  /\ IF MayBegin
     THEN /\ outstanding' = Counted
          /\ pc' = [pc EXCEPT ![p] = "op"]
          /\ wrote' = [wrote EXCEPT ![p] = {}]
     ELSE /\ pc' = [pc EXCEPT ![p] = "asleep"]
          /\ UNCHANGED <<outstanding, wrote>>
  /\ UNCHANGED <<home, logged, header, cache, dirty, lh, committing, task,
                 panicked>>

\* bread, the change of the data and log_write, with the buffer locked.
Absorb(b) == IF Contains(lh, b) THEN lh ELSE Append(lh, b)
LogWrite(p, b, v) ==
  /\ Up /\ pc[p] = "op"
  /\ Cardinality(wrote[p] \cup {b}) <= OpBlocks
  /\ IF Len(lh) >= LOGSIZE \/ Len(lh) >= NLOG - 1
     THEN panicked' = "too big a transaction" /\ UNCHANGED <<memory>>
     ELSE /\ cache' = [cache EXCEPT ![b] = Buffer(v)]
          /\ lh' = Absorb(b)
          /\ dirty' = dirty \cup {b}
          /\ wrote' = [wrote EXCEPT ![p] = @ \cup {b}]
          /\ UNCHANGED <<outstanding, committing, pc, panicked>>
  /\ UNCHANGED <<home, logged, header, task>>

\* wakeup(&log)
WokenNone == pc
Woken == [p \in Procs |-> IF pc[p] = "asleep" THEN "begin" ELSE pc[p]]

EndOp(p) ==
  /\ Up /\ pc[p] = "op"
  /\ outstanding' = outstanding - 1
  /\ IF committing THEN panicked' = "log.committing" ELSE UNCHANGED panicked
  /\ IF outstanding = 1
     THEN /\ committing' = TRUE
          /\ pc' = [pc EXCEPT ![p] = "commit"]
          /\ task' = IF lh = <<>> THEN <<"done", 0>> ELSE <<"log", 1>>
     ELSE /\ pc' = [Woken EXCEPT ![p] = "idle"]
          /\ UNCHANGED <<committing, task>>
  /\ UNCHANGED <<home, logged, header, cache, dirty, lh, wrote>>

-----------------------------------------------------------------------------
(* commit, run by the process whose end_op was the last                    *)

FollowingShort(t, i, last) ==
  IF i < Len(lh) - 1 THEN <<t, i + 1>> ELSE <<last, 0>>
Following(t, i, last) == IF i < Len(lh) THEN <<t, i + 1>> ELSE <<last, 0>>

\* write_log: one block.
WriteLog ==
  /\ Doing("log")
  /\ LET i == task[2] IN
       /\ logged' = [logged EXCEPT ![i] = Data(lh[i])]
       /\ task' = Following("log", i, "head")
  /\ UNCHANGED <<home, header, memory, panicked>>

\* write_head: the real commit.
WriteHead ==
  /\ Doing("head")
  /\ header' = lh
  /\ task' = <<"install", 1>>
  /\ UNCHANGED <<home, logged, memory, panicked>>

\* install_trans: one block goes from the log through the cache to its home.
Install ==
  /\ Doing("install")
  /\ LET i == task[2] IN
       /\ home' = [home EXCEPT ![lh[i]] = logged[i]]
       /\ cache' = [cache EXCEPT ![lh[i]] = Buffer(logged[i])]
       /\ dirty' = dirty \ {lh[i]}
       /\ task' = Following("install", i, "erase")
  /\ UNCHANGED <<logged, header, lh, outstanding, committing, pc, wrote,
                 panicked>>

\* log.lh.n = 0 and write_head.
Erase ==
  /\ Doing("erase")
  /\ lh' = <<>>
  /\ header' = <<>>
  /\ task' = <<"done", 0>>
  /\ UNCHANGED <<home, logged, cache, dirty, outstanding, committing, pc, wrote,
                 panicked>>

\* The rest of end_op.
Committed ==
  /\ Doing("done")
  /\ committing' = FALSE
  /\ pc' = [p \in Procs |-> IF pc[p] = "commit" THEN "idle" ELSE Woken[p]]
  /\ task' = <<"none", 0>>
  /\ UNCHANGED <<home, logged, header, cache, dirty, lh, outstanding, wrote,
                 panicked>>

-----------------------------------------------------------------------------
(* Crash and recovery                                                      *)

Crash ==
  /\ panicked = "none"
  /\ cache' = [b \in Blocks |-> Absent]
  /\ dirty' = {}
  /\ lh' = <<>>
  /\ outstanding' = 0
  /\ committing' = FALSE
  /\ pc' = [p \in Procs |-> "idle"]
  /\ wrote' = [p \in Procs |-> {}]
  /\ task' = <<"read", 0>>
  /\ UNCHANGED <<home, logged, header, panicked>>

\* recover_from_log: read_head ...
Forgetful == <<"clear", 0>>
Replay == IF header = <<>> THEN <<"clear", 0>> ELSE <<"reinstall", 1>>
ReadHead ==
  /\ Doing("read")
  /\ lh' = header
  /\ task' = Replay
  /\ UNCHANGED <<home, logged, header, cache, dirty, outstanding, committing,
                 pc, wrote, panicked>>

\* ... install_trans ...
Reinstall ==
  /\ Doing("reinstall")
  /\ LET i == task[2] IN
       /\ home' = [home EXCEPT ![lh[i]] = logged[i]]
       /\ cache' = [cache EXCEPT ![lh[i]] = Buffer(logged[i])]
       /\ task' = Following("reinstall", i, "clear")
  /\ UNCHANGED <<logged, header, dirty, lh, outstanding, committing, pc, wrote,
                 panicked>>

\* ... and write_head with no blocks.
Clear ==
  /\ Doing("clear")
  /\ lh' = <<>>
  /\ header' = <<>>
  /\ task' = <<"none", 0>>
  /\ UNCHANGED <<home, logged, cache, dirty, outstanding, committing, pc, wrote,
                 panicked>>

-----------------------------------------------------------------------------
Commit == WriteLog \/ WriteHead \/ Install \/ Erase \/ Committed
Recovery == ReadHead \/ Reinstall \/ Clear

Next ==
  \/ Commit \/ Recovery \/ Crash
  \/ \E b \in Blocks : Bread(b) \/ Recycle(b)
  \/ \E p \in Procs : BeginOp(p) \/ EndOp(p)
  \/ \E p \in Procs, b \in Blocks, v \in Values : LogWrite(p, b, v)

Spec == Init /\ [][Next]_vars

-----------------------------------------------------------------------------
(* Properties                                                              *)

\* What recovery makes of the disk as it is.
Recovered ==
  [b \in Blocks |->
    IF Contains(header, b)
    THEN logged[CHOOSE i \in 1 .. Len(header) : header[i] = b] ELSE home[b]]

\* Whatever the calls, the commit, crashes and crashes of recovery do, a
\* reboot finds the writes of whole calls, committed when none was active,
\* and the cache shows every call the latest writes.
Disk == INSTANCE AtomicDisk WITH
          view <- IF Recovering THEN Recovered ELSE [b \in Blocks |-> Data(b)],
          durable <- Recovered,
          active <- {p \in Procs : pc[p] = "op"}
CrashSafe == Disk!Spec

\* When the end_op of the last active call returns, the writes of all calls
\* since the last commit are durable.
DurableOnReturn ==
  committing /\ task[1] \in {"erase", "done"}
    => Recovered = [b \in Blocks |-> Data(b)]

\* The space that begin_op reserves suffices: no log_write finds the log
\* full and no call is inside during a commit.
NoPanic == panicked = "none"
SpaceReserved ==
  /\ NoPanic
  /\ Len(lh) + outstanding * MAXOPBLOCKS
       - Cardinality({w \in Procs \X Blocks :
                      pc[w[1]] = "op" /\ w[2] \in wrote[w[1]]})
     <= LOGSIZE

\* No call sleeps in begin_op without anybody to wake it: there is a call
\* whose end_op comes or a commit that will end.
SleeperHasWaker ==
  (\E p \in Procs : pc[p] = "asleep") => outstanding > 0 \/ committing
=============================================================================
