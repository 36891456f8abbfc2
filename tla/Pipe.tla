--------------------------------- MODULE Pipe ---------------------------------
(***************************************************************************)
(* A pipe (pipe.c) with the two open files that refer to it (file.c),      *)
(* shared by processes through fork: pipewrite and piperead with their     *)
(* ring of bytes and 32-bit counters, sleep and wakeup, close, exit, kill. *)
(* A critical section under p->lock is one action, except that a process   *)
(* about to sleep still holds the lock while kill can reach it.            *)
(***************************************************************************)
EXTENDS Integers, FiniteSets, Sequences

CONSTANTS
  Procs,
  PIPESIZE,
  Word,       \* 2^w for the w-bit counters nread and nwrite
  Bytes,
  WriteArgs, ReadArgs, \* n of the calls write and read
  MaxKilled            \* bound: processes that are killed, where any are

ASSUME PipeAssumption ==
  /\ IsFiniteSet(Procs) /\ Bytes # {}
  /\ PIPESIZE \in Nat \ {0} /\ Word \in Nat
  /\ Word > PIPESIZE /\ Word % PIPESIZE = 0
  /\ WriteArgs \subseteq Nat \ {0} /\ ReadArgs \subseteq Nat \ {0}
  /\ MaxKilled \in Nat

VARIABLES
  data, nread, nwrite,
  open,    \* ends whose readopen or writeopen is set
  freed,   \* kfree of the pipe
  lock,    \* processes that hold p->lock across steps
  ref,     \* f->ref of the open file of each end
  fds,     \* ends that each process has open
  pc,      \* where each process is
  arg,     \* bytes that its read or write still wants
  todo,    \* ends it still has to close
  shut,    \* ends whose last reference it dropped, before pipeclose
  killed,
  moved,   \* history: bytes that the last step copied
  kills    \* how many processes are killed in this behaviour, at most

vars == <<data, nread, nwrite, open, freed, lock, ref, fds, pc, arg, todo, shut,
          killed, moved, kills>>
ring == <<data, nread, nwrite>>
files == <<open, freed, ref, fds, todo, shut>>

Ends == {"r", "w"}
PCs == {"none", "user", "read", "readsleep", "readasleep", "write",
        "writesleep", "writeasleep", "close", "exit"}

TypeOK ==
  /\ data \in [0 .. PIPESIZE - 1 -> Bytes]
  /\ nread \in 0 .. Word - 1 /\ nwrite \in 0 .. Word - 1
  /\ open \subseteq Ends
  /\ freed \in BOOLEAN
  /\ lock \subseteq Procs
  /\ ref \in [Ends -> Nat]
  /\ fds \in [Procs -> SUBSET Ends]
  /\ pc \in [Procs -> PCs]
  /\ arg \in [Procs -> Nat]
  /\ todo \in [Procs -> SUBSET Ends]
  /\ shut \in [Procs -> SUBSET Ends]
  /\ killed \subseteq Procs
  /\ kills \in {0, MaxKilled}

\* After pipe(): one process has both ends.  kfree has filled the page with
\* one byte.
Init ==
  /\ data = [i \in 0 .. PIPESIZE - 1 |-> CHOOSE b \in Bytes : TRUE]
  /\ nread = 0 /\ nwrite = 0
  /\ open = Ends
  /\ freed = FALSE
  /\ lock = {}
  /\ ref = [e \in Ends |-> 1]
  /\ \E first \in Procs :
       /\ fds = [p \in Procs |-> IF p = first THEN Ends ELSE {}]
       /\ pc = [p \in Procs |-> IF p = first THEN "user" ELSE "none"]
  /\ arg = [p \in Procs |-> 0]
  /\ todo = [p \in Procs |-> {}]
  /\ shut = [p \in Procs |-> {}]
  /\ killed = {}
  /\ moved = <<>>
  /\ kills \in {0, MaxKilled}

NothingMoves == UNCHANGED ring /\ moved' = <<>>

Used == (nwrite - nread + Word) % Word
Minimum(a, b) == IF a < b THEN a ELSE b

\* A system call returns; trap() makes a killed process exit.
After(p) == IF p \in killed THEN "exit" ELSE "user"
Ending(p) == IF p \in killed THEN [todo EXCEPT ![p] = fds[p]] ELSE todo

\* wakeup of the sleepers in place s, which go on in place t.
Woken(s, t) == [p \in Procs |-> IF pc[p] = s THEN t ELSE pc[p]]
NoWake == pc
WakeReaders == Woken("readasleep", "read")
WakeWriters == Woken("writeasleep", "write")

-----------------------------------------------------------------------------
(* pipewrite                                                               *)

Call(p, place, e, n) ==
  /\ pc[p] = "user" /\ p \notin killed /\ e \in fds[p]
  /\ pc' = [pc EXCEPT ![p] = place]
  /\ arg' = [arg EXCEPT ![p] = n]
  /\ NothingMoves
  /\ UNCHANGED <<files, lock, killed>>

\* nwrite == nread + PIPESIZE
Full == nwrite = (nread + PIPESIZE) % Word

\* Bytes are copied until the call is done or the pipe is full.
Copied(n) == IF Full THEN 0 ELSE Minimum(n, PIPESIZE - Used)
PutAtOffset(i) == i
PutAt(i) == (nwrite + i) % PIPESIZE
Written(s) ==
  [j \in 0 .. PIPESIZE - 1 |->
    IF \E i \in 0 .. Len(s) - 1 : PutAt(i) = j
    THEN s[1 + CHOOSE i \in 0 .. Len(s) - 1 : PutAt(i) = j] ELSE data[j]]

Write(p) ==
  /\ pc[p] = "write" /\ lock = {}
  /\ LET k == Copied(arg[p])
         done == k = arg[p]
         fail == ~done /\ ("r" \notin open \/ p \in killed)
     IN
       /\ \E s \in [1 .. k -> Bytes] : data' = Written(s) /\ moved' = s
       /\ nwrite' = (nwrite + k) % Word
       /\ arg' = [arg EXCEPT ![p] = IF done \/ fail THEN 0 ELSE @ - k]
       /\ IF fail THEN pc' = [pc EXCEPT ![p] = After(p)]
          ELSE IF done THEN pc' = [WakeReaders EXCEPT ![p] = After(p)]
          ELSE pc' = [WakeReaders EXCEPT ![p] = "writesleep"]
       /\ IF done \/ fail THEN todo' = Ending(p) /\ UNCHANGED lock
          ELSE lock' = {p} /\ UNCHANGED todo
  /\ UNCHANGED <<nread, open, freed, ref, fds, shut, killed>>

-----------------------------------------------------------------------------
(* piperead                                                                *)

Empty == nread = nwrite
Read(p) ==
  /\ pc[p] = "read" /\ lock = {}
  /\ IF Empty /\ "w" \in open /\ p \notin killed
     THEN /\ lock' = {p}
          /\ pc' = [pc EXCEPT ![p] = "readsleep"]
          /\ moved' = <<>>
          /\ UNCHANGED <<nread, arg, todo>>
     ELSE /\ LET k == IF Empty THEN 0 ELSE Minimum(arg[p], Used) IN
               /\ moved' = [i \in 1 .. k |-> data[(nread + i - 1) % PIPESIZE]]
               /\ nread' = (nread + k) % Word
          /\ pc' = IF Empty /\ "w" \in open THEN [pc EXCEPT ![p] = After(p)]
                   ELSE [WakeWriters EXCEPT ![p] = After(p)]
          /\ arg' = [arg EXCEPT ![p] = 0]
          /\ todo' = Ending(p)
          /\ UNCHANGED lock
  /\ UNCHANGED <<data, nwrite, open, freed, ref, fds, shut, killed>>

\* sleep() has ptable.lock and lets p->lock go.
Sleep(p) ==
  /\ pc[p] \in {"readsleep", "writesleep"}
  /\ lock' = {}
  /\ pc' = [pc EXCEPT ![p] = IF @ = "readsleep" THEN "readasleep"
                             ELSE "writeasleep"]
  /\ NothingMoves
  /\ UNCHANGED <<files, arg, killed>>

-----------------------------------------------------------------------------
(* fileclose, pipeclose, exit, fork, kill                                  *)

Close(p, e) ==
  /\ pc[p] = "user" /\ p \notin killed /\ e \in fds[p]
  /\ pc' = [pc EXCEPT ![p] = "close"]
  /\ todo' = [todo EXCEPT ![p] = {e}]
  /\ NothingMoves
  /\ UNCHANGED <<open, freed, ref, fds, shut, lock, arg, killed>>

Exit(p) ==
  /\ pc[p] = "user"
  /\ pc' = [pc EXCEPT ![p] = "exit"]
  /\ todo' = [todo EXCEPT ![p] = fds[p]]
  /\ NothingMoves
  /\ UNCHANGED <<open, freed, ref, fds, shut, lock, arg, killed>>

\* One reference goes, under ftable.lock.
LastIfShared(n) == n = 2
Last(n) == n = 1
FileClose(p) ==
  /\ pc[p] \in {"close", "exit"} /\ shut[p] = {}
  /\ \E e \in todo[p] :
       /\ todo' = [todo EXCEPT ![p] = @ \ {e}]
       /\ fds' = [fds EXCEPT ![p] = @ \ {e}]
       /\ ref' = [ref EXCEPT ![e] = @ - 1]
       /\ shut' = IF Last(ref[e]) THEN [shut EXCEPT ![p] = {e}] ELSE shut
  /\ NothingMoves
  /\ UNCHANGED <<open, freed, lock, pc, arg, killed>>

PipeClose(p) ==
  /\ lock = {}
  /\ \E e \in shut[p] :
       /\ open' = open \ {e}
       /\ pc' = IF e = "w" THEN WakeReaders ELSE WakeWriters
  /\ freed' = (freed \/ open' = {})
  /\ shut' = [shut EXCEPT ![p] = {}]
  /\ NothingMoves
  /\ UNCHANGED <<ref, fds, todo, lock, arg, killed>>

Closed(p) ==
  /\ pc[p] \in {"close", "exit"} /\ todo[p] = {} /\ shut[p] = {}
  /\ IF pc[p] = "exit"
     THEN /\ pc' = [pc EXCEPT ![p] = "none"] /\ killed' = killed \ {p}
          /\ UNCHANGED todo
     ELSE /\ pc' = [pc EXCEPT ![p] = After(p)] /\ todo' = Ending(p)
          /\ UNCHANGED killed
  /\ NothingMoves
  /\ UNCHANGED <<open, freed, ref, fds, shut, lock, arg>>

\* fork duplicates the open files (filedup).
Fork(p) ==
  /\ pc[p] = "user" /\ p \notin killed
  /\ \E q \in Procs :
       /\ pc[q] = "none"
       /\ pc' = [pc EXCEPT ![q] = "user"]
       /\ fds' = [fds EXCEPT ![q] = fds[p]]
  /\ ref' = [e \in Ends |-> IF e \in fds[p] THEN ref[e] + 1 ELSE ref[e]]
  /\ NothingMoves
  /\ UNCHANGED <<open, freed, todo, shut, lock, arg, killed>>

\* kill marks the process and wakes it when it sleeps.
Kill(p) ==
  /\ Cardinality(killed \cup {p}) <= kills   \* bound
  /\ pc[p] \notin {"none", "exit"}
  /\ killed' = killed \cup {p}
  /\ pc' = [pc EXCEPT ![p] = IF @ = "readasleep" THEN "read"
                             ELSE IF @ = "writeasleep" THEN "write" ELSE @]
  /\ NothingMoves
  /\ UNCHANGED <<files, lock, arg>>

-----------------------------------------------------------------------------
Step(p) ==
  \/ \E n \in WriteArgs : Call(p, "write", "w", n)
  \/ \E n \in ReadArgs : Call(p, "read", "r", n)
  \/ Write(p) \/ Read(p) \/ Sleep(p)
  \/ \E e \in Ends : Close(p, e)
  \/ Exit(p) \/ FileClose(p) \/ PipeClose(p) \/ Closed(p)
  \/ Fork(p) \/ Kill(p)

Next == (\E p \in Procs : Step(p)) /\ UNCHANGED kills

Spec == Init /\ [][Next]_vars

-----------------------------------------------------------------------------
(* Properties                                                              *)

\* The bytes from nread to nwrite.
Queue == [i \in 1 .. Used |-> data[(nread + i - 1) % PIPESIZE]]
Stream == INSTANCE ByteStream WITH
  Capacity <- PIPESIZE, queue <- Queue, chunk <- moved

\* They are a FIFO queue that no wrap of the counters or of the ring disturbs
\* (pipewrite, piperead).
Fifo == Stream!Spec

\* An end is open while a process holds it, and the pipe is not freed before
\* every process is done with it.
OpenWhileHeld ==
  /\ TypeOK
  /\ \A p \in Procs : /\ fds[p] \cup shut[p] \subseteq open
                      /\ fds[p] \cup shut[p] # {} => ~freed

\* As long as nobody is killed, a reader sleeps only while the pipe is empty
\* and somebody may write, a writer only while it is full and somebody may
\* read.  Killed or not, nobody sleeps on a pipe whose other end nobody
\* holds or is closing: the reader sees the end of file, the writer fails.
Abandoned(e) == \A p \in Procs : e \notin fds[p] \cup shut[p]
NoLostWakeup ==
  \A p \in Procs :
    /\ pc[p] = "readasleep" => /\ ~Abandoned("w")
                               /\ kills > 0 \/ (Empty /\ "w" \in open)
    /\ pc[p] = "writeasleep" => /\ ~Abandoned("r")
                                /\ kills > 0 \/ (Full /\ "r" \in open)
=============================================================================
