------------------------------ MODULE FileBlocks -----------------------------
(***************************************************************************)
(* The blocks of files (fs.c): the bitmap, the direct and the indirect     *)
(* block numbers of an inode, readi, writei and itrunc, under the reads and*)
(* writes of open files that filewrite (file.c) cuts into transactions.    *)
(* The inode's sleep lock is held for a transaction; the buffer of the     *)
(* bitmap is locked for one allocation.  A block is BSIZE words: bytes of  *)
(* a file, or block numbers.  The tests of usertests.c that write files and*)
(* read them back follow, for a disk with few words to a block.            *)
(***************************************************************************)
EXTENDS Integers, FiniteSets, FiniteSetsExt, SequencesExt

CONSTANTS
  Procs, Files,
  NBlocks,     \* data blocks of the disk
  NDIRECT,
  BSIZE,       \* words of a block, and so NINDIRECT
  MAXOPBLOCKS, \* blocks that one transaction may log
  Bytes,       \* what a process writes
  Lengths,     \* the lengths of reads and writes
  MaxCalls     \* writes and truncations in a behaviour

FileBlocksAssumption ==
  /\ NBlocks \in Nat /\ NDIRECT \in Nat \ {0} /\ BSIZE \in Nat \ {0}
  /\ MAXOPBLOCKS \in Nat /\ MAXOPBLOCKS >= 6
  /\ MaxCalls \in Nat
  /\ Bytes \subseteq Nat /\ Lengths \subseteq Nat \ {0}

VARIABLES
  bitmap,   \* blocks in use
  block,    \* contents of the blocks
  addrs,    \* ip->addrs, 0 where there is no block
  size,     \* ip->size
  file,     \* the file that a process has open, "none" for none
  fd,       \* its struct file, which a child shares, or 0
  off,      \* f->off of each struct file
  op,       \* the call of a process
  logged,   \* what it has logged in its transaction
  calls,    \* how many of MaxCalls have begun
  panicked

vars == <<bitmap, block, addrs, size, file, fd, off, op, logged, calls, panicked>>

BlockNumbers == 1..NBlocks
OpenFiles == 1..Cardinality(Procs)
MAXFILE == NDIRECT + BSIZE
BITMAP == 0        \* the block of the bitmap: one, as FSSIZE < BSIZE * 8
Zeroed == [w \in 0..BSIZE - 1 |-> 0]
Idle == [do |-> "idle"]
Busy(f) == \E q \in Procs : file[q] = f /\ op[q].do \in {"put", "trunc"}

TypeOK ==
  /\ bitmap \subseteq BlockNumbers
  /\ block \in [BlockNumbers -> [0..BSIZE - 1 -> Nat]]
  /\ addrs \in [Files -> [0..NDIRECT -> BlockNumbers \cup {0}]]
  /\ size \in [Files -> 0..MAXFILE * BSIZE]
  /\ fd \in [Procs -> OpenFiles \cup {0}]
  /\ off \in [OpenFiles -> 0..MAXFILE * BSIZE]

Init ==
  /\ bitmap = {}
  /\ block = [b \in BlockNumbers |-> Zeroed]
  /\ addrs = [f \in Files |-> [k \in 0..NDIRECT |-> 0]]
  /\ size = [f \in Files |-> 0]
  /\ file = [p \in Procs |-> "none"]
  /\ fd = [p \in Procs |-> 0] /\ off = [d \in OpenFiles |-> 0]
  /\ op = [p \in Procs |-> Idle]
  /\ logged = [p \in Procs |-> {}]
  /\ calls = 0 /\ panicked = "none"

Log(p, what) == logged' = [logged EXCEPT ![p] = @ \cup what]
Does(p, d) == panicked = "none" /\ op[p].do = d
Panic(why) == panicked' = why /\
  UNCHANGED <<bitmap, block, addrs, size, file, fd, off, op, logged>>

-----------------------------------------------------------------------------
(* bmap                                                                    *)

Indirect(f) == addrs[f][NDIRECT]
\* The block of the nth block of f, 0 when there is none yet.
Bmap(f, n) == IF n < NDIRECT THEN addrs[f][n]
              ELSE IF Indirect(f) = 0 THEN 0 ELSE block[Indirect(f)][n - NDIRECT]

\* A number that is no data block's would name another part of the disk.
Word(b, w) == IF b \in BlockNumbers THEN block[b][w] ELSE -1

FreeBlocks == BlockNumbers \ bitmap
NewBlock == Min(FreeBlocks)
Cleared(b) == Zeroed

-----------------------------------------------------------------------------
(* filewrite and writei                                                    *)

\* As many words as a transaction has room for: the inode, the indirect block,
\* the bitmap, and two blocks for writes that are not aligned.
WholeLog == MAXOPBLOCKS * BSIZE
MaxChunk == ((MAXOPBLOCKS - 1 - 1 - 2) \div 2) * BSIZE

Chunk(n) == Min({n, MaxChunk})

Open(p, f) ==
  /\ Does(p, "idle") /\ file[p] = "none"
  /\ ~\E q \in Procs : file[q] = f /\ op[q].do = "trunc"
  /\ LET d == Min(OpenFiles \ {fd[q] : q \in Procs}) IN
       /\ fd' = [fd EXCEPT ![p] = d] /\ off' = [off EXCEPT ![d] = 0]
  /\ file' = [file EXCEPT ![p] = f]
  /\ UNCHANGED <<bitmap, block, addrs, size, op, logged, panicked>>

Shut(p) == /\ file' = [file EXCEPT ![p] = "none"] /\ fd' = [fd EXCEPT ![p] = 0]
           /\ off' = IF \A q \in Procs \ {p} : fd[q] # fd[p]
                     THEN [off EXCEPT ![fd[p]] = 0] ELSE off
Close(p) ==
  /\ Does(p, "idle") /\ file[p] # "none" /\ Shut(p)
  /\ UNCHANGED <<bitmap, block, addrs, size, op, logged, panicked>>

\* fork: q, a new process, has what p has open.
Share(p, q) ==
  /\ Does(p, "idle") /\ file[p] # "none" /\ Does(q, "idle") /\ file[q] = "none"
  /\ file' = [file EXCEPT ![q] = file[p]] /\ fd' = [fd EXCEPT ![q] = fd[p]]
  /\ UNCHANGED <<bitmap, block, addrs, size, off, op, logged, panicked>>

Off(p) == off[fd[p]]

Write(p, n, v) ==
  /\ calls < MaxCalls /\ calls' = calls + 1
  /\ Does(p, "idle") /\ file[p] # "none"
  /\ op' = [op EXCEPT ![p] = [do |-> "write", left |-> n, byte |-> v]]
  /\ UNCHANGED <<bitmap, block, addrs, size, file, fd, off, logged, panicked>>

\* begin_op, ilock and the checks of writei; -1 ends the call.
WriteChunk(p) ==
  /\ Does(p, "write") /\ ~Busy(file[p])
  /\ LET n == Chunk(op[p].left) IN
       IF Off(p) > size[file[p]] \/ Off(p) + n > MAXFILE * BSIZE
       THEN op' = [op EXCEPT ![p] = Idle]
       ELSE op' = [op EXCEPT ![p] = [do |-> "put", left |-> op[p].left - n,
                        byte |-> op[p].byte, at |-> Off(p), end |-> Off(p) + n]]
  /\ UNCHANGED <<bitmap, block, addrs, size, file, fd, off, logged, panicked>>

OutOfBlocks(p) ==
  /\ Does(p, "put") /\ op[p].at < op[p].end /\ FreeBlocks = {}
  /\ Bmap(file[p], op[p].at \div BSIZE) = 0
  /\ Panic("balloc: out of blocks")

NeedsIndirect(f, n) == n >= NDIRECT /\ Indirect(f) = 0

PutIndirect(p) ==
  LET f == file[p] IN
  /\ Does(p, "put") /\ op[p].at < op[p].end /\ FreeBlocks # {}
  /\ NeedsIndirect(f, op[p].at \div BSIZE)
  /\ bitmap' = bitmap \cup {NewBlock}
  /\ block' = [block EXCEPT ![NewBlock] = Cleared(NewBlock)]
  /\ addrs' = [addrs EXCEPT ![f][NDIRECT] = NewBlock]
  /\ Log(p, {BITMAP, NewBlock})
  /\ UNCHANGED <<size, file, fd, off, op, panicked>>

\* The part of the chunk that lies in one block.
Put(p) ==
  LET f == file[p]   k == op[p].at   n == k \div BSIZE
      m == Min({op[p].end - k, BSIZE - (k % BSIZE)})
      new == Bmap(f, n) = 0
      b == IF new THEN NewBlock ELSE Bmap(f, n)
      filled == [w \in 0..BSIZE - 1 |->
                   IF w >= k % BSIZE /\ w < (k % BSIZE) + m THEN op[p].byte
                   ELSE IF new THEN Cleared(b)[w] ELSE Word(b, w)] IN
  /\ Does(p, "put") /\ k < op[p].end /\ ~NeedsIndirect(f, n)
  /\ new => FreeBlocks # {}
  /\ bitmap' = bitmap \cup {b}
  /\ addrs' = IF new /\ n < NDIRECT THEN [addrs EXCEPT ![f][n] = b] ELSE addrs
  /\ block' = [c \in BlockNumbers |->
                 IF c = b THEN filled
                 ELSE IF new /\ n >= NDIRECT /\ c = Indirect(f)
                      THEN [block[c] EXCEPT ![n - NDIRECT] = b]
                 ELSE block[c]]
  /\ Log(p, {b} \cup (IF new THEN {BITMAP} ELSE {})
                \cup (IF new /\ n >= NDIRECT THEN {Indirect(f)} ELSE {}))
  /\ op' = [op EXCEPT ![p].at = k + m]
  /\ UNCHANGED <<size, file, fd, off, panicked>>

\* iupdate of a file that has grown; iunlock and end_op.
EndChunk(p) ==
  LET f == file[p] IN
  /\ Does(p, "put") /\ op[p].at = op[p].end
  /\ size' = [size EXCEPT ![f] = IF op[p].end > @ THEN op[p].end ELSE @]
  /\ off' = [off EXCEPT ![fd[p]] = op[p].end]
  /\ logged' = [logged EXCEPT ![p] = {}]
  /\ op' = [op EXCEPT ![p] =
              IF op[p].left = 0 THEN Idle
              ELSE [do |-> "write", left |-> op[p].left, byte |-> op[p].byte]]
  /\ UNCHANGED <<bitmap, block, addrs, file, fd, panicked>>

-----------------------------------------------------------------------------
(* fileread and readi: the bytes are those of Content below                *)

Read(p, n) ==
  LET f == file[p] IN
  /\ Does(p, "idle") /\ f # "none" /\ ~Busy(f) /\ Off(p) <= size[f]
  /\ off' = [off EXCEPT ![fd[p]] = Min({@ + n, size[f]})]
  /\ UNCHANGED <<bitmap, block, addrs, size, file, fd, op, logged, panicked>>

-----------------------------------------------------------------------------
(* itrunc, when the last reference to a file without names goes            *)

Trunc(p) ==
  /\ calls < MaxCalls /\ calls' = calls + 1
  /\ Does(p, "idle") /\ file[p] # "none"
  /\ \A q \in Procs \ {p} : file[q] # file[p]
  /\ op' = [op EXCEPT ![p] = [do |-> "trunc", next |-> 0]]
  /\ UNCHANGED <<bitmap, block, addrs, size, file, fd, off, logged, panicked>>

\* The last entry of the indirect block is forgotten.
VictimShort(f, k) ==
  CASE k < NDIRECT -> addrs[f][k]
    [] k \in NDIRECT..MAXFILE - 2 -> Bmap(f, k)
    [] k = MAXFILE - 1 -> 0
    [] OTHER -> Indirect(f)

Victim(f, k) ==
  CASE k < NDIRECT -> addrs[f][k]
    [] k \in NDIRECT..MAXFILE - 1 -> Bmap(f, k)
    [] OTHER -> Indirect(f)

Bfree(p) ==
  LET f == file[p]   k == op[p].next   b == Victim(f, k) IN
  /\ Does(p, "trunc") /\ k <= MAXFILE
  /\ IF b # 0 /\ b \notin bitmap THEN Panic("freeing free block")
     ELSE /\ bitmap' = bitmap \ {b}
          /\ addrs' = CASE k < NDIRECT -> [addrs EXCEPT ![f][k] = 0]
                        [] k = MAXFILE -> [addrs EXCEPT ![f][NDIRECT] = 0]
                        [] OTHER -> addrs
          /\ Log(p, IF b = 0 THEN {} ELSE {BITMAP})
          /\ op' = [op EXCEPT ![p].next = k + 1]
          /\ UNCHANGED <<block, size, file, fd, off, panicked>>

EndTrunc(p) ==
  LET f == file[p] IN
  /\ Does(p, "trunc") /\ op[p].next > MAXFILE
  /\ size' = [size EXCEPT ![f] = 0]
  /\ Shut(p)
  /\ logged' = [logged EXCEPT ![p] = {}]
  /\ op' = [op EXCEPT ![p] = Idle]
  /\ UNCHANGED <<bitmap, block, addrs, panicked>>

Next == \E p \in Procs :
  \/ Trunc(p) \/ \E n \in Lengths, v \in Bytes : Write(p, n, v)
  \/ /\ UNCHANGED calls
     /\ \/ Close(p) \/ (\E q \in Procs : Share(p, q)) \/ (\E f \in Files : Open(p, f)) \/ (\E n \in Lengths : Read(p, n))
        \/ WriteChunk(p) \/ PutIndirect(p) \/ Put(p) \/ EndChunk(p)
        \/ OutOfBlocks(p) \/ Bfree(p) \/ EndTrunc(p)

Spec == Init /\ [][Next]_vars

-----------------------------------------------------------------------------
(* Properties                                                              *)

\* Where the number of a block stands: the entries of the file, and the number
\* of the indirect block itself.
BlockAt(f, k) == IF k = MAXFILE THEN Indirect(f) ELSE Bmap(f, k)
Truncated(f, k) ==
  \E p \in Procs : file[p] = f /\ op[p].do = "trunc" /\ k < op[p].next
Owned == {e \in Files \X (0..MAXFILE) :
            BlockAt(e[1], e[2]) # 0 /\ ~Truncated(e[1], e[2])}

\* A block is in use exactly when one place of one file names it (balloc,
\* bfree, fs.c:55-99): no block belongs to two files or twice to one, none is
\* lost when files grow, shrink to nothing and grow again in turns, and none
\* is freed twice ("freeing free block").
BlocksOwned ==
  /\ TypeOK
  /\ bitmap = {BlockAt(e[1], e[2]) : e \in Owned}
  /\ Cardinality(bitmap) = Cardinality(Owned)
  /\ panicked # "freeing free block"

\* "write a few blocks at a time to avoid exceeding the maximum log transaction
\* size" (file.c:127): whatever the offset and however much must be allocated,
\* a transaction, the inode included, logs no more than MAXOPBLOCKS blocks.
FitsTheLog ==
  \A p \in Procs : logged[p] # {} => Cardinality(logged[p]) + 1 <= MAXOPBLOCKS

\* What readi finds, the part of a chunk that a writer has put included.
Length(f) ==
  LET put == {op[p].at : p \in {q \in Procs : file[q] = f /\ op[q].do = "put"}} IN
  IF \E p \in Procs : file[p] = f /\ op[p].do = "trunc" THEN 0
  ELSE Max({size[f]} \cup put)
Content(f) == [j \in 1..Length(f) |->
                 Word(Bmap(f, (j - 1) \div BSIZE), (j - 1) % BSIZE)]

Abstract == INSTANCE ByteFiles WITH content <- [f \in Files |-> Content(f)]


-----------------------------------------------------------------------------
(* The tests of usertests.c that write files and read them back.  Blocks   *)
(* are shorter, so that a few words reach the indirect block and take      *)
(* several transactions, and loops have two or three rounds.  A file that  *)
(* loses its last name when nobody has it open goes with an open and an    *)
(* itrunc; one that is open goes with its last close.                      *)

CONSTANTS Main, Child, Child2, FileA, FileB   \* processes and files

VARIABLES
  test,    \* the program
  lines,   \* what each process has still to do
  failed   \* a check did not hold

testVars == <<test, lines, failed>>

Line(o, f, n, v) == [op |-> o, file |-> f, n |-> n, byte |-> v]
open(f) == Line("open", f, 0, 0)
write(n, v) == Line("write", FileA, n, v)
close == Line("close", FileA, 0, 0)
wait == Line("wait", FileA, 0, 0)
last == Line("trunc", FileA, 0, 0)   \* the last close, without a name left
unlink(f) == <<open(f), last>>
\* A read of up to n words that gets m of them, all v.
read(n, m, v) == Line("read", FileA, n, v) @@ [gets |-> m]
\* The words of a whole file that are v.
count(f, v, n) == Line("count", f, n, v)
fork(child, code) == Line("fork", FileA, 0, 0) @@ [child |-> child, code |-> code]
Repeat2(s) == s \o s

-----------------------------------------------------------------------------
(* The programs                                                            *)

writetest == <<open(FileA)>> \o Repeat2(<<write(1, 1), write(1, 2)>>)
  \o <<close, open(FileA), count(FileA, 1, 2), count(FileA, 2, 2), read(8, 4, 0), close>>
  \o unlink(FileA)

writetest1 ==
  <<open(FileA)>> \o [i \in 1..MAXFILE |-> write(BSIZE, i)] \o <<close, open(FileA)>>
  \o [i \in 1..MAXFILE |-> read(BSIZE, BSIZE, i)] \o <<read(BSIZE, 0, 0), close>>
  \o unlink(FileA)

\* Two writes of each size, aligned or not, longer than a transaction or not.
Sizes == <<1, 3, 4>>
bigwrite ==
  FlattenSeq([i \in 1..Len(Sizes) |->
    <<open(FileA), write(Sizes[i], i), write(Sizes[i], i), close>> \o unlink(FileA)])

bigfile ==
  <<open(FileA), write(3, 1), write(3, 2), close, open(FileA)>>
  \o [i \in 1..6 |-> read(1, 1, (i + 2) \div 3)] \o <<read(1, 0, 0), close>>
  \o unlink(FileA)

\* Two of the four processes with a file each.
Fills(f, v) == <<open(f), write(3, v), write(3, v), close>>
Filled(f, v) == <<open(f), count(f, v, 6), read(8, 6, v), close>> \o unlink(f)
fourfiles ==
  <<fork(Child, Fills(FileA, 1)), fork(Child2, Fills(FileB, 2)), wait, wait>>
  \o Filled(FileA, 1) \o Filled(FileB, 2)

\* Parent and child append to one file with one offset.
sharedfd ==
  <<open(FileA), fork(Child, <<write(2, 2), write(2, 2), close>>), write(2, 1),
    write(2, 1), wait, close, open(FileA), count(FileA, 1, 4), count(FileA, 2, 4), read(8, 8, 0),
    close>> \o unlink(FileA)

\* FileB is the second file with the name, and the second that is open: the model
\* needs a process for it.  The write after the read makes FileA longer.
unlinkread ==
  <<open(FileA), write(3, 1), close, open(FileA),
    fork(Child, <<close, open(FileB), write(2, 2), close>>), wait, read(8, 3, 1),
    write(5, 1), last>> \o unlink(FileB)

Tests == {writetest, writetest1, bigwrite, bigfile, fourfiles, sharedfd, unlinkread}

-----------------------------------------------------------------------------
TestsInit ==
  /\ test \in Tests
  /\ lines = [p \in Procs |-> IF p = Main THEN test ELSE <<>>]
  /\ failed = FALSE

This(p) == Head(lines[p])
Done(p) == lines' = [lines EXCEPT ![p] = Tail(@)]
Check(what) == failed' = ~what

Begin(p) ==
  LET l == This(p) IN
    /\ lines[p] # <<>> /\ op[p].do = "idle"
    /\ \/ l.op = "open" /\ Open(p, l.file) /\ Done(p) /\ UNCHANGED <<calls, failed>>
       \/ l.op = "close" /\ Close(p) /\ Done(p) /\ UNCHANGED <<calls, failed>>
       \/ l.op = "write" /\ Write(p, l.n, l.byte) /\ UNCHANGED <<lines, failed>>
       \/ l.op = "trunc" /\ Trunc(p) /\ UNCHANGED <<lines, failed>>
       \/ /\ l.op = "read" /\ Read(p, l.n) /\ Done(p) /\ UNCHANGED calls
          /\ Check(/\ off'[fd[p]] - Off(p) = l.gets
                   /\ l.byte # 0 => \A j \in Off(p) + 1 .. Off(p) + l.gets :
                                      Content(file[p])[j] = l.byte)
       \/ /\ l.op = "count" /\ Done(p) /\ UNCHANGED vars
          /\ Check(Cardinality({j \in 1..Length(l.file) :
                                  Content(l.file)[j] = l.byte}) = l.n)
       \/ /\ l.op = "wait" /\ \A q \in {Child, Child2} : lines[q] = <<>>
          /\ Done(p) /\ UNCHANGED <<vars, failed>>
       \/ /\ l.op = "fork" /\ UNCHANGED <<calls, failed>>
          /\ lines' = [lines EXCEPT ![p] = Tail(@), ![l.child] = l.code]
          /\ IF file[p] = "none" THEN UNCHANGED vars ELSE Share(p, l.child)

\* The rest of a write or an itrunc; a write of less than it was asked fails.
Continue(p) ==
  /\ op[p].do # "idle"
  /\ \/ WriteChunk(p) \/ PutIndirect(p) \/ Put(p) \/ EndChunk(p)
     \/ OutOfBlocks(p) \/ Bfree(p) \/ EndTrunc(p)
  /\ IF op'[p].do = "idle" THEN Done(p) ELSE UNCHANGED lines
  /\ Check(~(op[p].do = "write" /\ op'[p].do = "idle"))
  /\ UNCHANGED calls

TestsNext == ~failed /\ (\E p \in Procs : Begin(p) \/ Continue(p)) /\ UNCHANGED test

\* What writetest, writetest1, bigwrite, bigfile, fourfiles, sharedfd and
\* unlinkread of usertests.c insist on: every write is complete, every read
\* gets what was written, with two writers at one offset nothing is lost, and
\* a file without a name lasts until its close.  When a test has ended, all of
\* its blocks are free again.
TestsPass ==
  /\ ~failed /\ panicked = "none"
  /\ (\A p \in Procs : lines[p] = <<>>) => bitmap = {}
=============================================================================
