---------------------------------- MODULE Mkfs ---------------------------------
(***************************************************************************)
(* mkfs.c: the disk image that the kernel starts with.  A root directory,  *)
(* then each file that make names, block by block.  Blocks are BSIZE words *)
(* and are numbered from the first data block; there are enough inodes and *)
(* blocks for the files.                                                   *)
(***************************************************************************)
EXTENDS Integers, Sequences, SequencesExt, FiniteSets

CONSTANTS
  Arguments,  \* sequences of files, a file is the sequence of its words
  NINODES, NBlocks, NDIRECT, BSIZE

VARIABLES
  files,      \* argv
  given,      \* how many of the files have an inode
  copied,     \* words read of the last one
  din,        \* the inodes
  disk,       \* the data blocks
  freeblock,
  used,       \* the blocks of the bitmap
  ended       \* "no", "exit", or "assert"

vars == <<files, given, copied, din, disk, freeblock, used, ended>>

ROOTINO == 1
Inums == 1 .. NINODES
NoInode == [type |-> "free", nlink |-> 0, size |-> 0, addrs |-> [k \in 0 .. NDIRECT |-> 0]]

\* What readi of the kernel finds.
Kernel == INSTANCE FileBlocks WITH
  Procs <- {}, Files <- Inums, MAXOPBLOCKS <- 6, Bytes <- {}, Lengths <- {}, MaxCalls <- 0,
  bitmap <- used, block <- disk, addrs <- [i \in Inums |-> din[i].addrs],
  size <- [i \in Inums |-> din[i].size], file <- <<>>, fd <- <<>>, off <- <<>>, op <- <<>>,
  logged <- <<>>, calls <- 0, panicked <- "none",
  \* and no program of usertests.c
  Main <- 0, Child <- 0, Child2 <- 0, FileA <- 0, FileB <- 0, test <- <<>>, lines <- <<>>,
  failed <- FALSE
MAXFILE == Kernel!MAXFILE

-----------------------------------------------------------------------------
(* iappend: s has the inode, the blocks, the next free block               *)

Taken(s, b) == IF b = 0 THEN s.free ELSE b
After(s, b) == IF b = 0 THEN s.free + 1 ELSE s.free

Stored(s, b, w) ==
  [s EXCEPT !.ip.size = @ + 1, !.disk[b][s.ip.size % BSIZE] = w]

Direct(s, w) ==
  LET n == s.ip.size \div BSIZE   b == Taken(s, s.ip.addrs[n]) IN
  Stored([s EXCEPT !.free = After(s, s.ip.addrs[n]), !.ip.addrs[n] = b], b, w)

\* A new table for every block.
WithTableAnew(s) ==
  [s EXCEPT !.free = @ + 1, !.ip.addrs[NDIRECT] = s.free]
WithTable(s) ==
  LET t == s.ip.addrs[NDIRECT] IN
  [s EXCEPT !.free = After(s, t), !.ip.addrs[NDIRECT] = Taken(s, t)]
Indirect(s, w) ==
  LET n == s.ip.size \div BSIZE - NDIRECT   t == s.ip.addrs[NDIRECT]   b == s.disk[t][n] IN
  Stored([s EXCEPT !.free = After(s, b), !.disk[t][n] = Taken(s, b)], Taken(s, b), w)

Put(s, w) ==
  CASE s.ip.size \div BSIZE >= MAXFILE -> [s EXCEPT !.failed = TRUE]
    [] s.ip.size \div BSIZE < NDIRECT -> Direct(s, w)
    [] OTHER -> Indirect(WithTable(s), w)

Appended(ip, words) ==
  FoldLeft(Put, [ip |-> ip, disk |-> disk, free |-> freeblock, failed |-> FALSE], words)

\* The inodes but i are those of inodes.
iappend(inodes, i, words) ==
  LET s == Appended(inodes[i], words) IN
  /\ din' = [inodes EXCEPT ![i] = s.ip]
  /\ disk' = s.disk /\ freeblock' = s.free
  /\ ended' = IF s.failed THEN "assert" ELSE ended

-----------------------------------------------------------------------------
(* main                                                                    *)

Inum(i) == ROOTINO + i              \* ialloc counts
Entry(inum, name) == <<inum, name>> \* two words
\* The numbers of the names of files and dots.
Name(i) == 10 + i
DotNames == [dot |-> 1, dotdot |-> 2]
ialloc(t) == [NoInode EXCEPT !.type = t, !.nlink = 1]

Init ==
  /\ files \in Arguments /\ given = -1 /\ copied = 0
  /\ din = [i \in Inums |-> NoInode]
  /\ disk = [b \in 1 .. NBlocks |-> [w \in 0 .. BSIZE - 1 |-> 0]]
  /\ freeblock = 1 /\ used = {} /\ ended = "no"

Root ==
  /\ given = -1 /\ given' = 0
  /\ iappend([din EXCEPT ![ROOTINO] = ialloc("dir")], ROOTINO,
             Entry(ROOTINO, DotNames.dot) \o Entry(ROOTINO, DotNames.dotdot))
  /\ UNCHANGED <<files, copied, used>>

AddFile ==
  LET i == given + 1 IN
  /\ given \in 0 .. Len(files) - 1 /\ (given > 0 => copied = Len(files[given]))
  /\ given' = i /\ copied' = 0
  /\ iappend([din EXCEPT ![Inum(i)] = ialloc("file")], ROOTINO, Entry(Inum(i), Name(i)))
  /\ UNCHANGED <<files, used>>

CopyBlock ==
  /\ given > 0 /\ copied < Len(files[given])
  /\ copied' = Min({copied + BSIZE, Len(files[given])})
  /\ iappend(din, Inum(given), SubSeq(files[given], copied + 1, copied'))
  /\ UNCHANGED <<files, given, used>>

\* The root directory gets whole blocks, one more when its last is full.
Finish ==
  /\ given = Len(files) /\ (given > 0 => copied = Len(files[given]))
  /\ din' = [din EXCEPT ![ROOTINO].size = (@ \div BSIZE + 1) * BSIZE]
  /\ used' = 1 .. freeblock - 1
  /\ ended' = "exit"
  /\ UNCHANGED <<files, given, copied, disk, freeblock>>

Next == ended = "no" /\ (Root \/ AddFile \/ CopyBlock \/ Finish)
Spec == Init /\ [][Next]_vars

-----------------------------------------------------------------------------
(* Properties                                                              *)

DotEntries == Entry(ROOTINO, DotNames.dot) \o Entry(ROOTINO, DotNames.dotdot)
RootWords == DotEntries \o FlattenSeq([i \in DOMAIN files |-> Entry(Inum(i), Name(i))])
Fits(i) == Len(files[i]) <= MAXFILE * BSIZE

\* "the first %d blocks have been allocated" (mkfs.c:243), and what the kernel
\* needs of them: each belongs to one place of one inode and the bitmap says
\* so, the kernel's readi finds the root with a name for every file, and every
\* file as it was; mkfs fails when a file is longer than an inode can say.
ImageIsSound ==
  /\ ended = "exit" =>
       /\ Kernel!BlocksOwned
       /\ SubSeq(Kernel!Content(ROOTINO), 1, Len(RootWords)) = RootWords
       /\ \A k \in Len(RootWords) + 1 .. din[ROOTINO].size :
            Kernel!Content(ROOTINO)[k] \in {0, -1}
       /\ \A i \in DOMAIN files : Kernel!Content(Inum(i)) = files[i]
  /\ ended = "assert" => \E i \in DOMAIN files : ~Fits(i)
=============================================================================
