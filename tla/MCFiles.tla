------------------------------- MODULE MCFiles --------------------------------
(* What processes do to directories, the tests of it, what they do to the  *)
(* blocks of files, and the tests of that share no state here: a behaviour *)
(* has one of them.                                                        *)
EXTENDS Inode, TLC

CONSTANTS p1, p2, p3
Symmetry == Permutations(Procs)

Named(i, parent, names) ==
  [n \in Entries |-> IF n \in DOMAIN names THEN names[n] ELSE DotsOf(i, parent)[n]]
D(n) == Dinode("dir", n)
F(n) == Dinode("file", n)

Scenario(inodes, dirs, ps, cs, n, lines) ==
  [dinode |-> inodes,
   dir |-> [i \in DOMAIN inodes |-> IF i \in DOMAIN dirs THEN dirs[i] ELSE NoEntries],
   started |-> ps, calls |-> cs, left |-> n,
   program |-> [p \in Procs |-> IF p \in ps THEN lines ELSE <<>>]]
Calls(inodes, dirs, ps, cs, n) == Scenario(inodes, dirs, ps, cs, n, <<>>)

\* Two directories, and one file that has a name in each.
TwoNames == {Try("create", A), Try("create", <<"b", "a">>), Try("unlink", A),
  Try("unlink", B), Try("unlink", <<"b", "a">>), Try("unlink", <<"b", "..">>),
  TryLink(A, <<"b", "a">>), TryLink(A, <<"b", ".">>)}
\* Directories that are in use when they are removed.
InUse == {Try("chdir", <<"b", "a">>), Try("unlink", <<"/", "b", "a">>),
  Try("unlink", <<"/", "b">>), Try("open", <<"..">>), Try("mkdir", <<"/", "b">>)}

Starts == <<
  Calls(<<D(1), Freed, Freed>>, <<DotsOf(ROOT, ROOT)>>, {p1, p2},
        TwoNames \cup {Try("mkdir", B), Try("openrw", B)}, 3),
  Calls(<<D(2), D(1), F(2)>>,
        <<Named(ROOT, ROOT, [a |-> 3, b |-> 2]), Named(2, ROOT, [a |-> 3])>>, Procs,
        TwoNames \ {Try("create", A), Try("create", <<"b", "a">>), Try("unlink", <<"b", "..">>)}, 3),
  Calls(<<D(2), D(2), D(1)>>,
        <<Named(ROOT, ROOT, [b |-> 2]), Named(2, ROOT, [a |-> 3]), DotsOf(3, 2)>>,
        {p1, p2}, InUse, 4)>>

\* linkunlink of usertests.c: the names are "x" and "cat" there.
LinkUnlink == <<
  Calls(<<D(1), F(1), Freed>>, <<Named(ROOT, ROOT, [b |-> 2])>>,
        Procs, {Try("create", A), TryLink(B, A), Try("unlink", A)}, 4)>>

\* Six inodes and one file: a disk that each test finds.
TestStarts == [t \in DOMAIN Tests |->
  Scenario(<<D(1), F(1), Freed, Freed, Freed, Freed>>,
           <<Named(ROOT, ROOT, [README |-> 2])>>, {p1}, {}, 0, Tests[t])]

-----------------------------------------------------------------------------

CONSTANTS q1, q2, q3, f1, f2, Files, NBlocks, NDIRECT, BSIZE, MAXOPBLOCKS, Bytes, Lengths,
          MaxCalls
VARIABLES part, bitmap, block, addrs, size, file, filp, off, op, logged, calls, halted,
          test, lines, failed
FB == INSTANCE FileBlocks WITH
        Procs <- {q1, q2}, Main <- q1, Child <- q2, Child2 <- q3, FileA <- f1, FileB <- f2,
        fd <- filp, panicked <- halted
BT == INSTANCE FileBlocks WITH
        Procs <- {q1, q2, q3}, Main <- q1, Child <- q2, Child2 <- q3, FileA <- f1, FileB <- f2,
        NBlocks <- 8, Bytes <- 1..4, MaxCalls <- 100, fd <- filp, panicked <- halted
ASSUME FB!FileBlocksAssumption /\ BT!FileBlocksAssumption

blockVars == <<bitmap, block, addrs, size, file, filp, off, op, logged, calls, halted>>
testVars == <<test, lines, failed>>
AllStarts == Starts \o TestStarts
NoBlocks == /\ bitmap = 0 /\ block = 0 /\ addrs = 0 /\ size = 0 /\ file = 0 /\ filp = 0
            /\ off = 0 /\ op = 0 /\ logged = 0 /\ calls = 0 /\ halted = 0
NoTest == test = <<>> /\ lines = 0 /\ failed = FALSE
FilesInit ==
  /\ Init
  /\ \/ part = "names" /\ NoBlocks /\ NoTest
     \/ part = "blocks" /\ scenario = 1 /\ FB!Init /\ NoTest
     \/ part = "tests" /\ scenario = 1 /\ BT!Init /\ BT!TestsInit
\* Processes that name files, and nothing else.
NamesNext == Next /\ UNCHANGED <<part, blockVars, testVars>>
NamesSpec ==
  /\ Init /\ part = "names" /\ NoBlocks /\ NoTest /\ [][NamesNext]_<<part, vars, blockVars, testVars>>
  /\ \A p \in Procs : SF_vars(Continue(p))
FilesNext ==
  /\ UNCHANGED part
  /\ \/ part = "names" /\ Next /\ UNCHANGED <<blockVars, testVars>>
     \/ part = "blocks" /\ FB!Next /\ UNCHANGED <<vars, testVars>>
     \/ part = "tests" /\ BT!TestsNext /\ UNCHANGED vars
FilesSpec == FilesInit /\ [][FilesNext]_<<part, vars, blockVars, testVars>>

\* The number of links is what the directories say, and no inode is freed while
\* a name or a process has it (iput, fs.c; sysfile.c): see Inode.
LinksMatchNames == part = "names" => LinksCounted /\ NoneFreedInUse
\* Processes that wait for each other's inodes are in iput (fs.c): see Inode.
NoOtherRing == part = "names" => RingsPassThroughIput
\* A block of the disk is free or in one file (fs.c): see FileBlocks.
BlocksOwned == /\ part = "blocks" => FB!BlocksOwned
               /\ part = "tests" => BT!BlocksOwned
\* A write fits the transaction that filewrite gives it (file.c).
FitsTheLog == /\ part = "blocks" => FB!FitsTheLog
              /\ part = "tests" => BT!FitsTheLog
=============================================================================
