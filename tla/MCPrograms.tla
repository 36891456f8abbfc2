------------------------------ MODULE MCPrograms -------------------------------
(* The redo log, and programs that run alone: the shell of P2B, runscan,   *)
(* mkfs, the heap of a user program, filters of texts.  A behaviour has one*)
(* of them.                                                                *)
EXTENDS Log, TLC

CONSTANTS p1, p2, n1, n2, n3
TwoProcs == {p1, p2}
ThreeBlocks == {n1, n2, n3}
\* One process, and one block, is as good as another.
Symmetry == Permutations(Procs) \cup Permutations(Blocks)

VARIABLES part, s1, s2, s3, s4, s5, s6, s7, s8
programVars == <<s1, s2, s3, s4, s5, s6, s7, s8>>

\* Mysh: every line of at most five tokens; longer ones, and three about aliases.
Glue == {"/ls", "f", "dir", " ", ">"}
Separate(l) == \A k \in 1 .. Len(l) - 1 : {l[k], l[k + 1]} \cap {" ", ">"} # {}
Typed == {l \in UNION {[1 .. k -> Glue] : k \in 0 .. 5} : Separate(l)}
W2(u, v) == <<u, " ", v>>
AliasLines == {W2("alias", "a") \o <<" ", "/ls">>, W2("alias", "a") \o <<" ", "/ls", " ", "f">>,
  W2("alias", "b") \o <<" ", "/ls">>, W2("alias", "exit") \o <<" ", "/ls">>, W2("unAlias", "a"),
  <<"unAlias">>, <<"alias">>, W2("a", "f"), <<"a", " ", ">", " ", "f">>, <<"b">>, <<"exit">>}
Uncut == {W2("/ls", ">") \o <<" ", "f", " ", "/ls", " ", "dir", ">">>,
          W2("/ls", "f") \o <<" ", "f", " ", "f", " ", "/ls", " ", "f">>,
          W2("/ls", "f") \o <<" ", "f", " ", "f", " ", "/ls">>}
M == INSTANCE Mysh WITH
       LINE <- 10, Programs <- {"/ls"}, Writable <- {"f"},
       Scripts <- {<<l>> : l \in Typed \cup Uncut} \cup [1 .. 3 -> AliasLines],
       batch <- s1, left <- s2, list <- s3, done <- s4, did <- s5, up <- s6

\* Runscan: files of every size up to one word more than fits; two names for
\* one file, and one name for two.
File(n, jpg) == [type |-> "file", size |-> n, jpg |-> jpg]
Other == [type |-> "other"]
Entry(i, n) == [inode |-> i, name |-> n]
Disks ==
  {<<Other, [type |-> "dir", entries |-> <<Entry(2, "."), Entry(3, "a"), Entry(4, "b"), Entry(5, "c"),
                                            Entry(3, "c"), Entry(4, "d")>>],
     File(m, j), File(n, TRUE), File(3, TRUE), Other>> : m \in 0 .. 17, n \in 1 .. 17, j \in BOOLEAN}
RS == INSTANCE Runscan WITH
       NDIRECT <- 2, NIND <- 2, BSIZE <- 2, Garbage <- {<<>>, <<Entry(3, "g")>>},
       Images <- Disks, image <- s1, next <- s2, buffer <- s3, out <- s4

\* Mkfs: up to three files; five entries fill the second block of the root.
Lengths == {0, 1, 4, 9, 12, 24, 25}
Text(i, n) == [k \in 1 .. n |-> 100 * i + k]
Args == {[i \in DOMAIN l |-> Text(i, l[i])] : l \in UNION {[1 .. k -> Lengths] : k \in 0 .. 3}}
MK == INSTANCE Mkfs WITH
       Arguments <- Args, NINODES <- 5, NBlocks <- 25, NDIRECT <- 2, BSIZE <- 4,
       files <- s1, given <- s2, copied <- s3, din <- s4, disk <- s5, freeblock <- s6,
       used <- s7, ended <- s8

HP == INSTANCE Heap WITH
       Requests <- {2, 3, 5}, NALLOC <- 3, HEAP <- 10, ptr <- s1, size <- s2, freep <- s3,
       brk <- s4, held <- s5, refused <- s6, mem <- s7

\* TextTools: every short text, lines longer than a buffer, every short pattern,
\* and what is just below 0.
Upto(S, n) == UNION {[1 .. k -> S] : k \in 0 .. n}
Tool(t, argss, texts) == {[tool |-> t, args |-> a, text |-> x] : a \in argss, x \in texts}
Calls(t, argss) == Tool(t, argss, {<<>>})
Areas == {[mem |-> <<1, 2, 3, 4>>, d |-> d, s |-> s, n |-> n] : d \in 1 .. 3, s \in 1 .. 3, n \in 0 .. 2}
Strings == {[mem |-> <<1, 2, 3, 4>>, t |-> Append([i \in 1 .. k |-> 6 + i], 0), n |-> n] : k \in 0 .. 4, n \in -1 .. 4}
Numbers == {[xx |-> x, base |-> b, sgn |-> s] : x \in 0 .. 63, b \in {10, 16}, s \in BOOLEAN}
Formats ==
  {[fmt |-> f, list |-> [i \in 1 .. 5 |->
      [num |-> 60 + i, str |-> IF i = 2 THEN <<"NULL">> ELSE <<"a", "b">>]]]
    : f \in Upto({"%", "d", "s", "c", "a"}, 5)}
Opt(o) == [opt |-> o, word |-> <<>>]
Word(w) == [opt |-> "none", word |-> w]
TextJobs == <<
  Tool("grep", Upto({"a", ".", "*", "^", "$"}, 3), {Append(l, "\n") : l \in Upto({"a", "b"}, 3)}),
  Tool("grep", {<<"a">>, <<"^", "b", "$">>}, Upto({"a", "b", "\n"}, 6)),
  Tool("wc", {<<>>}, Upto({"a", " ", "\n"}, 5)),
  Tool("look", Upto({Opt("V"), Opt("h"), Opt("f"), Opt("?"), Word(<<"a">>), Word(<<"'", "a">>)}, 3),
       Upto({"A", "'", "\n"}, 4)),
  Tool("wordle", Upto({"a", "b"}, 2), Upto({"a", "b", "\n"}, 6)),
  Tool("count", {<<"all">>, <<"to empty">>}, Upto({"a", "b", " ", "\n"}, 5)),
  Calls("memmove", Areas), Calls("umemmove", Areas), Calls("strncpy", Strings),
  Calls("safestrcpy", Strings), Calls("printint", Numbers), Calls("printf", Formats),
  Calls("cprintf", Formats)>>
TT == INSTANCE TextTools WITH
        Jobs <- TextJobs, GREPBUF <- 5, FGETS <- 5, FGETSIN <- 4, FIVE <- 2, WORD <- 64,
        job <- s1, left <- s2, buf <- s3, out <- s4, state <- s5
ASSUME M!MyshAssumption /\ RS!RunscanAssumption /\ HP!HeapAssumption

NoProgram == s1 = 0 /\ s2 = 0 /\ s3 = 0 /\ s4 = 0 /\ s5 = 0 /\ s6 = 0 /\ s7 = 0 /\ s8 = 0
ProgramsInit ==
  /\ part \in {"log", "mysh", "runscan", "mkfs", "heap", "texts"}
  /\ part # "log" => home = [b \in Blocks |-> 0] /\ logged = [i \in 1 .. LOGSIZE |-> 0]
  /\ Init
  /\ \/ part = "log" /\ NoProgram
     \/ part = "mysh" /\ M!Init /\ s7 = 0 /\ s8 = 0
     \/ part = "runscan" /\ RS!Init /\ s5 = 0 /\ s6 = 0 /\ s7 = 0 /\ s8 = 0
     \/ part = "mkfs" /\ MK!Init
     \/ part = "heap" /\ HP!Init /\ s8 = 0
     \/ part = "texts" /\ TT!Init /\ s6 = 0 /\ s7 = 0 /\ s8 = 0
ProgramsNext ==
  /\ UNCHANGED part
  /\ \/ part = "log" /\ Next /\ UNCHANGED programVars
     \/ part = "mysh" /\ M!Next /\ UNCHANGED <<vars, s7, s8>>
     \/ part = "runscan" /\ RS!Next /\ UNCHANGED <<vars, s5, s6, s7, s8>>
     \/ part = "mkfs" /\ MK!Next /\ UNCHANGED vars
     \/ part = "heap" /\ HP!Next /\ UNCHANGED <<vars, s8>>
     \/ part = "texts" /\ TT!Next /\ UNCHANGED <<vars, s6, s7, s8>>
ProgramsSpec == ProgramsInit /\ [][ProgramsNext]_<<part, vars, programVars>>

=============================================================================
