------------------------------- MODULE MCStreams -------------------------------
(* A pipe byte by byte, the pipelines of the shell, and the lines of the   *)
(* console.  They share no state here, a behaviour has one of them.        *)
EXTENDS Pipe, TLC

CONSTANTS p1, p2, p3, b1, b2
\* One process, and one byte, is as good as another.
Symmetry == Permutations(Procs) \cup Permutations(Bytes)

\* Shell: every line of at most three tokens, and longer ones.  In four slots
\* the commands in the background leave the shell, then init, without one.
Tokens == {"cat", "echo", "x", "|", "&", ";", "(", ")", ">", "<"}
Short == UNION {[1 .. k -> Tokens] : k \in 0 .. 3}
Long ==
  {<<"(", "cat", ";", "echo", ")", "|", "cat">>,
   <<"echo", ">", "x", ">", "cat", "|", "cat">>,
   <<"(", "echo", ">", "x", ";", "cat", ")", "<", "x", "|", "cat">>,
   <<"(", "cat", "&", ")", "|", "cat">>,
   <<"cat", "|", "(", "cat", "|", "echo", ")", ">", "x">>,
   <<"cd", "x", ";", "echo">>}
Pair == <<"(", "echo", ";", "echo", ")", "&">>
Busy == {<<Pair \o <<";">> \o Pair, <<"echo">> >>, << <<"cat", "&">>, <<"cat", "|", "echo">> >>}
Slots(s) == IF s \in Busy THEN 4 ELSE 6
VARIABLES part, script, lines, code, state, parent, fdtable, ends, shell, chunks, ran,
          forkFailed
shellVars == <<script, lines, code, state, parent, fdtable, ends, shell, chunks,
               ran, forkFailed>>
S == INSTANCE Shell WITH
       MAXARGS <- 3, Procs <- 1 .. 6, NPROC <- Slots, NOFILE <- 6,
       PIPESIZE <- 1, Inputs <- {0, 2}, Scripts <- {<<l>> : l \in Short \cup Long} \cup Busy,
       fds <- fdtable, p <- ends
ASSUME S!ShellAssumption /\ S!SyntaxAssumption

\* Console: two readers, one of which may be killed.
VARIABLES line, r, w, e, at, n, target, victims, given
consoleVars == <<line, r, w, e, at, n, target, victims, given>>
C == INSTANCE Console WITH
       Readers <- {"s", "t"}, INPUT_BUF <- 3, Word <- 6, Letters <- {"a"},
       Lengths <- {2}, Kills <- {"t"}, buf <- line, pc <- at, killed <- victims
ASSUME C!ConsoleAssumption

StreamsInit ==
  /\ Init /\ S!Init /\ C!Init
  /\ part \in {"pipe", "shell", "console"}
  /\ part # "pipe" => pc[p1] = "user" /\ kills = 0
  /\ part # "shell" => script = << <<>> >>
StreamsNext ==
  /\ UNCHANGED part
  /\ \/ part = "pipe" /\ Next /\ UNCHANGED <<shellVars, consoleVars>>
     \/ part = "shell" /\ S!Next /\ UNCHANGED <<vars, consoleVars>>
     \/ part = "console" /\ C!Next /\ UNCHANGED <<vars, shellVars>>
StreamsSpec ==
  StreamsInit /\ [][StreamsNext]_<<part, vars, shellVars, consoleVars>>

\* From the keyboard to the next prompt: a line is read as it was edited, once
\* and in order (consoleintr, consoleread: Console implements LineInput), and no
\* reader sleeps on it; the programs of a line start with the streams that it
\* says, and every pipeline ends and leaves the shell to the next line (runcmd
\* and main of sh.c).
LinesServed ==
  /\ C!Editor!Init /\ [][part = "console" => C!Editor!Next]_(C!Editor!inputVars)
  /\ [](part = "console" => C!ReaderHasNoLine)
  /\ [](part = "shell" => S!StreamsAsWritten /\ S!PromptComesBack)
=============================================================================
