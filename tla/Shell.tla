--------------------------------- MODULE Shell ---------------------------------
(***************************************************************************)
(* The xv6 shell (sh.c).  Its parser: a line of tokens becomes a tree of   *)
(* commands, or panic() ends the child that parses it; a parser takes the  *)
(* line and a place in it and returns what it read with the place after.   *)
(* And the shell with its children: runcmd, fork1, main, and init that     *)
(* starts it again.  A process is the calls it still makes; each call is   *)
(* one step.  Pipes count the chunks in them, processes the kernel's       *)
(* slots; what exec starts is echo, which writes once, or cat.             *)
(***************************************************************************)
EXTENDS Integers, Sequences, FiniteSets


CONSTANT MAXARGS
SyntaxAssumption == MAXARGS \in Nat \ {0}

Symbols == {"|", "&", ";", "(", ")", "<", ">", ">>"}
End == "end of line"

\* peek: the token at a place.
Token(l, i) == IF i <= Len(l) THEN l[i] ELSE End
IsWord(t) == t \notin Symbols \cup {End}

Panic == [ok |-> FALSE, at |-> 0]
Read(cmd, i) == [ok |-> TRUE, cmd |-> cmd, at |-> i]

ExecCmd(argv, i) == [type |-> "exec", argv |-> argv, at |-> i]
RedirCmd(c, t, file) ==
  [type |-> "redir", cmd |-> c, file |-> file, fd |-> IF t = "<" THEN 0 ELSE 1]
\* The place of the token | names the pipe; it is not in the code's tree.
PipeCmd(left, right, i) ==
  [type |-> "pipe", left |-> left, right |-> right, at |-> i]
ListCmd(left, right) == [type |-> "list", left |-> left, right |-> right]
BackCmd(c) == [type |-> "back", cmd |-> c]

\* Redirections are pairs of a token and a file; the last one read is the
\* outermost node.
RECURSIVE ParseRedirs(_, _, _)
ParseRedirs(l, i, redirs) ==
  IF Token(l, i) \notin {"<", ">", ">>"} THEN Read(redirs, i)
  ELSE IF ~IsWord(Token(l, i + 1)) THEN Panic
  ELSE ParseRedirs(l, i + 2, Append(redirs, <<Token(l, i), Token(l, i + 1)>>))

RECURSIVE Wrap(_, _)
Wrap(c, redirs) ==
  IF redirs = <<>> THEN c
  ELSE Wrap(RedirCmd(c, redirs[1][1], redirs[1][2]), Tail(redirs))

\* The words of a command, with redirections before, between and after them.
RECURSIVE ParseArgs(_, _, _, _)
AfterArg(l, argv, redirs) ==
  IF redirs.ok THEN ParseArgs(l, redirs.at, argv, redirs.cmd) ELSE Panic
ParseArgs(l, i, argv, redirs) ==
  LET t == Token(l, i) IN
    CASE t \in {"|", ")", "&", ";", End} -> Read([argv |-> argv, redirs |-> redirs], i)
      [] ~IsWord(t) \/ (IsWord(t) /\ Len(argv) + 1 >= MAXARGS) -> Panic
      [] OTHER -> AfterArg(l, Append(argv, t), ParseRedirs(l, i + 1, redirs))

\* What a parser does with what the one before it has read.
RECURSIVE ParseLine(_, _)
Redirected(c, redirs) ==
  IF redirs.ok THEN Read(Wrap(c, redirs.cmd), redirs.at) ELSE Panic
CloseBlock(l, line) ==
  IF line.ok /\ Token(l, line.at) = ")"
  THEN Redirected(line.cmd, ParseRedirs(l, line.at + 1, <<>>)) ELSE Panic
ParseBlock(l, i) == CloseBlock(l, ParseLine(l, i + 1))

Executed(args, at) ==
  IF args.ok THEN Read(Wrap(ExecCmd(args.cmd.argv, at), args.cmd.redirs), args.at)
  ELSE Panic
ParseExec(l, i) ==
  IF Token(l, i) = "(" THEN ParseBlock(l, i)
  ELSE LET first == ParseRedirs(l, i, <<>>)
       IN Executed(AfterArg(l, <<>>, first), first.at)

RECURSIVE ParsePipe(_, _)
Piped(left, right) ==
  IF right.ok THEN Read(PipeCmd(left.cmd, right.cmd, left.at), right.at) ELSE Panic
AfterCommand(l, left) ==
  IF ~left.ok \/ Token(l, left.at) # "|" THEN left
  ELSE Piped(left, ParsePipe(l, left.at + 1))
ParsePipe(l, i) == AfterCommand(l, ParseExec(l, i))

RECURSIVE ParseBacks(_, _, _)
ParseBacks(l, i, c) ==
  IF Token(l, i) = "&" THEN ParseBacks(l, i + 1, BackCmd(c)) ELSE Read(c, i)

Listed(left, right) ==
  IF right.ok THEN Read(ListCmd(left.cmd, right.cmd), right.at) ELSE Panic
AfterBacks(l, left) ==
  IF Token(l, left.at) # ";" THEN left ELSE Listed(left, ParseLine(l, left.at + 1))
AfterPipe(l, first) ==
  IF first.ok THEN AfterBacks(l, ParseBacks(l, first.at, first.cmd)) ELSE Panic
ParseLine(l, i) == AfterPipe(l, ParsePipe(l, i))

\* parsecmd: what is left over is a syntax error.
ParseCmd(l) ==
  LET line == ParseLine(l, 1)
  IN IF line.ok /\ line.at > Len(l) THEN line ELSE Panic

-----------------------------------------------------------------------------
(* What a line says about the program named at place i, read off the       *)
(* tokens alone: the element (a program or a group) between two separators *)
(* at one depth of parentheses has the first of its redirections, else the *)
(* pipe next to it, else what the group around it has.                     *)

Depth(l, i) ==
  LET count(S) == Len(SelectSeq(SubSeq(l, 1, i), LAMBDA t : t \in S))
  IN count({"("}) - count({")"})

Separates(l, k, d) ==
  \/ k \in {0, Len(l) + 1}
  \/ k \in 1 .. Len(l) /\ \/ l[k] \in {";", "&", "|"} /\ Depth(l, k) = d
                          \/ l[k] = "(" /\ Depth(l, k) = d
                          \/ l[k] = ")" /\ Depth(l, k) = d - 1
Before(l, i, d) == CHOOSE k \in 0 .. i - 1 :
  /\ Separates(l, k, d)
  /\ \A j \in k + 1 .. i - 1 : ~Separates(l, j, d)
After(l, i, d) == CHOOSE k \in i + 1 .. Len(l) + 1 :
  /\ Separates(l, k, d)
  /\ \A j \in i + 1 .. k - 1 : ~Separates(l, j, d)

RECURSIVE Stream(_, _, _, _)
Stream(l, i, d, fd) ==
  LET lo == Before(l, i, d)
      hi == After(l, i, d)
      signs == IF fd = 0 THEN {"<"} ELSE {">", ">>"}
      redirs == {k \in lo + 1 .. hi - 1 : l[k] \in signs /\ Depth(l, k) = d}
      pipe == IF fd = 0 THEN lo ELSE hi
  IN
    CASE redirs # {} ->
           <<"file", l[1 + CHOOSE k \in redirs : \A j \in redirs : k <= j], fd>>
      [] redirs = {} /\ pipe # 0 /\ Token(l, pipe) = "|" -> <<"pipe", pipe, fd>>
      [] OTHER ->
           IF d = 0 THEN <<"console">>
           ELSE LET opens == {k \in 1 .. lo : l[k] = "(" /\ Depth(l, k) = d}
                IN Stream(l, CHOOSE k \in opens : \A j \in opens : j <= k, d - 1, fd)

-----------------------------------------------------------------------------
(* The processes                                                           *)

CONSTANTS
  Procs,      \* slots of the process table; the first shell has slot 1
  NPROC(_),   \* how many of them there are while a script runs
  NOFILE,
  PIPESIZE,
  Scripts,    \* sequences of lines typed at the prompt
  Inputs      \* chunks that a program finds in a file or gets typed

VARIABLES
  script, lines,   \* lines typed so far
  code,            \* calls that each process still makes
  state,           \* "unused", "running" or "zombie"
  parent,          \* 0 is init
  fds, p,          \* files of each process, and the array p of runcmd
  shell,           \* the pid that init waits for, Starting or Exited
  chunks,          \* chunks in each pipe
  ran,             \* history: what exec started, with its files
  forkFailed       \* history

vars == <<script, lines, code, state, parent, fds, p, shell, chunks, ran, forkFailed>>

ShellAssumption == 1 \in Procs /\ Procs \subseteq Nat \ {0} /\ NOFILE > 4

Starting == 0   \* init has seen its shell exit
Exited == -1    \* init itself has: the kernel panics
None == <<"none">>
Console == <<"console">>
PipeIds == UNION {{s} \X (1 .. Len(script[s])) : s \in 1 .. Len(script)}

Init ==
  /\ script \in Scripts /\ lines = 0
  /\ code = [q \in Procs |-> <<>>]
  /\ state = [q \in Procs |-> IF q = 1 THEN "running" ELSE "unused"]
  /\ parent = [q \in Procs |-> 0]
  /\ fds = [q \in Procs |-> [f \in 0 .. NOFILE - 1 |->
                               IF q = 1 /\ f < 3 THEN Console ELSE None]]
  /\ p = [q \in Procs |-> <<0, 0>>]
  /\ shell = 1
  /\ chunks = [id \in PipeIds |-> 0]
  /\ ran = {} /\ forkFailed = FALSE

-----------------------------------------------------------------------------
(* runcmd as the calls it makes for each type of command                   *)

Call(name) == [op |-> name]
Close(fd) == [op |-> "close", fd |-> fd]
CloseEnd(e) == [op |-> "closeend", end |-> e]
Dup(e) == [op |-> "dup", end |-> e]
Fork(calls) == [op |-> "fork", child |-> calls]

\* The shell's child keeps its ends while it waits.
RunPipeOpen(left, right, at) ==
  LET end(e) == <<Close(e - 1), Dup(e), CloseEnd(1), CloseEnd(2)>>
  IN <<[op |-> "pipe", at |-> at], Fork(end(2) \o left), Fork(end(1) \o right),
       Call("wait"), Call("wait"), CloseEnd(1), CloseEnd(2)>>
RECURSIVE RunCmd(_, _)
RunPipe(left, right, at) ==
  LET end(e) == <<Close(e - 1), Dup(e), CloseEnd(1), CloseEnd(2)>>
  IN <<[op |-> "pipe", at |-> at], Fork(end(2) \o left), Fork(end(1) \o right),
       CloseEnd(1), CloseEnd(2), Call("wait"), Call("wait")>>
RunCmd(c, s) ==
  CASE c.type = "exec" ->
         IF c.argv = <<>> THEN <<>>
         ELSE <<[op |-> "exec", argv |-> c.argv, at |-> <<s, c.at>>]>>
    [] c.type = "redir" ->
         <<Close(c.fd), [op |-> "open", file |-> <<"file", c.file, c.fd>>]>>
           \o RunCmd(c.cmd, s)
    [] c.type = "list" ->
         <<Fork(RunCmd(c.left, s)), Call("wait")>> \o RunCmd(c.right, s)
    [] c.type = "pipe" ->
         RunPipe(RunCmd(c.left, s), RunCmd(c.right, s), <<s, c.at>>)
    [] c.type = "back" -> <<Fork(RunCmd(c.cmd, s))>>

-----------------------------------------------------------------------------
Runs(q) == state[q] = "running"
Calls(q, op) == Runs(q) /\ code[q] # <<>> /\ Head(code[q]).op = op
Return(q) == code' = [code EXCEPT ![q] = Tail(@)]
Fail(q) == code' = [code EXCEPT ![q] = <<>>]
AtPrompt(q) == q = shell /\ Runs(q) /\ code[q] = <<>>

SameProcesses == UNCHANGED <<state, parent, shell, forkFailed>>
Typed == <<script, lines>>
Files(q) == {fds[q][f] : f \in DOMAIN fds[q]} \ {None}
LowestFree(q, used) ==
  CHOOSE f \in (0 .. NOFILE - 1) \ used :
    /\ fds[q][f] = None
    /\ \A g \in (0 .. NOFILE - 1) \ used : fds[q][g] = None => f <= g

\* main reads a line.  A line cd changes the shell's own directory.
ReadLine(q) ==
  /\ AtPrompt(q) /\ lines < Len(script)
  /\ lines' = lines + 1
  /\ LET l == script[lines + 1]
         parsed == ParseCmd(l)
     IN code' = [code EXCEPT ![q] =
          IF Token(l, 1) = "cd" /\ Len(l) > 1 THEN <<>>
          ELSE <<Fork(IF parsed.ok THEN RunCmd(parsed.cmd, lines + 1) ELSE <<>>), Call("wait")>>]
  /\ SameProcesses /\ UNCHANGED <<script, fds, p, chunks, ran>>

\* fork1: the child takes a slot, or panic() ends the caller, the shell as well.
DoFork(q) ==
  /\ Calls(q, "fork")
  /\ LET free == {r \in 1 .. NPROC(script) : state[r] = "unused"}
         child == CHOOSE r \in free : \A s \in free : r <= s
     IN
       IF free = {}
       THEN /\ forkFailed' = TRUE
            /\ code' = [code EXCEPT ![q] = <<Call("exit")>>]
            /\ UNCHANGED <<state, parent, fds, p>>
       ELSE /\ code' = [code EXCEPT ![q] = Tail(@), ![child] = Head(code[q]).child]
            /\ state' = [state EXCEPT ![child] = "running"]
            /\ parent' = [parent EXCEPT ![child] = q]
            /\ fds' = [fds EXCEPT ![child] = fds[q]]
            /\ p' = [p EXCEPT ![child] = p[q]]
            /\ UNCHANGED forkFailed
  /\ UNCHANGED <<Typed, shell, chunks, ran>>

Wait(q) ==
  /\ Calls(q, "wait")
  /\ LET kids == {r \in Procs : state[r] # "unused" /\ parent[r] = q}
     IN \/ /\ kids = {} /\ UNCHANGED state
        \/ \E r \in kids : /\ state[r] = "zombie"
                           /\ state' = [state EXCEPT ![r] = "unused"]
  /\ Return(q)
  /\ UNCHANGED <<Typed, parent, fds, p, shell, chunks, ran, forkFailed>>

DoClose(q) ==
  /\ Calls(q, "close") \/ Calls(q, "closeend")
  /\ LET c == Head(code[q]) IN
       fds' = [fds EXCEPT ![q][IF c.op = "close" THEN c.fd ELSE p[q][c.end]] = None]
  /\ Return(q)
  /\ SameProcesses /\ UNCHANGED <<Typed, p, chunks, ran>>

DoDup(q) ==
  /\ Calls(q, "dup")
  /\ fds' = [fds EXCEPT ![q][LowestFree(q, {})] = fds[q][p[q][Head(code[q]).end]]]
  /\ Return(q)
  /\ SameProcesses /\ UNCHANGED <<Typed, p, chunks, ran>>

\* open may find no such file.
Open(q) ==
  /\ Calls(q, "open")
  /\ \/ /\ fds' = [fds EXCEPT ![q][LowestFree(q, {})] = Head(code[q]).file]
        /\ Return(q)
     \/ Fail(q) /\ UNCHANGED fds
  /\ SameProcesses /\ UNCHANGED <<Typed, p, chunks, ran>>

MakePipe(q) ==
  /\ Calls(q, "pipe")
  /\ LET r == LowestFree(q, {})
         w == LowestFree(q, {r})
         k == Head(code[q]).at
     IN /\ fds' = [fds EXCEPT ![q][r] = <<"pipe", k, 0>>,
                              ![q][w] = <<"pipe", k, 1>>]
        /\ p' = [p EXCEPT ![q] = <<r, w>>]
  /\ Return(q)
  /\ SameProcesses /\ UNCHANGED <<Typed, chunks, ran>>

-----------------------------------------------------------------------------
(* exec and the programs                                                   *)

IsPipe(f) == f[1] = "pipe"
Exec(q) ==
  /\ Calls(q, "exec")
  /\ LET c == Head(code[q])
         beside == {r \in Procs \ {q} : Calls(r, "echo") \/ Calls(r, "cat")}
     IN
       IF c.argv[1] \in {"echo", "cat"}
       THEN /\ \E n \in IF Len(c.argv) = 1 /\ IsPipe(fds[q][0]) THEN {0} ELSE Inputs :
                 code' = [code EXCEPT ![q] =
                   <<[op |-> c.argv[1], at |-> c.at, left |-> n,
                      in |-> IF Len(c.argv) = 1 THEN fds[q][0] ELSE <<"argument">>,
                      full |-> c.argv[1] = "echo"]>>]
            /\ ran' = ran \cup {[at |-> c.at, fds |-> fds[q],
                                 beside |-> {Head(code[r]).at : r \in beside}]}
       ELSE Fail(q) /\ UNCHANGED ran
  /\ SameProcesses /\ UNCHANGED <<Typed, fds, p, chunks>>

Program(q) == Calls(q, "echo") \/ Calls(q, "cat")
Holders(f) == {q \in Procs : f \in Files(q)}
OtherEnd(f) == <<"pipe", f[2], 1 - f[3]>>

\* read of standard input, or of the files that the arguments name; cat ends
\* with its input.
ReadBlocks(f) == IsPipe(f) /\ chunks[f[2]] = 0 /\ Holders(OtherEnd(f)) # {}
ReadInput(q) ==
  /\ Program(q) /\ ~Head(code[q]).full /\ ~ReadBlocks(Head(code[q]).in)
  /\ LET f == Head(code[q]).in
         n == IF IsPipe(f) THEN chunks[f[2]] ELSE Head(code[q]).left
     IN
       IF n = 0 THEN Fail(q) /\ UNCHANGED chunks
       ELSE IF IsPipe(f)
       THEN /\ chunks' = [chunks EXCEPT ![f[2]] = @ - 1]
            /\ code' = [code EXCEPT ![q][1].full = TRUE]
       ELSE /\ code' = [code EXCEPT ![q][1].full = TRUE, ![q][1].left = @ - 1]
            /\ UNCHANGED chunks
  /\ SameProcesses /\ UNCHANGED <<Typed, fds, p, ran>>

\* write to standard output; it fails, and the program exits, when nobody reads.
WriteBlocks(f) ==
  IsPipe(f) /\ chunks[f[2]] = PIPESIZE /\ Holders(OtherEnd(f)) # {}
WriteOutput(q) ==
  /\ Program(q) /\ Head(code[q]).full /\ ~WriteBlocks(fds[q][1])
  /\ LET f == fds[q][1]
         fails == IsPipe(f) /\ Holders(OtherEnd(f)) = {}
     IN /\ IF fails \/ Calls(q, "echo") THEN Fail(q)
           ELSE code' = [code EXCEPT ![q][1].full = FALSE]
        /\ IF IsPipe(f) /\ ~fails THEN chunks' = [chunks EXCEPT ![f[2]] = @ + 1]
           ELSE UNCHANGED chunks
  /\ SameProcesses /\ UNCHANGED <<Typed, fds, p, ran>>

-----------------------------------------------------------------------------
(* exit, and init                                                          *)

Exits(q) == Calls(q, "exit") \/ (Runs(q) /\ code[q] = <<>> /\ q # shell)
Exit(q) ==
  /\ Exits(q)
  /\ code' = [code EXCEPT ![q] = <<>>]
  /\ state' = [state EXCEPT ![q] = "zombie"]
  /\ parent' = [r \in Procs |-> IF parent[r] = q THEN 0 ELSE parent[r]]
  /\ fds' = [fds EXCEPT ![q] = [f \in DOMAIN @ |-> None]]
  /\ UNCHANGED <<Typed, p, shell, chunks, ran, forkFailed>>

InitWaits ==
  /\ shell \in Procs
  /\ \E q \in Procs :
       /\ state[q] = "zombie" /\ parent[q] = 0
       /\ state' = [state EXCEPT ![q] = "unused"]
       /\ shell' = IF q = shell THEN Starting ELSE shell
  /\ UNCHANGED <<Typed, code, parent, fds, p, chunks, ran, forkFailed>>

InitForks ==
  /\ shell = Starting
  /\ LET free == {r \in 1 .. NPROC(script) : state[r] = "unused"}
         q == CHOOSE r \in free : \A s \in free : r <= s
     IN
       IF free = {} THEN shell' = Exited /\ UNCHANGED <<state, parent, fds>>
       ELSE /\ shell' = q
            /\ state' = [state EXCEPT ![q] = "running"]
            /\ parent' = [parent EXCEPT ![q] = 0]
            /\ fds' = [fds EXCEPT ![q] =
                         [f \in DOMAIN @ |-> IF f < 3 THEN Console ELSE None]]
  /\ UNCHANGED <<Typed, code, p, chunks, ran, forkFailed>>

Step(q) ==
  \/ ReadLine(q) \/ DoFork(q) \/ Wait(q) \/ DoClose(q) \/ DoDup(q) \/ Open(q)
  \/ MakePipe(q) \/ Exec(q) \/ ReadInput(q) \/ WriteOutput(q) \/ Exit(q)
Next == shell # Exited /\ ((\E q \in Procs : Step(q)) \/ InitWaits \/ InitForks)
Spec == Init /\ [][Next]_vars

-----------------------------------------------------------------------------
(* Properties                                                              *)

\* A program starts with three open files, those that the tokens of its line
\* give it, and no program starts beside one that a ; puts before it
\* (runcmd, parsecmd).  The shell keeps the console and nothing else.
FilesAsWritten(r) ==
  LET l == script[r.at[1]]
      i == r.at[2]
      file(fd) == LET f == Stream(l, i, Depth(l, i), fd)
                  IN IF IsPipe(f) THEN <<"pipe", <<r.at[1], f[2]>>, fd>> ELSE f
  IN r.fds = [f \in DOMAIN r.fds |->
                IF f < 2 THEN file(f) ELSE IF f = 2 THEN Console ELSE None]
InTurn(r) ==
  LET l == script[r.at[1]] IN
  \A b \in r.beside :
    b[1] = r.at[1] => \/ \E k \in 1 .. Len(l) : l[k] \in {"&", "(", ")"}
                      \/ \A k \in b[2] .. r.at[2] : l[k] # ";"
StreamsAsWritten ==
  /\ \A r \in ran : FilesAsWritten(r) /\ InTurn(r)
  /\ shell \in Procs /\ Runs(shell) => Files(shell) = {Console}

\* The prompt comes back only when the line's processes are gone, unless the
\* line has a & or fork failed (wait in runcmd and main); and no pipeline hangs:
\* when every process waits or the script is over, only the shell is left.
Blocked(q) ==
  \/ AtPrompt(q) /\ lines = Len(script)
  \/ Calls(q, "wait") /\ LET kids == {r \in Procs : state[r] # "unused" /\ parent[r] = q}
                         IN kids # {} /\ \A r \in kids : state[r] # "zombie"
  \/ Program(q) /\ IF Head(code[q]).full THEN WriteBlocks(fds[q][1])
                   ELSE ReadBlocks(Head(code[q]).in)
Alone == \A q \in Procs \ {shell} : state[q] = "unused"
InBackground ==
  forkFailed \/ \E s \in 1 .. lines : \E k \in 1 .. Len(script[s]) : script[s][k] = "&"
PromptComesBack ==
  /\ shell \in Procs /\ AtPrompt(shell) /\ ~InBackground => Alone
  /\ shell \in Procs /\ (\A q \in Procs : Runs(q) => Blocked(q))
        /\ ~(\E q \in Procs : state[q] = "zombie" /\ parent[q] = 0)
     => Alone /\ AtPrompt(shell)
=============================================================================
