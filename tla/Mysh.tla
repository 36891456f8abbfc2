--------------------------------- MODULE Mysh ----------------------------------
(***************************************************************************)
(* The shell of P2B (mysh.c): lines of a batch file or of a user, with     *)
(* redirection and aliases.  The shell waits for each command, so a line is*)
(* one step.  A line is a sequence of words, ">" and " "; words that touch *)
(* are one word, so no line has two in a row.                              *)
(***************************************************************************)
EXTENDS Integers, Sequences, SequencesExt

CONSTANTS
  Scripts,   \* what is typed: sequences of lines; no ">" after a builtin
  Programs,  \* the paths that execv can start
  Writable,  \* the files that fopen can create
  LINE       \* size of main's buffer

MyshAssumption == LINE \in Nat /\ LINE > 1

VARIABLES
  batch,   \* the lines come from a file
  left,    \* the pieces of lines that fgets has still to return
  list,    \* the aliases, first to last
  done,    \* history: what fgets has returned
  did,     \* what the shell did with the last of it
  up       \* "yes", "exited" or "crashed"

vars == <<batch, left, list, done, did, up>>

Says(what) == [says |-> what]

\* fgets cuts a line, its newline included, into pieces that fit the buffer.
Pieces(line) ==
  LET l == Append(line, "\n")   n == LINE - 1 IN
  [k \in 1 .. (Len(l) + n - 1) \div n |-> SubSeq(l, (k - 1) * n + 1, Min({k * n, Len(l)}))]

Init ==
  /\ batch \in BOOLEAN
  /\ \E script \in Scripts : left = FlattenSeq([i \in DOMAIN script |-> Pieces(script[i])])
  /\ list = <<>> /\ done = <<>> /\ did = Says("nothing") /\ up = "yes"

-----------------------------------------------------------------------------
(* preprocess                                                              *)

Text(piece) == SelectSeq(piece, LAMBDA c : c # "\n")

\* strtok at spaces.
Tokens(s) ==
  LET first == {k \in DOMAIN s : s[k] # " " /\ (k = 1 \/ s[k - 1] = " ")}
      end(k) == Max({e \in k .. Len(s) : \A j \in k .. e : s[j] # " "})
      starts == SetToSortSeq(first, <)
  IN [i \in DOMAIN starts |-> SubSeq(s, starts[i], end(starts[i]))]

Signs(s) == Len(SelectSeq(s, LAMBDA c : c = ">"))
Words(s) == SelectSeq(s, LAMBDA c : c \notin {">", " ", "\n"})

\* The arguments; the last one is the file when redir.
Arguments(a, r) == [argv |-> a, redir |-> r]
\* cmd[argc], which nobody has set, is searched for ">".
Crash == Arguments(<<"crash">>, TRUE)
Misformatted == Arguments(<<>>, TRUE)

Standing(s) == {i \in DOMAIN Tokens(s) : ">" \in Range(Tokens(s)[i])}

preprocess(s) ==
  LET t == Tokens(s)   n == Len(t)   i == CHOOSE k \in Standing(s) : TRUE IN
  CASE Signs(s) = 0 -> Arguments(Words(s), FALSE)
    [] Signs(s) > 1 -> Misformatted
    [] OTHER ->
         IF t[1] = <<">">> \/ t[n] = <<">">> \/ (t[i] = <<">">> /\ i # n - 1)
         THEN Misformatted
         \* A word on both sides: the second replaces the next argument.
         ELSE IF Len(t[i]) = 3 /\ i # n THEN Crash
         ELSE Arguments(Words(s), TRUE)

-----------------------------------------------------------------------------
(* The list of aliases                                                     *)

None == <<>>
Named(n) == {i \in DOMAIN list : list[i].alias = n}
detectAlias(n) == IF Named(n) = {} THEN None ELSE list[Min(Named(n))].command
Without(n) == IF Named(n) = {} THEN list ELSE RemoveAt(list, Min(Named(n)))
addAlias(l, n, c) == Append(l, [alias |-> n, command |-> c])

Dangerous == {"unAlias", "alias", "exit"}
\* concat is the words with one space between them.
executeAlias(a) ==
  IF Len(a) > 2 /\ a[2] \notin Dangerous
  THEN list' = addAlias(Without(a[2]), a[2], SubSeq(a, 3, Len(a)))
  ELSE UNCHANGED list
executeunAlias(a) == list' = IF Len(a) = 2 THEN Without(a[2]) ELSE list

-----------------------------------------------------------------------------
(* The child of executeCommand                                             *)

Ran(argv, out) == [argv |-> argv, out |-> out]
\* Without a command execv fails as well, and so does the message.
Expanded(a) == IF a # <<>> /\ detectAlias(a[1]) # None
               THEN detectAlias(a[1]) \o Tail(a) ELSE a
Child(a) ==
  LET argv == Expanded(IF a.redir THEN Front(a.argv) ELSE a.argv) IN
  IF a.redir /\ Last(a.argv) \notin Writable THEN Says("cannot write")
  ELSE IF argv = <<>> \/ argv[1] \notin Programs THEN Says("not found")
  ELSE Ran(argv, IF a.redir THEN Last(a.argv) ELSE "stdout")

executeCommand(a) ==
  LET name == a.argv[1] IN
  CASE name = "exit" -> up' = "exited" /\ did' = Says("exit") /\ UNCHANGED list
    [] name = "unAlias" -> executeunAlias(a.argv) /\ did' = Says("builtin") /\ UNCHANGED up
    [] name = "alias" -> executeAlias(a.argv) /\ did' = Says("builtin") /\ UNCHANGED up
    [] OTHER -> did' \in {Child(a), Says("fork failed")} /\ UNCHANGED <<list, up>>

\* A piece that fills the buffer is passed over, in a batch file.
TooLong(piece) == batch /\ Len(piece) >= LINE - 1

Line ==
  LET a == preprocess(Text(Head(left))) IN
  /\ up = "yes" /\ left # <<>>
  /\ left' = Tail(left) /\ done' = Append(done, Head(left))
  /\ IF TooLong(Head(left)) THEN did' = Says("too long") /\ UNCHANGED <<list, up>>
     ELSE IF a = Crash THEN up' = "crashed" /\ did' = Says("crash") /\ UNCHANGED list
     ELSE IF a = Misformatted THEN did' = Says("misformatted") /\ UNCHANGED <<list, up>>
     ELSE IF a.argv = <<>> THEN did' = Says("nothing") /\ UNCHANGED <<list, up>>
     ELSE executeCommand(a)
  /\ UNCHANGED batch

Next == Line
Spec == Init /\ [][Next]_vars

-----------------------------------------------------------------------------
(* Properties                                                              *)

\* The command, then the file, in the words of the README: white space does
\* not matter.
Sign(s) == CHOOSE k \in DOMAIN s : s[k] = ">"
Command(s) == IF Signs(s) = 0 THEN Words(s) ELSE Words(SubSeq(s, 1, Sign(s) - 1))
Target(s) == Words(SubSeq(s, Sign(s), Len(s)))
WellFormed(s) ==
  Signs(s) = 0 \/ (Signs(s) = 1 /\ Command(s) # <<>> /\ Len(Target(s)) = 1)
Glued(s) == Signs(s) = 1 /\ Len(Tokens(s)[CHOOSE i \in Standing(s) : TRUE]) > 1

Builtins == {"alias", "unAlias", "exit"}
Ignored(k) == TooLong(done[k])
Sets(k, n) ==
  LET w == Words(done[k]) IN
  /\ ~Ignored(k) /\ w # <<>>
  /\ \/ w[1] = "alias" /\ Len(w) > 2 /\ w[2] = n /\ n \notin Builtins
     \/ w = <<"unAlias", n>>
\* What n stands for after the lines so far.
Value(n) ==
  LET ks == {k \in DOMAIN done : Sets(k, n)} IN
  IF ks = {} \/ Len(Words(done[Max(ks)])) = 2 THEN None
  ELSE SubSeq(Words(done[Max(ks)]), 3, Len(Words(done[Max(ks)])))

\* "just replace the old value with the new value", "you should remove the
\* alias from your list" (P2B/README.md:52, 58): the list names every alias
\* once, with what the last line about it said (addAlias, unAlias,
\* detectAlias, executeAlias).
AliasesAsTyped ==
  \A i \in DOMAIN list :
    /\ \A j \in DOMAIN list : list[i].alias = list[j].alias => i = j
    /\ list[i].command = Value(list[i].alias)

\* "a command (along with its arguments, if present), followed by any number
\* of white spaces (including none), the redirection symbol >, again any number
\* of white space" and "a filename" (P2B/README.md:33): a line that has this
\* form starts that command, or what it is an alias of, with its output in that
\* file; one that has not, starts nothing, at least where ">" stands alone.
\* The shell goes on after it.
RunsAsTyped ==
  done # <<>> /\ did \notin {Says("too long"), Says("fork failed")} =>
    LET s == Text(Last(done))   c == Command(s)   v == Value(c[1])
        argv == IF v = None THEN c ELSE v \o Tail(c) IN
    /\ WellFormed(s) /\ c # <<>> /\ c[1] \notin Builtins =>
         did = IF Signs(s) = 1 /\ Target(s)[1] \notin Writable THEN Says("cannot write")
               ELSE IF argv[1] \notin Programs THEN Says("not found")
               ELSE Ran(argv, IF Signs(s) = 1 THEN Target(s)[1] ELSE "stdout")
    /\ ~WellFormed(s) /\ ~Glued(s) => did = Says("misformatted")
    /\ WellFormed(s) \/ ~Glued(s) => up # "crashed"
=============================================================================
