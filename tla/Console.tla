-------------------------------- MODULE Console --------------------------------
(***************************************************************************)
(* The input ring of the console (console.c): consoleintr edits and        *)
(* completes lines, consoleread hands them out.  Both run under cons.lock, *)
(* a critical section is one action; sleep() holds it until the process    *)
(* sleeps, while kill can reach the process.                               *)
(***************************************************************************)
EXTENDS Integers, Sequences

CONSTANTS
  Readers,
  INPUT_BUF,
  Word,       \* 2^w for the w-bit counters r, w and e
  Letters,
  Lengths,    \* n of the calls of consoleread
  Kills       \* readers that may be killed

ConsoleAssumption ==
  /\ INPUT_BUF \in Nat \ {0} /\ Word \in Nat
  /\ Word > INPUT_BUF /\ Word % INPUT_BUF = 0

VARIABLES
  buf, r, w, e,    \* input
  pc,              \* "user", "read", "tosleep" or "asleep"
  n, target,       \* of each reader's call
  killed,
  given            \* history: what the last step copied to a reader

vars == <<buf, r, w, e, pc, n, target, killed, given>>
readers == <<n, target, killed>>

Newline == "\n"
Eof == "^D"
Keys == Letters \cup {Newline, "\r", Eof, "^U", "^H"}

Init ==
  /\ buf = [i \in 0 .. INPUT_BUF - 1 |-> Eof]
  /\ r = 0 /\ w = 0 /\ e = 0
  /\ pc = [q \in Readers |-> "user"]
  /\ n = [q \in Readers |-> 0] /\ target = n
  /\ killed = {}
  /\ given = <<>>

LockFree == \A q \in Readers : pc[q] # "tosleep"
Ahead(i, k) == (i + k + Word) % Word
Count(i, j) == Ahead(j, -i)
At(i) == buf[i % INPUT_BUF]

-----------------------------------------------------------------------------
(* consoleintr, one key at a time; ^P lists the processes, changes nothing. *)

Translated(c) == IF c = "\r" THEN Newline ELSE c
CompletesByKey(c) == c \in {Newline, Eof}
Completes(c) == c \in {Newline, Eof} \/ Count(r, e) + 1 = INPUT_BUF

Store(c) ==
  /\ c \in Letters \cup {Newline, "\r", Eof}
  /\ Count(r, e) < INPUT_BUF
  /\ buf' = [buf EXCEPT ![e % INPUT_BUF] = Translated(c)]
  /\ e' = Ahead(e, 1)
  /\ IF Completes(Translated(c))
     THEN /\ w' = e'
          /\ pc' = [q \in Readers |-> IF pc[q] = "asleep" THEN "read" ELSE pc[q]]
     ELSE UNCHANGED <<w, pc>>

EraseKey(c) ==
  /\ e # w
  /\ \/ c = "^H" /\ e' = Ahead(e, -1)
     \/ /\ c = "^U"
        /\ LET stops == {k \in 1 .. Count(w, e) : At(Ahead(e, -k)) = Newline}
               k == IF stops = {} THEN Count(w, e)
                    ELSE (CHOOSE k \in stops : \A j \in stops : k <= j) - 1
           IN e' = Ahead(e, -k)
  /\ UNCHANGED <<buf, w, pc>>

ConsoleIntr ==
  /\ LockFree
  /\ \E c \in Keys : Store(c) \/ EraseKey(c)
  /\ UNCHANGED <<r, readers, given>>

-----------------------------------------------------------------------------
(* consoleread                                                             *)

Call(q) ==
  /\ pc[q] = "user" /\ q \notin killed
  /\ pc' = [pc EXCEPT ![q] = "read"]
  /\ \E k \in Lengths : n' = [n EXCEPT ![q] = k] /\ target' = [target EXCEPT ![q] = k]
  /\ UNCHANGED <<buf, r, w, e, killed, given>>

Line == [i \in 1 .. Count(r, w) |-> At(Ahead(r, i - 1))]
\* Characters that the loop copies before it returns or finds the ring empty.
Copied(most) ==
  LET stop(k) == k = most \/ k = Len(Line) \/ Line[k + 1] = Eof
                 \/ (k > 0 /\ Line[k] = Newline)
  IN CHOOSE k \in 0 .. Len(Line) : stop(k) /\ \A j \in 0 .. k - 1 : ~stop(j)

ConsoleRead(q) ==
  /\ pc[q] = "read" /\ LockFree
  /\ LET k == Copied(n[q])
         full == k = n[q] \/ (k > 0 /\ Line[k] = Newline)
         eof == ~full /\ k < Len(Line)
         untaken == n[q] - k < target[q]    \* ^D is kept for the next read
     IN
       /\ given' = SubSeq(Line, 1, k)
       /\ r' = Ahead(r, IF eof /\ ~untaken THEN k + 1 ELSE k)
       /\ n' = [n EXCEPT ![q] = @ - k]
       /\ pc' = [pc EXCEPT ![q] = IF full \/ eof \/ q \in killed THEN "user"
                                  ELSE "tosleep"]
  /\ UNCHANGED <<buf, w, e, target, killed>>

Sleep(q) ==
  /\ pc[q] = "tosleep"
  /\ pc' = [pc EXCEPT ![q] = "asleep"]
  /\ UNCHANGED <<buf, r, w, e, readers, given>>

\* kill() of proc.c
Kill(q) ==
  /\ q \in Kills \ killed
  /\ killed' = killed \cup {q}
  /\ pc' = [pc EXCEPT ![q] = IF @ = "asleep" THEN "read" ELSE @]
  /\ UNCHANGED <<buf, r, w, e, n, target, given>>

Next ==
  \/ ConsoleIntr
  \/ \E q \in Readers : Call(q) \/ ConsoleRead(q) \/ Sleep(q) \/ Kill(q)
Spec == Init /\ [][Next]_vars

-----------------------------------------------------------------------------
(* Properties                                                              *)

\* The ring with its three wrapping counters is a line editor in front of a
\* queue of complete lines, each character of which is read once.
Editor == INSTANCE LineInput WITH
  Size <- INPUT_BUF,
  ready <- Line,
  typed <- [i \in 1 .. Count(w, e) |-> At(Ahead(w, i - 1))]
LinesInOrder == Editor!Spec

\* A reader sleeps only while no line is complete, and then there is room to
\* type one (consoleintr completes the line that fills the ring).
ReaderHasNoLine ==
  \A q \in Readers : pc[q] = "asleep" => r = w /\ Count(r, e) < INPUT_BUF
=============================================================================
