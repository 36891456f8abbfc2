------------------------------- MODULE LineInput -------------------------------
(***************************************************************************)
(* What the console promises its readers: a line can be edited until it is *)
(* complete; complete lines are read once, in order, at most one a read;   *)
(* an end of file is a read of nothing.                                    *)
(***************************************************************************)
EXTENDS Naturals, Sequences

CONSTANTS Size, Letters, Newline, Eof

VARIABLES ready, typed, given
inputVars == <<ready, typed, given>>

Init == ready = <<>> /\ typed = <<>> /\ given = <<>>

Ends(c, n) == c \in {Newline, Eof} \/ n = Size
Type(c) ==
  /\ Len(ready) + Len(typed) < Size
  /\ LET line == Append(typed, c)
         complete == Ends(c, Len(ready) + Len(line))
     IN /\ ready' = IF complete THEN ready \o line ELSE ready
        /\ typed' = IF complete THEN <<>> ELSE line
  /\ UNCHANGED given

Erase ==
  /\ typed' \in {<<>>, SubSeq(typed, 1, Len(typed) - 1)}
  /\ UNCHANGED <<ready, given>>

Read ==
  /\ \E k \in 0 .. Len(ready) :
       /\ given' = SubSeq(ready, 1, k)
       /\ ready' = SubSeq(ready, k + 1, Len(ready))
       /\ \A i \in 1 .. k : ready[i] # Eof /\ (ready[i] = Newline => i = k)
  /\ UNCHANGED typed

ReadEof ==
  /\ ready # <<>> /\ Head(ready) = Eof
  /\ given' = <<>> /\ ready' = Tail(ready)
  /\ UNCHANGED typed

Next == (\E c \in Letters \cup {Newline, Eof} : Type(c)) \/ Erase \/ Read \/ ReadEof
Spec == Init /\ [][Next]_inputVars
=============================================================================
