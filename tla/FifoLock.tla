------------------------------- MODULE FifoLock -------------------------------
(***************************************************************************)
(* What a fair lock promises: threads enter one at a time, in the order in *)
(* which they asked.                                                       *)
(***************************************************************************)
EXTENDS Sequences, SequencesExt

CONSTANTS Threads, None

VARIABLES
  queue,  \* who asked and has not left, in order
  owner   \* who is inside, None if nobody

fifoVars == <<queue, owner>>

Init == queue = <<>> /\ owner = None

Ask(t) ==
  /\ ~Contains(queue, t)
  /\ queue' = Append(queue, t)
  /\ UNCHANGED owner

Enter(t) ==
  /\ owner = None
  /\ queue # <<>> /\ Head(queue) = t
  /\ owner' = t
  /\ UNCHANGED queue

Leave(t) ==
  /\ owner = t
  /\ owner' = None
  /\ queue' = Tail(queue)

Next == \E t \in Threads : Ask(t) \/ Enter(t) \/ Leave(t)

Spec == Init /\ [][Next]_fifoVars
=============================================================================
