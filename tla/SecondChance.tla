----------------------------- MODULE SecondChance -----------------------------
(***************************************************************************)
(* The clock algorithm as it is specified: a queue of at most N pages; a   *)
(* new page takes the place of the first page, from the head on, that has  *)
(* not been referenced since it was last enqueued.                         *)
(***************************************************************************)
EXTENDS Naturals, Sequences, SequencesExt

CONSTANTS N, Pages

VARIABLES
  queue,  \* the pages of the working set, the oldest at the head
  ref     \* those of them whose reference bit is set

clockVars == <<queue, ref>>

Init == queue = <<>> /\ ref = {}

Referenced == ref' \in SUBSET (ToSet(queue') \cap Pages) /\ ref \subseteq ref'

Touch == queue' = queue /\ Referenced

\* There is room for a page that is not in the queue.
Admit(v) ==
  /\ Len(queue) < N /\ ~Contains(queue, v)
  /\ queue' = Append(queue, v)
  /\ Referenced

\* The head gets its second chance.
Pass ==
  /\ Len(queue) = N /\ Head(queue) \in ref
  /\ queue' = Append(Tail(queue), Head(queue))
  /\ ref' = ref \ {Head(queue)}

\* The head is the victim.
Replace(v) ==
  /\ Len(queue) = N /\ Head(queue) \notin ref /\ ~Contains(queue, v)
  /\ queue' = Append(Tail(queue), v)
  /\ Referenced

\* The pages of S are deallocated.
Drop(S) ==
  /\ queue' = SelectSeq(queue, LAMBDA v : v \notin S)
  /\ ref' = ref \ S

Empty == queue' = <<>> /\ ref' = {}

Next == \/ Touch \/ Pass \/ Empty
        \/ \E v \in Pages : Admit(v) \/ Replace(v)
        \/ \E S \in SUBSET Pages : Drop(S)

Spec == Init /\ [][Next]_clockVars
=============================================================================
