----------------------------- MODULE ByteStream -----------------------------
(***************************************************************************)
(* What a pipe promises: a bounded queue of bytes; what is sent comes out  *)
(* once, in order, and chunk is what the last transfer moved.              *)
(***************************************************************************)
EXTENDS Naturals, Sequences

CONSTANTS Capacity, Bytes

VARIABLES queue, chunk

streamVars == <<queue, chunk>>

Init == queue = <<>> /\ chunk = <<>>

Send ==
  /\ chunk' \in UNION {[1 .. n -> Bytes] : n \in 0 .. Capacity - Len(queue)}
  /\ queue' = queue \o chunk'

Receive ==
  \E n \in 0 .. Len(queue) :
    /\ chunk' = SubSeq(queue, 1, n)
    /\ queue' = SubSeq(queue, n + 1, Len(queue))

Spec == Init /\ [][Send \/ Receive]_streamVars
=============================================================================
