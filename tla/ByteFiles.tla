------------------------------ MODULE ByteFiles ------------------------------
(***************************************************************************)
(* What files promise: each is a sequence of bytes that grows at its end,  *)
(* is overwritten in place and is thrown away as a whole.                  *)
(***************************************************************************)
EXTENDS Naturals, Sequences

CONSTANTS Files, Bytes

VARIABLE content

Init == content = [f \in Files |-> <<>>]

\* Between 1 and n bytes v from offset k on.
Put(f, k, n, v) ==
  /\ k <= Len(content[f])
  /\ content' = [content EXCEPT ![f] =
       [j \in 1..(IF k + n > Len(@) THEN k + n ELSE Len(@)) |->
          IF j > k /\ j <= k + n THEN v ELSE @[j]]]

Discard(f) == content' = [content EXCEPT ![f] = <<>>]

Next == \E f \in Files :
  \/ Discard(f)
  \/ \E k \in 0..Len(content[f]), n \in 1..Len(content'[f]), v \in Bytes :
       Put(f, k, n, v)

Step == [Next]_content
Spec == Init /\ [][Next]_content
=============================================================================
