----------------------------- MODULE BlockStore -----------------------------
(***************************************************************************)
(* What the buffer cache promises to its callers: every block of the disk  *)
(* is a register, which one process at a time reads and changes.           *)
(***************************************************************************)
CONSTANTS Procs, Blocks, Values

VARIABLES
  contents,   \* the value of each block
  users       \* the processes that have the block

storeVars == <<contents, users>>

Init == contents \in [Blocks -> Values] /\ users = [n \in Blocks |-> {}]

Open(p, n) ==
  /\ users[n] = {}
  /\ users' = [users EXCEPT ![n] = {p}] /\ UNCHANGED contents

Change(p, n, v) ==
  /\ users[n] = {p}
  /\ contents' = [contents EXCEPT ![n] = v] /\ UNCHANGED users

Close(p, n) ==
  /\ users[n] = {p}
  /\ users' = [users EXCEPT ![n] = {}] /\ UNCHANGED contents

Next == \E p \in Procs, n \in Blocks :
          Open(p, n) \/ Close(p, n) \/ \E v \in Values : Change(p, n, v)

Spec == Init /\ [][Next]_storeVars
=============================================================================
