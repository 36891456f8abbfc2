----------------------------- MODULE AtomicDisk -----------------------------
(***************************************************************************)
(* What the logging layer promises to the file system: the writes of       *)
(* several calls become durable together, at a moment when no call is      *)
(* active, and a crash leaves all of them or none.                         *)
(***************************************************************************)
CONSTANTS Procs, Blocks, Values

VARIABLES
  view,     \* what the calls read
  durable,  \* what a reboot finds
  active    \* processes in the middle of a call

diskVars == <<view, durable, active>>

Init == view \in [Blocks -> Values] /\ durable = view /\ active = {}

Begin(p) == active' = active \cup {p} /\ UNCHANGED <<view, durable>>

Write(p, b, v) ==
  /\ p \in active
  /\ view' = [view EXCEPT ![b] = v]
  /\ UNCHANGED <<durable, active>>

End(p) == active' = active \ {p} /\ UNCHANGED <<view, durable>>

Commit == active = {} /\ durable' = view /\ UNCHANGED <<view, active>>

Crash == view' = durable /\ active' = {} /\ UNCHANGED durable

Next == \/ Commit \/ Crash
        \/ \E p \in Procs : Begin(p) \/ End(p)
        \/ \E p \in Procs, b \in Blocks, v \in Values : Write(p, b, v)

Spec == Init /\ [][Next]_diskVars
=============================================================================
