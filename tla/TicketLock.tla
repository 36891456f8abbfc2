------------------------------ MODULE TicketLock ------------------------------
(***************************************************************************)
(* The ticket lock of the user-level thread library (P3B, ulib.c) and its  *)
(* client in test_15.c: every worker adds 1 to a shared variable a number  *)
(* of times, reading and writing it in two steps under the lock.           *)
(***************************************************************************)
EXTENDS Integers, FiniteSets

CONSTANTS
  Threads,  \* the workers (num_threads)
  None,
  Word,     \* 2^w for the w-bit int of lock_t
  Loops     \* how often each worker takes the lock

\* int has a value for every thread that can wait, and one to spare.
ASSUME LockAssumption ==
  /\ IsFiniteSet(Threads) /\ None \notin Threads
  /\ Word \in Nat /\ Cardinality(Threads) < Word
  /\ Loops \in Nat

VARIABLES
  ticket, turn,  \* the lock_t
  my,            \* lock_acquire's local turn
  pc,
  global, tmp,   \* the shared variable, and the worker's copy of it
  left           \* loops that the worker has still to make

vars == <<ticket, turn, my, pc, global, tmp, left>>

Words == 0 .. Word - 1
Places == {"idle", "spin", "read", "write", "release"}

TypeOK ==
  /\ ticket \in Words /\ turn \in Words
  /\ my \in [Threads -> Words]
  /\ pc \in [Threads -> Places]
  /\ global \in Nat
  /\ tmp \in [Threads -> Nat]
  /\ left \in [Threads -> Nat]

\* lock_init, and the workers before their first turn.
Init ==
  /\ ticket = 0 /\ turn = 0
  /\ my = [t \in Threads |-> 0]
  /\ pc = [t \in Threads |-> "idle"]
  /\ global = 0
  /\ tmp = [t \in Threads |-> 0]
  /\ left = [t \in Threads |-> Loops]

\* xaddl with 1: the int wraps around.
Add1(x) == IF x = Word - 1 THEN 0 ELSE x + 1

Goto(t, place) == pc' = [pc EXCEPT ![t] = place]

MoreLoops(t) == left[t] > 0

\* lock_acquire: draw a ticket, ...
DrawTicket == ticket' = Add1(ticket)
Draw(t) ==
  /\ pc[t] = "idle" /\ MoreLoops(t)
  /\ DrawTicket
  /\ my' = [my EXCEPT ![t] = ticket]
  /\ Goto(t, "spin")
  /\ UNCHANGED <<turn, global, tmp, left>>

\* ... and spin until the turn comes; a turn missed changes nothing.
MyTurnOrLess(t) == turn >= my[t]
MyTurn(t) == turn = my[t]
Spin(t) ==
  /\ pc[t] = "spin" /\ MyTurn(t)
  /\ Goto(t, "read")
  /\ UNCHANGED <<ticket, turn, my, global, tmp, left>>

\* tmp = global; ... global = tmp + 1
Read(t) ==
  /\ pc[t] = "read"
  /\ tmp' = [tmp EXCEPT ![t] = global]
  /\ Goto(t, "write")
  /\ UNCHANGED <<ticket, turn, my, global, left>>

Write(t) ==
  /\ pc[t] = "write"
  /\ global' = tmp[t] + 1
  /\ Goto(t, "release")
  /\ UNCHANGED <<ticket, turn, my, tmp, left>>

NextTurnIfAwaited == turn' = IF ticket = Add1(turn) THEN turn ELSE Add1(turn)
NextTurn == turn' = Add1(turn)
Release(t) ==
  /\ pc[t] = "release"
  /\ NextTurn
  /\ left' = [left EXCEPT ![t] = @ - 1]
  /\ Goto(t, "idle")
  /\ UNCHANGED <<ticket, my, global, tmp>>

Step(t) == Draw(t) \/ Spin(t) \/ Read(t) \/ Write(t) \/ Release(t)

Next == \E t \in Threads : Step(t)

Spec == Init /\ [][Next]_vars

\* The kernel runs every thread again and again (round robin in P3B).
FairSpec == Spec /\ \A t \in Threads : WF_vars(Step(t))

-----------------------------------------------------------------------------
(* Properties                                                              *)

Inside(t) == pc[t] \in {"read", "write", "release"}
Active(t) == pc[t] # "idle"

\* lock_acquire admits one thread at a time, also after the counters wrap, so
\* that no increment is lost (test_15.c:45).
MutualExclusion == \A t, u \in Threads : Inside(t) /\ Inside(u) => t = u

\* How many turns t has to wait, and the number of turns that are given out.
Ahead(x) == IF x >= turn THEN x - turn ELSE x - turn + Word
Given == Ahead(ticket)

\* The ticket lock is a first-come first-served lock: the threads with a
\* ticket, by their distance from the turn, are its queue (lock_acquire).
Queue == [i \in 1 .. Given |->
            CHOOSE t \in Threads : Active(t) /\ Ahead(my[t]) = i - 1]
Owner == IF \E t \in Threads : Inside(t)
         THEN CHOOSE t \in Threads : Inside(t) ELSE None
FIFO == INSTANCE FifoLock WITH queue <- Queue, owner <- Owner

ServedInOrder == FIFO!Spec

\* Every worker that calls lock_acquire gets the lock in the end.
EventuallyServed == \A t \in Threads : pc[t] = "spin" ~> Inside(t)

-----------------------------------------------------------------------------
(* The inductive invariant: the tickets of the active threads are exactly  *)
(* the given ones, and who is inside has the turn.                         *)

TicketsDiffer ==
  \A t, u \in Threads : Active(t) /\ Active(u) /\ my[t] = my[u] => t = u

TicketsGiven == \A t \in Threads : Active(t) => Ahead(my[t]) < Given

GivenAreHeld ==
  \A k \in 0 .. Given - 1 : \E t \in Threads : Active(t) /\ Ahead(my[t]) = k

InsideHasTurn == \A t \in Threads : Inside(t) => my[t] = turn

MoreLeft == \A t \in Threads : Active(t) => left[t] > 0

IInv == /\ TypeOK /\ TicketsDiffer /\ TicketsGiven /\ GivenAreHeld
        /\ InsideHasTurn /\ MoreLeft
=============================================================================
