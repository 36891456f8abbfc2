--------------------------- MODULE TicketLock_proofs ---------------------------
(***************************************************************************)
(* Proofs about the ticket lock, for every set of threads smaller than the *)
(* range of an int: mutual exclusion, and that it serves in order.         *)
(***************************************************************************)
EXTENDS TicketLock, FiniteSetTheorems, SequenceTheorems, TLAPS

\* lock_init establishes the invariant.
LEMMA InitIInv == Init => IInv
<1> SUFFICES ASSUME Init PROVE IInv
  OBVIOUS
<1>1. Word \in Nat /\ 0 < Word
  BY LockAssumption, FS_CardinalityType
<1>2. TypeOK
  BY <1>1, LockAssumption DEF Init, TypeOK, Words, Places
<1>3. Given = 0 /\ \A t \in Threads : ~Active(t) /\ ~Inside(t)
  BY <1>1 DEF Init, Given, Ahead, Active, Inside
<1> QED
  BY <1>2, <1>3 DEF IInv, TicketsDiffer, TicketsGiven, GivenAreHeld,
                   InsideHasTurn, MoreLeft, Active

\* The distance of a word from the turn is a word; only the turn has none.
LEMMA AheadRange ==
  ASSUME Word \in Nat, turn \in Words, NEW x \in Words
  PROVE  Ahead(x) \in Words /\ (Ahead(x) = 0 <=> x = turn)
  BY DEF Ahead, Words

\* Different words are at different distances.
LEMMA AheadInjective ==
  ASSUME Word \in Nat, turn \in Words, NEW x \in Words, NEW y \in Words,
         Ahead(x) = Ahead(y)
  PROVE  x = y
  BY DEF Ahead, Words

\* An idle thread is one that holds no given ticket: there is room for one
\* more, so the counters cannot meet when they wrap.
LEMMA Room ==
  ASSUME IInv, NEW t \in Threads, ~Active(t)
  PROVE  Given \in Nat /\ Given + 1 < Word
<1>1. /\ Word \in Nat /\ turn \in Words /\ ticket \in Words
      /\ my \in [Threads -> Words]
  BY LockAssumption DEF IInv, TypeOK
<1>2. Given \in Words
  BY <1>1, AheadRange DEF Given
<1> DEFINE Other == Threads \ {t}
           f == [k \in 0 .. Given - 1 |->
                   CHOOSE u \in Threads : Active(u) /\ Ahead(my[u]) = k]
<1>3. \A k \in 0 .. Given - 1 :
        f[k] \in Threads /\ Active(f[k]) /\ Ahead(my[f[k]]) = k
  BY DEF IInv, GivenAreHeld
<1>4. f \in Injection(0 .. Given - 1, Other)
  <2>1. f \in [0 .. Given - 1 -> Other]
    BY <1>3
  <2>2. IsInjective(f)
    BY <1>3 DEF IsInjective
  <2> QED
    BY <2>1, <2>2 DEF Injection
<1>5. /\ IsFiniteSet(Other) /\ Cardinality(Other) = Cardinality(Threads) - 1
      /\ Cardinality(Threads) \in Nat
  BY LockAssumption, FS_RemoveElement, FS_CardinalityType
<1> HIDE DEF f, Other
<1>6. Cardinality(0 .. Given - 1) <= Cardinality(Other)
  BY <1>4, <1>5, FS_Injection
<1>7. Cardinality(0 .. Given - 1) = Given
  <2>1. 0 \in Int /\ Given - 1 \in Int
    BY <1>2 DEF Words
  <2>2. Cardinality(0 .. Given - 1) = IF 0 > Given - 1 THEN 0 ELSE Given - 1 - 0 + 1
    BY <2>1, FS_Interval
  <2> QED
    BY <1>2, <2>2 DEF Words
<1> QED
  BY <1>1, <1>2, <1>5, <1>6, <1>7, LockAssumption DEF Words

\* Drawing a ticket gives out one turn more, the last one.
LEMMA DrawIInv == ASSUME IInv, NEW t \in Threads, Draw(t) PROVE IInv'
<1>1. /\ Word \in Nat /\ turn \in Words /\ ticket \in Words
      /\ my \in [Threads -> Words] /\ pc \in [Threads -> Places]
      /\ 0 < Word
  BY LockAssumption, FS_CardinalityType DEF IInv, TypeOK
<1>2. /\ pc[t] = "idle" /\ pc' = [pc EXCEPT ![t] = "spin"]
      /\ my' = [my EXCEPT ![t] = ticket]
      /\ ticket' = Add1(ticket) /\ turn' = turn
  BY DEF Draw, DrawTicket, Goto
<1>3. Given \in Nat /\ Given + 1 < Word
  BY <1>2, Room DEF Active
<1>4. Given' = Given + 1
  BY <1>1, <1>2, <1>3 DEF Given, Ahead, Add1, Words
<1>5. TypeOK'
  BY <1>1, <1>2 DEF IInv, TypeOK, Draw, Add1, Words, Places
<1>6. \A u \in Threads : /\ Active(u)' <=> Active(u) \/ u = t
                         /\ Inside(u)' <=> Inside(u)
                         /\ my'[u] = IF u = t THEN ticket ELSE my[u]
                         /\ u # t \/ ~Active(u)
  BY <1>1, <1>2 DEF Active, Inside, Places
<1>8. \A u \in Threads : Ahead(my[u])' = IF u = t THEN Given ELSE Ahead(my[u])
  BY <1>2, <1>6 DEF Given, Ahead
<1>9. TicketsGiven' /\ GivenAreHeld'
  <2>1. TicketsGiven'
    <3> SUFFICES ASSUME NEW u \in Threads, Active(u)'
                 PROVE  Ahead(my[u])' < Given'
      BY DEF TicketsGiven
    <3>1. CASE u = t
      BY <1>3, <1>4, <1>8, <3>1
    <3>2. CASE u # t
      <4>1. Ahead(my[u]) < Given /\ Ahead(my[u]) \in Words
        BY <1>1, <1>6, <3>2, AheadRange DEF IInv, TicketsGiven
      <4> QED
        BY <1>3, <1>4, <1>8, <3>2, <4>1 DEF Words
    <3> QED
      BY <3>1, <3>2
  <2>2. GivenAreHeld'
    <3> SUFFICES ASSUME NEW k \in 0 .. Given' - 1
                 PROVE  \E u \in Threads : Active(u)' /\ Ahead(my[u])' = k
      BY DEF GivenAreHeld
    <3>1. CASE k = Given
      BY <1>6, <1>8, <3>1
    <3>2. CASE k # Given
      <4>1. k \in 0 .. Given - 1
        BY <1>3, <1>4, <3>2
      <4> QED
        BY <1>6, <1>8, <4>1 DEF IInv, GivenAreHeld
    <3> QED
      BY <3>1, <3>2
  <2> QED
    BY <2>1, <2>2
<1>10. TicketsDiffer'
  <2>1. \A u \in Threads : Active(u) => my[u] # ticket
    <3> SUFFICES ASSUME NEW u \in Threads, Active(u) PROVE my[u] # ticket
      OBVIOUS
    <3>1. Ahead(my[u]) < Ahead(ticket) /\ Ahead(ticket) \in Nat
      BY <1>3 DEF IInv, TicketsGiven, Given
    <3> QED
      BY <3>1
  <2> QED
    BY <1>6, <2>1 DEF IInv, TicketsDiffer
<1>11. InsideHasTurn'
  BY <1>2, <1>6 DEF IInv, InsideHasTurn, Inside, Active
<1>12. MoreLeft'
  BY <1>2, <1>6 DEF IInv, MoreLeft, Draw, MoreLoops
<1> QED
  BY <1>5, <1>9, <1>10, <1>11, <1>12 DEF IInv

\* Entering and working inside moves no ticket; who enters has the turn.
LEMMA InsideIInv ==
  ASSUME IInv, NEW t \in Threads, Spin(t) \/ Read(t) \/ Write(t)
  PROVE  IInv'
<1>1. /\ turn' = turn /\ ticket' = ticket /\ my' = my
      /\ pc[t] \in {"spin", "read", "write"}
      /\ pc[t] = "spin" => my[t] = turn
      /\ \E place \in {"read", "write", "release"} : pc' = [pc EXCEPT ![t] = place]
  BY DEF Spin, Read, Write, Goto, MyTurn
<1>2. /\ pc \in [Threads -> Places] /\ my \in [Threads -> Words]
      /\ tmp \in [Threads -> Nat] /\ global \in Nat
  BY DEF IInv, TypeOK
<1>3. \A u \in Threads : /\ Active(u)' <=> Active(u)
                         /\ u # t => (Inside(u)' <=> Inside(u))
  BY <1>1, <1>2 DEF Active, Inside
<1>4. Given' = Given /\ \A u \in Threads : Ahead(my[u])' = Ahead(my[u])
  BY <1>1 DEF Given, Ahead
<1>5. TypeOK'
  <2>1. pc' \in [Threads -> Places]
    BY <1>1, <1>2 DEF Places
  <2>2. global' \in Nat /\ tmp' \in [Threads -> Nat]
    BY <1>2 DEF Spin, Read, Write
  <2> QED
    BY <1>1, <2>1, <2>2 DEF IInv, TypeOK, Spin, Read, Write
<1>6. TicketsDiffer' /\ TicketsGiven' /\ GivenAreHeld'
  BY <1>1, <1>3, <1>4 DEF IInv, TicketsDiffer, TicketsGiven, GivenAreHeld
<1>7. InsideHasTurn'
  <2>1. my[t] = turn
    BY <1>1 DEF IInv, InsideHasTurn, Inside
  <2> QED
    BY <1>1, <1>3, <2>1 DEF IInv, InsideHasTurn
<1>8. MoreLeft'
  BY <1>3 DEF IInv, MoreLeft, Spin, Read, Write
<1> QED
  BY <1>5, <1>6, <1>7, <1>8 DEF IInv

\* Releasing brings every other ticket one turn nearer.
LEMMA ReleaseIInv ==
  ASSUME IInv, NEW t \in Threads, Release(t) PROVE IInv'
<1>1. /\ Word \in Nat /\ turn \in Words /\ ticket \in Words
      /\ my \in [Threads -> Words] /\ pc \in [Threads -> Places]
      /\ left \in [Threads -> Nat]
  BY LockAssumption DEF IInv, TypeOK
<1>2. /\ pc[t] = "release" /\ pc' = [pc EXCEPT ![t] = "idle"]
      /\ my' = my /\ ticket' = ticket /\ turn' = Add1(turn)
      /\ left' = [left EXCEPT ![t] = @ - 1]
  BY DEF Release, NextTurn, Goto
<1>3. my[t] = turn /\ Active(t)
  BY <1>2 DEF IInv, InsideHasTurn, Inside, Active
<1>4. Ahead(my[t]) = 0 /\ Given \in Words /\ 0 < Given
  <2>1. Ahead(my[t]) = 0 /\ Given \in Words
    BY <1>1, <1>3, AheadRange DEF Given
  <2>2. Ahead(my[t]) < Given
    BY <1>3 DEF IInv, TicketsGiven
  <2> QED
    BY <2>1, <2>2
<1>5. \A x \in Words : Ahead(x) # 0 =>
        (IF x >= turn' THEN x - turn' ELSE x - turn' + Word) = Ahead(x) - 1
  BY <1>1, <1>2 DEF Ahead, Add1, Words
<1>6. Given' = Given - 1
  BY <1>1, <1>2, <1>4, <1>5 DEF Given, Ahead
<1>7. \A u \in Threads : /\ Active(u)' <=> Active(u) /\ u # t
                         /\ Inside(u)' => Inside(u) /\ u # t
  BY <1>1, <1>2 DEF Active, Inside
<1>8. \A u \in Threads : Active(u) /\ u # t =>
        Ahead(my[u]) # 0 /\ Ahead(my[u])' = Ahead(my[u]) - 1
  <2> SUFFICES ASSUME NEW u \in Threads, Active(u), u # t
               PROVE  Ahead(my[u]) # 0 /\ Ahead(my[u])' = Ahead(my[u]) - 1
    OBVIOUS
  <2>1. my[u] # turn /\ my[u] \in Words
    BY <1>1, <1>3 DEF IInv, TicketsDiffer
  <2>2. Ahead(my[u]) # 0
    BY <1>1, <2>1, AheadRange
  <2> QED
    BY <1>2, <1>5, <2>1, <2>2 DEF Ahead
<1>9. TypeOK'
  <2>1. left[t] - 1 \in Nat
    BY <1>1, <1>3 DEF IInv, MoreLeft
  <2>2. left' \in [Threads -> Nat]
    BY <1>1, <1>2, <2>1
  <2>3. turn' \in Words /\ pc' \in [Threads -> Places]
    BY <1>1, <1>2 DEF Add1, Words, Places
  <2> QED
    BY <1>1, <1>2, <2>2, <2>3 DEF IInv, TypeOK, Release
<1>10. TicketsDiffer'
  BY <1>2, <1>7 DEF IInv, TicketsDiffer
<1>11. TicketsGiven'
  <2> SUFFICES ASSUME NEW u \in Threads, Active(u)' PROVE Ahead(my[u])' < Given'
    BY DEF TicketsGiven
  <2>1. Ahead(my[u]) < Given /\ Ahead(my[u]) \in Words
    BY <1>1, <1>7, AheadRange DEF IInv, TicketsGiven
  <2> QED
    BY <1>4, <1>6, <1>7, <1>8, <2>1 DEF Words
<1>12. GivenAreHeld'
  <2> SUFFICES ASSUME NEW k \in 0 .. Given' - 1
               PROVE  \E u \in Threads : Active(u)' /\ Ahead(my[u])' = k
    BY DEF GivenAreHeld
  <2>1. k + 1 \in 0 .. Given - 1 /\ k + 1 # 0
    BY <1>4, <1>6 DEF Words
  <2>2. PICK u \in Threads : Active(u) /\ Ahead(my[u]) = k + 1
    BY <2>1 DEF IInv, GivenAreHeld
  <2>3. u # t
    BY <1>4, <2>1, <2>2
  <2> QED
    BY <1>7, <1>8, <2>2, <2>3
<1>13. InsideHasTurn'
  BY <1>3, <1>7 DEF IInv, InsideHasTurn, TicketsDiffer, Inside, Active
<1>14. MoreLeft'
  BY <1>1, <1>2, <1>7 DEF IInv, MoreLeft
<1> QED
  BY <1>9, <1>10, <1>11, <1>12, <1>13, <1>14 DEF IInv

LEMMA NextIInv == IInv /\ [Next]_vars => IInv'
<1> SUFFICES ASSUME IInv, [Next]_vars PROVE IInv'
  OBVIOUS
<1>1. CASE \E t \in Threads : Step(t)
  BY <1>1, DrawIInv, InsideIInv, ReleaseIInv DEF Step
<1>2. CASE UNCHANGED vars
  BY <1>2 DEF vars, IInv, TypeOK, TicketsDiffer, TicketsGiven, GivenAreHeld,
              InsideHasTurn, MoreLeft, Active, Inside, Given, Ahead
<1> QED
  BY <1>1, <1>2 DEF Next

-----------------------------------------------------------------------------
(* The refinement of FifoLock                                              *)

\* The queue lists the active threads by their distance from the turn.
QueueIs ==
  /\ Given \in Nat /\ Queue \in Seq(Threads) /\ Len(Queue) = Given
  /\ \A t \in Threads : Active(t) => Ahead(my[t]) + 1 \in 1 .. Given
  /\ \A i \in 1 .. Given : /\ Active(Queue[i]) /\ Ahead(my[Queue[i]]) = i - 1
                           /\ \A t \in Threads :
                                Active(t) /\ Ahead(my[t]) = i - 1 => t = Queue[i]
\* The owner is the thread inside.
OwnerIs ==
  /\ \A t \in Threads : Inside(t) => Owner = t
  /\ (\A t \in Threads : ~Inside(t)) => Owner = None
  /\ \A t \in Threads : Owner = t => Inside(t)

LEMMA QueueAndOwner == IInv => QueueIs /\ OwnerIs
<1> SUFFICES ASSUME IInv PROVE QueueIs /\ OwnerIs
  OBVIOUS
<1>1. /\ Word \in Nat /\ turn \in Words /\ ticket \in Words
      /\ my \in [Threads -> Words]
  BY LockAssumption DEF IInv, TypeOK
<1>2. Given \in Nat
  BY <1>1, AheadRange DEF Given, Words
<1>3. ASSUME NEW t \in Threads, NEW u \in Threads, Active(t), Active(u),
             Ahead(my[t]) = Ahead(my[u])
      PROVE  t = u
  BY <1>1, <1>3, AheadInjective DEF IInv, TicketsDiffer
<1>4. ASSUME NEW i \in 1 .. Given
      PROVE  /\ Queue[i] \in Threads
             /\ Active(Queue[i]) /\ Ahead(my[Queue[i]]) = i - 1
  <2>1. i - 1 \in 0 .. Given - 1
    BY <1>2
  <2>2. \E t \in Threads : Active(t) /\ Ahead(my[t]) = i - 1
    BY <2>1 DEF IInv, GivenAreHeld
  <2> QED
    BY <2>2 DEF Queue
<1>5. /\ Queue \in [1 .. Given -> Threads]
      /\ Queue \in Seq(Threads) /\ Len(Queue) = Given
  <2>1. Queue \in [1 .. Given -> Threads]
    BY <1>4 DEF Queue
  <2> QED
    BY <1>2, <2>1
<1>6. ASSUME NEW t \in Threads, Active(t) PROVE Ahead(my[t]) + 1 \in 1 .. Given
  <2>1. Ahead(my[t]) < Given /\ Ahead(my[t]) \in Nat
    BY <1>1, <1>6, AheadRange DEF IInv, TicketsGiven, Words
  <2> QED
    BY <1>2, <2>1
<1>7. QueueIs
  BY <1>2, <1>3, <1>4, <1>5, <1>6 DEF QueueIs
<1>8. ASSUME NEW t \in Threads, NEW u \in Threads, Inside(t), Inside(u)
      PROVE  t = u
  BY <1>8 DEF IInv, InsideHasTurn, TicketsDiffer, Inside, Active
<1>9. OwnerIs
  <2>1. CASE \E t \in Threads : Inside(t)
    <3>1. Owner \in Threads /\ Inside(Owner)
      BY <2>1 DEF Owner
    <3> QED
      BY <1>8, <2>1, <3>1 DEF OwnerIs
  <2>2. CASE ~ \E t \in Threads : Inside(t)
    BY <2>2, LockAssumption DEF OwnerIs, Owner
  <2> QED
    BY <2>1, <2>2
<1> QED
  BY <1>7, <1>9

LEMMA FifoInit == Init => FIFO!Init
<1> SUFFICES ASSUME Init PROVE FIFO!Init
  OBVIOUS
<1>1. IInv
  BY InitIInv
<1>2. Given = 0 /\ \A t \in Threads : ~Inside(t)
  BY DEF Init, Given, Ahead, Inside
<1>3. Queue \in Seq(Threads) /\ Len(Queue) = 0 /\ Owner = None
  BY <1>1, <1>2, QueueAndOwner DEF QueueIs, OwnerIs
<1>4. Queue = <<>>
  BY <1>3, EmptySeq
<1> QED
  BY <1>3, <1>4 DEF FIFO!Init

\* A thread that draws a ticket goes to the end of the queue.
LEMMA DrawAsks ==
  ASSUME IInv, QueueIs, OwnerIs, QueueIs', OwnerIs', NEW t \in Threads, Draw(t)
  PROVE  FIFO!Ask(t)
<1>1. /\ Word \in Nat /\ turn \in Words /\ ticket \in Words
      /\ my \in [Threads -> Words] /\ pc \in [Threads -> Places]
  BY LockAssumption DEF IInv, TypeOK
<1>2. /\ pc[t] = "idle" /\ pc' = [pc EXCEPT ![t] = "spin"]
      /\ my' = [my EXCEPT ![t] = ticket]
      /\ ticket' = Add1(ticket) /\ turn' = turn
  BY DEF Draw, DrawTicket, Goto
<1>3. Given \in Nat /\ Given + 1 < Word
  BY <1>2, Room DEF Active
<1>4. Given' = Given + 1
  BY <1>1, <1>2, <1>3 DEF Given, Ahead, Add1, Words
<1>5. \A u \in Threads : /\ Active(u)' <=> Active(u) \/ u = t
                         /\ Inside(u)' <=> Inside(u)
                         /\ my'[u] = IF u = t THEN ticket ELSE my[u]
                         /\ u # t \/ ~Active(u)
  BY <1>1, <1>2 DEF Active, Inside, Places
<1>6. \A u \in Threads : Ahead(my[u])' = IF u = t THEN Given ELSE Ahead(my[u])
  BY <1>2, <1>5 DEF Given, Ahead
<1>7. /\ Queue \in Seq(Threads) /\ Len(Queue) = Given
      /\ Queue' \in Seq(Threads) /\ Len(Queue') = Given + 1
  BY <1>4 DEF QueueIs
<1>8. \A i \in 1 .. Given : Queue[i] \in Threads /\ Queue[i] # t
  <2>1. \A i \in 1 .. Given : Queue[i] \in Threads
    BY <1>7
  <2> QED
    BY <1>5, <2>1 DEF QueueIs
<1>9. ~FIFO!Contains(Queue, t)
  BY <1>7, <1>8 DEF FIFO!Contains
<1>10. Queue' = Append(Queue, t)
  <2>1. \A i \in 1 .. Given + 1 : Queue'[i] = Append(Queue, t)[i]
    <3> SUFFICES ASSUME NEW i \in 1 .. Given + 1
                 PROVE  Queue'[i] = Append(Queue, t)[i]
      OBVIOUS
    <3>1. \A u \in Threads : Active(u)' /\ Ahead(my[u])' = i - 1 => u = Queue'[i]
      BY <1>4 DEF QueueIs
    <3>2. CASE i = Given + 1
      <4>1. t = Queue'[i]
        BY <1>3, <1>5, <1>6, <3>1, <3>2
      <4> QED
        BY <1>7, <3>2, <4>1
    <3>3. CASE i # Given + 1
      <4>1. i \in 1 .. Given
        BY <1>3, <3>3
      <4>2. Queue[i] \in Threads /\ Active(Queue[i]) /\ Ahead(my[Queue[i]]) = i - 1
        BY <1>7, <4>1 DEF QueueIs
      <4>3. Queue[i] = Queue'[i]
        BY <1>5, <1>6, <1>8, <3>1, <4>1, <4>2
      <4> QED
        BY <1>7, <4>1, <4>3
    <3> QED
      BY <3>2, <3>3
  <2>2. Append(Queue, t) \in Seq(Threads) /\ Len(Append(Queue, t)) = Given + 1
    BY <1>7
  <2> QED
    BY <1>7, <2>1, <2>2, SeqEqual
<1>11. Owner' = Owner
  <2>1. CASE \E u \in Threads : Inside(u)
    BY <1>5, <2>1 DEF OwnerIs
  <2>2. CASE ~ \E u \in Threads : Inside(u)
    BY <1>5, <2>2 DEF OwnerIs
  <2> QED
    BY <2>1, <2>2
<1> QED
  BY <1>9, <1>10, <1>11 DEF FIFO!Ask

\* Nothing moves in the queue while nobody draws or releases.
LEMMA SameQueue ==
  ASSUME QueueIs, QueueIs', Given' = Given,
         \A u \in Threads : /\ Active(u)' <=> Active(u)
                            /\ Ahead(my[u])' = Ahead(my[u])
  PROVE  Queue' = Queue
<1>1. /\ Queue \in Seq(Threads) /\ Len(Queue) = Given
      /\ Queue' \in Seq(Threads) /\ Len(Queue') = Given
  BY DEF QueueIs
<1>2. ASSUME NEW i \in 1 .. Given PROVE Queue'[i] = Queue[i]
  <2>1. Queue[i] \in Threads
    BY <1>1
  <2>2. PICK u \in Threads : u = Queue[i] /\ Active(u) /\ Ahead(my[u]) = i - 1
    BY <2>1 DEF QueueIs
  <2>3. Active(u)' /\ Ahead(my[u])' = i - 1
    BY <2>2
  <2> QED
    BY <2>2, <2>3 DEF QueueIs
<1> QED
  BY <1>1, <1>2, SeqEqual

\* Who finds its turn is the head of the queue, and finds nobody inside.
LEMMA SpinEnters ==
  ASSUME IInv, QueueIs, OwnerIs, QueueIs', OwnerIs', NEW t \in Threads, Spin(t)
  PROVE  FIFO!Enter(t)
<1>1. /\ Word \in Nat /\ turn \in Words /\ my \in [Threads -> Words]
      /\ pc \in [Threads -> Places]
  BY LockAssumption DEF IInv, TypeOK
<1>2. /\ turn' = turn /\ ticket' = ticket /\ my' = my /\ my[t] = turn
      /\ pc[t] = "spin" /\ pc' = [pc EXCEPT ![t] = "read"]
  BY DEF Spin, Goto, MyTurn
<1>3. /\ Active(t) /\ ~Inside(t) /\ Inside(t)'
      /\ \A u \in Threads : Active(u)' <=> Active(u)
  BY <1>1, <1>2 DEF Active, Inside
<1>4. Given' = Given /\ \A u \in Threads : Ahead(my[u])' = Ahead(my[u])
  BY <1>2 DEF Given, Ahead
<1>5. Queue' = Queue
  BY <1>3, <1>4, SameQueue
<1>6. Owner = None
  <2>1. \A u \in Threads : ~Inside(u)
    BY <1>2, <1>3 DEF IInv, InsideHasTurn, TicketsDiffer, Inside, Active
  <2> QED
    BY <2>1 DEF OwnerIs
<1>7. Owner' = t
  BY <1>3 DEF OwnerIs
<1>8. Queue # <<>> /\ Head(Queue) = t
  <2>1. Ahead(my[t]) = 0
    BY <1>1, <1>2, AheadRange
  <2>2. 1 \in 1 .. Given /\ t = Queue[1]
    BY <1>3, <2>1 DEF QueueIs
  <2>3. Queue \in Seq(Threads) /\ Len(Queue) = Given /\ Given # 0
    BY <2>2 DEF QueueIs
  <2> QED
    BY <2>2, <2>3, EmptySeq
<1> QED
  BY <1>5, <1>6, <1>7, <1>8 DEF FIFO!Enter

\* The work inside is no business of the lock.
LEMMA WorkStutters ==
  ASSUME IInv, QueueIs, OwnerIs, QueueIs', OwnerIs', NEW t \in Threads,
         Read(t) \/ Write(t)
  PROVE  UNCHANGED <<Queue, Owner>>
<1>1. /\ turn' = turn /\ ticket' = ticket /\ my' = my
      /\ pc[t] \in {"read", "write"}
      /\ \E place \in {"write", "release"} : pc' = [pc EXCEPT ![t] = place]
  BY DEF Read, Write, Goto
<1>2. pc \in [Threads -> Places]
  BY DEF IInv, TypeOK
<1>3. /\ Inside(t) /\ Inside(t)'
      /\ \A u \in Threads : Active(u)' <=> Active(u)
  BY <1>1, <1>2 DEF Active, Inside
<1>4. Given' = Given /\ \A u \in Threads : Ahead(my[u])' = Ahead(my[u])
  BY <1>1 DEF Given, Ahead
<1>5. Queue' = Queue
  BY <1>3, <1>4, SameQueue
<1>6. Owner = t /\ Owner' = t
  BY <1>3 DEF OwnerIs
<1> QED
  BY <1>5, <1>6

\* The thread inside leaves and takes the head of the queue with it.
LEMMA ReleaseLeaves ==
  ASSUME IInv, QueueIs, OwnerIs, QueueIs', OwnerIs', NEW t \in Threads, Release(t)
  PROVE  FIFO!Leave(t)
<1>1. /\ Word \in Nat /\ turn \in Words /\ ticket \in Words
      /\ my \in [Threads -> Words] /\ pc \in [Threads -> Places]
  BY LockAssumption DEF IInv, TypeOK
<1>2. /\ pc[t] = "release" /\ pc' = [pc EXCEPT ![t] = "idle"]
      /\ my' = my /\ ticket' = ticket /\ turn' = Add1(turn)
  BY DEF Release, NextTurn, Goto
<1>3. my[t] = turn /\ Active(t) /\ Inside(t)
  BY <1>2 DEF IInv, InsideHasTurn, Inside, Active
<1>4. Ahead(my[t]) = 0 /\ Given \in Nat /\ 0 < Given
  <2>1. Ahead(my[t]) = 0 /\ Given \in Nat
    BY <1>1, <1>3, AheadRange DEF QueueIs
  <2>2. Ahead(my[t]) < Given
    BY <1>3 DEF IInv, TicketsGiven
  <2> QED
    BY <2>1, <2>2
<1>5. \A x \in Words : Ahead(x) # 0 =>
        (IF x >= turn' THEN x - turn' ELSE x - turn' + Word) = Ahead(x) - 1
  BY <1>1, <1>2 DEF Ahead, Add1, Words
<1>6. Given' = Given - 1
  BY <1>1, <1>2, <1>4, <1>5 DEF Given, Ahead
<1>7. \A u \in Threads : /\ Active(u)' <=> Active(u) /\ u # t
                         /\ ~Inside(u)'
  <2>1. \A u \in Threads : Inside(u) => u = t
    BY <1>3 DEF IInv, InsideHasTurn, TicketsDiffer, Inside, Active
  <2> QED
    BY <1>1, <1>2, <2>1 DEF Active, Inside
<1>8. /\ Queue \in Seq(Threads) /\ Len(Queue) = Given
      /\ Queue' \in Seq(Threads) /\ Len(Queue') = Given - 1
  BY <1>6 DEF QueueIs
<1>9. Queue # <<>>
  BY <1>4, <1>8, EmptySeq
<1>10. /\ Tail(Queue) \in Seq(Threads) /\ Len(Tail(Queue)) = Given - 1
       /\ \A i \in 1 .. Given - 1 : Tail(Queue)[i] = Queue[i + 1]
  BY <1>8, <1>9, HeadTailProperties
<1>11. ASSUME NEW i \in 1 .. Given - 1 PROVE Queue'[i] = Tail(Queue)[i]
  <2>1. i + 1 \in 1 .. Given /\ i - 1 >= 0 /\ i \in Nat
    BY <1>4
  <2>2. PICK u \in Threads : /\ u = Queue[i + 1] /\ Active(u)
                            /\ Ahead(my[u]) = i
    <3>1. Queue[i + 1] \in Threads
      BY <1>8, <2>1
    <3>2. Active(Queue[i + 1]) /\ Ahead(my[Queue[i + 1]]) = i + 1 - 1
      BY <2>1 DEF QueueIs
    <3> QED
      BY <2>1, <3>1, <3>2
  <2>3. my[u] \in Words /\ Ahead(my[u]) # 0
    BY <1>1, <2>1, <2>2
  <2>4. Ahead(my[u])' = i - 1
    BY <1>2, <1>5, <2>2, <2>3 DEF Ahead
  <2>5. Active(u)'
    BY <1>4, <1>7, <2>2, <2>3
  <2>6. i \in 1 .. Given'
    BY <1>6
  <2>7. u = Queue'[i]
    BY <2>2, <2>4, <2>5, <2>6 DEF QueueIs
  <2> QED
    BY <1>10, <2>2, <2>7
<1>12. Queue' = Tail(Queue)
  BY <1>8, <1>10, <1>11, SeqEqual
<1>13. Owner = t /\ Owner' = None
  BY <1>3, <1>7 DEF OwnerIs
<1> QED
  BY <1>12, <1>13 DEF FIFO!Leave

LEMMA FifoStep ==
  IInv /\ QueueIs /\ OwnerIs /\ QueueIs' /\ OwnerIs' /\ [Next]_vars
    => [FIFO!Next]_<<Queue, Owner>>
<1> SUFFICES ASSUME IInv, QueueIs, OwnerIs, QueueIs', OwnerIs', [Next]_vars
             PROVE  FIFO!Next \/ UNCHANGED <<Queue, Owner>>
  OBVIOUS
<1>1. CASE \E t \in Threads : Step(t)
  <2>1. PICK t \in Threads : Step(t)
    BY <1>1
  <2>2. \/ FIFO!Ask(t) \/ FIFO!Enter(t) \/ FIFO!Leave(t)
        \/ UNCHANGED <<Queue, Owner>>
    BY <2>1, DrawAsks, SpinEnters, WorkStutters, ReleaseLeaves DEF Step
  <2> QED
    BY <2>2 DEF FIFO!Next
<1>2. CASE UNCHANGED vars
  <2>1. /\ Given' = Given
        /\ \A u \in Threads : /\ Active(u)' <=> Active(u)
                              /\ Inside(u)' <=> Inside(u)
                              /\ Ahead(my[u])' = Ahead(my[u])
    BY <1>2 DEF vars, Given, Ahead, Active, Inside
  <2>2. Queue' = Queue
    BY <2>1, SameQueue
  <2>3. Owner' = Owner
    <3>1. CASE \E u \in Threads : Inside(u)
      BY <2>1, <3>1 DEF OwnerIs
    <3>2. CASE ~ \E u \in Threads : Inside(u)
      BY <2>1, <3>2 DEF OwnerIs
    <3> QED
      BY <3>1, <3>2
  <2> QED
    BY <2>2, <2>3
<1> QED
  BY <1>1, <1>2 DEF Next

-----------------------------------------------------------------------------
\* The tickets of the active threads are the given ones, in every state.
THEOREM Invariance == Spec => []IInv
  BY InitIInv, NextIInv, PTL DEF Spec

\* lock_acquire and lock_release never let two threads in.
THEOREM Exclusion == Spec => []MutualExclusion
<1>1. IInv => MutualExclusion
  BY DEF IInv, MutualExclusion, InsideHasTurn, TicketsDiffer, Inside, Active
<1> QED
  BY <1>1, Invariance, PTL

\* Threads enter in the order in which they drew their tickets, also when the
\* counters wrap: the ticket lock implements the first-come first-served lock.
THEOREM FirstComeFirstServed == Spec => ServedInOrder
<1>1. Init => FIFO!Init
  BY FifoInit
<1>2. IInv => QueueIs /\ OwnerIs
  BY QueueAndOwner
<1>3. IInv /\ QueueIs /\ OwnerIs /\ QueueIs' /\ OwnerIs' /\ [Next]_vars
        => [FIFO!Next]_(FIFO!fifoVars)
  BY FifoStep DEF FIFO!fifoVars
<1>4. Spec => [](QueueIs /\ OwnerIs)
  BY <1>2, Invariance, PTL
<1> QED
  BY <1>1, <1>3, <1>4, Invariance, PTL DEF Spec, ServedInOrder, FIFO!Spec
=============================================================================
