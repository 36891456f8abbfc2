------------------------------ MODULE PagerTests ------------------------------
(***************************************************************************)
(* The test programs of P4 as scripts over ClockPager.  A program is       *)
(* loaded with one page of text (page 0), the guard (1) and a stack (2);   *)
(* every line of it needs text and stack, so that faults on these come     *)
(* between the lines.  The tests are written for the CLOCKSIZE of          *)
(* param_old.h.                                                            *)
(***************************************************************************)
EXTENDS ClockPager

VARIABLES
  todo,  \* the lines that are left
  seen   \* what getpgtable returned last: pages, and those with PTE_E

testVars == <<vars, todo, seen>>

Text == 0
Stack == 2

Touches(pages) == [i \in DOMAIN pages |-> [op |-> "touch", page |-> pages[i]]]
Sbrk(n) == <<[op |-> "sbrk", pages |-> n]>>
Evicted(v) == <<[op |-> "evicted", page |-> v]>>
Kept(v) == <<[op |-> "kept", page |-> v]>>
Fork(child) == <<[op |-> "fork", child |-> child]>>

\* getpgtable and the loop over the entries it fills in: the test expects so
\* many, of which those in enc must be encrypted and those in clear not; it
\* dumps each page to the buffer.
Getpgtable(num, wsetOnly, expected, enc, clear, buffer) ==
  <<[op |-> "getpgtable", num |-> num, wsetOnly |-> wsetOnly],
    [op |-> "expect", count |-> expected, enc |-> enc, clear |-> clear]>>
  \o Touches(<<buffer>>)

-----------------------------------------------------------------------------
(* The programs                                                            *)

test_1 ==
  Sbrk(1) \o Sbrk(100) \o Touches(<<Text, Stack, 3>>)
  \o Getpgtable(100, 1, 3, {}, {}, 3)

\* The heap is grown up to the buffer at 0x6000 first.
To6000 == Sbrk(1) \o Sbrk(1) \o Sbrk(1) \o Sbrk(1)
test_2 == To6000 \o Sbrk(64) \o Getpgtable(64, 0, 64, {}, {}, 6)
test_3 == To6000 \o Sbrk(1) \o Getpgtable(1, 0, 1, {7}, {}, 6)
test_4 == To6000 \o Sbrk(64) \o Getpgtable(64, 0, 64, 7 .. 70, {}, 6)
test_5 == test_3 \o Touches(<<7>>) \o Getpgtable(1, 0, 1, {}, {7}, 6)

\* The other tests have a buffer, two dummy pages and a heap that fills the
\* queue, and touch one page more than the queue has room for.
Dummies == Touches(<<Text, Stack, 4, 5, 3>>)
Prologue == Sbrk(1) \o Sbrk(1) \o Sbrk(1) \o Dummies \o Sbrk(3)
Extra == Sbrk(1) \o Touches(<<9>>)
test_7 == Prologue \o Touches(<<6, 7, 8>>) \o Getpgtable(3, 0, 3, {}, {}, 3)
test_8 == Prologue \o Touches(<<7, 6, 7, 8>>) \o Extra \o Dummies
          \o Evicted(7) \o Getpgtable(4, 0, 4, {}, {}, 3)
test_9 == Prologue \o Touches(<<6, 8, 7>>) \o Extra \o Touches(<<6>>) \o Dummies
          \o Kept(6) \o Evicted(8) \o Getpgtable(4, 0, 4, {}, {}, 3)
test_10 == Prologue \o Touches(<<6, 7, 8>>) \o Extra \o Sbrk(-1) \o Dummies
           \o Kept(6) \o Kept(7) \o Kept(8) \o Sbrk(1) \o Getpgtable(3, 1, 3, {}, {}, 3)
test_11 == Prologue \o Touches(<<7, 8, 7, 6>>) \o Extra \o Dummies
           \o Fork(Getpgtable(4, 0, 4, {}, {}, 3))
test_12 == Prologue \o Touches(<<6, 7, 8>>) \o Extra \o Dummies
           \o Fork(Getpgtable(4, 0, 4, {}, {}, 3))
           \o Touches(<<6>>) \o Dummies \o Getpgtable(4, 0, 4, {}, {}, 3)
test_13 == Prologue \o Touches(<<6, 7, 8>>) \o Extra
           \o Fork(Dummies \o Sbrk(-3) \o Sbrk(3) \o Touches(<<6>>)
                   \o Getpgtable(1, 1, 1, {}, {}, 3))
           \o Dummies \o Getpgtable(4, 0, 4, {}, {}, 3)

Tests == {test_1, test_2, test_3, test_4, test_5, test_7, test_8, test_9,
          test_10, test_11, test_12, test_13}

-----------------------------------------------------------------------------
NothingSeen == [pages |-> {}, enc |-> {}]

TestInit == Init /\ todo \in Tests /\ seen = NothingSeen

\* An instruction is fetched, an operand on the stack used.
Runs ==
  /\ \E v \in {Text, Stack} :
       Fault(v) \/ (v \notin mem.acc /\ Touch(v))
  /\ UNCHANGED <<todo, seen>>
InCore == {Text, Stack} \subseteq Cleartext(mem) \cap mem.acc

\* The entries are filled from the highest page of the process down; the page
\* after the last is looked at too and page 0 is not.
Entries(num, wsetOnly) ==
  LET valid == {v \in 1 .. sz \div PGSIZE :
                  IF wsetOnly = 1 THEN v \in mem.present \ mem.enc
                  ELSE v \in Mapped(mem)}
  IN  {v \in valid : Cardinality({w \in valid : w > v}) < num}

Line(op) == todo # <<>> /\ fault = -1 /\ InCore /\ Head(todo).op = op
Done == todo' = Tail(todo)

TouchLine ==
  /\ Line("touch")
  /\ \/ Fault(Head(todo).page) /\ UNCHANGED todo   \* and the line once more
     \/ Touch(Head(todo).page) /\ Done
  /\ UNCHANGED seen

SbrkLine ==
  /\ Line("sbrk")
  /\ Grow(Head(todo).pages * PGSIZE) \/ Shrink(- Head(todo).pages * PGSIZE)
  /\ Done /\ UNCHANGED seen

\* The child has a copy of everything: what is checked is either of the two.
ForkLine ==
  /\ Line("fork")
  /\ Done \/ todo' = Head(todo).child
  /\ UNCHANGED <<vars, seen>>

GetpgtableLine ==
  /\ Line("getpgtable")
  /\ LET e == Entries(Head(todo).num, Head(todo).wsetOnly)
     IN  seen' = [pages |-> e, enc |-> e \cap mem.enc]
  /\ Done /\ UNCHANGED vars

CheckLine ==
  /\ todo # <<>> /\ Head(todo).op \in {"expect", "evicted", "kept"}
  /\ Done /\ UNCHANGED <<vars, seen>>

TestNext ==
  \/ Runs \/ TouchLine \/ SbrkLine \/ ForkLine \/ GetpgtableLine \/ CheckLine
  \/ Handler /\ UNCHANGED <<todo, seen>>

-----------------------------------------------------------------------------
\* The tests print what they should, however their faults on text and stack
\* fall: the entries are as many as expected, the dumped pages are flipped
\* exactly when their entries say encrypted, and the pages that a comment
\* says are evicted or kept are.
TestsPass ==
  todo # <<>> /\ InCore =>
    LET check == Head(todo) IN
    CASE check.op = "expect" ->
           /\ Cardinality(seen.pages) = check.count
           /\ seen.pages \cap mem.flipped = seen.enc
           /\ check.enc \subseteq seen.enc
           /\ check.clear \subseteq seen.pages \ seen.enc
      [] check.op = "evicted" -> check.page \in mem.enc
      [] check.op = "kept" -> check.page \notin mem.enc
      [] OTHER -> TRUE
=============================================================================
