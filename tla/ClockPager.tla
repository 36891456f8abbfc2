------------------------------ MODULE ClockPager ------------------------------
(***************************************************************************)
(* The memory encryption pager of P4 for one process: page-table bits, the *)
(* contents of the pages (flipped or not), the clock queue of decrypted    *)
(* pages and its hand; page faults, sbrk, exec and the mencrypt call.  The *)
(* fault handler runs with interrupts off, one turn of insertQueue's loop  *)
(* is one step.  fork copies all of this state, so the child behaves like  *)
(* the parent.                                                             *)
(***************************************************************************)
EXTENDS Integers, FiniteSets, FiniteSetsExt, Sequences, SequencesExt

CONSTANTS
  N,           \* CLOCKSIZE
  MaxPages,    \* bound: the heap does not grow past this page
  PGSIZE,
  GrowArgs,    \* byte counts passed to sbrk, positive and negative
  MencryptArgs \* <<first page, len>> that user programs pass to mencrypt

PagerAssumption ==
  /\ N \in Nat \ {0} /\ PGSIZE \in Nat \ {0}
  /\ MaxPages \in Nat /\ MaxPages > 3
  /\ GrowArgs \subseteq Int
  /\ MencryptArgs \subseteq Nat \X Nat

VARIABLES
  mem,      \* the PTE bits P, E, A and the parity of each page's contents
  vpn,      \* clockQueue[i].vpn, -1 when the slot is free
  hand,     \* clockIndex
  sz,       \* p->sz in bytes
  fault,    \* the page whose fault insertQueue handles, -1 in user mode
  careless  \* history: since exec the program has encrypted a page of its
            \* working set or called sbrk with a part of a page

vars == <<mem, vpn, hand, sz, fault, careless>>

Pages == 0 .. MaxPages - 1
Ring == 0 .. N - 1
Guard == 1      \* the inaccessible page under the stack (clearpteu)
ExecPages == 3  \* text, guard, stack

Mapped(m) == m.present \cup m.enc
UserPages(m) == Mapped(m) \ {Guard}
Cleartext(m) == UserPages(m) \ m.enc

Queued == {vpn[i] : i \in Ring} \ {-1}

TypeOK ==
  /\ mem \in [present : SUBSET Pages, enc : SUBSET Pages, acc : SUBSET Pages,
              flipped : SUBSET Pages]
  /\ vpn \in [Ring -> Pages \cup {-1}]
  /\ hand \in Ring \cup {-1}
  /\ sz \in 0 .. MaxPages * PGSIZE
  /\ fault \in Pages \cup {-1}
  /\ careless \in BOOLEAN

-----------------------------------------------------------------------------
(* mencrypt and mdecrypt on the page table and the contents                *)

Toggle(S, T) == (S \ T) \cup (T \ S)

\* mencrypt of the pages of S: those that uva2ka cannot reach and those
\* encrypted already are skipped.
ToEncryptAgain(m, S) == S \cap UserPages(m)
ToEncrypt(m, S) == (S \cap UserPages(m)) \ m.enc
Encrypt(m, S) ==
  [m EXCEPT !.present = @ \ ToEncrypt(m, S),
            !.enc = @ \cup ToEncrypt(m, S),
            !.flipped = Toggle(@, ToEncrypt(m, S))]

\* mdecrypt applies to an encrypted page that is not present.
Decryptable(m, v) == v \in UserPages(m) /\ v \in m.enc /\ v \notin m.present
Decrypt(m, v) ==
  [m EXCEPT !.present = @ \cup {v}, !.enc = @ \ {v}, !.flipped = Toggle(@, {v})]

-----------------------------------------------------------------------------
\* exec: all pages but the guard page are encrypted, the queue is empty.
Fresh == [present |-> {Guard}, enc |-> {0, 2}, acc |-> {}, flipped |-> {0, 2}]

Init ==
  /\ mem = Fresh
  /\ vpn = [i \in Ring |-> -1]
  /\ hand = -1
  /\ sz = ExecPages * PGSIZE
  /\ fault = -1
  /\ careless = FALSE

Exec ==
  /\ fault = -1
  /\ mem' = Fresh
  /\ vpn' = [i \in Ring |-> -1]
  /\ hand' = -1
  /\ sz' = ExecPages * PGSIZE
  /\ careless' = FALSE
  /\ UNCHANGED fault

\* An access to a page that is present: the processor sets PTE_A unless the
\* TLB holds the translation.
Touch(v) ==
  /\ fault = -1
  /\ v \in Cleartext(mem)
  /\ mem' = [mem EXCEPT !.acc = @ \cup {v}]
  /\ UNCHANGED <<vpn, hand, sz, fault, careless>>

\* An access to an encrypted page: trap() calls mdecrypt, which decrypts it
\* and calls insertQueue.
Fault(v) ==
  /\ fault = -1
  /\ Decryptable(mem, v)
  /\ mem' = Decrypt(mem, v)
  /\ fault' = v
  /\ UNCHANGED <<vpn, hand, sz, careless>>

-----------------------------------------------------------------------------
(* insertQueue                                                             *)

Next1(i) == (i + 1) % N

\* insertQueue ends with mdecrypt(vpn): nothing to do when the page is in
\* cleartext, the whole of mdecrypt and insertQueue again when the victim
\* was the page itself.  The access is then made, and sets PTE_A.
Inserted(m) ==
  IF Decryptable(m, fault)
  THEN mem' = Decrypt(m, fault) /\ UNCHANGED fault
  ELSE mem' = [m EXCEPT !.acc = @ \cup {fault}] /\ fault' = -1

InsertFree ==
  /\ fault # -1
  /\ vpn[Next1(hand)] = -1
  /\ vpn' = [vpn EXCEPT ![Next1(hand)] = fault]
  /\ hand' = Next1(hand)
  /\ Inserted(mem)
  /\ UNCHANGED <<sz, careless>>

VictimOut(m, v) == Encrypt(m, {v})
Evict ==
  /\ fault # -1
  /\ vpn[Next1(hand)] \notin mem.acc \cup {-1}
  /\ vpn' = [vpn EXCEPT ![Next1(hand)] = fault]
  /\ hand' = Next1(hand)
  /\ Inserted(VictimOut(mem, vpn[Next1(hand)]))
  /\ UNCHANGED <<sz, careless>>

AccKept(m, v) == m
AccCleared(m, v) == [m EXCEPT !.acc = @ \ {v}]
PassOver ==
  /\ fault # -1
  /\ vpn[Next1(hand)] \in mem.acc
  /\ mem' = AccCleared(mem, vpn[Next1(hand)])
  /\ hand' = Next1(hand)
  /\ UNCHANGED <<vpn, sz, fault, careless>>

-----------------------------------------------------------------------------
(* removeQueue                                                             *)

\* The first slot from the hand on that holds v; the slots from there to
\* the hand move up, and the hand moves back.  (mencrypt of the page does
\* nothing: deallocuvm has cleared its PTE.)
HandStays(h) == h
HandBack(h) == IF h = 0 THEN N - 1 ELSE h - 1
RemoveQueue(q, v) ==
  LET found == {i \in Ring : q.vpn[(q.hand + i) % N] = v}
      back(j) == (q.hand - j + N) % N   \* slots from j to the hand
      match == (q.hand + Min(found)) % N
  IN  IF found = {} THEN q
      ELSE [vpn |-> [j \in Ring |->
                       IF j = q.hand THEN -1
                       ELSE IF back(j) <= back(match) THEN q.vpn[Next1(j)]
                       ELSE q.vpn[j]],
            hand |-> HandBack(q.hand)]

-----------------------------------------------------------------------------
(* sbrk                                                                    *)

PageUp(b) == (b + PGSIZE - 1) \div PGSIZE

\* A process that makes a call has touched its text (hand # -1).
Grow(n) ==
  /\ fault = -1 /\ hand # -1
  /\ n > 0 /\ sz + n <= MaxPages * PGSIZE   \* bound
  /\ LET new == PageUp(sz) .. PageUp(sz + n) - 1
         m == [mem EXCEPT !.present = @ \cup new]
     IN  mem' = Encrypt(m, (sz \div PGSIZE) .. (sz \div PGSIZE + n \div PGSIZE - 1))
  /\ sz' = sz + n
  /\ careless' = (careless \/ n % PGSIZE # 0)
  /\ UNCHANGED <<vpn, hand, fault>>

\* deallocuvm first, then removeQueue for every page above the new size.
\* Bound: the process keeps its stack.
Shrink(n) ==
  /\ fault = -1 /\ hand # -1
  /\ n > 0 /\ sz - n >= ExecPages * PGSIZE
  /\ LET freed == PageUp(sz - n) .. PageUp(sz) - 1
         down  == Reverse(SetToSortSeq(freed, LAMBDA a, b : a < b))
         q     == FoldLeft(RemoveQueue, [vpn |-> vpn, hand |-> hand], down)
     IN  /\ mem' = [present |-> mem.present \ freed, enc |-> mem.enc \ freed,
                    acc |-> mem.acc \ freed, flipped |-> mem.flipped \ freed]
         /\ vpn' = q.vpn
         /\ hand' = q.hand
  /\ sz' = sz - n
  /\ careless' = (careless \/ n % PGSIZE # 0)
  /\ UNCHANGED fault

\* The system call mencrypt(va, len).
Mencrypt(first, len) ==
  /\ fault = -1 /\ hand # -1
  /\ first < PageUp(sz) /\ len > 0
  /\ LET range == first .. first + len - 1 IN
       /\ mem' = Encrypt(mem, range)
       /\ careless' = (careless \/ ToEncrypt(mem, range) \cap Queued # {})
  /\ UNCHANGED <<vpn, hand, sz, fault>>

-----------------------------------------------------------------------------
Handler == InsertFree \/ Evict \/ PassOver

Next ==
  \/ Handler \/ Exec
  \/ \E v \in Pages : Touch(v) \/ Fault(v)
  \/ \E n \in GrowArgs : Grow(n) \/ Shrink(-n)
  \/ \E a \in MencryptArgs : Mencrypt(a[1], a[2])

Spec == Init /\ [][Next]_vars

\* The handler is kernel code with interrupts off: it runs on.
FairSpec == Spec /\ WF_vars(Handler)

-----------------------------------------------------------------------------
(* Properties                                                              *)

\* The contents of a page are flipped exactly when its PTE says encrypted
\* and not present, whatever mencrypt, mdecrypt, eviction and sbrk did.  And
\* "the clock queue is a queue-like structure storing all the virtual pages
\* that are currently decrypted": between faults it holds each of them once
\* and nothing else, so that at most N pages are in cleartext, unless the
\* program was careless.
ContentsMatchPte ==
  /\ TypeOK
  /\ \A v \in UserPages(mem) : /\ v \in mem.enc <=> v \in mem.flipped
                               /\ v \in mem.enc <=> v \notin mem.present
  /\ fault = -1 /\ ~careless =>
       /\ Queued = Cleartext(mem)
       /\ \A i, j \in Ring : vpn[i] = vpn[j] /\ vpn[i] # -1 => i = j

\* The ring, read from the slot after the hand, is the queue of the clock
\* algorithm: insertQueue and removeQueue keep FIFO order and second chances.
\* The queue of a careless program counts as empty.
ClockOrder == [i \in 1 .. N |-> vpn[(hand + i) % N]]
Clock == INSTANCE SecondChance WITH
           queue <- IF careless THEN <<>>
                    ELSE SelectSeq(ClockOrder, LAMBDA v : v # -1),
           ref <- IF careless THEN {} ELSE mem.acc \cap Queued
ClockAlgorithm == Clock!Spec

\* Every fault is handled: insertQueue finds a slot and the process resumes,
\* unless the program was careless.
FaultReturns == fault # -1 ~> fault = -1 \/ careless
=============================================================================
