------------------------------ MODULE Pipe_proofs ------------------------------
(***************************************************************************)
(* A pipe is a queue of bytes (ByteStream) whatever its size and the width *)
(* of its counters, no end is closed under its holder, and nobody sleeps   *)
(* on what has happened, for any number of processes that share it.        *)
(***************************************************************************)
EXTENDS Pipe, FiniteSetTheorems, SequenceTheorems, TLAPS

\* f->ref counts the processes that hold an end; the end is open until the one
\* that drops the last reference has closed it.
Holders(e) == {p \in Procs : e \in fds[p]}
RefInv ==
  /\ \A e \in Ends : ref[e] = Cardinality(Holders(e))
  /\ \A e \in Ends : e \in open <=> ~Abandoned(e)
  /\ \A p, q \in Procs : \A e \in shut[p] : ref[e] = 0 /\ (e \in shut[q] => p = q)
  /\ \A p \in Procs : \A e, f \in shut[p] : e = f
  /\ freed <=> open = {}

\* What a process has open where it is, and who keeps p->lock.
PlaceOf(p) ==
  /\ pc[p] \notin {"close", "exit"} => todo[p] = {} /\ shut[p] = {}
  /\ pc[p] = "none" => fds[p] = {}
  /\ pc[p] = "close" => todo[p] \subseteq fds[p]
  /\ pc[p] = "exit" => todo[p] = fds[p]
  /\ pc[p] \in {"read", "readsleep", "readasleep"} => "r" \in fds[p]
  /\ pc[p] \in {"write", "writesleep", "writeasleep"} => "w" \in fds[p]
AtLock == {p \in Procs : pc[p] \in {"readsleep", "writesleep"}}
PlaceInv ==
  /\ \A p \in Procs : PlaceOf(p)
  /\ lock = AtLock
  /\ \A p, q \in AtLock : p = q

\* Who sleeps, or is about to, has somebody to wait for.
SleepsFor(p) ==
  /\ pc[p] \in {"readsleep", "readasleep"} => "w" \in open /\ (kills = 0 => Empty)
  /\ pc[p] \in {"writesleep", "writeasleep"} => "r" \in open /\ (kills = 0 => Full)
SleepInv ==
  /\ kills = 0 => killed = {}
  /\ \A p \in Procs : SleepsFor(p)

IInv == TypeOK /\ Used <= PIPESIZE /\ RefInv /\ PlaceInv /\ SleepInv

-----------------------------------------------------------------------------
(* Remainders                                                              *)

LEMMA Quotient ==
  ASSUME NEW n \in Nat \ {0}, NEW a \in Nat
  PROVE  \E q \in Int : a = q * n + (a % n)
<1>1. n \in Nat /\ n > 0
  OBVIOUS
<1>2. a \div n \in Int
  BY <1>1
<1>3. a = (a \div n) * n + (a % n)
  BY <1>1, SMTT(30)
<1> QED BY <1>2, <1>3

LEMMA Remainder ==
  ASSUME NEW n \in Nat \ {0}, NEW a \in Int, NEW q \in Int, NEW r \in 0 .. n - 1, a = q * n + r
  PROVE  a % n = r
OBVIOUS

LEMMA ModRange ==
  ASSUME NEW n \in Nat \ {0}, NEW a \in Int
  PROVE  a % n \in 0 .. n - 1
OBVIOUS

LEMMA Gap ==
  ASSUME NEW n \in Nat \ {0}, NEW q \in Int, q * n < n, q * n > 0 - n
  PROVE  q = 0
<1>1. CASE q >= 1
  <2>1. q * n >= n
     BY <1>1
  <2> QED BY <2>1
<1>2. CASE q <= -1
  <2>1. q * n <= -n
     BY <1>2
  <2> QED BY <2>1
<1> QED BY <1>1, <1>2

LEMMA SameRemainder ==
  ASSUME NEW n \in Nat \ {0}, NEW a \in Nat, NEW q \in Nat
  PROVE  (a + q * n) % n = a % n
<1>1. PICK k \in Int : a = k * n + (a % n)
  BY Quotient
<1>2. a % n \in 0 .. n - 1
  BY ModRange
<1> DEFINE r == a % n
<1>3. a = k * n + r /\ r \in 0 .. n - 1
  BY <1>1, <1>2
<1> HIDE DEF r
<1>4. a + q * n = (k + q) * n + r
  BY <1>3
<1>5. k + q \in Int /\ a + q * n \in Int
  OBVIOUS
<1> QED BY <1>3, <1>4, <1>5, Remainder DEF r

LEMMA DifferentRemainders ==
  ASSUME NEW n \in Nat \ {0}, NEW a \in Nat, NEW b \in Nat, a < b, b < a + n
  PROVE  a % n # b % n
<1> SUFFICES ASSUME a % n = b % n PROVE FALSE
  OBVIOUS
<1>1. PICK k \in Int : a = k * n + (a % n)
  BY Quotient
<1>2. PICK l \in Int : b = l * n + (b % n)
  BY Quotient
<1> DEFINE r == a % n
<1>3. a = k * n + r /\ b = l * n + r /\ r \in Int
  BY <1>1, <1>2, ModRange
<1> HIDE DEF r
<1>4. b - a = (l - k) * n
  BY <1>3
<1>5. l - k = 0
  <2>1. l - k \in Int /\ (l - k) * n < n /\ (l - k) * n > 0 - n
    BY <1>4
  <2> QED BY <2>1, Gap
<1> QED BY <1>4, <1>5

-----------------------------------------------------------------------------
(* The counters and the ring                                               *)

LEMMA WordTypes == PIPESIZE \in Nat \ {0} /\ Word \in Nat \ {0} /\ PIPESIZE < Word
BY PipeAssumption

LEMMA WordMultiple == \E q \in Nat : Word = q * PIPESIZE
<1>1. PIPESIZE \in Nat \ {0} /\ Word \in Nat \ {0} /\ PIPESIZE < Word
         /\ Word % PIPESIZE = 0
  BY PipeAssumption
<1>2. PICK q \in Int : Word = q * PIPESIZE + (Word % PIPESIZE)
  BY <1>1, Quotient
<1>3. Word = q * PIPESIZE
  BY <1>1, <1>2
<1>4. q >= 0
  <2>1. CASE q < 0
    <3>1. q * PIPESIZE <= 0
      BY <1>1, <2>1
    <3> QED BY <1>1, <1>3, <3>1
  <2> QED BY <2>1
<1> QED BY <1>1, <1>3, <1>4

LEMMA AddWord ==
  ASSUME NEW x \in 0 .. Word - 1, NEW k \in 0 .. Word
  PROVE  (x + k) % Word = IF x + k < Word THEN x + k ELSE x + k - Word
<1>1. CASE x + k < Word
  BY <1>1, WordTypes, Remainder
<1>2. CASE x + k >= Word
  <2>1. x + k = 1 * Word + (x + k - Word) /\ x + k - Word \in 0 .. Word - 1
    BY <1>2, WordTypes
  <2> QED BY <1>2, <2>1, WordTypes, Remainder
<1> QED BY <1>1, <1>2, WordTypes

LEMMA UsedIs ==
  ASSUME NEW r \in 0 .. Word - 1, NEW w \in 0 .. Word - 1
  PROVE  (w - r + Word) % Word = IF w >= r THEN w - r ELSE w - r + Word
<1>1. CASE w >= r
  <2>1. w - r + Word = 1 * Word + (w - r) /\ w - r \in 0 .. Word - 1
    BY <1>1, WordTypes
  <2> QED BY <1>1, <2>1, WordTypes, Remainder
<1>2. CASE w < r
  <2>1. w - r + Word = 0 * Word + (w - r + Word) /\ w - r + Word \in 0 .. Word - 1
    BY <1>2, WordTypes
  <2> QED BY <1>2, <2>1, WordTypes, Remainder
<1> QED BY <1>1, <1>2, WordTypes

\* A place of the ring may be reached from either side of a wrap.
LEMMA SamePlace ==
  ASSUME NEW a \in Nat
  PROVE  (a + Word) % PIPESIZE = a % PIPESIZE
<1>1. PICK q \in Nat : Word = q * PIPESIZE
  BY WordMultiple
<1> QED BY <1>1, WordTypes, SameRemainder

LEMMA PlacesDiffer ==
  ASSUME NEW a \in Nat, NEW b \in Nat, a < b + PIPESIZE, b < a + PIPESIZE, a # b
  PROVE  a % PIPESIZE # b % PIPESIZE
<1>1. CASE a < b
  BY <1>1, WordTypes, DifferentRemainders
<1>2. CASE b < a
  BY <1>2, WordTypes, DifferentRemainders
<1> QED BY <1>1, <1>2

\* nwrite is Used bytes after nread.
LEMMA WritePlace ==
  ASSUME NEW r \in 0 .. Word - 1, NEW w \in 0 .. Word - 1, NEW i \in Nat
  PROVE  (w + i) % PIPESIZE = (r + ((w - r + Word) % Word) + i) % PIPESIZE
<1>1. CASE w >= r
  <2>1. r + ((w - r + Word) % Word) + i = w + i
    BY <1>1, UsedIs
  <2> QED BY <2>1
<1>2. CASE w < r
  <2>1. r + ((w - r + Word) % Word) + i = (w + i) + Word
    BY <1>2, UsedIs, WordTypes
  <2> QED BY <2>1, SamePlace
<1> QED BY <1>1, <1>2

LEMMA UsedType ==
  ASSUME TypeOK
  PROVE  /\ Used \in 0 .. Word - 1
         /\ Empty <=> Used = 0
         /\ Full <=> Used = PIPESIZE
<1>1. nread \in 0 .. Word - 1 /\ nwrite \in 0 .. Word - 1
  BY DEF TypeOK
<1>2. Used = IF nwrite >= nread THEN nwrite - nread ELSE nwrite - nread + Word
  BY <1>1, UsedIs DEF Used
<1>3. (nread + PIPESIZE) % Word =
         IF nread + PIPESIZE < Word THEN nread + PIPESIZE ELSE nread + PIPESIZE - Word
  BY <1>1, AddWord, WordTypes
<1> QED BY <1>1, <1>2, <1>3, WordTypes DEF Empty, Full

LEMMA PutPlace ==
  ASSUME TypeOK, NEW i \in Nat
  PROVE  PutAt(i) = (nread + Used + i) % PIPESIZE
<1>1. nread \in 0 .. Word - 1 /\ nwrite \in 0 .. Word - 1
  BY DEF TypeOK
<1> QED BY <1>1, WritePlace DEF PutAt, Used

\* What is written goes behind what is there, and leaves that alone.
LEMMA WrittenIs ==
  ASSUME TypeOK, NEW k \in 0 .. PIPESIZE - Used, NEW s \in [1 .. k -> Bytes]
  PROVE  /\ Written(s) \in [0 .. PIPESIZE - 1 -> Bytes]
         /\ \A i \in 1 .. Used :
              Written(s)[(nread + i - 1) % PIPESIZE] = data[(nread + i - 1) % PIPESIZE]
         /\ \A i \in 1 .. k : Written(s)[(nread + Used + i - 1) % PIPESIZE] = s[i]
<1>1. nread \in Nat /\ data \in [0 .. PIPESIZE - 1 -> Bytes]
  BY WordTypes DEF TypeOK
<1>2. Used \in Nat /\ PIPESIZE \in Nat \ {0} /\ k \in Nat
  BY UsedType, WordTypes
<1>3. Len(s) = k /\ \A i \in 1 .. k : s[i] \in Bytes
  BY <1>2
<1>4. \A i \in 0 .. k - 1 : PutAt(i) = (nread + Used + i) % PIPESIZE
  BY <1>2, PutPlace
<1>5. ASSUME NEW i \in 0 .. k - 1, NEW j \in 0 .. k - 1, PutAt(i) = PutAt(j)
      PROVE  i = j
  <2> SUFFICES ASSUME i # j PROVE FALSE
    OBVIOUS
  <2> DEFINE a == nread + Used + i
             b == nread + Used + j
  <2>1. a \in Nat /\ b \in Nat /\ a < b + PIPESIZE /\ b < a + PIPESIZE /\ a # b
    BY <1>1, <1>2
  <2>2. a % PIPESIZE = b % PIPESIZE
    BY <1>4, <1>5
  <2> HIDE DEF a, b
  <2> QED BY <2>1, <2>2, PlacesDiffer
<1>6. ASSUME NEW i \in 1 .. Used, NEW j \in 0 .. k - 1
      PROVE  PutAt(j) # (nread + i - 1) % PIPESIZE
  <2> DEFINE a == nread + Used + j
             b == nread + i - 1
  <2>1. a \in Nat /\ b \in Nat /\ a < b + PIPESIZE /\ b < a + PIPESIZE /\ a # b
    BY <1>1, <1>2
  <2>2. PutAt(j) = a % PIPESIZE
    BY <1>4
  <2> HIDE DEF a
  <2>3. a % PIPESIZE # b % PIPESIZE
    <3> HIDE DEF b
    <3> QED BY <2>1, PlacesDiffer
  <2> QED BY <2>2, <2>3
<1> DEFINE Places == 0 .. PIPESIZE - 1
           W == [j \in Places |->
                  IF \E i \in 0 .. k - 1 : PutAt(i) = j
                  THEN s[1 + CHOOSE i \in 0 .. k - 1 : PutAt(i) = j] ELSE data[j]]
<1>7. Written(s) = W
  BY <1>3 DEF Written
<1>8. \A j \in Places : (\E i \in 0 .. k - 1 : PutAt(i) = j) => W[j] \in Bytes
  <2> SUFFICES ASSUME NEW j \in Places, \E i \in 0 .. k - 1 : PutAt(i) = j
               PROVE  W[j] \in Bytes
    OBVIOUS
  <2> DEFINE c == CHOOSE i \in 0 .. k - 1 : PutAt(i) = j
  <2>1. c \in 0 .. k - 1
    OBVIOUS
  <2>2. W[j] = s[1 + c]
    OBVIOUS
  <2> HIDE DEF c
  <2>3. 1 + c \in 1 .. k
    BY <1>2, <2>1
  <2> QED BY <1>3, <2>2, <2>3
<1>9. W \in [Places -> Bytes]
  BY <1>1, <1>8
<1>10. \A i \in 1 .. Used : (nread + i - 1) % PIPESIZE \in Places
  BY <1>1, <1>2, ModRange
<1>11. \A i \in 1 .. Used :
         W[(nread + i - 1) % PIPESIZE] = data[(nread + i - 1) % PIPESIZE]
  BY <1>6, <1>10
<1>12. ASSUME NEW i \in 1 .. k
       PROVE  W[(nread + Used + i - 1) % PIPESIZE] = s[i]
  <2>1. i - 1 \in 0 .. k - 1 /\ 1 + (i - 1) = i
    BY <1>2
  <2> DEFINE c == CHOOSE j \in 0 .. k - 1 : PutAt(j) = PutAt(i - 1)
  <2>2. c \in 0 .. k - 1 /\ PutAt(c) = PutAt(i - 1)
    BY <2>1
  <2>3. c = i - 1
    <3> HIDE DEF c
    <3> QED BY <1>5, <2>1, <2>2
  <2>4. PutAt(i - 1) \in Places
    BY <1>1, <1>2, <1>4, <2>1, ModRange
  <2>5. W[PutAt(i - 1)] = s[1 + c]
    BY <2>1, <2>4
  <2>6. W[PutAt(i - 1)] = s[i]
    BY <2>1, <2>3, <2>5
  <2>7. PutAt(i - 1) = (nread + Used + i - 1) % PIPESIZE
    <3>1. PutAt(i - 1) = (nread + Used + (i - 1)) % PIPESIZE
      BY <1>4, <2>1
    <3>2. nread + Used + (i - 1) = nread + Used + i - 1
      BY <1>1, <1>2
    <3> QED BY <3>1, <3>2
  <2> QED BY <2>6, <2>7
<1> HIDE DEF W
<1> QED BY <1>7, <1>9, <1>11, <1>12

LEMMA QueueIs ==
  ASSUME TypeOK
  PROVE  /\ Queue \in [1 .. Used -> Bytes] /\ Queue \in Seq(Bytes)
         /\ Len(Queue) = Used
         /\ \A i \in 1 .. Used : Queue[i] = data[(nread + i - 1) % PIPESIZE]
<1>1. nread \in Nat /\ data \in [0 .. PIPESIZE - 1 -> Bytes] /\ Used \in Nat
  BY WordTypes, UsedType DEF TypeOK
<1>2. \A i \in 1 .. Used : (nread + i - 1) % PIPESIZE \in 0 .. PIPESIZE - 1
  BY <1>1, WordTypes, ModRange
<1>3. Queue \in [1 .. Used -> Bytes]
  BY <1>1, <1>2 DEF Queue
<1>4. Queue \in Seq(Bytes) /\ Len(Queue) = Used
  BY <1>1, <1>3
<1> QED BY <1>3, <1>4 DEF Queue

-----------------------------------------------------------------------------
(* What a step does to the ring                                            *)

LEMMA WriteEffect ==
  ASSUME TypeOK, Used <= PIPESIZE, NEW p \in Procs, Write(p)
  PROVE  \E k \in 0 .. PIPESIZE - Used : \E s \in [1 .. k -> Bytes] :
           /\ data' = Written(s) /\ moved' = s
           /\ nwrite' = (nwrite + k) % Word /\ nread' = nread
           /\ arg' \in [Procs -> Nat]
           /\ \/ /\ pc' = [pc EXCEPT ![p] = After(p)]
                 /\ todo' = Ending(p) /\ lock' = lock
                 /\ "r" \notin open \/ p \in killed
              \/ /\ pc' = [WakeReaders EXCEPT ![p] = After(p)]
                 /\ todo' = Ending(p) /\ lock' = lock
              \/ /\ pc' = [WakeReaders EXCEPT ![p] = "writesleep"]
                 /\ todo' = todo /\ lock' = {p}
                 /\ k = PIPESIZE - Used /\ "r" \in open /\ p \notin killed
<1> DEFINE k == Copied(arg[p])
           done == k = arg[p]
           fail == ~done /\ ("r" \notin open \/ p \in killed)
<1>1. arg[p] \in Nat /\ arg \in [Procs -> Nat] /\ Used \in Nat /\ PIPESIZE \in Nat \ {0}
  BY UsedType, WordTypes DEF TypeOK
<1>2. k \in 0 .. PIPESIZE - Used /\ k <= arg[p] /\ (~done => k = PIPESIZE - Used)
  <2>1. CASE Full
    BY <1>1, <2>1, UsedType DEF Copied
  <2>2. CASE ~Full
    BY <1>1, <2>2 DEF Copied, Minimum
  <2> QED BY <2>1, <2>2
<1>3. PICK s \in [1 .. k -> Bytes] : data' = Written(s) /\ moved' = s
  BY DEF Write
<1>4. nwrite' = (nwrite + k) % Word /\ nread' = nread
  BY DEF Write
<1>5. arg' \in [Procs -> Nat]
  <2>1. arg' = [arg EXCEPT ![p] = IF done \/ fail THEN 0 ELSE @ - k]
    BY DEF Write
  <2> HIDE DEF k
  <2>2. arg[p] - k \in Nat
    BY <1>1, <1>2
  <2> QED BY <1>1, <2>1, <2>2
<1>6. \/ /\ pc' = [pc EXCEPT ![p] = After(p)]
         /\ todo' = Ending(p) /\ lock' = lock
         /\ "r" \notin open \/ p \in killed
      \/ /\ pc' = [WakeReaders EXCEPT ![p] = After(p)]
         /\ todo' = Ending(p) /\ lock' = lock
      \/ /\ pc' = [WakeReaders EXCEPT ![p] = "writesleep"]
         /\ todo' = todo /\ lock' = {p}
         /\ ~done /\ "r" \in open /\ p \notin killed
  <2>1. CASE fail
    BY <2>1 DEF Write
  <2>2. CASE done
    BY <2>2 DEF Write
  <2>3. CASE ~done /\ ~fail
    BY <2>3 DEF Write
  <2> QED BY <2>1, <2>2, <2>3
<1> HIDE DEF k
<1> QED BY <1>2, <1>3, <1>4, <1>5, <1>6

LEMMA ReadEffect ==
  ASSUME TypeOK, NEW p \in Procs, Read(p)
  PROVE  \E k \in 0 .. Used :
           /\ moved' = [i \in 1 .. k |-> data[(nread + i - 1) % PIPESIZE]]
           /\ nread' = (nread + k) % Word /\ nwrite' = nwrite /\ data' = data
           /\ arg' \in [Procs -> Nat]
           /\ \/ /\ pc' = [pc EXCEPT ![p] = "readsleep"]
                 /\ todo' = todo /\ lock' = {p}
                 /\ k = 0 /\ Empty /\ "w" \in open /\ p \notin killed
              \/ /\ pc' = [pc EXCEPT ![p] = After(p)]
                 /\ todo' = Ending(p) /\ lock' = lock
                 /\ p \in killed
              \/ /\ pc' = [WakeWriters EXCEPT ![p] = After(p)]
                 /\ todo' = Ending(p) /\ lock' = lock
<1> DEFINE k == IF Empty THEN 0 ELSE Minimum(arg[p], Used)
           bytes(n) == [i \in 1 .. n |-> data[(nread + i - 1) % PIPESIZE]]
<1>1. arg[p] \in Nat /\ arg \in [Procs -> Nat] /\ Used \in Nat /\ nread \in 0 .. Word - 1
         /\ Word \in Nat \ {0}
  BY UsedType, WordTypes DEF TypeOK
<1>2. nwrite' = nwrite /\ data' = data
  BY DEF Read
<1>3. CASE Empty /\ "w" \in open /\ p \notin killed
  <2>1. moved' = <<>> /\ nread' = nread /\ arg' = arg /\ todo' = todo
           /\ lock' = {p} /\ pc' = [pc EXCEPT ![p] = "readsleep"]
    BY <1>3 DEF Read
  <2>2. bytes(0) = <<>>
    <3>1. bytes(0) \in [1 .. 0 -> Bytes]
      OBVIOUS
    <3> HIDE DEF bytes
    <3>2. bytes(0) \in Seq(Bytes) /\ Len(bytes(0)) = 0
      BY <3>1
    <3>3. <<>> \in Seq(Bytes) /\ Len(<<>>) = 0
      BY EmptySeq
    <3> QED BY <3>2, <3>3, SeqEqual
  <2>3. (nread + 0) % Word = nread
    <3>1. \A n \in 0 .. Word : (nread + n) % Word =
             IF nread + n < Word THEN nread + n ELSE nread + n - Word
      BY <1>1, AddWord
    <3>2. 0 \in 0 .. Word
      BY <1>1
    <3>3. (nread + 0) % Word = IF nread + 0 < Word THEN nread + 0 ELSE nread + 0 - Word
      BY <3>1, <3>2, Zenon
    <3> QED BY <1>1, <3>3
  <2> QED BY <1>1, <1>2, <1>3, <2>1, <2>2, <2>3
<1>4. CASE ~(Empty /\ "w" \in open /\ p \notin killed)
  <2>1. moved' = bytes(k) /\ nread' = (nread + k) % Word
           /\ arg' = [arg EXCEPT ![p] = 0] /\ todo' = Ending(p) /\ lock' = lock
    BY <1>4 DEF Read
  <2>2. k \in 0 .. Used
    BY <1>1 DEF Minimum
  <2>3. \/ pc' = [pc EXCEPT ![p] = After(p)] /\ p \in killed
        \/ pc' = [WakeWriters EXCEPT ![p] = After(p)]
    <3>1. CASE Empty /\ "w" \in open
      BY <1>4, <3>1 DEF Read
    <3>2. CASE ~(Empty /\ "w" \in open)
      BY <1>4, <3>2 DEF Read
    <3> QED BY <3>1, <3>2
  <2>4. arg' \in [Procs -> Nat]
    BY <1>1, <2>1
  <2> HIDE DEF k
  <2> QED BY <1>2, <2>1, <2>2, <2>3, <2>4
<1> QED BY <1>3, <1>4

LEMMA Puts ==
  ASSUME TypeOK, Used <= PIPESIZE, NEW k \in 0 .. PIPESIZE - Used, NEW s \in [1 .. k -> Bytes],
         data' = Written(s), moved' = s, nwrite' = (nwrite + k) % Word, nread' = nread
  PROVE  /\ data' \in [0 .. PIPESIZE - 1 -> Bytes] /\ nwrite' \in 0 .. Word - 1
         /\ Used' = Used + k
         /\ Stream!Send
<1>1. nread \in 0 .. Word - 1 /\ nwrite \in 0 .. Word - 1 /\ Used \in Nat /\ k \in 0 .. Word
  <2>1. nread \in 0 .. Word - 1 /\ nwrite \in 0 .. Word - 1 /\ Used \in Nat
    BY UsedType DEF TypeOK
  <2> QED BY <2>1, WordTypes
<1>2. nwrite' = IF nwrite + k < Word THEN nwrite + k ELSE nwrite + k - Word
  BY <1>1, AddWord, WordTypes
<1>3. nwrite' \in 0 .. Word - 1 /\ nread' \in 0 .. Word - 1
  BY <1>1, <1>2, WordTypes
<1>4. Used' = IF nwrite' >= nread' THEN nwrite' - nread' ELSE nwrite' - nread' + Word
  BY <1>3, UsedIs DEF Used
<1>5. Used = IF nwrite >= nread THEN nwrite - nread ELSE nwrite - nread + Word
  BY <1>1, UsedIs DEF Used
<1>6. Used' = Used + k
  BY <1>1, <1>2, <1>4, <1>5, WordTypes
<1>7. data' \in [0 .. PIPESIZE - 1 -> Bytes]
  BY WrittenIs
<1>8. Queue' = [i \in 1 .. Used + k |-> data'[(nread + i - 1) % PIPESIZE]]
  BY <1>6 DEF Queue
<1>9. /\ \A i \in 1 .. Used : data'[(nread + i - 1) % PIPESIZE] = Queue[i]
      /\ \A i \in 1 .. k : data'[(nread + Used + i - 1) % PIPESIZE] = s[i]
  BY WrittenIs, QueueIs
<1>10. s \in Seq(Bytes) /\ Len(s) = k
  BY <1>1, WordTypes
<1>11. \A i \in Used + 1 .. Used + k :
         data'[(nread + i - 1) % PIPESIZE] = s[i - Used]
  <2> SUFFICES ASSUME NEW i \in Used + 1 .. Used + k
               PROVE  data'[(nread + i - 1) % PIPESIZE] = s[i - Used]
    OBVIOUS
  <2>1. i - Used \in 1 .. k /\ nread + Used + (i - Used) - 1 = nread + i - 1
    BY <1>1, WordTypes
  <2> QED BY <1>9, <2>1
<1>12. Queue' = Queue \o s
  <2>1. Queue \in Seq(Bytes) /\ Len(Queue) = Used
    BY QueueIs
  <2>2. /\ Queue \o s \in Seq(Bytes) /\ Len(Queue \o s) = Used + k
        /\ \A i \in 1 .. Used + k :
             (Queue \o s)[i] = IF i <= Used THEN Queue[i] ELSE s[i - Used]
    BY <1>10, <2>1, ConcatProperties
  <2>3. \A i \in 1 .. Used + k : data'[(nread + i - 1) % PIPESIZE] = (Queue \o s)[i]
    <3> SUFFICES ASSUME NEW i \in 1 .. Used + k
                 PROVE  data'[(nread + i - 1) % PIPESIZE] = (Queue \o s)[i]
      OBVIOUS
    <3>1. CASE i <= Used
      BY <1>1, <1>9, <2>2, <3>1
    <3>2. CASE ~(i <= Used)
      <4>1. i \in Int /\ k \in Int /\ Used \in Int /\ i <= Used + k
        BY <1>1, WordTypes
      <4>2. i \in Used + 1 .. Used + k /\ ~(i <= Used)
        BY <3>2, <4>1
      <4> QED BY <1>11, <2>2, <4>2
    <3> QED BY <3>1, <3>2
  <2>4. Queue \o s = [i \in 1 .. Used + k |-> (Queue \o s)[i]]
    <3> DEFINE t == Queue \o s
    <3>1. t \in Seq(Bytes) /\ Len(t) = Used + k
      BY <2>2
    <3> HIDE DEF t
    <3>2. t = [i \in 1 .. Len(t) |-> t[i]]
      BY <3>1
    <3> QED BY <3>1, <3>2 DEF t
  <2> QED BY <1>8, <2>3, <2>4
<1>13. moved' \in UNION {[1 .. n -> Bytes] : n \in 0 .. PIPESIZE - Len(Queue)}
  BY QueueIs
<1> QED BY <1>3, <1>6, <1>7, <1>12, <1>13 DEF Stream!Send

LEMMA Takes ==
  ASSUME TypeOK, NEW k \in 0 .. Used,
         moved' = [i \in 1 .. k |-> data[(nread + i - 1) % PIPESIZE]],
         nread' = (nread + k) % Word, nwrite' = nwrite, data' = data
  PROVE  /\ nread' \in 0 .. Word - 1
         /\ Used' = Used - k
         /\ Stream!Receive
<1>1. nread \in 0 .. Word - 1 /\ nwrite \in 0 .. Word - 1 /\ Used \in 0 .. Word - 1
  BY UsedType DEF TypeOK
<1>2. nread' = IF nread + k < Word THEN nread + k ELSE nread + k - Word
  BY <1>1, AddWord, WordTypes
<1>3. nwrite' \in 0 .. Word - 1 /\ nread' \in 0 .. Word - 1
  BY <1>1, <1>2, WordTypes
<1>4. Used' = IF nwrite' >= nread' THEN nwrite' - nread' ELSE nwrite' - nread' + Word
  BY <1>3, UsedIs DEF Used
<1>5. Used = IF nwrite >= nread THEN nwrite - nread ELSE nwrite - nread + Word
  BY <1>1, UsedIs DEF Used
<1>6. Used' = Used - k
  BY <1>1, <1>2, <1>4, <1>5, WordTypes
<1>7. \A i \in 1 .. Used - k :
        (nread' + i - 1) % PIPESIZE = (nread + (k + i) - 1) % PIPESIZE
  <2> SUFFICES ASSUME NEW i \in 1 .. Used - k
               PROVE  (nread' + i - 1) % PIPESIZE = (nread + (k + i) - 1) % PIPESIZE
    OBVIOUS
  <2>1. CASE nread + k < Word
    <3>1. nread' + i - 1 = nread + (k + i) - 1
      BY <1>1, <1>2, <2>1
    <3> QED BY <3>1
  <2>2. CASE ~(nread + k < Word)
    <3>1. nread' + i - 1 \in Nat
      <4>1. nread' \in Nat /\ i \in Nat /\ i >= 1
        <5>1. Used - k \in Int
          BY <1>1
        <5> QED BY <1>3, <5>1, WordTypes
      <4> QED BY <4>1
    <3>2. nread + (k + i) - 1 = (nread' + i - 1) + Word
      <4>1. k \in Int /\ Used - k \in Int
        BY <1>1
      <4>2. i \in Int /\ nread \in Int /\ Word \in Int /\ k \in Int
        BY <1>1, <4>1, WordTypes
      <4>3. nread' = nread + k - Word
        BY <1>2, <2>2
      <4> QED BY <4>2, <4>3
    <3> QED BY <3>1, <3>2, SamePlace
  <2> QED BY <2>1, <2>2
<1>8. Queue' = [i \in 1 .. Used - k |-> data[(nread' + i - 1) % PIPESIZE]]
  BY <1>6 DEF Queue
<1>9. /\ Queue \in Seq(Bytes) /\ Len(Queue) = Used
      /\ \A i \in 1 .. Used : Queue[i] = data[(nread + i - 1) % PIPESIZE]
  BY QueueIs
<1>10. moved' = SubSeq(Queue, 1, k)
  <2>1. SubSeq(Queue, 1, k) = [i \in 1 .. k |-> Queue[i]]
    BY <1>1, <1>9
  <2> QED BY <1>1, <1>9, <2>1
<1>11. Queue' = SubSeq(Queue, k + 1, Len(Queue))
  <2>1. SubSeq(Queue, k + 1, Used) = [i \in 1 .. Used - k |-> Queue[k + i]]
    BY <1>1, <1>9
  <2>2. \A i \in 1 .. Used - k : k + i \in 1 .. Used
    BY <1>1
  <2>3. \A i \in 1 .. Used - k : data[(nread' + i - 1) % PIPESIZE] = Queue[k + i]
    BY <1>7, <1>9, <2>2
  <2> QED BY <1>8, <1>9, <2>1, <2>3
<1> QED BY <1>3, <1>6, <1>9, <1>10, <1>11 DEF Stream!Receive

-----------------------------------------------------------------------------
(* What a step leaves alone                                                *)

LEMMA SameRing ==
  ASSUME TypeOK, NothingMoves
  PROVE  /\ data' \in [0 .. PIPESIZE - 1 -> Bytes]
         /\ nread' \in 0 .. Word - 1 /\ nwrite' \in 0 .. Word - 1
         /\ Used' = Used /\ Empty' = Empty /\ Full' = Full /\ Queue' = Queue
BY DEF NothingMoves, ring, Used, Empty, Full, Queue, TypeOK

LEMMA SameRef ==
  ASSUME RefInv, UNCHANGED <<open, freed, ref, fds, shut>>
  PROVE  RefInv'
BY DEF RefInv, Holders, Abandoned

\* A process that a step is not about goes on where it was, or is woken.
GoesOn(q) ==
  \/ pc'[q] = pc[q]
  \/ pc[q] = "readasleep" /\ pc'[q] = "read"
  \/ pc[q] = "writeasleep" /\ pc'[q] = "write"

LEMMA WokenIs ==
  ASSUME TypeOK, NEW p \in Procs, NEW x \in PCs
  PROVE  /\ WakeReaders \in [Procs -> PCs] /\ WakeWriters \in [Procs -> PCs]
         /\ [WakeReaders EXCEPT ![p] = x][p] = x /\ [WakeWriters EXCEPT ![p] = x][p] = x
         /\ \A q \in Procs \ {p} :
              /\ [WakeReaders EXCEPT ![p] = x][q] = IF pc[q] = "readasleep" THEN "read" ELSE pc[q]
              /\ [WakeWriters EXCEPT ![p] = x][q] = IF pc[q] = "writeasleep" THEN "write" ELSE pc[q]
BY DEF TypeOK, WakeReaders, WakeWriters, Woken, PCs

LEMMA Placed ==
  ASSUME TypeOK, PlaceInv, NEW p \in Procs, PlaceOf(p)',
         \A q \in Procs \ {p} :
           GoesOn(q) /\ fds'[q] = fds[q] /\ todo'[q] = todo[q] /\ shut'[q] = shut[q],
         \/ lock' = lock /\ (p \in AtLock <=> p \in AtLock')
         \/ lock = {} /\ lock' = {p} /\ p \in AtLock'
         \/ p \in AtLock /\ lock' = {} /\ p \notin AtLock'
  PROVE  PlaceInv'
<1>1. \A q \in Procs : PlaceOf(q)'
  <2> SUFFICES ASSUME NEW q \in Procs \ {p} PROVE PlaceOf(q)'
    OBVIOUS
  <2>1. PlaceOf(q) /\ GoesOn(q) /\ fds'[q] = fds[q] /\ todo'[q] = todo[q] /\ shut'[q] = shut[q]
    BY DEF PlaceInv
  <2> QED BY <2>1 DEF PlaceOf, GoesOn
<1>2. \A q \in Procs \ {p} : q \in AtLock' <=> q \in AtLock
  BY DEF GoesOn, AtLock
<1>3. lock = AtLock /\ (\A x, y \in AtLock : x = y) /\ AtLock' \subseteq Procs /\ AtLock \subseteq Procs
  BY DEF PlaceInv, AtLock
<1>4. lock' = AtLock' /\ \A x, y \in AtLock' : x = y
  BY <1>2, <1>3
<1> QED BY <1>1, <1>4 DEF PlaceInv

LEMMA SleepsOn ==
  ASSUME SleepInv, NEW p \in Procs, SleepsFor(p)', \A q \in Procs \ {p} : GoesOn(q),
         open' = open, Empty' = Empty, Full' = Full, kills' = kills, kills = 0 => killed' = {}
  PROVE  SleepInv'
<1>1. ASSUME NEW q \in Procs \ {p} PROVE SleepsFor(q)'
  BY DEF SleepInv, SleepsFor, GoesOn
<1> QED BY <1>1 DEF SleepInv

-----------------------------------------------------------------------------
(* One lemma for each action                                               *)

LEMMA InitKeeps ==
  ASSUME Init
  PROVE  IInv
<1>1. PICK first \in Procs :
        /\ fds = [p \in Procs |-> IF p = first THEN Ends ELSE {}]
        /\ pc = [p \in Procs |-> IF p = first THEN "user" ELSE "none"]
  BY DEF Init
<1>2. (CHOOSE b \in Bytes : TRUE) \in Bytes
  BY PipeAssumption
<1>3. TypeOK
  <2>1. data \in [0 .. PIPESIZE - 1 -> Bytes]
    BY <1>2 DEF Init
  <2>2. pc \in [Procs -> PCs] /\ fds \in [Procs -> SUBSET Ends]
    BY <1>1 DEF PCs
  <2>3. nread \in 0 .. Word - 1 /\ nwrite \in 0 .. Word - 1
    BY WordTypes DEF Init
  <2>4. ref \in [Ends -> Nat] /\ arg \in [Procs -> Nat]
    BY DEF Init
  <2>5. todo \in [Procs -> SUBSET Ends] /\ shut \in [Procs -> SUBSET Ends]
    BY DEF Init
  <2> QED BY <2>1, <2>2, <2>3, <2>4, <2>5 DEF Init, TypeOK
<1>4. Used = 0
  BY <1>3, UsedType DEF Init, Empty
<1>5. RefInv
  <2>1. \A e \in Ends : Holders(e) = {first}
    BY <1>1 DEF Holders
  <2>2. \A e \in Ends : ref[e] = Cardinality(Holders(e))
    BY <2>1, FS_Singleton DEF Init
  <2>3. \A e \in Ends : e \in open <=> ~Abandoned(e)
    BY <1>1 DEF Init, Abandoned
  <2> QED BY <2>2, <2>3 DEF Init, RefInv, Ends
<1>6. PlaceInv
  BY <1>1 DEF Init, PlaceInv, PlaceOf, AtLock
<1>7. SleepInv
  BY <1>1 DEF Init, SleepInv, SleepsFor
<1> QED BY <1>3, <1>4, <1>5, <1>6, <1>7, WordTypes DEF IInv

LEMMA CallKeeps ==
  ASSUME IInv, NEW p \in Procs, NEW place \in {"read", "write"}, NEW n \in Nat,
         Call(p, place, IF place = "read" THEN "r" ELSE "w", n), kills' = kills
  PROVE  IInv'
<1>1. TypeOK'
  BY SameRing DEF IInv, TypeOK, Call, files, PCs
<1>2. RefInv'
  BY SameRef DEF IInv, Call, files
<1>3. PlaceInv'
  <2>1. PlaceOf(p)' /\ p \notin AtLock /\ p \notin AtLock'
    BY DEF IInv, Call, files, TypeOK, PlaceInv, PlaceOf, AtLock
  <2>2. \A q \in Procs \ {p} : GoesOn(q)
    BY DEF IInv, TypeOK, Call, GoesOn
  <2> QED BY <2>1, <2>2, Placed DEF IInv, Call, files
<1>4. SleepInv'
  <2>1. SleepsFor(p)' /\ \A q \in Procs \ {p} : GoesOn(q)
    BY DEF IInv, TypeOK, Call, SleepsFor, GoesOn
  <2> QED BY <2>1, SleepsOn, SameRing DEF IInv, Call, files, SleepInv
<1> QED BY <1>1, <1>2, <1>3, <1>4, SameRing DEF IInv, Call

LEMMA SleepKeeps ==
  ASSUME IInv, NEW p \in Procs, Sleep(p), kills' = kills
  PROVE  IInv'
<1>1. TypeOK'
  BY SameRing DEF IInv, TypeOK, Sleep, files, PCs
<1>2. RefInv'
  BY SameRef DEF IInv, Sleep, files
<1>3. \A q \in Procs \ {p} : GoesOn(q)
  BY DEF IInv, TypeOK, Sleep, GoesOn
<1>4. PlaceInv'
  <2>1. PlaceOf(p)' /\ p \in AtLock /\ p \notin AtLock'
    BY DEF IInv, Sleep, files, TypeOK, PlaceInv, PlaceOf, AtLock
  <2> QED BY <1>3, <2>1, Placed DEF IInv, Sleep, files
<1>5. SleepInv'
  <2>1. SleepsFor(p)'
    BY SameRing DEF IInv, TypeOK, Sleep, SleepInv, SleepsFor, files
  <2> QED BY <1>3, <2>1, SleepsOn, SameRing DEF IInv, Sleep, files, SleepInv
<1> QED BY <1>1, <1>2, <1>4, <1>5, SameRing DEF IInv, Sleep

LEMMA CloseKeeps ==
  ASSUME IInv, NEW p \in Procs, (\E e \in Ends : Close(p, e)) \/ Exit(p), kills' = kills
  PROVE  IInv'
<1>1. /\ pc[p] = "user" /\ NothingMoves
      /\ UNCHANGED <<open, freed, ref, fds, shut, lock, arg, killed>>
      /\ \/ pc' = [pc EXCEPT ![p] = "exit"] /\ todo' = [todo EXCEPT ![p] = fds[p]]
         \/ /\ pc' = [pc EXCEPT ![p] = "close"]
            /\ \E e \in fds[p] : todo' = [todo EXCEPT ![p] = {e}]
  BY DEF Close, Exit
<1>2. TypeOK'
  <2>1. pc' \in [Procs -> PCs]
    BY <1>1 DEF IInv, TypeOK, PCs
  <2>2. todo' \in [Procs -> SUBSET Ends]
    <3>1. todo \in [Procs -> SUBSET Ends] /\ fds[p] \in SUBSET Ends
      BY DEF IInv, TypeOK
    <3>2. PICK t \in SUBSET Ends : todo' = [todo EXCEPT ![p] = t]
      BY <1>1, <3>1
    <3> QED BY <3>1, <3>2
  <2> QED BY <1>1, <2>1, <2>2, SameRing DEF IInv, TypeOK
<1>3. RefInv'
  BY <1>1, SameRef DEF IInv
<1>4. \A q \in Procs \ {p} : GoesOn(q) /\ todo'[q] = todo[q]
  BY <1>1 DEF IInv, TypeOK, GoesOn
<1>5. PlaceInv'
  <2>1. PlaceOf(p)' /\ p \notin AtLock /\ p \notin AtLock'
    BY <1>1 DEF IInv, TypeOK, PlaceInv, PlaceOf, AtLock
  <2> QED BY <1>1, <1>4, <2>1, Placed DEF IInv
<1>6. SleepInv'
  <2>1. SleepsFor(p)'
    BY <1>1 DEF IInv, TypeOK, SleepsFor
  <2> QED BY <1>1, <1>4, <2>1, SleepsOn, SameRing DEF IInv, SleepInv
<1> QED BY <1>1, <1>2, <1>3, <1>5, <1>6, SameRing DEF IInv

LEMMA ClosedKeeps ==
  ASSUME IInv, NEW p \in Procs, Closed(p), kills' = kills
  PROVE  IInv'
<1>1. /\ pc[p] \in {"close", "exit"} /\ todo[p] = {} /\ shut[p] = {} /\ NothingMoves
      /\ UNCHANGED <<open, freed, ref, fds, shut, lock, arg>>
      /\ \/ /\ pc[p] = "exit" /\ pc' = [pc EXCEPT ![p] = "none"]
            /\ killed' = killed \ {p} /\ todo' = todo
         \/ /\ pc' = [pc EXCEPT ![p] = "user"] /\ killed' = killed /\ todo' = todo
         \/ /\ pc' = [pc EXCEPT ![p] = "exit"] /\ killed' = killed
            /\ todo' = [todo EXCEPT ![p] = fds[p]]
  BY DEF Closed, After, Ending
<1>2. TypeOK'
  BY <1>1, SameRing DEF IInv, TypeOK, PCs
<1>3. RefInv'
  BY <1>1, SameRef DEF IInv
<1>4. \A q \in Procs \ {p} : GoesOn(q) /\ todo'[q] = todo[q]
  BY <1>1 DEF IInv, TypeOK, GoesOn
<1>5. PlaceInv'
  <2>1. PlaceOf(p)' /\ p \notin AtLock /\ p \notin AtLock'
    BY <1>1 DEF IInv, TypeOK, PlaceInv, PlaceOf, AtLock
  <2> QED BY <1>1, <1>4, <2>1, Placed DEF IInv
<1>6. SleepInv'
  <2>1. SleepsFor(p)'
    BY <1>1 DEF IInv, TypeOK, SleepsFor
  <2>2. kills = 0 => killed' = {}
    BY <1>1 DEF IInv, SleepInv
  <2> QED BY <1>1, <1>4, <2>1, <2>2, SleepsOn, SameRing DEF IInv
<1> QED BY <1>1, <1>2, <1>3, <1>5, <1>6, SameRing DEF IInv

LEMMA KillKeeps ==
  ASSUME IInv, NEW p \in Procs, Kill(p), kills' = kills
  PROVE  IInv'
<1>1. TypeOK /\ pc \in [Procs -> PCs] /\ killed \subseteq Procs /\ kills' = kills
  BY DEF IInv, TypeOK
<1>2. /\ pc[p] \notin {"none", "exit"} /\ killed' = killed \cup {p} /\ NothingMoves
      /\ UNCHANGED <<open, freed, ref, fds, todo, shut, lock, arg>>
      /\ pc' = [pc EXCEPT ![p] = IF @ = "readasleep" THEN "read"
                                 ELSE IF @ = "writeasleep" THEN "write" ELSE @]
  BY DEF Kill, files
<1>3. \/ pc'[p] = pc[p] /\ pc[p] \notin {"readasleep", "writeasleep"}
      \/ pc[p] = "readasleep" /\ pc'[p] = "read"
      \/ pc[p] = "writeasleep" /\ pc'[p] = "write"
  BY <1>1, <1>2
<1>4. pc' \in [Procs -> PCs] /\ \A q \in Procs \ {p} : GoesOn(q)
  <2>1. pc'[p] \in PCs
    BY <1>1, <1>3 DEF PCs
  <2> QED BY <1>1, <1>2, <2>1 DEF GoesOn
<1>5. kills # 0
  <2>1. IsFiniteSet(killed \cup {p})
    BY <1>1, FS_Subset, PipeAssumption
  <2>2. Cardinality(killed \cup {p}) \in Nat /\ Cardinality(killed \cup {p}) # 0
    BY <2>1, FS_CardinalityType, FS_EmptySet
  <2> QED BY <2>2 DEF Kill
<1>6. TypeOK'
  BY <1>1, <1>2, <1>4, SameRing DEF TypeOK
<1>7. RefInv'
  BY <1>2, SameRef DEF IInv
<1>8. PlaceInv'
  <2>1. PlaceOf(p)' /\ (p \in AtLock <=> p \in AtLock')
    BY <1>2, <1>3 DEF IInv, PlaceInv, PlaceOf, AtLock
  <2> QED BY <1>1, <1>2, <1>4, <2>1, Placed DEF IInv
<1>9. SleepInv'
  <2>1. SleepsFor(p)'
    BY <1>2, <1>3, <1>5, <1>1 DEF IInv, SleepInv, SleepsFor
  <2> QED BY <1>1, <1>2, <1>4, <1>5, <2>1, SleepsOn, SameRing DEF IInv
<1> QED BY <1>1, <1>2, <1>6, <1>7, <1>8, <1>9, SameRing DEF IInv

LEMMA FileCloseKeeps ==
  ASSUME IInv, NEW p \in Procs, FileClose(p), kills' = kills
  PROVE  IInv'
<1>1. PICK e \in todo[p] :
        /\ todo' = [todo EXCEPT ![p] = @ \ {e}]
        /\ fds' = [fds EXCEPT ![p] = @ \ {e}]
        /\ ref' = [ref EXCEPT ![e] = @ - 1]
        /\ shut' = IF ref[e] = 1 THEN [shut EXCEPT ![p] = {e}] ELSE shut
  BY DEF FileClose, Last
<1>2. /\ pc[p] \in {"close", "exit"} /\ shut[p] = {} /\ NothingMoves
      /\ UNCHANGED <<open, freed, lock, pc, arg, killed>>
  BY DEF FileClose
<1>3. /\ fds \in [Procs -> SUBSET Ends] /\ todo \in [Procs -> SUBSET Ends]
      /\ shut \in [Procs -> SUBSET Ends] /\ ref \in [Ends -> Nat]
  BY DEF IInv, TypeOK
<1>4. e \in Ends /\ e \in fds[p] /\ todo[p] \subseteq fds[p]
  BY <1>2, <1>3 DEF IInv, PlaceInv, PlaceOf
<1>5. \A x \in Ends : ref[x] = Cardinality(Holders(x)) /\ IsFiniteSet(Holders(x))
  BY PipeAssumption, FS_Subset DEF IInv, RefInv, Holders
<1>6. \A x \in Ends : Holders(x)' = IF x = e THEN Holders(e) \ {p} ELSE Holders(x)
  BY <1>1, <1>3 DEF Holders
<1>7. p \in Holders(e)
  BY <1>4 DEF Holders
<1>8. ref[e] # 0 /\ ref[e] \in Nat
  BY <1>3, <1>4, <1>5, <1>7, FS_EmptySet
<1>9. ref[e] = 1 => Holders(e) = {p}
  <2> SUFFICES ASSUME ref[e] = 1 PROVE Holders(e) = {p}
    OBVIOUS
  <2>1. Cardinality(Holders(e) \ {p}) = 0 /\ IsFiniteSet(Holders(e) \ {p})
    BY <1>4, <1>5, <1>7, FS_RemoveElement
  <2> QED BY <1>7, <2>1, FS_EmptySet
<1>10. TypeOK'
  <2>1. ref' \in [Ends -> Nat]
    BY <1>1, <1>3, <1>4, <1>8
  <2>2. /\ fds' \in [Procs -> SUBSET Ends] /\ todo' \in [Procs -> SUBSET Ends]
        /\ shut' \in [Procs -> SUBSET Ends]
    BY <1>1, <1>3, <1>4
  <2> QED BY <1>2, <2>1, <2>2, SameRing DEF IInv, TypeOK
<1>11. RefInv'
  <2>1. ASSUME NEW x \in Ends PROVE ref'[x] = Cardinality(Holders(x)')
    <3>1. CASE x = e
      BY <1>1, <1>3, <1>4, <1>5, <1>6, <1>7, <3>1, FS_RemoveElement
    <3>2. CASE x # e
      BY <1>1, <1>3, <1>5, <1>6, <3>2
    <3> QED BY <3>1, <3>2
  <2>2. \A x \in Ends : Abandoned(x)' <=> Abandoned(x)
    <3> SUFFICES ASSUME NEW x \in Ends PROVE Abandoned(x)' <=> Abandoned(x)
      OBVIOUS
    <3>1. CASE x # e
      <4>1. \A q \in Procs : (x \in fds'[q] <=> x \in fds[q]) /\ (x \in shut'[q] <=> x \in shut[q])
        BY <1>1, <1>2, <1>3, <3>1
      <4> QED BY <4>1 DEF Abandoned
    <3>2. CASE x = e /\ ref[e] = 1
      <4>1. e \in shut'[p]
        BY <1>1, <1>3, <3>2
      <4> QED BY <1>4, <3>2, <4>1 DEF Abandoned
    <3>3. CASE x = e /\ ref[e] # 1
      <4>1. Holders(e) # {p}
        BY <1>4, <1>5, <3>3, FS_Singleton
      <4>2. PICK q \in Procs : q # p /\ e \in fds[q]
        BY <1>7, <4>1 DEF Holders
      <4>3. e \in fds'[q]
        BY <1>1, <1>3, <4>2
      <4> QED BY <1>4, <3>3, <4>2, <4>3 DEF Abandoned
    <3> QED BY <3>1, <3>2, <3>3
  <2>3. ASSUME NEW q \in Procs, NEW x \in shut'[q]
        PROVE  ref'[x] = 0 /\ \A s \in Procs : x \in shut'[s] => q = s
    <3>1. \A s \in Procs : e \notin shut[s]
      BY <1>8 DEF IInv, RefInv
    <3>2. CASE x = e
      <4>1. ref[e] = 1 /\ q = p
        BY <1>1, <1>3, <2>3, <3>1, <3>2
      <4>2. ref'[e] = 0
        BY <1>1, <1>3, <1>4, <4>1
      <4>3. \A s \in Procs : e \in shut'[s] => s = p
        BY <1>1, <1>3, <3>1
      <4> QED BY <3>2, <4>1, <4>2, <4>3
    <3>3. CASE x # e
      <4>1. \A s \in Procs : x \in shut'[s] <=> x \in shut[s]
        BY <1>1, <1>2, <1>3, <3>3
      <4>2. x \in shut[q] /\ x \in Ends
        BY <1>3, <2>3, <4>1
      <4>3. ref'[x] = ref[x]
        BY <1>1, <1>3, <3>3, <4>2
      <4> QED BY <4>1, <4>2, <4>3 DEF IInv, RefInv
    <3> QED BY <3>2, <3>3
  <2>4. \A q \in Procs : \A x, y \in shut'[q] : x = y
    BY <1>1, <1>3 DEF IInv, RefInv
  <2> QED BY <1>2, <2>1, <2>2, <2>3, <2>4 DEF IInv, RefInv
<1>12. \A q \in Procs \ {p} :
         GoesOn(q) /\ fds'[q] = fds[q] /\ todo'[q] = todo[q] /\ shut'[q] = shut[q]
  BY <1>1, <1>2, <1>3 DEF GoesOn
<1>13. PlaceInv'
  <2>1. PlaceOf(p)' /\ p \notin AtLock /\ p \notin AtLock'
    BY <1>1, <1>2, <1>3, <1>4 DEF IInv, PlaceInv, PlaceOf, AtLock
  <2> QED BY <1>2, <1>12, <2>1, Placed DEF IInv
<1>14. SleepInv'
  <2>1. SleepsFor(p)'
    BY <1>2 DEF SleepsFor
  <2> QED BY <1>2, <1>12, <2>1, SleepsOn, SameRing DEF IInv, SleepInv
<1> QED BY <1>2, <1>10, <1>11, <1>13, <1>14, SameRing DEF IInv

LEMMA PipeCloseKeeps ==
  ASSUME IInv, NEW p \in Procs, PipeClose(p), kills' = kills
  PROVE  IInv'
<1>1. PICK e \in shut[p] : /\ open' = open \ {e}
                           /\ pc' = IF e = "w" THEN WakeReaders ELSE WakeWriters
  BY DEF PipeClose
<1>2. /\ lock = {} /\ NothingMoves /\ UNCHANGED <<ref, fds, todo, lock, arg, killed>>
      /\ freed' = (freed \/ open' = {}) /\ shut' = [shut EXCEPT ![p] = {}]
  BY DEF PipeClose
<1>3. /\ fds \in [Procs -> SUBSET Ends] /\ shut \in [Procs -> SUBSET Ends]
      /\ open \subseteq Ends /\ pc \in [Procs -> PCs] /\ TypeOK
  BY DEF IInv, TypeOK
<1>4. e \in Ends /\ (e = "r" \/ e = "w") /\ shut[p] = {e} /\ ref[e] = 0
  BY <1>3 DEF IInv, RefInv, Ends
<1>5. \A q \in Procs : e \notin fds[q] /\ (e \in shut[q] => q = p)
  <2>1. IsFiniteSet(Holders(e)) /\ Cardinality(Holders(e)) = 0
    BY <1>4, PipeAssumption, FS_Subset DEF IInv, RefInv, Holders
  <2>2. Holders(e) = {}
    BY <2>1, FS_EmptySet
  <2> QED BY <1>4, <2>2 DEF Holders, IInv, RefInv
<1>6. /\ pc' \in [Procs -> PCs] /\ \A q \in Procs : GoesOn(q)
      /\ \A q \in Procs : /\ e = "w" => pc'[q] # "readasleep"
                          /\ e = "r" => pc'[q] # "writeasleep"
  BY <1>1, <1>3, <1>4 DEF WakeReaders, WakeWriters, Woken, GoesOn, PCs
<1>7. TypeOK'
  <2>1. shut' \in [Procs -> SUBSET Ends] /\ open' \subseteq Ends /\ freed' \in BOOLEAN
    BY <1>1, <1>2, <1>3
  <2> QED BY <1>2, <1>3, <1>6, <2>1, SameRing DEF TypeOK
<1>8. RefInv'
  <2>1. \A x \in Ends : ref'[x] = Cardinality(Holders(x)')
    BY <1>2 DEF IInv, RefInv, Holders
  <2>2. \A x \in Ends : x \in open' <=> ~Abandoned(x)'
    <3> SUFFICES ASSUME NEW x \in Ends PROVE x \in open' <=> ~Abandoned(x)'
      OBVIOUS
    <3>1. CASE x = e
      BY <1>1, <1>2, <1>3, <1>4, <1>5, <3>1 DEF Abandoned
    <3>2. CASE x # e
      <4>1. \A q \in Procs : x \in shut'[q] <=> x \in shut[q]
        BY <1>2, <1>3, <1>4, <3>2
      <4>2. Abandoned(x)' <=> Abandoned(x)
        BY <1>2, <4>1 DEF Abandoned
      <4> QED BY <1>1, <3>2, <4>2 DEF IInv, RefInv
    <3> QED BY <3>1, <3>2
  <2>3. \A q \in Procs : shut'[q] \subseteq shut[q]
    BY <1>2, <1>3
  <2>4. freed' <=> open' = {}
    <3>1. e \in open
      BY <1>4 DEF IInv, RefInv, Abandoned
    <3> QED BY <1>2, <3>1 DEF IInv, RefInv
  <2> QED BY <1>2, <2>1, <2>2, <2>3, <2>4 DEF IInv, RefInv
<1>9. AtLock = {}
  BY <1>2 DEF IInv, PlaceInv
<1>10. PlaceInv'
  <2>1. PlaceOf(p)' /\ p \notin AtLock'
    <3>1. GoesOn(p) /\ PlaceOf(p) /\ p \notin AtLock /\ shut'[p] = {}
      BY <1>2, <1>3, <1>6, <1>9 DEF IInv, PlaceInv
    <3>2. pc[p] \in {"close", "exit"}
      BY <1>4, <3>1 DEF PlaceOf
    <3>3. pc'[p] = pc[p]
      BY <3>1, <3>2 DEF GoesOn
    <3> QED BY <1>2, <3>1, <3>2, <3>3 DEF PlaceOf, AtLock
  <2>2. \A q \in Procs \ {p} : shut'[q] = shut[q]
    BY <1>2, <1>3
  <2> QED BY <1>2, <1>3, <1>6, <1>9, <2>1, <2>2, Placed DEF IInv
<1>11. SleepInv'
  <2> SUFFICES ASSUME NEW q \in Procs PROVE SleepsFor(q)'
    BY <1>2 DEF IInv, SleepInv
  <2>1. SleepsFor(q) /\ GoesOn(q) /\ Empty' = Empty /\ Full' = Full
    BY <1>2, <1>3, <1>6, SameRing DEF IInv, SleepInv
  <2>2. q \notin AtLock'
    BY <1>6, <1>9 DEF AtLock, GoesOn
  <2>3. /\ pc'[q] \notin {"readsleep", "writesleep"}
        /\ pc'[q] = "readasleep" => pc[q] = "readasleep" /\ e # "w"
        /\ pc'[q] = "writeasleep" => pc[q] = "writeasleep" /\ e # "r"
    BY <1>6, <2>1, <2>2 DEF AtLock, GoesOn
  <2> QED BY <1>1, <2>1, <2>3 DEF SleepsFor
<1> QED BY <1>2, <1>3, <1>7, <1>8, <1>10, <1>11, SameRing DEF IInv

LEMMA ForkKeeps ==
  ASSUME IInv, NEW p \in Procs, Fork(p), kills' = kills
  PROVE  IInv'
<1>1. PICK c \in Procs : /\ pc[c] = "none" /\ pc' = [pc EXCEPT ![c] = "user"]
                         /\ fds' = [fds EXCEPT ![c] = fds[p]]
  BY DEF Fork
<1>2. /\ pc[p] = "user" /\ NothingMoves
      /\ ref' = [e \in Ends |-> IF e \in fds[p] THEN ref[e] + 1 ELSE ref[e]]
      /\ UNCHANGED <<open, freed, todo, shut, lock, arg, killed>>
  BY DEF Fork
<1>3. /\ fds \in [Procs -> SUBSET Ends] /\ shut \in [Procs -> SUBSET Ends]
      /\ ref \in [Ends -> Nat] /\ pc \in [Procs -> PCs] /\ TypeOK
  BY DEF IInv, TypeOK
<1>4. c # p /\ fds[c] = {} /\ shut[c] = {} /\ todo[c] = {}
  BY <1>1, <1>2 DEF IInv, PlaceInv, PlaceOf
<1>5. \A x \in Ends : ref[x] = Cardinality(Holders(x)) /\ IsFiniteSet(Holders(x))
  BY PipeAssumption, FS_Subset DEF IInv, RefInv, Holders
<1>6. \A x \in Ends : /\ Holders(x)' = IF x \in fds[p] THEN Holders(x) \cup {c} ELSE Holders(x)
                      /\ c \notin Holders(x)
  BY <1>1, <1>3, <1>4 DEF Holders
<1>7. TypeOK'
  <2>1. ref' \in [Ends -> Nat] /\ fds' \in [Procs -> SUBSET Ends] /\ pc' \in [Procs -> PCs]
    BY <1>1, <1>2, <1>3 DEF PCs
  <2> QED BY <1>2, <1>3, <2>1, SameRing DEF TypeOK
<1>8. RefInv'
  <2>1. ASSUME NEW x \in Ends PROVE ref'[x] = Cardinality(Holders(x)')
    BY <1>2, <1>5, <1>6, FS_AddElement
  <2>2. \A x \in Ends : Abandoned(x)' <=> Abandoned(x)
    <3> SUFFICES ASSUME NEW x \in Ends PROVE Abandoned(x)' <=> Abandoned(x)
      OBVIOUS
    <3>1. \A q \in Procs : fds'[q] = IF q = c THEN fds[p] ELSE fds[q]
      BY <1>1, <1>3
    <3> QED BY <1>2, <1>4, <3>1 DEF Abandoned
  <2>3. \A q \in Procs : \A x \in shut[q] : ref'[x] = 0
    <3> SUFFICES ASSUME NEW q \in Procs, NEW x \in shut[q] PROVE ref'[x] = 0
      OBVIOUS
    <3>1. x \in Ends /\ ref[x] = 0
      BY <1>3 DEF IInv, RefInv
    <3>2. Holders(x) = {}
      BY <1>5, <3>1, FS_EmptySet
    <3>3. x \notin fds[p]
      BY <3>2 DEF Holders
    <3> QED BY <1>2, <3>1, <3>3
  <2> QED BY <1>2, <2>1, <2>2, <2>3 DEF IInv, RefInv
<1>9. \A q \in Procs \ {c} : GoesOn(q) /\ fds'[q] = fds[q]
  BY <1>1, <1>3 DEF GoesOn
<1>10. PlaceInv'
  <2>1. PlaceOf(c)' /\ c \notin AtLock /\ c \notin AtLock'
    BY <1>1, <1>2, <1>3, <1>4 DEF PlaceOf, AtLock
  <2> QED BY <1>2, <1>9, <2>1, Placed DEF IInv
<1>11. SleepInv'
  <2>1. SleepsFor(c)'
    BY <1>1, <1>3 DEF SleepsFor
  <2> QED BY <1>2, <1>3, <1>9, <2>1, SleepsOn, SameRing DEF IInv, SleepInv
<1> QED BY <1>2, <1>3, <1>7, <1>8, <1>10, <1>11, SameRing DEF IInv

CountsUsed == Used \in 0 .. Word - 1 /\ (Empty <=> Used = 0) /\ (Full <=> Used = PIPESIZE)
LEMMA UsedCounts == TypeOK => CountsUsed
BY UsedType DEF CountsUsed

LEMMA UsedTypeNext ==
  ASSUME TypeOK'
  PROVE  Used' \in 0 .. Word - 1 /\ (Empty' <=> Used' = 0) /\ (Full' <=> Used' = PIPESIZE)
<1>1. CountsUsed'
  BY UsedCounts, PTL
<1> QED BY <1>1 DEF CountsUsed

LEMMA WriteKeeps ==
  ASSUME IInv, NEW p \in Procs, Write(p), kills' = kills
  PROVE  IInv'
<1>1. /\ pc[p] = "write" /\ lock = {}
      /\ UNCHANGED <<nread, open, freed, ref, fds, shut, killed>>
  BY DEF Write
<1>2. PICK k \in 0 .. PIPESIZE - Used : \E s \in [1 .. k -> Bytes] :
        /\ data' = Written(s) /\ moved' = s
        /\ nwrite' = (nwrite + k) % Word /\ nread' = nread
        /\ arg' \in [Procs -> Nat]
        /\ \/ /\ pc' = [pc EXCEPT ![p] = After(p)]
              /\ todo' = Ending(p) /\ lock' = lock
              /\ "r" \notin open \/ p \in killed
           \/ /\ pc' = [WakeReaders EXCEPT ![p] = After(p)]
              /\ todo' = Ending(p) /\ lock' = lock
           \/ /\ pc' = [WakeReaders EXCEPT ![p] = "writesleep"]
              /\ todo' = todo /\ lock' = {p}
              /\ k = PIPESIZE - Used /\ "r" \in open /\ p \notin killed
  BY WriteEffect DEF IInv
<1>3. /\ data' \in [0 .. PIPESIZE - 1 -> Bytes] /\ nwrite' \in 0 .. Word - 1
      /\ Used' = Used + k /\ arg' \in [Procs -> Nat]
  BY <1>2, Puts DEF IInv
<1>4. /\ TypeOK /\ pc \in [Procs -> PCs] /\ fds \in [Procs -> SUBSET Ends]
      /\ todo \in [Procs -> SUBSET Ends] /\ shut \in [Procs -> SUBSET Ends]
  BY DEF IInv, TypeOK
<1>5. AtLock = {} /\ PlaceOf(p) /\ "w" \in fds[p] /\ todo[p] = {} /\ shut[p] = {}
  BY <1>1 DEF IInv, PlaceInv, PlaceOf
<1>6. /\ After(p) \in {"user", "exit"} /\ (After(p) = "exit" <=> p \in killed)
      /\ Ending(p) = IF p \in killed THEN [todo EXCEPT ![p] = fds[p]] ELSE todo
  BY DEF After, Ending
<1>7. /\ pc' \in [Procs -> PCs] /\ todo' \in [Procs -> SUBSET Ends]
      /\ \A q \in Procs \ {p} : GoesOn(q) /\ todo'[q] = todo[q]
      /\ \/ pc'[p] = After(p) /\ todo' = Ending(p) /\ lock' = lock
         \/ pc'[p] = "writesleep" /\ todo' = todo /\ lock' = {p} /\ "r" \in open
              /\ k = PIPESIZE - Used
      /\ (\A q \in Procs \ {p} : pc'[q] # "readasleep") \/ "r" \notin open \/ p \in killed
  <2>1. Ending(p) \in [Procs -> SUBSET Ends] /\ \A q \in Procs \ {p} : Ending(p)[q] = todo[q]
    BY <1>4, <1>6
  <2>2. After(p) \in PCs /\ "writesleep" \in PCs
    BY <1>6 DEF PCs
  <2>3. CASE /\ pc' = [pc EXCEPT ![p] = After(p)]
             /\ todo' = Ending(p) /\ lock' = lock
             /\ "r" \notin open \/ p \in killed
    BY <1>4, <2>1, <2>2, <2>3 DEF GoesOn
  <2>4. CASE /\ pc' = [WakeReaders EXCEPT ![p] = After(p)]
             /\ todo' = Ending(p) /\ lock' = lock
    BY <1>4, <2>1, <2>2, <2>4, WokenIs DEF GoesOn
  <2>5. CASE /\ pc' = [WakeReaders EXCEPT ![p] = "writesleep"]
             /\ todo' = todo /\ lock' = {p}
             /\ k = PIPESIZE - Used /\ "r" \in open /\ p \notin killed
    BY <1>4, <2>2, <2>5, WokenIs DEF GoesOn
  <2> QED BY <1>2, <2>3, <2>4, <2>5
<1>8. TypeOK'
  BY <1>1, <1>3, <1>4, <1>7 DEF TypeOK
<1>9. RefInv'
  BY <1>1, SameRef DEF IInv
<1>10. PlaceInv'
  <2>1. PlaceOf(p)'
    BY <1>1, <1>4, <1>5, <1>6, <1>7 DEF PlaceOf
  <2>2. \/ lock' = lock /\ p \notin AtLock /\ p \notin AtLock'
        \/ lock = {} /\ lock' = {p} /\ p \in AtLock'
    BY <1>1, <1>5, <1>6, <1>7 DEF AtLock
  <2> QED BY <1>1, <1>4, <1>7, <2>1, <2>2, Placed DEF IInv
<1>11. SleepInv'
  <2>1. Used \in Nat /\ Used <= PIPESIZE /\ PIPESIZE \in Nat \ {0}
    BY <1>4, UsedType, WordTypes DEF IInv
  <2>2. (Full => Full') /\ (k = PIPESIZE - Used => Full')
    BY <1>3, <1>4, <1>8, <2>1, UsedType, UsedTypeNext
  <2>3. SleepsFor(p)'
    BY <1>1, <1>6, <1>7, <2>2 DEF SleepsFor
  <2>4. ASSUME NEW q \in Procs \ {p} PROVE SleepsFor(q)'
    <3>1. SleepsFor(q) /\ GoesOn(q) /\ q \notin AtLock
      BY <1>5, <1>7 DEF IInv, SleepInv
    <3>2. pc'[q] \notin {"readsleep", "writesleep"}
      BY <3>1 DEF GoesOn, AtLock
    <3>3. pc'[q] = "writeasleep" => "r" \in open' /\ (kills' = 0 => Full')
      BY <1>1, <2>2, <3>1 DEF GoesOn, SleepsFor
    <3>4. pc'[q] = "readasleep" => "w" \in open' /\ kills' # 0
      <4> SUFFICES ASSUME pc'[q] = "readasleep" PROVE "w" \in open' /\ kills' # 0
        OBVIOUS
      <4>1. pc[q] = "readasleep" /\ "w" \in open
        BY <3>1 DEF GoesOn, SleepsFor
      <4>2. "r" \in fds[q]
        BY <4>1 DEF IInv, PlaceInv, PlaceOf
      <4>3. "r" \in open
        BY <4>2 DEF IInv, RefInv, Abandoned, Ends
      <4>4. p \in killed
        BY <1>7, <4>3
      <4> QED BY <1>1, <4>1, <4>4 DEF IInv, SleepInv
    <3> QED BY <3>2, <3>3, <3>4 DEF SleepsFor
  <2> QED BY <1>1, <2>3, <2>4 DEF IInv, SleepInv
<1>12. Used' <= PIPESIZE
  <2>1. Used \in Nat /\ PIPESIZE \in Nat
    BY <1>4, UsedType, WordTypes
  <2> QED BY <1>3, <2>1
<1> QED BY <1>8, <1>9, <1>10, <1>11, <1>12 DEF IInv

LEMMA ReadKeeps ==
  ASSUME IInv, NEW p \in Procs, Read(p), kills' = kills
  PROVE  IInv'
<1>1. /\ pc[p] = "read" /\ lock = {}
      /\ UNCHANGED <<data, nwrite, open, freed, ref, fds, shut, killed>>
  BY DEF Read
<1>2. PICK k \in 0 .. Used :
        /\ moved' = [i \in 1 .. k |-> data[(nread + i - 1) % PIPESIZE]]
        /\ nread' = (nread + k) % Word /\ nwrite' = nwrite /\ data' = data
        /\ arg' \in [Procs -> Nat]
        /\ \/ /\ pc' = [pc EXCEPT ![p] = "readsleep"]
              /\ todo' = todo /\ lock' = {p}
              /\ k = 0 /\ Empty /\ "w" \in open /\ p \notin killed
           \/ /\ pc' = [pc EXCEPT ![p] = After(p)]
              /\ todo' = Ending(p) /\ lock' = lock
              /\ p \in killed
           \/ /\ pc' = [WakeWriters EXCEPT ![p] = After(p)]
              /\ todo' = Ending(p) /\ lock' = lock
  BY ReadEffect DEF IInv
<1>3. nread' \in 0 .. Word - 1 /\ Used' = Used - k
  BY <1>2, Takes DEF IInv
<1>4. /\ TypeOK /\ pc \in [Procs -> PCs] /\ fds \in [Procs -> SUBSET Ends]
      /\ todo \in [Procs -> SUBSET Ends] /\ shut \in [Procs -> SUBSET Ends]
  BY DEF IInv, TypeOK
<1>5. AtLock = {} /\ PlaceOf(p) /\ "r" \in fds[p] /\ todo[p] = {} /\ shut[p] = {}
  BY <1>1 DEF IInv, PlaceInv, PlaceOf
<1>6. /\ After(p) \in {"user", "exit"} /\ (After(p) = "exit" <=> p \in killed)
      /\ Ending(p) = IF p \in killed THEN [todo EXCEPT ![p] = fds[p]] ELSE todo
  BY DEF After, Ending
<1>7. /\ pc' \in [Procs -> PCs] /\ todo' \in [Procs -> SUBSET Ends]
      /\ \A q \in Procs \ {p} : GoesOn(q) /\ todo'[q] = todo[q]
      /\ \/ pc'[p] = After(p) /\ todo' = Ending(p) /\ lock' = lock
         \/ pc'[p] = "readsleep" /\ todo' = todo /\ lock' = {p} /\ "w" \in open
              /\ k = 0 /\ Empty
      /\ \/ \A q \in Procs \ {p} : pc'[q] # "writeasleep"
         \/ k = 0
         \/ p \in killed
  <2>1. Ending(p) \in [Procs -> SUBSET Ends] /\ \A q \in Procs \ {p} : Ending(p)[q] = todo[q]
    BY <1>4, <1>6
  <2>2. After(p) \in PCs /\ "readsleep" \in PCs
    BY <1>6 DEF PCs
  <2>3. CASE /\ pc' = [pc EXCEPT ![p] = "readsleep"]
             /\ todo' = todo /\ lock' = {p}
             /\ k = 0 /\ Empty /\ "w" \in open /\ p \notin killed
    BY <1>4, <2>2, <2>3 DEF GoesOn
  <2>4. CASE /\ pc' = [pc EXCEPT ![p] = After(p)]
             /\ todo' = Ending(p) /\ lock' = lock
             /\ p \in killed
    BY <1>4, <2>1, <2>2, <2>4 DEF GoesOn
  <2>5. CASE /\ pc' = [WakeWriters EXCEPT ![p] = After(p)]
             /\ todo' = Ending(p) /\ lock' = lock
    BY <1>4, <2>1, <2>2, <2>5, WokenIs DEF GoesOn
  <2> QED BY <1>2, <2>3, <2>4, <2>5
<1>8. TypeOK'
  BY <1>1, <1>2, <1>3, <1>4, <1>7 DEF TypeOK
<1>9. RefInv'
  BY <1>1, SameRef DEF IInv
<1>10. PlaceInv'
  <2>1. PlaceOf(p)'
    BY <1>1, <1>4, <1>5, <1>6, <1>7 DEF PlaceOf
  <2>2. \/ lock' = lock /\ p \notin AtLock /\ p \notin AtLock'
        \/ lock = {} /\ lock' = {p} /\ p \in AtLock'
    BY <1>1, <1>5, <1>6, <1>7 DEF AtLock
  <2> QED BY <1>1, <1>4, <1>7, <2>1, <2>2, Placed DEF IInv
<1>11. SleepInv'
  <2>1. Used \in Nat /\ k \in 0 .. Used /\ PIPESIZE \in Nat \ {0}
    BY <1>4, UsedType, WordTypes
  <2>2. (Empty => Empty') /\ (k = 0 /\ Full => Full')
    BY <1>3, <1>4, <1>8, <2>1, UsedType, UsedTypeNext
  <2>3. SleepsFor(p)'
    BY <1>1, <1>6, <1>7, <2>2 DEF SleepsFor
  <2>4. ASSUME NEW q \in Procs \ {p} PROVE SleepsFor(q)'
    <3>1. SleepsFor(q) /\ GoesOn(q) /\ q \notin AtLock
      BY <1>5, <1>7 DEF IInv, SleepInv
    <3>2. pc'[q] \notin {"readsleep", "writesleep"}
      BY <3>1 DEF GoesOn, AtLock
    <3>3. pc'[q] = "readasleep" => "w" \in open' /\ (kills' = 0 => Empty')
      BY <1>1, <2>2, <3>1 DEF GoesOn, SleepsFor
    <3>4. pc'[q] = "writeasleep" => "r" \in open' /\ (kills' = 0 => Full')
      <4> SUFFICES ASSUME pc'[q] = "writeasleep"
                   PROVE  "r" \in open' /\ (kills' = 0 => Full')
        OBVIOUS
      <4>1. pc[q] = "writeasleep" /\ "r" \in open /\ (kills = 0 => Full)
        BY <3>1 DEF GoesOn, SleepsFor
      <4>2. kills # 0 \/ k = 0
        BY <1>7 DEF IInv, SleepInv
      <4> QED BY <1>1, <2>2, <4>1, <4>2
    <3> QED BY <3>2, <3>3, <3>4 DEF SleepsFor
  <2> QED BY <1>1, <2>3, <2>4 DEF IInv, SleepInv
<1>12. Used' <= PIPESIZE
  <2>1. Used \in Nat /\ PIPESIZE \in Nat /\ Used <= PIPESIZE
    BY <1>4, UsedType, WordTypes DEF IInv
  <2> QED BY <1>3, <2>1
<1> QED BY <1>8, <1>9, <1>10, <1>11, <1>12 DEF IInv

LEMMA StepKeeps ==
  ASSUME IInv, Next
  PROVE  IInv'
<1>1. PICK p \in Procs : Step(p)
  BY DEF Next
<1>2. kills' = kills
  BY DEF Next
<1>3. CASE \E n \in WriteArgs : Call(p, "write", "w", n)
  <2>1. PICK n \in WriteArgs : Call(p, "write", "w", n)
    BY <1>3
  <2>2. n \in Nat
    BY PipeAssumption
  <2> QED BY <1>2, <2>1, <2>2, CallKeeps
<1>4. CASE \E n \in ReadArgs : Call(p, "read", "r", n)
  <2>1. PICK n \in ReadArgs : Call(p, "read", "r", n)
    BY <1>4
  <2>2. n \in Nat
    BY PipeAssumption
  <2> QED BY <1>2, <2>1, <2>2, CallKeeps
<1>5. CASE Write(p)
  BY <1>2, <1>5, WriteKeeps
<1>6. CASE Read(p)
  BY <1>2, <1>6, ReadKeeps
<1>7. CASE Sleep(p)
  BY <1>2, <1>7, SleepKeeps
<1>8. CASE (\E e \in Ends : Close(p, e)) \/ Exit(p)
  BY <1>2, <1>8, CloseKeeps
<1>9. CASE FileClose(p)
  BY <1>2, <1>9, FileCloseKeeps
<1>10. CASE PipeClose(p)
  BY <1>2, <1>10, PipeCloseKeeps
<1>11. CASE Closed(p)
  BY <1>2, <1>11, ClosedKeeps
<1>12. CASE Fork(p)
  BY <1>2, <1>12, ForkKeeps
<1>13. CASE Kill(p)
  BY <1>2, <1>13, KillKeeps
<1> QED BY <1>1, <1>3, <1>4, <1>5, <1>6, <1>7, <1>8, <1>9, <1>10, <1>11, <1>12, <1>13 DEF Step

-----------------------------------------------------------------------------
(* The theorems                                                            *)

\* Whatever read, write, fork, close, exit and kill interleave, the ring
\* holds at most PIPESIZE bytes, f->ref counts the holders of each end, one
\* process at a time is between the lock of the pipe and its sleep, and who
\* sleeps has something to wait for.
THEOREM Invariance == Spec => []IInv
<1>1. Init => IInv
  BY InitKeeps
<1>2. IInv /\ [Next]_vars => IInv'
  <2>1. CASE Next
    BY <2>1, StepKeeps
  <2>2. ASSUME IInv, UNCHANGED vars PROVE IInv'
    <3>2. Used' = Used /\ TypeOK'
      BY <2>2 DEF vars, IInv, TypeOK, Used
    <3>3. RefInv'
      BY <2>2, SameRef DEF vars, IInv
    <3>4. PlaceInv' /\ SleepInv'
      BY <2>2 DEF vars, IInv, PlaceInv, PlaceOf, AtLock, SleepInv, SleepsFor, Empty, Full
    <3> QED BY <2>2, <3>2, <3>3, <3>4 DEF IInv
  <2> QED BY <2>1, <2>2
<1> QED BY <1>1, <1>2, PTL DEF Spec

\* fileclose and pipeclose close an end, and free the pipe, only when no
\* process holds it any more.
THEOREM EndsStayOpen == Spec => []OpenWhileHeld
<1>1. IInv => OpenWhileHeld
  <2> SUFFICES ASSUME IInv, NEW p \in Procs
               PROVE  TypeOK /\ fds[p] \cup shut[p] \subseteq open
                        /\ (fds[p] \cup shut[p] # {} => ~freed)
    BY DEF OpenWhileHeld, IInv
  <2>1. TypeOK /\ fds[p] \subseteq Ends /\ shut[p] \subseteq Ends
    BY DEF IInv, TypeOK
  <2>2. fds[p] \cup shut[p] \subseteq open
    BY <2>1 DEF IInv, RefInv, Abandoned
  <2> QED BY <2>1, <2>2 DEF IInv, RefInv
<1> QED BY <1>1, Invariance, PTL

\* No reader and no writer sleeps through the wakeup it needs (piperead,
\* pipewrite, pipeclose).
THEOREM SleepersAreWoken == Spec => []NoLostWakeup
<1>1. IInv => NoLostWakeup
  <2> SUFFICES ASSUME IInv, NEW p \in Procs
               PROVE  /\ pc[p] = "readasleep" =>
                           ~Abandoned("w") /\ (kills > 0 \/ (Empty /\ "w" \in open))
                      /\ pc[p] = "writeasleep" =>
                           ~Abandoned("r") /\ (kills > 0 \/ (Full /\ "r" \in open))
    BY DEF NoLostWakeup
  <2>1. kills # 0 => kills > 0
    BY PipeAssumption DEF IInv, TypeOK
  <2>2. ("w" \in open => ~Abandoned("w")) /\ ("r" \in open => ~Abandoned("r"))
    BY DEF IInv, RefInv, Ends
  <2> QED BY <2>1, <2>2 DEF IInv, SleepInv, SleepsFor
<1> QED BY <1>1, Invariance, PTL

\* A step that moves no byte sends nothing.
LEMMA NothingSent ==
  ASSUME TypeOK, Used <= PIPESIZE, NothingMoves
  PROVE  Stream!Send
<1>1. Queue' = Queue /\ moved' = <<>>
  BY SameRing DEF NothingMoves
<1>2. Queue \in Seq(Bytes) /\ Len(Queue) \in Nat /\ PIPESIZE - Len(Queue) \in Nat
  BY QueueIs, UsedType, WordTypes
<1>3. <<>> \in [1 .. 0 -> Bytes]
  <2> DEFINE t == [i \in 1 .. 0 |-> CHOOSE b \in Bytes : TRUE]
  <2>1. t \in [1 .. 0 -> Bytes]
    OBVIOUS
  <2> HIDE DEF t
  <2>2. t \in Seq(Bytes) /\ Len(t) = 0
    BY <2>1
  <2>3. t = <<>>
    BY <2>2, EmptySeq, SeqEqual
  <2> QED BY <2>1, <2>3
<1>4. moved' \in UNION {[1 .. n -> Bytes] : n \in 0 .. PIPESIZE - Len(Queue)}
  <2>1. 0 \in 0 .. PIPESIZE - Len(Queue)
    BY <1>2
  <2> QED BY <1>1, <1>3, <2>1, Zenon
<1>5. Queue \o <<>> = Queue
  BY <1>2
<1> QED BY <1>1, <1>4, <1>5 DEF Stream!Send

\* What pipewrite copies into the ring and piperead out of it is a queue of
\* bytes: they come out once and in order, whatever PIPESIZE is and however
\* often the counters wrap.
THEOREM PipeIsAQueue == Spec => Fifo
<1>1. Init => Stream!Init
  <2> SUFFICES ASSUME Init PROVE Queue = <<>> /\ moved = <<>>
    BY DEF Stream!Init
  <2>1. TypeOK /\ Used = 0
    BY InitKeeps, UsedType DEF IInv, Init, Empty
  <2>2. Queue \in Seq(Bytes) /\ Len(Queue) = 0
    BY <2>1, QueueIs
  <2> QED BY <2>2, EmptySeq, SeqEqual DEF Init
<1>2. IInv /\ [Next]_vars => [Stream!Send \/ Stream!Receive]_(Stream!streamVars)
  <2> SUFFICES ASSUME IInv, [Next]_vars
               PROVE  Stream!Send \/ Stream!Receive \/ UNCHANGED Stream!streamVars
    OBVIOUS
  <2>1. TypeOK /\ Used <= PIPESIZE
    BY DEF IInv
  <2>2. CASE UNCHANGED vars
    BY <2>2 DEF vars, Stream!streamVars, Queue, Used
  <2>3. ASSUME NEW p \in Procs, Write(p) PROVE Stream!Send
    BY <2>1, <2>3, WriteEffect, Puts
  <2>4. ASSUME NEW p \in Procs, Read(p) PROVE Stream!Receive
    BY <2>1, <2>4, ReadEffect, Takes
  <2>5. ASSUME NEW p \in Procs, Step(p), ~Write(p), ~Read(p) PROVE Stream!Send
    <3>1. NothingMoves
      BY <2>5 DEF Step, Call, Sleep, Close, Exit, FileClose, PipeClose, Closed, Fork, Kill
    <3> QED BY <2>1, <3>1, NothingSent
  <2> QED BY <2>2, <2>3, <2>4, <2>5 DEF Next
<1> QED BY <1>1, <1>2, Invariance, PTL DEF Spec, Fifo, Stream!Spec
=============================================================================
