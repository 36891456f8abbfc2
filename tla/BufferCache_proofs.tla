-------------------------- MODULE BufferCache_proofs --------------------------
(***************************************************************************)
(* The buffer cache implements one register for each block (BlockStore),   *)
(* and loses no wakeup, for any number of processes, blocks, buffers and   *)
(* values.                                                                 *)
(***************************************************************************)
EXTENDS BufferCache, FiniteSetTheorems, TLAPS

Users(b) == {p \in Procs : buf[p] = b}
Queued(b) == \E i \in 1 .. Len(idequeue) : idequeue[i] = b

\* A reference keeps a buffer on its block.
RefInv ==
  /\ \A p \in Procs : (pc[p] = "idle") <=> (buf[p] = "none")
  /\ \A p \in Procs : buf[p] # "none" => block[buf[p]] # "none"
  /\ \A b \in Buffers : refcnt[b] = Cardinality(Users(b))
  /\ \A b, c \in Buffers : block[b] = block[c] /\ b # c => block[b] = "none"

\* Between acquiresleep and releasesleep, and only then, a process is the one
\* that the sleep lock of its buffer names.
LockInv ==
  \A p \in Procs, b \in Buffers :
    (locker[b] = p) <=> (buf[p] = b /\ pc[p] \in {"hold", "rw", "disk"})

\* What the flags say of the place of the holder.
FlagsInv ==
  /\ \A b \in Buffers : flags[b] \in {{}, {"valid"}, {"valid", "dirty"}}
  /\ \A p \in Procs : pc[p] = "hold" => "valid" \in flags[buf[p]]
  /\ \A p \in Procs : pc[p] = "rw" => ~Synced(buf[p])
  /\ \A p \in Procs : changed[p] => pc[p] = "hold"

\* The queue of the driver holds the buffers whose holder waits for the disk,
\* each of them once, and the disk works on the first.
QueueInv ==
  /\ \A i, j \in 1 .. Len(idequeue) : idequeue[i] = idequeue[j] => i = j
  /\ \A b \in Buffers :
       Queued(b) <=> ~Synced(b) /\ \E p \in Procs : pc[p] = "disk" /\ buf[p] = b
  /\ command = Start(idequeue)

\* A sleeper has somebody to wake it.
SleepInv ==
  \A p \in Procs : asleep[p] =>
    \/ pc[p] = "acquire" /\ locker[buf[p]] # "none"
    \/ pc[p] = "disk" /\ Queued(buf[p])

\* Dirty buffers that nobody writes are in the log, which has room for
\* MaxPinned blocks.
Pinned == {b \in Buffers : /\ "dirty" \in flags[b]
                           /\ ~\E p \in Procs : pc[p] \in {"rw", "disk"} /\ buf[p] = b}
PanicInv ==
  /\ Cardinality(Pinned) <= MaxPinned
  /\ panicked # "none" =>
       panicked = "bget" /\ Cardinality(Buffers) < MaxPinned + Cardinality(Procs)

IInv == TypeOK /\ RefInv /\ LockInv /\ FlagsInv /\ QueueInv /\ SleepInv /\ PanicInv

\* A clean buffer that nobody is changing equals its block.
CleanInv ==
  \A b \in Buffers :
    Synced(b) /\ ~(\E p \in Procs : changed[p] /\ buf[p] = b)
      => data[b] = disk[block[b]]

-----------------------------------------------------------------------------
(* Operators of the model                                                  *)

\* What idestart tells the disk about a buffer that holds a block.
LEMMA TransferType ==
  ASSUME TypeOK, NEW b \in Buffers, block[b] # "none"
  PROVE  /\ Transfer(b) \in Commands
         /\ Transfer(b) # NoCommand
         /\ Transfer(b).block = block[b]
         /\ "dirty" \in flags[b] => Transfer(b).op = "write" /\ Transfer(b).data = data[b]
         /\ "dirty" \notin flags[b] => Transfer(b).op = "read"
<1>1. block[b] \in Blocks /\ data[b] \in Values
  BY DEF TypeOK
<1>2. CASE "dirty" \in flags[b]
  <2>1. Transfer(b) = WriteOf(block[b], data[b])
    BY <1>2 DEF Transfer
  <2> QED BY <1>1, <1>2, <2>1 DEF WriteOf, NoCommand, Commands
<1>3. CASE "dirty" \notin flags[b]
  <2>1. Transfer(b) = ReadOf(block[b])
    BY <1>3 DEF Transfer
  <2> QED BY <1>1, <1>3, <2>1 DEF ReadOf, NoCommand, Commands
<1> QED BY <1>2, <1>3

\* brelse keeps every buffer in the list, once.
LEMMA MoveToHeadKeeps ==
  ASSUME lru \in Seq(Buffers), ToSet(lru) = Buffers, IsInjective(lru),
         NEW b \in Buffers
  PROVE  /\ MoveToHead(b) \in Seq(Buffers)
         /\ ToSet(MoveToHead(b)) = Buffers /\ IsInjective(MoveToHead(b))
<1> DEFINE n == Len(lru)
           k == CHOOSE i \in 1 .. n : lru[i] = b
           m == MoveToHead(b)
<1>1. n \in Nat /\ DOMAIN lru = 1 .. n /\ \A i \in 1 .. n : lru[i] \in Buffers
  OBVIOUS
<1>2. \E i \in 1 .. n : lru[i] = b
  BY <1>1 DEF ToSet
<1>3. k \in 1 .. n /\ lru[k] = b
  BY <1>2
<1>4. m = [i \in 1 .. n |-> IF i = 1 THEN b ELSE IF i <= k THEN lru[i - 1] ELSE lru[i]]
  BY DEF MoveToHead
<1>5. \A i, j \in 1 .. n : lru[i] = lru[j] => i = j
  BY <1>1 DEF IsInjective
<1> HIDE DEF n, k, m
<1>6. m \in [1 .. n -> Buffers] /\ DOMAIN m = 1 .. n
  BY <1>1, <1>3, <1>4
<1>7. m \in Seq(Buffers)
  BY <1>1, <1>6
<1>8. \A c \in Buffers : \E i \in 1 .. n : m[i] = c
  <2> SUFFICES ASSUME NEW c \in Buffers PROVE \E i \in 1 .. n : m[i] = c
    OBVIOUS
  <2>1. PICK j \in 1 .. n : lru[j] = c
    BY <1>1 DEF ToSet
  <2>2. CASE j = k
    <3>1. 1 \in 1 .. n /\ m[1] = b
      BY <1>1, <1>3, <1>4
    <3> QED BY <1>3, <2>1, <2>2, <3>1
  <2>3. CASE j < k
    <3>1. j + 1 \in 1 .. n /\ m[j + 1] = lru[j]
      BY <1>1, <1>3, <1>4, <2>3
    <3> QED BY <2>1, <3>1
  <2>4. CASE j > k
    <3>1. m[j] = lru[j]
      BY <1>1, <1>3, <1>4, <2>4
    <3> QED BY <2>1, <3>1
  <2> QED BY <1>1, <1>3, <2>2, <2>3, <2>4
<1>9. \A i, j \in 1 .. n : m[i] = m[j] => i = j
  BY <1>1, <1>3, <1>4, <1>5
<1> QED BY <1>6, <1>7, <1>8, <1>9 DEF ToSet, IsInjective, m

\* The list of binit.
LEMMA InitialList ==
  /\ SetToSeq(Buffers) \in Seq(Buffers)
  /\ ToSet(SetToSeq(Buffers)) = Buffers /\ IsInjective(SetToSeq(Buffers))
<1> DEFINE n == Cardinality(Buffers)
           s == SetToSeq(Buffers)
<1>1. IsFiniteSet(Buffers)
  BY BufferAssumption
<1>2. n \in Nat /\ \E f : f \in Bijection(1 .. n, Buffers)
  BY <1>1, FS_CardinalityType DEF ExistsBijection
<1>3. \E f \in [1 .. n -> Buffers] : IsInjective(f)
  BY <1>2 DEF Bijection, Injection
<1>4. s \in [1 .. n -> Buffers] /\ IsInjective(s)
  BY <1>3 DEF SetToSeq
<1>5. Cardinality(1 .. n) = n
  BY <1>2, FS_Interval
<1> HIDE DEF n, s
<1>6. s \in Surjection(1 .. n, Buffers)
  BY <1>1, <1>4, <1>5, FS_Injection DEF Injection, n
<1> QED BY <1>2, <1>4, <1>6 DEF Surjection, ToSet, s

-----------------------------------------------------------------------------
(* Type correctness                                                        *)

LEMMA InitType == Init => TypeOK
<1> SUFFICES ASSUME Init PROVE TypeOK
  OBVIOUS
<1>1. lru \in Seq(Buffers) /\ ToSet(lru) = Buffers /\ IsInjective(lru)
  BY InitialList DEF Init
<1> QED BY <1>1 DEF Init, TypeOK

Places == {"idle", "acquire", "hold", "rw", "disk", "drop"}

LEMMA PlaceType ==
  ASSUME TypeOK, NEW p \in Procs, NEW l \in Places, Goto(p, l)
  PROVE  pc' \in [Procs -> Places]
BY DEF TypeOK, Places, Goto

\* A process that is not idle uses a buffer, which holds a block.
LEMMA UsesBuffer ==
  ASSUME TypeOK, RefInv, NEW p \in Procs, pc[p] # "idle"
  PROVE  /\ buf[p] \in Buffers /\ block[buf[p]] \in Blocks /\ p \in Users(buf[p])
         /\ refcnt[buf[p]] - 1 \in Nat
<1>1. buf[p] \in Buffers /\ p \in Users(buf[p])
  BY DEF TypeOK, RefInv, Users
<1>2. block[buf[p]] \in Blocks
  <2>1. block[buf[p]] # "none"
    BY <1>1, BufferAssumption DEF RefInv
  <2> QED BY <1>1, <2>1 DEF TypeOK
<1>3. IsFiniteSet(Users(buf[p]))
  BY BufferAssumption, FS_Subset DEF Users
<1>4. refcnt[buf[p]] \in Nat /\ refcnt[buf[p]] # 0
  <2>1. refcnt[buf[p]] = Cardinality(Users(buf[p])) /\ refcnt[buf[p]] \in Nat
    BY <1>1 DEF RefInv, TypeOK
  <2>2. Cardinality(Users(buf[p])) # 0
    BY <1>1, <1>3, FS_EmptySet
  <2> QED BY <2>1, <2>2
<1> QED BY <1>1, <1>2, <1>4

LEMMA TypeStep == TypeOK /\ RefInv /\ QueueInv /\ [Next]_vars => TypeOK'
<1> SUFFICES ASSUME TypeOK, RefInv, QueueInv, [Next]_vars
             PROVE  TypeOK'
  OBVIOUS
<1>1. ASSUME NEW p \in Procs, NEW n \in Blocks, Hit(p, n) PROVE TypeOK'
  <2>1. pc' \in [Procs -> Places]
    BY <1>1, PlaceType DEF Hit, Use, Places
  <2>2. PICK b \in Buffers : refcnt' = [refcnt EXCEPT ![b] = Referred(b)] /\ Use(p, b)
    BY <1>1 DEF Hit
  <2>3. refcnt' \in [Buffers -> Nat] /\ buf' \in [Procs -> Buffers \cup {"none"}]
    <3>1. refcnt \in [Buffers -> Nat] /\ buf \in [Procs -> Buffers \cup {"none"}]
      BY DEF TypeOK
    <3>2. Referred(b) \in Nat
      BY <3>1 DEF Referred
    <3> QED BY <2>2, <3>1, <3>2 DEF Use
  <2> QED BY <1>1, <2>1, <2>3 DEF TypeOK, Hit, Places, drive
<1>2. ASSUME NEW p \in Procs, NEW n \in Blocks, Miss(p, n) PROVE TypeOK'
  <2>1. pc' \in [Procs -> Places]
    BY <1>2, PlaceType DEF Miss, Use, Places
  <2>2. PICK b \in Buffers : /\ block' = [block EXCEPT ![b] = n]
                             /\ flags' = [flags EXCEPT ![b] = NoFlags(b)]
                             /\ refcnt' = [refcnt EXCEPT ![b] = 1]
                             /\ Use(p, b)
    BY <1>2 DEF Miss
  <2>3. refcnt' \in [Buffers -> Nat] /\ buf' \in [Procs -> Buffers \cup {"none"}]
    BY <2>2 DEF TypeOK, Use
  <2>4. /\ block' \in [Buffers -> Blocks \cup {"none"}]
        /\ flags' \in [Buffers -> SUBSET {"valid", "dirty"}]
    BY <2>2 DEF TypeOK, NoFlags
  <2> QED BY <1>2, <2>1, <2>3, <2>4 DEF TypeOK, Miss, Places, drive
<1>3. ASSUME NEW p \in Procs, NEW n \in Blocks, NoBuffers(p, n) PROVE TypeOK'
  BY <1>3 DEF TypeOK, NoBuffers, Panic
<1>4. ASSUME NEW p \in Procs, Acquire(p) PROVE TypeOK'
  <2>1. buf[p] \in Buffers
    BY <1>4, UsesBuffer DEF Acquire, At
  <2>2. pc' \in [Procs -> Places]
    <3>1. CASE UNCHANGED pc
      BY <3>1 DEF TypeOK, Places
    <3>2. CASE Goto(p, IF MustRead(buf[p]) THEN "rw" ELSE "hold")
      BY <3>2, PlaceType DEF Places
    <3> QED BY <1>4, <3>1, <3>2 DEF Acquire
  <2>3. locker' \in [Buffers -> Procs \cup {"none"}] /\ asleep' \in [Procs -> BOOLEAN]
    <3>1. \/ asleep' = [asleep EXCEPT ![p] = TRUE] /\ UNCHANGED locker
          \/ locker' = [locker EXCEPT ![buf[p]] = p] /\ UNCHANGED asleep
      BY <1>4 DEF Acquire
    <3>2. CASE asleep' = [asleep EXCEPT ![p] = TRUE] /\ UNCHANGED locker
      BY <3>2 DEF TypeOK
    <3>3. CASE locker' = [locker EXCEPT ![buf[p]] = p] /\ UNCHANGED asleep
      BY <2>1, <3>3 DEF TypeOK
    <3> QED BY <3>1, <3>2, <3>3
  <2>4. UNCHANGED <<bufs, flags, data, drive, buf, changed, panicked>>
    BY <1>4 DEF Acquire
  <2> QED BY <2>2, <2>3, <2>4 DEF TypeOK, Places, bufs, drive
<1>5. ASSUME NEW p \in Procs, NEW v \in Values, Change(p, v) PROVE TypeOK'
  BY <1>5 DEF TypeOK, Change, bufs, drive
<1>6. ASSUME NEW p \in Procs, LogWrite(p) PROVE TypeOK'
  BY <1>6 DEF TypeOK, LogWrite, bufs, drive
<1>7. ASSUME NEW p \in Procs, Bwrite(p) PROVE TypeOK'
  <2>1. CASE Panic("bwrite")
    BY <2>1 DEF TypeOK, Panic
  <2>2. CASE ~Panic("bwrite")
    <3>1. pc' \in [Procs -> Places]
      BY <1>7, <2>2, PlaceType DEF Bwrite, Places
    <3>2. /\ flags' \in [Buffers -> SUBSET {"valid", "dirty"}]
          /\ changed' \in [Procs -> BOOLEAN]
      <4>1. /\ flags' = [flags EXCEPT ![buf[p]] = @ \cup {"dirty"}]
            /\ changed' = [changed EXCEPT ![p] = FALSE]
        BY <1>7, <2>2 DEF Bwrite
      <4> QED BY <4>1 DEF TypeOK
    <3> QED BY <1>7, <2>2, <3>1, <3>2 DEF TypeOK, Bwrite, Places, bufs, drive
  <2> QED BY <2>1, <2>2
<1>8. ASSUME NEW p \in Procs, Iderw(p) PROVE TypeOK'
  <2>1. CASE Panic("not locked") \/ Panic("nothing to do")
    BY <2>1 DEF TypeOK, Panic
  <2>2. CASE ~(Panic("not locked") \/ Panic("nothing to do"))
    <3>1. buf[p] \in Buffers /\ block[buf[p]] # "none"
      BY <1>8 DEF TypeOK, RefInv, Iderw, At
    <3>2. Transfer(buf[p]) \in Commands
      BY <3>1, TransferType
    <3>3. pc' \in [Procs -> Places]
      BY <1>8, <2>2, PlaceType DEF Iderw, Places
    <3>4. idequeue' \in Seq(Buffers) /\ command' \in {NoCommand} \cup Commands
      <4>1. /\ idequeue' = Append(idequeue, buf[p])
            /\ command' = IF idequeue = <<>> THEN Transfer(buf[p]) ELSE command
        BY <1>8, <2>2 DEF Iderw
      <4>2. idequeue \in Seq(Buffers) /\ command \in {NoCommand} \cup Commands
        BY DEF TypeOK
      <4> QED BY <3>1, <3>2, <4>1, <4>2
    <3>5. asleep' \in [Procs -> BOOLEAN]
      BY <1>8, <2>2 DEF TypeOK, Iderw
    <3> QED BY <1>8, <2>2, <3>3, <3>4, <3>5 DEF TypeOK, Iderw, Places, bufs
  <2> QED BY <2>1, <2>2
<1>9. ASSUME NEW p \in Procs, Woken(p) PROVE TypeOK'
  BY <1>9 DEF TypeOK, Woken, Goto, bufs, drive
<1>10. ASSUME Ideintr PROVE TypeOK'
  <2> DEFINE b == Head(idequeue)
  <2>1. idequeue # <<>> /\ b \in Buffers /\ Queued(b) /\ Tail(idequeue) \in Seq(Buffers)
    BY <1>10 DEF TypeOK, Ideintr, Queued
  <2>2. block[b] \in Blocks /\ command = Transfer(b)
    <3>1. PICK q \in Procs : pc[q] = "disk" /\ buf[q] = b
      BY <2>1 DEF QueueInv
    <3> QED BY <2>1, <3>1, UsesBuffer DEF QueueInv, Start
  <2>3. disk' \in [Blocks -> Values] /\ data' \in [Buffers -> Values]
    <3>1. command.block \in Blocks /\ (command.op = "write" => command.data \in Values)
      <4>1. data[b] \in Values /\ block[b] # "none"
        BY <2>1, <2>2, BufferAssumption DEF TypeOK
      <4> QED BY <2>1, <2>2, <4>1, TransferType
    <3>2. disk' = disk \/ (/\ command.op = "write"
                           /\ disk' = [disk EXCEPT ![command.block] = command.data])
      BY <1>10 DEF Ideintr
    <3>3. disk \in [Blocks -> Values] /\ data \in [Buffers -> Values]
      BY DEF TypeOK
    <3>4. disk' \in [Blocks -> Values]
      <4>1. CASE disk' = disk
        BY <3>3, <4>1
      <4>2. CASE /\ command.op = "write"
                 /\ disk' = [disk EXCEPT ![command.block] = command.data]
        BY <3>1, <3>3, <4>2
      <4> QED BY <3>2, <4>1, <4>2
    <3>5. data' = data \/ data' = [data EXCEPT ![b] = disk[command.block]]
      BY <1>10 DEF Ideintr
    <3>6. data' \in [Buffers -> Values]
      <4>1. disk[command.block] \in Values
        BY <3>1, <3>3
      <4>2. CASE data' = data
        BY <3>3, <4>2
      <4>3. CASE data' = [data EXCEPT ![b] = disk[command.block]]
        <5> HIDE DEF b
        <5> QED BY <2>1, <3>3, <4>1, <4>3
      <4> QED BY <3>5, <4>2, <4>3
    <3> QED BY <3>4, <3>6
  <2>4. command' \in {NoCommand} \cup Commands
    <3>1. CASE Tail(idequeue) = <<>>
      BY <1>10, <3>1 DEF Ideintr, NextCommand, Start
    <3>2. CASE Tail(idequeue) # <<>>
      <4> DEFINE c == Head(Tail(idequeue))
      <4>1. c \in Buffers /\ Queued(c)
        <5>1. idequeue \in Seq(Buffers)
          BY DEF TypeOK
        <5>2. Len(idequeue) >= 2 /\ c = idequeue[2]
          BY <2>1, <3>2, <5>1
        <5> QED BY <5>1, <5>2 DEF Queued
      <4>2. block[c] # "none"
        <5>1. PICK q \in Procs : pc[q] = "disk" /\ buf[q] = c
          BY <4>1 DEF QueueInv
        <5> QED BY <5>1, UsesBuffer, BufferAssumption
      <4> QED BY <1>10, <3>2, <4>1, <4>2, TransferType DEF Ideintr, NextCommand, Start
    <3> QED BY <3>1, <3>2
  <2>5. /\ flags' = [flags EXCEPT ![b] = {"valid"}]
        /\ idequeue' = Tail(idequeue)
        /\ asleep' = [p \in Procs |-> asleep[p] /\ ~(pc[p] = "disk" /\ buf[p] = b)]
        /\ UNCHANGED <<bufs, locker, pc, buf, changed, panicked>>
    BY <1>10 DEF Ideintr, WakeAll
  <2>6. flags' \in [Buffers -> SUBSET {"valid", "dirty"}] /\ asleep' \in [Procs -> BOOLEAN]
    <3> HIDE DEF b
    <3>1. flags \in [Buffers -> SUBSET {"valid", "dirty"}]
      BY DEF TypeOK
    <3>2. flags' \in [Buffers -> SUBSET {"valid", "dirty"}]
      BY <2>1, <2>5, <3>1
    <3> QED BY <2>5, <3>2
  <2> QED BY <2>1, <2>3, <2>4, <2>5, <2>6 DEF TypeOK, bufs
<1>11. ASSUME NEW p \in Procs, Brelse(p) PROVE TypeOK'
  BY <1>11 DEF TypeOK, Brelse, Panic, Goto, WakeAll, bufs, drive
<1>12. ASSUME NEW p \in Procs, Drop(p) PROVE TypeOK'
  <2>1. buf[p] \in Buffers /\ refcnt[buf[p]] - 1 \in Nat
    BY <1>12, UsesBuffer DEF Drop, At
  <2>2. pc' \in [Procs -> Places]
    BY <1>12, PlaceType DEF Drop, Places
  <2>3. lru' \in Seq(Buffers) /\ ToSet(lru)' = Buffers /\ IsInjective(lru)'
    BY <1>12, <2>1, MoveToHeadKeeps DEF TypeOK, Drop
  <2>4. refcnt' \in [Buffers -> Nat] /\ buf' \in [Procs -> Buffers \cup {"none"}]
    BY <1>12, <2>1 DEF TypeOK, Drop
  <2> QED BY <1>12, <2>2, <2>3, <2>4 DEF TypeOK, Drop, Places, drive
<1>13. ASSUME NEW p \in Procs, Kill(p) PROVE TypeOK'
  BY <1>13 DEF TypeOK, Kill, bufs, drive
<1>14. CASE UNCHANGED vars
  BY <1>14 DEF TypeOK, vars
<1> QED BY <1>1, <1>2, <1>3, <1>4, <1>5, <1>6, <1>7, <1>8, <1>9, <1>10, <1>11,
           <1>12, <1>13, <1>14 DEF Next, Continue

-----------------------------------------------------------------------------
(* References                                                              *)

\* bget adds its caller to the users of one buffer, brelse takes it away.
LEMMA Joining ==
  ASSUME TypeOK, NEW p \in Procs, NEW b \in Buffers, buf[p] = "none",
         buf' = [buf EXCEPT ![p] = b]
  PROVE  \A c \in Buffers :
           Cardinality(Users(c)') = Cardinality(Users(c)) + IF c = b THEN 1 ELSE 0
<1>1. buf \in [Procs -> Buffers \cup {"none"}] /\ "none" \notin Buffers
  BY BufferAssumption DEF TypeOK
<1> SUFFICES ASSUME NEW c \in Buffers
             PROVE  Cardinality(Users(c)') = Cardinality(Users(c)) + IF c = b THEN 1 ELSE 0
  OBVIOUS
<1>2. IsFiniteSet(Users(c)) /\ Cardinality(Users(c)) \in Nat
  BY BufferAssumption, FS_Subset, FS_CardinalityType DEF Users
<1>3. p \notin Users(c) /\ Users(c)' = IF c = b THEN Users(c) \cup {p} ELSE Users(c)
  BY <1>1 DEF Users
<1> QED BY <1>2, <1>3, FS_AddElement

LEMMA Leaving ==
  ASSUME TypeOK, NEW p \in Procs, NEW b \in Buffers, buf[p] = b,
         buf' = [buf EXCEPT ![p] = "none"]
  PROVE  \A c \in Buffers :
           Cardinality(Users(c)') = Cardinality(Users(c)) - IF c = b THEN 1 ELSE 0
<1>1. buf \in [Procs -> Buffers \cup {"none"}] /\ "none" \notin Buffers
  BY BufferAssumption DEF TypeOK
<1> SUFFICES ASSUME NEW c \in Buffers
             PROVE  Cardinality(Users(c)') = Cardinality(Users(c)) - IF c = b THEN 1 ELSE 0
  OBVIOUS
<1>2. IsFiniteSet(Users(c)) /\ Cardinality(Users(c)) \in Nat
  BY BufferAssumption, FS_Subset, FS_CardinalityType DEF Users
<1>3. Users(c)' = IF c = b THEN Users(c) \ {p} ELSE Users(c)
  BY <1>1 DEF Users
<1>4. c = b => p \in Users(c)
  BY DEF Users
<1>5. c = b => Cardinality(Users(c) \ {p}) = Cardinality(Users(c)) - 1
  BY <1>2, <1>4, FS_RemoveElement
<1> QED BY <1>2, <1>3, <1>5

\* A buffer without references has no user.
LEMMA Unused ==
  ASSUME RefInv, NEW b \in Buffers, refcnt[b] = 0
  PROVE  \A p \in Procs : buf[p] # b
<1>1. Cardinality(Users(b)) = 0
  BY DEF RefInv
<1>2. Users(b) = {}
  BY <1>1, BufferAssumption, FS_Subset, FS_EmptySet DEF Users
<1> QED BY <1>2 DEF Users

\* Steps that leave every reference alone.
SameRefs ==
  /\ UNCHANGED <<block, refcnt, buf>>
  /\ \A p \in Procs : (pc[p] = "idle") <=> (pc'[p] = "idle")

LEMMA SameRefsKeep == RefInv /\ SameRefs => RefInv'
BY DEF RefInv, SameRefs, Users

\* The steps of Next, one operation each.
LEMMA StepKinds ==
  ASSUME [Next]_vars
  PROVE  \/ Ideintr \/ UNCHANGED vars
         \/ \E p \in Procs, n \in Blocks : Hit(p, n) \/ Miss(p, n) \/ NoBuffers(p, n)
         \/ \E p \in Procs, v \in Values : Change(p, v)
         \/ \E p \in Procs : \/ LogWrite(p) \/ Bwrite(p) \/ Acquire(p) \/ Iderw(p)
                             \/ Woken(p) \/ Brelse(p) \/ Drop(p) \/ Kill(p)
BY DEF Next, Continue

LEMMA RefStep == TypeOK /\ RefInv /\ [Next]_vars => RefInv'
<1> SUFFICES ASSUME TypeOK, RefInv, [Next]_vars PROVE RefInv'
  OBVIOUS
<1>a. /\ pc \in [Procs -> Places] /\ buf \in [Procs -> Buffers \cup {"none"}]
      /\ block \in [Buffers -> Blocks \cup {"none"}] /\ refcnt \in [Buffers -> Nat]
      /\ "none" \notin Buffers /\ "none" \notin Blocks
  BY BufferAssumption DEF TypeOK, Places
<1>1. ASSUME NEW p \in Procs, NEW n \in Blocks, Hit(p, n) PROVE RefInv'
  <2>1. PICK b \in Buffers : /\ FirstOf(Cached(n), b)
                             /\ refcnt' = [refcnt EXCEPT ![b] = Referred(b)]
                             /\ buf' = [buf EXCEPT ![p] = b]
                             /\ pc' = [pc EXCEPT ![p] = "acquire"]
    BY <1>1 DEF Hit, Use, Goto
  <2>2. pc[p] = "idle" /\ buf[p] = "none" /\ block' = block /\ block[b] = n
    BY <1>1, <2>1 DEF Hit, At, RefInv, FirstOf, Cached
  <2>3. \A q \in Procs : (pc'[q] = "idle") <=> (buf'[q] = "none")
    BY <1>a, <2>1, <2>2 DEF RefInv
  <2>4. \A q \in Procs : buf'[q] # "none" => block'[buf'[q]] # "none"
    BY <1>a, <2>1, <2>2 DEF RefInv
  <2>5. \A c \in Buffers : refcnt'[c] = Cardinality(Users(c)')
    <3>1. \A c \in Buffers : refcnt'[c] = refcnt[c] + IF c = b THEN 1 ELSE 0
      BY <1>a, <2>1 DEF Referred
    <3>2. \A c \in Buffers :
            Cardinality(Users(c)') = Cardinality(Users(c)) + IF c = b THEN 1 ELSE 0
      BY <2>1, <2>2, Joining
    <3>3. \A c \in Buffers : refcnt[c] = Cardinality(Users(c))
      BY DEF RefInv
    <3> QED BY <3>1, <3>2, <3>3
  <2> QED BY <2>2, <2>3, <2>4, <2>5 DEF RefInv
<1>2. ASSUME NEW p \in Procs, NEW n \in Blocks, Miss(p, n) PROVE RefInv'
  <2>1. PICK b \in Buffers : /\ LastOf(Recyclable, b)
                             /\ block' = [block EXCEPT ![b] = n]
                             /\ refcnt' = [refcnt EXCEPT ![b] = 1]
                             /\ buf' = [buf EXCEPT ![p] = b]
                             /\ pc' = [pc EXCEPT ![p] = "acquire"]
    BY <1>2 DEF Miss, Use, Goto
  <2>2. /\ pc[p] = "idle" /\ buf[p] = "none" /\ refcnt[b] = 0
        /\ \A c \in Buffers : block[c] # n
    BY <1>2, <2>1 DEF Miss, At, RefInv, LastOf, Recyclable, Cached
  <2>3. \A q \in Procs : (pc'[q] = "idle") <=> (buf'[q] = "none")
    BY <1>a, <2>1, <2>2 DEF RefInv
  <2>4. \A q \in Procs : buf'[q] # "none" => block'[buf'[q]] # "none"
    BY <1>a, <2>1, <2>2, Unused DEF RefInv
  <2>5. \A c \in Buffers : refcnt'[c] = Cardinality(Users(c)')
    <3>1. \A c \in Buffers : refcnt'[c] = refcnt[c] + IF c = b THEN 1 ELSE 0
      BY <1>a, <2>1, <2>2
    <3>2. \A c \in Buffers :
            Cardinality(Users(c)') = Cardinality(Users(c)) + IF c = b THEN 1 ELSE 0
      BY <2>1, <2>2, Joining
    <3>3. \A c \in Buffers : refcnt[c] = Cardinality(Users(c))
      BY DEF RefInv
    <3> QED BY <3>1, <3>2, <3>3
  <2>6. \A c, d \in Buffers : block'[c] = block'[d] /\ c # d => block'[c] = "none"
    BY <1>a, <2>1, <2>2 DEF RefInv
  <2> QED BY <2>3, <2>4, <2>5, <2>6 DEF RefInv
<1>3. ASSUME NEW p \in Procs, Drop(p) PROVE RefInv'
  <2> DEFINE b == buf[p]
  <2>1. pc[p] = "drop" /\ b \in Buffers
    BY <1>3, UsesBuffer DEF Drop, At
  <2>2. /\ refcnt' = [refcnt EXCEPT ![b] = @ - 1] /\ block' = block
        /\ buf' = [buf EXCEPT ![p] = "none"] /\ pc' = [pc EXCEPT ![p] = "idle"]
    BY <1>3 DEF Drop, Goto
  <2>3. \A q \in Procs : (pc'[q] = "idle") <=> (buf'[q] = "none")
    BY <1>a, <2>1, <2>2 DEF RefInv
  <2>4. \A q \in Procs : buf'[q] # "none" => block'[buf'[q]] # "none"
    BY <1>a, <2>1, <2>2 DEF RefInv
  <2>5. \A c \in Buffers : refcnt'[c] = Cardinality(Users(c)')
    <3>1. \A c \in Buffers : refcnt'[c] = refcnt[c] - IF c = b THEN 1 ELSE 0
      BY <1>a, <2>1, <2>2
    <3>2. \A c \in Buffers :
            Cardinality(Users(c)') = Cardinality(Users(c)) - IF c = b THEN 1 ELSE 0
      BY <2>1, <2>2, Leaving
    <3>3. \A c \in Buffers : refcnt[c] = Cardinality(Users(c))
      BY DEF RefInv
    <3> QED BY <3>1, <3>2, <3>3
  <2> QED BY <2>2, <2>3, <2>4, <2>5 DEF RefInv
<1>4. ASSUME NEW p \in Procs,
             \/ Acquire(p) \/ LogWrite(p) \/ Bwrite(p) \/ Iderw(p) \/ Woken(p)
             \/ Brelse(p) \/ Kill(p) \/ \E n \in Blocks : NoBuffers(p, n)
             \/ \E v \in Values : Change(p, v)
      PROVE  SameRefs
  <2>1. UNCHANGED <<block, refcnt, buf>>
    BY <1>4 DEF Acquire, LogWrite, Bwrite, Iderw, Woken, Brelse, Kill, NoBuffers, Change,
                Panic, bufs
  <2>2. CASE UNCHANGED pc
    BY <2>1, <2>2 DEF SameRefs
  <2>3. CASE pc[p] # "idle" /\ \E l \in Places \ {"idle"} : Goto(p, l)
    BY <1>a, <2>1, <2>3 DEF SameRefs, Goto
  <2>4. ASSUME NEW v \in Values, Change(p, v) PROVE UNCHANGED pc
    BY <2>4 DEF Change
  <2>5. ASSUME NEW n \in Blocks, NoBuffers(p, n) PROVE UNCHANGED pc
    BY <2>5 DEF NoBuffers, Panic
  <2>6. CASE LogWrite(p) \/ Kill(p)
    BY <2>2, <2>6 DEF LogWrite, Kill
  <2>7. CASE Acquire(p)
    BY <2>2, <2>3, <2>7 DEF Acquire, At, Places
  <2>8. CASE Bwrite(p)
    BY <2>2, <2>3, <2>8 DEF Bwrite, At, Places, Panic
  <2>9. CASE Iderw(p)
    BY <2>2, <2>3, <2>9 DEF Iderw, At, Places, Panic
  <2>10. CASE Woken(p)
    BY <2>2, <2>3, <2>10 DEF Woken, At, Places
  <2>11. CASE Brelse(p)
    BY <2>2, <2>3, <2>11 DEF Brelse, At, Places, Panic
  <2> QED BY <1>4, <2>2, <2>4, <2>5, <2>6, <2>7, <2>8, <2>9, <2>10, <2>11
<1>5. CASE Ideintr \/ UNCHANGED vars
  BY <1>5, SameRefsKeep DEF SameRefs, Ideintr, vars, bufs
<1>6. CASE \E p \in Procs, n \in Blocks : Hit(p, n) \/ Miss(p, n) \/ NoBuffers(p, n)
  BY <1>1, <1>2, <1>4, <1>6, SameRefsKeep
<1>7. CASE \E p \in Procs, v \in Values : Change(p, v)
  BY <1>4, <1>7, SameRefsKeep
<1>8. CASE \E p \in Procs : \/ LogWrite(p) \/ Bwrite(p) \/ Acquire(p) \/ Iderw(p)
                           \/ Woken(p) \/ Brelse(p) \/ Drop(p) \/ Kill(p)
  BY <1>3, <1>4, <1>8, SameRefsKeep
<1> QED BY <1>5, <1>6, <1>7, <1>8, StepKinds

-----------------------------------------------------------------------------
(* The sleep locks                                                         *)

\* A holder meets none of the panics of bwrite, iderw and brelse.
LEMMA HolderHolds ==
  ASSUME TypeOK, RefInv, LockInv, NEW p \in Procs, pc[p] \in {"hold", "rw", "disk"}
  PROVE  Holding(p) /\ buf[p] \in Buffers
BY UsesBuffer DEF LockInv, Holding

LEMMA BwriteEffect ==
  ASSUME TypeOK, RefInv, LockInv, NEW p \in Procs, Bwrite(p)
  PROVE  /\ pc[p] = "hold" /\ buf[p] \in Buffers
         /\ flags' = [flags EXCEPT ![buf[p]] = @ \cup {"dirty"}]
         /\ changed' = [changed EXCEPT ![p] = FALSE]
         /\ pc' = [pc EXCEPT ![p] = "rw"]
         /\ UNCHANGED <<block, refcnt, lru, data, locker, idequeue, command, disk, buf,
                        asleep, panicked>>
<1>1. pc[p] = "hold"
  BY DEF Bwrite, At
<1> QED BY <1>1, HolderHolds DEF Bwrite, Goto, bufs, drive

LEMMA IderwEffect ==
  ASSUME TypeOK, RefInv, LockInv, FlagsInv, NEW p \in Procs, Iderw(p)
  PROVE  /\ pc[p] = "rw" /\ buf[p] \in Buffers
         /\ idequeue' = Append(idequeue, buf[p])
         /\ command' = IF idequeue = <<>> THEN Transfer(buf[p]) ELSE command
         /\ asleep' = [asleep EXCEPT ![p] = TRUE]
         /\ pc' = [pc EXCEPT ![p] = "disk"]
         /\ UNCHANGED <<block, refcnt, lru, flags, data, locker, disk, buf, changed,
                        panicked>>
<1>1. pc[p] = "rw"
  BY DEF Iderw, At
<1>2. ~Synced(buf[p])
  BY <1>1 DEF FlagsInv
<1> QED BY <1>1, <1>2, HolderHolds DEF Iderw, Goto, bufs

LEMMA BrelseEffect ==
  ASSUME TypeOK, RefInv, LockInv, NEW p \in Procs, Brelse(p)
  PROVE  /\ pc[p] = "hold" /\ ~changed[p] /\ buf[p] \in Buffers
         /\ locker' = [locker EXCEPT ![buf[p]] = "none"]
         /\ asleep' = WakeAll("acquire", buf[p])
         /\ pc' = [pc EXCEPT ![p] = "drop"]
         /\ UNCHANGED <<block, refcnt, lru, flags, data, idequeue, command, disk, buf,
                        changed, panicked>>
<1>1. pc[p] = "hold"
  BY DEF Brelse, At
<1> QED BY <1>1, HolderHolds DEF Brelse, Goto, bufs, drive

\* What bget does with the buffer it returns.
LEMMA BgetEffect ==
  ASSUME TypeOK, RefInv, NEW p \in Procs, NEW n \in Blocks, Hit(p, n) \/ Miss(p, n)
  PROVE  /\ pc[p] = "idle" /\ buf[p] = "none"
         /\ \E b \in Buffers : buf' = [buf EXCEPT ![p] = b]
         /\ pc' = [pc EXCEPT ![p] = "acquire"]
         /\ UNCHANGED <<lru, data, locker, idequeue, command, disk, asleep, changed,
                        panicked>>
<1>1. CASE Hit(p, n)
  BY <1>1 DEF Hit, At, Use, Goto, RefInv, drive
<1>2. CASE Miss(p, n)
  BY <1>2 DEF Miss, At, Use, Goto, RefInv, drive
<1> QED BY <1>1, <1>2

LEMMA LockStep ==
  TypeOK /\ RefInv /\ LockInv /\ FlagsInv /\ [Next]_vars => LockInv'
<1> SUFFICES ASSUME TypeOK, RefInv, LockInv, FlagsInv, [Next]_vars PROVE LockInv'
  OBVIOUS
<1>a. /\ pc \in [Procs -> Places] /\ buf \in [Procs -> Buffers \cup {"none"}]
      /\ locker \in [Buffers -> Procs \cup {"none"}]
      /\ "none" \notin Buffers /\ "none" \notin Procs
  BY BufferAssumption DEF TypeOK, Places
<1>1. ASSUME NEW p \in Procs, NEW n \in Blocks, Hit(p, n) \/ Miss(p, n) PROVE LockInv'
  BY <1>a, <1>1, BgetEffect DEF LockInv
<1>2. ASSUME NEW p \in Procs, Acquire(p) PROVE LockInv'
  <2> DEFINE b == buf[p]
  <2>1. pc[p] = "acquire" /\ b \in Buffers /\ buf' = buf
    BY <1>2, UsesBuffer DEF Acquire, At
  <2>2. CASE locker[b] # "none"
    BY <1>2, <2>1, <2>2 DEF LockInv, Acquire
  <2>3. CASE locker[b] = "none"
    <3>1. /\ locker' = [locker EXCEPT ![b] = p]
          /\ pc' = [pc EXCEPT ![p] = "rw"] \/ pc' = [pc EXCEPT ![p] = "hold"]
      BY <1>2, <2>3 DEF Acquire, Goto
    <3>2. \A q \in Procs : ~(buf[q] = b /\ pc[q] \in {"hold", "rw", "disk"})
      BY <1>a, <2>1, <2>3 DEF LockInv
    <3> QED BY <1>a, <2>1, <3>1, <3>2 DEF LockInv
  <2> QED BY <2>2, <2>3
<1>3. ASSUME NEW p \in Procs, Bwrite(p) PROVE LockInv'
  BY <1>a, <1>3, BwriteEffect DEF LockInv
<1>4. ASSUME NEW p \in Procs, Iderw(p) PROVE LockInv'
  BY <1>a, <1>4, IderwEffect DEF LockInv
<1>5. ASSUME NEW p \in Procs, Woken(p) PROVE LockInv'
  <2>1. pc[p] = "disk" /\ UNCHANGED <<buf, locker>>
    BY <1>5 DEF Woken, At
  <2>2. pc' = pc \/ pc' = [pc EXCEPT ![p] = "hold"]
    BY <1>5 DEF Woken, Goto
  <2> QED BY <1>a, <2>1, <2>2 DEF LockInv
<1>6. ASSUME NEW p \in Procs, Brelse(p) PROVE LockInv'
  <2>1. \A q \in Procs \ {p} : ~(buf[q] = buf[p] /\ pc[q] \in {"hold", "rw", "disk"})
    BY <1>6, BrelseEffect, HolderHolds DEF LockInv, Holding
  <2> QED BY <1>a, <1>6, <2>1, BrelseEffect DEF LockInv
<1>7. ASSUME NEW p \in Procs, Drop(p) PROVE LockInv'
  <2>1. /\ pc[p] = "drop" /\ UNCHANGED locker
        /\ buf' = [buf EXCEPT ![p] = "none"] /\ pc' = [pc EXCEPT ![p] = "idle"]
    BY <1>7 DEF Drop, At, Goto
  <2> QED BY <1>a, <2>1 DEF LockInv
<1>8. ASSUME UNCHANGED <<buf, pc, locker>> PROVE LockInv'
  BY <1>8 DEF LockInv
<1>9. CASE \E p \in Procs, v \in Values : Change(p, v)
  BY <1>8, <1>9 DEF Change
<1>10. CASE \E p \in Procs, n \in Blocks : NoBuffers(p, n)
  BY <1>8, <1>10 DEF NoBuffers, Panic
<1>11. CASE \E p \in Procs : LogWrite(p) \/ Kill(p)
  BY <1>8, <1>11 DEF LogWrite, Kill
<1>12. CASE Ideintr \/ UNCHANGED vars
  BY <1>8, <1>12 DEF Ideintr, vars
<1> QED BY <1>1, <1>2, <1>3, <1>4, <1>5, <1>6, <1>7, <1>9, <1>10, <1>11, <1>12,
           StepKinds

-----------------------------------------------------------------------------
(* The flags                                                               *)

\* A buffer has one holder.
LEMMA OneHolder ==
  ASSUME TypeOK, RefInv, LockInv, NEW p \in Procs, NEW q \in Procs,
         pc[p] \in {"hold", "rw", "disk"}, pc[q] \in {"hold", "rw", "disk"}, buf[p] = buf[q]
  PROVE  p = q
BY HolderHolds DEF Holding

\* The first request of the queue and who waits for it.
LEMMA FirstRequest ==
  ASSUME TypeOK, RefInv, QueueInv, idequeue # <<>>
  PROVE  /\ Head(idequeue) \in Buffers /\ Queued(Head(idequeue))
         /\ ~Synced(Head(idequeue)) /\ block[Head(idequeue)] \in Blocks
         /\ command = Transfer(Head(idequeue))
         /\ \E p \in Procs : pc[p] = "disk" /\ buf[p] = Head(idequeue)
<1>1. Head(idequeue) \in Buffers /\ Queued(Head(idequeue))
  <2>1. idequeue \in Seq(Buffers)
    BY DEF TypeOK
  <2> QED BY <2>1 DEF Queued
<1>2. PICK p \in Procs : pc[p] = "disk" /\ buf[p] = Head(idequeue)
  BY <1>1 DEF QueueInv
<1>3. block[Head(idequeue)] \in Blocks
  BY <1>2, UsesBuffer
<1> QED BY <1>1, <1>2, <1>3 DEF QueueInv, Start

LEMMA FlagsStep ==
  TypeOK /\ RefInv /\ LockInv /\ FlagsInv /\ QueueInv /\ [Next]_vars => FlagsInv'
<1> SUFFICES ASSUME TypeOK, RefInv, LockInv, FlagsInv, QueueInv, [Next]_vars
             PROVE  FlagsInv'
  OBVIOUS
<1>a. /\ pc \in [Procs -> Places] /\ buf \in [Procs -> Buffers \cup {"none"}]
      /\ flags \in [Buffers -> SUBSET {"valid", "dirty"}] /\ changed \in [Procs -> BOOLEAN]
      /\ "none" \notin Buffers
      /\ \A p \in Procs : pc[p] # "idle" => buf[p] \in Buffers
  BY BufferAssumption, UsesBuffer DEF TypeOK, Places
<1>1. ASSUME NEW p \in Procs, NEW n \in Blocks, Hit(p, n) PROVE FlagsInv'
  <2>1. UNCHANGED flags
    BY <1>1 DEF Hit
  <2> QED BY <1>a, <1>1, <2>1, BgetEffect DEF FlagsInv, Synced
<1>2. ASSUME NEW p \in Procs, NEW n \in Blocks, Miss(p, n) PROVE FlagsInv'
  <2>1. PICK b \in Buffers : /\ refcnt[b] = 0 /\ flags' = [flags EXCEPT ![b] = {}]
                             /\ buf' = [buf EXCEPT ![p] = b]
                             /\ pc' = [pc EXCEPT ![p] = "acquire"] /\ changed' = changed
                             /\ pc[p] = "idle"
    BY <1>2 DEF Miss, At, LastOf, Recyclable, NoFlags, Use, Goto
  <2>2. \A q \in Procs : buf[q] # b
    BY <2>1, Unused
  <2> QED BY <1>a, <2>1, <2>2 DEF FlagsInv, Synced
<1>3. ASSUME NEW p \in Procs, Acquire(p) PROVE FlagsInv'
  <2>1. /\ pc[p] = "acquire" /\ buf[p] \in Buffers /\ UNCHANGED <<buf, flags, changed>>
        /\ \/ pc' = pc
           \/ pc' = [pc EXCEPT ![p] = "rw"] /\ "valid" \notin flags[buf[p]]
           \/ pc' = [pc EXCEPT ![p] = "hold"] /\ "valid" \in flags[buf[p]]
    BY <1>3, UsesBuffer DEF Acquire, At, Goto, MustRead
  <2> QED BY <1>a, <2>1 DEF FlagsInv, Synced
<1>4. ASSUME NEW p \in Procs, NEW v \in Values, Change(p, v) PROVE FlagsInv'
  BY <1>a, <1>4 DEF Change, At, FlagsInv, Synced
<1>5. ASSUME NEW p \in Procs, LogWrite(p) PROVE FlagsInv'
  <2>1. /\ pc[p] = "hold" /\ UNCHANGED <<pc, buf>>
        /\ flags' = [flags EXCEPT ![buf[p]] = @ \cup {"dirty"}]
        /\ changed' = [changed EXCEPT ![p] = FALSE]
    BY <1>5 DEF LogWrite, At
  <2> QED BY <1>a, <2>1 DEF FlagsInv, Synced
<1>6. ASSUME NEW p \in Procs, Bwrite(p) PROVE FlagsInv'
  <2>1. /\ pc[p] = "hold" /\ buf[p] \in Buffers /\ UNCHANGED buf
        /\ flags' = [flags EXCEPT ![buf[p]] = @ \cup {"dirty"}]
        /\ changed' = [changed EXCEPT ![p] = FALSE] /\ pc' = [pc EXCEPT ![p] = "rw"]
    BY <1>6, BwriteEffect
  <2> QED BY <1>a, <2>1 DEF FlagsInv, Synced
<1>7. ASSUME NEW p \in Procs, Iderw(p) PROVE FlagsInv'
  <2>1. /\ pc[p] = "rw" /\ UNCHANGED <<buf, flags, changed>>
        /\ pc' = [pc EXCEPT ![p] = "disk"]
    BY <1>7, IderwEffect
  <2> QED BY <1>a, <2>1 DEF FlagsInv, Synced
<1>8. ASSUME NEW p \in Procs, Woken(p) PROVE FlagsInv'
  <2>1. /\ pc[p] = "disk" /\ UNCHANGED <<buf, flags, changed>>
        /\ \/ pc' = pc
           \/ pc' = [pc EXCEPT ![p] = "hold"] /\ flags[buf[p]] = {"valid"}
    BY <1>8 DEF Woken, At, Goto, Synced
  <2> QED BY <1>a, <2>1 DEF FlagsInv, Synced
<1>9. CASE Ideintr
  <2> DEFINE b == Head(idequeue)
  <2>1. b \in Buffers /\ flags' = [flags EXCEPT ![b] = {"valid"}]
        /\ UNCHANGED <<pc, buf, changed>>
    BY <1>9, FirstRequest DEF Ideintr
  <2>2. PICK q \in Procs : pc[q] = "disk" /\ buf[q] = b
    BY <1>9, FirstRequest DEF Ideintr
  <2>3. \A p \in Procs : pc[p] \in {"hold", "rw"} => buf[p] # b
    BY <2>2, OneHolder
  <2> QED BY <1>a, <2>1, <2>3 DEF FlagsInv, Synced
<1>10. ASSUME NEW p \in Procs, Brelse(p) PROVE FlagsInv'
  BY <1>a, <1>10, BrelseEffect DEF FlagsInv, Synced
<1>11. ASSUME NEW p \in Procs, Drop(p) PROVE FlagsInv'
  <2>1. /\ pc[p] = "drop" /\ UNCHANGED <<flags, changed>>
        /\ buf' = [buf EXCEPT ![p] = "none"] /\ pc' = [pc EXCEPT ![p] = "idle"]
    BY <1>11 DEF Drop, At, Goto
  <2> QED BY <1>a, <2>1 DEF FlagsInv, Synced
<1>12. ASSUME UNCHANGED <<buf, pc, flags, changed>> PROVE FlagsInv'
  BY <1>12 DEF FlagsInv, Synced
<1>13. CASE \E p \in Procs, n \in Blocks : NoBuffers(p, n)
  BY <1>12, <1>13 DEF NoBuffers, Panic
<1>14. CASE \E p \in Procs : Kill(p)
  BY <1>12, <1>14 DEF Kill
<1>15. CASE UNCHANGED vars
  BY <1>12, <1>15 DEF vars
<1> QED BY <1>1, <1>2, <1>3, <1>4, <1>5, <1>6, <1>7, <1>8, <1>9, <1>10, <1>11, <1>13,
           <1>14, <1>15, StepKinds

-----------------------------------------------------------------------------
(* The queue of the driver                                                 *)

Waits(p, b) == pc[p] = "disk" /\ buf[p] = b /\ ~Synced(b)

\* Steps that leave the queue alone, what it is to transfer, and who waits.
SameQueue ==
  /\ UNCHANGED <<idequeue, command>>
  /\ \A b \in Buffers : Queued(b) => UNCHANGED <<block[b], flags[b], data[b]>>
  /\ \A b \in Buffers : (\E p \in Procs : Waits(p, b)) <=> (\E p \in Procs : Waits(p, b)')

LEMMA SameQueueKeeps == TypeOK /\ QueueInv /\ SameQueue => QueueInv'
<1> SUFFICES ASSUME TypeOK, QueueInv, SameQueue PROVE QueueInv'
  OBVIOUS
<1>1. /\ idequeue' = idequeue /\ command' = command
      /\ \A b \in Buffers : Queued(b)' <=> Queued(b)
  BY DEF SameQueue, Queued
<1>2. \A i, j \in 1 .. Len(idequeue') : idequeue'[i] = idequeue'[j] => i = j
  BY <1>1 DEF QueueInv
<1>3. \A b \in Buffers : Queued(b)' <=> (\E p \in Procs : Waits(p, b))'
  <2>1. \A b \in Buffers : Queued(b) <=> \E p \in Procs : Waits(p, b)
    BY DEF QueueInv, Waits
  <2> QED BY <1>1, <2>1 DEF SameQueue
<1>4. command' = Start(idequeue)'
  <2>1. CASE idequeue = <<>>
    BY <1>1, <2>1 DEF QueueInv, Start
  <2>2. CASE idequeue # <<>>
    <3>1. PICK b \in Buffers : b = Head(idequeue) /\ Queued(b)
      <4>1. idequeue \in Seq(Buffers)
        BY DEF TypeOK
      <4> QED BY <2>2, <4>1 DEF Queued
    <3>2. block'[b] = block[b] /\ flags'[b] = flags[b] /\ data'[b] = data[b]
      BY <3>1 DEF SameQueue
    <3>3. Transfer(b)' = Transfer(b)
      BY <3>2 DEF Transfer
    <3>4. Start(idequeue)' = Transfer(b)'
      BY <1>1, <2>2, <3>1 DEF Start, Transfer
    <3> QED BY <1>1, <2>2, <3>1, <3>3, <3>4 DEF QueueInv, Start
  <2> QED BY <2>1, <2>2
<1> QED BY <1>2, <1>3, <1>4 DEF QueueInv, Waits

\* Who holds a buffer that is not at the disk has it not in the queue.
LEMMA HolderNotQueued ==
  ASSUME TypeOK, RefInv, LockInv, QueueInv, NEW p \in Procs, pc[p] \in {"hold", "rw"}
  PROVE  ~Queued(buf[p])
BY OneHolder, HolderHolds DEF QueueInv

LEMMA QueueStep ==
  TypeOK /\ RefInv /\ LockInv /\ FlagsInv /\ QueueInv /\ [Next]_vars => QueueInv'
<1> SUFFICES ASSUME TypeOK, RefInv, LockInv, FlagsInv, QueueInv, [Next]_vars
             PROVE  QueueInv'
  OBVIOUS
<1>a. /\ pc \in [Procs -> Places] /\ buf \in [Procs -> Buffers \cup {"none"}]
      /\ flags \in [Buffers -> SUBSET {"valid", "dirty"}]
      /\ block \in [Buffers -> Blocks \cup {"none"}] /\ data \in [Buffers -> Values]
      /\ "none" \notin Buffers
      /\ \A p \in Procs : pc[p] # "idle" => buf[p] \in Buffers
      /\ \A b \in Buffers : Queued(b) => \E p \in Procs : pc[p] = "disk" /\ buf[p] = b
  BY BufferAssumption, UsesBuffer DEF TypeOK, Places, QueueInv
<1>1. ASSUME NEW p \in Procs, NEW n \in Blocks, Hit(p, n) PROVE SameQueue
  <2>1. UNCHANGED <<flags, block>>
    BY <1>1 DEF Hit
  <2> QED BY <1>a, <1>1, <2>1, BgetEffect DEF SameQueue, Waits, Synced
<1>2. ASSUME NEW p \in Procs, NEW n \in Blocks, Miss(p, n) PROVE SameQueue
  <2>1. PICK b \in Buffers : /\ refcnt[b] = 0 /\ flags' = [flags EXCEPT ![b] = {}]
                             /\ block' = [block EXCEPT ![b] = n]
                             /\ buf' = [buf EXCEPT ![p] = b]
                             /\ pc' = [pc EXCEPT ![p] = "acquire"]
                             /\ pc[p] = "idle" /\ UNCHANGED <<data, idequeue, command>>
    BY <1>2 DEF Miss, At, LastOf, Recyclable, NoFlags, Use, Goto, drive
  <2>2. \A q \in Procs : buf[q] # b
    BY <2>1, Unused
  <2> QED BY <1>a, <2>1, <2>2 DEF SameQueue, Waits, Synced
<1>3. ASSUME NEW p \in Procs, Acquire(p) PROVE SameQueue
  <2>1. /\ pc[p] = "acquire" /\ UNCHANGED <<buf, flags, block, data, idequeue, command>>
        /\ \/ pc' = pc \/ pc' = [pc EXCEPT ![p] = "rw"] \/ pc' = [pc EXCEPT ![p] = "hold"]
    BY <1>3 DEF Acquire, At, Goto, bufs, drive
  <2> QED BY <1>a, <2>1 DEF SameQueue, Waits, Synced
<1>4. ASSUME NEW p \in Procs, NEW v \in Values, Change(p, v) PROVE SameQueue
  <2>1. /\ pc[p] = "hold" /\ UNCHANGED <<pc, buf, flags, block, idequeue, command>>
        /\ data' = [data EXCEPT ![buf[p]] = v]
    BY <1>4 DEF Change, At, bufs, drive
  <2>2. ~Queued(buf[p])
    BY <2>1, HolderNotQueued
  <2> QED BY <1>a, <2>1, <2>2 DEF SameQueue, Waits, Synced
<1>5. ASSUME NEW p \in Procs, LogWrite(p) PROVE SameQueue
  <2>1. /\ pc[p] = "hold" /\ UNCHANGED <<pc, buf, data, block, idequeue, command>>
        /\ flags' = [flags EXCEPT ![buf[p]] = @ \cup {"dirty"}]
    BY <1>5 DEF LogWrite, At, bufs, drive
  <2>2. ~Queued(buf[p])
    BY <2>1, HolderNotQueued
  <2>3. \A q \in Procs : pc[q] = "disk" => buf[q] # buf[p]
    BY <2>1, OneHolder
  <2> QED BY <1>a, <2>1, <2>2, <2>3 DEF SameQueue, Waits, Synced
<1>6. ASSUME NEW p \in Procs, Bwrite(p) PROVE SameQueue
  <2>1. pc[p] = "hold" /\ ~Queued(buf[p])
    BY <1>6, BwriteEffect, HolderNotQueued
  <2>2. \A q \in Procs : pc[q] = "disk" => buf[q] # buf[p]
    BY <2>1, OneHolder
  <2> QED BY <1>a, <1>6, <2>1, <2>2, BwriteEffect DEF SameQueue, Waits, Synced
<1>7. ASSUME NEW p \in Procs, Iderw(p) PROVE QueueInv'
  <2> DEFINE b == buf[p]
             q == idequeue
  <2>1. /\ pc[p] = "rw" /\ b \in Buffers /\ q \in Seq(Buffers) /\ ~Queued(b)
        /\ q' = Append(q, b) /\ command' = IF q = <<>> THEN Transfer(b) ELSE command
        /\ pc' = [pc EXCEPT ![p] = "disk"] /\ UNCHANGED <<buf, flags, block, data>>
    BY <1>7, IderwEffect, HolderNotQueued DEF TypeOK
  <2>2. ~Synced(b)
    BY <2>1 DEF FlagsInv
  <2>3. /\ Len(q') = Len(q) + 1 /\ q'[Len(q) + 1] = b
        /\ \A i \in 1 .. Len(q) : q'[i] = q[i]
        /\ Len(q) \in Nat
    BY <2>1
  <2>4. \A i, j \in 1 .. Len(q') : q'[i] = q'[j] => i = j
    BY <2>1, <2>3 DEF QueueInv, Queued
  <2>5. \A c \in Buffers : Queued(c)' <=> Queued(c) \/ c = b
    BY <2>1, <2>3 DEF Queued
  <2>6. \A c \in Buffers :
          Queued(c)' <=> ~Synced(c)' /\ \E r \in Procs : pc'[r] = "disk" /\ buf'[r] = c
    <3>1. \A c \in Buffers : Synced(c)' <=> Synced(c)
      BY <2>1 DEF Synced
    <3>2. \A c \in Buffers : (\E r \in Procs : pc'[r] = "disk" /\ buf'[r] = c)
                        <=> (c = b \/ \E r \in Procs : pc[r] = "disk" /\ buf[r] = c)
      BY <1>a, <2>1
    <3> QED BY <2>2, <2>5, <3>1, <3>2 DEF QueueInv
  <2>7. command' = Start(idequeue)'
    <3>1. \A c \in Buffers : Transfer(c)' = Transfer(c)
      BY <2>1 DEF Transfer, ReadOf, WriteOf
    <3>2. CASE q = <<>>
      <4>1. q' # <<>> /\ Head(q') = b
        BY <2>1, <3>2
      <4>2. Start(q)' = Transfer(b)'
        BY <2>1, <4>1 DEF Start, Transfer, ReadOf, WriteOf
      <4> QED BY <2>1, <3>1, <3>2, <4>2
    <3>3. CASE q # <<>>
      <4>1. q' # <<>> /\ Head(q') = Head(q) /\ Head(q) \in Buffers
        BY <2>1, <3>3
      <4>2. Start(q)' = Transfer(Head(q))'
        BY <2>1, <4>1 DEF Start, Transfer, ReadOf, WriteOf
      <4> QED BY <2>1, <3>1, <3>3, <4>1, <4>2 DEF QueueInv, Start
    <3> QED BY <3>2, <3>3
  <2> QED BY <2>4, <2>6, <2>7 DEF QueueInv
<1>8. ASSUME NEW p \in Procs, Woken(p) PROVE SameQueue
  <2>1. /\ pc[p] = "disk" /\ UNCHANGED <<buf, flags, block, data, idequeue, command>>
        /\ \/ pc' = pc
           \/ flags[buf[p]] = {"valid"} /\ pc' = [pc EXCEPT ![p] = "hold"]
    BY <1>8 DEF Woken, At, Goto, bufs, drive, Synced
  <2> QED BY <1>a, <2>1 DEF SameQueue, Waits, Synced
<1>9. CASE Ideintr
  <2> DEFINE q == idequeue
  <2>0. PICK b \in Buffers : b = Head(q)
    BY <1>9, FirstRequest DEF Ideintr
  <2>1. /\ q # <<>> /\ q \in Seq(Buffers) /\ q' = Tail(q)
        /\ flags' = [flags EXCEPT ![b] = {"valid"}] /\ command' = NextCommand
        /\ UNCHANGED <<pc, buf, block>>
    BY <1>9, <2>0 DEF Ideintr, TypeOK, bufs
  <2>2. \A c \in Buffers \ {b} : data'[c] = data[c] /\ flags'[c] = flags[c]
    BY <1>9, <1>a, <2>0, <2>1 DEF Ideintr
  <2>3. /\ Len(q) \in Nat \ {0} /\ Len(q') = Len(q) - 1 /\ q[1] = b
        /\ \A i \in 1 .. Len(q') : q'[i] = q[i + 1]
    BY <2>0, <2>1
  <2>4. \A i, j \in 1 .. Len(q) : q[i] = q[j] => i = j
    BY DEF QueueInv
  <2>5. \A i, j \in 1 .. Len(q') : q'[i] = q'[j] => i = j
    BY <2>3, <2>4
  <2>6. \A c \in Buffers : Queued(c)' <=> Queued(c) /\ c # b
    <3>1. ASSUME NEW c \in Buffers, Queued(c)' PROVE Queued(c) /\ c # b
      <4>1. PICK i \in 1 .. Len(q') : q'[i] = c
        BY <3>1 DEF Queued
      <4>2. i + 1 \in 1 .. Len(q) /\ q[i + 1] = c /\ 1 \in 1 .. Len(q)
        BY <2>3, <4>1
      <4>3. i + 1 # 1
        BY <4>1
      <4> QED BY <2>3, <2>4, <4>2, <4>3 DEF Queued
    <3>2. ASSUME NEW c \in Buffers, Queued(c), c # b PROVE Queued(c)'
      <4>1. PICK i \in 1 .. Len(q) : q[i] = c
        BY <3>2 DEF Queued
      <4>2. i # 1
        BY <2>3, <3>2, <4>1
      <4>3. i - 1 \in 1 .. Len(q') /\ q'[i - 1] = c
        BY <2>3, <4>1, <4>2
      <4> QED BY <4>3 DEF Queued
    <3> QED BY <3>1, <3>2
  <2>7. \A c \in Buffers :
          Queued(c)' <=> ~Synced(c)' /\ \E r \in Procs : pc'[r] = "disk" /\ buf'[r] = c
    <3>1. Synced(b)'
      BY <1>a, <2>1 DEF Synced
    <3>2. \A c \in Buffers \ {b} : Synced(c)' <=> Synced(c)
      BY <2>2 DEF Synced
    <3>3. pc' = pc /\ buf' = buf
      BY <2>1
    <3> QED BY <2>6, <3>1, <3>2, <3>3 DEF QueueInv
  <2>8. command' = Start(idequeue)'
    <3>1. CASE q' = <<>>
      BY <2>1, <3>1 DEF NextCommand, Start
    <3>2. CASE q' # <<>>
      <4>0. PICK c \in Buffers : c = Head(q')
        BY <2>1, <3>2
      <4>1. c \in Buffers \ {b}
        <5>1. 1 \in 1 .. Len(q') /\ c = q'[1]
          BY <2>1, <3>2, <4>0
        <5>3. Queued(c)'
          BY <5>1 DEF Queued
        <5> QED BY <2>6, <5>3
      <4>2. block'[c] = block[c] /\ data'[c] = data[c] /\ flags'[c] = flags[c]
        BY <2>1, <2>2, <4>1
      <4>3. command' = Transfer(Head(Tail(q)))
        BY <2>1, <3>2 DEF NextCommand, Start
      <4>4. Start(q)' = Transfer(c)'
        BY <3>2, <4>0 DEF Start, Transfer
      <4>5. Transfer(c)' = Transfer(c)
        BY <4>2 DEF Transfer
      <4> QED BY <2>1, <4>0, <4>3, <4>4, <4>5
    <3> QED BY <3>1, <3>2
  <2> QED BY <2>5, <2>7, <2>8 DEF QueueInv
<1>10. ASSUME NEW p \in Procs, Brelse(p) PROVE SameQueue
  BY <1>a, <1>10, BrelseEffect DEF SameQueue, Waits, Synced
<1>11. ASSUME NEW p \in Procs, Drop(p) PROVE SameQueue
  <2>1. /\ pc[p] = "drop" /\ UNCHANGED <<flags, block, data, idequeue, command>>
        /\ buf' = [buf EXCEPT ![p] = "none"] /\ pc' = [pc EXCEPT ![p] = "idle"]
    BY <1>11 DEF Drop, At, Goto, drive
  <2> QED BY <1>a, <2>1 DEF SameQueue, Waits, Synced
<1>12. ASSUME UNCHANGED <<buf, pc, flags, block, data, idequeue, command>> PROVE SameQueue
  BY <1>12 DEF SameQueue, Waits, Synced
<1>13. CASE \E p \in Procs, n \in Blocks : NoBuffers(p, n)
  BY <1>12, <1>13, SameQueueKeeps DEF NoBuffers, Panic
<1>14. CASE \E p \in Procs : Kill(p)
  BY <1>12, <1>14, SameQueueKeeps DEF Kill, bufs, drive
<1>15. CASE UNCHANGED vars
  BY <1>12, <1>15, SameQueueKeeps DEF vars
<1> QED BY <1>1, <1>2, <1>3, <1>4, <1>5, <1>6, <1>7, <1>8, <1>9, <1>10, <1>11, <1>13,
           <1>14, <1>15, SameQueueKeeps, StepKinds

-----------------------------------------------------------------------------
(* Sleepers                                                                *)

LEMMA SleepStep ==
  TypeOK /\ RefInv /\ LockInv /\ FlagsInv /\ QueueInv /\ SleepInv /\ [Next]_vars /\ QueueInv'
    => SleepInv'
<1> SUFFICES ASSUME TypeOK, RefInv, LockInv, FlagsInv, QueueInv, SleepInv, [Next]_vars,
                    QueueInv'
             PROVE  SleepInv'
  OBVIOUS
<1>a. /\ pc \in [Procs -> Places] /\ buf \in [Procs -> Buffers \cup {"none"}]
      /\ flags \in [Buffers -> SUBSET {"valid", "dirty"}] /\ asleep \in [Procs -> BOOLEAN]
      /\ locker \in [Buffers -> Procs \cup {"none"}] /\ idequeue \in Seq(Buffers)
      /\ "none" \notin Buffers /\ "none" \notin Procs
      /\ \A p \in Procs : pc[p] # "idle" => buf[p] \in Buffers
  BY BufferAssumption, UsesBuffer DEF TypeOK, Places
<1>1. ASSUME NEW p \in Procs, NEW n \in Blocks, Hit(p, n) \/ Miss(p, n) PROVE SleepInv'
  <2>1. ~asleep[p]
    BY <1>1 DEF Hit, Miss, At
  <2> QED BY <1>a, <1>1, <2>1, BgetEffect DEF SleepInv, Queued
<1>2. ASSUME NEW p \in Procs, Acquire(p) PROVE SleepInv'
  <2>1. pc[p] = "acquire" /\ ~asleep[p] /\ buf[p] \in Buffers /\ UNCHANGED <<buf, idequeue>>
    BY <1>2, UsesBuffer DEF Acquire, At, drive
  <2>2. \/ /\ locker[buf[p]] # "none" /\ asleep' = [asleep EXCEPT ![p] = TRUE]
           /\ UNCHANGED <<locker, pc>>
        \/ /\ locker' = [locker EXCEPT ![buf[p]] = p] /\ UNCHANGED asleep
           /\ pc' = [pc EXCEPT ![p] = "rw"] \/ pc' = [pc EXCEPT ![p] = "hold"]
    BY <1>2 DEF Acquire, Goto
  <2> QED BY <1>a, <2>1, <2>2 DEF SleepInv, Queued
<1>3. ASSUME NEW p \in Procs, Bwrite(p) PROVE SleepInv'
  <2>1. ~asleep[p]
    BY <1>3 DEF Bwrite, At
  <2> QED BY <1>a, <1>3, <2>1, BwriteEffect DEF SleepInv, Queued
<1>4. ASSUME NEW p \in Procs, Iderw(p) PROVE SleepInv'
  <2>1. \A b \in Buffers : Queued(b)' <=> Queued(b) \/ b = buf[p]
    <3>1. idequeue' = Append(idequeue, buf[p])
      BY <1>4, IderwEffect
    <3>2. /\ Len(idequeue') = Len(idequeue) + 1 /\ Len(idequeue) \in Nat
          /\ idequeue'[Len(idequeue) + 1] = buf[p]
          /\ \A i \in 1 .. Len(idequeue) : idequeue'[i] = idequeue[i]
      BY <1>a, <3>1
    <3> QED BY <3>2 DEF Queued
  <2> QED BY <1>a, <1>4, <2>1, IderwEffect DEF SleepInv
<1>5. ASSUME NEW p \in Procs, Woken(p) PROVE SleepInv'
  <2>1. pc[p] = "disk" /\ ~asleep[p] /\ UNCHANGED <<buf, locker, idequeue>>
    BY <1>5 DEF Woken, At, drive
  <2>2. \/ pc' = [pc EXCEPT ![p] = "hold"] /\ UNCHANGED asleep
        \/ ~Synced(buf[p]) /\ asleep' = [asleep EXCEPT ![p] = TRUE] /\ UNCHANGED pc
    BY <1>5 DEF Woken, Goto
  <2>3. ~Synced(buf[p]) => Queued(buf[p])
    BY <1>a, <2>1 DEF QueueInv
  <2> QED BY <1>a, <2>1, <2>2, <2>3 DEF SleepInv, Queued
<1>6. CASE Ideintr
  <2>1. PICK b \in Buffers : b = Head(idequeue)
    BY <1>6, FirstRequest DEF Ideintr
  <2>2. /\ flags' = [flags EXCEPT ![b] = {"valid"}]
        /\ asleep' = WakeAll("disk", b) /\ UNCHANGED <<pc, buf, locker>>
    BY <1>6, <2>1 DEF Ideintr
  <2> SUFFICES ASSUME NEW p \in Procs, asleep'[p]
               PROVE  \/ pc[p] = "acquire" /\ locker[buf[p]] # "none"
                      \/ pc[p] = "disk" /\ Queued(buf[p])'
    BY <2>2 DEF SleepInv
  <2>3. asleep[p] /\ ~(pc[p] = "disk" /\ buf[p] = b)
    BY <2>2 DEF WakeAll
  <2>4. CASE pc[p] = "disk" /\ Queued(buf[p])
    <3>1. PICK c \in Buffers : c = buf[p] /\ c # b
      BY <1>a, <2>3, <2>4
    <3>2. ~Synced(c)
      BY <2>4, <3>1 DEF QueueInv
    <3>3. ~Synced(c)'
      BY <2>2, <3>1, <3>2 DEF Synced
    <3>4. Queued(c)'
      BY <2>2, <2>4, <3>1, <3>3 DEF QueueInv
    <3> QED BY <2>2, <2>4, <3>1, <3>4 DEF Queued
  <2> QED BY <2>3, <2>4 DEF SleepInv
<1>7. ASSUME NEW p \in Procs, Brelse(p) PROVE SleepInv'
  <2>1. ~asleep[p]
    BY <1>7 DEF Brelse, At
  <2>2. /\ pc[p] = "hold" /\ buf[p] \in Buffers /\ UNCHANGED <<buf, idequeue>>
        /\ locker' = [locker EXCEPT ![buf[p]] = "none"]
        /\ pc' = [pc EXCEPT ![p] = "drop"]
        /\ \A q \in Procs : asleep'[q] <=> asleep[q] /\ ~(pc[q] = "acquire" /\ buf[q] = buf[p])
    BY <1>7, BrelseEffect DEF WakeAll
  <2> QED BY <1>a, <2>1, <2>2 DEF SleepInv, Queued
<1>8. ASSUME NEW p \in Procs, Drop(p) PROVE SleepInv'
  <2>1. /\ pc[p] = "drop" /\ ~asleep[p] /\ UNCHANGED <<locker, idequeue, asleep>>
        /\ buf' = [buf EXCEPT ![p] = "none"] /\ pc' = [pc EXCEPT ![p] = "idle"]
    BY <1>8 DEF Drop, At, Goto, drive
  <2> QED BY <1>a, <2>1 DEF SleepInv, Queued
<1>9. ASSUME NEW p \in Procs, Kill(p) PROVE SleepInv'
  BY <1>a, <1>9 DEF Kill, drive, SleepInv, Queued
<1>10. ASSUME UNCHANGED <<buf, pc, locker, asleep, idequeue>> PROVE SleepInv'
  BY <1>10 DEF SleepInv, Queued
<1>11. CASE \E p \in Procs, n \in Blocks : NoBuffers(p, n)
  BY <1>10, <1>11 DEF NoBuffers, Panic
<1>12. CASE \E p \in Procs, v \in Values : Change(p, v)
  BY <1>10, <1>12 DEF Change, drive
<1>13. CASE \E p \in Procs : LogWrite(p)
  BY <1>10, <1>13 DEF LogWrite, drive
<1>14. CASE UNCHANGED vars
  BY <1>10, <1>14 DEF vars
<1> QED BY <1>1, <1>2, <1>3, <1>4, <1>5, <1>6, <1>7, <1>8, <1>9, <1>11, <1>12, <1>13,
           <1>14, StepKinds

-----------------------------------------------------------------------------
(* The panics                                                              *)

\* When bget finds no buffer, the other processes and the log have them all.
LEMMA BuffersDontSuffice ==
  ASSUME TypeOK, RefInv, PanicInv, NEW p \in Procs, NEW n \in Blocks, NoBuffers(p, n)
  PROVE  Cardinality(Buffers) < MaxPinned + Cardinality(Procs)
<1> DEFINE S == {q \in Procs : buf[q] \in Buffers}
           T == {b \in Buffers : refcnt[b] # 0}
           f == [q \in S |-> buf[q]]
<1>1. pc[p] = "idle" /\ buf[p] = "none" /\ Recyclable = {}
  BY DEF NoBuffers, At, RefInv
<1>2. IsFiniteSet(Procs) /\ IsFiniteSet(Procs \ {p})
      /\ Cardinality(Procs \ {p}) = Cardinality(Procs) - 1
  BY BufferAssumption, FS_RemoveElement
<1>3. S \subseteq Procs \ {p}
  BY <1>1, BufferAssumption
<1>4. IsFiniteSet(S) /\ Cardinality(S) <= Cardinality(Procs) - 1
  BY <1>2, <1>3, FS_Subset
<1>5. \A b \in T : \E q \in S : buf[q] = b
  <2> SUFFICES ASSUME NEW b \in T PROVE \E q \in S : buf[q] = b
    OBVIOUS
  <2>1. Cardinality(Users(b)) # 0
    BY DEF RefInv
  <2>2. IsFiniteSet(Users(b))
    BY <1>2, FS_Subset DEF Users
  <2>3. Users(b) # {}
    BY <2>1, <2>2, FS_EmptySet
  <2> QED BY <2>3 DEF Users
<1> DEFINE S2 == {q \in S : buf[q] \in T}
           g == [q \in S2 |-> buf[q]]
<1>6. IsFiniteSet(S2) /\ Cardinality(S2) <= Cardinality(S)
  BY <1>4, FS_Subset
<1>7. g \in Surjection(S2, T)
  BY <1>5 DEF Surjection
<1>8. IsFiniteSet(T) /\ Cardinality(T) <= Cardinality(S2)
  BY <1>6, <1>7, FS_Surjection
<1>9. Buffers = T \cup (Buffers \ T) /\ Buffers \ T \subseteq Pinned
  <2> SUFFICES ASSUME NEW b \in Buffers, refcnt[b] = 0 PROVE b \in Pinned
    OBVIOUS
  <2>1. "dirty" \in flags[b]
    BY <1>1 DEF Recyclable
  <2>2. \A q \in Procs : buf[q] # b
    BY Unused
  <2> QED BY <2>1, <2>2 DEF Pinned
<1>10. IsFiniteSet(Pinned) /\ IsFiniteSet(Buffers)
  BY BufferAssumption, FS_Subset DEF Pinned
<1>11. IsFiniteSet(Buffers \ T) /\ Cardinality(Buffers \ T) <= Cardinality(Pinned)
  BY <1>9, <1>10, FS_Subset
<1>12. Cardinality(Buffers) <= Cardinality(T) + Cardinality(Buffers \ T)
  <2>1. Cardinality(T \cup (Buffers \ T)) = Cardinality(T) + Cardinality(Buffers \ T)
                                            - Cardinality(T \cap (Buffers \ T))
    BY <1>8, <1>11, FS_Union
  <2>2. Cardinality(T \cap (Buffers \ T)) = 0
    <3>1. T \cap (Buffers \ T) = {}
      OBVIOUS
    <3> QED BY <3>1, FS_EmptySet
  <2>3. Cardinality(T) \in Nat /\ Cardinality(Buffers \ T) \in Nat
    BY <1>8, <1>11, FS_CardinalityType
  <2>4. Cardinality(Buffers) = Cardinality(T \cup (Buffers \ T))
    BY <1>9
  <2> HIDE DEF T
  <2> QED BY <2>1, <2>2, <2>3, <2>4
<1>13. /\ Cardinality(Buffers) \in Nat /\ Cardinality(T) \in Nat /\ Cardinality(S) \in Nat
       /\ Cardinality(S2) \in Nat /\ Cardinality(Buffers \ T) \in Nat
       /\ Cardinality(Pinned) \in Nat /\ Cardinality(Procs) \in Nat
  BY <1>2, <1>4, <1>6, <1>8, <1>10, <1>11, FS_CardinalityType
<1>14. Cardinality(Pinned) <= MaxPinned /\ MaxPinned \in Nat
  BY BufferAssumption DEF PanicInv
<1> HIDE DEF S, T, S2
<1> QED BY <1>4, <1>6, <1>8, <1>11, <1>12, <1>13, <1>14

LEMMA PanicStep ==
  TypeOK /\ RefInv /\ LockInv /\ FlagsInv /\ QueueInv /\ PanicInv /\ [Next]_vars => PanicInv'
<1> SUFFICES ASSUME TypeOK, RefInv, LockInv, FlagsInv, QueueInv, PanicInv, [Next]_vars
             PROVE  PanicInv'
  OBVIOUS
<1>a. /\ pc \in [Procs -> Places] /\ buf \in [Procs -> Buffers \cup {"none"}]
      /\ flags \in [Buffers -> SUBSET {"valid", "dirty"}] /\ "none" \notin Buffers
      /\ \A p \in Procs : pc[p] # "idle" => buf[p] \in Buffers
  BY BufferAssumption, UsesBuffer DEF TypeOK, Places
<1>b. IsFiniteSet(Pinned) /\ Cardinality(Pinned) \in Nat /\ MaxPinned \in Nat
  BY BufferAssumption, FS_Subset, FS_CardinalityType DEF Pinned
<1>c. ASSUME Pinned' \subseteq Pinned, UNCHANGED panicked PROVE PanicInv'
  <2>1. IsFiniteSet(Pinned') /\ Cardinality(Pinned') <= Cardinality(Pinned)
    BY <1>b, <1>c, FS_Subset
  <2>2. Cardinality(Pinned') \in Nat
    BY <2>1, FS_CardinalityType
  <2> QED BY <1>b, <1>c, <2>1, <2>2 DEF PanicInv
<1>1. ASSUME NEW p \in Procs, NEW n \in Blocks, Hit(p, n) PROVE PanicInv'
  <2>1. UNCHANGED <<flags, panicked>>
    BY <1>1 DEF Hit
  <2> QED BY <1>a, <1>c, <1>1, <2>1, BgetEffect DEF Pinned
<1>2. ASSUME NEW p \in Procs, NEW n \in Blocks, Miss(p, n) PROVE PanicInv'
  <2>1. \E b \in Buffers : flags' = [flags EXCEPT ![b] = {}]
    BY <1>2 DEF Miss, NoFlags
  <2>2. \A b \in Buffers : "dirty" \in flags'[b] => "dirty" \in flags[b]
    BY <1>a, <2>1
  <2> QED BY <1>a, <1>c, <1>2, <2>2, BgetEffect DEF Pinned
<1>3. ASSUME NEW p \in Procs, Acquire(p) PROVE PanicInv'
  <2>1. /\ pc[p] = "acquire" /\ UNCHANGED <<buf, flags, panicked>>
        /\ pc' = pc \/ pc' = [pc EXCEPT ![p] = "rw"] \/ pc' = [pc EXCEPT ![p] = "hold"]
    BY <1>3 DEF Acquire, At, Goto
  <2> QED BY <1>a, <1>c, <2>1 DEF Pinned
<1>4. ASSUME NEW p \in Procs, LogWrite(p) PROVE PanicInv'
  <2>1. /\ pc[p] = "hold" /\ UNCHANGED <<pc, buf, panicked>>
        /\ flags' = [flags EXCEPT ![buf[p]] = @ \cup {"dirty"}]
        /\ Cardinality(Dirty \cup {buf[p]}) <= MaxPinned
    BY <1>4 DEF LogWrite, At
  <2>2. IsFiniteSet(Dirty) /\ IsFiniteSet(Dirty \cup {buf[p]})
    BY BufferAssumption, FS_Subset, FS_AddElement DEF Dirty
  <2>3. Pinned' \subseteq Dirty \cup {buf[p]}
    BY <1>a, <2>1 DEF Pinned, Dirty
  <2>4. Cardinality(Pinned') <= Cardinality(Dirty \cup {buf[p]}) /\ IsFiniteSet(Pinned')
    BY <2>2, <2>3, FS_Subset
  <2>5. Cardinality(Pinned') \in Nat /\ Cardinality(Dirty \cup {buf[p]}) \in Nat
    BY <2>2, <2>4, FS_CardinalityType
  <2> QED BY <1>b, <2>1, <2>4, <2>5 DEF PanicInv
<1>5. ASSUME NEW p \in Procs, Bwrite(p) PROVE PanicInv'
  BY <1>a, <1>c, <1>5, BwriteEffect DEF Pinned
<1>6. ASSUME NEW p \in Procs, Iderw(p) PROVE PanicInv'
  BY <1>a, <1>c, <1>6, IderwEffect DEF Pinned
<1>7. ASSUME NEW p \in Procs, Woken(p) PROVE PanicInv'
  <2>1. /\ pc[p] = "disk" /\ UNCHANGED <<buf, flags, panicked>>
        /\ \/ pc' = pc
           \/ flags[buf[p]] = {"valid"} /\ pc' = [pc EXCEPT ![p] = "hold"]
    BY <1>7 DEF Woken, At, Goto, Synced
  <2> QED BY <1>a, <1>c, <2>1 DEF Pinned
<1>8. CASE Ideintr
  <2>1. PICK b \in Buffers : b = Head(idequeue)
    BY <1>8, FirstRequest DEF Ideintr
  <2>2. flags' = [flags EXCEPT ![b] = {"valid"}] /\ UNCHANGED <<pc, buf, panicked>>
    BY <1>8, <2>1 DEF Ideintr
  <2> QED BY <1>a, <1>c, <2>2 DEF Pinned
<1>9. ASSUME NEW p \in Procs, Brelse(p) PROVE PanicInv'
  BY <1>a, <1>c, <1>9, BrelseEffect DEF Pinned
<1>10. ASSUME NEW p \in Procs, Drop(p) PROVE PanicInv'
  <2>1. /\ pc[p] = "drop" /\ UNCHANGED <<flags, panicked>>
        /\ buf' = [buf EXCEPT ![p] = "none"] /\ pc' = [pc EXCEPT ![p] = "idle"]
    BY <1>10 DEF Drop, At, Goto
  <2> QED BY <1>a, <1>c, <2>1 DEF Pinned
<1>11. ASSUME NEW p \in Procs, NEW n \in Blocks, NoBuffers(p, n) PROVE PanicInv'
  <2>1. panicked' = "bget" /\ UNCHANGED <<buf, pc, flags>>
    BY <1>11 DEF NoBuffers, Panic
  <2>2. Pinned' = Pinned
    BY <2>1 DEF Pinned
  <2> QED BY <1>11, <2>1, <2>2, BuffersDontSuffice DEF PanicInv
<1>12. ASSUME UNCHANGED <<buf, pc, flags, panicked>> PROVE PanicInv'
  BY <1>c, <1>12 DEF Pinned
<1>13. CASE \E p \in Procs, v \in Values : Change(p, v)
  BY <1>12, <1>13 DEF Change
<1>14. CASE \E p \in Procs : Kill(p)
  BY <1>12, <1>14 DEF Kill
<1>15. CASE UNCHANGED vars
  BY <1>12, <1>15 DEF vars
<1> QED BY <1>1, <1>2, <1>3, <1>4, <1>5, <1>6, <1>7, <1>8, <1>9, <1>10, <1>11, <1>13,
           <1>14, <1>15, StepKinds

-----------------------------------------------------------------------------
(* The invariant                                                           *)

LEMMA InitInv == Init => IInv
<1> SUFFICES ASSUME Init PROVE IInv
  OBVIOUS
<1>1. TypeOK
  BY InitType
<1>2. RefInv
  <2>1. \A b \in Buffers : Users(b) = {}
    BY BufferAssumption DEF Init, Users
  <2> QED BY <2>1, FS_EmptySet, BufferAssumption DEF Init, RefInv
<1>3. LockInv /\ FlagsInv /\ SleepInv
  BY BufferAssumption DEF Init, LockInv, FlagsInv, SleepInv, Synced
<1>4. QueueInv
  BY DEF Init, QueueInv, Queued, Start
<1>5. PanicInv
  <2>1. Pinned = {}
    BY DEF Init, Pinned
  <2> QED BY <2>1, FS_EmptySet, BufferAssumption DEF Init, PanicInv
<1> QED BY <1>1, <1>2, <1>3, <1>4, <1>5 DEF IInv

LEMMA NextInv == IInv /\ [Next]_vars => IInv'
BY TypeStep, RefStep, LockStep, FlagsStep, QueueStep, SleepStep, PanicStep DEF IInv

THEOREM Invariance == Spec => []IInv
BY InitInv, NextInv, PTL DEF Spec

LEMMA InvWakes == IInv => NoLostWakeup
<1> SUFFICES ASSUME IInv PROVE NoLostWakeup
  OBVIOUS
<1>1. TypeOK /\ RefInv /\ LockInv /\ QueueInv /\ SleepInv /\ PanicInv
  BY DEF IInv
<1>2. ASSUME NEW p \in Procs, asleep[p]
      PROVE  \/ pc[p] = "acquire" /\ locker[buf[p]] \notin {"none", p}
             \/ pc[p] = "disk" /\ buf[p] \in ToSet(idequeue)
  <2>1. CASE pc[p] = "acquire" /\ locker[buf[p]] # "none"
    <3>1. buf[p] \in Buffers
      BY <1>1, <2>1, UsesBuffer
    <3> QED BY <1>1, <2>1, <3>1 DEF LockInv
  <2>2. CASE pc[p] = "disk" /\ Queued(buf[p])
    <3>1. idequeue \in Seq(Buffers)
      BY <1>1 DEF TypeOK
    <3> QED BY <2>2, <3>1 DEF Queued, ToSet
  <2> QED BY <1>1, <1>2, <2>1, <2>2 DEF SleepInv
<1>3. idequeue # <<>> => command = Transfer(Head(idequeue))
  BY <1>1 DEF QueueInv, Start
<1> QED BY <1>1, <1>2, <1>3 DEF PanicInv, NoLostWakeup

\* A process sleeps for a sleep lock only while another has it, and for the
\* disk only while its buffer is in the queue, of which the disk does the
\* first; bwrite, iderw and brelse do not panic, bget panics only when the
\* buffers cannot suffice for the processes and the log.
THEOREM SleepersAreWoken == Spec => []NoLostWakeup
BY Invariance, InvWakes, PTL

-----------------------------------------------------------------------------
(* Clean buffers                                                           *)

LEMMA CleanStep ==
  ASSUME ~DiskFails
  PROVE  IInv /\ CleanInv /\ [Next]_vars => CleanInv'
<1> SUFFICES ASSUME IInv, CleanInv, [Next]_vars PROVE CleanInv'
  OBVIOUS
<1>a. TypeOK /\ RefInv /\ LockInv /\ FlagsInv /\ QueueInv
  BY DEF IInv
<1>b. /\ pc \in [Procs -> Places] /\ buf \in [Procs -> Buffers \cup {"none"}]
      /\ flags \in [Buffers -> SUBSET {"valid", "dirty"}] /\ data \in [Buffers -> Values]
      /\ block \in [Buffers -> Blocks \cup {"none"}] /\ changed \in [Procs -> BOOLEAN]
      /\ disk \in [Blocks -> Values]
      /\ \A p \in Procs : pc[p] # "idle" => buf[p] \in Buffers
      /\ \A p \in Procs : changed[p] => pc[p] = "hold"
  BY <1>a, UsesBuffer DEF TypeOK, Places, FlagsInv
<1>1. ASSUME NEW p \in Procs, NEW n \in Blocks, Hit(p, n) PROVE CleanInv'
  <2>1. UNCHANGED <<flags, block>>
    BY <1>1 DEF Hit
  <2> QED BY <1>a, <1>b, <1>1, <2>1, BgetEffect DEF CleanInv, Synced
<1>2. ASSUME NEW p \in Procs, NEW n \in Blocks, Miss(p, n) PROVE CleanInv'
  <2>1. PICK b \in Buffers : /\ flags' = [flags EXCEPT ![b] = {}]
                             /\ block' = [block EXCEPT ![b] = n]
                             /\ buf' = [buf EXCEPT ![p] = b] /\ pc[p] = "idle"
                             /\ UNCHANGED <<data, disk, changed>>
    BY <1>2 DEF Miss, At, NoFlags, Use, drive
  <2> QED BY <1>b, <2>1 DEF CleanInv, Synced
<1>3. ASSUME NEW p \in Procs, NEW v \in Values, Change(p, v) PROVE CleanInv'
  <2>1. /\ data' = [data EXCEPT ![buf[p]] = v] /\ changed' = [changed EXCEPT ![p] = TRUE]
        /\ pc[p] = "hold" /\ UNCHANGED <<flags, block, buf, disk>>
    BY <1>3 DEF Change, At, bufs, drive
  <2> QED BY <1>b, <2>1 DEF CleanInv, Synced
<1>c. ASSUME NEW p \in Procs, pc[p] = "hold",
             flags' = [flags EXCEPT ![buf[p]] = @ \cup {"dirty"}],
             changed' = [changed EXCEPT ![p] = FALSE],
             UNCHANGED <<data, block, buf, disk>>
      PROVE  CleanInv'
  <2> SUFFICES ASSUME NEW c \in Buffers, flags'[c] = {"valid"},
                      ~(\E q \in Procs : changed'[q] /\ buf[q] = c)
               PROVE  data[c] = disk[block[c]]
    <3>1. data' = data /\ block' = block /\ buf' = buf /\ disk' = disk
      BY <1>c
    <3> QED BY <3>1 DEF CleanInv, Synced
  <2>1. buf[p] \in Buffers
    BY <1>b, <1>c
  <2>2. c # buf[p]
    <3>1. flags'[buf[p]] = flags[buf[p]] \cup {"dirty"}
      BY <1>b, <1>c, <2>1
    <3>2. "dirty" \in flags'[buf[p]]
      BY <3>1
    <3> QED BY <3>2
  <2>3. Synced(c) /\ ~(\E q \in Procs : changed[q] /\ buf[q] = c)
    BY <1>b, <1>c, <2>1, <2>2 DEF Synced
  <2> QED BY <2>3 DEF CleanInv
<1>4. ASSUME NEW p \in Procs, LogWrite(p) PROVE CleanInv'
  BY <1>c, <1>4 DEF LogWrite, At, bufs, drive
<1>5. ASSUME NEW p \in Procs, Bwrite(p) PROVE CleanInv'
  BY <1>a, <1>c, <1>5, BwriteEffect
<1>6. CASE Ideintr
  <2>1. PICK b \in Buffers : b = Head(idequeue)
    BY <1>a, <1>6, FirstRequest DEF Ideintr
  <2>2. /\ block[b] \in Blocks /\ command = Transfer(b)
        /\ \E p \in Procs : pc[p] = "disk" /\ buf[p] = b
    BY <1>a, <1>6, <2>1, FirstRequest DEF Ideintr
  <2>3. block[b] # "none"
    BY <2>2, BufferAssumption
  <2>4. \A c \in Buffers \ {b} : block[c] # block[b]
    BY <1>a, <2>3 DEF RefInv
  <2>5. flags' = [flags EXCEPT ![b] = {"valid"}] /\ UNCHANGED <<block, buf, changed>>
    BY <1>6, <2>1 DEF Ideintr, bufs
  <2>6. /\ data'[b] = disk'[block[b]]
        /\ \A c \in Buffers \ {b} : data'[c] = data[c]
        /\ \A m : m # block[b] => disk'[m] = disk[m]
    <3>1. CASE "dirty" \in flags[b]
      <4>1. command.op = "write" /\ command.block = block[b] /\ command.data = data[b]
        BY <1>a, <2>2, <2>3, <3>1, TransferType
      <4>2. data' = data /\ disk' = [disk EXCEPT ![block[b]] = data[b]]
        BY <1>6, <2>1, <3>1, <4>1 DEF Ideintr
      <4> QED BY <1>b, <2>2, <4>2
    <3>2. CASE "dirty" \notin flags[b]
      <4>1. command.op = "read" /\ command.block = block[b]
        BY <1>a, <2>2, <2>3, <3>2, TransferType
      <4>2. disk' = disk /\ data' = [data EXCEPT ![b] = disk[block[b]]]
        BY <1>6, <2>1, <3>2, <4>1 DEF Ideintr
      <4> QED BY <1>b, <2>2, <4>2
    <3> QED BY <3>1, <3>2
  <2> SUFFICES ASSUME NEW c \in Buffers, Synced(c)',
                      ~(\E p \in Procs : changed[p] /\ buf[p] = c)
               PROVE  data'[c] = disk'[block[c]]
    BY <2>5 DEF CleanInv
  <2>7. CASE c # b
    <3>1. Synced(c)
      BY <2>5, <2>7 DEF Synced
    <3> QED BY <2>4, <2>6, <2>7, <3>1 DEF CleanInv
  <2> QED BY <2>6, <2>7
<1>7. ASSUME NEW p \in Procs, Drop(p) PROVE CleanInv'
  <2>1. /\ pc[p] = "drop" /\ UNCHANGED <<flags, block, data, disk, changed>>
        /\ buf' = [buf EXCEPT ![p] = "none"]
    BY <1>7 DEF Drop, At, drive
  <2> QED BY <1>b, <2>1 DEF CleanInv, Synced
<1>8. ASSUME UNCHANGED <<buf, flags, block, data, disk, changed>> PROVE CleanInv'
  BY <1>8 DEF CleanInv, Synced
<1>9. CASE \E p \in Procs, n \in Blocks : NoBuffers(p, n)
  BY <1>8, <1>9 DEF NoBuffers, Panic
<1>10. CASE \E p \in Procs : Kill(p)
  BY <1>8, <1>10 DEF Kill, bufs, drive
<1>11. CASE UNCHANGED vars
  BY <1>8, <1>11 DEF vars
<1>12. CASE \E p \in Procs : Acquire(p) \/ Woken(p)
  BY <1>8, <1>12 DEF Acquire, Woken, bufs, drive
<1>13. ASSUME NEW p \in Procs, Iderw(p) PROVE CleanInv'
  BY <1>a, <1>8, <1>13, IderwEffect
<1>14. ASSUME NEW p \in Procs, Brelse(p) PROVE CleanInv'
  BY <1>a, <1>8, <1>14, BrelseEffect
<1> QED BY <1>1, <1>2, <1>3, <1>4, <1>5, <1>6, <1>7, <1>9, <1>10, <1>11, <1>12, <1>13,
           <1>14, StepKinds

LEMMA InitClean == Init => CleanInv
BY DEF Init, CleanInv, Synced

\* On a disk that does not fail a buffer that is valid and not dirty, and that
\* nobody is changing, equals its block; a block is in one buffer at most, and
\* refcnt counts the users of a buffer.
THEOREM CacheIsRight == ASSUME ~DiskFails PROVE Spec => []BuffersAgree
<1>1. IInv /\ CleanInv => BuffersAgree
  BY DEF IInv, RefInv, Users, CleanInv, BuffersAgree
<1>2. Init => IInv /\ CleanInv
  BY InitInv, InitClean
<1>3. IInv /\ CleanInv /\ [Next]_vars => (IInv /\ CleanInv)'
  BY NextInv, CleanStep
<1> QED BY <1>1, <1>2, <1>3, PTL DEF Spec

-----------------------------------------------------------------------------
(* The cache implements BlockStore                                         *)

Filled(b, n) == block[b] = n /\ flags[b] # {}
Has(p, n) == /\ buf[p] # "none" /\ block[buf[p]] = n
             /\ \/ pc[p] = "hold"
                \/ pc[p] \in {"rw", "disk"} /\ flags[buf[p]] # {}

\* The value of a block, without the choice of Content.
ContentOk ==
  \A n \in Blocks : /\ \A b \in Buffers : Filled(b, n) => Content(n) = data[b]
                    /\ (\A b \in Buffers : ~Filled(b, n)) => Content(n) = disk[n]

LEMMA ContentIs == RefInv => ContentOk
<1> SUFFICES ASSUME RefInv, NEW n \in Blocks
             PROVE  /\ \A b \in Buffers : Filled(b, n) => Content(n) = data[b]
                    /\ (\A b \in Buffers : ~Filled(b, n)) => Content(n) = disk[n]
  BY DEF ContentOk
<1>1. ASSUME NEW b \in Buffers, Filled(b, n) PROVE Content(n) = data[b]
  <2> DEFINE c == CHOOSE c \in Buffers : block[c] = n /\ flags[c] # {}
  <2>1. Content(n) = data[c]
    BY <1>1 DEF Content, Filled
  <2>2. c \in Buffers /\ block[c] = n
    BY <1>1 DEF Filled
  <2>3. n # "none" /\ block[b] = n
    BY <1>1, BufferAssumption DEF Filled
  <2> HIDE DEF c
  <2> QED BY <2>1, <2>2, <2>3 DEF RefInv
<1>2. ASSUME \A b \in Buffers : ~Filled(b, n) PROVE Content(n) = disk[n]
  BY <1>2 DEF Content, Filled
<1> QED BY <1>1, <1>2

LEMMA ContentKept ==
  ASSUME RefInv, RefInv', NEW n \in Blocks, disk'[n] = disk[n],
         \A b \in Buffers : /\ Filled(b, n)' <=> Filled(b, n)
                            /\ Filled(b, n) => data'[b] = data[b]
  PROVE  Content(n)' = Content(n)
<1>1. /\ \A b \in Buffers : Filled(b, n)' => Content(n)' = data'[b]
      /\ (\A b \in Buffers : ~Filled(b, n)') => Content(n)' = disk'[n]
  <2>1. RefInv' => ContentOk'
    BY ContentIs, PTL
  <2> QED BY <2>1 DEF ContentOk
<1>2. /\ \A b \in Buffers : Filled(b, n) => Content(n) = data[b]
      /\ (\A b \in Buffers : ~Filled(b, n)) => Content(n) = disk[n]
  BY ContentIs DEF ContentOk
<1> QED BY <1>1, <1>2

\* A block has one user.
LEMMA OneUser ==
  ASSUME TypeOK, RefInv, LockInv, NEW n \in Blocks, NEW p \in Procs, NEW q \in Procs,
         Has(p, n), Has(q, n)
  PROVE  p = q
<1>1. /\ pc[p] \in {"hold", "rw", "disk"} /\ pc[q] \in {"hold", "rw", "disk"}
      /\ buf[p] \in Buffers /\ buf[q] \in Buffers
  BY UsesBuffer DEF Has
<1>2. n # "none"
  BY BufferAssumption
<1>3. buf[p] = buf[q]
  BY <1>1, <1>2 DEF Has, RefInv
<1> QED BY <1>1, <1>3, OneHolder

\* Steps that BlockStore does not see, and those that are a step of it.
Quiet ==
  \A n \in Blocks : /\ Content(n)' = Content(n)
                    /\ \A p \in Procs : Has(p, n)' <=> Has(p, n)

LEMMA QuietStutters == Quiet => UNCHANGED Store!storeVars
<1> SUFFICES ASSUME Quiet PROVE UNCHANGED Store!storeVars
  OBVIOUS
<1>1. [n \in Blocks |-> Content(n)]' = [n \in Blocks |-> Content(n)]
  BY DEF Quiet
<1>2. \A n \in Blocks : UsersOf(n)' = UsersOf(n)
  BY DEF Quiet, Has, UsersOf
<1>3. [n \in Blocks |-> UsersOf(n)]' = [n \in Blocks |-> UsersOf(n)]
  BY <1>2
<1> QED BY <1>1, <1>3 DEF Store!storeVars

LEMMA SameContents ==
  ASSUME RefInv, RefInv', UNCHANGED <<block, data, disk>>,
         \A b \in Buffers : (flags'[b] # {}) <=> (flags[b] # {})
  PROVE  \A n \in Blocks : Content(n)' = Content(n)
BY ContentKept DEF Filled

\* A process gets a block, or gives it back.
LEMMA OpenStep ==
  ASSUME NEW p \in Procs, NEW n \in Blocks,
         \A m \in Blocks : Content(m)' = Content(m),
         \A q \in Procs : ~Has(q, n),
         \A q \in Procs, m \in Blocks : Has(q, m)' <=> Has(q, m) \/ (q = p /\ m = n)
  PROVE  Store!Next
<1>1. [m \in Blocks |-> Content(m)]' = [m \in Blocks |-> Content(m)]
  OBVIOUS
<1>2. \A m \in Blocks : UsersOf(m) = {q \in Procs : Has(q, m)}
                       /\ UsersOf(m)' = {q \in Procs : Has(q, m)'}
  BY DEF UsersOf, Has
<1>3. UsersOf(n) = {} /\ UsersOf(n)' = {p}
  BY <1>2
<1>4. \A m \in Blocks \ {n} : UsersOf(m)' = UsersOf(m)
  <2> TAKE m \in Blocks \ {n}
  <2>1. \A q \in Procs : Has(q, m)' <=> Has(q, m)
    OBVIOUS
  <2> QED BY <1>2, <2>1
<1>5. [m \in Blocks |-> UsersOf(m)]'
        = [[m \in Blocks |-> UsersOf(m)] EXCEPT ![n] = {p}]
  BY <1>3, <1>4
<1>6. Store!Open(p, n)
  BY <1>1, <1>3, <1>5 DEF Store!Open
<1> QED BY <1>6 DEF Store!Next

LEMMA CloseStep ==
  ASSUME NEW p \in Procs, NEW n \in Blocks,
         \A m \in Blocks : Content(m)' = Content(m),
         \A q \in Procs : Has(q, n) <=> q = p,
         \A q \in Procs, m \in Blocks : Has(q, m)' <=> Has(q, m) /\ m # n
  PROVE  Store!Next
<1>1. [m \in Blocks |-> Content(m)]' = [m \in Blocks |-> Content(m)]
  OBVIOUS
<1>2. \A m \in Blocks : UsersOf(m) = {q \in Procs : Has(q, m)}
                       /\ UsersOf(m)' = {q \in Procs : Has(q, m)'}
  BY DEF UsersOf, Has
<1>3. UsersOf(n) = {p} /\ UsersOf(n)' = {}
  BY <1>2
<1>4. \A m \in Blocks \ {n} : UsersOf(m)' = UsersOf(m)
  <2> TAKE m \in Blocks \ {n}
  <2>1. \A q \in Procs : Has(q, m)' <=> Has(q, m)
    OBVIOUS
  <2> QED BY <1>2, <2>1
<1>5. [m \in Blocks |-> UsersOf(m)]'
        = [[m \in Blocks |-> UsersOf(m)] EXCEPT ![n] = {}]
  BY <1>3, <1>4
<1>6. Store!Close(p, n)
  BY <1>1, <1>3, <1>5 DEF Store!Close
<1> QED BY <1>6 DEF Store!Next

\* The holder changes its block.
LEMMA ChangeStep ==
  ASSUME IInv, RefInv', NEW p \in Procs, NEW v \in Values, Change(p, v)
  PROVE  Store!Next
<1>1. TypeOK /\ RefInv /\ LockInv /\ FlagsInv
  BY DEF IInv
<1>2. /\ pc[p] = "hold" /\ UNCHANGED <<block, flags, buf, pc, disk>>
      /\ data' = [data EXCEPT ![buf[p]] = v]
  BY DEF Change, At, bufs, drive
<1>3. PICK b \in Buffers : b = buf[p] /\ block[b] \in Blocks
  BY <1>1, <1>2, UsesBuffer
<1>4. PICK n \in Blocks : n = block[b]
  BY <1>3
<1>5. "valid" \in flags[b] /\ Filled(b, n)
  BY <1>1, <1>2, <1>3, <1>4 DEF FlagsInv, Filled
<1>6. Content(n)' = v
  <2>1. ContentOk'
    BY ContentIs, PTL
  <2>2. Filled(b, n)'
    BY <1>2, <1>5 DEF Filled
  <2>3. data'[b] = v
    BY <1>1, <1>2, <1>3 DEF TypeOK
  <2> QED BY <2>1, <2>2, <2>3 DEF ContentOk
<1>7. \A m \in Blocks \ {n} : Content(m)' = Content(m)
  <2>1. \A c \in Buffers \ {b} : data'[c] = data[c]
    BY <1>1, <1>2, <1>3 DEF TypeOK
  <2>2. \A m \in Blocks, c \in Buffers : Filled(c, m)' <=> Filled(c, m)
    BY <1>2 DEF Filled
  <2>3. \A m \in Blocks \ {n} : ~Filled(b, m)
    BY <1>4 DEF Filled
  <2> QED BY <1>1, <1>2, <2>1, <2>2, <2>3, ContentKept
<1>8. \A q \in Procs : Has(q, n) <=> q = p
  <2>1. Has(p, n)
    BY <1>2, <1>3, <1>4, BufferAssumption DEF Has
  <2> QED BY <1>1, <2>1, OneUser
<1>9. \A m \in Blocks : UsersOf(m) = {q \in Procs : Has(q, m)} /\ UsersOf(m)' = UsersOf(m)
  BY <1>2 DEF UsersOf, Has
<1>10. UsersOf(n) = {p}
  BY <1>8, <1>9
<1>11. [m \in Blocks |-> UsersOf(m)]' = [m \in Blocks |-> UsersOf(m)]
  BY <1>9
<1>12. [m \in Blocks |-> Content(m)]' = [[m \in Blocks |-> Content(m)] EXCEPT ![n] = v]
  BY <1>6, <1>7
<1>13. Store!Change(p, n, v)
  BY <1>10, <1>11, <1>12 DEF Store!Change
<1> QED BY <1>13 DEF Store!Next

\* acquiresleep: a process that finds its buffer valid has the block at once.
LEMMA AcquireStep ==
  ASSUME IInv, RefInv', NEW p \in Procs, Acquire(p)
  PROVE  Quiet \/ Store!Next
<1>1. TypeOK /\ RefInv /\ LockInv /\ FlagsInv
  BY DEF IInv
<1>2. PICK b \in Buffers : b = buf[p] /\ block[b] \in Blocks /\ pc[p] = "acquire"
  BY <1>1, UsesBuffer DEF Acquire, At
<1>3. UNCHANGED <<block, flags, data, buf, disk>>
  BY DEF Acquire, bufs, drive
<1>4. \A m \in Blocks : Content(m)' = Content(m)
  BY <1>1, <1>3, SameContents
<1>5. pc \in [Procs -> Places]
  BY <1>1 DEF TypeOK, Places
<1>6. CASE pc' = pc
  BY <1>3, <1>4, <1>6 DEF Quiet, Has
<1>7. CASE locker[b] = "none" /\ pc' = [pc EXCEPT ![p] = "rw"] /\ "valid" \notin flags[b]
  <2>1. flags[b] = {}
    BY <1>1, <1>7 DEF FlagsInv
  <2> QED BY <1>2, <1>3, <1>4, <1>5, <1>7, <2>1 DEF Quiet, Has
<1>8. CASE locker[b] = "none" /\ pc' = [pc EXCEPT ![p] = "hold"]
  <2>1. PICK n \in Blocks : n = block[b]
    BY <1>2
  <2>2. b # "none" /\ n # "none"
    BY BufferAssumption
  <2>3. \A q \in Procs : ~Has(q, n)
    <3> SUFFICES ASSUME NEW q \in Procs, Has(q, n) PROVE FALSE
      OBVIOUS
    <3>1. buf[q] \in Buffers /\ pc[q] \in {"hold", "rw", "disk"} /\ block[buf[q]] = n
      BY <1>1, UsesBuffer DEF Has
    <3>2. buf[q] = b
      BY <1>1, <2>1, <2>2, <3>1 DEF RefInv
    <3>3. locker[b] = q
      BY <1>1, <3>1, <3>2 DEF LockInv
    <3> QED BY <1>8, <3>3, BufferAssumption
  <2>4. \A q \in Procs, m \in Blocks : Has(q, m)' <=> Has(q, m) \/ (q = p /\ m = n)
    BY <1>2, <1>3, <1>5, <1>8, <2>1, <2>2 DEF Has
  <2> QED BY <1>4, <2>3, <2>4, OpenStep
<1>9. \/ pc' = pc
      \/ locker[b] = "none" /\ pc' = [pc EXCEPT ![p] = "hold"]
      \/ /\ locker[b] = "none" /\ pc' = [pc EXCEPT ![p] = "rw"]
         /\ "valid" \notin flags[b]
  BY <1>2 DEF Acquire, Goto, MustRead
<1> QED BY <1>6, <1>7, <1>8, <1>9

\* bget recycles a buffer: its old block is on the disk as the buffer has it.
LEMMA MissStep ==
  ASSUME IInv, CleanInv, RefInv', NEW p \in Procs, NEW n \in Blocks, Miss(p, n)
  PROVE  Quiet
<1>1. TypeOK /\ RefInv /\ LockInv /\ FlagsInv
  BY DEF IInv
<1>2. PICK b \in Buffers : /\ refcnt[b] = 0 /\ "dirty" \notin flags[b]
                           /\ flags' = [flags EXCEPT ![b] = {}]
                           /\ block' = [block EXCEPT ![b] = n]
                           /\ buf' = [buf EXCEPT ![p] = b]
                           /\ pc' = [pc EXCEPT ![p] = "acquire"]
                           /\ pc[p] = "idle" /\ UNCHANGED <<data, disk>>
  BY DEF Miss, At, LastOf, Recyclable, NoFlags, Use, Goto, drive
<1>3. \A q \in Procs : buf[q] # b
  BY <1>1, <1>2, Unused
<1>4. /\ pc \in [Procs -> Places] /\ buf \in [Procs -> Buffers \cup {"none"}]
      /\ flags \in [Buffers -> SUBSET {"valid", "dirty"}]
      /\ block \in [Buffers -> Blocks \cup {"none"}]
  BY <1>1 DEF TypeOK, Places
<1>5. /\ flags'[b] = {} /\ \A c \in Buffers \ {b} : flags'[c] = flags[c]
                                                  /\ block'[c] = block[c]
  BY <1>2, <1>4
<1>6. ASSUME NEW m \in Blocks PROVE Content(m)' = Content(m)
  <2>1. CASE Filled(b, m)
    <3>1. flags[b] = {"valid"} /\ block[b] = m /\ m # "none"
      BY <1>1, <1>2, <2>1, BufferAssumption DEF FlagsInv, Filled
    <3>2. data[b] = disk[m]
      BY <1>3, <3>1 DEF CleanInv, Synced
    <3>3. \A c \in Buffers : ~Filled(c, m)'
      <4>1. \A c \in Buffers \ {b} : block'[c] # m
        BY <1>1, <1>5, <3>1 DEF RefInv
      <4> QED BY <1>5, <4>1 DEF Filled
    <3>4. ContentOk'
      BY ContentIs, PTL
    <3>5. Content(m)' = disk[m]
      BY <1>2, <3>3, <3>4 DEF ContentOk
    <3>6. Content(m) = data[b]
      BY <1>1, <2>1, ContentIs DEF ContentOk
    <3> QED BY <3>2, <3>5, <3>6
  <2>2. CASE ~Filled(b, m)
    <3>1. \A c \in Buffers : Filled(c, m)' <=> Filled(c, m)
      BY <1>5, <2>2 DEF Filled
    <3> QED BY <1>1, <1>2, <3>1, ContentKept
  <2> QED BY <2>1, <2>2
<1>7. ASSUME NEW m \in Blocks, NEW q \in Procs PROVE Has(q, m)' <=> Has(q, m)
  <2>1. CASE q = p
    BY <1>2, <1>4, <2>1 DEF Has
  <2>2. CASE q # p
    <3>1. buf'[q] = buf[q] /\ pc'[q] = pc[q]
      BY <1>2, <1>4, <2>2
    <3>2. buf[q] # "none" => buf[q] \in Buffers \ {b}
      BY <1>3, <1>4
    <3> QED BY <1>5, <3>1, <3>2 DEF Has
  <2> QED BY <2>1, <2>2
<1> QED BY <1>6, <1>7 DEF Quiet

\* The interrupt: a write is not seen, a read gives the block to the process
\* that waits for it.
LEMMA IntrStep ==
  ASSUME ~DiskFails, IInv, RefInv', Ideintr
  PROVE  Quiet \/ Store!Next
<1>1. TypeOK /\ RefInv /\ LockInv /\ FlagsInv /\ QueueInv
  BY DEF IInv
<1>2. PICK b \in Buffers : b = Head(idequeue)
  BY <1>1, FirstRequest DEF Ideintr
<1>3. /\ block[b] \in Blocks /\ command = Transfer(b) /\ ~Synced(b)
      /\ \E p \in Procs : pc[p] = "disk" /\ buf[p] = b
  BY <1>1, <1>2, FirstRequest DEF Ideintr
<1>4. PICK p \in Procs : pc[p] = "disk" /\ buf[p] = b
  BY <1>3
<1>5. PICK n \in Blocks : n = block[b]
  BY <1>3
<1>6. n # "none" /\ b # "none"
  BY BufferAssumption
<1>7. flags' = [flags EXCEPT ![b] = {"valid"}] /\ UNCHANGED <<block, pc, buf>>
  BY <1>2 DEF Ideintr, bufs
<1>8. /\ flags \in [Buffers -> SUBSET {"valid", "dirty"}] /\ data \in [Buffers -> Values]
      /\ disk \in [Blocks -> Values]
  BY <1>1 DEF TypeOK
<1>9. /\ flags'[b] = {"valid"} /\ \A c \in Buffers \ {b} : flags'[c] = flags[c]
      /\ Filled(b, n)'
  BY <1>5, <1>7, <1>8 DEF Filled
<1>10. \A c \in Buffers \ {b}, m \in Blocks : Filled(c, m)' <=> Filled(c, m)
  BY <1>7, <1>9 DEF Filled
<1>11. \A m \in Blocks \ {n} : ~Filled(b, m) /\ ~Filled(b, m)'
  BY <1>5, <1>7 DEF Filled
<1>12. CASE "dirty" \in flags[b]
  <2>1. command.op = "write" /\ command.block = n /\ command.data = data[b]
    BY <1>1, <1>3, <1>5, <1>6, <1>12, TransferType
  <2>2. data' = data /\ disk' = [disk EXCEPT ![n] = data[b]]
    BY <1>2, <1>12, <2>1 DEF Ideintr
  <2>3. Filled(b, n)
    BY <1>5, <1>12 DEF Filled
  <2>4. \A m \in Blocks \ {n} : Content(m)' = Content(m)
    <3>1. \A m \in Blocks \ {n}, c \in Buffers : Filled(c, m)' <=> Filled(c, m)
      BY <1>10, <1>11
    <3>2. \A m \in Blocks \ {n} : disk'[m] = disk[m]
      BY <1>8, <2>2
    <3> QED BY <1>1, <2>2, <3>1, <3>2, ContentKept
  <2>5. Content(n)' = Content(n)
    <3>1. ContentOk'
      BY ContentIs, PTL
    <3>2. Content(n)' = data[b]
      BY <1>9, <2>2, <3>1 DEF ContentOk
    <3>3. Content(n) = data[b]
      BY <1>1, <2>3, ContentIs DEF ContentOk
    <3> QED BY <3>2, <3>3
  <2>6. \A c \in Buffers : (flags'[c] # {}) <=> (flags[c] # {})
    BY <1>9, <1>12
  <2>7. \A m \in Blocks, q \in Procs : Has(q, m)' <=> Has(q, m)
    <3>1. \A q \in Procs : pc[q] # "idle" => buf[q] \in Buffers
      BY <1>1, UsesBuffer
    <3> QED BY <1>7, <2>6, <3>1 DEF Has
  <2> QED BY <2>4, <2>5, <2>7 DEF Quiet
<1>13. CASE "dirty" \notin flags[b]
  <2>1. command.op = "read" /\ command.block = n
    BY <1>1, <1>3, <1>5, <1>6, <1>13, TransferType
  <2>2. disk' = disk /\ data' = [data EXCEPT ![b] = disk[n]]
    BY <1>2, <1>13, <2>1 DEF Ideintr
  <2>3. flags[b] = {}
    BY <1>1, <1>3, <1>13 DEF FlagsInv, Synced
  <2>4. data'[b] = disk[n] /\ \A c \in Buffers \ {b} : data'[c] = data[c]
    BY <1>8, <2>2
  <2>5. \A m \in Blocks \ {n} : Content(m)' = Content(m)
    <3>1. \A m \in Blocks \ {n}, c \in Buffers :
            (Filled(c, m)' <=> Filled(c, m)) /\ (Filled(c, m) => data'[c] = data[c])
      BY <1>10, <1>11, <2>4
    <3> QED BY <1>1, <2>2, <3>1, ContentKept
  <2>6. Content(n)' = Content(n)
    <3>1. ContentOk'
      BY ContentIs, PTL
    <3>2. Content(n)' = disk[n]
      BY <1>9, <2>4, <3>1 DEF ContentOk
    <3>3. \A c \in Buffers : ~Filled(c, n)
      BY <1>1, <1>5, <1>6, <2>3 DEF RefInv, Filled
    <3>4. Content(n) = disk[n]
      BY <1>1, <3>3, ContentIs DEF ContentOk
    <3> QED BY <3>2, <3>4
  <2>7. \A q \in Procs : ~Has(q, n)
    <3> SUFFICES ASSUME NEW q \in Procs, Has(q, n) PROVE FALSE
      OBVIOUS
    <3>1. buf[q] \in Buffers /\ pc[q] \in {"hold", "rw", "disk"} /\ block[buf[q]] = n
      BY <1>1, UsesBuffer DEF Has
    <3>2. buf[q] = b
      BY <1>1, <1>5, <1>6, <3>1 DEF RefInv
    <3>3. q = p
      BY <1>1, <1>4, <3>1, <3>2, OneHolder
    <3> QED BY <1>4, <2>3, <3>2, <3>3 DEF Has
  <2>8. \A q \in Procs, m \in Blocks : Has(q, m)' <=> Has(q, m) \/ (q = p /\ m = n)
    <3> SUFFICES ASSUME NEW q \in Procs, NEW m \in Blocks
                 PROVE  Has(q, m)' <=> Has(q, m) \/ (q = p /\ m = n)
      OBVIOUS
    <3>1. CASE buf[q] # b
      <4>1. pc[q] # "idle" => buf[q] \in Buffers
        BY <1>1, UsesBuffer
      <4> QED BY <1>4, <1>7, <1>9, <3>1, <4>1 DEF Has
    <3>2. CASE buf[q] = b /\ q # p
      <4>1. pc[q] \notin {"hold", "rw", "disk"}
        BY <1>1, <1>4, <3>2, OneHolder
      <4> QED BY <1>7, <3>2, <4>1 DEF Has
    <3>3. CASE q = p
      <4>1. Has(q, m)' <=> m = n
        BY <1>4, <1>5, <1>6, <1>7, <1>9, <3>3 DEF Has
      <4>2. ~Has(q, m)
        BY <1>4, <2>3, <3>3 DEF Has
      <4> QED BY <3>3, <4>1, <4>2
    <3> QED BY <3>1, <3>2, <3>3
  <2>9. \A m \in Blocks : Content(m)' = Content(m)
    BY <2>5, <2>6
  <2> QED BY <2>7, <2>8, <2>9, OpenStep
<1> QED BY <1>12, <1>13

\* releasesleep
LEMMA ReleaseStep ==
  ASSUME IInv, RefInv', NEW p \in Procs, Brelse(p)
  PROVE  Store!Next
<1>1. TypeOK /\ RefInv /\ LockInv /\ FlagsInv
  BY DEF IInv
<1>2. /\ pc[p] = "hold" /\ pc' = [pc EXCEPT ![p] = "drop"]
      /\ UNCHANGED <<block, flags, data, disk, buf>>
  BY <1>1, BrelseEffect
<1>3. PICK n \in Blocks : n = block[buf[p]]
  BY <1>1, <1>2, UsesBuffer
<1>4. \A m \in Blocks : Content(m)' = Content(m)
  BY <1>1, <1>2, SameContents
<1>5. buf[p] # "none" /\ Has(p, n)
  BY <1>1, <1>2, <1>3, UsesBuffer, BufferAssumption DEF Has
<1>6. \A q \in Procs : Has(q, n) <=> q = p
  BY <1>1, <1>5, OneUser
<1>7. pc \in [Procs -> Places]
  BY <1>1 DEF TypeOK, Places
<1>8. \A q \in Procs, m \in Blocks : Has(q, m)' <=> Has(q, m) /\ m # n
  <2> SUFFICES ASSUME NEW q \in Procs, NEW m \in Blocks
               PROVE  Has(q, m)' <=> Has(q, m) /\ m # n
    OBVIOUS
  <2>1. CASE q = p
    <3>1. ~Has(p, m)'
      BY <1>2, <1>7 DEF Has
    <3>2. Has(p, m) => m = n
      BY <1>3 DEF Has
    <3> QED BY <2>1, <3>1, <3>2
  <2>2. CASE q # p
    <3>1. Has(q, m)' <=> Has(q, m)
      BY <1>2, <1>7, <2>2 DEF Has
    <3> QED BY <1>6, <2>2, <3>1
  <2> QED BY <2>1, <2>2
<1> QED BY <1>4, <1>6, <1>8, CloseStep

\* The other steps of a process.
LEMMA QuietSteps ==
  ASSUME IInv, RefInv', NEW p \in Procs,
         \/ \E n \in Blocks : Hit(p, n) \/ NoBuffers(p, n)
         \/ LogWrite(p) \/ Bwrite(p) \/ Iderw(p) \/ Woken(p) \/ Drop(p) \/ Kill(p)
  PROVE  Quiet
<1>1. TypeOK /\ RefInv /\ LockInv /\ FlagsInv
  BY DEF IInv
<1>2. /\ pc \in [Procs -> Places] /\ buf \in [Procs -> Buffers \cup {"none"}]
      /\ flags \in [Buffers -> SUBSET {"valid", "dirty"}] /\ "none" \notin Buffers
      /\ \A q \in Procs : pc[q] # "idle" => buf[q] \in Buffers
      /\ \A q \in Procs : pc[q] = "hold" => "valid" \in flags[buf[q]]
  BY <1>1, BufferAssumption, UsesBuffer DEF TypeOK, Places, FlagsInv
<1>3. ASSUME UNCHANGED <<block, data, disk>>,
             \A b \in Buffers : (flags'[b] # {}) <=> (flags[b] # {}),
             \A q \in Procs, m \in Blocks : Has(q, m)' <=> Has(q, m)
      PROVE  Quiet
  <2>1. \A m \in Blocks : Content(m)' = Content(m)
    BY <1>1, <1>3, SameContents
  <2> QED BY <1>3, <2>1 DEF Quiet
<1>4. ASSUME NEW n \in Blocks, Hit(p, n) PROVE Quiet
  <2>1. UNCHANGED <<block, flags, data, disk>>
    BY <1>4 DEF Hit, drive
  <2>2. \A q \in Procs, m \in Blocks : Has(q, m)' <=> Has(q, m)
    BY <1>1, <1>2, <1>4, <2>1, BgetEffect DEF Has
  <2> QED BY <1>3, <2>1, <2>2
<1>5. CASE LogWrite(p)
  <2>1. /\ pc[p] = "hold" /\ flags' = [flags EXCEPT ![buf[p]] = @ \cup {"dirty"}]
        /\ UNCHANGED <<block, data, disk, pc, buf>>
    BY <1>5 DEF LogWrite, At, bufs, drive
  <2>2. \A b \in Buffers : (flags'[b] # {}) <=> (flags[b] # {})
    BY <1>2, <2>1
  <2>3. \A q \in Procs, m \in Blocks : Has(q, m)' <=> Has(q, m)
    BY <1>2, <2>1, <2>2 DEF Has
  <2> QED BY <1>3, <2>1, <2>2, <2>3
<1>6. CASE Bwrite(p)
  <2>1. /\ pc[p] = "hold" /\ flags' = [flags EXCEPT ![buf[p]] = @ \cup {"dirty"}]
        /\ pc' = [pc EXCEPT ![p] = "rw"] /\ UNCHANGED <<block, data, disk, buf>>
    BY <1>1, <1>6, BwriteEffect
  <2>2. \A b \in Buffers : (flags'[b] # {}) <=> (flags[b] # {})
    BY <1>2, <2>1
  <2>3. flags[buf[p]] # {}
    BY <1>2, <2>1
  <2>4. \A q \in Procs, m \in Blocks : Has(q, m)' <=> Has(q, m)
    BY <1>2, <2>1, <2>2, <2>3 DEF Has
  <2> QED BY <1>3, <2>1, <2>2, <2>4
<1>7. CASE Iderw(p)
  <2>1. /\ pc[p] = "rw" /\ pc' = [pc EXCEPT ![p] = "disk"]
        /\ UNCHANGED <<block, flags, data, disk, buf>>
    BY <1>1, <1>7, IderwEffect
  <2>2. \A q \in Procs, m \in Blocks : Has(q, m)' <=> Has(q, m)
    BY <1>2, <2>1 DEF Has
  <2> QED BY <1>3, <2>1, <2>2
<1>8. CASE Woken(p)
  <2>1. /\ pc[p] = "disk" /\ UNCHANGED <<block, flags, data, disk, buf>>
        /\ \/ pc' = pc
           \/ flags[buf[p]] = {"valid"} /\ pc' = [pc EXCEPT ![p] = "hold"]
    BY <1>8 DEF Woken, At, Goto, Synced, bufs, drive
  <2>2. \A q \in Procs, m \in Blocks : Has(q, m)' <=> Has(q, m)
    BY <1>2, <2>1 DEF Has
  <2> QED BY <1>3, <2>1, <2>2
<1>9. CASE Drop(p)
  <2>1. /\ pc[p] = "drop" /\ UNCHANGED <<block, flags, data, disk>>
        /\ buf' = [buf EXCEPT ![p] = "none"] /\ pc' = [pc EXCEPT ![p] = "idle"]
    BY <1>9 DEF Drop, At, Goto, drive
  <2>2. \A q \in Procs, m \in Blocks : Has(q, m)' <=> Has(q, m)
    BY <1>2, <2>1 DEF Has
  <2> QED BY <1>3, <2>1, <2>2
<1>10. ASSUME UNCHANGED <<block, flags, data, disk, pc, buf>> PROVE Quiet
  BY <1>3, <1>10 DEF Has
<1>11. ASSUME NEW n \in Blocks, NoBuffers(p, n) PROVE Quiet
  BY <1>10, <1>11 DEF NoBuffers, Panic
<1>12. CASE Kill(p)
  BY <1>10, <1>12 DEF Kill, bufs, drive
<1> QED BY <1>4, <1>5, <1>6, <1>7, <1>8, <1>9, <1>11, <1>12

LEMMA StoreInit == Init => Store!Init
<1> SUFFICES ASSUME Init PROVE Store!Init
  OBVIOUS
<1>1. RefInv
  BY InitInv DEF IInv
<1>2. \A n \in Blocks : Content(n) = disk[n]
  BY <1>1, ContentIs DEF Init, Filled, ContentOk
<1>3. [n \in Blocks |-> Content(n)] \in [Blocks -> Values]
  BY <1>2 DEF Init
<1>4. \A n \in Blocks : UsersOf(n) = {}
  BY DEF Init, UsersOf
<1>5. [n \in Blocks |-> UsersOf(n)] = [n \in Blocks |-> {}]
  BY <1>4
<1> QED BY <1>3, <1>5 DEF Store!Init

LEMMA StoreStep ==
  ASSUME ~DiskFails
  PROVE  IInv /\ IInv' /\ CleanInv /\ [Next]_vars => [Store!Next]_(Store!storeVars)
<1> SUFFICES ASSUME IInv, IInv', CleanInv, [Next]_vars PROVE Quiet \/ Store!Next
  BY QuietStutters
<1>1. RefInv'
  BY DEF IInv
<1>2. CASE Ideintr
  BY <1>1, <1>2, IntrStep
<1>3. CASE UNCHANGED vars
  BY <1>3 DEF Quiet, Has, Content, vars
<1>4. CASE \E p \in Procs, n \in Blocks : Hit(p, n) \/ Miss(p, n) \/ NoBuffers(p, n)
  BY <1>1, <1>4, MissStep, QuietSteps
<1>5. CASE \E p \in Procs, v \in Values : Change(p, v)
  BY <1>1, <1>5, ChangeStep
<1>6. CASE \E p \in Procs : \/ LogWrite(p) \/ Bwrite(p) \/ Acquire(p) \/ Iderw(p)
                           \/ Woken(p) \/ Brelse(p) \/ Drop(p) \/ Kill(p)
  BY <1>1, <1>6, AcquireStep, ReleaseStep, QuietSteps
<1> QED BY <1>2, <1>3, <1>4, <1>5, <1>6, StepKinds

\* On a disk that does not fail, every block of the disk is a register that
\* one process at a time reads and changes: whoever gets a buffer from bread
\* finds what the last holder left, through evictions, pins and transfers.
THEOREM CacheImplementsStore == ASSUME ~DiskFails PROVE Spec => Coherent
<1>1. Init => CleanInv /\ Store!Init
  BY InitClean, StoreInit
<1>2. IInv /\ IInv' /\ CleanInv /\ [Next]_vars => CleanInv' /\ [Store!Next]_(Store!storeVars)
  BY CleanStep, StoreStep
<1> QED BY Invariance, <1>1, <1>2, PTL DEF Spec, Coherent, Store!Spec
=============================================================================
