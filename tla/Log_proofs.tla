------------------------------ MODULE Log_proofs ------------------------------
(***************************************************************************)
(* The log implements a disk on which the writes of whole calls become     *)
(* durable at once (AtomicDisk), for any number of processes, blocks,      *)
(* values and any size of the log.                                         *)
(***************************************************************************)
EXTENDS Log, FiniteSetTheorems, FunctionTheorems, SequenceTheorems, TLAPS

Indices(s) == 1 .. Len(s)
Distinct(s) == \A i, j \in Indices(s) : s[i] = s[j] => i = j
Logged(b) == \E i \in Indices(lh) : lh[i] = b
Inside == {p \in Procs : pc[p] = "op"}

Committing == task[1] \in {"log", "head", "install", "erase", "done"}

\* A block is in the log once.
LogInv == Distinct(lh) /\ Distinct(header)

\* The entry i of the log has been copied to the log on disk.
Copied(i) == \/ task[1] = "log" /\ i < task[2]
             \/ task[1] \in {"head", "install", "erase"}
\* ... and home.
Installed(i) == \/ task[1] = "install" /\ i < task[2]
                \/ task[1] = "reinstall" /\ i < task[2]
                \/ task[1] = "erase"

\* A buffer differs from its home only if its block is in the log; until it is
\* installed its buffer is pinned.
CacheInv ==
  /\ \A b \in Blocks : \/ cache[b] = Absent
                       \/ cache[b] = Buffer(home[b])
                       \/ ~Recovering /\ Logged(b)
  /\ \A b \in dirty : cache[b] # Absent
  /\ ~Recovering =>
       \A i \in Indices(lh) : Installed(i) \/ lh[i] \in dirty

\* What is on disk at each write of commit and of recovery.
PhaseInv ==
  /\ task[1] \in {"none", "log", "head", "done"} => header = <<>>
  /\ task[1] \in {"install", "erase", "reinstall"} => header = lh
  /\ task[1] \in {"log", "install", "reinstall"} => task[2] \in Indices(lh)
  /\ task[1] = "head" => lh # <<>>
  /\ task[1] = "done" => lh = <<>>
  /\ \A i \in Indices(lh) :
       /\ Copied(i) => logged[i] = Data(lh[i])
       /\ Installed(i) => logged[i] = home[lh[i]]
  /\ task[1] = "clear" =>
       \A i \in Indices(header) : logged[i] = home[header[i]]

\* Nobody is inside a call while the log commits.
CallInv ==
  /\ outstanding = Cardinality(Inside)
  /\ Committing => committing /\ Inside = {}

IInv == TypeOK /\ LogInv /\ CacheInv /\ PhaseInv /\ CallInv

-----------------------------------------------------------------------------
(* The type of the state, as far as the steps need it                      *)

LEMMA BufferFacts ==
  /\ \A v : Buffer(v) # Absent /\ Buffer(v).data = v
  /\ \A v, w : Buffer(v) = Buffer(w) => v = w
<1>1. \A v : Buffer(v) # Absent
  <2> SUFFICES ASSUME NEW v, Buffer(v) = Absent PROVE FALSE
    OBVIOUS
  <2>1. "data" \in DOMAIN Buffer(v)
    BY DEF Buffer
  <2>2. "data" \notin DOMAIN Absent
    BY DEF Absent
  <2> QED BY <2>1, <2>2
<1>2. \A v : Buffer(v).data = v
  BY DEF Buffer
<1> QED BY <1>1, <1>2

\* What a block holds, by its buffer.
LEMMA DataFacts ==
  ASSUME TypeOK, NEW b \in Blocks
  PROVE  /\ Data(b) \in Values
         /\ cache[b] # Absent => cache[b] = Buffer(Data(b))
         /\ cache[b] = Absent => Data(b) = home[b]
<1> USE DEF TypeOK, Data
<1>1. cache[b] = Absent \/ \E v \in Values : cache[b] = Buffer(v)
  OBVIOUS
<1>2. CASE cache[b] = Absent
  BY <1>2
<1>3. CASE \E v \in Values : cache[b] = Buffer(v)
  BY <1>3, BufferFacts
<1> QED BY <1>1, <1>2, <1>3

LEMMA TaskFacts ==
  ASSUME TypeOK
  PROVE  task[1] \in Tasks /\ task[2] \in 0 .. LOGSIZE
BY DEF TypeOK

-----------------------------------------------------------------------------
(* The invariant holds at the start                                        *)

LEMMA Initially == Init => IInv
<1> SUFFICES ASSUME Init PROVE IInv
  OBVIOUS
<1> USE DEF Init
<1>1. TypeOK
  <2>1. task \in Tasks \X (0 .. LOGSIZE)
    BY LogAssumption DEF Tasks
  <2>2. lh \in Seq(Blocks) /\ Len(lh) <= LOGSIZE /\ outstanding \in Nat
    BY LogAssumption
  <2>3. header \in Seq(Blocks) /\ Len(header) <= LOGSIZE
    BY LogAssumption
  <2>4. logged \in [1 .. LOGSIZE -> Values]
    OBVIOUS
  <2>5. cache \in [Blocks -> {Buffer(v) : v \in Values} \cup {Absent}]
    OBVIOUS
  <2>6. /\ committing \in BOOLEAN /\ dirty \subseteq Blocks
        /\ pc \in [Procs -> {"idle", "begin", "asleep", "op", "commit"}]
        /\ wrote \in [Procs -> SUBSET Blocks]
        /\ panicked \in {"none", "too big a transaction", "log.committing"}
    OBVIOUS
  <2> QED BY <2>1, <2>2, <2>3, <2>4, <2>5, <2>6 DEF TypeOK
<1>2. LogInv
  BY DEF LogInv, Distinct, Indices
<1>3. CacheInv
  BY DEF CacheInv, Indices
<1>4. PhaseInv
  BY DEF PhaseInv, Indices, Copied, Installed
<1>5. CallInv
  <2>1. Inside = {}
    BY DEF Inside
  <2> QED BY <2>1, FS_EmptySet DEF CallInv, Committing
<1> QED BY <1>1, <1>2, <1>3, <1>4, <1>5 DEF IInv

-----------------------------------------------------------------------------
(* The buffer cache                                                        *)

\* Reading a block into a buffer shows the block as before ...
LEMMA BreadData ==
  ASSUME IInv, NEW b \in Blocks, Bread(b), NEW c \in Blocks
  PROVE  Data(c)' = Data(c)
<1>0. cache' = [cache EXCEPT ![b] = Buffer(home[b])] /\ cache[b] = Absent
  BY DEF Bread
<1>1. CASE c = b
  BY <1>1, <1>0, BufferFacts DEF Data, TypeOK, IInv, Bread
<1>2. CASE c # b
  BY <1>2, <1>0 DEF Data, TypeOK, IInv, Bread
<1> QED BY <1>1, <1>2

LEMMA BreadStep == ASSUME IInv, NEW b \in Blocks, Bread(b) PROVE IInv'
<1> USE DEF IInv, Bread, Up
<1>1. TypeOK'
  BY DEF TypeOK
<1>2. \A c \in Blocks : Data(c)' = Data(c)
  BY BreadData
<1>3. LogInv'
  BY DEF LogInv, Distinct, Indices
<1>4. CacheInv'
  BY BufferFacts DEF CacheInv, TypeOK, Indices, Installed, Recovering, Logged
<1>5. PhaseInv'
  <2>1. \A i \in Indices(lh) : lh[i] \in Blocks
    BY DEF TypeOK, Indices
  <2> QED BY <1>2, <2>1 DEF PhaseInv, Indices, Copied, Installed
<1>6. CallInv'
  BY DEF CallInv, Inside, Committing
<1> QED BY <1>1, <1>3, <1>4, <1>5, <1>6

\* ... and so does recycling one, as bget takes none that is dirty.
LEMMA RecycleData ==
  ASSUME IInv, NEW b \in Blocks, Recycle(b), NEW c \in Blocks
  PROVE  Data(c)' = Data(c)
<1> USE DEF IInv
<1>0. /\ cache' = [cache EXCEPT ![b] = Absent] /\ b \notin dirty
      /\ home' = home /\ ~Recovering
  BY DEF Recycle, Recyclable, Up
<1>1. CASE c = b
  <2>1. Data(b)' = home[b]
    BY <1>0 DEF Data, TypeOK
  <2>2. CASE cache[b] = Buffer(home[b])
    BY <1>1, <2>1, <2>2, BufferFacts DEF Data
  <2>3. CASE Logged(b)
    <3>1. PICK i \in Indices(lh) : lh[i] = b
      BY <2>3 DEF Logged
    <3>2. Installed(i)
      BY <1>0, <3>1 DEF CacheInv
    <3>3. Copied(i)
      BY <1>0, <3>2 DEF Installed, Copied, Recovering
    <3> QED BY <1>1, <2>1, <3>1, <3>2, <3>3 DEF PhaseInv
  <2> QED BY <1>0, <2>2, <2>3 DEF CacheInv, Recycle
<1>2. CASE c # b
  BY <1>0, <1>2 DEF Data, TypeOK
<1> QED BY <1>1, <1>2

LEMMA RecycleStep == ASSUME IInv, NEW b \in Blocks, Recycle(b) PROVE IInv'
<1> USE DEF IInv, Recycle, Up
<1>0. cache' = [cache EXCEPT ![b] = Absent] /\ b \notin dirty
  BY DEF Recyclable
<1>1. TypeOK'
  BY DEF TypeOK
<1>2. \A c \in Blocks : Data(c)' = Data(c)
  BY RecycleData
<1>3. LogInv'
  BY DEF LogInv, Distinct, Indices
<1>4. CacheInv'
  BY <1>0 DEF CacheInv, TypeOK, Indices, Installed, Recovering, Logged
<1>5. PhaseInv'
  <2>1. \A i \in Indices(lh) : lh[i] \in Blocks
    BY DEF TypeOK, Indices
  <2> QED BY <1>2, <2>1 DEF PhaseInv, Indices, Copied, Installed
<1>6. CallInv'
  BY DEF CallInv, Inside, Committing
<1> QED BY <1>1, <1>3, <1>4, <1>5, <1>6

-----------------------------------------------------------------------------
(* Calls                                                                   *)

LEMMA InsideFinite == IsFiniteSet(Inside) /\ Cardinality(Inside) \in Nat
BY LogAssumption, FS_Subset, FS_CardinalityType DEF Inside

LEMMA BeginOpStep == ASSUME IInv, NEW p \in Procs, BeginOp(p) PROVE IInv'
<1> USE DEF IInv, BeginOp, Up
<1>1. TypeOK'
  BY DEF TypeOK, Counted
<1>2. LogInv'
  BY DEF LogInv, Distinct, Indices
<1>3. CacheInv'
  BY DEF CacheInv, Indices, Installed, Recovering, Logged
<1>4. PhaseInv'
  BY DEF PhaseInv, Indices, Copied, Installed, Data
<1>5. CallInv'
  <2>1. pc[p] # "op" /\ p \notin Inside
    BY DEF Inside
  <2>2. CASE MayBegin
    <3>1. Inside' = Inside \cup {p}
      BY <2>2 DEF Inside, TypeOK
    <3>2. Cardinality(Inside') = Cardinality(Inside) + 1
      BY <2>1, <3>1, InsideFinite, FS_AddElement
    <3> QED BY <2>2, <3>2 DEF CallInv, Counted, Committing, MayBegin
  <2>3. CASE ~MayBegin
    <3>1. Inside' = Inside
      BY <2>1, <2>3 DEF Inside, TypeOK
    <3> QED BY <2>3, <3>1 DEF CallInv, Committing
  <2> QED BY <2>2, <2>3
<1> QED BY <1>1, <1>2, <1>3, <1>4, <1>5

\* A process is inside a call only between commits.
LEMMA InsideIdle ==
  ASSUME IInv, Up, NEW p \in Procs, pc[p] = "op"
  PROVE  task[1] = "none" /\ header = <<>> /\ p \in Inside
BY TaskFacts DEF IInv, CallInv, Inside, Committing, Up, Recovering, Tasks, PhaseInv

LEMMA LogWriteStep ==
  ASSUME IInv, NEW p \in Procs, NEW b \in Blocks, NEW v \in Values,
         LogWrite(p, b, v)
  PROVE  IInv'
<1> USE DEF IInv
<1>0. task[1] = "none" /\ header = <<>>
  BY InsideIdle DEF LogWrite
<1>a. UNCHANGED <<home, logged, header, task, outstanding, committing, pc>>
  BY DEF LogWrite, memory
<1>b. /\ lh' \in Seq(Blocks) /\ Len(lh') <= LOGSIZE
      /\ Distinct(lh)'
      /\ \A i \in Indices(lh') : \/ i \in Indices(lh) /\ lh'[i] = lh[i]
                                 \/ lh'[i] = b
      /\ \A c \in Blocks : Logged(c) => Logged(c)'
  <2>1. CASE lh' = lh
    BY <2>1 DEF TypeOK, LogInv, Distinct, Indices, Logged
  <2>2. CASE lh' = Append(lh, b) /\ ~Contains(lh, b) /\ Len(lh) < LOGSIZE
    <3> lh \in Seq(Blocks) /\ LOGSIZE \in Nat
      BY LogAssumption DEF TypeOK
    <3>1. /\ Len(lh') = Len(lh) + 1
          /\ \A i \in 1 .. Len(lh) : lh'[i] = lh[i]
          /\ lh'[Len(lh) + 1] = b
      BY <2>2
    <3>2. \A i \in 1 .. Len(lh) : lh[i] # b
      BY <2>2 DEF Contains
    <3> QED BY <2>2, <3>1, <3>2 DEF LogInv, Distinct, Indices, Logged
  <2>3. \/ lh' = lh
        \/ lh' = Append(lh, b) /\ ~Contains(lh, b) /\ Len(lh) < LOGSIZE
    <3> lh \in Seq(Blocks) /\ LOGSIZE \in Nat
      BY LogAssumption DEF TypeOK
    <3>1. CASE Len(lh) >= LOGSIZE \/ Len(lh) >= NLOG - 1
      BY <3>1 DEF LogWrite, memory
    <3>2. CASE ~(Len(lh) >= LOGSIZE \/ Len(lh) >= NLOG - 1)
      <4>1. lh' = Absorb(b) /\ Len(lh) < LOGSIZE
        BY <3>2 DEF LogWrite
      <4> QED BY <4>1 DEF Absorb
    <3> QED BY <3>1, <3>2
  <2> QED BY <2>1, <2>2, <2>3
<1>c. \/ cache' = cache /\ dirty' = dirty /\ lh' = lh
      \/ /\ cache' = [cache EXCEPT ![b] = Buffer(v)]
         /\ dirty' = dirty \cup {b}
         /\ \E i \in Indices(lh') : lh'[i] = b
  <2>1. CASE UNCHANGED memory
    BY <2>1 DEF memory
  <2>2. CASE cache' = [cache EXCEPT ![b] = Buffer(v)] /\ lh' = Absorb(b)
    <3> lh \in Seq(Blocks)
      BY DEF TypeOK
    <3>1. \E i \in Indices(lh') : lh'[i] = b
      BY <2>2 DEF Absorb, Contains, Indices
    <3> QED BY <2>2, <3>1 DEF LogWrite, memory
  <2> QED BY <2>1, <2>2 DEF LogWrite
<1>1. TypeOK'
  <2>1. cache' \in [Blocks -> {Buffer(w) : w \in Values} \cup {Absent}]
    BY <1>c DEF TypeOK
  <2>2. dirty' \subseteq Blocks
    BY <1>c DEF TypeOK
  <2>3. panicked' \in {"none", "too big a transaction", "log.committing"}
    <3>1. panicked' = "too big a transaction" \/ panicked' = panicked
      BY DEF LogWrite
    <3> QED BY <3>1 DEF TypeOK
  <2>4. wrote' \in [Procs -> SUBSET Blocks]
    <3>1. wrote \in [Procs -> SUBSET Blocks]
      BY DEF TypeOK
    <3>2. wrote' = wrote \/ wrote' = [wrote EXCEPT ![p] = wrote[p] \cup {b}]
      BY DEF LogWrite, memory
    <3> QED BY <3>1, <3>2
  <2> QED BY <1>a, <1>b, <2>1, <2>2, <2>3, <2>4 DEF TypeOK
<1>2. LogInv'
  BY <1>a, <1>b DEF LogInv, Distinct, Indices
<1>3. CacheInv'
  <2>1. ~Recovering' /\ \A i : ~Installed(i)'
    BY <1>0, <1>a DEF Recovering, Installed
  <2>2. ~Recovering /\ \A i : ~Installed(i)
    BY <1>0 DEF Recovering, Installed
  <2>3. \A c \in Blocks : \/ cache'[c] = Absent
                          \/ cache'[c] = Buffer(home[c])
                          \/ Logged(c)'
    BY <1>b, <1>c DEF CacheInv, TypeOK, Logged
  <2>4. \A c \in dirty' : cache'[c] # Absent
    <3> TAKE c \in dirty'
    <3>1. c \in Blocks
      BY <1>c DEF TypeOK
    <3>2. CASE c \in dirty /\ cache'[c] = cache[c]
      BY <3>2 DEF CacheInv
    <3>3. CASE cache'[c] = Buffer(v)
      BY <3>3, BufferFacts
    <3> QED BY <1>c, <3>1, <3>2, <3>3 DEF TypeOK
  <2>5. \A i \in Indices(lh') : lh'[i] \in dirty'
    BY <1>b, <1>c, <2>2 DEF CacheInv
  <2> QED BY <1>a, <2>1, <2>3, <2>4, <2>5 DEF CacheInv, Indices
<1>4. PhaseInv'
  BY <1>0, <1>a DEF PhaseInv, Copied, Installed
<1>5. CallInv'
  BY <1>a DEF CallInv, Inside, Committing
<1> QED BY <1>1, <1>2, <1>3, <1>4, <1>5

LEMMA EndOpStep == ASSUME IInv, NEW p \in Procs, EndOp(p) PROVE IInv'
<1> USE DEF IInv
<1>0. task[1] = "none" /\ header = <<>> /\ p \in Inside /\ pc[p] = "op"
  BY InsideIdle DEF EndOp
<1>a. /\ UNCHANGED <<home, logged, header, cache, dirty, lh, wrote>>
      /\ outstanding' = outstanding - 1
  BY DEF EndOp
<1>b. Inside' = Inside \ {p}
  BY DEF EndOp, Inside, Woken, TypeOK
<1>c. Cardinality(Inside') = Cardinality(Inside) - 1 /\ outstanding - 1 \in Nat
  <2>1. Cardinality(Inside \ {p}) = Cardinality(Inside) - 1
    BY <1>0, InsideFinite, FS_RemoveElement
  <2>2. Cardinality(Inside) # 0
    BY <1>0, InsideFinite, FS_EmptySet
  <2> QED BY <1>b, <2>1, <2>2, InsideFinite DEF CallInv
<1>d. \/ task' = task /\ committing' = committing
      \/ outstanding = 1 /\ task' = <<"done", 0>> /\ lh = <<>> /\ committing' = TRUE
      \/ outstanding = 1 /\ task' = <<"log", 1>> /\ lh # <<>> /\ committing' = TRUE
  BY DEF EndOp
<1>e. lh # <<>> => 1 \in Indices(lh) /\ 1 \in 0 .. LOGSIZE
  <2> SUFFICES ASSUME lh # <<>> PROVE 1 \in Indices(lh) /\ 1 \in 0 .. LOGSIZE
    OBVIOUS
  <2>1. lh \in Seq(Blocks) /\ Len(lh) <= LOGSIZE /\ LOGSIZE \in Nat
    BY LogAssumption DEF TypeOK
  <2>2. Len(lh) \in Nat /\ Len(lh) # 0
    BY <2>1, EmptySeq
  <2> QED BY <2>1, <2>2 DEF Indices
<1>1. TypeOK'
  <2>1. task' \in Tasks \X (0 .. LOGSIZE)
    <3> task \in Tasks \X (0 .. LOGSIZE)
      BY DEF TypeOK
    <3>1. 0 \in 0 .. LOGSIZE
      BY LogAssumption
    <3>2. "done" \in Tasks /\ "log" \in Tasks
      BY DEF Tasks
    <3> QED BY <1>d, <1>e, <3>1, <3>2
  <2>2. /\ pc' \in [Procs -> {"idle", "begin", "asleep", "op", "commit"}]
        /\ panicked' \in {"none", "too big a transaction", "log.committing"}
    BY DEF EndOp, TypeOK, Woken
  <2> QED BY <1>a, <1>c, <1>d, <2>1, <2>2 DEF TypeOK
<1>2. LogInv'
  BY <1>a DEF LogInv, Distinct, Indices
<1>3. CacheInv'
  <2>1. ~Recovering /\ ~Recovering' /\ \A i : ~Installed(i)
    BY <1>0, <1>d DEF Recovering, Installed
  <2> QED BY <1>a, <2>1 DEF CacheInv, Indices, Logged
<1>4. PhaseInv'
  <2>1. CASE task' = task
    BY <1>0, <1>a, <2>1 DEF PhaseInv, Copied, Installed
  <2>2. CASE task' = <<"done", 0>> /\ lh = <<>>
    BY <1>0, <1>a, <2>2 DEF PhaseInv, Copied, Installed, Indices
  <2>3. CASE task' = <<"log", 1>> /\ lh # <<>>
    <3>1. \A i \in Indices(lh) : ~(i < 1)
      BY DEF Indices
    <3>2. 1 \in Indices(lh)
      BY <1>e, <2>3
    <3> QED BY <1>0, <1>a, <2>3, <3>1, <3>2
            DEF PhaseInv, Copied, Installed, Indices
  <2> QED BY <1>d, <2>1, <2>2, <2>3
<1>5. CallInv'
  <2>1. CASE outstanding = 1
    <3>1. Cardinality(Inside') = 0 /\ IsFiniteSet(Inside')
      BY <1>b, <1>c, <2>1, InsideFinite, FS_Subset DEF CallInv
    <3>2. Inside' = {}
      BY <3>1, FS_EmptySet
    <3> QED BY <1>a, <1>c, <2>1, <3>2 DEF CallInv, EndOp
  <2>2. CASE outstanding # 1
    BY <1>0, <1>a, <1>c, <1>d, <2>2 DEF CallInv, Committing
  <2> QED BY <2>1, <2>2
<1> QED BY <1>1, <1>2, <1>3, <1>4, <1>5

-----------------------------------------------------------------------------
(* Commit                                                                  *)

LEMMA IndexFacts ==
  ASSUME TypeOK
  PROVE  /\ \A i \in Indices(lh) : lh[i] \in Blocks /\ i \in 1 .. LOGSIZE
         /\ lh # <<>> => 1 \in Indices(lh)
<1>1. lh \in Seq(Blocks) /\ Len(lh) <= LOGSIZE /\ LOGSIZE \in Nat
  BY LogAssumption DEF TypeOK
<1>2. lh # <<>> => Len(lh) \in Nat \ {0}
  BY <1>1, EmptySeq
<1> QED BY <1>1, <1>2 DEF Indices

LEMMA FollowingFacts ==
  ASSUME TypeOK, NEW i \in Indices(lh), NEW t \in Tasks, NEW last \in Tasks
  PROVE  /\ Following(t, i, last) \in Tasks \X (0 .. LOGSIZE)
         /\ \/ /\ Following(t, i, last) = <<t, i + 1>> /\ i + 1 \in Indices(lh)
               /\ \A j \in Indices(lh) : j < i + 1 <=> j < i \/ j = i
            \/ /\ Following(t, i, last) = <<last, 0>>
               /\ \A j \in Indices(lh) : j < i \/ j = i
<1>1. lh \in Seq(Blocks) /\ Len(lh) <= LOGSIZE /\ LOGSIZE \in Nat
  BY LogAssumption DEF TypeOK
<1>2. CASE i < Len(lh)
  <2>1. Following(t, i, last) = <<t, i + 1>>
    BY <1>2 DEF Following
  <2>2. /\ i + 1 \in Indices(lh) /\ i + 1 \in 0 .. LOGSIZE
        /\ \A j \in Indices(lh) : j < i + 1 <=> j < i \/ j = i
    BY <1>1, <1>2 DEF Indices
  <2> QED BY <2>1, <2>2
<1>3. CASE ~(i < Len(lh))
  <2>1. Following(t, i, last) = <<last, 0>>
    BY <1>3 DEF Following
  <2>2. 0 \in 0 .. LOGSIZE /\ \A j \in Indices(lh) : j < i \/ j = i
    BY <1>1, <1>3 DEF Indices
  <2> QED BY <2>1, <2>2
<1> QED BY <1>2, <1>3

LEMMA WriteLogStep == ASSUME IInv, WriteLog PROVE IInv'
<1> USE DEF IInv
<1> DEFINE i == task[2]
<1>0. task[1] = "log" /\ i \in Indices(lh) /\ header = <<>>
  BY DEF WriteLog, Doing, PhaseInv
<1>a. /\ UNCHANGED <<home, header, cache, dirty, lh, outstanding, committing,
                     pc, wrote, panicked>>
      /\ logged' = [logged EXCEPT ![i] = Data(lh[i])]
      /\ task' = Following("log", i, "head")
  BY DEF WriteLog, memory
<1>b. /\ task' \in Tasks \X (0 .. LOGSIZE)
      /\ \/ /\ task' = <<"log", i + 1>> /\ i + 1 \in Indices(lh)
            /\ \A j \in Indices(lh) : j < i + 1 <=> j < i \/ j = i
         \/ /\ task' = <<"head", 0>>
            /\ \A j \in Indices(lh) : j < i \/ j = i
  <2>1. TypeOK /\ "log" \in Tasks /\ "head" \in Tasks
    BY DEF Tasks
  <2> HIDE DEF IInv, i
  <2> QED BY <1>0, <1>a, <2>1, FollowingFacts
<1> HIDE DEF i
<1>c. lh[i] \in Blocks /\ i \in 1 .. LOGSIZE /\ Data(lh[i]) \in Values
  BY <1>0, IndexFacts, DataFacts
<1>1. TypeOK'
  BY <1>a, <1>b, <1>c DEF TypeOK
<1>2. LogInv'
  BY <1>a DEF LogInv, Distinct, Indices
<1>3. CacheInv'
  <2>1. ~Recovering /\ \A j : ~Installed(j)
    BY <1>0 DEF Recovering, Installed
  <2>2. ~Recovering'
    BY <1>b DEF Recovering
  <2> QED BY <1>a, <2>1, <2>2 DEF CacheInv, Indices, Logged
<1>4. PhaseInv'
  <2>1. \A j \in Indices(lh) : j < i => logged[j] = Data(lh[j])
    BY <1>0 DEF PhaseInv, Copied, i
  <2>2. \A j \in Indices(lh) : j < i \/ j = i => logged'[j] = Data(lh[j])
    BY <1>a, <1>c, <2>1, IndexFacts DEF TypeOK
  <2>3. \A j \in Indices(lh) : Data(lh[j])' = Data(lh[j])
    BY <1>a DEF Data
  <2>4. \A j : ~Installed(j)'
    BY <1>b DEF Installed
  <2>5. lh # <<>>
    BY <1>0 DEF Indices
  <2>6. \A j \in Indices(lh) : Copied(j)' => j < i \/ j = i
    BY <1>b DEF Copied
  <2> QED BY <1>0, <1>a, <1>b, <2>2, <2>3, <2>4, <2>5, <2>6
          DEF PhaseInv, Indices
<1>5. CallInv'
  BY <1>0, <1>a DEF CallInv, Inside, Committing
<1> QED BY <1>1, <1>2, <1>3, <1>4, <1>5

LEMMA WriteHeadStep == ASSUME IInv, WriteHead PROVE IInv'
<1> USE DEF IInv
<1>0. task[1] = "head" /\ lh # <<>> /\ 1 \in Indices(lh) /\ 1 \in 0 .. LOGSIZE
  BY IndexFacts, LogAssumption DEF WriteHead, Doing, PhaseInv
<1>a. /\ UNCHANGED <<home, logged, cache, dirty, lh, outstanding, committing,
                     pc, wrote, panicked>>
      /\ header' = lh /\ task' = <<"install", 1>>
  BY DEF WriteHead, memory
<1>1. TypeOK'
  BY <1>0, <1>a DEF TypeOK, Tasks
<1>2. LogInv'
  BY <1>a DEF LogInv, Distinct, Indices
<1>3. CacheInv'
  <2>1. /\ ~Recovering /\ \A j : ~Installed(j)
        /\ ~Recovering'
    BY <1>0, <1>a DEF Recovering, Installed
  <2> QED BY <1>a, <2>1 DEF CacheInv, Indices, Logged
<1>4. PhaseInv'
  <2>1. \A j \in Indices(lh) : logged'[j] = Data(lh[j])'
    BY <1>0, <1>a DEF PhaseInv, Copied, Data
  <2>2. \A j \in Indices(lh) : ~Installed(j)'
    BY <1>a DEF Installed, Indices
  <2> QED BY <1>0, <1>a, <2>1, <2>2 DEF PhaseInv, Indices
<1>5. CallInv'
  BY <1>0, <1>a DEF CallInv, Inside, Committing
<1> QED BY <1>1, <1>2, <1>3, <1>4, <1>5

\* What installing entry i of the log does to its block and leaves alone.
Moves(i) ==
  /\ home' \in [Blocks -> Values]
  /\ cache' \in [Blocks -> {Buffer(v) : v \in Values} \cup {Absent}]
  /\ home'[lh[i]] = logged[i] /\ Data(lh[i])' = logged[i]
  /\ cache'[lh[i]] = Buffer(home'[lh[i]]) /\ cache'[lh[i]] # Absent
  /\ \A c \in Blocks \ {lh[i]} : /\ home'[c] = home[c]
                                 /\ cache'[c] = cache[c]
                                 /\ Data(c)' = Data(c)
  /\ \A j \in Indices(lh) \ {i} : lh[j] \in Blocks \ {lh[i]}

LEMMA InstallOne ==
  ASSUME TypeOK, LogInv, NEW i \in Indices(lh),
         home' = [home EXCEPT ![lh[i]] = logged[i]],
         cache' = [cache EXCEPT ![lh[i]] = Buffer(logged[i])],
         UNCHANGED <<logged, lh>>
  PROVE  Moves(i)
<1>1. lh[i] \in Blocks /\ i \in 1 .. LOGSIZE /\ logged[i] \in Values
  BY IndexFacts DEF TypeOK
<1>2. /\ home' \in [Blocks -> Values]
      /\ cache' \in [Blocks -> {Buffer(v) : v \in Values} \cup {Absent}]
  BY <1>1 DEF TypeOK
<1>3. /\ home'[lh[i]] = logged[i] /\ cache'[lh[i]] = Buffer(logged[i])
      /\ \A c \in Blocks \ {lh[i]} : home'[c] = home[c] /\ cache'[c] = cache[c]
  BY <1>1 DEF TypeOK
<1>4. Data(lh[i])' = logged[i] /\ cache'[lh[i]] # Absent
  <2>1. lh' = lh
    OBVIOUS
  <2> QED BY <1>3, <2>1, BufferFacts DEF Data
<1>5. \A c \in Blocks \ {lh[i]} : Data(c)' = Data(c)
  BY <1>3 DEF Data
<1>6. \A j \in Indices(lh) \ {i} : lh[j] \in Blocks \ {lh[i]}
  BY IndexFacts DEF LogInv, Distinct
<1> QED BY <1>2, <1>3, <1>4, <1>5, <1>6 DEF Moves

LEMMA InstallStep == ASSUME IInv, Install PROVE IInv'
<1> USE DEF IInv
<1>0. PICK i \in Indices(lh) : task[1] = "install" /\ i = task[2] /\ header = lh
  BY DEF Install, Doing, PhaseInv
<1>a. /\ UNCHANGED <<logged, header, lh, outstanding, committing, pc, wrote,
                     panicked>>
      /\ home' = [home EXCEPT ![lh[i]] = logged[i]]
      /\ cache' = [cache EXCEPT ![lh[i]] = Buffer(logged[i])]
      /\ dirty' = dirty \ {lh[i]}
      /\ task' = Following("install", i, "erase")
  BY <1>0 DEF Install
<1>b. /\ task' \in Tasks \X (0 .. LOGSIZE)
      /\ \/ /\ task' = <<"install", i + 1>> /\ i + 1 \in Indices(lh)
            /\ \A j \in Indices(lh) : j < i + 1 <=> j < i \/ j = i
         \/ /\ task' = <<"erase", 0>>
            /\ \A j \in Indices(lh) : j < i \/ j = i
  <2>1. TypeOK /\ "install" \in Tasks /\ "erase" \in Tasks
    BY DEF Tasks
  <2> HIDE DEF IInv
  <2> QED BY <1>0, <1>a, <2>1, FollowingFacts
<1>c. \A j \in Indices(lh) : /\ Installed(j) <=> j < i
                             /\ Installed(j)' <=> j < i \/ j = i
                             /\ Copied(j) /\ Copied(j)'
  BY <1>0, <1>b DEF Installed, Copied
<1>d. Moves(i)
  BY <1>0, <1>a, InstallOne
<1>1. TypeOK'
  BY <1>a, <1>b, <1>d DEF TypeOK, Moves
<1>2. LogInv'
  BY <1>a DEF LogInv, Distinct, Indices
<1>3. CacheInv'
  <2>1. ~Recovering /\ ~Recovering'
    BY <1>0, <1>b DEF Recovering
  <2>2. \A c \in Blocks : \/ cache'[c] = Absent
                          \/ cache'[c] = Buffer(home'[c])
                          \/ Logged(c)'
    BY <1>a, <1>d, <2>1 DEF CacheInv, Logged, Indices, Moves
  <2>3. \A c \in dirty' : cache'[c] # Absent
    BY <1>a, <1>d DEF CacheInv, TypeOK, Moves
  <2>4. \A j \in Indices(lh) : Installed(j)' \/ lh[j] \in dirty'
    BY <1>a, <1>c, <1>d, <2>1 DEF CacheInv, Moves
  <2> QED BY <1>a, <2>1, <2>2, <2>3, <2>4 DEF CacheInv, Indices
<1>4. PhaseInv'
  <2>1. ASSUME NEW j \in Indices(lh) PROVE logged[j] = Data(lh[j])'
    <3>1. lh' = lh /\ logged[j] = Data(lh[j])
      BY <1>a, <1>c DEF PhaseInv
    <3>2. CASE j = i
      BY <1>d, <3>2 DEF Moves
    <3>3. CASE j # i
      BY <1>d, <3>1, <3>3 DEF Moves
    <3> QED BY <3>2, <3>3
  <2>2. \A j \in Indices(lh) : j < i \/ j = i => logged[j] = home'[lh[j]]
    BY <1>c, <1>d DEF PhaseInv, Moves
  <2> QED BY <1>0, <1>a, <1>b, <1>c, <2>1, <2>2 DEF PhaseInv, Indices
<1>5. CallInv'
  BY <1>0, <1>a DEF CallInv, Inside, Committing
<1> QED BY <1>1, <1>2, <1>3, <1>4, <1>5

\* When every entry is installed, each buffer is as its home.
LEMMA AllInstalled ==
  ASSUME IInv, task[1] = "erase", NEW c \in Blocks
  PROVE  cache[c] = Absent \/ cache[c] = Buffer(home[c])
<1> USE DEF IInv
<1>1. CASE Logged(c)
  <2>1. PICK i \in Indices(lh) : lh[i] = c
    BY <1>1 DEF Logged
  <2>2. Copied(i) /\ Installed(i)
    BY DEF Copied, Installed
  <2>3. Data(c) = home[c]
    BY <2>1, <2>2 DEF PhaseInv
  <2> QED BY <2>3, DataFacts
<1>2. CASE ~Logged(c)
  BY <1>2 DEF CacheInv
<1> QED BY <1>1, <1>2

LEMMA EraseStep == ASSUME IInv, Erase PROVE IInv'
<1> USE DEF IInv
<1>0. task[1] = "erase"
  BY DEF Erase, Doing
<1>a. /\ UNCHANGED <<home, logged, cache, dirty, outstanding, committing, pc,
                     wrote, panicked>>
      /\ lh' = <<>> /\ header' = <<>> /\ task' = <<"done", 0>>
  BY DEF Erase
<1>1. TypeOK'
  <2>1. <<"done", 0>> \in Tasks \X (0 .. LOGSIZE)
    BY LogAssumption DEF Tasks
  <2>2. <<>> \in Seq(Blocks) /\ Len(<<>>) <= LOGSIZE
    BY LogAssumption
  <2> QED BY <1>a, <2>1, <2>2 DEF TypeOK
<1>2. LogInv'
  BY <1>a DEF LogInv, Distinct, Indices
<1>3. CacheInv'
  BY <1>0, <1>a, AllInstalled DEF CacheInv, Indices
<1>4. PhaseInv'
  BY <1>a DEF PhaseInv, Indices
<1>5. CallInv'
  BY <1>0, <1>a DEF CallInv, Inside, Committing
<1> QED BY <1>1, <1>2, <1>3, <1>4, <1>5

LEMMA CommittedStep == ASSUME IInv, Committed PROVE IInv'
<1> USE DEF IInv
<1>0. task[1] = "done" /\ lh = <<>> /\ header = <<>> /\ Inside = {}
  BY DEF Committed, Doing, PhaseInv, CallInv, Committing
<1>a. /\ UNCHANGED <<home, logged, header, cache, dirty, lh, outstanding,
                     wrote, panicked>>
      /\ committing' = FALSE /\ task' = <<"none", 0>>
  BY DEF Committed
<1>1. TypeOK'
  <2>1. <<"none", 0>> \in Tasks \X (0 .. LOGSIZE)
    BY LogAssumption DEF Tasks
  <2>2. pc' \in [Procs -> {"idle", "begin", "asleep", "op", "commit"}]
    BY DEF Committed, Woken, TypeOK
  <2> QED BY <1>a, <2>1, <2>2 DEF TypeOK
<1>2. LogInv'
  BY <1>a DEF LogInv, Distinct, Indices
<1>3. CacheInv'
  BY <1>0, <1>a DEF CacheInv, Indices, Logged, Recovering
<1>4. PhaseInv'
  BY <1>0, <1>a DEF PhaseInv, Indices
<1>5. CallInv'
  <2>1. Inside' = {}
    BY <1>0 DEF Inside, Committed, Woken
  <2> QED BY <1>0, <1>a, <2>1 DEF CallInv, Committing
<1> QED BY <1>1, <1>2, <1>3, <1>4, <1>5

-----------------------------------------------------------------------------
(* Crash and recovery                                                      *)

LEMMA CrashStep == ASSUME IInv, Crash PROVE IInv'
<1> USE DEF IInv
<1>a. /\ UNCHANGED <<home, logged, header, panicked>>
      /\ cache' = [b \in Blocks |-> Absent] /\ dirty' = {} /\ lh' = <<>>
      /\ outstanding' = 0 /\ committing' = FALSE
      /\ pc' = [p \in Procs |-> "idle"] /\ wrote' = [p \in Procs |-> {}]
      /\ task' = <<"read", 0>>
  BY DEF Crash
<1>1. TypeOK'
  <2>1. <<"read", 0>> \in Tasks \X (0 .. LOGSIZE)
    BY LogAssumption DEF Tasks
  <2>2. lh' \in Seq(Blocks) /\ Len(lh') <= LOGSIZE
    BY <1>a, LogAssumption
  <2>3. cache' \in [Blocks -> {Buffer(v) : v \in Values} \cup {Absent}]
    BY <1>a
  <2>4. /\ pc' \in [Procs -> {"idle", "begin", "asleep", "op", "commit"}]
        /\ wrote' \in [Procs -> SUBSET Blocks]
    BY <1>a
  <2> QED BY <1>a, <2>1, <2>2, <2>3, <2>4 DEF TypeOK
<1>2. LogInv'
  BY <1>a DEF LogInv, Distinct, Indices
<1>3. CacheInv'
  BY <1>a DEF CacheInv, Indices
<1>4. PhaseInv'
  BY <1>a DEF PhaseInv, Indices
<1>5. CallInv'
  <2>1. Inside' = {}
    BY <1>a DEF Inside
  <2> QED BY <1>a, <2>1, FS_EmptySet DEF CallInv, Committing
<1> QED BY <1>1, <1>2, <1>3, <1>4, <1>5

LEMMA ReadHeadStep == ASSUME IInv, ReadHead PROVE IInv'
<1> USE DEF IInv
<1>0. task[1] = "read" /\ Recovering
  BY DEF ReadHead, Doing, Recovering
<1>a. /\ UNCHANGED <<home, logged, header, cache, dirty, outstanding,
                     committing, pc, wrote, panicked>>
      /\ lh' = header
  BY DEF ReadHead
<1>b. /\ header \in Seq(Blocks) /\ Len(header) <= LOGSIZE /\ LOGSIZE \in Nat
      /\ header # <<>> => Len(header) \in Nat \ {0}
  BY LogAssumption, EmptySeq DEF TypeOK
<1>c. \/ task' = <<"clear", 0>> /\ header = <<>>
      \/ task' = <<"reinstall", 1>> /\ 1 \in Indices(header) /\ 1 \in 0 .. LOGSIZE
  BY <1>b DEF ReadHead, Replay, Indices
<1>1. TypeOK'
  <2>1. task' \in Tasks \X (0 .. LOGSIZE)
    BY <1>b, <1>c DEF Tasks
  <2> QED BY <1>a, <1>b, <2>1 DEF TypeOK
<1>2. LogInv'
  BY <1>a DEF LogInv, Distinct, Indices
<1>3. CacheInv'
  BY <1>0, <1>a, <1>c DEF CacheInv, Recovering
<1>4. PhaseInv'
  <2>1. CASE task' = <<"clear", 0>> /\ header = <<>>
    BY <1>a, <2>1 DEF PhaseInv, Indices
  <2>2. CASE task' = <<"reinstall", 1>> /\ 1 \in Indices(header)
    <3>1. \A i \in Indices(header) : ~(i < 1)
      BY DEF Indices
    <3> QED BY <1>a, <2>2, <3>1 DEF PhaseInv, Indices, Copied, Installed
  <2> QED BY <1>c, <2>1, <2>2
<1>5. CallInv'
  BY <1>0, <1>a, <1>c DEF CallInv, Inside, Committing
<1> QED BY <1>1, <1>2, <1>3, <1>4, <1>5

LEMMA ReinstallStep == ASSUME IInv, Reinstall PROVE IInv'
<1> USE DEF IInv
<1>0. PICK i \in Indices(lh) : task[1] = "reinstall" /\ i = task[2] /\ header = lh
  BY DEF Reinstall, Doing, PhaseInv
<1>a. /\ UNCHANGED <<logged, header, dirty, lh, outstanding, committing, pc,
                     wrote, panicked>>
      /\ home' = [home EXCEPT ![lh[i]] = logged[i]]
      /\ cache' = [cache EXCEPT ![lh[i]] = Buffer(logged[i])]
      /\ task' = Following("reinstall", i, "clear")
  BY <1>0 DEF Reinstall
<1>b. /\ task' \in Tasks \X (0 .. LOGSIZE)
      /\ \/ /\ task' = <<"reinstall", i + 1>> /\ i + 1 \in Indices(lh)
            /\ \A j \in Indices(lh) : j < i + 1 <=> j < i \/ j = i
         \/ /\ task' = <<"clear", 0>>
            /\ \A j \in Indices(lh) : j < i \/ j = i
  <2>1. TypeOK /\ "reinstall" \in Tasks /\ "clear" \in Tasks
    BY DEF Tasks
  <2> HIDE DEF IInv
  <2> QED BY <1>0, <1>a, <2>1, FollowingFacts
<1>c. \A j \in Indices(lh) : /\ Installed(j) <=> j < i
                             /\ Installed(j)' => j < i \/ j = i
                             /\ ~Copied(j)'
  BY <1>0, <1>b DEF Installed, Copied
<1>d. Moves(i)
  BY <1>0, <1>a, InstallOne
<1>1. TypeOK'
  BY <1>a, <1>b, <1>d DEF TypeOK, Moves
<1>2. LogInv'
  BY <1>a DEF LogInv, Distinct, Indices
<1>3. CacheInv'
  <2>1. Recovering /\ Recovering'
    BY <1>0, <1>b DEF Recovering
  <2>2. \A c \in Blocks : cache'[c] = Absent \/ cache'[c] = Buffer(home'[c])
    BY <1>d, <2>1 DEF CacheInv, Moves
  <2>3. \A c \in dirty' : cache'[c] # Absent
    BY <1>a, <1>d DEF CacheInv, TypeOK, Moves
  <2> QED BY <2>1, <2>2, <2>3 DEF CacheInv
<1>4. PhaseInv'
  <2>1. \A j \in Indices(lh) : j < i \/ j = i => logged[j] = home'[lh[j]]
    BY <1>c, <1>d DEF PhaseInv, Moves
  <2> QED BY <1>0, <1>a, <1>b, <1>c, <2>1 DEF PhaseInv, Indices
<1>5. CallInv'
  BY <1>0, <1>a, <1>b DEF CallInv, Inside, Committing
<1> QED BY <1>1, <1>2, <1>3, <1>4, <1>5

LEMMA ClearStep == ASSUME IInv, Clear PROVE IInv'
<1> USE DEF IInv
<1>0. task[1] = "clear" /\ Recovering
  BY DEF Clear, Doing, Recovering
<1>a. /\ UNCHANGED <<home, logged, cache, dirty, outstanding, committing, pc,
                     wrote, panicked>>
      /\ lh' = <<>> /\ header' = <<>> /\ task' = <<"none", 0>>
  BY DEF Clear
<1>1. TypeOK'
  <2>1. <<"none", 0>> \in Tasks \X (0 .. LOGSIZE)
    BY LogAssumption DEF Tasks
  <2>2. <<>> \in Seq(Blocks) /\ Len(<<>>) <= LOGSIZE
    BY LogAssumption
  <2> QED BY <1>a, <2>1, <2>2 DEF TypeOK
<1>2. LogInv'
  BY <1>a DEF LogInv, Distinct, Indices
<1>3. CacheInv'
  BY <1>0, <1>a DEF CacheInv, Indices
<1>4. PhaseInv'
  BY <1>a DEF PhaseInv, Indices
<1>5. CallInv'
  BY <1>0, <1>a DEF CallInv, Inside, Committing
<1> QED BY <1>1, <1>2, <1>3, <1>4, <1>5

-----------------------------------------------------------------------------
(* The invariant                                                           *)

LEMMA Inductive == IInv /\ [Next]_vars => IInv'
<1> SUFFICES ASSUME IInv, [Next]_vars PROVE IInv'
  OBVIOUS
<1>1. CASE Commit
  BY <1>1, WriteLogStep, WriteHeadStep, InstallStep, EraseStep, CommittedStep
     DEF Commit
<1>2. CASE Recovery
  BY <1>2, ReadHeadStep, ReinstallStep, ClearStep DEF Recovery
<1>3. CASE Crash
  BY <1>3, CrashStep
<1>4. ASSUME NEW b \in Blocks, Bread(b) \/ Recycle(b) PROVE IInv'
  BY <1>4, BreadStep, RecycleStep
<1>5. ASSUME NEW p \in Procs, BeginOp(p) \/ EndOp(p) PROVE IInv'
  BY <1>5, BeginOpStep, EndOpStep
<1>6. ASSUME NEW p \in Procs, NEW b \in Blocks, NEW v \in Values,
             LogWrite(p, b, v)
      PROVE  IInv'
  BY <1>6, LogWriteStep
<1>7. CASE UNCHANGED vars
  <2> USE <1>7 DEF vars, IInv
  <2>1. TypeOK'
    BY DEF TypeOK
  <2>2. LogInv'
    BY DEF LogInv, Distinct, Indices
  <2>3. CacheInv'
    BY DEF CacheInv, Recovering, Logged, Installed, Indices
  <2>4. PhaseInv'
    BY DEF PhaseInv, Copied, Installed, Indices, Data
  <2>5. CallInv'
    BY DEF CallInv, Inside, Committing
  <2> QED BY <2>1, <2>2, <2>3, <2>4, <2>5
<1> QED BY <1>1, <1>2, <1>3, <1>4, <1>5, <1>6, <1>7 DEF Next

\* The inductive invariant holds in every state of log.c, crashes and
\* recovery included.
THEOREM Invariance == Spec => []IInv
BY Initially, Inductive, PTL DEF Spec

\* The variables of log.c keep their types: the log never grows past
\* logheader.block and outstanding never becomes negative (log.c).
THEOREM TypeCorrect == Spec => []TypeOK
<1>1. IInv => TypeOK
  BY DEF IInv
<1> QED BY Invariance, <1>1, PTL

-----------------------------------------------------------------------------
(* What the disk shows                                                     *)

\* The blocks of disk d after the entries of header h have gone home from log l.
Replayed(h, l, d) ==
  [b \in Blocks |-> IF Contains(h, b)
                    THEN l[CHOOSE i \in 1 .. Len(h) : h[i] = b] ELSE d[b]]

LEMMA ReplayedFacts ==
  ASSUME NEW h, Distinct(h), NEW l, NEW d, NEW b \in Blocks
  PROVE  /\ \A i \in Indices(h) : h[i] = b => Replayed(h, l, d)[b] = l[i]
         /\ (\A i \in Indices(h) : h[i] # b) => Replayed(h, l, d)[b] = d[b]
<1>1. ASSUME NEW i \in Indices(h), h[i] = b
      PROVE  Replayed(h, l, d)[b] = l[i]
  <2>1. Contains(h, b)
    BY <1>1 DEF Contains, Indices
  <2>2. (CHOOSE j \in 1 .. Len(h) : h[j] = b) = i
    BY <1>1 DEF Distinct, Indices
  <2> QED BY <2>1, <2>2 DEF Replayed
<1>2. ASSUME \A i \in Indices(h) : h[i] # b
      PROVE  Replayed(h, l, d)[b] = d[b]
  BY <1>2 DEF Replayed, Contains, Indices
<1> QED BY <1>1, <1>2

\* Two disks are replayed alike if every block is.
LEMMA ReplayedEqual ==
  ASSUME NEW h, NEW l, NEW d, NEW f, f = [b \in Blocks |-> f[b]],
         \A b \in Blocks : Replayed(h, l, d)[b] = f[b]
  PROVE  Replayed(h, l, d) = f
BY DEF Replayed

LEMMA RecoveredIs ==
  /\ Recovered = Replayed(header, logged, home)
  /\ Recovered' = Replayed(header', logged', home')
  /\ Recovered = [b \in Blocks |-> Recovered[b]]
  /\ Recovered' = [b \in Blocks |-> Recovered'[b]]
BY DEF Recovered, Replayed

\* What the calls read.
View == IF Recovering THEN Recovered ELSE [b \in Blocks |-> Data(b)]
Hidden == View' = View /\ Recovered' = Recovered /\ Inside' = Inside

\* With an empty header the disk is what a reboot finds.
LEMMA NothingLogged ==
  /\ TypeOK /\ header = <<>> => Recovered = home
  /\ header' = <<>> /\ home' \in [Blocks -> Values] => Recovered' = home'
<1>1. ASSUME NEW l, NEW d \in [Blocks -> Values]
      PROVE  Replayed(<<>>, l, d) = d
  <2>1. \A b : ~Contains(<<>>, b)
    BY DEF Contains
  <2> QED BY <2>1 DEF Replayed
<1> QED BY <1>1, RecoveredIs DEF TypeOK

\* A step that keeps what each block holds in the cache and touches neither
\* disk nor calls is hidden.
LEMMA SameData ==
  ASSUME UNCHANGED <<home, logged, header>>, Recovering' <=> Recovering,
         \A b \in Blocks : Data(b)' = Data(b)
  PROVE  View' = View /\ Recovered' = Recovered
<1>1. Recovered' = Recovered
  BY DEF Recovered
<1> QED BY <1>1 DEF View

LEMMA CacheHidden ==
  ASSUME IInv, NEW b \in Blocks, Bread(b) \/ Recycle(b) PROVE Hidden
<1>1. /\ UNCHANGED <<home, logged, header>> /\ (Recovering' <=> Recovering)
      /\ Inside' = Inside
  BY DEF Bread, Recycle, Recovering, Inside
<1>2. \A c \in Blocks : Data(c)' = Data(c)
  BY BreadData, RecycleData
<1> QED BY <1>1, <1>2, SameData DEF Hidden

LEMMA BeginOpShown ==
  ASSUME IInv, NEW p \in Procs, BeginOp(p)
  PROVE  /\ View' = View /\ Recovered' = Recovered
         /\ Inside' = Inside \/ Inside' = Inside \cup {p}
<1>1. /\ UNCHANGED <<home, logged, header>> /\ (Recovering' <=> Recovering)
      /\ \A c \in Blocks : Data(c)' = Data(c)
  BY DEF BeginOp, Recovering, Data
<1>2. Inside' = Inside \/ Inside' = Inside \cup {p}
  BY DEF BeginOp, Inside, IInv, TypeOK
<1> QED BY <1>1, <1>2, SameData

LEMMA EndOpShown ==
  ASSUME IInv, NEW p \in Procs, EndOp(p)
  PROVE  View' = View /\ Recovered' = Recovered /\ Inside' = Inside \ {p}
<1>1. ~Recovering /\ ~Recovering'
  <2>1. task[1] = "none"
    BY InsideIdle DEF EndOp
  <2>2. task' \in {task, <<"done", 0>>, <<"log", 1>>}
    BY DEF EndOp
  <2> QED BY <2>1, <2>2 DEF Recovering
<1>2. /\ UNCHANGED <<home, logged, header>>
      /\ \A c \in Blocks : Data(c)' = Data(c)
  BY DEF EndOp, Data
<1>3. Inside' = Inside \ {p}
  BY DEF EndOp, Inside, Woken, IInv, TypeOK
<1> QED BY <1>1, <1>2, <1>3, SameData

LEMMA LogWriteShown ==
  ASSUME IInv, NEW p \in Procs, NEW b \in Blocks, NEW v \in Values,
         LogWrite(p, b, v)
  PROVE  \/ Hidden
         \/ /\ p \in Inside /\ Recovered' = Recovered /\ Inside' = Inside
            /\ View' = [View EXCEPT ![b] = v]
<1>0. /\ UNCHANGED <<home, logged, header, pc>> /\ p \in Inside
      /\ ~Recovering /\ ~Recovering'
  BY DEF LogWrite, memory, Inside, Up, Recovering
<1>1. CASE UNCHANGED memory
  <2>1. \A c \in Blocks : Data(c)' = Data(c)
    BY <1>0, <1>1 DEF memory, Data
  <2> QED BY <1>0, <2>1, SameData DEF Hidden, Inside
<1>2. CASE cache' = [cache EXCEPT ![b] = Buffer(v)]
  <2>1. Recovered' = Recovered /\ Inside' = Inside
    BY <1>0 DEF Recovered, Inside
  <2>2. Data(b)' = v
    BY <1>2, BufferFacts DEF Data, IInv, TypeOK
  <2>3. \A c \in Blocks \ {b} : Data(c)' = Data(c)
    BY <1>0, <1>2 DEF Data, IInv, TypeOK
  <2>4. View' = [View EXCEPT ![b] = v]
    <3>1. View = [c \in Blocks |-> Data(c)]
      BY <1>0 DEF View
    <3>2. View' = [c \in Blocks |-> Data(c)']
      BY <1>0 DEF View
    <3> QED BY <2>2, <2>3, <3>1, <3>2
  <2> QED BY <1>0, <2>1, <2>4
<1> QED BY <1>1, <1>2 DEF LogWrite

LEMMA WriteLogHidden == ASSUME IInv, WriteLog PROVE Hidden
<1>0. task[1] = "log" /\ task[2] \in Indices(lh) /\ header = <<>>
  BY DEF WriteLog, Doing, PhaseInv, IInv
<1>1. ~Recovering /\ ~Recovering'
  BY <1>0 DEF WriteLog, Following, Recovering
<1>2. UNCHANGED <<home, header, cache, pc>>
  BY DEF WriteLog, memory
<1>3. Recovered = home /\ Recovered' = home
  BY <1>0, <1>2, NothingLogged DEF IInv, TypeOK
<1>4. View' = View
  BY <1>1, <1>2 DEF View, Data
<1> QED BY <1>2, <1>3, <1>4 DEF Hidden, Inside

\* Once the log is copied, replaying it makes what the cache shows.
LEMMA CopiedData ==
  ASSUME IInv, task[1] \in {"head", "install", "erase", "done"},
         NEW b \in Blocks
  PROVE  Replayed(lh, logged, home)[b] = Data(b)
<1> USE DEF IInv
<1>1. CASE Logged(b)
  <2>1. PICK i \in Indices(lh) : lh[i] = b
    BY <1>1 DEF Logged
  <2>2. lh # <<>>
    BY <2>1 DEF Indices
  <2>3. logged[i] = Data(b)
    BY <2>1, <2>2 DEF PhaseInv, Copied
  <2> QED BY <2>1, <2>3, ReplayedFacts DEF LogInv
<1>2. CASE ~Logged(b)
  <2>1. Data(b) = home[b]
    BY <1>2, BufferFacts DEF CacheInv, Data
  <2> QED BY <1>2, <2>1, ReplayedFacts DEF LogInv, Logged
<1> QED BY <1>1, <1>2

LEMMA WriteHeadShown ==
  ASSUME IInv, WriteHead
  PROVE  Inside = {} /\ Inside' = Inside /\ View' = View /\ Recovered' = View
<1> USE DEF IInv
<1>0. task[1] = "head" /\ ~Recovering
  BY DEF WriteHead, Doing, Recovering
<1>a. /\ UNCHANGED <<home, logged, cache, lh, pc>>
      /\ header' = lh /\ ~Recovering'
  BY DEF WriteHead, memory, Recovering
<1>1. Inside = {} /\ Inside' = Inside
  BY <1>0, <1>a DEF CallInv, Committing, Inside
<1>2. View = [b \in Blocks |-> Data(b)] /\ View' = View
  BY <1>0, <1>a DEF View, Data
<1>3. \A b \in Blocks : Replayed(lh, logged, home)[b] = Data(b)
  BY <1>0, CopiedData
<1>4. Recovered' = View
  BY <1>a, <1>2, <1>3, RecoveredIs
<1> QED BY <1>1, <1>2, <1>4

\* Installing an entry of the header on disk does not change what a reboot finds.
LEMMA InstallRecovered ==
  ASSUME TypeOK, LogInv, header = lh, header' = header, logged' = logged,
         NEW i \in Indices(lh), home' = [home EXCEPT ![lh[i]] = logged[i]]
  PROVE  Recovered' = Recovered
<1>1. ASSUME NEW b \in Blocks
      PROVE  Replayed(lh, logged, home')[b] = Replayed(lh, logged, home)[b]
  <2>1. CASE Logged(b)
    <3>1. PICK j \in Indices(lh) : lh[j] = b
      BY <2>1 DEF Logged
    <3> QED BY <3>1, ReplayedFacts DEF LogInv
  <2>2. CASE ~Logged(b)
    <3>1. home'[b] = home[b]
      BY <2>2 DEF Logged, TypeOK
    <3>2. Distinct(lh) /\ \A j \in Indices(lh) : lh[j] # b
      BY <2>2 DEF LogInv, Logged
    <3>3. \A d : Replayed(lh, logged, d)[b] = d[b]
      BY <3>2, ReplayedFacts
    <3> QED BY <3>1, <3>3
  <2> QED BY <2>1, <2>2
<1> QED BY <1>1, RecoveredIs

LEMMA InstallHidden == ASSUME IInv, Install PROVE Hidden
<1> USE DEF IInv
<1>0. PICK i \in Indices(lh) : task[1] = "install" /\ i = task[2] /\ header = lh
  BY DEF Install, Doing, PhaseInv
<1>a. /\ UNCHANGED <<logged, header, lh, pc>>
      /\ home' = [home EXCEPT ![lh[i]] = logged[i]]
      /\ cache' = [cache EXCEPT ![lh[i]] = Buffer(logged[i])]
      /\ task' = Following("install", i, "erase")
  BY <1>0 DEF Install
<1>b. ~Recovering /\ ~Recovering'
  BY <1>0, <1>a DEF Recovering, Following
<1>1. Recovered' = Recovered
  BY <1>0, <1>a, InstallRecovered
<1>2. Moves(i)
  BY <1>0, <1>a, InstallOne
<1>3. Data(lh[i]) = logged[i] /\ lh' = lh
  BY <1>0, <1>a DEF PhaseInv, Copied
<1>4. \A c \in Blocks : Data(c)' = Data(c)
  BY <1>2, <1>3 DEF Moves
<1>5. View' = View
  BY <1>b, <1>4 DEF View
<1> QED BY <1>a, <1>1, <1>5 DEF Hidden, Inside

LEMMA ReinstallHidden == ASSUME IInv, Reinstall PROVE Hidden
<1> USE DEF IInv
<1>0. /\ task[1] = "reinstall" /\ task[2] \in Indices(lh) /\ header = lh
      /\ UNCHANGED <<logged, header, pc>>
      /\ home' = [home EXCEPT ![lh[task[2]]] = logged[task[2]]]
  BY DEF Reinstall, Doing, PhaseInv
<1>1. Recovered' = Recovered
  BY <1>0, InstallRecovered
<1>2. CASE Recovering'
  BY <1>0, <1>1, <1>2 DEF Hidden, Inside, View, Recovering
<1>3. Recovering'
  BY <1>0 DEF Reinstall, Following, Recovering
<1> QED BY <1>2, <1>3

\* When the entries of the header are home, erasing it changes nothing.
LEMMA EmptiedRecovered ==
  ASSUME TypeOK, LogInv, header' = <<>>, home' = home,
         \A i \in Indices(header) : logged[i] = home[header[i]]
  PROVE  Recovered' = Recovered /\ Recovered = home
<1>1. ASSUME NEW b \in Blocks
      PROVE  Replayed(header, logged, home)[b] = home[b]
  BY ReplayedFacts DEF LogInv
<1>2. home = [b \in Blocks |-> home[b]]
  BY DEF TypeOK
<1>3. Recovered = home
  BY <1>1, <1>2, RecoveredIs
<1> QED BY <1>3, NothingLogged DEF TypeOK

LEMMA EraseHidden == ASSUME IInv, Erase PROVE Hidden
<1> USE DEF IInv
<1>0. /\ task[1] = "erase" /\ header = lh /\ header' = <<>>
      /\ UNCHANGED <<home, cache, pc>> /\ ~Recovering /\ ~Recovering'
  BY DEF Erase, Doing, PhaseInv, Recovering
<1>1. \A i \in Indices(header) : logged[i] = home[header[i]]
  BY <1>0 DEF PhaseInv, Installed
<1> QED BY <1>0, <1>1, EmptiedRecovered DEF Hidden, Inside, View, Data

LEMMA ClearHidden == ASSUME IInv, Clear PROVE Hidden
<1> USE DEF IInv
<1>0. /\ task[1] = "clear" /\ header' = <<>>
      /\ UNCHANGED <<home, cache, pc>> /\ Recovering /\ ~Recovering'
  BY DEF Clear, Doing, Recovering
<1>1. Recovered' = Recovered /\ Recovered = home
  BY <1>0, EmptiedRecovered DEF PhaseInv
<1>2. \A b \in Blocks : Data(b)' = home[b]
  BY <1>0, BufferFacts DEF CacheInv, Data
<1>3. View = home
  BY <1>0, <1>1 DEF View
<1>4. View' = home
  BY <1>0, <1>2 DEF View, TypeOK
<1> QED BY <1>0, <1>1, <1>3, <1>4 DEF Hidden, Inside

LEMMA CommittedHidden == ASSUME IInv, Committed PROVE Hidden
<1>0. /\ ~Recovering /\ ~Recovering' /\ Inside = {}
      /\ UNCHANGED <<home, logged, header, cache>>
  BY DEF Committed, Doing, Recovering, IInv, CallInv, Committing
<1>1. Inside' = {}
  BY <1>0 DEF Inside, Committed, Woken
<1> QED BY <1>0, <1>1 DEF Hidden, View, Recovered, Data

LEMMA ReadHeadHidden == ASSUME IInv, ReadHead PROVE Hidden
<1>0. /\ Recovering /\ Recovering' /\ UNCHANGED <<home, logged, header, pc>>
  BY DEF ReadHead, Replay, Doing, Recovering
<1> QED BY <1>0 DEF Hidden, View, Recovered, Inside

LEMMA CrashShown ==
  ASSUME Crash PROVE View' = Recovered /\ Recovered' = Recovered /\ Inside' = {}
<1>0. /\ Recovering' /\ UNCHANGED <<home, logged, header>>
      /\ pc' = [p \in Procs |-> "idle"]
  BY DEF Crash, Recovering
<1> QED BY <1>0 DEF View, Recovered, Inside

-----------------------------------------------------------------------------
(* The log implements AtomicDisk                                           *)

LEMMA DiskInit == Init => Disk!Init
<1> SUFFICES ASSUME Init PROVE Disk!Init
  OBVIOUS
<1>1. TypeOK /\ ~Recovering /\ Inside = {} /\ home \in [Blocks -> Values]
  BY Initially DEF IInv, Init, Recovering, Inside
<1>2. Recovered = home
  BY <1>1, NothingLogged DEF Init
<1>3. View = home
  BY <1>1 DEF View, Data, Init
<1> QED BY <1>1, <1>2, <1>3 DEF Disk!Init, View, Inside

LEMMA DiskStep == IInv /\ [Next]_vars => [Disk!Next]_(Disk!diskVars)
<1> SUFFICES ASSUME IInv, [Next]_vars
             PROVE  Disk!Next \/ Hidden
  BY DEF Disk!diskVars, Hidden, View, Inside
<1> USE DEF View, Inside
<1>1. CASE WriteHead
  BY <1>1, WriteHeadShown DEF Disk!Next, Disk!Commit
<1>2. CASE Crash
  BY <1>2, CrashShown DEF Disk!Next, Disk!Crash
<1>3. CASE Commit
  BY <1>1, <1>3, WriteLogHidden, InstallHidden, EraseHidden, CommittedHidden
     DEF Commit
<1>4. CASE Recovery
  BY <1>4, ReadHeadHidden, ReinstallHidden, ClearHidden DEF Recovery
<1>5. ASSUME NEW b \in Blocks, Bread(b) \/ Recycle(b) PROVE Hidden
  BY <1>5, CacheHidden
<1>6. ASSUME NEW p \in Procs, BeginOp(p) PROVE Disk!Next \/ Hidden
  BY <1>6, BeginOpShown DEF Hidden, Disk!Next, Disk!Begin
<1>7. ASSUME NEW p \in Procs, EndOp(p) PROVE Disk!Next
  BY <1>7, EndOpShown DEF Disk!Next, Disk!End
<1>8. ASSUME NEW p \in Procs, NEW b \in Blocks, NEW v \in Values,
             LogWrite(p, b, v)
      PROVE  Disk!Next \/ Hidden
  BY <1>8, LogWriteShown DEF Disk!Next, Disk!Write
<1>9. CASE UNCHANGED vars
  BY <1>9 DEF vars, Hidden, Recovered, Recovering, Data
<1> QED BY <1>2, <1>3, <1>4, <1>5, <1>6, <1>7, <1>8, <1>9 DEF Next

\* Through any interleaving of calls, commits, crashes and crashes of recovery
\* the log of log.c behaves as a disk on which the writes of whole calls become
\* durable at one moment, when no call is active.
THEOREM CrashConsistency == Spec => CrashSafe
BY Invariance, DiskInit, DiskStep, PTL DEF Spec, CrashSafe, Disk!Spec

\* When end_op has written the header of a commit and installed the log, a
\* reboot finds all that the calls have written (log.c, commit).
THEOREM Durability == Spec => []DurableOnReturn
<1>1. IInv => DurableOnReturn
  <2> SUFFICES ASSUME IInv, task[1] \in {"erase", "done"}
               PROVE  Recovered = [b \in Blocks |-> Data(b)]
    BY DEF DurableOnReturn
  <2>1. header = lh
    BY DEF IInv, PhaseInv
  <2>2. \A b \in Blocks : Replayed(lh, logged, home)[b] = Data(b)
    BY CopiedData
  <2> QED BY <2>1, <2>2, RecoveredIs
<1> QED BY <1>1, Invariance, PTL
-----------------------------------------------------------------------------
(* The space of the log, and who wakes the sleepers of begin_op            *)

\* The blocks that the calls inside have written, with their calls.
Written == {w \in Procs \X Blocks : pc[w[1]] = "op" /\ w[2] \in wrote[w[1]]}

\* The blocks of a call are few and in the log; what they take up, with what
\* is reserved for the calls inside, fits; whoever sleeps, sleeps until an
\* end_op or the end of a commit.
RoomInv ==
  /\ SpaceReserved /\ SleeperHasWaker
  /\ committing => Committing
  /\ outstanding = 0 /\ ~committing /\ ~Recovering => lh = <<>>
  /\ Recovering => \A p \in Procs : pc[p] = "idle"
  /\ \A p \in Inside : /\ IsFiniteSet(wrote[p])
                       /\ Cardinality(wrote[p]) <= OpBlocks
                       /\ \A b \in wrote[p] : Logged(b)
  /\ IsFiniteSet(Written)

\* A call writes OpBlocks blocks at most.
LEMMA WrittenBound ==
  ASSUME \A p \in Inside : /\ IsFiniteSet(wrote[p])
                           /\ Cardinality(wrote[p]) <= OpBlocks
  PROVE  Cardinality(Written) <= Cardinality(Inside) * OpBlocks
<1> DEFINE Places == Inside \X (1 .. OpBlocks)
           place == [p \in Inside |->
                       CHOOSE f : f \in Injection(wrote[p], 1 .. OpBlocks)]
           spread == [w \in Written |-> <<w[1], place[w[1]][w[2]]>>]
<1>0. OpBlocks \in Nat
  BY LogAssumption
<1>1. ASSUME NEW p \in Inside
      PROVE  place[p] \in Injection(wrote[p], 1 .. OpBlocks)
  <2>1. IsFiniteSet(wrote[p]) /\ Cardinality(wrote[p]) <= OpBlocks
    OBVIOUS
  <2>2. /\ Cardinality(wrote[p]) \in Nat
        /\ ExistsBijection(1 .. Cardinality(wrote[p]), wrote[p])
    BY <2>1, FS_CardinalityType
  <2>3. PICK g \in Bijection(wrote[p], 1 .. Cardinality(wrote[p])) : TRUE
    BY <2>2, Fun_ExistsBijSymmetric, Fun_ExistsBij DEF ExistsBijection
  <2>4. g \in Injection(wrote[p], 1 .. OpBlocks)
    <3>1. /\ g \in [wrote[p] -> 1 .. Cardinality(wrote[p])]
          /\ \A x, y \in wrote[p] : g[x] = g[y] => x = y
      BY DEF Bijection, Injection, IsInjective
    <3>2. g \in [wrote[p] -> 1 .. OpBlocks]
      BY <1>0, <2>1, <2>2, <3>1
    <3> QED BY <3>1, <3>2 DEF Injection, IsInjective
  <2> QED BY <2>4
<1> HIDE DEF place
<1>2. \A w \in Written : w[1] \in Inside /\ w[2] \in wrote[w[1]] /\ w = <<w[1], w[2]>>
  BY DEF Written, Inside
<1>3. \A w \in Written : place[w[1]][w[2]] \in 1 .. OpBlocks
  BY <1>1, <1>2 DEF Injection, IsInjective
<1>4. spread \in [Written -> Places]
  BY <1>2, <1>3
<1>5. ASSUME NEW v \in Written, NEW w \in Written, spread[v] = spread[w]
      PROVE  v = w
  <2>1. v[1] = w[1] /\ place[v[1]][v[2]] = place[v[1]][w[2]]
    BY <1>5
  <2>2. v[2] = w[2]
    BY <1>1, <1>2, <2>1 DEF Injection, IsInjective
  <2> QED BY <1>2, <2>1, <2>2
<1>6. spread \in Injection(Written, Places)
  BY <1>4, <1>5 DEF Injection, IsInjective
<1>7. IsFiniteSet(1 .. OpBlocks) /\ Cardinality(1 .. OpBlocks) = OpBlocks
  BY <1>0, FS_Interval
<1>8. IsFiniteSet(Places) /\ Cardinality(Places) = Cardinality(Inside) * OpBlocks
  BY <1>7, InsideFinite, FS_Product
<1> QED BY <1>6, <1>8, FS_Injection

\* What the calls inside may still write fits.
LEMMA RoomLeft ==
  ASSUME IInv, RoomInv, NEW p \in Procs, pc[p] = "op"
  PROVE  Len(lh) < LOGSIZE /\ Len(lh) < NLOG - 1
<1> DEFINE n == Cardinality(Inside)  w == Cardinality(Written)
           spare == MAXOPBLOCKS - OpBlocks
<1>1. n \in Nat /\ n >= 1 /\ outstanding = n
  <2>1. p \in Inside
    BY DEF Inside
  <2>2. Cardinality(Inside) # 0
    BY <2>1, InsideFinite, FS_EmptySet
  <2> QED BY <2>2, InsideFinite DEF IInv, CallInv
<1>2. w \in Nat /\ w <= n * OpBlocks
  BY WrittenBound, FS_CardinalityType DEF RoomInv
<1>3. Len(lh) + n * MAXOPBLOCKS - w <= LOGSIZE
  BY <1>1 DEF RoomInv, SpaceReserved, Written
<1>4. Len(lh) \in Nat
  <2>1. lh \in Seq(Blocks)
    BY DEF IInv, TypeOK
  <2> QED BY <2>1
<1> HIDE DEF n, w
<1>5. n * MAXOPBLOCKS - n * OpBlocks >= spare
  <2>1. MAXOPBLOCKS \in Nat /\ OpBlocks \in Nat /\ spare \in Nat
    BY LogAssumption
  <2>2. n * MAXOPBLOCKS - n * OpBlocks = n * spare
    BY <1>1, <2>1
  <2>3. n * spare >= spare
    <3> HIDE DEF spare
    <3> QED BY <1>1, <2>1
  <2> QED BY <2>1, <2>2, <2>3
<1>6. /\ n * MAXOPBLOCKS \in Nat /\ n * OpBlocks \in Nat
      /\ LOGSIZE \in Nat /\ NLOG \in Nat /\ spare \in Nat /\ spare > 0
      /\ LOGSIZE - spare < NLOG - 1
  BY <1>1, LogAssumption, RoomAssumption
<1> HIDE DEF spare
<1> QED BY <1>2, <1>3, <1>4, <1>5, <1>6

\* Steps after which nobody is inside.
LEMMA NobodyInside ==
  ASSUME IInv', Inside' = {}, NoPanic', committing' => Committing',
         ~committing' /\ ~Recovering' => lh' = <<>>,
         Recovering' => \A p \in Procs : pc'[p] = "idle",
         (\E p \in Procs : pc'[p] = "asleep") => committing'
  PROVE  RoomInv'
<1>1. Written' = {}
  BY DEF Written, Inside
<1>2. IsFiniteSet(Written') /\ Cardinality(Written') = 0
  BY <1>1, FS_EmptySet
<1>3. outstanding' = 0
  BY FS_EmptySet DEF IInv, CallInv
<1>4. Len(lh') \in Nat /\ Len(lh') <= LOGSIZE
  <2>1. lh' \in Seq(Blocks) /\ Len(lh') <= LOGSIZE
    BY DEF IInv, TypeOK
  <2> QED BY <2>1
<1>5. SpaceReserved'
  <2>1. Len(lh') + outstanding' * MAXOPBLOCKS - Cardinality(Written') <= LOGSIZE
    BY <1>2, <1>3, <1>4, LogAssumption
  <2> QED BY <2>1 DEF SpaceReserved, Written
<1>6. SleeperHasWaker'
  BY DEF SleeperHasWaker
<1> QED BY <1>2, <1>5, <1>6 DEF RoomInv

\* Steps that leave the log and the calls alone.
LEMMA RoomSame ==
  ASSUME RoomInv,
         UNCHANGED <<lh, outstanding, committing, wrote, panicked, task>>,
         \A q \in Procs : pc'[q] = "op" <=> pc[q] = "op",
         Recovering => pc' = pc,
         SleeperHasWaker'
  PROVE  RoomInv'
<1>1. Written' = Written /\ Inside' = Inside
  BY DEF Written, Inside
<1>2. SpaceReserved'
  BY <1>1 DEF RoomInv, SpaceReserved, Written, NoPanic
<1>3. (Committing' <=> Committing) /\ (Recovering' <=> Recovering)
  BY DEF Committing, Recovering
<1>4. \A b : Logged(b)' <=> Logged(b)
  BY DEF Logged, Indices
<1> QED BY <1>1, <1>2, <1>3, <1>4 DEF RoomInv

LEMMA RoomInit == Init => RoomInv
<1> SUFFICES ASSUME Init PROVE RoomInv
  OBVIOUS
<1>1. IInv
  BY Initially
<1>2. Inside = {} /\ Written = {} /\ outstanding = 0 /\ lh = <<>>
  BY DEF Init, Inside, Written
<1>3. SpaceReserved
  <2>1. Len(lh) + outstanding * MAXOPBLOCKS - Cardinality(Written) <= LOGSIZE
    BY <1>2, FS_EmptySet, LogAssumption
  <2> QED BY <2>1 DEF SpaceReserved, Written, NoPanic, Init
<1> QED BY <1>2, <1>3, FS_EmptySet
        DEF RoomInv, SleeperHasWaker, Init, Recovering, Logged

\* begin_op enters when there is room for the calls inside and one more, and
\* goes to sleep when a commit is going on or a call is inside.
LEMMA BeginOpRoom ==
  ASSUME IInv, RoomInv, NEW p \in Procs, BeginOp(p) PROVE RoomInv'
<1> USE DEF IInv
<1>0. /\ UNCHANGED <<home, logged, header, cache, dirty, lh, committing, task, panicked>>
      /\ pc[p] \in {"idle", "begin"} /\ pc \in [Procs -> {"idle", "begin", "asleep", "op", "commit"}]
      /\ ~Recovering /\ NoPanic
  BY DEF BeginOp, Up, TypeOK, NoPanic
<1>a. lh \in Seq(Blocks) /\ Len(lh) \in Nat /\ outstanding \in Nat
  <2>1. lh \in Seq(Blocks) /\ outstanding \in Nat
    BY DEF TypeOK
  <2> QED BY <2>1
<1>1. CASE MayBegin
  <2>1. /\ outstanding' = outstanding + 1 /\ pc' = [pc EXCEPT ![p] = "op"]
        /\ wrote' = [wrote EXCEPT ![p] = {}]
    BY <1>1 DEF BeginOp, Counted
  <2>2. Inside' = Inside \cup {p} /\ p \notin Inside
    BY <1>0, <2>1 DEF Inside
  <2>3. wrote \in [Procs -> SUBSET Blocks]
    BY DEF TypeOK
  <2>4. Written' = Written
    BY <1>0, <2>1, <2>3 DEF Written
  <2>5. /\ Len(lh) + (outstanding + 1) * MAXOPBLOCKS <= LOGSIZE
        /\ Cardinality(Written) \in Nat /\ ~committing
    BY <1>1, FS_CardinalityType DEF MayBegin, HasRoom, RoomInv
  <2>6. Len(lh') + outstanding' * MAXOPBLOCKS - Cardinality(Written') <= LOGSIZE
    <3>1. (outstanding + 1) * MAXOPBLOCKS \in Nat
      BY <1>a, LogAssumption
    <3> QED BY <1>0, <1>a, <2>1, <2>4, <2>5, <3>1, LogAssumption
  <2>7. SpaceReserved'
    BY <1>0, <2>6 DEF SpaceReserved, Written, NoPanic
  <2>8. \A b : Logged(b)' <=> Logged(b)
    BY <1>0 DEF Logged, Indices
  <2>9. \A q \in Inside' : /\ IsFiniteSet(wrote'[q])
                           /\ Cardinality(wrote'[q]) <= OpBlocks
                           /\ \A b \in wrote'[q] : Logged(b)'
    <3> TAKE q \in Inside'
    <3>1. CASE q = p
      <4>1. wrote'[q] = {}
        BY <2>1, <2>3, <3>1
      <4> QED BY <4>1, FS_EmptySet, LogAssumption
    <3>2. CASE q # p
      <4>1. q \in Inside /\ wrote'[q] = wrote[q]
        BY <2>1, <2>2, <2>3, <3>2 DEF Inside
      <4> QED BY <2>8, <4>1 DEF RoomInv
    <3> QED BY <3>1, <3>2
  <2>10. ~Recovering' /\ outstanding' > 0 /\ ~committing'
    BY <1>0, <1>a, <2>1, <2>5 DEF Recovering
  <2> QED BY <2>4, <2>7, <2>9, <2>10 DEF RoomInv, SleeperHasWaker
<1>2. CASE ~MayBegin
  <2>1. pc' = [pc EXCEPT ![p] = "asleep"] /\ UNCHANGED <<outstanding, wrote>>
    BY <1>2 DEF BeginOp
  <2>2. outstanding > 0 \/ committing
    <3> SUFFICES ASSUME outstanding = 0, ~committing PROVE MayBegin
      BY <1>2, <1>a
    <3>1. lh = <<>>
      BY <1>0 DEF RoomInv
    <3> QED BY <3>1, LogAssumption DEF MayBegin, HasRoom
  <2>3. SleeperHasWaker'
    BY <1>0, <2>1, <2>2 DEF SleeperHasWaker
  <2>4. \A q \in Procs : pc'[q] = "op" <=> pc[q] = "op"
    BY <1>0, <2>1
  <2> QED BY <1>0, <2>1, <2>3, <2>4, RoomSame
<1> QED BY <1>1, <1>2

\* log_write adds a block to the log, if at all, for a call that has not
\* written it yet.
LEMMA LogWriteRoom ==
  ASSUME IInv, RoomInv, NEW p \in Procs, NEW b \in Blocks, NEW v \in Values,
         LogWrite(p, b, v)
  PROVE  RoomInv'
<1> USE DEF IInv
<1>0. /\ pc[p] = "op" /\ task[1] = "none" /\ p \in Inside
      /\ Cardinality(wrote[p] \cup {b}) <= OpBlocks
      /\ Len(lh) < LOGSIZE /\ Len(lh) < NLOG - 1
  <2>1. pc[p] = "op" /\ Up /\ Cardinality(wrote[p] \cup {b}) <= OpBlocks
    BY DEF LogWrite
  <2> QED BY <2>1, InsideIdle, RoomLeft
<1>a. lh \in Seq(Blocks) /\ Len(lh) \in Nat /\ outstanding \in Nat
      /\ wrote \in [Procs -> SUBSET Blocks]
  <2>1. lh \in Seq(Blocks) /\ outstanding \in Nat /\ wrote \in [Procs -> SUBSET Blocks]
    BY DEF TypeOK
  <2> QED BY <2>1
<1>b. ~(Len(lh) >= LOGSIZE \/ Len(lh) >= NLOG - 1)
  BY <1>0, <1>a, LogAssumption
<1>1. /\ lh' = Absorb(b) /\ wrote' = [wrote EXCEPT ![p] = wrote[p] \cup {b}]
      /\ UNCHANGED <<outstanding, committing, pc, panicked, task>>
  BY <1>b DEF LogWrite
<1>2. Inside' = Inside /\ Written' = Written \cup {<<p, b>>}
  <2>1. Inside' = Inside
    BY <1>1 DEF Inside
  <2>2. \A q \in Procs, c \in Blocks :
          c \in wrote'[q] <=> c \in wrote[q] \/ (q = p /\ c = b)
    BY <1>a, <1>1
  <2> QED BY <1>0, <1>1, <2>1, <2>2 DEF Written
<1>3. IsFiniteSet(Written) /\ Cardinality(Written) \in Nat
      /\ IsFiniteSet(Written')
  BY <1>2, FS_CardinalityType, FS_AddElement DEF RoomInv
<1>4. \A c \in Blocks : Logged(c) => Logged(c)'
  <2>1. CASE lh' = lh
    BY <2>1 DEF Logged, Indices
  <2>2. CASE lh' = Append(lh, b)
    BY <1>a, <2>2 DEF Logged, Indices
  <2> QED BY <1>1, <2>1, <2>2 DEF Absorb
<1>5. Logged(b)'
  <2>1. CASE Contains(lh, b)
    BY <1>1, <2>1 DEF Absorb, Contains, Logged, Indices
  <2>2. CASE ~Contains(lh, b)
    BY <1>a, <1>1, <2>2 DEF Absorb, Logged, Indices
  <2> QED BY <2>1, <2>2
<1>6. Len(lh') - Cardinality(Written') <= Len(lh) - Cardinality(Written)
      /\ Len(lh') \in Nat /\ Cardinality(Written') \in Nat
  <2>1. CASE Contains(lh, b)
    <3>1. lh' = lh
      BY <1>1, <2>1 DEF Absorb
    <3>2. Cardinality(Written') \in {Cardinality(Written), Cardinality(Written) + 1}
      BY <1>2, <1>3, FS_AddElement
    <3> QED BY <1>3, <1>a, <3>1, <3>2
  <2>2. CASE ~Contains(lh, b)
    <3>1. Len(lh') = Len(lh) + 1
      BY <1>1, <1>a, <2>2 DEF Absorb
    <3>2. b \notin wrote[p]
      BY <1>0, <2>2 DEF RoomInv, Logged, Contains, Indices
    <3>3. <<p, b>> \notin Written
      BY <3>2 DEF Written
    <3>4. Cardinality(Written') = Cardinality(Written) + 1
      BY <1>2, <1>3, <3>3, FS_AddElement
    <3> QED BY <1>3, <1>a, <3>1, <3>4
  <2> QED BY <2>1, <2>2
<1>7. SpaceReserved'
  <2>1. Len(lh) + outstanding * MAXOPBLOCKS - Cardinality(Written) <= LOGSIZE
    BY DEF RoomInv, SpaceReserved, Written
  <2>2. outstanding * MAXOPBLOCKS \in Nat /\ LOGSIZE \in Nat
    BY <1>a, LogAssumption
  <2>3. Len(lh') + outstanding * MAXOPBLOCKS - Cardinality(Written') <= LOGSIZE
    BY <1>3, <1>6, <1>a, <2>1, <2>2
  <2> QED BY <1>1, <2>3 DEF SpaceReserved, Written, RoomInv, NoPanic
<1>8. ASSUME NEW q \in Inside'
      PROVE  /\ IsFiniteSet(wrote'[q]) /\ Cardinality(wrote'[q]) <= OpBlocks
             /\ \A c \in wrote'[q] : Logged(c)'
  <2>1. q \in Inside /\ q \in Procs /\ wrote[q] \subseteq Blocks
    BY <1>2, <1>a DEF Inside
  <2>2. CASE q = p
    <3>1. wrote'[q] = wrote[p] \cup {b}
      BY <1>1, <1>a, <2>2
    <3>2. IsFiniteSet(wrote[p]) /\ \A c \in wrote[p] : Logged(c)
      BY <1>0 DEF RoomInv
    <3>3. IsFiniteSet(wrote'[q])
      BY <3>1, <3>2, FS_AddElement
    <3> QED BY <1>0, <1>4, <1>5, <2>1, <2>2, <3>1, <3>2, <3>3
  <2>3. CASE q # p
    <3>1. wrote'[q] = wrote[q]
      BY <1>1, <1>a, <2>1, <2>3
    <3> QED BY <1>4, <2>1, <3>1 DEF RoomInv
  <2> QED BY <2>2, <2>3
<1>9. outstanding # 0 /\ ~Recovering'
  <2>1. Cardinality(Inside) # 0
    BY <1>0, InsideFinite, FS_EmptySet
  <2> QED BY <1>0, <1>1, <2>1 DEF CallInv, Recovering
<1> QED BY <1>1, <1>3, <1>7, <1>8, <1>9
        DEF RoomInv, SleeperHasWaker, Committing

\* end_op gives back the reservation of a call, or hands the log to commit.
LEMMA EndOpRoom ==
  ASSUME IInv, RoomInv, NEW p \in Procs, EndOp(p) PROVE RoomInv'
<1> USE DEF IInv
<1>0. /\ pc[p] = "op" /\ task[1] = "none" /\ p \in Inside /\ ~committing /\ NoPanic
      /\ UNCHANGED <<lh, wrote>> /\ outstanding' = outstanding - 1
  <2>1. pc[p] = "op" /\ Up
    BY DEF EndOp
  <2>2. task[1] = "none" /\ p \in Inside
    BY <2>1, InsideIdle
  <2> QED BY <2>1, <2>2 DEF RoomInv, Committing, EndOp, Up, NoPanic
<1>1. IInv'
  BY EndOpStep
<1>2. panicked' = panicked
  BY <1>0 DEF EndOp
<1>3. Inside' = Inside \ {p}
  BY <1>0 DEF EndOp, Inside, Woken, TypeOK
<1>4. CASE outstanding = 1
  <2>1. Inside' = {}
    <3>1. Cardinality(Inside') = 0
      BY <1>0, <1>1, <1>4 DEF CallInv
    <3>2. IsFiniteSet(Inside')
      BY <1>3, InsideFinite, FS_RemoveElement
    <3> QED BY <3>1, <3>2, FS_EmptySet
  <2>2. committing' /\ Committing'
    BY <1>4 DEF EndOp, Committing
  <2>3. ~Recovering'
    BY <2>2 DEF Committing, Recovering
  <2> QED BY <1>0, <1>1, <1>2, <2>1, <2>2, <2>3, NobodyInside DEF NoPanic
<1>5. CASE outstanding # 1
  <2>1. /\ pc' = [Woken EXCEPT ![p] = "idle"] /\ UNCHANGED <<committing, task>>
    BY <1>5 DEF EndOp
  <2>2. outstanding \in Nat /\ wrote \in [Procs -> SUBSET Blocks]
        /\ lh \in Seq(Blocks)
    BY DEF TypeOK
  <2>3. outstanding > 0 /\ outstanding' > 0
    <3>1. Cardinality(Inside) # 0
      BY <1>0, InsideFinite, FS_EmptySet
    <3> QED BY <1>0, <1>5, <2>2, <3>1 DEF CallInv
  <2> DEFINE Mine == {p} \X wrote[p]
  <2>4. Written' = Written \ Mine /\ Mine \subseteq Written
    BY <1>0, <1>3, <2>1, <2>2 DEF Written, Inside, Woken
  <2>5. /\ IsFiniteSet(Mine) /\ Cardinality(Mine) \in Nat
        /\ Cardinality(Mine) <= MAXOPBLOCKS
    <3>1. IsFiniteSet(wrote[p]) /\ Cardinality(wrote[p]) <= OpBlocks
      BY <1>0 DEF RoomInv
    <3>2. IsFiniteSet({p}) /\ Cardinality({p}) = 1 /\ Cardinality(wrote[p]) \in Nat
      BY <3>1, FS_Singleton, FS_CardinalityType
    <3>3. IsFiniteSet(Mine) /\ Cardinality(Mine) = 1 * Cardinality(wrote[p])
      BY <3>1, <3>2, FS_Product
    <3> QED BY <3>1, <3>2, <3>3, LogAssumption
  <2>6. /\ IsFiniteSet(Written') /\ Cardinality(Written') \in Nat
        /\ Cardinality(Written) \in Nat
        /\ Cardinality(Written') = Cardinality(Written) - Cardinality(Mine)
    <3>1. IsFiniteSet(Written) /\ Written \cap Mine = Mine
      BY <2>4 DEF RoomInv
    <3>2. IsFiniteSet(Written') /\ Cardinality(Written')
            = Cardinality(Written) - Cardinality(Written \cap Mine)
      BY <2>4, <3>1, FS_Difference
    <3>3. Cardinality(Written) \in Nat /\ Cardinality(Written') \in Nat
      BY <3>1, <3>2, FS_CardinalityType
    <3> QED BY <3>1, <3>2, <3>3
  <2>7. SpaceReserved'
    <3> HIDE DEF Mine
    <3>1. Len(lh) + outstanding * MAXOPBLOCKS - Cardinality(Written) <= LOGSIZE
      BY DEF RoomInv, SpaceReserved, Written
    <3>2. outstanding' * MAXOPBLOCKS = outstanding * MAXOPBLOCKS - MAXOPBLOCKS
      BY <1>0, <2>2, LogAssumption
    <3>3. Len(lh) \in Nat /\ outstanding * MAXOPBLOCKS \in Nat /\ LOGSIZE \in Nat
          /\ MAXOPBLOCKS \in Nat
      BY <2>2, LogAssumption
    <3>4. Len(lh') + outstanding' * MAXOPBLOCKS - Cardinality(Written') <= LOGSIZE
      <4>1. PICK k \in Nat : k = outstanding * MAXOPBLOCKS
        BY <3>3
      <4>2. PICK w \in Nat, c \in Nat : w = Cardinality(Written) /\ c = Cardinality(Mine)
        BY <2>5, <2>6
      <4>3. PICK l \in Nat : l = Len(lh)
        BY <3>3
      <4>4. Cardinality(Written') = w - c /\ outstanding' * MAXOPBLOCKS = k - MAXOPBLOCKS
        BY <2>6, <3>2, <4>1, <4>2
      <4>5. l + k - w <= LOGSIZE /\ c <= MAXOPBLOCKS
        BY <2>5, <3>1, <4>1, <4>2, <4>3
      <4>6. l + (k - MAXOPBLOCKS) - (w - c) <= LOGSIZE
        BY <3>3, <4>5
      <4>7. Len(lh') = l
        BY <1>0, <4>3
      <4> QED BY <4>4, <4>6, <4>7
    <3> QED BY <1>0, <1>2, <3>4 DEF SpaceReserved, Written, NoPanic
  <2>8. \A q \in Inside' : /\ IsFiniteSet(wrote'[q])
                           /\ Cardinality(wrote'[q]) <= OpBlocks
                           /\ \A b \in wrote'[q] : Logged(b)'
    BY <1>0, <1>3 DEF RoomInv, Logged, Indices
  <2>9. ~Recovering' /\ ~committing' /\ outstanding' # 0
    BY <1>0, <2>1, <2>3 DEF Recovering
  <2> QED BY <2>3, <2>6, <2>7, <2>8, <2>9 DEF RoomInv, SleeperHasWaker
<1> QED BY <1>4, <1>5

\* A step of commit or of recovery, or a crash, has nobody inside.
LEMMA OthersRoom ==
  ASSUME IInv, RoomInv, Commit \/ Recovery \/ Crash PROVE RoomInv'
<1> USE DEF IInv
<1>0. IInv'
  BY Inductive DEF Next
<1>1. CASE Commit
  <2>1. Committing /\ committing /\ Inside = {} /\ NoPanic
    BY <1>1 DEF Commit, WriteLog, WriteHead, Install, Erase, Committed, Doing,
                Committing, CallInv, RoomInv, SpaceReserved
  <2>2. CASE WriteLog \/ WriteHead \/ Install \/ Erase
    <3>1. UNCHANGED <<committing, pc, panicked>> /\ Committing'
      BY <2>2 DEF WriteLog, WriteHead, Install, Erase, memory, Following, Committing
    <3>2. Inside' = {} /\ ~Recovering'
      BY <2>1, <3>1 DEF Inside, Committing, Recovering
    <3> QED BY <1>0, <2>1, <3>1, <3>2, NobodyInside DEF NoPanic
  <2>3. CASE Committed
    <3>1. /\ ~committing' /\ lh' = <<>> /\ panicked' = panicked
          /\ task' = <<"none", 0>>
          /\ \A p \in Procs : pc'[p] # "asleep" /\ pc'[p] # "op"
      <4>1. lh = <<>>
        BY <2>3 DEF Committed, Doing, PhaseInv
      <4>2. \A p \in Procs : pc[p] # "op"
        BY <2>1 DEF Inside
      <4> QED BY <2>3, <4>1, <4>2 DEF Committed, Woken
    <3>2. Inside' = {} /\ ~Recovering'
      BY <3>1 DEF Inside, Recovering
    <3> QED BY <1>0, <2>1, <3>1, <3>2, NobodyInside DEF NoPanic
  <2> QED BY <1>1, <2>2, <2>3 DEF Commit
<1>2. CASE Recovery
  <2>1. Recovering /\ NoPanic /\ ~committing
        /\ \A p \in Procs : pc[p] = "idle"
    <3>1. Recovering
      BY <1>2 DEF Recovery, ReadHead, Reinstall, Clear, Doing, Recovering
    <3> QED BY <3>1 DEF RoomInv, SpaceReserved, Recovering, Committing
  <2>2. UNCHANGED <<committing, pc, panicked>>
    BY <1>2 DEF Recovery, ReadHead, Reinstall, Clear
  <2>3. Recovering' \/ lh' = <<>>
    BY <1>2 DEF Recovery, ReadHead, Reinstall, Clear, Replay, Following, Recovering
  <2>4. Inside' = {}
    BY <2>1, <2>2 DEF Inside
  <2> QED BY <1>0, <2>1, <2>2, <2>3, <2>4, NobodyInside DEF NoPanic
<1>3. CASE Crash
  <2>1. /\ ~committing' /\ Recovering' /\ panicked' = panicked
        /\ pc' = [p \in Procs |-> "idle"]
    BY <1>3 DEF Crash, Recovering
  <2>2. Inside' = {}
    BY <2>1 DEF Inside
  <2> QED BY <1>0, <2>1, <2>2, NobodyInside DEF NoPanic, RoomInv, SpaceReserved
<1> QED BY <1>1, <1>2, <1>3

LEMMA RoomStep == IInv /\ RoomInv /\ [Next]_vars => RoomInv'
<1> SUFFICES ASSUME IInv, RoomInv, [Next]_vars PROVE RoomInv'
  OBVIOUS
<1>1. CASE Commit \/ Recovery \/ Crash
  BY <1>1, OthersRoom
<1>2. ASSUME NEW b \in Blocks, Bread(b) \/ Recycle(b) PROVE RoomInv'
  BY <1>2, RoomSame DEF Bread, Recycle, RoomInv, SleeperHasWaker
<1>3. ASSUME NEW p \in Procs, BeginOp(p) \/ EndOp(p) PROVE RoomInv'
  BY <1>3, BeginOpRoom, EndOpRoom
<1>4. ASSUME NEW p \in Procs, NEW b \in Blocks, NEW v \in Values,
             LogWrite(p, b, v)
      PROVE  RoomInv'
  BY <1>4, LogWriteRoom
<1>5. CASE UNCHANGED vars
  BY <1>5, RoomSame DEF vars, RoomInv, SleeperHasWaker
<1> QED BY <1>1, <1>2, <1>3, <1>4, <1>5 DEF Next

LEMMA RoomAlways == Spec => []RoomInv
BY Invariance, RoomInit, RoomStep, PTL DEF Spec

\* However calls, commits and crashes interleave, what begin_op reserves
\* suffices: neither panic of log.c ("too big a transaction" of log_write,
\* "log.committing" of end_op) is reached.
THEOREM LogHasRoom == Spec => []SpaceReserved
<1>1. RoomInv => SpaceReserved
  BY DEF RoomInv
<1> QED BY <1>1, RoomAlways, PTL

\* Whoever sleeps in begin_op, sleeps while a call is inside or a commit is
\* going on: end_op and the end of the commit wake the sleepers up (log.c).
THEOREM SleepersAreWoken == Spec => []SleeperHasWaker
<1>1. RoomInv => SleeperHasWaker
  BY DEF RoomInv
<1> QED BY <1>1, RoomAlways, PTL
===============================================================================
