--------------------------- MODULE MapReduce_proofs ---------------------------
(***************************************************************************)
(* MR_Run gives every key to the reducer function once, with all of its    *)
(* values, and its threads keep out of each other's way, for any input and *)
(* any number of mappers, reducers, keys and values.                       *)
(***************************************************************************)
EXTENDS MapReduce, FunctionTheorems, SequenceTheorems, TLAPS

Working == {"map", "grow", "store"}

\* Who holds a lock is where it is held.
LockInv ==
  /\ \A m \in Mappers : fileLock = m <=> mpc[m] \in {"look", "take"}
  /\ \A m \in Mappers : lock = m <=> mpc[m] \in {"grow", "store"}

\* A file has one mapper, and a mapper leaves it when all of it is emitted.
FileOf(m) ==
  /\ IF mpc[m] = "take" THEN file[m] = filesDone + 1 ELSE file[m] <= filesDone
  /\ mpc[m] = "off" => file[m] = 0
  /\ mpc[m] \in Working => file[m] # 0 /\ emitted[m] <= Len(emits[file[m]])
  /\ mpc[m] \in {"grow", "store"} => emitted[m] < Len(emits[file[m]])
  /\ mpc[m] \in {"ask", "look", "done"} /\ file[m] # 0 =>
       emitted[m] = Len(emits[file[m]])
  /\ mpc[m] = "done" => filesDone = Len(emits)
FileInv ==
  /\ \A m \in Mappers : FileOf(m)
  /\ \A m, n \in Mappers : file[m] = file[n] /\ file[m] # 0 => m = n

\* The pairs that are in the partitions: those of the files begun, without those
\* that their mappers have not come to.
Stored == {e \in Emissions : /\ e[1] <= filesDone
                             /\ \A m \in Mappers : file[m] = e[1] => e[2] <= emitted[m]}
StoredIn(p) == {e \in Stored : Partitioner[Emitted(e).key] = p}
Filled(s) == {i \in DOMAIN s : s[i] # Garbage}
\* The nodes of s that are filled are the pairs of S, one for one.
Holds(s, S) == \E b \in Bijection(Filled(s), S) :
                 \A i \in Filled(s) : s[i] = Emitted(b[i])

\* m is about to fill slot i of partition p.
Fills(m, p, i) == mpc[m] = "store" /\ slot[m] = i /\ Partitioner[Emitting(m).key] = p
NodesOf(p) ==
  /\ Len(nodes[p]) = count[p]
  /\ \A i \in DOMAIN nodes[p] : nodes[p][i] = Garbage <=> \E m \in Mappers : Fills(m, p, i)
  /\ \A m \in Mappers : Fills(m, p, slot[m]) => slot[m] \in DOMAIN nodes[p]
  /\ Holds(nodes[p], StoredIn(p))
NodesInv == main # "done" => \A p \in Partitions : NodesOf(p)

\* Which threads run in each part of MR_Run.
PhaseInv ==
  /\ \A m \in Mappers : m \notin Started => mpc[m] = "off"
  /\ main = "start" => \A m \in Mappers : mpc[m] = "off"
  /\ main \in {"start", "mapping"} =>
       \A p \in Partitions : rpc[p] = "off" /\ calls[p] = <<>>
  /\ main \in {"reducing", "free", "done"} =>
       /\ \A m \in Mappers : mpc[m] \in {"off", "done"}
       /\ Stored = Emissions
  /\ main = "reducing" => \A p \in Partitions : rpc[p] = "sort" => calls[p] = <<>>
  /\ main \in {"free", "done"} => \A p \in Partitions : rpc[p] = "done"

\* The nodes with the key of a call that the reducer has been given.
Given(p, k) == {i \in 1 .. access[p] : nodes[p][i].key = k}
AreGiven(p, c) ==
  \E b \in Bijection(DOMAIN calls[p][c].values, Given(p, calls[p][c].key)) :
    \A i \in DOMAIN calls[p][c].values : calls[p][c].values[i] = nodes[p][b[i]].value

\* The reducer of p walks through its nodes in the order of their keys, with one
\* call for each: the calls cover what is behind access[p], and only the last
\* one, while it runs, can meet more of its key ahead.
KeysAhead(p, c) ==
  \A i \in DOMAIN nodes[p] : i > access[p] =>
    IF rpc[p] = "reduce" /\ c = Len(calls[p]) THEN calls[p][c].key <= nodes[p][i].key
                                              ELSE calls[p][c].key < nodes[p][i].key
WalkOf(p) ==
  /\ Ordered(nodes[p])
  /\ \A c, d \in DOMAIN calls[p] : c < d => calls[p][c].key < calls[p][d].key
  /\ \A c \in DOMAIN calls[p] :
       /\ AreGiven(p, c)
       /\ KeysAhead(p, c)
       /\ \E i \in DOMAIN nodes[p] : nodes[p][i].key = calls[p][c].key
  /\ \A i \in 1 .. access[p] : \E c \in DOMAIN calls[p] : calls[p][c].key = nodes[p][i].key
  /\ rpc[p] = "reduce" => /\ calls[p] # <<>> /\ calls[p][Len(calls[p])].key = key[p]
  /\ rpc[p] = "done" => access[p] = count[p]
WalkInv == main = "reducing" =>
             \A p \in Partitions : rpc[p] # "sort" => WalkOf(p)

InputOK == emits \in Seq(Seq(Pairs))
Calls == [key : Keys, values : Seq(Values)]
CallsOK == calls \in [Partitions -> Seq(Calls)]

Typed == TypeOK /\ InputOK /\ CallsOK
IInv == /\ Typed /\ LockInv /\ FileInv /\ NodesInv /\ PhaseInv /\ WalkInv
        /\ Grouped

-----------------------------------------------------------------------------
(* Bijections and the input                                                *)

LEMMA BijectionIs ==
  ASSUME NEW S, NEW T, NEW b
  PROVE  b \in Bijection(S, T) <=>
           /\ b \in [S -> T]
           /\ \A x, y \in S : b[x] = b[y] => x = y
           /\ \A t \in T : \E x \in S : b[x] = t
BY DEF Bijection, Injection, Surjection, IsInjective

LEMMA OneMore ==
  ASSUME NEW S, NEW T, NEW b \in Bijection(S, T), NEW x, NEW t, x \notin S, t \notin T
  PROVE  [y \in S \cup {x} |-> IF y = x THEN t ELSE b[y]]
           \in Bijection(S \cup {x}, T \cup {t})
<1> DEFINE c == [y \in S \cup {x} |-> IF y = x THEN t ELSE b[y]]
<1>1. /\ b \in [S -> T]
      /\ \A y, z \in S : b[y] = b[z] => y = z
      /\ \A u \in T : \E y \in S : b[y] = u
  BY BijectionIs
<1>2. c \in [S \cup {x} -> T \cup {t}]
  BY <1>1
<1>3. c[x] = t /\ \A y \in S : c[y] = b[y] /\ c[y] \in T
  BY <1>1
<1>4. \A y, z \in S \cup {x} : c[y] = c[z] => y = z
  BY <1>1, <1>3
<1>5. \A u \in T \cup {t} : \E y \in S \cup {x} : c[y] = u
  <2> SUFFICES ASSUME NEW u \in T \cup {t} PROVE \E y \in S \cup {x} : c[y] = u
    OBVIOUS
  <2>1. CASE u = t
    BY <2>1, <1>3
  <2>2. CASE u \in T
    <3>1. PICK y \in S : b[y] = u
      BY <1>1, <2>2
    <3> QED BY <3>1, <1>3
  <2> QED BY <2>1, <2>2
<1> HIDE DEF c
<1>6. c \in Bijection(S \cup {x}, T \cup {t})
  BY <1>2, <1>4, <1>5, BijectionIs
<1> QED BY <1>6 DEF c

LEMMA EmptyBijection == <<>> \in Bijection({}, {})
<1>1. <<>> \in [{} -> {}] /\ DOMAIN <<>> = {}
  OBVIOUS
<1> QED BY <1>1, BijectionIs

LEMMA Input ==
  ASSUME InputOK
  PROVE  /\ Len(emits) \in Nat /\ DOMAIN emits = 1 .. Len(emits)
         /\ \A f \in DOMAIN emits : /\ emits[f] \in Seq(Pairs)
                                    /\ Len(emits[f]) \in Nat
                                    /\ DOMAIN emits[f] = 1 .. Len(emits[f])
                                    /\ \A i \in DOMAIN emits[f] : emits[f][i] \in Pairs
BY DEF InputOK

LEMMA EmissionsAre ==
  /\ \A f \in DOMAIN emits : \A i \in DOMAIN emits[f] : <<f, i>> \in Emissions
  /\ \A e \in Emissions : /\ e[1] \in DOMAIN emits /\ e[2] \in DOMAIN emits[e[1]]
                          /\ e = <<e[1], e[2]>>
<1>1. \A e : e \in Emissions <=> \E f \in DOMAIN emits : e \in {f} \X DOMAIN emits[f]
  BY DEF Emissions
<1>2. ASSUME NEW e \in Emissions
      PROVE  e[1] \in DOMAIN emits /\ e[2] \in DOMAIN emits[e[1]] /\ e = <<e[1], e[2]>>
  <2>1. PICK f \in DOMAIN emits : e \in {f} \X DOMAIN emits[f]
    BY <1>1
  <2>2. PICK i \in DOMAIN emits[f] : e = <<f, i>>
    BY <2>1
  <2> QED BY <2>2
<1>3. ASSUME NEW f \in DOMAIN emits, NEW i \in DOMAIN emits[f]
      PROVE  <<f, i>> \in Emissions
  BY <1>1
<1> QED BY <1>2, <1>3

LEMMA EmittedIsPair ==
  ASSUME InputOK, NEW e \in Emissions
  PROVE  Emitted(e) \in Pairs /\ Emitted(e).key \in Keys /\ Emitted(e).value \in Values
<1>1. Emitted(e) \in Pairs
  BY Input, EmissionsAre DEF Emitted
<1> QED BY <1>1 DEF Pairs

LEMMA GarbageIsNoPair == MapReduceAssumption => Garbage \notin Pairs
<1>1. Garbage.key = 0
  BY DEF Garbage
<1>2. MapReduceAssumption => \A x \in Pairs : x.key # 0
  BY DEF Pairs, MapReduceAssumption
<1> QED BY <1>1, <1>2

\* The pair that a mapper has come to.
LEMMA EmittingIs ==
  ASSUME MapReduceAssumption, InputOK, TypeOK, FileInv,
         NEW m \in Mappers, mpc[m] \in {"grow", "store"}
  PROVE  /\ <<file[m], emitted[m] + 1>> \in Emissions
         /\ Emitted(<<file[m], emitted[m] + 1>>) = Emitting(m)
         /\ Emitting(m) \in Pairs /\ Emitting(m) # Garbage
         /\ Emitting(m).key \in Keys
         /\ Partitioner[Emitting(m).key] \in Partitions
<1>1. /\ file[m] \in DOMAIN emits /\ emitted[m] \in Nat
      /\ emitted[m] < Len(emits[file[m]])
  BY DEF TypeOK, FileInv, FileOf, Working
<1>2. emitted[m] + 1 \in DOMAIN emits[file[m]]
  BY <1>1, Input
<1>3. <<file[m], emitted[m] + 1>> \in Emissions
  BY <1>1, <1>2, EmissionsAre
<1>4. Emitted(<<file[m], emitted[m] + 1>>) = Emitting(m)
  BY DEF Emitted, Emitting
<1>5. Emitting(m) \in Pairs /\ Emitting(m).key \in Keys
  BY <1>3, <1>4, EmittedIsPair
<1>6. Partitioner[Emitting(m).key] \in Partitions
  BY <1>5 DEF MapReduceAssumption
<1> QED BY <1>3, <1>4, <1>5, <1>6, GarbageIsNoPair

LEMMA WithOne ==
  ASSUME NEW S, NEW s \in Seq(S), NEW x \in S, NEW i
  PROVE  /\ [s EXCEPT ![i] = x] \in Seq(S)
         /\ Len([s EXCEPT ![i] = x]) = Len(s)
         /\ DOMAIN [s EXCEPT ![i] = x] = DOMAIN s
<1>1. s \in [1 .. Len(s) -> S] /\ Len(s) \in Nat
  BY LenProperties
<1>2. [s EXCEPT ![i] = x] \in [1 .. Len(s) -> S]
  BY <1>1
<1>3. [s EXCEPT ![i] = x] \in Seq(S)
  BY <1>1, <1>2, SeqDef
<1>4. Len([s EXCEPT ![i] = x]) = Len(s)
  BY <1>1, <1>2, <1>3, LenProperties
<1> QED BY <1>1, <1>3, <1>4

-----------------------------------------------------------------------------
(* Locks and files                                                         *)

MapperAt == {"off", "ask", "look", "take", "map", "grow", "store", "done"}
Files == Typed /\ LockInv /\ FileInv

LEMMA AskFileFiles ==
  ASSUME MapReduceAssumption, Files, NEW m \in Mappers, AskFile(m)
  PROVE  Files'
<1> USE DEF AskFile, MGoto, FileLockFree
<1>1. Typed'
  BY Input DEF Files, Typed, TypeOK, InputOK, CallsOK, Mappers, MapReduceAssumption, vars, mvars, rvars, shared
<1>2. LockInv'
  BY DEF Files, Typed, TypeOK, LockInv, Mappers, shared
<1>3. FileInv'
  <2>1. ASSUME NEW n \in Mappers PROVE FileOf(n)'
    BY Input DEF Files, Typed, TypeOK, LockInv, FileInv, FileOf, Working, Mappers, shared
  <2>2. \A k, n \in Mappers : file'[k] = file'[n] /\ file'[k] # 0 => k = n
    BY DEF Files, Typed, TypeOK, LockInv, FileInv, FileOf, Working, Mappers, shared
  <2> QED BY <2>1, <2>2 DEF FileInv
<1> QED BY <1>1, <1>2, <1>3 DEF Files

LEMMA NoFileLeftFiles ==
  ASSUME MapReduceAssumption, Files, NEW m \in Mappers, NoFileLeft(m)
  PROVE  Files'
<1> USE DEF NoFileLeft, MGoto, Unlocked
<1>1. Typed'
  BY Input DEF Files, Typed, TypeOK, InputOK, CallsOK, Mappers, MapReduceAssumption, vars, mvars, rvars, shared
<1>2. LockInv'
  BY DEF Files, Typed, TypeOK, LockInv, Mappers, shared
<1>3. FileInv'
  <2>1. ASSUME NEW n \in Mappers PROVE FileOf(n)'
    <3>0. Len(emits) \in Nat
      BY Input DEF Files, Typed
    <3>1. filesDone = Len(emits)
      BY <3>0 DEF Files, Typed, TypeOK
    <3>2. FileOf(n) /\ FileOf(m) /\ mpc \in [Mappers -> MapperAt]
      <4>1. FileOf(n) /\ FileOf(m)
        BY DEF Files, FileInv
      <4>2. mpc \in [Mappers -> MapperAt]
        BY DEF Files, Typed, TypeOK, MapperAt
      <4> QED BY <4>1, <4>2
    <3> QED BY <3>1, <3>2 DEF Files, Typed, TypeOK, FileOf, Working, MapperAt
  <2>2. \A k, n \in Mappers : file'[k] = file'[n] /\ file'[k] # 0 => k = n
    BY DEF Files, Typed, TypeOK, LockInv, FileInv, FileOf, Working, Mappers, shared
  <2> QED BY <2>1, <2>2 DEF FileInv
<1> QED BY <1>1, <1>2, <1>3 DEF Files

LEMMA LookFileFiles ==
  ASSUME MapReduceAssumption, Files, NEW m \in Mappers, LookFile(m)
  PROVE  Files'
<1> USE DEF LookFile, MGoto
<1>1. Typed'
  <2>1. filesDone + 1 \in DOMAIN emits
    BY Input DEF Files, Typed, TypeOK
  <2>2. TypeOK'
    BY <2>1 DEF Files, Typed, TypeOK, mvars, rvars, shared
  <2> QED BY <2>2 DEF Files, Typed, InputOK, CallsOK, rvars
<1>2. LockInv'
  BY DEF Files, Typed, TypeOK, LockInv, Mappers, shared
<1>3. FileInv'
  <2>1. ASSUME NEW n \in Mappers PROVE FileOf(n)'
    BY Input DEF Files, Typed, TypeOK, LockInv, FileInv, FileOf, Working, Mappers, shared
  <2>2. \A k, n \in Mappers : file'[k] = file'[n] /\ file'[k] # 0 => k = n
    BY DEF Files, Typed, TypeOK, LockInv, FileInv, FileOf, Working, Mappers, shared
  <2> QED BY <2>1, <2>2 DEF FileInv
<1> QED BY <1>1, <1>2, <1>3 DEF Files

LEMMA TakeFileFiles ==
  ASSUME MapReduceAssumption, Files, NEW m \in Mappers, TakeFile(m)
  PROVE  Files'
<1> USE DEF TakeFile, MGoto
<1>1. Typed'
  <2>1. file[m] = filesDone + 1 /\ file[m] \in DOMAIN emits
    BY DEF Files, Typed, TypeOK, FileInv, FileOf
  <2>2. filesDone + 1 \in 0 .. Len(emits)
    BY <2>1, Input DEF Files, Typed, TypeOK
  <2>3. TypeOK'
    BY <2>2 DEF Files, Typed, TypeOK, mvars, rvars, shared
  <2> QED BY <2>3 DEF Files, Typed, InputOK, CallsOK, rvars
<1>2. LockInv'
  BY DEF Files, Typed, TypeOK, LockInv, Mappers, shared
<1>3. FileInv'
  <2>1. ASSUME NEW n \in Mappers PROVE FileOf(n)'
    <3>0. FileOf(n) /\ FileOf(m) /\ InputOK
      BY DEF Files, Typed, FileInv
    <3>1. file[m] \in DOMAIN emits /\ Len(emits[file[m]]) \in Nat /\ Len(emits) \in Nat
      <4>1. file[m] \in DOMAIN emits
        BY <3>0 DEF Files, Typed, TypeOK, FileOf
      <4> QED BY <3>0, <4>1, Input
    <3>2. FileOf(n) /\ filesDone \in Nat /\ mpc \in [Mappers -> MapperAt]
      <4>1. mpc \in [Mappers -> MapperAt]
        BY DEF Files, Typed, TypeOK, MapperAt
      <4>2. filesDone \in Nat
        BY <3>1 DEF Files, Typed, TypeOK
      <4> QED BY <3>0, <4>1, <4>2
    <3>3. CASE n = m
      BY <3>1, <3>2, <3>3 DEF Files, Typed, TypeOK, FileOf, Working, MapperAt
    <3>4. CASE n # m
      <4>1. mpc[n] # "take"
        BY <3>4 DEF Files, Typed, TypeOK, LockInv, Mappers
      <4>2. mpc[n] # "done"
        BY <3>1, <3>2 DEF Files, Typed, TypeOK, FileInv, FileOf
      <4> QED BY <3>1, <3>2, <3>4, <4>1, <4>2 DEF Files, Typed, TypeOK, FileOf, Working, MapperAt
    <3> QED BY <3>3, <3>4
  <2>2. \A k, n \in Mappers : file'[k] = file'[n] /\ file'[k] # 0 => k = n
    BY DEF Files, Typed, TypeOK, LockInv, FileInv, FileOf, Working, Mappers, shared
  <2> QED BY <2>1, <2>2 DEF FileInv
<1> QED BY <1>1, <1>2, <1>3 DEF Files

LEMMA EndFileFiles ==
  ASSUME MapReduceAssumption, Files, NEW m \in Mappers, EndFile(m)
  PROVE  Files'
<1> USE DEF EndFile, MGoto
<1>1. Typed'
  BY Input DEF Files, Typed, TypeOK, InputOK, CallsOK, Mappers, MapReduceAssumption, vars, mvars, rvars, shared
<1>2. LockInv'
  BY DEF Files, Typed, TypeOK, LockInv, Mappers, shared
<1>3. FileInv'
  <2>1. ASSUME NEW n \in Mappers PROVE FileOf(n)'
    BY Input DEF Files, Typed, TypeOK, LockInv, FileInv, FileOf, Working, Mappers, shared
  <2>2. \A k, n \in Mappers : file'[k] = file'[n] /\ file'[k] # 0 => k = n
    BY DEF Files, Typed, TypeOK, LockInv, FileInv, FileOf, Working, Mappers, shared
  <2> QED BY <2>1, <2>2 DEF FileInv
<1> QED BY <1>1, <1>2, <1>3 DEF Files

LEMMA EmitFiles ==
  ASSUME MapReduceAssumption, Files, NEW m \in Mappers, Emit(m)
  PROVE  Files'
<1> USE DEF Emit, MGoto, LockFree
<1>1. Typed'
  BY Input DEF Files, Typed, TypeOK, InputOK, CallsOK, Mappers, MapReduceAssumption, vars, mvars, rvars, shared
<1>2. LockInv'
  BY DEF Files, Typed, TypeOK, LockInv, Mappers, shared
<1>3. FileInv'
  <2>1. ASSUME NEW n \in Mappers PROVE FileOf(n)'
    BY Input DEF Files, Typed, TypeOK, LockInv, FileInv, FileOf, Working, Mappers, shared
  <2>2. \A k, n \in Mappers : file'[k] = file'[n] /\ file'[k] # 0 => k = n
    BY DEF Files, Typed, TypeOK, LockInv, FileInv, FileOf, Working, Mappers, shared
  <2> QED BY <2>1, <2>2 DEF FileInv
<1> QED BY <1>1, <1>2, <1>3 DEF Files

LEMMA GrowFiles ==
  ASSUME MapReduceAssumption, Files, NEW m \in Mappers, Grow(m)
  PROVE  Files'
<1> USE DEF Grow, MGoto
<1> DEFINE p == Partitioner[Emitting(m).key]
<1>1. Typed'
  <2>1. p \in Partitions /\ access[p] <= count[p] /\ access[p] \in Nat /\ count[p] \in Nat
    <3>1. p \in Partitions
      BY EmittingIs DEF Files, Typed
    <3> QED BY <3>1 DEF Files, Typed, TypeOK
  <2> HIDE DEF p
  <2>2. count' = [count EXCEPT ![p] = count[p] + 1]
        /\ nodes' = [nodes EXCEPT ![p] = Append(nodes[p], Garbage)]
        /\ slot' = [slot EXCEPT ![m] = count'[p]]
    BY DEF p
  <2>3. count' \in [Partitions -> Nat] /\ slot' \in [Mappers -> Nat]
    <3>1. count \in [Partitions -> Nat] /\ slot \in [Mappers -> Nat]
      BY DEF Files, Typed, TypeOK
    <3> HIDE DEF Grow
    <3>2. count' \in [Partitions -> Nat]
      BY <2>1, <2>2, <3>1
    <3> QED BY <2>1, <2>2, <3>1, <3>2
  <2>4. \A q \in Partitions : access[q] <= count'[q]
    BY <2>1, <2>2 DEF Files, Typed, TypeOK
  <2>5. nodes' \in [Partitions -> Seq(Pairs \cup {Garbage})]
    <3>1. nodes \in [Partitions -> Seq(Pairs \cup {Garbage})]
      BY DEF Files, Typed, TypeOK
    <3>2. Append(nodes[p], Garbage) \in Seq(Pairs \cup {Garbage})
      BY <2>1, <3>1
    <3> QED BY <2>1, <2>2, <3>1, <3>2
  <2>6. TypeOK'
    BY <2>3, <2>4, <2>5 DEF Files, Typed, TypeOK, mvars, rvars
  <2> QED BY <2>6 DEF Files, Typed, InputOK, CallsOK, rvars
<1>2. LockInv'
  BY DEF Files, Typed, TypeOK, LockInv, Mappers
<1>3. FileInv'
  BY DEF Files, Typed, TypeOK, FileInv, FileOf, Working
<1> QED BY <1>1, <1>2, <1>3 DEF Files

LEMMA StoreFiles ==
  ASSUME MapReduceAssumption, Files, NEW m \in Mappers, Store(m)
  PROVE  Files'
<1> USE DEF Store, MGoto
<1> DEFINE p == Partitioner[Emitting(m).key]
<1>1. Typed'
  <2>1. p \in Partitions /\ Emitting(m) \in Pairs
    BY EmittingIs DEF Files, Typed
  <2> HIDE DEF p
  <2>2. nodes' = [nodes EXCEPT ![p] = [nodes[p] EXCEPT ![slot[m]] = Emitting(m)]]
    <3>1. nodes' = [nodes EXCEPT ![p][slot[m]] = Emitting(m)]
      BY DEF p
    <3> HIDE DEF Store
    <3> QED BY <3>1
  <2>3. nodes' \in [Partitions -> Seq(Pairs \cup {Garbage})]
    <3>1. nodes \in [Partitions -> Seq(Pairs \cup {Garbage})]
      BY DEF Files, Typed, TypeOK
    <3>2. [nodes[p] EXCEPT ![slot[m]] = Emitting(m)] \in Seq(Pairs \cup {Garbage})
      BY <2>1, <3>1, WithOne
    <3> QED BY <2>1, <2>2, <3>1, <3>2
  <2>4. emitted' \in [Mappers -> Nat]
    BY DEF Files, Typed, TypeOK
  <2>5. TypeOK'
    BY <2>3, <2>4 DEF Files, Typed, TypeOK, mvars, rvars
  <2> QED BY <2>5 DEF Files, Typed, InputOK, CallsOK, rvars
<1>2. LockInv'
  BY DEF Files, Typed, TypeOK, LockInv, Mappers
<1>3. FileInv'
  <2>1. FileOf(m) /\ file[m] \in {0} \cup DOMAIN emits
    BY DEF Files, Typed, FileInv, TypeOK
  <2>2. file[m] # 0 /\ Len(emits[file[m]]) \in Nat /\ emitted[m] \in Nat
    <3>1. file[m] # 0
      BY <2>1 DEF FileOf, Working
    <3>2. InputOK /\ emitted[m] \in Nat
      BY DEF Files, Typed, TypeOK
    <3> QED BY <2>1, <3>1, <3>2, Input
  <2>3. ASSUME NEW n \in Mappers PROVE FileOf(n)'
    <3>1. FileOf(n) /\ mpc \in [Mappers -> MapperAt] /\ emitted \in [Mappers -> Nat]
      BY DEF Files, Typed, FileInv, TypeOK, MapperAt
    <3> QED BY <2>2, <3>1 DEF FileOf, Working, MapperAt
  <2>4. \A k, n \in Mappers : file'[k] = file'[n] /\ file'[k] # 0 => k = n
    BY DEF Files, FileInv
  <2> QED BY <2>3, <2>4 DEF FileInv
<1> QED BY <1>1, <1>2, <1>3 DEF Files

LEMMA FilesSame ==
  ASSUME Files, UNCHANGED <<emits, filesDone, fileLock, lock, mvars>>
  PROVE  LockInv' /\ FileInv'
<1>1. LockInv'
  BY DEF Files, LockInv, mvars
<1>2. ASSUME NEW m \in Mappers PROVE FileOf(m)'
  BY DEF Files, FileInv, FileOf, mvars
<1>3. \A m, n \in Mappers : file'[m] = file'[n] /\ file'[m] # 0 => m = n
  BY DEF Files, FileInv, mvars
<1> QED BY <1>1, <1>2, <1>3 DEF FileInv

LEMMA StartFiles ==
  ASSUME MapReduceAssumption, IInv, StartMappers
  PROVE  Files'
<1> USE DEF StartMappers
<1>1. \A m \in Mappers : mpc[m] = "off"
  BY DEF IInv, PhaseInv
<1>2. Typed'
  BY DEF IInv, Typed, TypeOK, InputOK, CallsOK, shared, rvars
<1>3. LockInv'
  BY <1>1 DEF IInv, LockInv, Typed, TypeOK, shared
<1>4. FileInv'
  <2>1. ASSUME NEW m \in Mappers PROVE FileOf(m)'
    <3>1. file[m] = 0 /\ FileOf(m)
      BY <1>1 DEF IInv, FileInv, FileOf
    <3> QED BY <1>1, <3>1 DEF FileOf, Working, shared
  <2>2. \A m, n \in Mappers : file'[m] = file'[n] /\ file'[m] # 0 => m = n
    BY DEF IInv, FileInv
  <2> QED BY <2>1, <2>2 DEF FileInv
<1> QED BY <1>2, <1>3, <1>4 DEF Files

-----------------------------------------------------------------------------
(* Reducers                                                                *)

LEMMA ReducerRuns ==
  ASSUME IInv, NEW p \in Partitions, rpc[p] \in {"sort", "loop", "reduce"}
  PROVE  main = "reducing"
<1>1. main \notin {"start", "mapping", "free", "done"}
  BY DEF IInv, PhaseInv
<1> QED BY <1>1 DEF IInv, Typed, TypeOK

LEMMA WhileReducing ==
  ASSUME MapReduceAssumption, IInv, main = "reducing", NEW p \in Partitions
  PROVE  /\ nodes[p] \in Seq(Pairs) /\ Len(nodes[p]) = count[p]
         /\ access[p] \in Nat /\ count[p] \in Nat /\ access[p] <= count[p]
         /\ DOMAIN nodes[p] = 1 .. count[p] /\ Filled(nodes[p]) = DOMAIN nodes[p]
         /\ \A i \in 1 .. count[p] : /\ nodes[p][i] \in Pairs
                                     /\ nodes[p][i].key \in Keys
                                     /\ nodes[p][i].value \in Values
         /\ StoredIn(p) = {e \in Emissions : Partitioner[Emitted(e).key] = p}
         /\ Holds(nodes[p], StoredIn(p))
<1>1. NodesOf(p)
  BY DEF IInv, NodesInv
<1>2. /\ \A m \in Mappers : mpc[m] # "store"
      /\ Stored = Emissions
  BY DEF IInv, PhaseInv
<1>3. /\ access[p] \in Nat /\ count[p] \in Nat /\ access[p] <= count[p]
      /\ nodes[p] \in Seq(Pairs \cup {Garbage})
  BY DEF IInv, Typed, TypeOK
<1>4. Len(nodes[p]) = count[p] /\ Holds(nodes[p], StoredIn(p))
  BY <1>1 DEF NodesOf
<1>5. DOMAIN nodes[p] = 1 .. count[p]
  BY <1>3, <1>4, LenProperties
<1>6. \A i \in DOMAIN nodes[p] : nodes[p][i] # Garbage
  BY <1>1, <1>2 DEF NodesOf, Fills
<1>7. \A i \in 1 .. count[p] : nodes[p][i] \in Pairs
  BY <1>3, <1>4, <1>5, <1>6, ElementOfSeq
<1>8. nodes[p] \in [1 .. count[p] -> Pairs]
  <2>1. nodes[p] \in [1 .. count[p] -> Pairs \cup {Garbage}]
    BY <1>3, <1>4, LenProperties
  <2> QED BY <2>1, <1>7
<1>9. nodes[p] \in Seq(Pairs)
  BY <1>3, <1>8, SeqDef
<1>10. Filled(nodes[p]) = DOMAIN nodes[p]
  BY <1>6 DEF Filled
<1>11. \A x \in Pairs : x.key \in Keys /\ x.value \in Values
  BY DEF Pairs
<1>12. StoredIn(p) = {e \in Emissions : Partitioner[Emitted(e).key] = p}
  BY <1>2 DEF StoredIn
<1> QED BY <1>3, <1>4, <1>5, <1>7, <1>9, <1>10, <1>11, <1>12

LEMMA SortedIs ==
  ASSUME NEW S, NEW s \in Seq(S), NEW t \in Sorted(s)
  PROVE  /\ t \in Seq(S) /\ Len(t) = Len(s) /\ DOMAIN t = DOMAIN s /\ Ordered(t)
         /\ \E q \in Bijection(DOMAIN s, DOMAIN s) : \A i \in DOMAIN s : t[i] = s[q[i]]
<1>1. PICK q \in Bijection(DOMAIN s, DOMAIN s) : t = [i \in DOMAIN s |-> s[q[i]]]
  BY DEF Sorted, Orders
<1>2. q \in [DOMAIN s -> DOMAIN s]
  BY BijectionIs
<1>3. s \in [1 .. Len(s) -> S] /\ Len(s) \in Nat /\ DOMAIN s = 1 .. Len(s)
  BY LenProperties
<1>4. t \in [1 .. Len(s) -> S]
  BY <1>1, <1>2, <1>3
<1>5. t \in Seq(S)
  BY <1>3, <1>4, SeqDef
<1>6. Len(t) = Len(s)
  BY <1>3, <1>4, <1>5, LenProperties
<1>7. Ordered(t)
  BY DEF Sorted
<1> QED BY <1>1, <1>3, <1>4, <1>5, <1>6, <1>7

LEMMA SortFiles ==
  ASSUME MapReduceAssumption, IInv, NEW p \in Partitions, Sort(p)
  PROVE  Files'
<1> USE DEF Sort, RGoto
<1>1. nodes \in [Partitions -> Seq(Pairs \cup {Garbage})]
  BY DEF IInv, Typed, TypeOK
<1>2. PICK t \in Sorted(nodes[p]) : nodes' = [nodes EXCEPT ![p] = t]
  OBVIOUS
<1>3. t \in Seq(Pairs \cup {Garbage})
  BY <1>1, SortedIs
<1>4. nodes' \in [Partitions -> Seq(Pairs \cup {Garbage})]
  BY <1>1, <1>2, <1>3
<1>5. TypeOK'
  BY <1>4 DEF IInv, Typed, TypeOK, mvars
<1>6. Typed'
  BY <1>5 DEF IInv, Typed, InputOK, CallsOK
<1>7. LockInv' /\ FileInv'
  BY FilesSame DEF IInv, Files
<1> QED BY <1>6, <1>7 DEF Files

LEMMA CallReducerFiles ==
  ASSUME MapReduceAssumption, IInv, NEW p \in Partitions, CallReducer(p)
  PROVE  Files'
<1> USE DEF CallReducer, RGoto
<1>1. main = "reducing"
  BY ReducerRuns
<1>2. access[p] + 1 \in 1 .. count[p]
  BY <1>1, WhileReducing
<1> DEFINE k == nodes[p][access[p] + 1].key
<1>3. k \in Keys
  BY <1>1, <1>2, WhileReducing
<1> HIDE DEF k
<1>4. key' = [key EXCEPT ![p] = k]
      /\ calls' = [calls EXCEPT ![p] = Append(calls[p], [key |-> k, values |-> <<>>])]
  BY DEF k
<1>5. [key |-> k, values |-> <<>>] \in Calls
  BY <1>3 DEF Calls
<1>6. CallsOK'
  BY <1>4, <1>5 DEF IInv, Typed, CallsOK
<1>7. TypeOK'
  BY <1>3, <1>4 DEF IInv, Typed, TypeOK, mvars, shared
<1>8. Typed'
  BY <1>6, <1>7 DEF IInv, Typed, InputOK
<1>9. LockInv' /\ FileInv'
  BY FilesSame DEF IInv, Files, shared
<1> QED BY <1>8, <1>9 DEF Files

\* The call that a getValue extends.
LEMMA Current ==
  ASSUME MapReduceAssumption, IInv, NEW p \in Partitions, rpc[p] = "reduce"
  PROVE  /\ main = "reducing" /\ WalkOf(p)
         /\ calls[p] \in Seq(Calls) /\ Len(calls[p]) \in DOMAIN calls[p]
         /\ Len(calls[p]) \in Nat /\ DOMAIN calls[p] = 1 .. Len(calls[p])
         /\ calls[p][Len(calls[p])] \in Calls
         /\ calls[p][Len(calls[p])].key = key[p]
<1>1. main = "reducing"
  BY ReducerRuns
<1>2. WalkOf(p)
  BY <1>1 DEF IInv, WalkInv
<1>3. calls[p] # <<>> /\ calls[p][Len(calls[p])].key = key[p]
  BY <1>2 DEF WalkOf
<1>4. calls[p] \in Seq(Calls)
  BY DEF IInv, Typed, CallsOK
<1>5. Len(calls[p]) \in Nat /\ DOMAIN calls[p] = 1 .. Len(calls[p])
  BY <1>4, LenProperties
<1>6. Len(calls[p]) # 0
  BY <1>3, <1>4, EmptySeq
<1>7. Len(calls[p]) \in 1 .. Len(calls[p])
  BY <1>5, <1>6
<1>8. calls[p][Len(calls[p])] \in Calls
  BY <1>4, <1>7, ElementOfSeq
<1> QED BY <1>1, <1>2, <1>3, <1>4, <1>5, <1>7, <1>8

Extended(c, v) == [c EXCEPT !.values = Append(c.values, v)]
LEMMA GetValueIs ==
  ASSUME MapReduceAssumption, IInv, NEW p \in Partitions, GetValue(p)
  PROVE  LET n == Len(calls[p])
             node == nodes[p][access[p] + 1]
             call == [key |-> key[p], values |-> Append(calls[p][n].values, node.value)]
         IN  /\ access[p] + 1 \in 1 .. count[p] /\ node.key = key[p]
             /\ node.value \in Values /\ call \in Calls
             /\ calls' = [calls EXCEPT ![p] = [calls[p] EXCEPT ![n] = call]]
<1> USE DEF GetValue
<1> DEFINE n == Len(calls[p])
           node == nodes[p][access[p] + 1]
           call == [key |-> key[p], values |-> Append(calls[p][n].values, node.value)]
<1>1. /\ main = "reducing" /\ calls[p][n] \in Calls /\ calls[p][n].key = key[p]
  BY Current
<1>2. access[p] + 1 \in 1 .. count[p] /\ node.key = key[p]
  BY <1>1, WhileReducing DEF HasValue
<1>3. node.value \in Values
  BY <1>1, <1>2, WhileReducing
<1>4. call \in Calls /\ call = Extended(calls[p][n], node.value)
  <2>1. PICK c \in Calls : c = calls[p][n]
    BY <1>1
  <2>2. c.key = key[p] /\ c.key \in Keys /\ c.values \in Seq(Values)
    BY <1>1, <2>1 DEF Calls
  <2> HIDE DEF node
  <2>3. call \in Calls
    BY <1>3, <2>1, <2>2 DEF Calls
  <2>4. Extended(c, node.value) = [key |-> c.key, values |-> Append(c.values, node.value)]
    <3>1. c = [key |-> c.key, values |-> c.values]
      BY DEF Calls
    <3> DEFINE w == Append(c.values, node.value)
    <3>2. Extended(c, node.value) = [c EXCEPT !.values = w]
      BY DEF Extended
    <3> HIDE DEF w
    <3>3. [c EXCEPT !.values = w] = [key |-> c.key, values |-> w]
      BY <3>1
    <3> QED BY <3>2, <3>3 DEF w
  <2> QED BY <2>1, <2>2, <2>3, <2>4
<1>5. calls' = [calls EXCEPT ![p][n].values = Append(@, node.value)]
  OBVIOUS
<1>6. calls' = [calls EXCEPT ![p] = [calls[p] EXCEPT ![n] = Extended(calls[p][n], node.value)]]
  <2> HIDE DEF node, GetValue
  <2> QED BY <1>5 DEF Extended
<1> QED BY <1>2, <1>3, <1>4, <1>6

LEMMA GetValueFiles ==
  ASSUME MapReduceAssumption, IInv, NEW p \in Partitions, GetValue(p)
  PROVE  Files'
<1> USE DEF GetValue
<1> DEFINE n == Len(calls[p])
           node == nodes[p][access[p] + 1]
           call == [key |-> key[p], values |-> Append(calls[p][n].values, node.value)]
<1>1. /\ access[p] + 1 \in 1 .. count[p] /\ call \in Calls
      /\ calls' = [calls EXCEPT ![p] = [calls[p] EXCEPT ![n] = call]]
  BY GetValueIs
<1> HIDE DEF call
<1>2. CallsOK'
  <2>1. calls \in [Partitions -> Seq(Calls)]
    BY DEF IInv, Typed, CallsOK
  <2>2. [calls[p] EXCEPT ![n] = call] \in Seq(Calls)
    BY <1>1, <2>1, WithOne
  <2> QED BY <1>1, <2>1, <2>2 DEF CallsOK
<1>3. TypeOK'
  BY <1>1 DEF IInv, Typed, TypeOK, mvars, shared, NextAccess
<1>4. Typed'
  BY <1>2, <1>3 DEF IInv, Typed, InputOK
<1>5. LockInv' /\ FileInv'
  BY FilesSame DEF IInv, Files, shared
<1> QED BY <1>4, <1>5 DEF Files

LEMMA OtherFiles ==
  ASSUME MapReduceAssumption, IInv,
         \/ \E p \in Partitions : EndReducer(p) \/ GetNull(p)
         \/ StartReducers \/ JoinReducers \/ Free
  PROVE  Files'
<1>1. TypeOK'
  <2>1. ASSUME NEW p \in Partitions, EndReducer(p) \/ GetNull(p) PROVE TypeOK'
    BY <2>1 DEF EndReducer, GetNull, RGoto, IInv, Typed, TypeOK, mvars, shared
  <2>2. CASE StartReducers \/ JoinReducers
    BY <2>2 DEF StartReducers, JoinReducers, IInv, Typed, TypeOK, mvars, shared, rvars
  <2>3. CASE Free
    <3>1. nodes' \in [Partitions -> Seq(Pairs \cup {Garbage})]
      BY <2>3 DEF Free
    <3> QED BY <2>3, <3>1 DEF Free, IInv, Typed, TypeOK, mvars, rvars
  <2> QED BY <2>1, <2>2, <2>3
<1>2. UNCHANGED <<emits, filesDone, fileLock, lock, mvars, calls>>
  BY DEF EndReducer, GetNull, StartReducers, JoinReducers, Free, shared, rvars
<1>3. Typed'
  BY <1>1, <1>2 DEF IInv, Typed, InputOK, CallsOK
<1>4. LockInv' /\ FileInv'
  BY <1>2, FilesSame DEF IInv, Files
<1> QED BY <1>3, <1>4 DEF Files

-----------------------------------------------------------------------------
(* What the partitions hold                                                *)

LEMMA NodesSame ==
  ASSUME NodesInv, main # "done", UNCHANGED <<emits, count, nodes, slot>>,
         Stored' = Stored,
         \A m \in Mappers : mpc'[m] = "store" <=> mpc[m] = "store",
         \A m \in Mappers : mpc[m] = "store" => Emitting(m)' = Emitting(m)
  PROVE  NodesInv'
<1> SUFFICES ASSUME NEW p \in Partitions PROVE NodesOf(p)'
  BY DEF NodesInv
<1>1. NodesOf(p)
  BY DEF NodesInv
<1>2. ASSUME NEW m \in Mappers, NEW i PROVE Fills(m, p, i)' <=> Fills(m, p, i)
  BY DEF Fills
<1>3. StoredIn(p)' = StoredIn(p)
  BY DEF StoredIn, Emitted
<1>4. Holds(nodes[p], StoredIn(p))'
  <2>1. PICK b \in Bijection(Filled(nodes[p]), StoredIn(p)) :
          \A i \in Filled(nodes[p]) : nodes[p][i] = Emitted(b[i])
    BY <1>1 DEF NodesOf, Holds
  <2>2. Filled(nodes[p])' = Filled(nodes[p])
    BY DEF Filled, Garbage
  <2>3. \A x : Emitted(x)' = Emitted(x)
    BY DEF Emitted
  <2> QED BY <1>3, <2>1, <2>2, <2>3 DEF Holds
<1>5. \A m \in Mappers : Fills(m, p, slot[m])' => slot'[m] \in DOMAIN nodes'[p]
  <2> SUFFICES ASSUME NEW m \in Mappers, Fills(m, p, slot[m])' PROVE slot[m] \in DOMAIN nodes[p]
    OBVIOUS
  <2>1. Fills(m, p, slot[m])
    BY DEF Fills
  <2> QED BY <2>1, <1>1 DEF NodesOf
<1>6. \A i \in DOMAIN nodes'[p] : nodes'[p][i] = Garbage <=> \E m \in Mappers : Fills(m, p, i)'
  BY <1>1, <1>2 DEF NodesOf
<1> QED BY <1>1, <1>4, <1>5, <1>6 DEF NodesOf

LEMMA LookStored ==
  ASSUME IInv, NEW m \in Mappers, LookFile(m)
  PROVE  Stored' = Stored
<1> USE DEF LookFile, MGoto, shared
<1>1. Emissions' = Emissions
  BY DEF Emissions
<1>2. FileOf(m) /\ InputOK /\ filesDone \in Int /\ file \in [Mappers -> {0} \cup DOMAIN emits]
      /\ file' = [file EXCEPT ![m] = filesDone + 1] /\ filesDone' = filesDone
      /\ emitted' = emitted /\ emitted \in [Mappers -> Nat]
  BY DEF IInv, FileInv, Typed, TypeOK
<1>3. ASSUME NEW e \in Emissions, e[1] <= filesDone, file[m] = e[1] PROVE e[2] <= emitted[m]
  <2>1. file[m] \in DOMAIN emits /\ e[2] \in DOMAIN emits[file[m]] /\ file[m] # 0
    BY <1>2, <1>3, EmissionsAre, Input
  <2>2. emitted[m] = Len(emits[file[m]])
    BY <1>2, <2>1 DEF FileOf
  <2> QED BY <1>2, <2>1, <2>2, Input
<1>4. ASSUME NEW e \in Emissions, e[1] <= filesDone PROVE file'[m] # e[1]
  <2>1. e[1] \in Int
    BY <1>2, EmissionsAre, Input
  <2> QED BY <1>2, <1>4, <2>1
<1>5. ASSUME NEW e \in Emissions, e[1] <= filesDone
      PROVE  (\A n \in Mappers : file[n] = e[1] => e[2] <= emitted[n])
               <=> (\A n \in Mappers : file'[n] = e[1] => e[2] <= emitted'[n])
  BY <1>2, <1>3, <1>4, <1>5
<1> QED BY <1>1, <1>2, <1>5 DEF Stored

LEMMA TakeStored ==
  ASSUME IInv, NEW m \in Mappers, TakeFile(m)
  PROVE  Stored' = Stored
<1> USE DEF TakeFile, MGoto
<1>1. Emissions' = Emissions
  BY DEF Emissions
<1>2. FileOf(m) /\ InputOK /\ filesDone \in Int /\ file[m] = filesDone + 1
      /\ emitted' = [emitted EXCEPT ![m] = 0] /\ filesDone' = filesDone + 1
      /\ file' = file /\ emitted \in [Mappers -> Nat]
  <2>1. FileOf(m) /\ InputOK /\ filesDone \in Int /\ emitted \in [Mappers -> Nat]
    BY DEF IInv, FileInv, Typed, TypeOK
  <2> QED BY <2>1 DEF FileOf
<1>3. ASSUME NEW e \in Emissions PROVE e[1] \in Int /\ e[2] \in Nat \ {0}
  BY <1>2, EmissionsAre, Input
<1>4. ASSUME NEW e \in Emissions
      PROVE  /\ e[1] <= filesDone
             /\ \A n \in Mappers : file[n] = e[1] => e[2] <= emitted[n]
         <=> /\ e[1] <= filesDone'
             /\ \A n \in Mappers : file'[n] = e[1] => e[2] <= emitted'[n]
  <2>1. CASE e[1] <= filesDone
    <3>1. e[1] # file[m] /\ e[1] <= filesDone'
      BY <1>2, <1>3, <2>1
    <3> QED BY <1>2, <2>1, <3>1
  <2>2. CASE e[1] = filesDone + 1
    <3>1. e[1] = file[m] /\ ~(e[2] <= emitted'[m])
      BY <1>2, <1>3, <2>2
    <3>2. ~(e[1] <= filesDone)
      BY <1>2, <2>2
    <3> QED BY <1>2, <3>1, <3>2
  <2>3. CASE e[1] > filesDone + 1
    BY <1>2, <1>3, <2>3
  <2> QED BY <1>2, <1>3, <2>1, <2>2, <2>3
<1> QED BY <1>1, <1>4 DEF Stored

LEMMA MapperRuns ==
  ASSUME IInv, NEW m \in Mappers, mpc[m] \notin {"off", "done"}
  PROVE  main = "mapping"
<1>1. main \notin {"start", "reducing", "free", "done"}
  BY DEF IInv, PhaseInv
<1> QED BY <1>1 DEF IInv, Typed, TypeOK

LEMMA MapperNodes ==
  ASSUME MapReduceAssumption, IInv, NEW m \in Mappers,
         \/ AskFile(m) \/ NoFileLeft(m) \/ LookFile(m) \/ TakeFile(m)
         \/ EndFile(m) \/ Emit(m)
  PROVE  NodesInv' /\ Stored' = Stored
<1>1. /\ UNCHANGED <<emits, count, nodes, slot>> /\ main # "done"
      /\ mpc[m] # "store" /\ mpc'[m] # "store"
      /\ \A n \in Mappers \ {m} : mpc'[n] = mpc[n] /\ file'[n] = file[n] /\ emitted'[n] = emitted[n]
  <2>1. mpc[m] \notin {"off", "done"}
    BY DEF AskFile, NoFileLeft, LookFile, TakeFile, EndFile, Emit
  <2>2. main # "done"
    BY <2>1, MapperRuns
  <2>3. mpc \in [Mappers -> MapperAt] /\ DOMAIN mpc = Mappers /\ DOMAIN file = Mappers /\ DOMAIN emitted = Mappers
    BY DEF IInv, Typed, TypeOK, MapperAt
  <2>4. mpc[m] # "store" /\ mpc'[m] # "store"
    BY <2>3 DEF AskFile, NoFileLeft, LookFile, TakeFile, EndFile, Emit, MGoto
  <2>5. \A n \in Mappers \ {m} : mpc'[n] = mpc[n] /\ file'[n] = file[n] /\ emitted'[n] = emitted[n]
    BY <2>3 DEF AskFile, NoFileLeft, LookFile, TakeFile, EndFile, Emit, MGoto
  <2>6. UNCHANGED <<emits, count, nodes, slot>>
    BY DEF AskFile, NoFileLeft, LookFile, TakeFile, EndFile, Emit, shared
  <2> QED BY <2>2, <2>4, <2>5, <2>6
<1>2. Stored' = Stored
  <2>1. CASE LookFile(m)
    BY <2>1, LookStored
  <2>2. CASE TakeFile(m)
    BY <2>2, TakeStored
  <2>3. CASE AskFile(m) \/ NoFileLeft(m) \/ EndFile(m) \/ Emit(m)
    <3>1. UNCHANGED <<emits, filesDone, file, emitted>>
      BY <2>3 DEF AskFile, NoFileLeft, EndFile, Emit, shared
    <3> QED BY <3>1 DEF Stored, Emissions
  <2> QED BY <2>1, <2>2, <2>3
<1>3. \A n \in Mappers : mpc[n] = "store" => Emitting(n)' = Emitting(n)
  BY <1>1 DEF Emitting
<1> QED BY <1>1, <1>2, <1>3, NodesSame DEF IInv

LEMMA Alone ==
  ASSUME LockInv, NEW m \in Mappers, mpc[m] \in {"grow", "store"},
         NEW n \in Mappers, n # m
  PROVE  mpc[n] \notin {"grow", "store"}
BY DEF LockInv

LEMMA GrowNodes ==
  ASSUME MapReduceAssumption, IInv, NEW m \in Mappers, Grow(m)
  PROVE  NodesInv' /\ Stored' = Stored
<1> USE DEF Grow, MGoto
<1>0. PICK e \in Pairs : e = Emitting(m)
  BY EmittingIs DEF IInv, Typed
<1>p. PICK p \in Partitions : p = Partitioner[Emitting(m).key]
  BY EmittingIs DEF IInv, Typed
<1>1. /\ p \in Partitions /\ main # "done" /\ mpc[m] = "grow" /\ mpc'[m] = "store"
      /\ \A n \in Mappers : n # m => mpc[n] # "store" /\ mpc'[n] = mpc[n]
      /\ \A q \in Partitions : NodesOf(q)
  <2>1. p \in Partitions
    BY <1>p
  <2>2. main # "done"
    BY MapperRuns
  <2>3. mpc'[m] = "store" /\ \A n \in Mappers : n # m => mpc'[n] = mpc[n]
    BY DEF IInv, Typed, TypeOK
  <2>4. \A n \in Mappers : n # m => mpc[n] # "store"
    BY Alone DEF IInv
  <2> QED BY <2>1, <2>2, <2>3, <2>4 DEF IInv, NodesInv
<1>2. UNCHANGED <<emits, filesDone, file, emitted>> /\ Emitting(m)' = Emitting(m)
  BY DEF Emitting
<1>3. Stored' = Stored /\ \A q \in Partitions : StoredIn(q)' = StoredIn(q)
  BY <1>2 DEF Stored, Emissions, StoredIn, Emitted
<1>4. /\ \A q \in Partitions : nodes[q] \in Seq(Pairs \cup {Garbage}) /\ count[q] \in Nat
      /\ Emitting(m)' = e
      /\ count' = [count EXCEPT ![p] = count[p] + 1] /\ DOMAIN count = Partitions
      /\ nodes' = [nodes EXCEPT ![p] = Append(nodes[p], Garbage)] /\ DOMAIN nodes = Partitions
      /\ slot' = [slot EXCEPT ![m] = count'[p]] /\ DOMAIN slot = Mappers
  BY <1>0, <1>p, <1>2 DEF IInv, Typed, TypeOK
<1>5. p = Partitioner[e.key]
  BY <1>0, <1>p
<1> HIDE DEF Grow
<1>6. \A n \in Mappers, q \in Partitions : \A i :
         Fills(n, q, i)' <=> n = m /\ q = p /\ i = count[p] + 1
  <2> SUFFICES ASSUME NEW n \in Mappers, NEW q \in Partitions, NEW i
      PROVE  Fills(n, q, i)' <=> n = m /\ q = p /\ i = count[p] + 1
    OBVIOUS
  <2>1. CASE n = m
    <3>1. slot'[m] = count[p] + 1
      BY <1>1, <1>4
    <3> QED BY <2>1, <3>1, <1>1, <1>4, <1>5 DEF Fills
  <2>2. CASE n # m
    BY <2>2, <1>1 DEF Fills
  <2> QED BY <2>1, <2>2
<1>7. ASSUME NEW q \in Partitions, q # p PROVE NodesOf(q)'
  <2>1. nodes'[q] = nodes[q] /\ count'[q] = count[q] /\ NodesOf(q)
    BY <1>1, <1>4, <1>7
  <2>2. \A i \in DOMAIN nodes[q] : nodes[q][i] # Garbage
    BY <1>1, <2>1 DEF NodesOf, Fills
  <2>3. Holds(nodes[q], StoredIn(q))'
    <3>1. PICK b \in Bijection(Filled(nodes[q]), StoredIn(q)) :
            \A i \in Filled(nodes[q]) : nodes[q][i] = Emitted(b[i])
      BY <2>1 DEF NodesOf, Holds
    <3>2. Filled(nodes[q])' = Filled(nodes[q])
      BY <2>1 DEF Filled, Garbage
    <3>3. \A x : Emitted(x)' = Emitted(x)
      BY <1>2 DEF Emitted
    <3> QED BY <1>3, <2>1, <3>1, <3>2, <3>3 DEF Holds
  <2>4. \A n \in Mappers : \A i : ~Fills(n, q, i)'
    BY <1>6, <1>7
  <2>5. \A n \in Mappers : Fills(n, q, slot[n])' => slot'[n] \in DOMAIN nodes'[q]
    BY <2>4
  <2> QED BY <2>1, <2>2, <2>3, <2>4, <2>5 DEF NodesOf
<1>8. NodesOf(p)'
  <2>s. PICK s : s = nodes[p]
    OBVIOUS
  <2>t. PICK t : t = Append(s, Garbage)
    OBVIOUS
  <2>1. nodes'[p] = t /\ count'[p] = count[p] + 1 /\ NodesOf(p)
    BY <1>1, <1>4, <2>s, <2>t
  <2>2. s \in Seq(Pairs \cup {Garbage}) /\ Len(s) = count[p] /\ count[p] \in Nat
    BY <1>1, <1>4, <2>1, <2>s DEF NodesOf
  <2>3. DOMAIN s = 1 .. count[p] /\ \A i \in DOMAIN s : s[i] # Garbage
    BY <1>1, <2>1, <2>2, <2>s, LenProperties DEF NodesOf, Fills
  <2>4. /\ t \in Seq(Pairs \cup {Garbage}) /\ Len(t) = count[p] + 1
        /\ DOMAIN t = 1 .. count[p] + 1
        /\ \A i \in 1 .. count[p] : t[i] = s[i]
        /\ t[count[p] + 1] = Garbage
    BY <2>2, <2>t, AppendProperties, LenProperties
  <2>5. Filled(t) = Filled(s) /\ \A i \in Filled(s) : t[i] = s[i]
    BY <2>2, <2>3, <2>4 DEF Filled
  <2>6. Holds(nodes[p], StoredIn(p))'
    <3>1. PICK b \in Bijection(Filled(s), StoredIn(p)) : \A i \in Filled(s) : s[i] = Emitted(b[i])
      BY <2>1, <2>s DEF NodesOf, Holds
    <3>2. \A x : Emitted(x)' = Emitted(x)
      BY <1>2 DEF Emitted
    <3>3. b \in Bijection(Filled(t), StoredIn(p)') /\ \A i \in Filled(t) : t[i] = Emitted(b[i])'
      BY <1>1, <1>3, <2>5, <3>1, <3>2
    <3>4. Filled(nodes[p])' = Filled(t)
      BY <2>1 DEF Filled, Garbage
    <3> QED BY <2>1, <3>3, <3>4 DEF Holds
  <2>7. \A i \in DOMAIN t : t[i] = Garbage <=> i = count[p] + 1
    BY <2>2, <2>3, <2>4
  <2>8. \A i \in DOMAIN t : t[i] = Garbage <=> \E n \in Mappers : Fills(n, p, i)'
    BY <1>1, <1>6, <2>7
  <2>9. \A n \in Mappers : Fills(n, p, slot[n])' => slot'[n] \in DOMAIN t
    <3>1. count[p] + 1 \in DOMAIN t
      BY <2>2, <2>4
    <3>2. \A n \in Mappers : Fills(n, p, slot[n])' => slot'[n] = count[p] + 1
      BY <1>1, <1>6
    <3> QED BY <3>1, <3>2
  <2> QED BY <2>1, <2>2, <2>4, <2>6, <2>8, <2>9 DEF NodesOf
<1> QED BY <1>3, <1>7, <1>8 DEF NodesInv

\* Storing a pair moves one emission to the partitions.
LEMMA StoreStored ==
  ASSUME MapReduceAssumption, IInv, NEW m \in Mappers, Store(m)
  PROVE  LET e == <<file[m], emitted[m] + 1>> IN
           e \in Emissions /\ e \notin Stored /\ Stored' = Stored \cup {e}
<1> DEFINE e == <<file[m], emitted[m] + 1>>
<1> USE DEF Store, MGoto
<1>1. e \in Emissions /\ Emissions' = Emissions
  BY EmittingIs DEF IInv, Typed, Emissions
<1>2. /\ file[m] # 0 /\ file[m] <= filesDone /\ emitted[m] \in Nat
      /\ \A n \in Mappers : file[n] = file[m] => n = m
      /\ emitted' = [emitted EXCEPT ![m] = emitted[m] + 1] /\ emitted \in [Mappers -> Nat]
      /\ UNCHANGED <<filesDone, file>>
  BY DEF IInv, FileInv, FileOf, Working, Typed, TypeOK
<1> HIDE DEF Store
<1>3. e \notin Stored
  BY <1>2 DEF Stored
<1>4. ASSUME NEW d \in Emissions PROVE d \in Stored' <=> d \in Stored \/ d = e
  <2>0. d = <<d[1], d[2]>> /\ d[2] \in Nat
    BY EmissionsAre, Input DEF IInv, Typed
  <2>1. CASE d[1] = file[m]
    <3>1. d \in Stored <=> d[2] <= emitted[m]
      BY <1>2, <2>1 DEF Stored
    <3>2. d \in Stored' <=> d[2] <= emitted[m] + 1
      BY <1>1, <1>2, <2>1 DEF Stored
    <3>3. d = e <=> d[2] = emitted[m] + 1
      BY <2>0, <2>1
    <3> QED BY <1>2, <2>0, <3>1, <3>2, <3>3
  <2>2. CASE d[1] # file[m]
    <3>1. d # e
      BY <2>0, <2>2
    <3>2. \A n \in Mappers : file[n] = d[1] => emitted'[n] = emitted[n]
      BY <1>2, <2>2
    <3> QED BY <1>1, <1>2, <3>1, <3>2 DEF Stored
  <2> QED BY <2>1, <2>2
<1>5. Stored \subseteq Emissions /\ Stored' \subseteq Emissions
  BY <1>1 DEF Stored
<1> QED BY <1>1, <1>3, <1>4, <1>5

LEMMA StoreNodes ==
  ASSUME MapReduceAssumption, IInv, NEW m \in Mappers, Store(m)
  PROVE  NodesInv'
<1> USE DEF Store, MGoto
<1>p. PICK p \in Partitions : p = Partitioner[Emitting(m).key]
  BY EmittingIs DEF IInv, Typed
<1>e. PICK e : e = <<file[m], emitted[m] + 1>>
  OBVIOUS
<1>x. PICK x : x = Emitting(m)
  OBVIOUS
<1>1. /\ p \in Partitions /\ main # "done" /\ x \in Pairs /\ x # Garbage
      /\ Emitted(e) = x
      /\ \A n \in Mappers : n # m => mpc[n] # "store"
      /\ \A n \in Mappers : mpc'[n] # "store"
      /\ \A q \in Partitions : NodesOf(q)
  <2>1. p \in Partitions /\ x \in Pairs /\ x # Garbage /\ Emitted(e) = x
    BY EmittingIs, <1>p, <1>e, <1>x DEF IInv, Typed
  <2>2. main # "done"
    BY MapperRuns
  <2>3. \A n \in Mappers : n # m => mpc[n] # "store"
    BY Alone DEF IInv
  <2>4. \A n \in Mappers : mpc'[n] # "store"
    BY <2>3 DEF IInv, Typed, TypeOK
  <2> QED BY <2>1, <2>2, <2>3, <2>4 DEF IInv, NodesInv
<1>2. e \in Emissions /\ e \notin Stored /\ Stored' = Stored \cup {e}
  BY StoreStored, <1>e
<1>3. \A d : Emitted(d)' = Emitted(d)
  BY DEF Emitted
<1>4. /\ nodes' = [nodes EXCEPT ![p] = [nodes[p] EXCEPT ![slot[m]] = x]]
      /\ DOMAIN nodes = Partitions /\ UNCHANGED count
      /\ \A q \in Partitions : nodes[q] \in Seq(Pairs \cup {Garbage}) /\ count[q] \in Nat
  <2>1. nodes' = [nodes EXCEPT ![p][slot[m]] = x]
    BY <1>p, <1>x
  <2>2. DOMAIN nodes = Partitions
        /\ \A q \in Partitions : nodes[q] \in Seq(Pairs \cup {Garbage}) /\ count[q] \in Nat
    BY DEF IInv, Typed, TypeOK
  <2>3. UNCHANGED count
    OBVIOUS
  <2> HIDE DEF Store
  <2> QED BY <2>1, <2>2, <2>3
<1>5. mpc[m] = "store"
  OBVIOUS
<1>6. Partitioner[Emitted(e).key] = p
  BY <1>1, <1>p, <1>x
<1>7. \A n \in Mappers, q \in Partitions : \A i :
        Fills(n, q, i) <=> n = m /\ q = p /\ i = slot[m]
  BY <1>1, <1>5, <1>p DEF Fills
<1> HIDE DEF Store
<1>8. \A n \in Mappers, q \in Partitions : \A i : ~Fills(n, q, i)'
  BY <1>1 DEF Fills
<1>9. ASSUME NEW q \in Partitions, q # p PROVE NodesOf(q)'
  <2>1. nodes'[q] = nodes[q] /\ count'[q] = count[q] /\ NodesOf(q)
    BY <1>1, <1>4, <1>9
  <2>2. \A i \in DOMAIN nodes[q] : nodes[q][i] # Garbage
    BY <1>7, <1>9, <2>1 DEF NodesOf
  <2>3. StoredIn(q)' = StoredIn(q)
    BY <1>2, <1>3, <1>6, <1>9 DEF StoredIn
  <2>4. Holds(nodes[q], StoredIn(q))'
    BY <1>3, <2>1, <2>3 DEF NodesOf, Holds, Filled
  <2>5. \A n \in Mappers : Fills(n, q, slot[n])' => slot'[n] \in DOMAIN nodes'[q]
    BY <1>8
  <2> QED BY <1>8, <2>1, <2>2, <2>4, <2>5 DEF NodesOf
<1>10. NodesOf(p)'
  <2>s. PICK s : s = nodes[p]
    OBVIOUS
  <2>k. PICK k : k = slot[m]
    OBVIOUS
  <2>t. PICK t : t = [s EXCEPT ![k] = x]
    OBVIOUS
  <2>1. nodes'[p] = t /\ count'[p] = count[p] /\ NodesOf(p) /\ s \in Seq(Pairs \cup {Garbage})
    BY <1>1, <1>4, <2>s, <2>k, <2>t
  <2>2. k \in DOMAIN s /\ \A i \in DOMAIN s : s[i] = Garbage <=> i = k
    BY <1>1, <1>7, <2>1, <2>s, <2>k DEF NodesOf
  <2>3. /\ Len(t) = Len(s) /\ DOMAIN t = DOMAIN s
        /\ \A i \in DOMAIN s : t[i] = IF i = k THEN x ELSE s[i]
    BY <1>1, <2>1, <2>2, <2>t, WithOne
  <2>4. Filled(t) = Filled(s) \cup {k} /\ k \notin Filled(s)
    BY <1>1, <2>2, <2>3 DEF Filled
  <2>5. StoredIn(p)' = StoredIn(p) \cup {e} /\ e \notin StoredIn(p)
    BY <1>2, <1>3, <1>6 DEF StoredIn
  <2>6. PICK b \in Bijection(Filled(s), StoredIn(p)) : \A i \in Filled(s) : s[i] = Emitted(b[i])
    BY <2>1, <2>s DEF NodesOf, Holds
  <2> DEFINE c == [i \in Filled(s) \cup {k} |-> IF i = k THEN e ELSE b[i]]
  <2>7. c \in Bijection(Filled(t), StoredIn(p)')
    BY <2>4, <2>5, OneMore
  <2>8. \A i \in Filled(t) : t[i] = Emitted(c[i])
    BY <1>1, <2>2, <2>3, <2>4, <2>6 DEF Filled
  <2> HIDE DEF c
  <2>9. Holds(nodes[p], StoredIn(p))'
    <3>1. Filled(nodes[p])' = Filled(t)
      BY <2>1 DEF Filled, Garbage
    <3> QED BY <1>3, <2>1, <2>7, <2>8, <3>1 DEF Holds
  <2>10. \A i \in DOMAIN t : t[i] # Garbage
    BY <1>1, <2>2, <2>3
  <2>11. \A n \in Mappers : Fills(n, p, slot[n])' => slot'[n] \in DOMAIN nodes'[p]
    BY <1>1, <1>8
  <2> QED BY <1>1, <1>8, <2>1, <2>3, <2>9, <2>10, <2>11, <2>s DEF NodesOf
<1> QED BY <1>9, <1>10 DEF NodesInv

LEMMA SortNodes ==
  ASSUME MapReduceAssumption, IInv, NEW p \in Partitions, Sort(p)
  PROVE  NodesInv' /\ Stored' = Stored
<1> USE DEF Sort, RGoto, mvars
<1>1. /\ main = "reducing" /\ main' = main
      /\ \A m \in Mappers : mpc[m] # "store"
      /\ \A q \in Partitions : NodesOf(q)
  <2>1. main = "reducing"
    BY ReducerRuns
  <2> QED BY <2>1 DEF IInv, PhaseInv, NodesInv
<1>2. UNCHANGED <<emits, count, mpc, slot, file, emitted, filesDone>>
  OBVIOUS
<1>3. Stored' = Stored /\ \A q \in Partitions : StoredIn(q)' = StoredIn(q)
  BY <1>2 DEF Stored, Emissions, StoredIn, Emitted
<1>4. \A x : Emitted(x)' = Emitted(x)
  BY <1>2 DEF Emitted
<1>5. PICK t \in Sorted(nodes[p]) : nodes' = [nodes EXCEPT ![p] = t]
  OBVIOUS
<1>6. nodes \in [Partitions -> Seq(Pairs \cup {Garbage})]
  BY DEF IInv, Typed, TypeOK
<1> HIDE DEF Sort
<1>7. \A m \in Mappers, q \in Partitions : \A i : ~Fills(m, q, i) /\ ~Fills(m, q, i)'
  BY <1>1, <1>2 DEF Fills
<1>8. ASSUME NEW q \in Partitions, q # p PROVE NodesOf(q)'
  <2>1. nodes'[q] = nodes[q] /\ NodesOf(q)
    BY <1>1, <1>5, <1>6, <1>8
  <2>2. PICK b \in Bijection(Filled(nodes[q]), StoredIn(q)) :
          \A i \in Filled(nodes[q]) : nodes[q][i] = Emitted(b[i])
    BY <2>1 DEF NodesOf, Holds
  <2>3. Filled(nodes[q])' = Filled(nodes[q])
    BY <2>1 DEF Filled, Garbage
  <2>4. Holds(nodes[q], StoredIn(q))'
    BY <1>3, <1>4, <2>1, <2>2, <2>3 DEF Holds
  <2>5. \A m \in Mappers : Fills(m, q, slot[m])' => slot'[m] \in DOMAIN nodes'[q]
    BY <1>2, <1>7
  <2> QED BY <1>2, <1>7, <2>1, <2>4, <2>5 DEF NodesOf
<1>9. NodesOf(p)'
  <2>s. PICK s : s = nodes[p]
    OBVIOUS
  <2>1. nodes'[p] = t /\ s \in Seq(Pairs \cup {Garbage}) /\ t \in Sorted(s)
    BY <1>5, <1>6, <2>s
  <2>2. Filled(s) = DOMAIN s /\ Holds(s, StoredIn(p)) /\ Len(s) = count[p]
        /\ \A i \in DOMAIN s : s[i] # Garbage
    BY <1>1, <1>7, <2>s DEF NodesOf, Filled
  <2>3. /\ Len(t) = Len(s) /\ DOMAIN t = DOMAIN s
        /\ \E q \in Bijection(DOMAIN s, DOMAIN s) : \A i \in DOMAIN s : t[i] = s[q[i]]
    BY <2>1, SortedIs
  <2>4. PICK q \in Bijection(DOMAIN s, DOMAIN s) : \A i \in DOMAIN s : t[i] = s[q[i]]
    BY <2>3
  <2>5. PICK b \in Bijection(DOMAIN s, StoredIn(p)) : \A i \in DOMAIN s : s[i] = Emitted(b[i])
    BY <2>2 DEF Holds
  <2>6. \A i \in DOMAIN s : q[i] \in DOMAIN s
    BY BijectionIs
  <2>c. PICK c : c = [i \in DOMAIN s |-> b[q[i]]]
    OBVIOUS
  <2>7. c \in Bijection(DOMAIN s, StoredIn(p))
    BY <2>c, Fun_BijTransitive
  <2>8. Filled(t) = DOMAIN s /\ \A i \in DOMAIN s : t[i] # Garbage
    <3>1. \A i \in DOMAIN s : t[i] # Garbage
      <4> SUFFICES ASSUME NEW i \in DOMAIN s PROVE t[i] # Garbage
        OBVIOUS
      <4>1. t[i] = s[q[i]] /\ q[i] \in DOMAIN s
        BY <2>4, <2>6
      <4> QED BY <4>1, <2>2
    <3> QED BY <2>3, <3>1 DEF Filled
  <2>9. \A i \in DOMAIN s : t[i] = Emitted(c[i])
    BY <2>4, <2>5, <2>6, <2>c
  <2>10. Filled(nodes[p])' = DOMAIN s
    BY <2>1, <2>8 DEF Filled, Garbage
  <2>11. Holds(nodes[p], StoredIn(p))'
    BY <1>3, <1>4, <2>1, <2>7, <2>9, <2>10 DEF Holds
  <2>12. \A m \in Mappers : Fills(m, p, slot[m])' => slot'[m] \in DOMAIN nodes'[p]
    BY <1>2, <1>7
  <2> QED BY <1>2, <1>7, <2>1, <2>2, <2>3, <2>8, <2>11, <2>12 DEF NodesOf
<1> QED BY <1>3, <1>8, <1>9 DEF NodesInv

LEMMA OtherNodes ==
  ASSUME MapReduceAssumption, IInv,
         \/ StartMappers \/ StartReducers \/ JoinReducers \/ Free
         \/ \E p \in Partitions : CallReducer(p) \/ EndReducer(p) \/ GetValue(p) \/ GetNull(p)
  PROVE  NodesInv' /\ Stored' = Stored
<1>1. UNCHANGED <<emits, filesDone, file, emitted, count, slot>>
  BY DEF StartMappers, StartReducers, JoinReducers, Free, CallReducer, EndReducer, GetValue,
         GetNull, shared, mvars
<1>2. Stored' = Stored
  BY <1>1 DEF Stored, Emissions
<1>3. CASE Free
  BY <1>2, <1>3 DEF Free, NodesInv
<1>4. CASE ~Free
  <2>1. UNCHANGED nodes
    BY <1>4 DEF StartMappers, StartReducers, JoinReducers, CallReducer, EndReducer, GetValue,
           GetNull, shared
  <2>2. main # "done"
    <3>1. ASSUME NEW p \in Partitions, CallReducer(p) \/ EndReducer(p) \/ GetValue(p) \/ GetNull(p)
          PROVE  main # "done"
      BY <3>1, ReducerRuns DEF CallReducer, EndReducer, GetValue, GetNull
    <3> QED BY <1>4, <3>1 DEF StartMappers, StartReducers, JoinReducers
  <2>3. \A m \in Mappers : mpc'[m] = "store" <=> mpc[m] = "store"
    <3>1. CASE StartMappers
      BY <3>1 DEF StartMappers, IInv, PhaseInv
    <3>2. CASE ~StartMappers
      BY <1>4, <3>2 DEF StartReducers, JoinReducers, CallReducer, EndReducer, GetValue, GetNull, mvars
    <3> QED BY <3>1, <3>2
  <2>4. \A m \in Mappers : Emitting(m)' = Emitting(m)
    BY <1>1 DEF Emitting
  <2> QED BY <1>1, <1>2, <2>1, <2>2, <2>3, <2>4, NodesSame DEF IInv
<1> QED BY <1>3, <1>4

-----------------------------------------------------------------------------
(* The parts of MR_Run                                                     *)

LEMMA MapperIs ==
  ASSUME IInv, NEW m \in Mappers, MapStep(m)
  PROVE  /\ main = "mapping" /\ UNCHANGED <<emits, main, rvars>> /\ m \in Started
         /\ \A n \in Mappers \ {m} : mpc'[n] = mpc[n]
<1>1. mpc[m] \notin {"off", "done"}
  BY DEF MapStep, AskFile, NoFileLeft, LookFile, TakeFile, EndFile, Emit, Grow, Store
<1>2. main = "mapping" /\ m \in Started
  BY <1>1, MapperRuns DEF IInv, PhaseInv
<1>3. UNCHANGED <<emits, main, rvars>>
  BY DEF MapStep, AskFile, NoFileLeft, LookFile, TakeFile, EndFile, Emit, Grow, Store, shared
<1>4. \A n \in Mappers \ {m} : mpc'[n] = mpc[n]
  BY DEF IInv, Typed, TypeOK, MapStep, AskFile, NoFileLeft, LookFile, TakeFile, EndFile, Emit,
         Grow, Store, MGoto
<1> QED BY <1>2, <1>3, <1>4

LEMMA MapperPhase ==
  ASSUME IInv, NEW m \in Mappers, MapStep(m)
  PROVE  PhaseInv' /\ WalkInv' /\ Grouped'
<1>1. /\ main = "mapping" /\ UNCHANGED <<emits, main, rpc, calls>> /\ m \in Started
      /\ \A n \in Mappers \ {m} : mpc'[n] = mpc[n]
  BY MapperIs DEF rvars
<1>2. PhaseInv'
  BY <1>1 DEF IInv, PhaseInv, Started
<1> QED BY <1>1, <1>2 DEF WalkInv, Grouped

LEMMA AllStored ==
  ASSUME MapReduceAssumption, IInv, main = "mapping", MappersJoined
  PROVE  Stored = Emissions /\ \A m \in Mappers : mpc[m] \in {"off", "done"}
<1>1. \A m \in Mappers : mpc[m] \in {"off", "done"} /\ (m \in Started => mpc[m] = "done")
  BY DEF IInv, PhaseInv, MappersJoined
<1>2. filesDone = Len(emits)
  <2>1. Len(emits) \in Nat /\ filesDone \in 0 .. Len(emits) /\ 1 \in Mappers
    BY Input DEF IInv, Typed, TypeOK, Mappers, MapReduceAssumption
  <2>2. CASE 1 \in Started
    BY <1>1, <2>1, <2>2 DEF IInv, FileInv, FileOf
  <2>3. CASE 1 \notin Started
    BY <2>1, <2>3 DEF Started
  <2> QED BY <2>2, <2>3
<1>3. ASSUME NEW e \in Emissions PROVE e \in Stored
  <2>1. e[1] \in 1 .. Len(emits) /\ e[2] \in 1 .. Len(emits[e[1]]) /\ Len(emits) \in Nat
    BY EmissionsAre, Input DEF IInv, Typed
  <2>2. ASSUME NEW m \in Mappers, file[m] = e[1] PROVE e[2] <= emitted[m]
    <3>1. FileOf(m) /\ file[m] # 0
      BY <2>1, <2>2 DEF IInv, FileInv
    <3>2. emitted[m] = Len(emits[file[m]])
      BY <1>1, <3>1 DEF FileOf
    <3> QED BY <2>1, <2>2, <3>2
  <2> QED BY <1>2, <2>1, <2>2 DEF Stored
<1> QED BY <1>1, <1>3 DEF Stored

LEMMA StartPhase ==
  ASSUME IInv, StartMappers
  PROVE  PhaseInv' /\ WalkInv' /\ Grouped'
<1>1. /\ main = "start" /\ main' = "mapping" /\ UNCHANGED <<rpc, calls, emits>>
      /\ mpc' = [m \in Mappers |-> IF m \in Started THEN "ask" ELSE "off"]
  BY DEF StartMappers, rvars
<1>2. \A p \in Partitions : rpc[p] = "off" /\ calls[p] = <<>>
  BY <1>1 DEF IInv, PhaseInv
<1>3. PhaseInv'
  BY <1>1, <1>2 DEF PhaseInv, Started
<1> QED BY <1>1, <1>3 DEF WalkInv, Grouped

LEMMA ReducersPhase ==
  ASSUME MapReduceAssumption, IInv, StartReducers
  PROVE  PhaseInv' /\ WalkInv' /\ Grouped'
<1>1. /\ main = "mapping" /\ main' = "reducing" /\ UNCHANGED <<mpc, calls, emits>>
      /\ rpc' = [p \in Partitions |-> "sort"] /\ MappersJoined
  BY DEF StartReducers, mvars
<1>2. Stored' = Emissions' /\ \A m \in Mappers : mpc[m] \in {"off", "done"}
  <2>1. Stored = Emissions /\ \A m \in Mappers : mpc[m] \in {"off", "done"}
    BY <1>1, AllStored
  <2> QED BY <1>1, <2>1, OtherNodes DEF Emissions
<1>3. \A p \in Partitions : calls[p] = <<>>
  BY <1>1 DEF IInv, PhaseInv
<1>4. \A m \in Mappers : m \notin Started => mpc[m] = "off"
  BY DEF IInv, PhaseInv
<1>5. PhaseInv'
  BY <1>1, <1>2, <1>3, <1>4 DEF PhaseInv, Started
<1>6. WalkInv'
  BY <1>1 DEF WalkInv
<1> QED BY <1>1, <1>5, <1>6 DEF Grouped

LEMMA ReducerIs ==
  ASSUME MapReduceAssumption, IInv, NEW p \in Partitions, ReduceStep(p)
  PROVE  /\ main = "reducing" /\ UNCHANGED <<emits, main, mpc, count>> /\ Stored' = Emissions'
         /\ rpc'[p] # "sort" /\ access' \in [Partitions -> Nat]
         /\ \A q \in Partitions \ {p} :
              /\ rpc'[q] = rpc[q] /\ calls'[q] = calls[q] /\ nodes'[q] = nodes[q]
              /\ access'[q] = access[q] /\ key'[q] = key[q]
<1>1. main = "reducing"
  BY ReducerRuns DEF ReduceStep, Sort, CallReducer, EndReducer, GetValue, GetNull
<1>2. UNCHANGED <<emits, main, mpc, count>>
  BY DEF ReduceStep, Sort, CallReducer, EndReducer, GetValue, GetNull, mvars, shared
<1>3. Stored' = Emissions'
  <2>1. Stored = Emissions
    BY <1>1 DEF IInv, PhaseInv
  <2>2. Stored' = Stored
    BY SortNodes, OtherNodes DEF ReduceStep
  <2> QED BY <1>2, <2>1, <2>2 DEF Emissions
<1>4. rpc'[p] # "sort"
  BY DEF IInv, Typed, TypeOK, ReduceStep, Sort, CallReducer, EndReducer, GetValue, GetNull, RGoto
<1>5. \A q \in Partitions \ {p} : rpc'[q] = rpc[q] /\ key'[q] = key[q]
  BY DEF IInv, Typed, TypeOK, ReduceStep, Sort, CallReducer, EndReducer, GetValue, GetNull, RGoto
<1>6. \A q \in Partitions \ {p} : access'[q] = access[q]
  BY DEF IInv, Typed, TypeOK, ReduceStep, Sort, CallReducer, EndReducer, GetValue, GetNull
<1>7. \A q \in Partitions \ {p} : nodes'[q] = nodes[q]
  BY DEF IInv, Typed, TypeOK, ReduceStep, Sort, CallReducer, EndReducer, GetValue, GetNull, shared
<1>8. \A q \in Partitions \ {p} : calls'[q] = calls[q]
  BY GetValueIs DEF IInv, Typed, CallsOK, ReduceStep, Sort, CallReducer, EndReducer, GetValue, GetNull
<1>9. access' \in [Partitions -> Nat]
  <2>1. Files'
    BY SortFiles, CallReducerFiles, GetValueFiles, OtherFiles DEF ReduceStep
  <2> QED BY <2>1 DEF Files, Typed, TypeOK
<1> QED BY <1>1, <1>2, <1>3, <1>4, <1>5, <1>6, <1>7, <1>8, <1>9

LEMMA ReducerPhase ==
  ASSUME MapReduceAssumption, IInv, NEW p \in Partitions, ReduceStep(p)
  PROVE  PhaseInv' /\ Grouped'
<1>1. /\ main = "reducing" /\ UNCHANGED <<emits, main, mpc>> /\ Stored' = Emissions'
      /\ rpc'[p] # "sort"
      /\ \A q \in Partitions \ {p} : rpc'[q] = rpc[q] /\ calls'[q] = calls[q]
  BY ReducerIs
<1>2. PhaseInv'
  <2>1. /\ \A m \in Mappers : m \notin Started => mpc[m] = "off"
        /\ \A m \in Mappers : mpc[m] \in {"off", "done"}
        /\ \A q \in Partitions : rpc[q] = "sort" => calls[q] = <<>>
    BY <1>1 DEF IInv, PhaseInv
  <2> QED BY <1>1, <2>1 DEF PhaseInv, Started
<1> QED BY <1>1, <1>2 DEF Grouped

LEMMA WalkSame ==
  ASSUME NEW p \in Partitions, WalkOf(p), rpc'[p] = rpc[p], calls'[p] = calls[p],
         nodes'[p] = nodes[p], access'[p] = access[p], key'[p] = key[p], count'[p] = count[p]
  PROVE  WalkOf(p)'
<1>1. \A c \in DOMAIN calls[p] : AreGiven(p, c) => AreGiven(p, c)'
  BY DEF AreGiven, Given
<1>2. \A c \in DOMAIN calls[p] : KeysAhead(p, c) => KeysAhead(p, c)'
  BY DEF KeysAhead
<1>3. Ordered(nodes[p])'
  BY DEF WalkOf, Ordered
<1> QED BY <1>1, <1>2, <1>3 DEF WalkOf

LEMMA SortWalk ==
  ASSUME MapReduceAssumption, IInv, NEW p \in Partitions, Sort(p)
  PROVE  WalkOf(p)'
<1>1. PICK t \in Sorted(nodes[p]) : nodes' = [nodes EXCEPT ![p] = t]
  BY DEF Sort
<1>2. /\ nodes'[p] = t /\ access'[p] = 0 /\ rpc'[p] = "loop" /\ calls'[p] = calls[p]
  BY <1>1 DEF IInv, Typed, TypeOK, Sort, RGoto
<1>3. calls[p] = <<>>
  BY ReducerRuns DEF Sort, IInv, PhaseInv
<1>4. Ordered(t)
  BY DEF Sorted
<1>5. DOMAIN calls'[p] = {}
  BY <1>2, <1>3
<1> QED BY <1>2, <1>4, <1>5 DEF WalkOf, Ordered

LEMMA CallsAre ==
  ASSUME IInv, NEW p \in Partitions
  PROVE  /\ calls[p] \in Seq(Calls) /\ Len(calls[p]) \in Nat
         /\ DOMAIN calls[p] = 1 .. Len(calls[p])
         /\ \A c \in DOMAIN calls[p] : /\ calls[p][c] \in Calls /\ calls[p][c].key \in Keys
                                       /\ calls[p][c].values \in Seq(Values)
<1>1. calls[p] \in Seq(Calls)
  BY DEF IInv, Typed, CallsOK
<1>2. \A x \in Calls : x.key \in Keys /\ x.values \in Seq(Values)
  BY DEF Calls
<1> QED BY <1>1, <1>2, LenProperties, ElementOfSeq

LEMMA NodeKeys ==
  ASSUME MapReduceAssumption, IInv, NEW p \in Partitions, main = "reducing"
  PROVE  /\ access[p] \in Nat /\ count[p] \in Nat /\ DOMAIN nodes[p] = 1 .. count[p]
         /\ \A i \in DOMAIN nodes[p] : i \in Nat /\ nodes[p][i].key \in Nat
<1>1. \A k \in Keys : k \in Nat
  BY DEF MapReduceAssumption
<1>2. /\ access[p] \in Nat /\ count[p] \in Nat /\ DOMAIN nodes[p] = 1 .. count[p]
      /\ \A i \in 1 .. count[p] : nodes[p][i].key \in Keys
  BY WhileReducing
<1>3. ASSUME NEW i \in 1 .. count[p] PROVE i \in Nat /\ nodes[p][i].key \in Nat
  <2>1. nodes[p][i].key \in Keys
    BY <1>2
  <2>2. i \in Nat
    BY <1>2
  <2> QED BY <1>1, <2>1, <2>2
<1> QED BY <1>2, <1>3

LEMMA GivenSame ==
  ASSUME NEW p \in Partitions, NEW c, AreGiven(p, c),
         calls'[p][c] = calls[p][c], nodes'[p] = nodes[p], access'[p] = access[p]
  PROVE  AreGiven(p, c)'
BY DEF AreGiven, Given

LEMMA CallReducerWalk ==
  ASSUME MapReduceAssumption, IInv, NEW p \in Partitions, CallReducer(p)
  PROVE  WalkOf(p)'
<1>1. main = "reducing" /\ WalkOf(p)
  BY ReducerRuns DEF CallReducer, IInv, WalkInv
<1>n. PICK n : n = Len(calls[p])
  OBVIOUS
<1>a. PICK a : a = access[p] + 1
  OBVIOUS
<1>k. PICK k : k = nodes[p][a].key
  OBVIOUS
<1>2. /\ a \in DOMAIN nodes[p] /\ access[p] \in Nat /\ DOMAIN nodes[p] = 1 .. count[p]
      /\ count[p] \in Nat
      /\ \A i \in DOMAIN nodes[p] : nodes[p][i].key \in Nat
  <2>1. access[p] < count[p]
    BY DEF CallReducer
  <2> QED BY <1>1, <1>a, <2>1, NodeKeys
<1>3. /\ calls[p] \in Seq(Calls) /\ n \in Nat /\ DOMAIN calls[p] = 1 .. n
      /\ \A c \in DOMAIN calls[p] : calls[p][c].key \in Nat
  BY <1>n, CallsAre DEF MapReduceAssumption
<1>4. /\ rpc[p] = "loop" /\ rpc'[p] = "reduce" /\ nodes' = nodes /\ access' = access
      /\ count' = count /\ key'[p] = k
      /\ calls'[p] = Append(calls[p], [key |-> k, values |-> <<>>])
  BY <1>a, <1>k DEF CallReducer, RGoto, shared, IInv, Typed, TypeOK, CallsOK
<1>d. PICK d : d = calls'[p]
  OBVIOUS
<1>5. /\ DOMAIN d = 1 .. n + 1 /\ Len(d) = n + 1 /\ d # <<>>
      /\ \A c \in 1 .. n : d[c] = calls[p][c]
      /\ d[n + 1].key = k /\ d[n + 1].values = <<>>
  <2>1. k \in Keys
    BY <1>1, <1>2, <1>k, WhileReducing
  <2>2. [key |-> k, values |-> <<>>] \in Calls
    BY <2>1 DEF Calls
  <2>3. d = Append(calls[p], [key |-> k, values |-> <<>>])
    BY <1>4, <1>d
  <2>4. /\ d \in Seq(Calls) /\ d # <<>> /\ Len(d) = n + 1 /\ \A c \in 1 .. n : d[c] = calls[p][c]
        /\ d[n + 1] = [key |-> k, values |-> <<>>]
    BY <1>3, <1>n, <2>2, <2>3, AppendProperties
  <2> QED BY <2>4, LenProperties
<1>6. \A c \in 1 .. n : d[c].key < k
  <2> SUFFICES ASSUME NEW c \in 1 .. n PROVE d[c].key < k
    OBVIOUS
  <2>1. KeysAhead(p, c) /\ a > access[p]
    BY <1>1, <1>2, <1>3, <1>a DEF WalkOf
  <2>2. calls[p][c].key < nodes[p][a].key
    BY <1>2, <1>4, <2>1 DEF KeysAhead
  <2> QED BY <1>5, <1>k, <2>2
<1>7. \A c, e \in DOMAIN d : c < e => d[c].key < d[e].key
  <2> SUFFICES ASSUME NEW c \in 1 .. n + 1, NEW e \in 1 .. n + 1, c < e
      PROVE  d[c].key < d[e].key
    BY <1>5
  <2>1. c \in 1 .. n
    BY <1>3
  <2>2. CASE e = n + 1
    BY <1>5, <1>6, <2>1, <2>2
  <2>3. CASE e \in 1 .. n
    BY <1>1, <1>3, <1>5, <2>1, <2>3 DEF WalkOf
  <2> QED BY <1>3, <2>2, <2>3
<1>8. ASSUME NEW c \in DOMAIN d PROVE AreGiven(p, c)'
  <2>1. CASE c \in 1 .. n
    <3>1. AreGiven(p, c)
      BY <1>1, <1>3, <2>1 DEF WalkOf
    <3> QED BY <1>4, <1>5, <1>d, <2>1, <3>1, GivenSame
  <2>2. CASE c = n + 1
    <3>1. \A i \in 1 .. access[p] : nodes[p][i].key # k
      <4> SUFFICES ASSUME NEW i \in 1 .. access[p] PROVE nodes[p][i].key # k
        OBVIOUS
      <4>1. PICK e \in DOMAIN calls[p] : calls[p][e].key = nodes[p][i].key
        BY <1>1 DEF WalkOf
      <4>2. d[e].key < k /\ d[e].key = nodes[p][i].key /\ d[e].key \in Nat
        BY <1>3, <1>5, <1>6, <4>1
      <4> QED BY <4>2
    <3>2. Given(p, k)' = {}
      BY <1>4, <3>1 DEF Given
    <3>3. DOMAIN d[c].values = {}
      BY <1>5, <2>2
    <3>4. Given(p, calls[p][c].key)' = {}
      BY <1>5, <1>d, <2>2, <3>2
    <3> QED BY <1>d, <3>3, <3>4, EmptyBijection DEF AreGiven
  <2> QED BY <1>3, <1>5, <2>1, <2>2
<1>9. ASSUME NEW c \in DOMAIN d PROVE KeysAhead(p, c)'
  <2> SUFFICES ASSUME NEW i \in DOMAIN nodes[p], i > access[p]
      PROVE  IF c = n + 1 THEN d[c].key <= nodes[p][i].key ELSE d[c].key < nodes[p][i].key
    BY <1>4, <1>5, <1>d DEF KeysAhead
  <2>1. CASE c \in 1 .. n
    <3>1. c # n + 1 /\ calls[p][c].key < nodes[p][i].key
      BY <1>1, <1>3, <1>4, <2>1 DEF WalkOf, KeysAhead
    <3> QED BY <1>5, <2>1, <3>1
  <2>2. CASE c = n + 1
    <3>1. k <= nodes[p][i].key
      BY <1>1, <1>2, <1>a, <1>k DEF WalkOf, Ordered
    <3> QED BY <1>5, <2>2, <3>1
  <2> QED BY <1>3, <1>5, <2>1, <2>2
<1>10. ASSUME NEW c \in DOMAIN d PROVE \E i \in DOMAIN nodes[p] : nodes[p][i].key = d[c].key
  <2>1. CASE c \in 1 .. n
    BY <1>1, <1>3, <1>5, <2>1 DEF WalkOf
  <2>2. CASE c = n + 1
    BY <1>2, <1>5, <1>k, <2>2
  <2> QED BY <1>3, <1>5, <2>1, <2>2
<1>11. \A i \in 1 .. access[p] : \E c \in DOMAIN d : d[c].key = nodes[p][i].key
  BY <1>1, <1>3, <1>5 DEF WalkOf
<1>12. Ordered(nodes[p])'
  BY <1>1, <1>4 DEF WalkOf, Ordered
<1> QED BY <1>4, <1>5, <1>7, <1>8, <1>9, <1>10, <1>11, <1>12, <1>d DEF WalkOf

LEMMA GetValueWalk ==
  ASSUME MapReduceAssumption, IInv, NEW p \in Partitions, GetValue(p)
  PROVE  WalkOf(p)'
<1>1. main = "reducing" /\ WalkOf(p) /\ rpc[p] = "reduce"
  BY Current DEF GetValue
<1>n. PICK n : n = Len(calls[p])
  OBVIOUS
<1>a. PICK a : a = access[p] + 1
  OBVIOUS
<1>2. /\ a \in DOMAIN nodes[p] /\ access[p] \in Nat /\ a \in Nat
      /\ \A i \in DOMAIN nodes[p] : i \in Nat /\ nodes[p][i].key \in Nat
  <2>1. a \in 1 .. count[p]
    BY <1>a, GetValueIs
  <2> QED BY <1>1, <2>1, NodeKeys
<1>3. /\ calls[p] \in Seq(Calls) /\ n \in Nat /\ DOMAIN calls[p] = 1 .. n /\ n \in 1 .. n
      /\ calls[p][n] \in Calls /\ calls[p][n].key = key[p]
      /\ \A c \in DOMAIN calls[p] : calls[p][c].key \in Nat
  BY <1>1, <1>n, CallsAre, Current DEF MapReduceAssumption
<1>v. PICK v : v = Append(calls[p][n].values, nodes[p][a].value)
  OBVIOUS
<1>4. /\ rpc' = rpc /\ nodes' = nodes /\ access'[p] = a /\ count' = count /\ key' = key
      /\ nodes[p][a].key = key[p]
      /\ calls'[p] = [calls[p] EXCEPT ![n] = [key |-> key[p], values |-> v]]
  <2>1. rpc' = rpc /\ nodes' = nodes /\ access'[p] = a /\ count' = count /\ key' = key
    BY <1>a DEF GetValue, NextAccess, shared, IInv, Typed, TypeOK
  <2>2. nodes[p][a].key = key[p]
    BY <1>a DEF GetValue, HasValue
  <2>3. calls' = [calls EXCEPT ![p] = [calls[p] EXCEPT ![n] = [key |-> key[p], values |-> v]]]
    BY <1>a, <1>n, <1>v, GetValueIs
  <2> QED BY <2>1, <2>2, <2>3 DEF IInv, Typed, CallsOK
<1>d. PICK d : d = calls'[p]
  OBVIOUS
<1>5. /\ DOMAIN d = 1 .. n /\ Len(d) = n
      /\ \A c \in 1 .. n : d[c].key = calls[p][c].key
      /\ \A c \in 1 .. n : c # n => d[c].values = calls[p][c].values
      /\ d[n].values = v /\ d[n].key = key[p]
  <2>1. [key |-> key[p], values |-> v] \in Calls
    BY <1>a, <1>n, <1>v, GetValueIs
  <2>2. DOMAIN d = DOMAIN calls[p] /\ Len(d) = Len(calls[p])
    BY <1>3, <1>4, <1>d, <2>1, WithOne
  <2> QED BY <1>3, <1>4, <1>d, <1>n, <2>2
<1>6. ASSUME NEW c \in DOMAIN d PROVE AreGiven(p, c)'
  <2>1. AreGiven(p, c)
    BY <1>1, <1>3, <1>5 DEF WalkOf
  <2>k. PICK k : k = calls[p][c].key
    OBVIOUS
  <2>2. PICK b \in Bijection(DOMAIN calls[p][c].values, Given(p, k)) :
          \A i \in DOMAIN calls[p][c].values : calls[p][c].values[i] = nodes[p][b[i]].value
    BY <2>1, <2>k DEF AreGiven
  <2>3. Given(p, k)' = {i \in 1 .. a : nodes[p][i].key = k}
    BY <1>4 DEF Given
  <2>4. 1 .. a = (1 .. access[p]) \cup {a} /\ a \notin 1 .. access[p]
    BY <1>2, <1>a
  <2>5. CASE c # n
    <3>1. k # key[p]
      BY <1>1, <1>3, <1>5, <2>k, <2>5 DEF WalkOf
    <3>2. Given(p, k)' = Given(p, k)
      BY <1>4, <2>3, <2>4, <3>1 DEF Given
    <3> QED BY <1>4, <1>5, <1>d, <2>2, <2>5, <2>k, <3>2 DEF AreGiven
  <2>6. CASE c = n
    <3>1. k = key[p]
      BY <1>3, <2>k, <2>6
    <3>2. Given(p, k)' = Given(p, k) \cup {a} /\ a \notin Given(p, k)
      BY <1>4, <2>3, <2>4, <3>1 DEF Given
    <3>u. PICK u : u = calls[p][n].values
      OBVIOUS
    <3>3. u \in Seq(Values) /\ nodes[p][a].value \in Values
      BY <1>3, <1>a, <3>u, CallsAre, GetValueIs
    <3>4. /\ v \in Seq(Values) /\ Len(v) = Len(u) + 1 /\ Len(u) \in Nat
          /\ \A i \in 1 .. Len(u) : v[i] = u[i]
          /\ v[Len(u) + 1] = nodes[p][a].value
      BY <1>v, <3>3, <3>u, AppendProperties, LenProperties
    <3>5. DOMAIN u = 1 .. Len(u) /\ DOMAIN v = 1 .. Len(u) + 1
      BY <3>3, <3>4, LenProperties
    <3>x. PICK x : x = Len(u) + 1
      OBVIOUS
    <3>6. DOMAIN v = DOMAIN u \cup {x} /\ x \notin DOMAIN u
      BY <3>4, <3>5, <3>x
    <3>e. PICK e : e = [y \in DOMAIN u \cup {x} |-> IF y = x THEN a ELSE b[y]]
      OBVIOUS
    <3>7. b \in Bijection(DOMAIN u, Given(p, k))
          /\ \A i \in DOMAIN u : u[i] = nodes[p][b[i]].value
      BY <2>2, <2>6, <3>u
    <3>8. e \in Bijection(DOMAIN v, Given(p, k)')
      BY <3>2, <3>6, <3>7, <3>e, OneMore
    <3>9. \A i \in DOMAIN v : v[i] = nodes[p][e[i]].value
      BY <3>4, <3>5, <3>6, <3>7, <3>e, <3>x
    <3> QED BY <1>4, <1>5, <1>d, <2>6, <2>k, <3>1, <3>8, <3>9 DEF AreGiven
  <2> QED BY <2>5, <2>6
<1>7. ASSUME NEW c \in DOMAIN d PROVE KeysAhead(p, c)'
  <2>1. KeysAhead(p, c)
    BY <1>1, <1>3, <1>5 DEF WalkOf
  <2>2. \A i \in DOMAIN nodes[p] : i > a => i > access[p]
    BY <1>2, <1>a
  <2> QED BY <1>4, <1>5, <1>d, <1>n, <2>1, <2>2 DEF KeysAhead
<1>8. \A i \in 1 .. a : \E c \in DOMAIN d : d[c].key = nodes[p][i].key
  <2> SUFFICES ASSUME NEW i \in 1 .. a PROVE \E c \in DOMAIN d : d[c].key = nodes[p][i].key
    OBVIOUS
  <2>1. CASE i = a
    BY <1>3, <1>4, <1>5, <2>1
  <2>2. CASE i \in 1 .. access[p]
    BY <1>1, <1>3, <1>5, <2>2 DEF WalkOf
  <2> QED BY <1>2, <1>a, <2>1, <2>2
<1>9. Ordered(nodes[p])'
  BY <1>1, <1>4 DEF WalkOf, Ordered
<1>10. \A c \in DOMAIN d : \E i \in DOMAIN nodes[p] : nodes[p][i].key = d[c].key
  BY <1>1, <1>3, <1>5 DEF WalkOf
<1>11. \A c, e \in DOMAIN d : c < e => d[c].key < d[e].key
  BY <1>1, <1>3, <1>5 DEF WalkOf
<1>12. d # <<>>
  BY <1>3, <1>5
<1> QED BY <1>1, <1>4, <1>5, <1>6, <1>7, <1>8, <1>9, <1>10, <1>11, <1>12, <1>d DEF WalkOf

LEMMA GetNullWalk ==
  ASSUME MapReduceAssumption, IInv, NEW p \in Partitions, GetNull(p) \/ EndReducer(p)
  PROVE  WalkOf(p)'
<1>1. main = "reducing" /\ rpc[p] \in {"loop", "reduce"} /\ WalkOf(p)
  BY ReducerRuns DEF GetNull, EndReducer, IInv, WalkInv
<1>2. nodes' = nodes /\ access' = access /\ count' = count /\ key' = key /\ calls' = calls
  BY DEF GetNull, EndReducer, shared
<1>3. rpc'[p] = IF GetNull(p) THEN "loop" ELSE "done"
  BY DEF IInv, Typed, TypeOK, GetNull, EndReducer, RGoto
<1>4. \A c \in DOMAIN calls[p] : AreGiven(p, c)'
  BY <1>1, <1>2, GivenSame DEF WalkOf
<1>5. ASSUME NEW c \in DOMAIN calls[p], NEW i \in DOMAIN nodes[p], i > access[p]
      PROVE  calls[p][c].key < nodes[p][i].key
  <2>1. CASE rpc[p] = "reduce" /\ c = Len(calls[p])
    <3>1. GetNull(p) /\ ~HasValue(p)
      BY <2>1 DEF GetNull, EndReducer
    <3>2. /\ access[p] \in Nat /\ count[p] \in Nat /\ DOMAIN nodes[p] = 1 .. count[p]
          /\ \A j \in DOMAIN nodes[p] : nodes[p][j].key \in Nat
      BY <1>1, WhileReducing DEF MapReduceAssumption
    <3>a. PICK a : a = access[p] + 1
      OBVIOUS
    <3>3. a \in DOMAIN nodes[p] /\ a <= i /\ a > access[p] /\ access[p] < count[p]
      BY <1>5, <3>2, <3>a
    <3>4. nodes[p][a].key # key[p] /\ calls[p][c].key = key[p] /\ key[p] \in Nat
      BY <2>1, <3>1, <3>3, <3>a, Current, CallsAre DEF HasValue, MapReduceAssumption
    <3>5. calls[p][c].key <= nodes[p][a].key
      BY <1>1, <2>1, <3>3 DEF WalkOf, KeysAhead
    <3>6. nodes[p][a].key <= nodes[p][i].key
      BY <1>1, <3>2, <3>3 DEF WalkOf, Ordered
    <3> QED BY <3>2, <3>3, <3>4, <3>5, <3>6
  <2>2. CASE ~(rpc[p] = "reduce" /\ c = Len(calls[p]))
    BY <1>1, <1>5, <2>2 DEF WalkOf, KeysAhead
  <2> QED BY <2>1, <2>2
<1>6. \A c \in DOMAIN calls[p] : KeysAhead(p, c)'
  BY <1>2, <1>3, <1>5 DEF KeysAhead
<1>7. Ordered(nodes[p])'
  BY <1>1, <1>2 DEF WalkOf, Ordered
<1>8. rpc'[p] = "done" => access[p] = count[p]
  <2>1. access[p] \in Nat /\ count[p] \in Nat /\ access[p] <= count[p]
    BY <1>1, WhileReducing
  <2> QED BY <1>3, <2>1 DEF EndReducer
<1> QED BY <1>1, <1>2, <1>3, <1>4, <1>6, <1>7, <1>8 DEF WalkOf

LEMMA ReducerWalk ==
  ASSUME MapReduceAssumption, IInv, NEW p \in Partitions, ReduceStep(p)
  PROVE  WalkInv'
<1>1. WalkOf(p)'
  BY SortWalk, CallReducerWalk, GetValueWalk, GetNullWalk DEF ReduceStep
<1>2. ASSUME NEW q \in Partitions, q # p, rpc'[q] # "sort" PROVE WalkOf(q)'
  BY <1>2, ReducerIs, WalkSame DEF IInv, WalkInv
<1> QED BY <1>1, <1>2 DEF WalkInv

-----------------------------------------------------------------------------
(* When the reducers are joined                                            *)

LEMMA JoinGrouped ==
  ASSUME MapReduceAssumption, IInv, JoinReducers, NEW k \in Keys, NEW p \in Partitions
  PROVE  CalledOnce(k, p)
<1>1. main = "reducing" /\ rpc[p] = "done" /\ WalkOf(p)
  BY DEF JoinReducers, IInv, WalkInv
<1>2. /\ access[p] = count[p] /\ DOMAIN nodes[p] = 1 .. count[p]
      /\ StoredIn(p) = {e \in Emissions : Partitioner[Emitted(e).key] = p}
      /\ Holds(nodes[p], StoredIn(p)) /\ Filled(nodes[p]) = DOMAIN nodes[p]
  BY <1>1, WhileReducing DEF WalkOf
<1>3. PICK b \in Bijection(1 .. count[p], StoredIn(p)) :
        \A i \in 1 .. count[p] : nodes[p][i] = Emitted(b[i])
  BY <1>2 DEF Holds
<1>4. /\ \A i \in 1 .. count[p] : b[i] \in StoredIn(p)
      /\ \A i, j \in 1 .. count[p] : b[i] = b[j] => i = j
      /\ \A e \in StoredIn(p) : \E i \in 1 .. count[p] : b[i] = e
  <2>D. PICK D : D = 1 .. count[p]
    OBVIOUS
  <2>1. b \in Bijection(D, StoredIn(p))
    BY <2>D
  <2>2. /\ b \in [D -> StoredIn(p)]
        /\ \A i, j \in D : b[i] = b[j] => i = j
        /\ \A e \in StoredIn(p) : \E i \in D : b[i] = e
    BY <2>1, BijectionIs
  <2> QED BY <2>2, <2>D
<1>5. CASE p = Partitioner[k] /\ EmittedFor(k) # {}
  <2>1. EmittedFor(k) \subseteq StoredIn(p)
    BY <1>2, <1>5 DEF EmittedFor
  <2>2. PICK i \in 1 .. count[p] : b[i] \in EmittedFor(k)
    BY <1>4, <1>5, <2>1
  <2>3. nodes[p][i].key = k
    BY <1>3, <2>2 DEF EmittedFor
  <2>4. PICK c \in DOMAIN calls[p] : calls[p][c].key = k
    BY <1>1, <1>2, <2>3 DEF WalkOf
  <2>5. CallsFor(p, k) = {c}
    <3>1. ASSUME NEW d \in DOMAIN calls[p], calls[p][d].key = k, d # c PROVE FALSE
      <4>1. d < c \/ c < d
        BY <3>1, CallsAre
      <4>2. k < k
        BY <1>1, <2>4, <3>1, <4>1 DEF WalkOf
      <4>3. k \in Nat
        BY DEF MapReduceAssumption
      <4> QED BY <4>2, <4>3
    <3> QED BY <2>4, <3>1 DEF CallsFor
  <2>v. PICK v : v = calls[p][c].values
    OBVIOUS
  <2>6. PICK g \in Bijection(DOMAIN v, Given(p, k)) : \A j \in DOMAIN v : v[j] = nodes[p][g[j]].value
    BY <1>1, <2>4, <2>v DEF WalkOf, AreGiven
  <2>7. Given(p, k) = {j \in 1 .. count[p] : nodes[p][j].key = k}
    BY <1>2 DEF Given
  <2>8. /\ \A j \in DOMAIN v : g[j] \in Given(p, k)
        /\ \A j, l \in DOMAIN v : g[j] = g[l] => j = l
        /\ \A n \in Given(p, k) : \E j \in DOMAIN v : g[j] = n
    BY BijectionIs
  <2>f. PICK f : f = [j \in DOMAIN v |-> b[g[j]]]
    OBVIOUS
  <2>9. \A n \in Given(p, k) : b[n] \in EmittedFor(k)
    BY <1>2, <1>3, <1>4, <2>7 DEF EmittedFor
  <2>10. f \in [DOMAIN v -> EmittedFor(k)]
    BY <2>8, <2>9, <2>f
  <2>11. \A j, l \in DOMAIN v : f[j] = f[l] => j = l
    BY <1>4, <2>7, <2>8, <2>f
  <2>12. ASSUME NEW e \in EmittedFor(k) PROVE \E j \in DOMAIN v : f[j] = e
    <3>1. PICK n \in 1 .. count[p] : b[n] = e
      BY <1>4, <2>1
    <3>2. n \in Given(p, k)
      BY <1>3, <2>7, <3>1 DEF EmittedFor
    <3> QED BY <2>8, <2>f, <3>1, <3>2
  <2>13. f \in Bijection(DOMAIN v, EmittedFor(k))
    BY <2>10, <2>11, <2>12, BijectionIs
  <2>14. \A j \in DOMAIN v : v[j] = Emitted(f[j]).value
    BY <1>3, <2>6, <2>7, <2>8, <2>f
  <2>15. AreAllOf(v, k)
    BY <2>13, <2>14 DEF AreAllOf
  <2> QED BY <1>5, <2>5, <2>15, <2>v DEF CalledOnce
<1>6. CASE ~(p = Partitioner[k] /\ EmittedFor(k) # {})
  <2>1. ASSUME NEW c \in DOMAIN calls[p], calls[p][c].key = k PROVE FALSE
    <3>1. PICK i \in 1 .. count[p] : nodes[p][i].key = k
      BY <1>1, <1>2, <2>1 DEF WalkOf
    <3>2. b[i] \in EmittedFor(k) /\ Partitioner[k] = p
      BY <1>2, <1>3, <1>4, <3>1 DEF EmittedFor
    <3> QED BY <1>6, <3>2
  <2> QED BY <1>6, <2>1 DEF CalledOnce, CallsFor
<1> QED BY <1>5, <1>6

LEMMA CalledSame ==
  ASSUME UNCHANGED <<emits, calls>>, NEW k \in Keys, NEW p \in Partitions, CalledOnce(k, p)
  PROVE  CalledOnce(k, p)'
<1>1. EmittedFor(k)' = EmittedFor(k)
  BY DEF EmittedFor, Emissions, Emitted
<1>2. \A v : AreAllOf(v, k)' = AreAllOf(v, k)
  BY <1>1 DEF AreAllOf, Emitted
<1> QED BY <1>1, <1>2 DEF CalledOnce, CallsFor

LEMMA EndPhase ==
  ASSUME MapReduceAssumption, IInv, JoinReducers \/ Free
  PROVE  PhaseInv' /\ WalkInv' /\ Grouped'
<1>1. /\ main \in {"reducing", "free"} /\ main' \in {"free", "done"}
      /\ UNCHANGED <<emits, calls, mpc, rpc>> /\ Stored' = Stored
  BY OtherNodes DEF JoinReducers, Free, mvars, rvars
<1>2. \A p \in Partitions : rpc[p] = "done"
  BY DEF JoinReducers, Free, IInv, PhaseInv
<1>3. /\ \A m \in Mappers : m \notin Started => mpc[m] = "off"
      /\ \A m \in Mappers : mpc[m] \in {"off", "done"}
      /\ Stored = Emissions
  BY <1>1 DEF IInv, PhaseInv
<1>4. PhaseInv'
  BY <1>1, <1>2, <1>3 DEF PhaseInv, Started, Emissions
<1>5. \A k \in Keys, p \in Partitions : CalledOnce(k, p)
  BY JoinGrouped DEF Free, IInv, Grouped
<1>6. Grouped'
  BY <1>1, <1>5, CalledSame DEF Grouped
<1> QED BY <1>1, <1>4, <1>6 DEF WalkInv

-----------------------------------------------------------------------------
(* The invariant                                                           *)

LEMMA InitIInv ==
  ASSUME MapReduceAssumption, Init
  PROVE  IInv
<1> USE DEF Init
<1>1. InputOK /\ Len(emits) \in Nat
  <2>1. InputOK
    BY DEF InputOK, MapReduceAssumption
  <2> QED BY <2>1, Input
<1>2. \A p \in Partitions : nodes[p] \in Seq(Pairs \cup {Garbage})
  BY EmptySeq
<1>3. Typed
  <2>1. TypeOK
    BY <1>1, <1>2 DEF TypeOK
  <2>2. CallsOK
    BY EmptySeq DEF CallsOK
  <2> QED BY <1>1, <2>1, <2>2 DEF Typed
<1>4. LockInv
  BY DEF LockInv, Mappers
<1>5. FileInv
  BY DEF FileInv, FileOf, Working
<1>6. Stored = {}
  <2>1. \A e \in Emissions : ~(e[1] <= filesDone)
    BY <1>1, EmissionsAre, Input
  <2> QED BY <2>1 DEF Stored
<1>7. NodesInv
  <2> SUFFICES ASSUME NEW p \in Partitions PROVE NodesOf(p)
    BY DEF NodesInv
  <2>1. nodes[p] = <<>> /\ count[p] = 0 /\ \A m \in Mappers : mpc[m] = "off"
    OBVIOUS
  <2>2. StoredIn(p) = {} /\ Filled(nodes[p]) = {} /\ DOMAIN nodes[p] = {}
    BY <1>6, <2>1 DEF StoredIn, Filled
  <2>3. Holds(nodes[p], StoredIn(p))
    BY <2>2, EmptyBijection DEF Holds
  <2> QED BY <2>1, <2>2, <2>3 DEF NodesOf, Fills
<1>8. PhaseInv
  BY DEF PhaseInv
<1>9. WalkInv /\ Grouped
  BY DEF WalkInv, Grouped
<1> QED BY <1>3, <1>4, <1>5, <1>7, <1>8, <1>9 DEF IInv

LEMMA NextIInv ==
  ASSUME MapReduceAssumption, IInv, [Next]_vars
  PROVE  IInv'
<1>f. Typed /\ LockInv /\ FileInv /\ Files
  BY DEF IInv, Files
<1>1. ASSUME NEW m \in Mappers, MapStep(m) PROVE IInv'
  <2>1. PhaseInv' /\ WalkInv' /\ Grouped'
    BY <1>1, MapperPhase
  <2>2. Files'
    BY <1>f, <1>1, AskFileFiles, NoFileLeftFiles, LookFileFiles, TakeFileFiles, EndFileFiles,
       EmitFiles, GrowFiles, StoreFiles DEF MapStep
  <2>3. NodesInv'
    BY <1>1, MapperNodes, GrowNodes, StoreNodes DEF MapStep
  <2> QED BY <2>1, <2>2, <2>3 DEF IInv, Files
<1>2. ASSUME NEW p \in Partitions, ReduceStep(p) PROVE IInv'
  <2>1. PhaseInv' /\ WalkInv' /\ Grouped'
    BY <1>2, ReducerPhase, ReducerWalk
  <2>2. Files'
    BY <1>2, SortFiles, CallReducerFiles, GetValueFiles, OtherFiles DEF ReduceStep
  <2>3. NodesInv'
    BY <1>2, SortNodes, OtherNodes DEF ReduceStep
  <2> QED BY <2>1, <2>2, <2>3 DEF IInv, Files
<1>3. CASE MainStep
  <2>1. PhaseInv' /\ WalkInv' /\ Grouped'
    BY <1>3, StartPhase, ReducersPhase, EndPhase DEF MainStep
  <2>2. Files'
    BY <1>3, StartFiles, OtherFiles DEF MainStep
  <2>3. NodesInv'
    BY <1>3, OtherNodes DEF MainStep
  <2> QED BY <2>1, <2>2, <2>3 DEF IInv, Files
<1>4. CASE UNCHANGED vars
  <2>1. UNCHANGED <<emits, main, filesDone, fileLock, lock, count, nodes, access, mpc, file,
                    emitted, slot, rpc, key, calls>>
    BY <1>4 DEF vars, shared, mvars, rvars
  <2>2. Typed'
    BY <1>f, <2>1 DEF Typed, TypeOK, InputOK, CallsOK
  <2>3. LockInv' /\ FileInv'
    BY <1>f, <2>1, FilesSame DEF mvars
  <2>4. Stored' = Stored /\ Emissions' = Emissions
    BY <2>1 DEF Stored, Emissions
  <2>5. NodesInv'
    <3>1. CASE main = "done"
      BY <2>1, <3>1 DEF NodesInv
    <3>2. CASE main # "done"
      <4>1. \A m \in Mappers : Emitting(m)' = Emitting(m)
        BY <2>1 DEF Emitting
      <4> QED BY <2>1, <2>4, <3>2, <4>1, NodesSame DEF IInv
    <3> QED BY <3>1, <3>2
  <2>6. PhaseInv'
    BY <2>1, <2>4 DEF IInv, PhaseInv, Started
  <2>7. WalkInv'
    BY <2>1, WalkSame DEF IInv, WalkInv
  <2>8. Grouped'
    BY <2>1, CalledSame DEF IInv, Grouped
  <2> QED BY <2>2, <2>3, <2>5, <2>6, <2>7, <2>8 DEF IInv
<1> QED BY <1>1, <1>2, <1>3, <1>4 DEF Next

\* Type correctness and the inductive invariant of MR_Run with its mappers and
\* reducers (mapreduce.c:28-182).
THEOREM Invariance ==
  ASSUME MapReduceAssumption
  PROVE  Spec => []IInv
<1>1. Init => IInv
  BY InitIInv
<1>2. IInv /\ [Next]_vars => IInv'
  BY NextIInv
<1> QED BY <1>1, <1>2, PTL DEF Spec

\* When MR_Run has joined its reducers, every key that some file emitted has
\* been given to the reducer function by one call, in its own partition, with
\* every value emitted for it, each as often as it was emitted; no other key
\* has been given (mapreduce.c:47-90, 146-156).
THEOREM EveryKeyReducedOnce ==
  ASSUME MapReduceAssumption
  PROVE  Spec => []Grouped
<1>1. IInv => Grouped
  BY DEF IInv
<1> QED BY <1>1, Invariance, PTL

\* A file has one mapper, a slot is filled by the one that grew the array for
\* it, and the reducers, which take no lock, run when no mapper does
\* (mapreduce.c:49-59, 76-87, 141-149).
THEOREM NoInterference ==
  ASSUME MapReduceAssumption
  PROVE  Spec => []OneMapperForAll
<1>1. IInv => OneMapperForAll
  <2> SUFFICES ASSUME IInv PROVE OneMapperForAll
    OBVIOUS
  <2>1. TypeOK
    BY DEF IInv, Typed
  <2>2. ASSUME NEW m \in Mappers, NEW n \in Mappers, m # n
        PROVE  /\ file[m] # 0 /\ mpc[m] \in {"map", "grow", "store"} => file[m] # file[n]
               /\ mpc[m] = "store" => /\ mpc[n] \notin {"grow", "store"}
                                      /\ nodes[Partitioner[Emitting(m).key]][slot[m]] = Garbage
    <3>1. file[m] # 0 => file[m] # file[n]
      BY <2>2 DEF IInv, FileInv
    <3>2. ASSUME mpc[m] = "store"
          PROVE  /\ mpc[n] \notin {"grow", "store"}
                 /\ nodes[Partitioner[Emitting(m).key]][slot[m]] = Garbage
      <4>1. mpc[n] \notin {"grow", "store"}
        BY <2>2, <3>2, Alone DEF IInv
      <4>p. PICK p \in Partitions : p = Partitioner[Emitting(m).key]
        BY <3>2, EmittingIs DEF IInv, Typed
      <4>2. NodesOf(p)
        BY <3>2, MapperRuns DEF IInv, NodesInv
      <4>3. nodes[p][slot[m]] = Garbage
        BY <3>2, <4>p, <4>2 DEF NodesOf, Fills
      <4> QED BY <4>1, <4>3, <4>p
    <3> QED BY <3>1, <3>2
  <2>3. ASSUME NEW p \in Partitions, rpc[p] \in {"sort", "loop", "reduce"}
        PROVE  /\ main = "reducing"
               /\ \A m \in Mappers : mpc[m] \in {"off", "done"}
               /\ Garbage \notin ToSet(nodes[p]) /\ Len(nodes[p]) = count[p]
    <3>1. main = "reducing"
      BY <2>3, ReducerRuns
    <3>2. \A m \in Mappers : mpc[m] \in {"off", "done"}
      BY <3>1 DEF IInv, PhaseInv
    <3>3. Filled(nodes[p]) = DOMAIN nodes[p] /\ Len(nodes[p]) = count[p]
      BY <3>1, WhileReducing
    <3>4. Garbage \notin ToSet(nodes[p])
      BY <3>3 DEF Filled, ToSet
    <3> QED BY <3>1, <3>2, <3>3, <3>4
  <2> QED BY <2>1, <2>2, <2>3 DEF OneMapperForAll
<1> QED BY <1>1, Invariance, PTL
=============================================================================
