------------------------------ MODULE MapReduce ------------------------------
(***************************************************************************)
(* MR_Run of "P3A: MapReduce": mapper threads that take files one by one   *)
(* and emit pairs into partitions under a lock, one reducer thread for     *)
(* each partition that sorts it and walks through it with getValue, and    *)
(* the main thread that starts, joins and cleans up.                       *)
(***************************************************************************)
EXTENDS Integers, FiniteSets, Sequences, SequencesExt

CONSTANTS
  Inputs,       \* inputs: for each file, in order, the pairs that it emits
  Keys,         \* keys, as numbers in the order of strcmp
  Values,
  NumMappers, NumReducers,
  Partitioner   \* the partition of each key

Partitions == 0 .. NumReducers - 1
Mappers == 1 .. NumMappers

Pairs == [key : Keys, value : Values]

\* With no mapper MR_Run maps nothing.
MapReduceAssumption ==
  /\ NumMappers \in Nat \ {0} /\ NumReducers \in Nat
  /\ Keys \subseteq Nat \ {0}
  /\ Partitioner \in [Keys -> Partitions]
  /\ \A input \in Inputs : input \in Seq(Seq(Pairs))

VARIABLES
  emits,        \* the input
  main,         \* where MR_Run is
  filesDone,
  fileLock,     \* the mapper that holds it, 0 when nobody does
  lock,         \* the same
  count,        \* nodesInPartitions
  nodes,        \* partitions
  access,       \* numOfAccessInPartitions
  mpc, file, emitted, slot,   \* of each mapper: where it is, its file, what it
                              \* has emitted of that, curCount
  rpc, key,                   \* of each reducer: where it is, its key
  calls         \* what the reducer function has been given, a call at a time

mvars == <<mpc, file, emitted, slot>>
rvars == <<rpc, key, calls, access>>
shared == <<filesDone, fileLock, lock, count, nodes>>
vars == <<emits, main, shared, mvars, rvars>>

Garbage == [key |-> 0, value |-> "garbage"]

TypeOK ==
  /\ main \in {"start", "mapping", "reducing", "free", "done"}
  /\ filesDone \in 0 .. Len(emits)
  /\ fileLock \in {0} \cup Mappers /\ lock \in {0} \cup Mappers
  /\ count \in [Partitions -> Nat]
  /\ nodes \in [Partitions -> Seq(Pairs \cup {Garbage})]
  /\ access \in [Partitions -> Nat]
  /\ \A p \in Partitions : access[p] <= count[p]
  /\ mpc \in [Mappers -> {"off", "ask", "look", "take", "map", "grow", "store",
                          "done"}]
  /\ file \in [Mappers -> {0} \cup DOMAIN emits]
  /\ emitted \in [Mappers -> Nat] /\ slot \in [Mappers -> Nat]
  /\ rpc \in [Partitions -> {"off", "sort", "loop", "reduce", "done"}]
  /\ key \in [Partitions -> {0} \cup Keys]

Init ==
  /\ emits \in Inputs
  /\ main = "start" /\ filesDone = 0 /\ fileLock = 0 /\ lock = 0
  /\ count = [p \in Partitions |-> 0]
  /\ nodes = [p \in Partitions |-> <<>>]
  /\ access = [p \in Partitions |-> 0]
  /\ mpc = [m \in Mappers |-> "off"]
  /\ file = [m \in Mappers |-> 0]
  /\ emitted = [m \in Mappers |-> 0]
  /\ slot = [m \in Mappers |-> 0]
  /\ rpc = [p \in Partitions |-> "off"]
  /\ key = [p \in Partitions |-> 0]
  /\ calls = [p \in Partitions |-> <<>>]

-----------------------------------------------------------------------------
(* A mapper thread                                                         *)

MGoto(m, l) == mpc' = [mpc EXCEPT ![m] = l]

FileLockFree == fileLock = 0

AskFile(m) ==
  /\ mpc[m] = "ask" /\ FileLockFree
  /\ fileLock' = m
  /\ MGoto(m, "look")
  /\ UNCHANGED <<emits, main, filesDone, lock, count, nodes, file, emitted, slot,
                 rvars>>

StillLocked == fileLock
Unlocked == 0

NoFileLeft(m) ==
  /\ mpc[m] = "look" /\ filesDone >= Len(emits)
  /\ fileLock' = Unlocked
  /\ MGoto(m, "done")
  /\ UNCHANGED <<emits, main, filesDone, lock, count, nodes, file, emitted, slot,
                 rvars>>

LookFile(m) ==
  /\ mpc[m] = "look" /\ filesDone < Len(emits)
  /\ file' = [file EXCEPT ![m] = filesDone + 1]
  /\ MGoto(m, "take")
  /\ UNCHANGED <<emits, main, shared, emitted, slot, rvars>>

TakeFile(m) ==
  /\ mpc[m] = "take"
  /\ filesDone' = filesDone + 1
  /\ fileLock' = 0
  /\ emitted' = [emitted EXCEPT ![m] = 0]
  /\ MGoto(m, "map")
  /\ UNCHANGED <<emits, main, lock, count, nodes, file, slot, rvars>>

\* The mapper function returns at the end of its file.
EndFile(m) ==
  /\ mpc[m] = "map" /\ emitted[m] = Len(emits[file[m]])
  /\ MGoto(m, "ask")
  /\ UNCHANGED <<emits, main, shared, file, emitted, slot, rvars>>

-----------------------------------------------------------------------------
(* MR_Emit                                                                 *)

NoLock == TRUE
LockFree == lock = 0

Emit(m) ==
  /\ mpc[m] = "map" /\ emitted[m] < Len(emits[file[m]])
  /\ LockFree
  /\ lock' = m
  /\ MGoto(m, "grow")
  /\ UNCHANGED <<emits, main, filesDone, fileLock, count, nodes, file, emitted, slot,
                 rvars>>

Emitting(m) == emits[file[m]][emitted[m] + 1]

Grow(m) ==
  /\ mpc[m] = "grow"
  /\ LET p == Partitioner[Emitting(m).key] IN
       /\ count' = [count EXCEPT ![p] = @ + 1]
       /\ nodes' = [nodes EXCEPT ![p] = Append(@, Garbage)]
       /\ slot' = [slot EXCEPT ![m] = count'[p]]
  /\ MGoto(m, "store")
  /\ UNCHANGED <<emits, main, filesDone, fileLock, lock, file, emitted, rvars>>

Store(m) ==
  /\ mpc[m] = "store"
  /\ nodes' = [nodes EXCEPT ![Partitioner[Emitting(m).key]][slot[m]] =
                              Emitting(m)]
  /\ emitted' = [emitted EXCEPT ![m] = @ + 1]
  /\ lock' = 0
  /\ MGoto(m, "map")
  /\ UNCHANGED <<emits, main, filesDone, fileLock, count, file, slot, rvars>>

-----------------------------------------------------------------------------
(* A reducer thread                                                        *)

RGoto(p, l) == rpc' = [rpc EXCEPT ![p] = l]

Ordered(s) == \A i, j \in DOMAIN s : i < j => s[i].key <= s[j].key
Orders(s) == {[i \in DOMAIN s |-> s[q[i]]] : q \in Bijection(DOMAIN s, DOMAIN s)}
\* qsort orders the nodes by key, and those of one key in any way.
Unsorted(s) == {s}
Sorted(s) == {t \in Orders(s) : Ordered(t)}

Sort(p) ==
  /\ rpc[p] = "sort"
  /\ \E t \in Sorted(nodes[p]) : nodes' = [nodes EXCEPT ![p] = t]
  /\ access' = [access EXCEPT ![p] = 0]
  /\ RGoto(p, "loop")
  /\ UNCHANGED <<emits, main, filesDone, fileLock, lock, count, mvars, key, calls>>

CallReducer(p) ==
  /\ rpc[p] = "loop" /\ access[p] < count[p]
  /\ LET k == nodes[p][access[p] + 1].key IN
       /\ key' = [key EXCEPT ![p] = k]
       /\ calls' = [calls EXCEPT ![p] = Append(@, [key |-> k, values |-> <<>>])]
  /\ RGoto(p, "reduce")
  /\ UNCHANGED <<emits, main, shared, mvars, access>>

EndReducer(p) ==
  /\ rpc[p] = "loop" /\ access[p] >= count[p]
  /\ RGoto(p, "done")
  /\ UNCHANGED <<emits, main, shared, mvars, key, calls, access>>

HasValue(p) == access[p] < count[p] /\ nodes[p][access[p] + 1].key = key[p]

NextAccess(p) == access[p] + 1

\* The reducer function calls getValue until that returns NULL.
GetValue(p) ==
  /\ rpc[p] = "reduce" /\ HasValue(p)
  /\ access' = [access EXCEPT ![p] = NextAccess(p)]
  /\ calls' = [calls EXCEPT ![p][Len(calls[p])].values =
                              Append(@, nodes[p][access[p] + 1].value)]
  /\ UNCHANGED <<emits, main, shared, mvars, rpc, key>>

GetNull(p) ==
  /\ rpc[p] = "reduce" /\ ~HasValue(p)
  /\ RGoto(p, "loop")
  /\ UNCHANGED <<emits, main, shared, mvars, key, calls, access>>

-----------------------------------------------------------------------------
(* MR_Run                                                                  *)

\* No more mappers than files.
Started == {m \in Mappers : m <= Len(emits)}

StartMappers ==
  /\ main = "start" /\ main' = "mapping"
  /\ mpc' = [m \in Mappers |-> IF m \in Started THEN "ask" ELSE "off"]
  /\ UNCHANGED <<emits, shared, file, emitted, slot, rvars>>

MappersJoined == \A m \in Started : mpc[m] = "done"

StartReducers ==
  /\ main = "mapping" /\ MappersJoined
  /\ main' = "reducing"
  /\ rpc' = [p \in Partitions |-> "sort"]
  /\ UNCHANGED <<emits, shared, mvars, key, calls, access>>

JoinReducers ==
  /\ main = "reducing" /\ \A p \in Partitions : rpc[p] = "done"
  /\ main' = "free"
  /\ UNCHANGED <<emits, shared, mvars, rvars>>

Free ==
  /\ main = "free" /\ main' = "done"
  /\ nodes' = [p \in Partitions |-> <<>>]
  /\ UNCHANGED <<emits, filesDone, fileLock, lock, count, mvars, rvars>>

MapStep(m) == AskFile(m) \/ NoFileLeft(m) \/ LookFile(m) \/ TakeFile(m)
              \/ EndFile(m) \/ Emit(m) \/ Grow(m) \/ Store(m)
ReduceStep(p) == Sort(p) \/ CallReducer(p) \/ EndReducer(p) \/ GetValue(p)
                 \/ GetNull(p)
MainStep == StartMappers \/ StartReducers \/ JoinReducers \/ Free

Next == \/ MainStep
        \/ \E m \in Mappers : MapStep(m)
        \/ \E p \in Partitions : ReduceStep(p)

Spec == Init /\ [][Next]_vars
\* Every thread runs; a mutex that is free is given to somebody.
FairSpec == Spec /\ WF_vars(MainStep)
                 /\ \A m \in Mappers : WF_vars(MapStep(m))
                 /\ \A p \in Partitions : WF_vars(ReduceStep(p))

-----------------------------------------------------------------------------
(* Properties                                                              *)

\* What the files emit: the file and the place in it of each pair.
Emissions == UNION {{f} \X DOMAIN emits[f] : f \in DOMAIN emits}
Emitted(e) == emits[e[1]][e[2]]
EmittedFor(k) == {e \in Emissions : Emitted(e).key = k}

CallsFor(p, k) == {c \in DOMAIN calls[p] : calls[p][c].key = k}
\* The values are those emitted for the key, one for one.
AreAllOf(values, k) ==
  \E b \in Bijection(DOMAIN values, EmittedFor(k)) :
    \A i \in DOMAIN values : values[i] = Emitted(b[i]).value

\* The calls of the reducer function for a key in a partition.
CalledOnce(k, p) ==
  IF p = Partitioner[k] /\ EmittedFor(k) # {}
  THEN \E c \in DOMAIN calls[p] : /\ CallsFor(p, k) = {c}
                                 /\ AreAllOf(calls[p][c].values, k)
  ELSE CallsFor(p, k) = {}

\* The whole of MR_Run: when the reducers are joined, every key that some file
\* emitted has been reduced by one call, in its own partition, and that call
\* was given every value emitted for the key, each as often as it was emitted.
Grouped ==
  main \in {"free", "done"} => \A k \in Keys, p \in Partitions : CalledOnce(k, p)

\* The files that mappers work on are different files, and the slot that a
\* mapper is about to fill is empty and nobody else's (mapreduce.c:56,83); a
\* reducer never meets an array that still grows or has been freed, and never
\* walks past its end.
OneMapperForAll ==
  /\ TypeOK
  /\ \A m, n \in Mappers : m # n =>
       /\ file[m] # 0 /\ mpc[m] \in {"map", "grow", "store"} => file[m] # file[n]
       /\ mpc[m] = "store" => /\ mpc[n] \notin {"grow", "store"}
                              /\ nodes[Partitioner[Emitting(m).key]][slot[m]]
                                   = Garbage
  /\ \A p \in Partitions : rpc[p] \in {"sort", "loop", "reduce"} =>
       /\ main = "reducing"
       /\ \A m \in Mappers : mpc[m] \in {"off", "done"}
       /\ Garbage \notin ToSet(nodes[p]) /\ Len(nodes[p]) = count[p]

\* MR_Run returns.
Finishes == <>(main = "done")
=============================================================================
