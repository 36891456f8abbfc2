------------------------------ MODULE MCWorkers -------------------------------
(* The threads of user programs: workers under the ticket lock, and        *)
(* MapReduce.  They share no state: a behaviour has one of the two.        *)
EXTENDS TicketLock

\* MapReduce: a key with two values, two keys that share a partition; no file,
\* one file of three pairs, two files of two.
Pair(k, v) == [key |-> k, value |-> v]
UpTo(n, S) == UNION {[1 .. l -> S] : l \in 0 .. n}
Contents(n) == UpTo(n, {Pair(1, "a"), Pair(1, "b"), Pair(2, "a"), Pair(3, "b")})
SmallInputs == UpTo(1, Contents(3)) \cup UpTo(2, UpTo(2, {Pair(1, "a"), Pair(2, "a"), Pair(3, "b")}))

VARIABLES part, emits, main, filesDone, fileLock, lock, count, nodes, access, mpc,
          file, emitted, slot, rpc, key, calls
mapReduceVars == <<emits, main, filesDone, fileLock, lock, count, nodes, access,
                   mpc, file, emitted, slot, rpc, key, calls>>
MR == INSTANCE MapReduce WITH
        Inputs <- SmallInputs, Keys <- 1 .. 3, Values <- {"a", "b"},
        NumMappers <- 2, NumReducers <- 2,
        Partitioner <- [k \in 1 .. 3 |-> k % 2]
ASSUME MR!MapReduceAssumption

WorkersInit ==
  /\ Init /\ MR!Init
  /\ part \in {"lock", "reduce"}
  /\ part # "reduce" => emits = <<>>
WorkersNext ==
  /\ UNCHANGED part
  /\ \/ part = "lock" /\ Next /\ UNCHANGED mapReduceVars
     \/ part = "reduce" /\ MR!Next /\ UNCHANGED vars
WorkersVars == <<part, vars, mapReduceVars>>

\* Every thread runs; a mutex that is free is given to somebody.
WorkersSpec ==
  /\ WorkersInit /\ [][WorkersNext]_WorkersVars
  /\ \A t \in Threads : WF_vars(part = "lock" /\ Step(t))
  /\ WF_mapReduceVars(part = "reduce" /\ MR!MainStep)
  /\ \A m \in 1 .. 2 : WF_mapReduceVars(part = "reduce" /\ MR!MapStep(m))
  /\ \A p \in 0 .. 1 : WF_mapReduceVars(part = "reduce" /\ MR!ReduceStep(p))

\* Every value emitted is reduced once, and mappers and reducers keep out of
\* each other's way (mapreduce.c:47-90): see MapReduce.
Grouped == part = "reduce" => MR!Grouped /\ MR!OneMapperForAll
\* A thread that spins gets the lock (lock_acquire), MR_Run returns
\* (mapreduce.c).
Finishes ==
  /\ part = "lock" => EventuallyServed
  /\ part = "reduce" => MR!Finishes
=============================================================================
