------------------------------ MODULE MCSharing -------------------------------
(* The threads of a process, the test programs for them, and threads that  *)
(* share a hash map: a behaviour has one of the three.                     *)
EXTENDS ThreadTests

ByOne == {1, -1}
\* Programs that do not use the lock only grow.
Racing == INSTANCE Threads WITH GrowArgs <- {1}

\* HashMap: key k has two values, and its slot is the last of the table, of 3
\* and of 6; l and m can be exchanged.
Colliding ==
  {h \in [{"k", "l", "m"} -> {0, 5}] : h["k"] = 5 /\ h["l"] <= h["m"]}
VARIABLES part, hash, contents, capacity, size, table, writer, readers, at, arg, where,
          got, loading
hashVars == <<hash, contents, capacity, size, table, writer, readers, at, arg,
              where, got, loading>>
HM == INSTANCE HashMap WITH
        Workers <- {"s", "t"}, Keys <- {"k", "l", "m"},
        Values <- {"a", "b", "c", "d"},
        ValuesFor <- [k |-> {"a", "b"}, l |-> {"c"}, m |-> {"d"}], NoValue <- "null",
        MAP_INIT_CAPACITY <- 3, Hashes <- Colliding, pc <- where
ASSUME HM!HashAssumption

SharingInit ==
  /\ Init /\ HM!Init /\ TestsInit
  /\ part \in {"map", "threads", "racing", "tests"}
  /\ keeps = IF part \in {"map", "racing"} THEN {"join"} ELSE {"join", "lock"}
  /\ part # "map" => hash = [k |-> 5, l |-> 0, m |-> 0]
  /\ part # "tests" => test = test_1
SharingNext ==
  /\ UNCHANGED part
  /\ \/ part = "threads" /\ Next /\ UNCHANGED <<hashVars, testVars>>
     \/ part = "racing" /\ Racing!Next /\ UNCHANGED <<hashVars, testVars>>
     \/ part = "tests" /\ TestsNext /\ UNCHANGED hashVars
     \/ part = "map" /\ HM!Next /\ UNCHANGED <<vars, testVars>>
SharingSpec == SharingInit /\ [][SharingNext]_<<part, vars, testVars, hashVars>>

\* The hash table is a map (hashmap.c): HashMap implements ConcurrentMap.
Coherent == HM!CMap!Init /\ [][part = "map" => HM!CMap!Next]_hashVars
=============================================================================
