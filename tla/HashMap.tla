------------------------------- MODULE HashMap -------------------------------
(***************************************************************************)
(* The hash table of "P3A: MapReduce" (hashmap.c): open addressing with    *)
(* linear probing, doubled when it is more than half full, under one       *)
(* reader-writer lock.  MapGet gives the lock up before it follows the     *)
(* pointer that it has found.                                              *)
(***************************************************************************)
EXTENDS Integers, FiniteSets, Sequences, FiniteSetsExt

CONSTANTS
  Workers, Keys, Values, NoValue,
  ValuesFor,    \* the values that are put for each key
  MAP_INIT_CAPACITY,
  Hashes        \* the hash functions, before the % capacity

HashAssumption ==
  /\ IsFiniteSet(Keys) /\ NoValue \notin Values
  /\ ValuesFor \in [Keys -> SUBSET Values]
  /\ MAP_INIT_CAPACITY \in Nat /\ MAP_INIT_CAPACITY >= 3
  /\ Hashes \subseteq [Keys -> Nat]

VARIABLES
  hash,         \* the hash function
  contents,     \* hashmap->contents
  capacity, size,
  table,        \* which allocation contents is, counted by resize_map
  writer,       \* the thread that holds rwlock for writing, or "none"
  readers,      \* the threads that hold it for reading
  pc,           \* where each thread is
  arg,          \* the pair that it puts, or the key that it gets
  at,           \* h of MapGet, and the table that it reads without the lock
  got,          \* what its last MapGet returned
  loading       \* whether threads still put

lockVars == <<writer, readers>>
mapVars == <<contents, capacity, size, table>>
vars == <<hash, mapVars, lockVars, pc, arg, at, got, loading>>

Pairs == [key : Keys, value : Values]
Null == [key |-> "null"]

TypeOK ==
  /\ size \in Nat /\ capacity \in Nat
  /\ contents \in [0 .. capacity - 1 -> Pairs \cup {Null}]
  /\ size = Cardinality({h \in 0 .. capacity - 1 : contents[h] # Null})
  /\ table \in Nat
  /\ writer \in Workers \cup {"none"} /\ readers \subseteq Workers
  /\ pc \in [Workers -> {"idle", "put", "resize", "place", "store",
                         "get", "deref", "load"}]
  /\ got \in [Workers -> Values \cup {NoValue, "undefined"}]

Init ==
  /\ hash \in Hashes
  /\ capacity = MAP_INIT_CAPACITY /\ size = 0 /\ table = 0
  /\ contents = [h \in 0 .. MAP_INIT_CAPACITY - 1 |-> Null]
  /\ writer = "none" /\ readers = {}
  /\ pc = [t \in Workers |-> "idle"]
  /\ arg = [t \in Workers |-> Null]
  /\ at = [t \in Workers |-> <<0, 0>>]
  /\ got = [t \in Workers |-> NoValue]
  /\ loading = TRUE

Goto(t, l) == pc' = [pc EXCEPT ![t] = l]

-----------------------------------------------------------------------------
(* Probing                                                                 *)

Hash(k, cap) == hash[k] % cap

\* The slots of a table in the order in which they are probed for k.
Slot(k, cap, j) == (Hash(k, cap) + j) % cap

\* The first slot that is empty or has k, the end of the loops of MapPut and
\* MapGet; without one they would go on for ever.
Ends(tab, cap, k) ==
  {j \in 0 .. cap - 1 : \/ tab[Slot(k, cap, j)] = Null
                        \/ tab[Slot(k, cap, j)].key = k}
Find(tab, cap, k) == Slot(k, cap, Min(Ends(tab, cap, k)))

FirstEmpty(tab, cap, k) ==
  Slot(k, cap, Min({j \in 0 .. cap - 1 : tab[Slot(k, cap, j)] = Null}))


\* resize_map: the entries of the old table, one after the other.
Rehashed(cap) ==
  LET step[i \in 0 .. capacity] ==
        IF i = 0 THEN [h \in 0 .. cap - 1 |-> Null]
        ELSE IF contents[i - 1] = Null THEN step[i - 1]
        ELSE [step[i - 1] EXCEPT
               ![FirstEmpty(step[i - 1], cap, contents[i - 1].key)] =
                 contents[i - 1]]
  IN step[capacity]

-----------------------------------------------------------------------------
(* MapPut                                                                  *)

StartPut(t, k, v) ==
  /\ pc[t] = "idle" /\ loading
  /\ arg' = [arg EXCEPT ![t] = [key |-> k, value |-> v]]
  /\ Goto(t, "put")
  /\ UNCHANGED <<hash, mapVars, lockVars, at, got, loading>>

RwlockFree == writer = "none" /\ readers = {}

HalfFull == size > capacity \div 2

LockPut(t) ==
  /\ pc[t] = "put" /\ RwlockFree
  /\ writer' = t
  /\ Goto(t, IF HalfFull THEN "resize" ELSE "place")
  /\ UNCHANGED <<hash, mapVars, readers, arg, at, got, loading>>

Resize(t) ==
  /\ pc[t] = "resize"
  /\ contents' = Rehashed(2 * capacity)
  /\ capacity' = 2 * capacity
  /\ table' = table + 1
  /\ Goto(t, "place")
  /\ UNCHANGED <<hash, size, lockVars, arg, at, got, loading>>

\* The loop of MapPut.
Place(t) ==
  /\ pc[t] = "place"
  /\ at' = [at EXCEPT ![t][1] = Find(contents, capacity, arg[t].key)]
  /\ Goto(t, "store")
  /\ UNCHANGED <<hash, mapVars, lockVars, arg, got, loading>>

OneMore(h) == IF contents[h] = Null THEN size + 1 ELSE size

Store(t) ==
  /\ pc[t] = "store"
  /\ LET h == at[t][1] IN
       contents' = [contents EXCEPT ![h] = arg[t]] /\ size' = OneMore(h)
  /\ writer' = "none"
  /\ arg' = [arg EXCEPT ![t] = Null]
  /\ at' = [at EXCEPT ![t] = <<0, 0>>]
  /\ Goto(t, "idle")
  /\ UNCHANGED <<hash, capacity, table, readers, got, loading>>

-----------------------------------------------------------------------------
(* MapGet                                                                  *)

\* The writing threads are joined before others get (main of the test joins them).
Loaded ==
  /\ loading /\ \A t \in Workers : pc[t] = "idle"
  /\ loading' = FALSE
  /\ UNCHANGED <<hash, mapVars, lockVars, pc, arg, at, got>>

Get(t, k) ==
  /\ pc[t] = "idle" /\ ~loading
  /\ writer = "none"
  /\ readers' = readers \cup {t}
  /\ arg' = [arg EXCEPT ![t] = [key |-> k]]
  /\ Goto(t, "get")
  /\ UNCHANGED <<hash, mapVars, writer, at, got, loading>>

\* The loop, and the unlock.
Probe(t) ==
  /\ pc[t] = "get"
  /\ LET h == Find(contents, capacity, arg[t].key) IN
       IF contents[h] = Null
       THEN /\ got' = [got EXCEPT ![t] = NoValue]
            /\ Goto(t, "idle") /\ UNCHANGED at
       ELSE /\ at' = [at EXCEPT ![t] = <<h, 0>>]
            /\ Goto(t, "deref") /\ UNCHANGED got
  /\ readers' = readers \ {t}
  /\ UNCHANGED <<hash, mapVars, writer, arg, loading>>

\* hashmap->contents[h]->value, without the lock.
LoadTable(t) ==
  /\ pc[t] = "deref"
  /\ at' = [at EXCEPT ![t][2] = table]
  /\ Goto(t, "load")
  /\ UNCHANGED <<hash, mapVars, lockVars, arg, got, loading>>

\* A slot that is NULL or a table that has been freed has no value.
LoadValue(t) ==
  /\ pc[t] = "load"
  /\ LET h == at[t][1] IN
       got' = [got EXCEPT ![t] =
                 IF at[t][2] # table \/ contents[h] = Null THEN "undefined"
                 ELSE contents[h].value]
  /\ at' = [at EXCEPT ![t] = <<0, 0>>]
  /\ Goto(t, "idle")
  /\ UNCHANGED <<hash, mapVars, lockVars, arg, loading>>

Step(t) == LockPut(t) \/ Resize(t) \/ Place(t) \/ Store(t) \/ Probe(t)
           \/ LoadTable(t) \/ LoadValue(t)

Next == \/ Loaded
        \/ \E t \in Workers : \/ Step(t)
                              \/ \E k \in Keys : Get(t, k)
                              \/ \E k \in Keys : \E v \in ValuesFor[k] :
                                   StartPut(t, k, v)

Spec == Init /\ [][Next]_vars

-----------------------------------------------------------------------------
(* Properties                                                              *)

\* The loops of MapPut and MapGet end (hashmap.c:40,63): a slot is empty
\* whenever somebody probes, in the old table and in the doubled one, and the
\* table is never left more than one entry over half full.
ProbesEnd ==
  /\ TypeOK
  /\ \E h \in 0 .. capacity - 1 : contents[h] = Null
  /\ size <= capacity \div 2 + 1

Lookup(k) ==
  LET entry == contents[Find(contents, capacity, k)] IN
  IF entry = Null THEN NoValue ELSE entry.value

CMap == INSTANCE ConcurrentMap WITH map <- [k \in Keys |-> Lookup(k)]

\* The map of hashmap.h: a put changes the value of its key and of no other,
\* through collisions, updates and resizing, and a get after the puts returns
\* it.  (MapGet follows its pointer without the lock; no caller in the
\* repository gets while another thread puts.)
Coherent == CMap!Spec
=============================================================================
