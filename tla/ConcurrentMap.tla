---------------------------- MODULE ConcurrentMap ----------------------------
(***************************************************************************)
(* What hashmap.h promises: a map from keys to values, in which a put and  *)
(* a get each take effect at one moment.                                   *)
(***************************************************************************)
CONSTANTS Workers, Keys, Values, NoValue

VARIABLES
  map,   \* the value of each key, NoValue when there is none
  got    \* what the last get of each thread returned

mapVars == <<map, got>>

Init == map = [k \in Keys |-> NoValue] /\ got = [t \in Workers |-> NoValue]

Put(k, v) == map' = [map EXCEPT ![k] = v] /\ UNCHANGED got

Get(t, k) == got' = [got EXCEPT ![t] = map[k]] /\ UNCHANGED map

Next == \E k \in Keys : \/ \E v \in Values : Put(k, v)
                        \/ \E t \in Workers : Get(t, k)

Spec == Init /\ [][Next]_mapVars
=============================================================================
