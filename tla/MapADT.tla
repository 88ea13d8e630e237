------------------------------- MODULE MapADT -------------------------------
(***************************************************************************)
(* What chutil/map.h promises of a hash_map_t: a map from keys to values,  *)
(* and an iterator that returns every pair once, in no particular order,   *)
(* as long as the map is not modified meanwhile.                           *)
(***************************************************************************)
CONSTANTS Key, Value, NoValue

VARIABLES
    map,        \* the value of each key, or NoValue
    visited,    \* the keys the iterator has returned
    iterating,  \* has the iterator been reset since the map was last modified?
    out         \* the pair the last operation found, as a set of at most one

vars == <<map, visited, iterating, out>>

Found(k) == IF map[k] = NoValue THEN {} ELSE {<<k, map[k]>>}

Keys == {k \in Key : map[k] # NoValue}

Init ==
    /\ map = [k \in Key |-> NoValue]
    /\ visited = {}
    /\ iterating = FALSE
    /\ out = {}

Modified == iterating' = FALSE /\ visited' = {}

Put(k, v) ==
    /\ map' = [map EXCEPT ![k] = v]
    /\ out' = {}
    /\ Modified

Get(k) ==
    /\ out' = Found(k)
    /\ UNCHANGED <<map, visited, iterating>>

\* Removing a key says whether it was there.
Remove(k) ==
    /\ map' = [map EXCEPT ![k] = NoValue]
    /\ out' = Found(k)
    /\ Modified

ResetIterator ==
    /\ iterating' = TRUE
    /\ visited' = {}
    /\ out' = {}
    /\ UNCHANGED map

\* A pair not returned before, or none once all have been.
NextKvp ==
    /\ iterating
    /\ IF visited = Keys
         THEN out' = {} /\ UNCHANGED visited
         ELSE \E k \in Keys \ visited : out' = Found(k) /\ visited' = visited \cup {k}
    /\ UNCHANGED <<map, iterating>>

\* The map is deleted, and the program makes another.
Renew ==
    /\ map' = [k \in Key |-> NoValue]
    /\ out' = {}
    /\ Modified

Next ==
    \/ Renew
    \/ ResetIterator \/ NextKvp
    \/ \E k \in Key : Get(k) \/ Remove(k) \/ \E v \in Value : Put(k, v)

Spec == Init /\ [][Next]_vars

=============================================================================
