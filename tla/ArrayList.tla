----------------------------- MODULE ArrayList -----------------------------
(***************************************************************************)
(* The array list of chutil/src/list.c: an array of cap cells, the first   *)
(* len of them in use, that doubles when a push finds it full.             *)
(***************************************************************************)
EXTENDS Integers, Sequences, ListCommon

CONSTANTS
    Junk,           \* what an allocated cell holds before it is written
    MaxLen          \* bound: no list grows beyond this length

ASSUME ArrayListAssumption ==
    /\ Junk \notin Value \cup {NoValue}
    /\ MaxLen \in Nat

VARIABLES
    cap, len,   \* al->cap and al->len
    arr,        \* al->arr, as a function on 0..cap-1
    iterInd,    \* al->iter_ind, of which the constructor makes nothing
    iterating   \* history: is the program iterating (see ListADT)?

alState == <<cap, len, arr, iterInd, iterating>>
alVars == <<cap, len, arr, iterInd, iterating, out>>

AlTypeOK ==
    /\ cap \in Nat \ {0}
    /\ len \in 0..cap
    /\ arr \in [0..(cap - 1) -> Value \cup {Junk}]
    /\ iterInd \in Nat
    /\ iterating \in BOOLEAN
    /\ out \in Value \cup {NoValue, Junk}

\* new_array_list.  The iterator starts wherever the memory says.
AlInit ==
    /\ cap = 1
    /\ len = 0
    /\ arr = [i \in 0..0 |-> Junk]
    /\ iterInd \in 0..MaxLen
    /\ iterating = FALSE
    /\ out = NoValue

\* Mutant: a resize loses the cells.
GrowEmpty == [i \in 0..(2 * cap - 1) |-> Junk]

\* safe_realloc to twice the size keeps the cells there were.
Grow == [i \in 0..(2 * cap - 1) |-> IF i < cap THEN arr[i] ELSE Junk]

\* Mutant: the list grows one push too late.
AlPushLate(v) ==
    /\ len < MaxLen
    /\ IF len > cap
         THEN cap' = 2 * cap /\ arr' = [Grow EXCEPT ![len] = v]
         ELSE UNCHANGED cap /\ arr' = [arr EXCEPT ![len] = v]
    /\ len' = len + 1
    /\ iterating' = FALSE
    /\ out' = NoValue
    /\ UNCHANGED iterInd

AlPush(v) ==
    /\ len < MaxLen
    /\ IF len = cap
         THEN cap' = 2 * cap /\ arr' = [Grow EXCEPT ![len] = v]
         ELSE UNCHANGED cap /\ arr' = [arr EXCEPT ![len] = v]
    /\ len' = len + 1
    /\ iterating' = FALSE
    /\ out' = NoValue
    /\ UNCHANGED iterInd

AlPop ==
    /\ IF len = 0
         THEN out' = NoValue /\ UNCHANGED len
         ELSE out' = arr[len - 1] /\ len' = len - 1
    /\ iterating' = FALSE
    /\ UNCHANGED <<cap, arr, iterInd>>

\* Mutant: the last cell in use is not moved down.
AlPollShort ==
    /\ IF len = 0
         THEN out' = NoValue /\ UNCHANGED <<len, arr>>
         ELSE /\ out' = arr[0]
              /\ arr' = [i \in DOMAIN arr |-> IF i < len - 2 THEN arr[i + 1] ELSE arr[i]]
              /\ len' = len - 1
    /\ iterating' = FALSE
    /\ UNCHANGED <<cap, iterInd>>

\* Each cell but the last in use takes the value of the one after it.
AlPoll ==
    /\ IF len = 0
         THEN out' = NoValue /\ UNCHANGED <<len, arr>>
         ELSE /\ out' = arr[0]
              /\ arr' = [i \in DOMAIN arr |-> IF i < len - 1 THEN arr[i + 1] ELSE arr[i]]
              /\ len' = len - 1
    /\ iterating' = FALSE
    /\ UNCHANGED <<cap, iterInd>>

\* al_get and al_get_copy; the index is the caller's responsibility.
AlGet(i) ==
    /\ i < len
    /\ out' = arr[i]
    /\ UNCHANGED <<cap, len, arr, iterInd, iterating>>

AlSet(i, v) ==
    /\ i < len
    /\ arr' = [arr EXCEPT ![i] = v]
    /\ out' = NoValue
    /\ UNCHANGED <<cap, len, iterInd, iterating>>

AlResetIterator ==
    /\ iterInd' = 0
    /\ iterating' = TRUE
    /\ out' = NoValue
    /\ UNCHANGED <<cap, len, arr>>

AlNextCell ==
    /\ iterating
    /\ IF iterInd < len
         THEN out' = arr[iterInd] /\ iterInd' = iterInd + 1
         ELSE out' = NoValue /\ UNCHANGED iterInd
    /\ UNCHANGED <<cap, len, arr, iterating>>

\* delete_array_list, which frees the cells; and new_array_list for another.
AlDelete ==
    /\ cap' = 1
    /\ len' = 0
    /\ arr' = [i \in 0..0 |-> Junk]
    /\ iterInd' \in 0..MaxLen
    /\ iterating' = FALSE
    /\ out' = NoValue

AlNext ==
    \/ AlDelete
    \/ AlPop \/ AlPoll \/ AlResetIterator \/ AlNextCell
    \/ \E v \in Value : AlPush(v)
    \/ \E i \in 0..(len - 1) : AlGet(i) \/ \E v \in Value : AlSet(i, v)

AlSpec == AlInit /\ [][AlNext]_alVars

----------------------------------------------------------------------------
\* No operation hands out, or leaves in use, a cell that was never written:
\* not after a resize, and not after any run of pushes, pops and polls.
NoJunk == out # Junk /\ \A i \in 0..(len - 1) : arr[i] # Junk

\* The array list is a list.
AlCells == [i \in 1..len |-> arr[i - 1]]
AlVisit == IF iterating THEN iterInd ELSE -1

AlADT == INSTANCE ListADT WITH cells <- AlCells, visit <- AlVisit

AlList == AlADT!Spec

============================================================================
