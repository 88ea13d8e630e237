--------------------------- MODULE PriorityQueue ---------------------------
(***************************************************************************)
(* What chutil/heap.h promises of a heap_t: a bag of values, each with the *)
(* priority it had when it was pushed or when the heap was last re-heaped, *)
(* from which hp_pop takes one of the least ("0 will be the highest"), and *)
(* an iterator that hands out each value once, in no particular order.     *)
(***************************************************************************)
EXTENDS Integers, FiniteSets

CONSTANTS Value, Priority, NoValue

VARIABLES
    bag,        \* how many there are of each value with each priority
    prio,       \* what priority_func makes of each value now
    left,       \* what the iterator has not handed out yet, as a bag
    iterating,  \* has it been reset since the heap was last modified?
    out         \* what the last operation handed to the caller, or NoValue

vars == <<bag, prio, left, iterating, out>>

Item == [pri : Priority, val : Value]

In(b) == {x \in Item : b[x] > 0}
Least == LET present == In(bag)
         IN {x \in present : \A y \in present : x.pri <= y.pri}

Nothing == [x \in Item |-> 0]

Init ==
    /\ bag = Nothing
    /\ prio \in [Value -> Priority]
    /\ left = Nothing
    /\ iterating = TRUE
    /\ out = NoValue

Modified == iterating' = FALSE /\ left' = Nothing

Push(v) ==
    /\ out' = NoValue
    /\ Modified
    /\ UNCHANGED prio
    /\ bag' = [bag EXCEPT ![[pri |-> prio[v], val |-> v]] = @ + 1]

Pop ==
    /\ out' # NoValue
    /\ Modified
    /\ UNCHANGED prio
    /\ \E x \in Least : out' = x.val /\ bag' = [bag EXCEPT ![x] = @ - 1]

Peek ==
    /\ UNCHANGED <<iterating, prio, bag, left>>
    /\ \E x \in Least : out' = x.val

\* There is nothing to pop or peek at.
Empty ==
    /\ out' = NoValue
    /\ UNCHANGED <<iterating, prio, bag, left>>
    /\ In(bag) = {}

ResetIterator ==
    /\ out' = NoValue
    /\ iterating' = TRUE
    /\ UNCHANGED <<prio, bag>>
    /\ left' = bag

\* A value not handed out before, or none once all have been.
NextValue ==
    /\ iterating
    /\ UNCHANGED <<iterating, prio, bag>>
    /\ IF left = Nothing
       THEN out' = NoValue /\ UNCHANGED left
       ELSE \E x \in In(left) :
              /\ out' = x.val
              /\ left' = [left EXCEPT ![x] = @ - 1]

\* The heap is deleted, and the program makes another.
Renew ==
    /\ out' = NoValue
    /\ iterating' = TRUE
    /\ UNCHANGED prio
    /\ bag' = Nothing
    /\ left' = Nothing

\* A value's priority changes, behind the heap's back, ...
ChangePriority ==
    /\ \E v \in Value, p \in Priority : prio' = [prio EXCEPT ![v] = p]
    /\ UNCHANGED <<out, iterating, bag, left>>

\* All that a bag holds of v, whatever the priority, numbered for each priority.
All(b, v) == UNION {{q} \X (1..b[[pri |-> q, val |-> v]]) : q \in Priority}

\* ... and the heap takes note of it.
ReHeap ==
    /\ out' = NoValue
    /\ Modified
    /\ UNCHANGED prio
    /\ LET old == bag IN
       bag' = [x \in Item |->
                 IF x.pri = prio[x.val] THEN Cardinality(All(old, x.val)) ELSE 0]

Next ==
    \/ Pop \/ Peek \/ Empty \/ ResetIterator \/ NextValue \/ Renew
    \/ ChangePriority \/ ReHeap
    \/ \E v \in Value : Push(v)

Spec == Init /\ [][Next]_vars

============================================================================
