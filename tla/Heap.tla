-------------------------------- MODULE Heap --------------------------------
(***************************************************************************)
(* chutil/src/heap.c: a binary min-heap in an array.  The loops that move  *)
(* cells are actions of their own, one turn each: while one runs, cell     *)
(* hole is free for the item in flight, and in the table is a copy of      *)
(* another cell.  A cell at or past len counts as not written, since its   *)
(* contents must not matter.                                               *)
(***************************************************************************)
EXTENDS Integers, FiniteSets

CONSTANTS
    Value, NoValue,
    Priority,       \* the results of priority_func
    Junk,           \* what an allocated cell holds before it is written
    MaxLen          \* bound: no heap grows beyond this length

ASSUME HeapAssumption ==
    /\ NoValue \notin Value
    /\ Priority \subseteq Nat
    /\ Junk \notin [pri : Priority, val : Value]
    /\ MaxLen \in Nat

NotInUse == -1      \* no iteration since the heap was last modified

Item == [pri : Priority, val : Value]

VARIABLES
    cap, len,   \* hp->cap and hp->len
    table,      \* hp->table, as a function on 0..cap-1
    prio,       \* what priority_func makes of each value now (external)
    pc,         \* "idle", or the loop that runs: "up", "down", "reheap"
    hole,       \* i of hp_bubble_up and hp_pop
    flight,     \* the item that is looking for its place
    end,        \* e of hp_re_heap; 0 outside it
    iter,       \* hp->iter, or NotInUse when the program must reset it first
    out         \* what the last operation handed to the caller, or NoValue

vars == <<cap, len, table, prio, pc, hole, flight, end, iter, out>>

TypeOK ==
    /\ cap \in Nat \ {0}
    /\ len \in 0..cap
    /\ table \in [0..(cap - 1) -> Item \cup {Junk}]
    /\ prio \in [Value -> Priority]
    /\ pc \in {"idle", "up", "down", "reheap"}
    /\ hole \in 0..cap
    /\ flight \in Item \cup {Junk}
    /\ end \in 0..cap
    /\ iter \in (0..cap) \cup {NotInUse}
    /\ out \in Value \cup {NoValue}

\* new_heap.
Init ==
    /\ cap = 1
    /\ len = 0
    /\ table = [i \in 0..0 |-> Junk]
    /\ prio \in [Value -> Priority]
    /\ pc = "idle"
    /\ hole = 0
    /\ flight = Junk
    /\ end = 0
    /\ iter = 0
    /\ out = NoValue

\* Mutant: the parent's index as in a table that starts at 1.
ParentFromOne(i) == i \div 2

\* The parent's index, as hp_bubble_up computes it.
Parent(i) == IF i % 2 = 0 THEN i \div 2 - 1 ELSE i \div 2

\* safe_realloc to twice the size keeps the cells there were.
Grow == [i \in 0..(2 * cap - 1) |-> IF i < cap THEN table[i] ELSE Junk]

----------------------------------------------------------------------------
\* Mutant: the heap grows one push too late.
HpPushLate(v) ==
    /\ pc = "idle" /\ len < MaxLen
    /\ IF len > cap THEN cap' = 2 * cap /\ table' = Grow
                    ELSE UNCHANGED <<cap, table>>
    /\ len' = len + 1
    /\ flight' = [pri |-> prio[v], val |-> v]
    /\ hole' = len
    /\ pc' = "up"
    /\ out' = NoValue
    /\ iter' = NotInUse
    /\ UNCHANGED <<prio, end>>

HpPush(v) ==
    /\ pc = "idle" /\ len < MaxLen
    /\ IF len = cap THEN cap' = 2 * cap /\ table' = Grow
                    ELSE UNCHANGED <<cap, table>>
    /\ len' = len + 1
    /\ flight' = [pri |-> prio[v], val |-> v]
    /\ hole' = len
    /\ pc' = "up"
    /\ out' = NoValue
    /\ iter' = NotInUse
    /\ UNCHANGED <<prio, end>>

\* hp_bubble_up, one turn: a parent that is greater comes down into the hole.
BubbleUp ==
    /\ pc = "up" /\ hole > 0
    /\ table[Parent(hole)].pri > flight.pri
    /\ table' = [table EXCEPT ![hole] = table[Parent(hole)]]
    /\ hole' = Parent(hole)
    /\ UNCHANGED <<cap, len, prio, pc, flight, end, out, iter>>

\* The item has found its place.  hp_push is done; hp_re_heap goes on with the
\* next cell.
PlaceUp ==
    /\ pc = "up"
    /\ hole > 0 => table[Parent(hole)].pri <= flight.pri
    /\ table' = [table EXCEPT ![hole] = flight]
    /\ IF end = 0 THEN pc' = "idle" /\ UNCHANGED end
                  ELSE pc' = "reheap" /\ end' = end + 1
    /\ hole' = 0
    /\ flight' = Junk
    /\ UNCHANGED <<cap, len, prio, out, iter>>

\* hp_pop of an empty heap and of the only value.
HpPopFew ==
    /\ pc = "idle" /\ len <= 1
    /\ IF len = 0 THEN out' = NoValue /\ UNCHANGED <<len, table, iter>>
                  ELSE /\ out' = table[0].val
                       /\ len' = 0
                       /\ table' = [table EXCEPT ![0] = Junk]
                       /\ iter' = NotInUse
    /\ UNCHANGED <<cap, prio, pc, hole, flight, end>>

\* Else the root is handed out, and the last cell is to take its place.  The
\* code copies it out of the table only at the end; here it is in flight.
HpPop ==
    /\ pc = "idle" /\ len > 1
    /\ out' = table[0].val
    /\ flight' = table[len - 1]
    /\ len' = len - 1
    /\ table' = [table EXCEPT ![len - 1] = Junk]
    /\ hole' = 0
    /\ pc' = "down"
    /\ iter' = NotInUse
    /\ UNCHANGED <<cap, prio, end>>

\* The children of the hole that are less than the item in flight.
Lesser == {c \in {2 * hole + 1, 2 * hole + 2} :
              c < len /\ table[c].pri < flight.pri}

\* Mutant: the left child, whenever it is less.
SwapLeft == CHOOSE c \in Lesser : \A d \in Lesser : c <= d

\* The child to swap with: the right one only if it is less than the left one.
Swap == CHOOSE c \in Lesser :
           \A d \in Lesser : table[c].pri < table[d].pri \/
                             (table[c].pri = table[d].pri /\ c <= d)

BubbleDown ==
    /\ pc = "down" /\ Lesser # {}
    /\ table' = [table EXCEPT ![hole] = table[Swap]]
    /\ hole' = Swap
    /\ UNCHANGED <<cap, len, prio, pc, flight, end, out, iter>>

PlaceDown ==
    /\ pc = "down" /\ Lesser = {}
    /\ table' = [table EXCEPT ![hole] = flight]
    /\ pc' = "idle"
    /\ hole' = 0
    /\ flight' = Junk
    /\ UNCHANGED <<cap, len, prio, end, out, iter>>

HpPeek ==
    /\ pc = "idle"
    /\ out' = IF len = 0 THEN NoValue ELSE table[0].val
    /\ UNCHANGED <<cap, len, table, prio, pc, hole, flight, end, iter>>

\* Mutant: the root's priority is not computed anew.
HpReHeapNotRoot ==
    /\ pc = "idle"
    /\ table' = [i \in DOMAIN table |->
                   IF 0 < i /\ i < len THEN [table[i] EXCEPT !.pri = prio[table[i].val]]
                                       ELSE table[i]]
    /\ end' = 1
    /\ pc' = "reheap"
    /\ out' = NoValue
    /\ iter' = NotInUse
    /\ UNCHANGED <<cap, len, prio, hole, flight>>

\* hp_re_heap: all priorities are computed anew, ...
HpReHeap ==
    /\ pc = "idle"
    /\ table' = [i \in DOMAIN table |->
                   IF i < len THEN [table[i] EXCEPT !.pri = prio[table[i].val]]
                              ELSE table[i]]
    /\ end' = 1
    /\ pc' = "reheap"
    /\ out' = NoValue
    /\ iter' = NotInUse
    /\ UNCHANGED <<cap, len, prio, hole, flight>>

\* ... and the cells bubble up one after the other.
ReHeapCell ==
    /\ pc = "reheap" /\ end < len
    /\ flight' = table[end]
    /\ hole' = end
    /\ pc' = "up"
    /\ UNCHANGED <<cap, len, table, prio, end, out, iter>>

ReHeapDone ==
    /\ pc = "reheap" /\ end >= len
    /\ pc' = "idle"
    /\ end' = 0
    /\ UNCHANGED <<cap, len, table, prio, hole, flight, out, iter>>

\* What a value points to changes, and its priority with it.  No other thread
\* may do this while the heap works.
ChangePriority ==
    /\ pc = "idle"
    /\ \E v \in Value, p \in Priority : prio' = [prio EXCEPT ![v] = p]
    /\ UNCHANGED <<cap, len, table, pc, hole, flight, end, out, iter>>

HpResetIterator ==
    /\ pc = "idle"
    /\ iter' = 0
    /\ out' = NoValue
    /\ UNCHANGED <<cap, len, table, prio, pc, hole, flight, end>>

\* hp_next: cell by cell, up to len.
HpNext ==
    /\ pc = "idle" /\ iter # NotInUse
    /\ IF iter < len THEN out' = table[iter].val /\ iter' = iter + 1
                     ELSE out' = NoValue /\ UNCHANGED iter
    /\ UNCHANGED <<cap, len, table, prio, pc, hole, flight, end>>

\* delete_heap; and new_heap for another.
DeleteHeap ==
    /\ pc = "idle"
    /\ cap' = 1
    /\ len' = 0
    /\ table' = [i \in 0..0 |-> Junk]
    /\ iter' = 0
    /\ out' = NoValue
    /\ UNCHANGED <<prio, pc, hole, flight, end>>

Next ==
    \/ \E v \in Value : HpPush(v)
    \/ BubbleUp \/ PlaceUp
    \/ HpPopFew \/ HpPop \/ BubbleDown \/ PlaceDown
    \/ HpPeek \/ HpResetIterator \/ HpNext \/ DeleteHeap
    \/ HpReHeap \/ ReHeapCell \/ ReHeapDone
    \/ ChangePriority

Spec == Init /\ [][Next]_vars

----------------------------------------------------------------------------
\* Between operations no cell is less than its parent, whatever was pushed,
\* popped and re-heaped: the least is at the root.
Ordered(n) == \A i \in 1..(n - 1) : table[Parent(i)].pri <= table[i].pri

HeapOrdered == pc = "idle" => Ordered(len)

\* Why: while the item in flight has no place yet, the rest is ordered around
\* the hole, and the item is on the right side of the cells it has passed.
\* hp_re_heap extends the ordered part cell by cell.
Span == IF end = 0 \/ pc = "idle" THEN len ELSE IF pc = "up" THEN end + 1 ELSE end

Around(n) ==
    /\ \A i \in 1..(n - 1) :
          hole \notin {i, Parent(i)} => table[Parent(i)].pri <= table[i].pri
    /\ \A i \in 1..(n - 1) : Parent(i) = hole /\ hole > 0 =>
          table[Parent(hole)].pri <= table[i].pri

HeapInv ==
    /\ pc \in {"idle", "reheap"} => Ordered(IF Span < len THEN Span ELSE len)
    /\ pc = "up" =>
          /\ Around(Span)
          /\ \A i \in 1..(Span - 1) : Parent(i) = hole => flight.pri <= table[i].pri
    /\ pc = "down" =>
          /\ Around(len)
          /\ hole > 0 => table[Parent(hole)].pri <= flight.pri

\* The heap is a priority queue.  What it holds is its cells, with the item in
\* flight for the hole.
Cell(i) == IF pc \in {"up", "down"} /\ i = hole THEN flight ELSE table[i]

Bag == [x \in Item |-> Cardinality({i \in 0..(len - 1) : Cell(i) = x})]

\* What the iterator has still to visit.
Left == [x \in Item |-> IF iter = NotInUse THEN 0
                        ELSE Cardinality({i \in iter..(len - 1) : Cell(i) = x})]

ADT == INSTANCE PriorityQueue WITH
    bag <- Bag, left <- Left, iterating <- iter # NotInUse

Queue == ADT!Spec

============================================================================
