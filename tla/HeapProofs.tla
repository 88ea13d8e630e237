----------------------------- MODULE HeapProofs -----------------------------
(***************************************************************************)
(* The heap of chutil/src/heap.c keeps its order through every turn of its *)
(* loops, and is a priority queue.                                         *)
(***************************************************************************)
EXTENDS Heap, TLAPS, FiniteSetTheorems, WellFoundedInduction

----------------------------------------------------------------------------
(* The places of a binary heap. *)

\* A cell is one of the two children of its parent.
LEMMA ParentOf ==
    ASSUME NEW i \in Nat, i > 0
    PROVE  /\ Parent(i) \in Nat
           /\ Parent(i) < i
           /\ i = 2 * Parent(i) + 1 \/ i = 2 * Parent(i) + 2
  BY SMT DEF Parent

\* Swap is the least of the children that are less.
LEMMA SwapIsLeast ==
    ASSUME Lesser # {}, hole \in Nat,
           \A c \in Lesser : table[c].pri \in Nat
    PROVE  /\ Swap \in Lesser
           /\ \A d \in Lesser : table[Swap].pri <= table[d].pri
  <1> DEFINE Best(c) == \A d \in Lesser : table[c].pri < table[d].pri \/
                                          (table[c].pri = table[d].pri /\ c <= d)
             l == 2 * hole + 1
             r == 2 * hole + 2
  <1>1. Lesser \subseteq {l, r} /\ l \in Nat /\ r \in Nat /\ l < r
    BY DEF Lesser
  <1>2. \E c \in Lesser : Best(c)
    <2>1. CASE l \in Lesser /\ r \in Lesser
      <3>1. CASE table[l].pri <= table[r].pri
        BY <1>1, <2>1, <3>1
      <3>2. CASE table[r].pri < table[l].pri
        BY <1>1, <2>1, <3>2
      <3> QED
        BY <2>1, <3>1, <3>2
    <2>2. CASE l \notin Lesser
      <3>1. Lesser = {r}
        BY <1>1, <2>2
      <3> QED
        BY <1>1, <3>1
    <2>3. CASE r \notin Lesser
      <3>1. Lesser = {l}
        BY <1>1, <2>3
      <3> QED
        BY <1>1, <3>1
    <2> QED
      BY <2>1, <2>2, <2>3
  <1>3. Swap \in Lesser /\ Best(Swap)
    BY <1>2, Zenon DEF Swap
  <1> QED
    BY <1>1, <1>3

----------------------------------------------------------------------------
(* The inductive invariant. *)

\* What the loops know of each other: a heap at rest has nothing in flight, the
\* hole is a cell of the part that is being ordered, and only it may not have
\* been written.  While cells move no iteration is under way.
Shape ==
    /\ pc = "idle" => end = 0 /\ hole = 0
    /\ pc = "reheap" => end > 0 /\ hole = 0
    /\ pc = "down" => end = 0
    /\ pc = "up" => end = 0 \/ end < len
    /\ pc \in {"up", "down"} => flight \in Item /\ hole < Span /\ Span <= len
    /\ pc # "idle" => iter = NotInUse
    /\ \A i \in 0..(len - 1) : Cell(i) \in Item

IInv == TypeOK /\ Shape /\ HeapInv

LEMMA InitInv == Init => IInv
  BY DEF Init, IInv, TypeOK, Shape, HeapInv, Ordered, Around, Span, Cell, NotInUse

LEMMA StepType == TypeOK /\ Shape /\ [Next]_vars => TypeOK'
  <1> SUFFICES ASSUME TypeOK, Shape, [Next]_vars
               PROVE  TypeOK'
    OBVIOUS
  <1> USE HeapAssumption DEF TypeOK, Shape, Span, NotInUse
  <1>1. ASSUME NEW v \in Value, HpPush(v)
        PROVE  TypeOK'
    <2>1. [pri |-> prio[v], val |-> v] \in Item
      BY DEF Item
    <2>2. CASE len = cap
      BY <1>1, <2>1, <2>2 DEF HpPush, Grow
    <2>3. CASE len # cap
      BY <1>1, <2>1, <2>3 DEF HpPush
    <2> QED
      BY <2>2, <2>3
  <1>2. CASE BubbleUp
    <2>1. Parent(hole) \in 0..(cap - 1) /\ hole \in 0..(cap - 1)
      BY <1>2, ParentOf DEF BubbleUp
    <2> QED
      BY <1>2, <2>1 DEF BubbleUp
  <1>3. CASE PlaceUp
    BY <1>3 DEF PlaceUp
  <1>4. CASE HpPopFew
    <2>1. CASE len = 0
      BY <1>4, <2>1 DEF HpPopFew
    <2>2. CASE len # 0
      BY <1>4, <2>2 DEF HpPopFew, Cell, Item
    <2> QED
      BY <2>1, <2>2
  <1>5. CASE HpPop
    <2>1. table[0] \in Item
      BY <1>5 DEF HpPop, Cell
    <2>2. out' \in Value
      BY <1>5, <2>1 DEF HpPop, Item
    <2> QED
      BY <1>5, <2>2 DEF HpPop
  <1>6. CASE BubbleDown
    <2>1. \A c \in Lesser : c \in 0..(len - 1) /\ c # hole
      BY DEF Lesser
    <2>2. \A c \in Lesser : table[c].pri \in Nat
      BY <1>6, <2>1 DEF BubbleDown, Cell, Item
    <2>3. Swap \in 0..(cap - 1)
      BY <1>6, <2>1, <2>2, SwapIsLeast DEF BubbleDown
    <2> QED
      BY <1>6, <2>3 DEF BubbleDown
  <1>7. CASE PlaceDown
    BY <1>7 DEF PlaceDown
  <1>8. CASE HpPeek
    <2>1. len # 0 => table[0].val \in Value
      BY <1>8 DEF HpPeek, Cell, Item
    <2> QED
      BY <1>8, <2>1 DEF HpPeek
  <1>9. CASE HpReHeap
    <2>1. \A i \in 0..(len - 1) : [table[i] EXCEPT !.pri = prio[table[i].val]] \in Item
      BY <1>9 DEF HpReHeap, Cell, Item
    <2> QED
      BY <1>9, <2>1 DEF HpReHeap
  <1>10. CASE ReHeapCell
    BY <1>10 DEF ReHeapCell
  <1>11. CASE ReHeapDone
    BY <1>11 DEF ReHeapDone
  <1>12. CASE ChangePriority
    BY <1>12 DEF ChangePriority
  <1>13. CASE HpResetIterator
    BY <1>13 DEF HpResetIterator
  <1>14. CASE HpNext
    <2>1. iter < len => table[iter].val \in Value
      BY <1>14 DEF HpNext, Cell, Item
    <2> QED
      BY <1>14, <2>1 DEF HpNext
  <1>15. CASE DeleteHeap
    BY <1>15 DEF DeleteHeap
  <1>16. CASE UNCHANGED vars
    BY <1>16 DEF vars
  <1> QED
    BY <1>1, <1>2, <1>3, <1>4, <1>5, <1>6, <1>7, <1>8, <1>9, <1>10, <1>11,
       <1>12, <1>13, <1>14, <1>15, <1>16 DEF Next

LEMMA StepShape == TypeOK /\ Shape /\ [Next]_vars => Shape'
  <1> SUFFICES ASSUME TypeOK, Shape, [Next]_vars
               PROVE  Shape'
    OBVIOUS
  <1> USE HeapAssumption DEF TypeOK, Shape, Span, NotInUse, Cell
  <1>1. ASSUME NEW v \in Value, HpPush(v)
        PROVE  Shape'
    <2>1. [pri |-> prio[v], val |-> v] \in Item
      BY DEF Item
    <2>2. CASE len = cap
      BY <1>1, <2>1, <2>2 DEF HpPush, Grow
    <2>3. CASE len # cap
      BY <1>1, <2>1, <2>3 DEF HpPush
    <2> QED
      BY <2>2, <2>3
  <1>2. CASE BubbleUp
    <2>1. Parent(hole) \in 0..(hole - 1) /\ hole \in 0..(cap - 1)
      BY <1>2, ParentOf DEF BubbleUp
    <2> QED
      BY <1>2, <2>1 DEF BubbleUp
  <1>3. CASE PlaceUp
    BY <1>3 DEF PlaceUp
  <1>4. CASE HpPopFew
    BY <1>4 DEF HpPopFew
  <1>5. CASE HpPop
    BY <1>5 DEF HpPop
  <1>6. CASE BubbleDown
    <2>1. \A c \in Lesser : c \in 0..(len - 1) /\ c # hole
      BY DEF Lesser
    <2>2. \A c \in Lesser : table[c].pri \in Nat
      BY <1>6, <2>1 DEF BubbleDown, Item
    <2>3. Swap \in 0..(len - 1) /\ Swap # hole
      BY <1>6, <2>1, <2>2, SwapIsLeast DEF BubbleDown
    <2> QED
      BY <1>6, <2>3 DEF BubbleDown
  <1>7. CASE PlaceDown
    BY <1>7 DEF PlaceDown
  <1>8. CASE HpPeek
    BY <1>8 DEF HpPeek
  <1>9. CASE HpReHeap
    <2>1. \A i \in 0..(len - 1) : [table[i] EXCEPT !.pri = prio[table[i].val]] \in Item
      BY <1>9 DEF HpReHeap, Item
    <2> QED
      BY <1>9, <2>1 DEF HpReHeap
  <1>10. CASE ReHeapCell
    BY <1>10 DEF ReHeapCell
  <1>11. CASE ReHeapDone
    BY <1>11 DEF ReHeapDone
  <1>12. CASE ChangePriority
    BY <1>12 DEF ChangePriority
  <1>13. CASE HpResetIterator
    BY <1>13 DEF HpResetIterator
  <1>14. CASE HpNext
    BY <1>14 DEF HpNext
  <1>15. CASE DeleteHeap
    BY <1>15 DEF DeleteHeap
  <1>16. CASE UNCHANGED vars
    BY <1>16 DEF vars
  <1> QED
    BY <1>1, <1>2, <1>3, <1>4, <1>5, <1>6, <1>7, <1>8, <1>9, <1>10, <1>11,
       <1>12, <1>13, <1>14, <1>15, <1>16 DEF Next

\* The cells that have a parent, and the priorities that the loops compare.
LEMMA Comparable ==
    ASSUME TypeOK, Shape
    PROVE  /\ \A i \in 0..(len - 1) : Cell(i).pri \in Nat
           /\ flight \in Item => flight.pri \in Nat
           /\ \A i \in 1..(len - 1) : Parent(i) \in 0..(len - 1) /\ Parent(i) < i
  <1>1. \A x \in Item : x.pri \in Nat
    BY HeapAssumption DEF Item
  <1>2. len \in Nat
    BY DEF TypeOK
  <1>3. \A i \in 1..(len - 1) : Parent(i) \in 0..(len - 1) /\ Parent(i) < i
    BY <1>2, ParentOf
  <1> QED
    BY <1>1, <1>3 DEF Shape

LEMMA StepHeapInv == IInv /\ [Next]_vars => HeapInv'
  <1> SUFFICES ASSUME IInv, [Next]_vars
               PROVE  HeapInv'
    OBVIOUS
  <1> USE DEF IInv
  <1>a. TypeOK' /\ Shape'
    BY StepType, StepShape
  <1>b. len \in Nat /\ \A i \in 1..(len - 1) : Parent(i) \in 0..(len - 1) /\ Parent(i) < i
    BY Comparable DEF TypeOK
  <1>1. ASSUME NEW v \in Value, HpPush(v)
        PROVE  HeapInv'
    <2>1. Ordered(len) /\ len' = len + 1 /\ hole' = len /\ pc' = "up" /\ end' = 0
      BY <1>1 DEF HpPush, HeapInv, Shape, Span
    <2>2. \A i \in 0..(len - 1) : table'[i] = table[i]
      <3>1. CASE len = cap
        BY <1>1, <3>1 DEF HpPush, Grow, TypeOK
      <3>2. CASE len # cap
        BY <1>1, <3>2 DEF HpPush
      <3> QED
        BY <3>1, <3>2
    <2>3. \A i \in 1..len : Parent(i) # len
      BY <1>b, ParentOf
    <2>4. Span' = len + 1
      BY <2>1 DEF Span
    <2>5. Around(Span)'
      BY <1>b, <2>1, <2>2, <2>3, <2>4 DEF Around, Ordered
    <2> QED
      BY <1>b, <2>1, <2>3, <2>4, <2>5 DEF HeapInv
  <1>2. CASE BubbleUp
    <2> DEFINE p == Parent(hole)
    <2>1. /\ pc = "up" /\ pc' = "up" /\ hole > 0 /\ hole' = p
          /\ table[p].pri > flight.pri /\ flight' = flight
          /\ table' = [table EXCEPT ![hole] = table[p]]
          /\ len' = len /\ end' = end
      BY <1>2 DEF BubbleUp
    <2>2. Span' = Span /\ Span \in Nat /\ Span <= len /\ hole < Span
          /\ p \in 0..(hole - 1) /\ hole \in 0..(len - 1)
      BY <1>b, <2>1, ParentOf DEF Span, Shape, TypeOK
    <2>3. /\ \A i \in 0..(len - 1) : i # hole => table'[i] = table[i] /\ table[i].pri \in Nat
          /\ table'[hole] = table[p]
          /\ flight.pri \in Nat
      BY <2>1, <2>2, Comparable DEF Cell, Shape, TypeOK
    <2>4. /\ Around(Span)
          /\ \A i \in 1..(Span - 1) : Parent(i) = hole => flight.pri <= table[i].pri
      BY <2>1 DEF HeapInv
    <2>5. \A i \in 1..(Span - 1) :
             Parent(i) \in 0..(Span - 1) /\ Parent(i) < i /\ i \in 1..(len - 1)
      BY <1>b, <2>2
    <2> HIDE DEF p
    <2>6. \A i \in 1..(Span - 1) :
             p \notin {i, Parent(i)} => table'[Parent(i)].pri <= table'[i].pri
      <3> SUFFICES ASSUME NEW i \in 1..(Span - 1), p \notin {i, Parent(i)}
                   PROVE  table'[Parent(i)].pri <= table'[i].pri
        OBVIOUS
      <3>1. CASE Parent(i) = hole
        BY <2>1, <2>2, <2>3, <2>4, <2>5, <3>1 DEF Around, p
      <3>2. CASE i # hole /\ Parent(i) # hole
        <4>1. i \in 0..(len - 1) /\ Parent(i) \in 0..(len - 1)
          BY <1>b, <2>5
        <4>2. table'[i] = table[i] /\ table'[Parent(i)] = table[Parent(i)]
          BY <2>3, <3>2, <4>1
        <4> QED
          BY <2>4, <3>2, <4>2 DEF Around
      <3> QED
        BY <3>1, <3>2 DEF p
    <2>7. \A i \in 1..(Span - 1) : Parent(i) = p /\ p > 0 =>
             table'[Parent(p)].pri <= table'[i].pri
      <3> SUFFICES ASSUME NEW i \in 1..(Span - 1), Parent(i) = p, p > 0
                   PROVE  table'[Parent(p)].pri <= table'[i].pri
        OBVIOUS
      <3>1. table[Parent(p)].pri <= table[p].pri /\ p \in 1..(Span - 1)
        BY <2>2, <2>4, <2>5 DEF Around
      <3>2. i # hole => table[p].pri <= table[i].pri
        BY <2>1, <2>2, <2>4, <2>5 DEF Around, p
      <3>3. /\ p \in 0..(len - 1) /\ p # hole
            /\ Parent(p) \in 0..(len - 1) /\ Parent(p) # hole
            /\ i \in 0..(len - 1)
        BY <1>b, <2>2, <2>5, <3>1
      <3>4. CASE i = hole
        BY <2>3, <3>1, <3>3, <3>4
      <3>5. CASE i # hole
        BY <2>3, <3>1, <3>2, <3>3, <3>5
      <3> QED
        BY <3>4, <3>5
    <2>8. \A i \in 1..(Span - 1) : Parent(i) = p => flight.pri <= table'[i].pri
      <3> SUFFICES ASSUME NEW i \in 1..(Span - 1), Parent(i) = p
                   PROVE  flight.pri <= table'[i].pri
        OBVIOUS
      <3>1. i # hole => table[p].pri <= table[i].pri
        BY <2>2, <2>4, <2>5 DEF Around, p
      <3>2. /\ p \in 0..(len - 1) /\ p # hole
            /\ i \in 0..(len - 1)
        BY <1>b, <2>2, <2>5
      <3>3. flight.pri <= table[p].pri
        BY <2>1, <2>3, <3>2 DEF p
      <3>4. CASE i = hole
        BY <2>3, <3>3, <3>4
      <3>5. CASE i # hole
        BY <2>3, <3>1, <3>2, <3>3, <3>5
      <3> QED
        BY <3>4, <3>5
    <2> QED
      BY <2>1, <2>2, <2>6, <2>7, <2>8 DEF HeapInv, Around
  <1>3. CASE PlaceUp
    <2>1. /\ pc = "up" /\ hole' = 0
          /\ hole > 0 => table[Parent(hole)].pri <= flight.pri
          /\ table' = [table EXCEPT ![hole] = flight]
          /\ len' = len /\ end' \in Nat
          /\ IF end = 0 THEN pc' = "idle" /\ end' = end
                        ELSE pc' = "reheap" /\ end' = end + 1
      BY <1>3 DEF PlaceUp, TypeOK
    <2>2. Span \in Nat /\ Span <= len /\ hole \in 0..(Span - 1) /\ Span' = Span
      <3>1. CASE end = 0
        BY <1>b, <2>1, <3>1 DEF Span, Shape, TypeOK
      <3>2. CASE end # 0
        BY <1>b, <2>1, <3>2 DEF Span, Shape, TypeOK
      <3> QED
        BY <3>1, <3>2
    <2>3. /\ \A i \in 0..(len - 1) : i # hole => table'[i] = table[i]
          /\ table'[hole] = flight
      BY <2>1, <2>2, <1>b DEF TypeOK
    <2>4. /\ Around(Span)
          /\ \A i \in 1..(Span - 1) : Parent(i) = hole => flight.pri <= table[i].pri
      BY <2>1 DEF HeapInv
    <2>5. Ordered(Span)'
      <3> SUFFICES ASSUME NEW i \in 1..(Span - 1)
                   PROVE  table'[Parent(i)].pri <= table'[i].pri
        BY <2>2 DEF Ordered
      <3>1. i \in 1..(len - 1) /\ Parent(i) \in 0..(len - 1) /\ Parent(i) # i
        BY <2>2, <1>b
      <3> QED
        BY <2>1, <2>3, <2>4, <3>1 DEF Around
    <2> QED
      BY <2>1, <2>2, <2>5, <1>b DEF HeapInv, Ordered
  <1>4. CASE HpPopFew
    BY <1>4 DEF HpPopFew, HeapInv, Ordered, Span, TypeOK, Shape
  <1>5. CASE HpPop
    <2>1. Ordered(len) /\ len' = len - 1 /\ hole' = 0 /\ pc' = "down" /\ end' = 0
      BY <1>5 DEF HpPop, HeapInv, Shape, Span
    <2>2. \A i \in 0..(len - 2) : table'[i] = table[i]
      BY <1>5 DEF HpPop, TypeOK
    <2>3. Around(len)'
      BY <2>1, <2>2, <1>b DEF Around, Ordered
    <2> QED
      BY <2>1, <2>3 DEF HeapInv
  <1>6. CASE BubbleDown
    <2> DEFINE w == Swap
    <2>1. \A c \in Lesser : c \in 0..(len - 1) /\ c # hole /\ table[c].pri < flight.pri
                            /\ hole < c /\ c \in {2 * hole + 1, 2 * hole + 2}
      BY DEF Lesser, TypeOK
    <2>2. pc = "down" /\ pc' = "down" /\ len' = len /\ flight' = flight /\ hole' = w
          /\ table' = [table EXCEPT ![hole] = table[w]]
      BY <1>6 DEF BubbleDown
    <2>3. \A i \in 0..(len - 1) : i # hole => table[i].pri \in Nat
      BY <2>2, Comparable DEF Cell, Shape
    <2>4. /\ w \in 0..(len - 1) /\ w # hole /\ table[w].pri < flight.pri /\ hole < w
          /\ w \in {2 * hole + 1, 2 * hole + 2}
          /\ \A d \in Lesser : table[w].pri <= table[d].pri
      BY <1>6, <2>1, <2>3, SwapIsLeast DEF BubbleDown, TypeOK
    <2> HIDE DEF w
    <2>5. hole \in 0..(len - 1) /\ flight.pri \in Nat
      BY <2>2, Comparable DEF Shape, Span, TypeOK
    <2>6. /\ \A i \in 0..(len - 1) : i # hole => table'[i] = table[i]
          /\ table'[hole] = table[w]
      BY <2>2, <2>5, <1>b DEF TypeOK
    <2>7. Around(len) /\ (hole > 0 => table[Parent(hole)].pri <= flight.pri)
      BY <2>2 DEF HeapInv
    <2>8. \A i \in 1..(len - 1) : Parent(i) = hole => table[w].pri <= table[i].pri
      <3> SUFFICES ASSUME NEW i \in 1..(len - 1), Parent(i) = hole
                   PROVE  table[w].pri <= table[i].pri
        OBVIOUS
      <3>1. i \in {2 * hole + 1, 2 * hole + 2} /\ i # hole
        BY <2>5, <1>b, ParentOf
      <3>2. i \in Lesser \/ ~ (table[i].pri < flight.pri)
        BY <3>1, <1>b DEF Lesser
      <3> QED
        BY <2>3, <2>4, <2>5, <3>1, <3>2, <1>b
    <2>9. Parent(w) = hole /\ w \in 1..(len - 1)
      BY <2>4, <2>5, <1>b, ParentOf
    <2>10. \A i \in 1..(len - 1) : Parent(i) = w => table[w].pri <= table[i].pri
      BY <2>4, <2>7, <2>9, <1>b DEF Around
    <2>11. \A i \in 1..(len - 1) :
              w \notin {i, Parent(i)} => table'[Parent(i)].pri <= table'[i].pri
      <3> SUFFICES ASSUME NEW i \in 1..(len - 1), w \notin {i, Parent(i)}
                   PROVE  table'[Parent(i)].pri <= table'[i].pri
        OBVIOUS
      <3>1. CASE Parent(i) = hole
        BY <2>6, <2>8, <3>1, <1>b
      <3>2. CASE i = hole
        <4>1. table[Parent(hole)].pri <= table[w].pri
          BY <2>7, <2>9, <3>2 DEF Around
        <4> QED
          BY <2>6, <3>2, <4>1, <1>b
      <3>3. CASE i # hole /\ Parent(i) # hole
        BY <2>6, <2>7, <3>3, <1>b DEF Around
      <3> QED
        BY <3>1, <3>2, <3>3
    <2>12. \A i \in 1..(len - 1) : Parent(i) = w =>
              table'[Parent(w)].pri <= table'[i].pri
      <3> SUFFICES ASSUME NEW i \in 1..(len - 1), Parent(i) = w
                   PROVE  table'[Parent(w)].pri <= table'[i].pri
        OBVIOUS
      <3>1. i # hole
        BY <2>4, <1>b
      <3> QED
        BY <2>6, <2>9, <2>10, <3>1
    <2>13. table'[Parent(w)].pri <= flight.pri
      BY <2>3, <2>4, <2>5, <2>6, <2>9
    <2> QED
      BY <2>2, <2>11, <2>12, <2>13 DEF HeapInv, Around
  <1>7. CASE PlaceDown
    <2>1. /\ pc = "down" /\ Lesser = {} /\ pc' = "idle" /\ len' = len /\ end' = end
          /\ table' = [table EXCEPT ![hole] = flight]
      BY <1>7 DEF PlaceDown
    <2>2. hole \in 0..(len - 1) /\ flight.pri \in Nat
      BY <2>1, Comparable DEF Shape, Span, TypeOK
    <2>3. /\ \A i \in 0..(len - 1) : i # hole => table'[i] = table[i] /\ table[i].pri \in Nat
          /\ table'[hole] = flight
      BY <2>1, <2>2, <1>b, Comparable DEF TypeOK, Cell, Shape
    <2>4. Around(len) /\ (hole > 0 => table[Parent(hole)].pri <= flight.pri)
      BY <2>1 DEF HeapInv
    <2>5. \A i \in 1..(len - 1) : Parent(i) = hole => flight.pri <= table[i].pri
      <3> SUFFICES ASSUME NEW i \in 1..(len - 1), Parent(i) = hole
                   PROVE  flight.pri <= table[i].pri
        OBVIOUS
      <3>1. i \in {2 * hole + 1, 2 * hole + 2} /\ i # hole
        BY <2>2, <1>b, ParentOf
      <3>2. ~ (table[i].pri < flight.pri)
        BY <2>1, <3>1, <1>b DEF Lesser
      <3> QED
        BY <2>2, <2>3, <3>1, <3>2, <1>b
    <2>6. Ordered(len)'
      <3> SUFFICES ASSUME NEW i \in 1..(len - 1)
                   PROVE  table'[Parent(i)].pri <= table'[i].pri
        BY <2>1 DEF Ordered
      <3> QED
        BY <2>3, <2>4, <2>5, <1>b DEF Around
    <2> QED
      BY <2>1, <2>6 DEF HeapInv, Shape, Span
  <1>8. CASE HpPeek
    BY <1>8 DEF HpPeek, HeapInv, Ordered, Around, Span
  <1>9. CASE HpReHeap
    <2>1. pc' = "reheap" /\ end' = 1 /\ len' = len
      BY <1>9 DEF HpReHeap
    <2> QED
      BY <2>1, <1>b DEF HeapInv, Ordered, Span
  <1>10. CASE ReHeapCell
    <2>1. /\ pc = "reheap" /\ pc' = "up" /\ end < len /\ end' = end /\ len' = len
          /\ table' = table /\ hole' = end /\ end > 0 /\ end \in Nat
          /\ flight' = table[end]
      BY <1>10 DEF ReHeapCell, Shape, TypeOK
    <2>2. Ordered(end) /\ Span' = end + 1
      BY <2>1, <1>b DEF HeapInv, Span
    <2>3. \A i \in 1..end : Parent(i) # end /\ i \in 1..(len - 1)
      BY <2>1, <1>b
    <2> QED
      BY <2>1, <2>2, <2>3, <1>b DEF HeapInv, Around, Ordered
  <1>11. CASE ReHeapDone
    BY <1>11, <1>b DEF ReHeapDone, HeapInv, Ordered, Span, Shape, TypeOK
  <1>12. CASE ChangePriority
    BY <1>12 DEF ChangePriority, HeapInv, Ordered, Around, Span
  <1>13. CASE HpResetIterator
    BY <1>13 DEF HpResetIterator, HeapInv, Ordered, Around, Span
  <1>14. CASE HpNext
    BY <1>14 DEF HpNext, HeapInv, Ordered, Around, Span
  <1>15. CASE DeleteHeap
    BY <1>15 DEF DeleteHeap, HeapInv, Ordered, Around, Span
  <1>16. CASE UNCHANGED vars
    BY <1>16 DEF vars, HeapInv, Ordered, Around, Span
  <1> QED
    BY <1>1, <1>2, <1>3, <1>4, <1>5, <1>6, <1>7, <1>8, <1>9, <1>10, <1>11,
       <1>12, <1>13, <1>14, <1>15, <1>16 DEF Next

LEMMA Invariance == Spec => []IInv
  <1>1. IInv /\ [Next]_vars => IInv'
    BY StepType, StepShape, StepHeapInv DEF IInv
  <1> QED
    BY <1>1, InitInv, PTL DEF Spec

\* The variables of the heap have their types: no cell is read that was not
\* written, no index leaves the table, and nothing but values is handed out
\* (hp_push, hp_pop, hp_peek, hp_next and hp_re_heap).
THEOREM TypeCorrect == Spec => []TypeOK
  <1>1. IInv => TypeOK
    BY DEF IInv
  <1> QED
    BY <1>1, Invariance, PTL

\* At every turn of the loops of hp_bubble_up, hp_pop and hp_re_heap the cells
\* are in order around the hole, for heaps of any length.
THEOREM OrderedAroundHole == Spec => []HeapInv
  <1>1. IInv => HeapInv
    BY DEF IInv
  <1> QED
    BY <1>1, Invariance, PTL

\* Between operations no cell is less than its parent.
THEOREM AlwaysOrdered == Spec => []HeapOrdered
  <1>1. IInv => HeapOrdered
    BY DEF IInv, HeapInv, HeapOrdered, Span, TypeOK
  <1> QED
    BY <1>1, Invariance, PTL

----------------------------------------------------------------------------
(* The heap is a priority queue. *)

\* A set of naturals has a least one: the form in which induction is used here.
LEMMA Minimal ==
    ASSUME NEW S \in SUBSET Nat, S # {}
    PROVE  \E m \in S : \A n \in S : m <= n
  <1> DEFINE R == OpToRel(<, Nat)
  <1>1. PICK m \in S : \A n \in S : ~ (<<n, m>> \in R)
    BY NatLessThanWellFounded, WFMin
  <1>2. \A n \in S : <<n, m>> \in R <=> n < m
    BY DEF OpToRel
  <1> HIDE DEF R
  <1>3. \A n \in S : ~ (n < m)
    BY <1>1, <1>2, Zenon
  <1> QED
    BY <1>3

\* The places from m to n at which the function u holds x, and their number.
Places(u, m, n, x) == {i \in m..n : u[i] = x}
Count(u, m, n, x) == Cardinality(Places(u, m, n, x))

LEMMA PlacesFinite ==
    ASSUME NEW u, NEW m \in Int, NEW n \in Int, NEW x
    PROVE  IsFiniteSet(Places(u, m, n, x))
  <1>1. IsFiniteSet(m..n) /\ Places(u, m, n, x) \in SUBSET (m..n)
    BY FS_Interval DEF Places
  <1> QED
    BY <1>1, FS_Subset

LEMMA CountType ==
    ASSUME NEW u, NEW m \in Int, NEW n \in Int, NEW x
    PROVE  /\ Count(u, m, n, x) \in Nat
           /\ Count(u, m, n, x) > 0 <=> \E i \in m..n : u[i] = x
  <1> DEFINE P == Places(u, m, n, x)
  <1>1. IsFiniteSet(P)
    BY PlacesFinite
  <1>2. P # {} <=> \E i \in m..n : u[i] = x
    BY DEF Places
  <1>3. Count(u, m, n, x) = Cardinality(P)
    BY DEF Count
  <1> HIDE DEF P
  <1>4. Cardinality(P) \in Nat /\ (Cardinality(P) = 0 <=> P = {})
    BY <1>1, FS_CardinalityType, FS_EmptySet
  <1> QED
    BY <1>2, <1>3, <1>4

\* Only the places counted matter.
LEMMA CountSame ==
    ASSUME NEW u, NEW w, NEW m \in Int, NEW n \in Int, NEW x,
           \A i \in m..n : u[i] = w[i]
    PROVE  Count(u, m, n, x) = Count(w, m, n, x)
  <1>1. Places(u, m, n, x) = Places(w, m, n, x)
    BY DEF Places
  <1> QED
    BY <1>1 DEF Count

\* One place more, at the end or in front.
LEMMA CountLast ==
    ASSUME NEW u, NEW m \in Int, NEW n \in Int, m <= n, NEW x
    PROVE  /\ u[n] = x => Count(u, m, n, x) = Count(u, m, n - 1, x) + 1
           /\ u[n] # x => Count(u, m, n, x) = Count(u, m, n - 1, x)
  <1> DEFINE Q == Places(u, m, n - 1, x)
  <1>1. IsFiniteSet(Q)
    BY PlacesFinite
  <1>2. n \notin Q /\ Places(u, m, n, x) = IF u[n] = x THEN Q \cup {n} ELSE Q
    BY DEF Places
  <1>3. /\ Count(u, m, n, x) = Cardinality(Places(u, m, n, x))
        /\ Count(u, m, n - 1, x) = Cardinality(Q)
    BY DEF Count
  <1> HIDE DEF Q
  <1>4. Cardinality(Q) \in Nat /\ Cardinality(Q \cup {n}) = Cardinality(Q) + 1
    BY <1>1, <1>2, FS_CardinalityType, FS_AddElement
  <1> QED
    BY <1>2, <1>3, <1>4

LEMMA CountFirst ==
    ASSUME NEW u, NEW m \in Int, NEW n \in Int, m <= n, NEW x
    PROVE  /\ u[m] = x => Count(u, m, n, x) = Count(u, m + 1, n, x) + 1
           /\ u[m] # x => Count(u, m, n, x) = Count(u, m + 1, n, x)
  <1> DEFINE Q == Places(u, m + 1, n, x)
  <1>1. IsFiniteSet(Q)
    BY PlacesFinite
  <1>2. m \notin Q /\ Places(u, m, n, x) = IF u[m] = x THEN Q \cup {m} ELSE Q
    BY DEF Places
  <1>3. /\ Count(u, m, n, x) = Cardinality(Places(u, m, n, x))
        /\ Count(u, m + 1, n, x) = Cardinality(Q)
    BY DEF Count
  <1> HIDE DEF Q
  <1>4. Cardinality(Q) \in Nat /\ Cardinality(Q \cup {m}) = Cardinality(Q) + 1
    BY <1>1, <1>2, FS_CardinalityType, FS_AddElement
  <1> QED
    BY <1>2, <1>3, <1>4

\* u is w but for two places, which have exchanged what they hold.
Exchange(u, w, a, b, n) ==
    /\ a \in 0..n /\ b \in 0..n
    /\ u[a] = w[b] /\ u[b] = w[a]
    /\ \A i \in 0..n : i \notin {a, b} => u[i] = w[i]

\* That changes no count.
LEMMA Exchanged ==
    ASSUME NEW n \in Int, NEW u, NEW w, NEW a, NEW b, Exchange(u, w, a, b, n), NEW x
    PROVE  Count(u, 0, n, x) = Count(w, 0, n, x)
  <1> DEFINE U == Places(u, 0, n, x)
             W == Places(w, 0, n, x)
             other(i) == IF i = a THEN b ELSE IF i = b THEN a ELSE i
             f == [i \in U |-> other(i)]
  <1>1. \A i \in U : other(i) \in W
    BY DEF Places, Exchange
  <1>2. \A j \in W : other(j) \in U /\ other(other(j)) = j
    BY DEF Places, Exchange
  <1>3. \A i, j \in U : other(i) = other(j) => i = j
    OBVIOUS
  <1>4. IsFiniteSet(U)
    BY PlacesFinite
  <1>5. Count(u, 0, n, x) = Cardinality(U) /\ Count(w, 0, n, x) = Cardinality(W)
    BY DEF Count
  <1> HIDE DEF U, W, other
  <1>6. f \in Injection(U, W)
    BY <1>1, <1>3 DEF Injection, IsInjective
  <1>7. f \in Surjection(U, W)
    BY <1>1, <1>2 DEF Surjection
  <1>8. ExistsBijection(U, W)
    BY <1>6, <1>7 DEF ExistsBijection, Bijection
  <1>9. Cardinality(U) = Cardinality(W)
    BY <1>4, <1>8, FS_Bijection
  <1> QED
    BY <1>5, <1>9

\* The cells of the heap, as a function.
Cells == [i \in 0..(len - 1) |-> Cell(i)]

LEMMA BagOfCells ==
    ASSUME TypeOK
    PROVE  /\ Bag = [x \in Item |-> Count(Cells, 0, len - 1, x)]
           /\ Bag \in [Item -> Nat]
           /\ \A x \in Item : Bag[x] > 0 <=> \E i \in 0..(len - 1) : Cell(i) = x
  <1>1. len - 1 \in Int
    BY DEF TypeOK
  <1>2. ASSUME NEW x \in Item
        PROVE  Cardinality({i \in 0..(len - 1) : Cell(i) = x}) = Count(Cells, 0, len - 1, x)
    <2>1. {i \in 0..(len - 1) : Cell(i) = x} = {i \in 0..(len - 1) : Cells[i] = x}
      BY DEF Cells
    <2> QED
      BY <2>1 DEF Count, Places
  <1>3. Bag = [x \in Item |-> Count(Cells, 0, len - 1, x)]
    BY <1>2 DEF Bag
  <1>4. \A i \in 0..(len - 1) : Cells[i] = Cell(i)
    BY DEF Cells
  <1> QED
    BY <1>1, <1>3, <1>4, CountType

LEMMA LeftOfCells ==
    ASSUME TypeOK
    PROVE  Left = [x \in Item |-> IF iter = NotInUse THEN 0
                                  ELSE Count(Cells, iter, len - 1, x)]
  <1>1. ASSUME NEW x \in Item, iter # NotInUse
        PROVE  Cardinality({i \in iter..(len - 1) : Cell(i) = x}) = Count(Cells, iter, len - 1, x)
    <2>1. {i \in iter..(len - 1) : Cell(i) = x} = {i \in iter..(len - 1) : Cells[i] = x}
      BY <1>1 DEF Cells, TypeOK
    <2> QED
      BY <2>1 DEF Count, Places
  <1> QED
    BY <1>1 DEF Left

\* Nothing in the heap is less than the root.
LEMMA RootLeast ==
    ASSUME IInv, pc = "idle", len > 0
    PROVE  table[0] \in ADT!Least
  <1>1. len \in Nat /\ Ordered(len) /\ \A i \in 0..(len - 1) : Cell(i) = table[i] /\ table[i] \in Item
    BY DEF IInv, TypeOK, HeapInv, Shape, Span, Cell
  <1>2. \A i \in 0..(len - 1) : table[i].pri \in Nat
    BY <1>1, HeapAssumption DEF Item
  <1>3. \A i \in 0..(len - 1) : table[0].pri <= table[i].pri
    <2> DEFINE Less == {i \in 0..(len - 1) : table[i].pri < table[0].pri}
    <2>1. SUFFICES ASSUME Less # {}
                   PROVE  FALSE
      BY <1>1, <1>2
    <2>a. Less \in SUBSET Nat
      BY <1>1
    <2>2. PICK m \in Less : \A i \in Less : m <= i
      <3> HIDE DEF Less
      <3> QED
        BY <2>1, <2>a, Minimal
    <2>3. m \in 1..(len - 1)
      BY <1>1, <1>2
    <2>4. Parent(m) \in 0..(len - 1) /\ Parent(m) < m
      BY <1>1, <2>3, ParentOf
    <2>5. table[Parent(m)].pri <= table[m].pri
      BY <1>1, <2>3 DEF Ordered
    <2>6. Parent(m) \in Less
      BY <1>1, <1>2, <2>2, <2>3, <2>4, <2>5
    <2> QED
      BY <1>1, <2>2, <2>4, <2>6
  <1>4. ADT!In(Bag) = {x \in Item : \E i \in 0..(len - 1) : table[i] = x}
    BY <1>1, BagOfCells DEF IInv, ADT!In, ADT!Item, Item
  <1> QED
    BY <1>1, <1>3, <1>4 DEF ADT!Least

\* After a step the bag and what is left to visit are counted in the new cells.
LEMMA NextBag ==
    TypeOK' =>
      /\ Bag' = [x \in Item |-> Count(Cells', 0, len' - 1, x)]
      /\ Left' = [x \in Item |-> IF iter' = NotInUse THEN 0
                                 ELSE Count(Cells', iter', len' - 1, x)]
  <1> DEFINE Counted ==
               /\ Bag = [x \in Item |-> Count(Cells, 0, len - 1, x)]
               /\ Left = [x \in Item |-> IF iter = NotInUse THEN 0
                                         ELSE Count(Cells, iter, len - 1, x)]
  <1>1. TypeOK => Counted
    BY BagOfCells, LeftOfCells
  <1> HIDE DEF Counted
  <1>2. TypeOK' => Counted'
    BY <1>1, PTL
  <1> QED
    BY <1>2 DEF Counted

\* While the loops move cells, the heap holds what it held.
LEMMA Moving ==
    ASSUME IInv, IInv',
           BubbleUp \/ PlaceUp \/ BubbleDown \/ PlaceDown \/ ReHeapCell \/ ReHeapDone
    PROVE  UNCHANGED ADT!vars
  <1>1. /\ len' = len /\ prio' = prio /\ out' = out /\ len \in Nat
        /\ iter = NotInUse /\ iter' = NotInUse
    BY DEF BubbleUp, PlaceUp, BubbleDown, PlaceDown, ReHeapCell, ReHeapDone, IInv, Shape, TypeOK
  <1>2. Left' = Left
    BY <1>1 DEF Left
  <1>3. \A x \in Item : Count(Cells', 0, len - 1, x) = Count(Cells, 0, len - 1, x)
    <2> DEFINE c == Cells
               d == Cells'
    <2>a. /\ c = [i \in 0..(len - 1) |-> Cell(i)]
          /\ d = [i \in 0..(len - 1) |-> Cell(i)']
      BY <1>1 DEF Cells
    <2>b. hole \in Nat /\ len <= cap /\ len \in Nat /\ cap \in Nat
          /\ (pc \in {"up", "down"} => hole \in 0..(len - 1))
          /\ DOMAIN table = 0..(cap - 1) /\ end \in Nat
      BY DEF IInv, Shape, Span, TypeOK
    <2> HIDE DEF c, d
    <2>1. CASE BubbleUp
      <3>1. Parent(hole) \in 0..(len - 1) /\ hole \in 0..(len - 1) /\ Parent(hole) # hole
        BY <2>1, <2>b, ParentOf DEF BubbleUp
      <3>2. Exchange(d, c, hole, Parent(hole), len - 1)
        BY <2>1, <2>a, <2>b, <3>1 DEF BubbleUp, Cell, Exchange
      <3>3. len - 1 \in Int
        BY <2>b
      <3> QED
        BY <3>2, <3>3, Exchanged DEF c, d
    <2>2. CASE BubbleDown
      <3>1. Swap \in 0..(len - 1) /\ hole \in 0..(len - 1) /\ Swap # hole
        <4>1. pc = "down" /\ \A i \in 0..(len - 1) : i # hole => table[i].pri \in Nat
          BY <2>2, Comparable DEF BubbleDown, IInv, Cell, Shape
        <4>2. \A i \in Lesser : i \in 0..(len - 1) /\ i # hole
          BY <2>b DEF Lesser
        <4> QED
          BY <2>2, <2>b, <4>1, <4>2, SwapIsLeast DEF BubbleDown
      <3>2. Exchange(d, c, hole, Swap, len - 1)
        BY <2>2, <2>a, <2>b, <3>1 DEF BubbleDown, Cell, Exchange
      <3>3. len - 1 \in Int
        BY <2>b
      <3> QED
        BY <3>2, <3>3, Exchanged DEF c, d
    <2>3. ASSUME \A i \in 0..(len - 1) : d[i] = c[i]
          PROVE  \A x \in Item : Count(d, 0, len - 1, x) = Count(c, 0, len - 1, x)
      <3>1. len - 1 \in Int
        BY <2>b
      <3> QED
        BY <3>1, <2>3, CountSame
    <2>4. CASE PlaceUp
      <3>1. \A i \in 0..(len - 1) : Cell(i)' = Cell(i)
        BY <2>4, <2>b DEF PlaceUp, Cell
      <3> QED
        BY <2>3, <2>a, <3>1 DEF c, d
    <2>5. CASE PlaceDown
      <3>1. \A i \in 0..(len - 1) : Cell(i)' = Cell(i)
        BY <2>5, <2>b DEF PlaceDown, Cell
      <3> QED
        BY <2>3, <2>a, <3>1 DEF c, d
    <2>6. CASE ReHeapCell
      <3>1. \A i \in 0..(len - 1) : Cell(i)' = Cell(i)
        BY <2>6, <2>b DEF ReHeapCell, Cell
      <3> QED
        BY <2>3, <2>a, <3>1 DEF c, d
    <2>7. CASE ReHeapDone
      <3>1. \A i \in 0..(len - 1) : Cell(i)' = Cell(i)
        BY <2>7, <2>b DEF ReHeapDone, Cell
      <3> QED
        BY <2>3, <2>a, <3>1 DEF c, d
    <2> QED
      BY <2>1, <2>2, <2>4, <2>5, <2>6, <2>7
  <1>4. Bag' = Bag
    BY <1>1, <1>3, BagOfCells, NextBag DEF IInv
  <1> QED
    BY <1>1, <1>2, <1>4 DEF ADT!vars

\* hp_push puts one item more into the bag.
LEMMA Pushing ==
    ASSUME IInv, IInv', NEW v \in Value, HpPush(v)
    PROVE  ADT!Push(v)
  <1> DEFINE c == Cells
             d == Cells'
             new == [pri |-> prio[v], val |-> v]
  <1>1. /\ len \in Nat /\ len' = len + 1 /\ new \in Item /\ iter' = NotInUse
        /\ out' = NoValue /\ prio' = prio
    BY DEF HpPush, IInv, TypeOK, Item
  <1>2. d[len] = new /\ \A i \in 0..(len - 1) : d[i] = c[i]
    <2>1. CASE len = cap
      BY <2>1, <1>1 DEF HpPush, Cells, Cell, Grow, IInv, TypeOK
    <2>2. CASE len # cap
      BY <2>2, <1>1 DEF HpPush, Cells, Cell, IInv, TypeOK
    <2> QED
      BY <2>1, <2>2
  <1> HIDE DEF c, d, new
  <1>3. ASSUME NEW x \in Item
        PROVE  Count(d, 0, len, x) = Count(c, 0, len - 1, x) + (IF x = new THEN 1 ELSE 0)
    <2>1. Count(d, 0, len - 1, x) = Count(c, 0, len - 1, x)
      BY <1>1, <1>2, CountSame
    <2>2. /\ d[len] = x => Count(d, 0, len, x) = Count(d, 0, len - 1, x) + 1
          /\ d[len] # x => Count(d, 0, len, x) = Count(d, 0, len - 1, x)
      <3>1. 0 \in Int /\ len \in Int /\ 0 <= len
        BY <1>1
      <3> QED
        BY <3>1, CountLast, Zenon
    <2>3. Count(c, 0, len - 1, x) \in Nat
      <3>1. 0 \in Int /\ len - 1 \in Int
        BY <1>1
      <3> QED
        BY <3>1, CountType, Zenon
    <2> QED
      BY <1>2, <2>1, <2>2, <2>3
  <1>4. /\ Bag = [x \in Item |-> Count(c, 0, len - 1, x)]
        /\ Bag' = [x \in Item |-> Count(d, 0, len, x)]
        /\ Bag \in [Item -> Nat]
    <2>1. len' - 1 = len
      BY <1>1
    <2> QED
      BY <2>1, BagOfCells, NextBag DEF IInv, c, d
  <1>5. Bag' = [Bag EXCEPT ![new] = @ + 1]
    BY <1>1, <1>3, <1>4
  <1>6. Left' = [x \in Item |-> 0]
    BY <1>1 DEF Left
  <1> QED
    BY <1>1, <1>5, <1>6 DEF ADT!Push, ADT!Modified, ADT!Nothing, ADT!Item, Item, new, NotInUse

\* A heap that gives its root away, and then has the last cell, if it was another,
\* in the root's place, has one item less in the bag.
LEMMA RootGone ==
    ASSUME IInv, IInv', pc = "idle", len > 0, len' = len - 1,
           \A i \in 0..(len - 2) :
              Cell(i)' = IF i = 0 THEN table[len - 1] ELSE table[i]
    PROVE  Bag' = [Bag EXCEPT ![table[0]] = @ - 1]
  <1> DEFINE c == Cells
             d == Cells'
             last == len - 1
             w == [i \in 0..last |-> IF i = 0 THEN c[last] ELSE IF i = last THEN c[0] ELSE c[i]]
  <1>1. /\ last \in Nat /\ len = last + 1 /\ len' = last /\ last - 1 \in Int
        /\ \A i \in 0..last : c[i] = table[i] /\ table[i] \in Item
        /\ \A i \in 0..(last - 1) : d[i] = Cell(i)'
    BY DEF Cells, Cell, IInv, Shape, TypeOK
  <1>2. \A i \in 0..(last - 1) : d[i] = IF i = 0 THEN c[last] ELSE c[i]
    BY <1>1
  <1>3. /\ w[0] = c[last] /\ w[last] = c[0]
        /\ \A i \in 0..last : i \notin {0, last} => w[i] = c[i]
        /\ \A i \in 0..(last - 1) : d[i] = w[i]
    BY <1>1, <1>2
  <1> HIDE DEF c, d, last, w
  <1>4. ASSUME NEW x \in Item
        PROVE  Count(c, 0, last, x) = Count(d, 0, last - 1, x) + (IF x = table[0] THEN 1 ELSE 0)
    <2>1. Count(w, 0, last, x) = Count(c, 0, last, x)
      <3>1. Exchange(w, c, 0, last, last)
        BY <1>1, <1>3 DEF Exchange
      <3> QED
        BY <1>1, <3>1, Exchanged
    <2>2. /\ w[last] = x => Count(w, 0, last, x) = Count(w, 0, last - 1, x) + 1
          /\ w[last] # x => Count(w, 0, last, x) = Count(w, 0, last - 1, x)
      <3>1. 0 \in Int /\ last \in Int /\ 0 <= last
        BY <1>1
      <3> QED
        BY <3>1, CountLast, Zenon
    <2>3. Count(d, 0, last - 1, x) = Count(w, 0, last - 1, x)
      BY <1>1, <1>3, CountSame
    <2>4. Count(d, 0, last - 1, x) \in Nat
      <3>1. 0 \in Int /\ last - 1 \in Int
        BY <1>1
      <3> QED
        BY <3>1, CountType, Zenon
    <2>5. w[last] = table[0]
      BY <1>1, <1>3
    <2> QED
      BY <2>1, <2>2, <2>3, <2>4, <2>5
  <1>5. /\ Bag = [x \in Item |-> Count(c, 0, last, x)]
        /\ Bag' = [x \in Item |-> Count(d, 0, last - 1, x)]
        /\ Bag \in [Item -> Nat]
    BY <1>1, BagOfCells, NextBag DEF IInv, c, d, last
  <1>6. \A x \in Item : Count(d, 0, last - 1, x) \in Nat
    <2>1. 0 \in Int /\ last - 1 \in Int
      BY <1>1
    <2> QED
      BY <2>1, CountType, Zenon
  <1> QED
    BY <1>1, <1>4, <1>5, <1>6

\* hp_pop takes the root, which is one of the least.
LEMMA Popping ==
    ASSUME IInv, IInv', HpPopFew \/ HpPop
    PROVE  ADT!Pop \/ ADT!Empty
  <1>1. pc = "idle" /\ len \in Nat /\ len <= cap /\ cap \in Nat /\ prio' = prio
        /\ table \in [0..(cap - 1) -> Item \cup {Junk}]
        /\ \A i \in 0..(len - 1) : table[i] \in Item
    BY DEF HpPopFew, HpPop, IInv, TypeOK, Shape, Cell
  <1>2. CASE len = 0
    <2>1. UNCHANGED <<len, table, prio, pc, hole, flight, iter>> /\ out' = NoValue
      BY <1>2 DEF HpPopFew, HpPop
    <2>2. Bag' = Bag /\ Left' = Left
      BY <2>1 DEF Bag, Left, Cell
    <2>3. ADT!In(Bag) = {}
      BY <1>2, BagOfCells DEF IInv, ADT!In, ADT!Item, Item
    <2> QED
      BY <2>1, <2>2, <2>3 DEF ADT!Empty
  <1>3. CASE len > 0
    <2>1. /\ out' = table[0].val /\ iter' = NotInUse /\ len' = len - 1
          /\ \A i \in 0..(len - 2) :
                Cell(i)' = IF i = 0 THEN table[len - 1] ELSE table[i]
      <3>1. CASE HpPopFew
        <4>1. len = 1
          BY <1>1, <1>3, <3>1 DEF HpPopFew
        <4> QED
          BY <3>1, <4>1 DEF HpPopFew
      <3>2. CASE HpPop
        BY <1>1, <3>2 DEF HpPop, Cell
      <3> QED
        BY <3>1, <3>2
    <2>2. Bag' = [Bag EXCEPT ![table[0]] = @ - 1]
      BY <1>1, <1>3, <2>1, RootGone
    <2>3. table[0] \in ADT!Least
      BY <1>1, <1>3, RootLeast
    <2>4. out' # NoValue
      BY <1>1, <1>3, <2>1, HeapAssumption DEF Item
    <2>5. Left' = [x \in Item |-> 0]
      BY <2>1 DEF Left
    <2> QED
      BY <1>1, <2>1, <2>2, <2>3, <2>4, <2>5
         DEF ADT!Pop, ADT!Modified, ADT!Nothing, ADT!Item, Item, NotInUse
  <1> QED
    BY <1>1, <1>2, <1>3

\* hp_peek shows one of the least.
LEMMA Peeking ==
    ASSUME IInv, IInv', HpPeek
    PROVE  ADT!Peek \/ ADT!Empty
  <1>1. UNCHANGED <<len, table, prio, pc, hole, flight, iter>> /\ pc = "idle" /\ len \in Nat
    BY DEF HpPeek, IInv, TypeOK
  <1>2. Bag' = Bag /\ Left' = Left
    BY <1>1 DEF Bag, Left, Cell
  <1>3. CASE len = 0
    <2>1. ADT!In(Bag) = {}
      BY <1>3, BagOfCells DEF IInv, ADT!In, ADT!Item, Item
    <2> QED
      BY <1>1, <1>2, <1>3, <2>1 DEF ADT!Empty, HpPeek
  <1>4. CASE len > 0
    <2>1. table[0] \in ADT!Least
      BY <1>1, <1>4, RootLeast
    <2> QED
      BY <1>1, <1>2, <1>4, <2>1 DEF ADT!Peek, HpPeek
  <1> QED
    BY <1>1, <1>3, <1>4

\* hp_reset_iterator has the whole bag before it.
LEMMA Resetting ==
    ASSUME IInv, IInv', HpResetIterator
    PROVE  ADT!ResetIterator
  <1>1. UNCHANGED <<len, table, prio, pc, hole, flight>> /\ iter' = 0 /\ out' = NoValue
    BY DEF HpResetIterator
  <1>2. Bag' = Bag
    BY <1>1 DEF Bag, Cell
  <1>3. Left' = Bag'
    BY <1>1 DEF Left, Bag, NotInUse
  <1> QED
    BY <1>1, <1>2, <1>3 DEF ADT!ResetIterator, NotInUse

\* hp_next hands out a value that is left, or none when nothing is.
LEMMA Visiting ==
    ASSUME IInv, IInv', HpNext
    PROVE  ADT!NextValue
  <1> DEFINE c == Cells
  <1>1. /\ UNCHANGED <<len, table, prio, pc, hole, flight>> /\ pc = "idle"
        /\ len \in Nat /\ iter \in Nat /\ iter # NotInUse /\ iter' # NotInUse /\ len - 1 \in Int
        /\ \A i \in 0..(len - 1) : c[i] = table[i] /\ table[i] \in Item
        /\ iter < len => iter' = iter + 1 /\ out' = table[iter].val
        /\ ~ (iter < len) => iter' = iter /\ out' = NoValue
    BY DEF HpNext, IInv, TypeOK, Shape, Cell, Cells, NotInUse
  <1>2. Bag' = Bag /\ c' = c
    BY <1>1 DEF Bag, Cell, Cells
  <1> HIDE DEF c
  <1>3. /\ Left = [x \in Item |-> Count(c, iter, len - 1, x)]
        /\ Left' = [x \in Item |-> Count(c, iter', len - 1, x)]
    <2>1. Left = [x \in Item |-> Count(c, iter, len - 1, x)]
      BY <1>1, LeftOfCells DEF IInv, c
    <2>2. Left' = [x \in Item |-> Count(c', iter', len' - 1, x)]
      BY <1>1, NextBag DEF IInv, c
    <2> QED
      BY <2>1, <2>2, <1>1, <1>2
  <1>4. \A x \in Item : /\ Count(c, iter, len - 1, x) \in Nat
                        /\ Count(c, iter, len - 1, x) > 0 <=>
                             \E i \in iter..(len - 1) : c[i] = x
    BY <1>1, CountType
  <1>5. CASE iter < len
    <2>1. \A x \in Item :
             /\ c[iter] = x => Count(c, iter, len - 1, x) = Count(c, iter + 1, len - 1, x) + 1
             /\ c[iter] # x => Count(c, iter, len - 1, x) = Count(c, iter + 1, len - 1, x)
      <3>1. iter \in Int /\ len - 1 \in Int /\ iter <= len - 1
        BY <1>1, <1>5
      <3> QED
        BY <3>1, CountFirst, Zenon
    <2>2. \A x \in Item : Count(c, iter + 1, len - 1, x) \in Nat
      <3>1. iter + 1 \in Int /\ len - 1 \in Int
        BY <1>1
      <3> QED
        BY <3>1, CountType, Zenon
    <2>3. table[iter] \in Item /\ c[iter] = table[iter] /\ iter \in iter..(len - 1)
      BY <1>1, <1>5
    <2>4. Left[table[iter]] > 0
      BY <1>3, <1>4, <2>3
    <2>5. Left' = [Left EXCEPT ![table[iter]] = @ - 1]
      BY <1>1, <1>3, <1>5, <2>1, <2>2, <2>3
    <2>6. Left # ADT!Nothing
      <3>1. ADT!Nothing[table[iter]] = 0
        BY <2>3 DEF ADT!Nothing, ADT!Item, Item
      <3> QED
        BY <2>4, <3>1
    <2>7. table[iter] \in ADT!In(Left)
      BY <2>3, <2>4 DEF ADT!In, ADT!Item, Item
    <2> QED
      BY <1>1, <1>2, <1>5, <2>5, <2>6, <2>7 DEF ADT!NextValue
  <1>6. CASE ~ (iter < len)
    <2>1. iter..(len - 1) = {}
      BY <1>1, <1>6
    <2>2. \A x \in Item : Count(c, iter, len - 1, x) = 0
      BY <1>4, <2>1
    <2>3. Left = ADT!Nothing
      BY <1>3, <2>2 DEF ADT!Nothing, ADT!Item, Item
    <2> QED
      BY <1>1, <1>2, <1>3, <1>6, <2>3 DEF ADT!NextValue
  <1> QED
    BY <1>5, <1>6

\* A heap without cells is an empty bag, with nothing left to visit.
LEMMA EmptyHeap ==
    ASSUME len = 0, iter = 0
    PROVE  Bag = ADT!Nothing /\ Left = ADT!Nothing
  <1>1. \A x \in Item : {i \in 0..(len - 1) : Cell(i) = x} = {}
    OBVIOUS
  <1>2. Cardinality({}) = 0
    BY FS_EmptySet
  <1> QED
    BY <1>1, <1>2 DEF Bag, Left, ADT!Nothing, ADT!Item, Item, NotInUse

LEMMA NextEmptyHeap ==
    len' = 0 /\ iter' = 0 => Bag' = ADT!Nothing /\ Left' = ADT!Nothing
  <1> DEFINE Fresh == len = 0 /\ iter = 0
             Bare == Bag = ADT!Nothing /\ Left = ADT!Nothing
  <1>1. Fresh => Bare
    BY EmptyHeap
  <1> HIDE DEF Fresh, Bare
  <1>2. Fresh' => Bare'
    BY <1>1, PTL
  <1> QED
    BY <1>2 DEF Fresh, Bare, ADT!Nothing, ADT!Item

LEMMA Deleting ==
    ASSUME DeleteHeap
    PROVE  ADT!Renew
  <1>1. len' = 0 /\ iter' = 0 => Bag' = ADT!Nothing /\ Left' = ADT!Nothing
    BY NextEmptyHeap
  <1> QED
    BY <1>1 DEF DeleteHeap, ADT!Renew, NotInUse

LEMMA Reprioritising ==
    ASSUME ChangePriority
    PROVE  ADT!ChangePriority
  <1>1. UNCHANGED <<len, table, pc, hole, flight, iter, out>>
    BY DEF ChangePriority
  <1>2. Bag' = Bag /\ Left' = Left
    BY <1>1 DEF Bag, Left, Cell
  <1> QED
    BY <1>1, <1>2 DEF ChangePriority, ADT!ChangePriority

\* The places that hold v, whatever its priority, are as many as the bag has of v.
LEMMA Regrouped ==
    ASSUME NEW n \in Int, NEW c \in [0..n -> Item], NEW v \in Value,
           NEW b, b = [x \in Item |-> Count(c, 0, n, x)]
    PROVE  Cardinality({i \in 0..n : c[i].val = v}) = Cardinality(ADT!All(b, v))
  <1> DEFINE D == {i \in 0..n : c[i].val = v}
             A == ADT!All(b, v)
             S(q) == Places(c, 0, n, [pri |-> q, val |-> v])
             k(q) == Cardinality(S(q))
             f == [q \in Priority |-> CHOOSE h : h \in Bijection(1..k(q), S(q))]
             g == [p \in A |-> f[p[1]][p[2]]]
  <1>a. \A q \in Priority : IsFiniteSet(S(q))
    BY PlacesFinite
  <1>1. ASSUME NEW q \in Priority
        PROVE  /\ b[[pri |-> q, val |-> v]] = k(q)
               /\ f[q] \in Bijection(1..k(q), S(q))
    <2>1. [pri |-> q, val |-> v] \in Item
      BY DEF Item
    <2>2. IsFiniteSet(S(q))
      BY <1>a
    <2>3. \E h : h \in Bijection(1..k(q), S(q))
      <3> HIDE DEF S
      <3> QED
        BY <2>2, FS_CardinalityType DEF ExistsBijection
    <2>4. f[q] \in Bijection(1..k(q), S(q))
      <3> HIDE DEF S, k
      <3> QED
        BY <2>3, Zenon
    <2> QED
      BY <2>1, <2>4 DEF Count
  <1>2. A = UNION {{q} \X (1..k(q)) : q \in Priority}
    BY <1>1 DEF ADT!All
  <1>3. A = {p \in Priority \X Nat : p[2] \in 1..k(p[1])}
    <2>1. \A q \in Priority : k(q) \in Nat
      <3> SUFFICES ASSUME NEW q \in Priority PROVE k(q) \in Nat
        OBVIOUS
      <3>1. IsFiniteSet(S(q))
        BY <1>a
      <3> QED
        BY <3>1, FS_CardinalityType
    <2> HIDE DEF k, A
    <2> QED
      BY <1>2, <2>1
  <1>4. /\ \A q \in Priority : S(q) \subseteq D
        /\ \A i \in D : c[i].pri \in Priority /\ i \in S(c[i].pri)
        /\ \A q, r \in Priority : \A i : i \in S(q) /\ i \in S(r) => q = r
    BY DEF Item, Places
  <1>5. IsFiniteSet(D)
    <2>1. IsFiniteSet(0..n) /\ D \in SUBSET (0..n)
      BY FS_Interval
    <2> QED
      BY <2>1, FS_Subset
  <1> HIDE DEF A, D, S, k, f
  <1>6. \A q \in Priority :
           /\ \A j \in 1..k(q) : f[q][j] \in S(q)
           /\ \A i, j \in 1..k(q) : f[q][i] = f[q][j] => i = j
           /\ \A i \in S(q) : \E j \in 1..k(q) : f[q][j] = i
    BY <1>1 DEF Bijection, Injection, Surjection, IsInjective
  <1>7. \A p \in A : p[1] \in Priority /\ p[2] \in 1..k(p[1]) /\ p = <<p[1], p[2]>>
    BY <1>3
  <1>8. \A p \in A : g[p] = f[p[1]][p[2]] /\ g[p] \in S(p[1]) /\ g[p] \in D
    BY <1>4, <1>6, <1>7
  <1>9. ASSUME NEW p \in A, NEW r \in A, g[p] = g[r]
        PROVE  p = r
    <2>1. p[1] = r[1]
      BY <1>4, <1>7, <1>8, <1>9
    <2>2. p[2] = r[2]
      <3>1. f[p[1]][p[2]] = f[p[1]][r[2]] /\ p[2] \in 1..k(p[1]) /\ r[2] \in 1..k(p[1])
        BY <1>7, <1>8, <1>9, <2>1
      <3> QED
        BY <1>6, <1>7, <3>1
    <2>3. p = <<p[1], p[2]>> /\ r = <<r[1], r[2]>>
      BY <1>7
    <2> QED
      BY <2>1, <2>2, <2>3
  <1>10. \A i \in D : \E p \in A : g[p] = i
    <2> SUFFICES ASSUME NEW i \in D
                 PROVE  \E p \in A : g[p] = i
      OBVIOUS
    <2> DEFINE q == c[i].pri
    <2>1. q \in Priority /\ i \in S(q)
      BY <1>4
    <2> HIDE DEF q
    <2>2. PICK j \in 1..k(q) : f[q][j] = i
      BY <1>6, <2>1
    <2>3. <<q, j>> \in A
      BY <1>2, <2>1, <2>2
    <2> QED
      BY <2>2, <2>3
  <1>11. g \in Injection(A, D)
    BY <1>8, <1>9 DEF Injection, IsInjective
  <1>12. g \in Surjection(A, D)
    BY <1>8, <1>10 DEF Surjection
  <1>13. Cardinality(A) = Cardinality(D)
    BY <1>5, <1>11, <1>12, FS_Injection
  <1> QED
    BY <1>13 DEF A, D

\* hp_re_heap gives every value in the bag the priority it has now.
LEMMA ReHeaping ==
    ASSUME IInv, IInv', HpReHeap
    PROVE  ADT!ReHeap
  <1> DEFINE c == Cells
             d == Cells'
             n == len - 1
  <1>1. /\ n \in Int /\ len' = len /\ iter' = NotInUse /\ out' = NoValue /\ prio' = prio
        /\ prio \in [Value -> Priority] /\ pc = "idle" /\ pc' = "reheap" /\ 0..n = 0..(len - 1)
        /\ \A i \in 0..n : table[i] \in Item /\ i \in DOMAIN table
    BY DEF HpReHeap, IInv, TypeOK, Shape, Cell
  <1>a. c \in [0..n -> Item] /\ \A i \in 0..n : c[i] = table[i]
    BY <1>1 DEF Cells, Cell
  <1>b. \A i \in 0..n : table'[i] = [table[i] EXCEPT !.pri = prio[table[i].val]]
    BY <1>1 DEF HpReHeap, IInv, TypeOK
  <1>c. \A i \in 0..n : d[i] = table'[i]
    BY <1>1 DEF Cells, Cell
  <1>2. ASSUME NEW i \in 0..n
        PROVE  d[i] = [pri |-> prio[c[i].val], val |-> c[i].val]
    <2>1. c[i] \in Item /\ d[i] = [c[i] EXCEPT !.pri = prio[c[i].val]]
      BY <1>1, <1>a, <1>b, <1>c
    <2> QED
      BY <2>1 DEF Item
  <1>3. /\ Bag = [x \in Item |-> Count(c, 0, n, x)]
        /\ Bag' = [x \in Item |-> Count(d, 0, n, x)]
    BY <1>1, BagOfCells, NextBag DEF IInv
  <1> HIDE DEF c, d, n
  <1>4. ASSUME NEW x \in Item
        PROVE  Count(d, 0, n, x) = IF x.pri = prio[x.val]
                                   THEN Cardinality(ADT!All(Bag, x.val)) ELSE 0
    <2>1. x.val \in Value /\ \A p \in Priority, v \in Value :
             x = [pri |-> p, val |-> v] <=> x.pri = p /\ x.val = v
      BY DEF Item
    <2>2. \A i \in 0..n : c[i].val \in Value /\ prio[c[i].val] \in Priority
      BY <1>1, <1>a DEF Item
    <2>3. ASSUME NEW i \in 0..n
          PROVE  d[i] = x <=> x.pri = prio[x.val] /\ c[i].val = x.val
      <3>1. d[i] = [pri |-> prio[c[i].val], val |-> c[i].val]
        BY <1>2
      <3>2. d[i].pri = prio[c[i].val] /\ d[i].val = c[i].val
        BY <3>1
      <3> QED
        BY <2>1, <2>2, <3>1, <3>2
    <2>4. CASE x.pri = prio[x.val]
      <3>1. {i \in 0..n : d[i] = x} = {i \in 0..n : c[i].val = x.val}
        BY <2>3, <2>4
      <3>2. Cardinality({i \in 0..n : c[i].val = x.val}) = Cardinality(ADT!All(Bag, x.val))
        BY <1>1, <1>3, <1>a, <2>1, Regrouped
      <3> QED
        BY <2>4, <3>1, <3>2 DEF Count, Places
    <2>5. CASE x.pri # prio[x.val]
      <3>1. {i \in 0..n : d[i] = x} = {} /\ Cardinality({}) = 0
        BY <2>3, <2>5, FS_EmptySet
      <3> QED
        BY <2>5, <3>1 DEF Count, Places
    <2> QED
      BY <2>4, <2>5
  <1>5. Bag' = [x \in Item |-> IF x.pri = prio[x.val]
                               THEN Cardinality(ADT!All(Bag, x.val)) ELSE 0]
    BY <1>3, <1>4
  <1>6. Left' = [x \in Item |-> 0]
    BY <1>1 DEF Left
  <1>7. ADT!Item = Item /\ Left' = ADT!Nothing
    BY <1>6 DEF ADT!Nothing, ADT!Item, Item
  <1>8. Bag' = [x \in ADT!Item |-> IF x.pri = prio[x.val]
                                    THEN Cardinality(ADT!All(Bag, x.val)) ELSE 0]
    BY <1>5, <1>7, Zenon
  <1>9. (iter # NotInUse)' = FALSE
    BY <1>1
  <1>10. \A S : ADT!Cardinality(S) = Cardinality(S)
    BY DEF ADT!Cardinality, ADT!IsFiniteSet, Cardinality, IsFiniteSet
  <1> QED
    BY <1>1, <1>7, <1>8, <1>9, <1>10 DEF ADT!ReHeap, ADT!Modified

\* The heap is a priority queue, for any values, priorities and lengths: hp_pop
\* and hp_peek give one of the least, nothing is lost or made up while cells
\* move, hp_re_heap keeps the values and renews their priorities, and the
\* iterator visits each value once.
THEOREM HeapIsAPriorityQueue == Spec => Queue
  <1>1. Init => ADT!Init
    BY EmptyHeap DEF Init, ADT!Init, NotInUse
  <1>2. IInv /\ IInv' /\ [Next]_vars => [ADT!Next]_(ADT!vars)
    <2> SUFFICES ASSUME IInv, IInv', [Next]_vars
                 PROVE  ADT!Next \/ UNCHANGED ADT!vars
      OBVIOUS
    <2>1. CASE \E v \in Value : HpPush(v)
      BY <2>1, Pushing DEF ADT!Next
    <2>2. CASE HpPopFew \/ HpPop
      BY <2>2, Popping DEF ADT!Next
    <2>3. CASE HpPeek
      BY <2>3, Peeking DEF ADT!Next
    <2>4. CASE HpResetIterator
      BY <2>4, Resetting DEF ADT!Next
    <2>5. CASE HpNext
      BY <2>5, Visiting DEF ADT!Next
    <2>6. CASE DeleteHeap
      BY <2>6, Deleting DEF ADT!Next
    <2>7. CASE ChangePriority
      BY <2>7, Reprioritising DEF ADT!Next
    <2>8. CASE HpReHeap
      BY <2>8, ReHeaping DEF ADT!Next
    <2>9. CASE BubbleUp \/ PlaceUp \/ BubbleDown \/ PlaceDown \/ ReHeapCell \/ ReHeapDone
      BY <2>9, Moving
    <2>10. CASE UNCHANGED vars
      BY <2>10 DEF vars, ADT!vars, Bag, Left, Cell
    <2> QED
      BY <2>1, <2>2, <2>3, <2>4, <2>5, <2>6, <2>7, <2>8, <2>9, <2>10 DEF Next
  <1> QED
    BY <1>1, <1>2, Invariance, PTL DEF Spec, Queue, ADT!Spec

=============================================================================
