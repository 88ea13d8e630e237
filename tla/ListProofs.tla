----------------------------- MODULE ListProofs -----------------------------
(***************************************************************************)
(* Proofs about the lists of chutil/src/list.c, for any cells and any      *)
(* length.  The array list hands out no cell that was never written; the   *)
(* nodes of the linked list stay linked both ways; and the caller of       *)
(* either sees a list.                                                     *)
(***************************************************************************)
EXTENDS List, TLAPS, WellFoundedInduction

----------------------------------------------------------------------------
(* The array list. *)

Item == Value \cup {Junk}

\* The types of the array proper, apart from those of the iterator.
ArrayOK ==
    /\ cap \in Nat \ {0}
    /\ len \in 0..cap
    /\ arr \in [0..(cap - 1) -> Item]

IterOK == iterInd \in Nat /\ out \in Value \cup {NoValue, Junk}

LEMMA TypeParts == AlTypeOK <=> ArrayOK /\ IterOK /\ iterating \in BOOLEAN
  BY DEF AlTypeOK, ArrayOK, IterOK, Item

IInv == ArrayOK /\ IterOK /\ NoJunk
FlagOK == iterating \in BOOLEAN

----------------------------------------------------------------------------
LEMMA InitInv == AlInit => IInv /\ FlagOK
<1> SUFFICES ASSUME AlInit PROVE IInv /\ FlagOK
  OBVIOUS
<1>1. cap = 1 /\ len = 0 /\ arr \in [0..(cap - 1) -> Item]
  BY DEF AlInit, Item
<1>2. iterInd \in 0..MaxLen /\ out = NoValue
  BY DEF AlInit
<1>3. FlagOK
  BY DEF AlInit, FlagOK
<1> QED
  BY <1>1, <1>2, <1>3, ArrayListAssumption DEF IInv, ArrayOK, IterOK, NoJunk

\* A resize keeps the cells there were.
LEMMA GrowKeeps ==
    ASSUME ArrayOK
    PROVE  /\ Grow \in [0..(2 * cap - 1) -> Item]
           /\ \A i \in 0..(cap - 1) : Grow[i] = arr[i]
  BY DEF ArrayOK, Grow, Item

\* Whether or not it grows the array, a push writes the cell after the last,
\* and no other that is in use.
LEMMA PushWrites ==
    ASSUME ArrayOK, NEW v \in Value, AlPush(v)
    PROVE  /\ ArrayOK'
           /\ len' = len + 1
           /\ \A i \in 0..len : arr'[i] = IF i = len THEN v ELSE arr[i]
<1>1. CASE len = cap
  <2>1. cap' = 2 * cap /\ arr' = [Grow EXCEPT ![len] = v] /\ len' = len + 1
    BY <1>1 DEF AlPush
  <2>2. len \in 0..(2 * cap - 1) /\ v \in Item /\ len' \in 0..cap' /\ cap' \in Nat \ {0}
    BY <1>1, <2>1 DEF ArrayOK, Item
  <2>3. arr' \in [0..(cap' - 1) -> Item]
    BY <2>1, <2>2, GrowKeeps
  <2>4. \A i \in 0..len : arr'[i] = IF i = len THEN v ELSE arr[i]
    BY <1>1, <2>1, <2>2, GrowKeeps DEF ArrayOK
  <2> QED
    BY <2>1, <2>2, <2>3, <2>4 DEF ArrayOK
<1>2. CASE len # cap
  <2>1. cap' = cap /\ arr' = [arr EXCEPT ![len] = v] /\ len' = len + 1
    BY <1>2 DEF AlPush
  <2> QED
    BY <1>2, <2>1 DEF ArrayOK, Item
<1> QED
  BY <1>1, <1>2

\* A poll moves every cell in use one place down.
LEMMA PollMoves ==
    ASSUME ArrayOK, AlPoll, len # 0
    PROVE  /\ ArrayOK'
           /\ len' = len - 1 /\ out' = arr[0]
           /\ \A i \in 0..(len - 2) : arr'[i] = arr[i + 1]
<1>1. /\ arr' = [i \in DOMAIN arr |-> IF i < len - 1 THEN arr[i + 1] ELSE arr[i]]
      /\ len' = len - 1 /\ out' = arr[0] /\ cap' = cap
  BY DEF AlPoll
<1>2. arr' \in [0..(cap - 1) -> Item]
  BY <1>1 DEF ArrayOK
<1> QED
  BY <1>1, <1>2 DEF ArrayOK

LEMMA StepInv == IInv /\ [AlNext]_alVars => IInv'
<1> SUFFICES ASSUME ArrayOK, IterOK, NoJunk, [AlNext]_alVars PROVE IInv'
  BY DEF IInv
<1> USE ArrayListAssumption DEF IInv, IterOK, NoJunk
<1>1. CASE UNCHANGED <<cap, len, arr, iterInd, out>>
  BY <1>1 DEF ArrayOK
<1>2. CASE AlPop
  BY <1>2 DEF AlPop, ArrayOK, Item
<1>3. CASE AlPoll /\ len = 0
  BY <1>3 DEF AlPoll, ArrayOK
<1>4. CASE AlPoll /\ len # 0
  <2>1. iterInd' = iterInd
    BY <1>4 DEF AlPoll
  <2>2. arr[0] \in Item /\ arr[0] # Junk
    BY <1>4 DEF ArrayOK
  <2> QED
    BY <1>4, <2>1, <2>2, PollMoves DEF ArrayOK, Item
<1>5. CASE AlResetIterator
  BY <1>5 DEF AlResetIterator, ArrayOK
<1>6. CASE AlNextCell
  BY <1>6 DEF AlNextCell, ArrayOK, Item
<1>7. ASSUME NEW v \in Value, AlPush(v) PROVE IInv'
  <2>1. iterInd' = iterInd /\ out' = NoValue
    BY <1>7 DEF AlPush
  <2> QED
    BY <1>7, <2>1, PushWrites DEF ArrayOK
<1>8. ASSUME NEW i \in 0..(len - 1), AlGet(i) PROVE IInv'
  BY <1>8 DEF AlGet, ArrayOK, Item
<1>9. ASSUME NEW i \in 0..(len - 1), NEW v \in Value, AlSet(i, v) PROVE IInv'
  BY <1>9 DEF AlSet, ArrayOK, Item
<1>10. CASE AlDelete
  BY <1>10 DEF AlDelete, ArrayOK, Item
<1> QED
  BY <1>1, <1>2, <1>3, <1>4, <1>5, <1>6, <1>7, <1>8, <1>9, <1>10 DEF AlNext, alVars

LEMMA StepFlag == FlagOK /\ [AlNext]_alVars => FlagOK'
  BY DEF FlagOK, AlNext, alVars, AlPop, AlPoll, AlResetIterator, AlNextCell, AlPush, AlGet, AlSet,
     AlDelete

\* No operation of the array list hands out, or leaves in use, a cell that was
\* never written: resizes keep the cells, and polls move down only cells in use.
THEOREM ArrayListNoJunk == AlSpec => [](AlTypeOK /\ NoJunk)
<1>1. IInv /\ FlagOK => AlTypeOK /\ NoJunk
  BY TypeParts DEF IInv, FlagOK
<1> QED
  BY InitInv, StepInv, StepFlag, <1>1, PTL DEF AlSpec

----------------------------------------------------------------------------
(* The refinement: each operation of the array list is that of ListADT.    *)

\* The cells in use, as a sequence.
LEMMA CellsAre ==
    ASSUME NEW n \in Nat, NEW c \in Nat, n <= c, NEW a \in [0..(c - 1) -> Item]
    PROVE  LET s == [i \in 1..n |-> a[i - 1]]
           IN /\ s \in Seq(Item) /\ Len(s) = n
              /\ \A i \in 1..n : s[i] = a[i - 1]
              /\ s = <<>> <=> n = 0
<1> DEFINE s == [i \in 1..n |-> a[i - 1]]
<1>1. s \in [1..n -> Item]
  OBVIOUS
<1>2. s \in Seq(Item) /\ Len(s) = n
  BY <1>1
<1> QED
  BY <1>2

\* Two sequences of the same length with the same elements are the same: so a
\* sequence is known by its length and its elements to be another cut short,
\* extended, or changed in one place.
LEMMA SameCells ==
    ASSUME NEW T, NEW s \in Seq(T), NEW t \in Seq(T), Len(s) = Len(t),
           \A i \in 1..Len(s) : s[i] = t[i]
    PROVE  s = t
  OBVIOUS

LEMMA IsFront ==
    ASSUME NEW T, NEW s \in Seq(T), NEW t \in Seq(T), Len(s) > 0, Len(t) = Len(s) - 1,
           \A i \in 1..(Len(s) - 1) : t[i] = s[i]
    PROVE  t = SubSeq(s, 1, Len(s) - 1)
<1> DEFINE u == SubSeq(s, 1, Len(s) - 1)
<1>1. u \in Seq(T) /\ Len(u) = Len(s) - 1 /\ \A i \in 1..(Len(s) - 1) : u[i] = s[i]
  OBVIOUS
<1> HIDE DEF u
<1>2. t = u
  BY <1>1, SameCells
<1> QED
  BY <1>2 DEF u

LEMMA IsTail ==
    ASSUME NEW T, NEW s \in Seq(T), NEW t \in Seq(T), Len(s) > 0, Len(t) = Len(s) - 1,
           \A i \in 1..(Len(s) - 1) : t[i] = s[i + 1]
    PROVE  t = Tail(s)
<1> DEFINE u == Tail(s)
<1>1. u \in Seq(T) /\ Len(u) = Len(s) - 1 /\ \A i \in 1..(Len(s) - 1) : u[i] = s[i + 1]
  OBVIOUS
<1> HIDE DEF u
<1>2. t = u
  BY <1>1, SameCells
<1> QED
  BY <1>2 DEF u

LEMMA IsAppend ==
    ASSUME NEW T, NEW s \in Seq(T), NEW t \in Seq(T), NEW v \in T, Len(t) = Len(s) + 1,
           \A i \in 1..Len(s) : t[i] = s[i], t[Len(s) + 1] = v
    PROVE  t = Append(s, v)
<1> DEFINE u == Append(s, v)
<1>1. /\ u \in Seq(T) /\ Len(u) = Len(s) + 1
      /\ \A i \in 1..(Len(s) + 1) : u[i] = IF i = Len(s) + 1 THEN v ELSE s[i]
  OBVIOUS
<1> HIDE DEF u
<1>2. t = u
  BY <1>1, SameCells
<1> QED
  BY <1>2 DEF u

LEMMA IsExcept ==
    ASSUME NEW T, NEW s \in Seq(T), NEW t \in Seq(T), NEW v \in T, NEW k \in 1..Len(s),
           Len(t) = Len(s), \A i \in 1..Len(s) : t[i] = IF i = k THEN v ELSE s[i]
    PROVE  t = [s EXCEPT ![k] = v]
<1> DEFINE u == [s EXCEPT ![k] = v]
<1>1. /\ u \in Seq(T) /\ Len(u) = Len(s)
      /\ \A i \in 1..Len(s) : u[i] = IF i = k THEN v ELSE s[i]
  OBVIOUS
<1> HIDE DEF u
<1>2. t = u
  BY <1>1, SameCells
<1> QED
  BY <1>2 DEF u

Seen(n, a, s) == s \in Seq(Item) /\ Len(s) = n /\ \A i \in 1..n : s[i] = a[i - 1]

LEMMA SeenNow == ASSUME ArrayOK PROVE Seen(len, arr, AlCells) /\ (AlCells = <<>> <=> len = 0)
  BY CellsAre DEF ArrayOK, AlCells, Seen

LEMMA SeenNext == ASSUME ArrayOK' PROVE Seen(len', arr', AlCells')
<1>1. cap' \in Nat \ {0} /\ len' \in 0..cap'
  BY DEF ArrayOK
<1>2. arr' \in [0..(cap' - 1) -> Item]
  BY DEF ArrayOK
<1>3. len' \in Nat /\ cap' \in Nat /\ len' <= cap'
  BY <1>1
<1>4. AlCells' = [i \in 1..len' |-> arr'[i - 1]]
  BY DEF AlCells
<1> QED
  BY <1>2, <1>3, <1>4, CellsAre DEF Seen

LEMMA RefineInit == AlInit => AlADT!Init
  BY SeenNow, InitInv DEF IInv, AlInit, AlADT!Init, AlVisit

LEMMA RefineStep == IInv /\ IInv' /\ [AlNext]_alVars => [AlADT!Next]_AlADT!vars
<1> SUFFICES ASSUME ArrayOK, ArrayOK', IterOK, [AlNext]_alVars
             PROVE  [AlADT!Next]_AlADT!vars
  BY DEF IInv
<1>0. Seen(len, arr, AlCells) /\ (AlCells = <<>> <=> len = 0) /\ Seen(len', arr', AlCells')
  BY SeenNow, SeenNext
<1> USE <1>0
<1>1. CASE UNCHANGED alVars
  BY <1>1 DEF alVars, AlADT!vars, AlCells, AlVisit
<1>2. CASE AlPop
  <2>1. AlVisit' = -1
    BY <1>2 DEF AlPop, AlVisit
  <2>2. CASE len = 0
    <3>1. AlCells' = AlCells /\ AlCells = <<>> /\ out' = NoValue
      BY <1>2, <2>2 DEF AlPop, AlCells
    <3> QED
      BY <2>1, <3>1 DEF AlADT!Pop, AlADT!Next
  <2>3. CASE len # 0
    <3>1. len' = len - 1 /\ arr' = arr /\ out' = arr[len - 1]
      BY <1>2, <2>3 DEF AlPop
    <3>4. AlCells' \in Seq(Item) /\ Len(AlCells') = Len(AlCells) - 1 /\ Len(AlCells) > 0
      BY <2>3, <3>1 DEF Seen, ArrayOK
    <3>5. ASSUME NEW i \in 1..(Len(AlCells) - 1) PROVE AlCells'[i] = AlCells[i]
      <4>1. i \in 1..(len - 1) /\ i \in 1..len /\ i - 1 \in 0..(len - 2)
        BY DEF Seen, ArrayOK
      <4>2. AlCells'[i] = arr'[i - 1] /\ AlCells[i] = arr[i - 1]
        BY <3>1, <4>1 DEF Seen, ArrayOK
      <4> QED
        BY <3>1, <4>1, <4>2 DEF ArrayOK
    <3>2. AlCells' = SubSeq(AlCells, 1, Len(AlCells) - 1)
      BY <3>4, <3>5, IsFront DEF Seen
    <3>3. out' = AlCells[Len(AlCells)] /\ AlCells # <<>>
      BY <2>3, <3>1 DEF Seen, ArrayOK
    <3> QED
      BY <2>1, <3>2, <3>3 DEF AlADT!Pop, AlADT!Next
  <2> QED
    BY <2>2, <2>3
<1>3. CASE AlPoll
  <2>1. AlVisit' = -1
    BY <1>3 DEF AlPoll, AlVisit
  <2>2. CASE len = 0
    <3>1. AlCells' = AlCells /\ AlCells = <<>> /\ out' = NoValue
      BY <1>3, <2>2 DEF AlPoll, AlCells
    <3> QED
      BY <2>1, <3>1 DEF AlADT!Poll, AlADT!Next
  <2>3. CASE len # 0
    <3>1. /\ len' = len - 1 /\ out' = arr[0]
          /\ \A i \in 0..(len - 2) : arr'[i] = arr[i + 1]
      BY <1>3, <2>3, PollMoves
    <3>4. AlCells' \in Seq(Item) /\ Len(AlCells') = Len(AlCells) - 1 /\ Len(AlCells) > 0
      BY <2>3, <3>1 DEF Seen, ArrayOK
    <3>5. ASSUME NEW i \in 1..(Len(AlCells) - 1) PROVE AlCells'[i] = AlCells[i + 1]
      <4>1. i \in 1..(len - 1) /\ i + 1 \in 1..len /\ i - 1 \in 0..(len - 2)
        BY DEF Seen, ArrayOK
      <4>3. \A j \in 1..len : j = i + 1 => AlCells[j] = arr[i]
        <5>1. \A j \in 1..len : AlCells[j] = arr[j - 1]
          BY DEF Seen
        <5>2. \A j \in 1..len : j = i + 1 => j - 1 = i
          BY <4>1
        <5> QED
          BY <5>1, <5>2
      <4>2. AlCells'[i] = arr'[i - 1] /\ AlCells[i + 1] = arr[i]
        BY <3>1, <4>1, <4>3 DEF Seen
      <4> QED
        BY <3>1, <4>1, <4>2 DEF ArrayOK
    <3>2. AlCells' = Tail(AlCells)
      BY <3>4, <3>5, IsTail DEF Seen
    <3>3. out' = Head(AlCells) /\ AlCells # <<>>
      BY <2>3, <3>1 DEF Seen, ArrayOK
    <3> QED
      BY <2>1, <3>2, <3>3 DEF AlADT!Poll, AlADT!Next
  <2> QED
    BY <2>2, <2>3
<1>4. CASE AlResetIterator
  BY <1>4 DEF AlResetIterator, AlADT!ResetIterator, AlADT!Next, AlCells, AlVisit
<1>5. CASE AlNextCell
  <2>1. AlCells' = AlCells /\ AlVisit = iterInd /\ AlVisit' = iterInd'
    BY <1>5 DEF AlNextCell, AlCells, AlVisit
  <2>2. CASE iterInd < len
    <3>1. out' = AlCells[iterInd + 1] /\ iterInd' = iterInd + 1
      BY <1>5, <2>2 DEF AlNextCell, Seen, IterOK, ArrayOK
    <3> QED
      BY <2>1, <2>2, <3>1 DEF AlADT!NextCell, AlADT!Next, Seen, IterOK
  <2>3. CASE ~ (iterInd < len)
    <3>1. out' = NoValue /\ iterInd' = iterInd
      BY <1>5, <2>3 DEF AlNextCell
    <3> QED
      BY <2>1, <2>3, <3>1 DEF AlADT!NextCell, AlADT!Next, Seen, IterOK
  <2> QED
    BY <2>2, <2>3
<1>6. ASSUME NEW v \in Value, AlPush(v) PROVE AlADT!Next
  <2>1. AlVisit' = -1 /\ out' = NoValue
    BY <1>6 DEF AlPush, AlVisit
  <2>2. len' = len + 1 /\ \A i \in 0..len : arr'[i] = IF i = len THEN v ELSE arr[i]
    BY <1>6, PushWrites
  <2>3. AlCells' = Append(AlCells, v)
    <3>2. \A i \in 1..(len + 1) : AlCells'[i] = IF i = len + 1 THEN v ELSE AlCells[i]
      <4> TAKE i \in 1..(len + 1)
      <4>1. AlCells'[i] = arr'[i - 1]
        BY <2>2 DEF Seen
      <4>2. arr'[i - 1] = IF i - 1 = len THEN v ELSE arr[i - 1]
        BY <2>2 DEF ArrayOK
      <4>3. i # len + 1 => AlCells[i] = arr[i - 1]
        BY DEF Seen, ArrayOK
      <4> QED
        BY <4>1, <4>2, <4>3 DEF ArrayOK
    <3>3. AlCells' \in Seq(Item) /\ Len(AlCells') = len + 1
      BY <2>2 DEF Seen
    <3>4. /\ v \in Item /\ AlCells'[len + 1] = v
          /\ \A i \in 1..len : AlCells'[i] = AlCells[i]
      BY <3>2 DEF ArrayOK, Item
    <3> QED
      BY <3>3, <3>4, IsAppend DEF Seen
  <2> QED
    BY <2>1, <2>3 DEF AlADT!Push, AlADT!Next
<1>7. ASSUME NEW i \in 0..(len - 1), AlGet(i) PROVE AlADT!Next
  <2>1. AlCells' = AlCells /\ AlVisit' = AlVisit
    BY <1>7 DEF AlGet, AlCells, AlVisit
  <2>2. i \in 0..(Len(AlCells) - 1) /\ out' = AlCells[i + 1]
    BY <1>7 DEF AlGet, Seen, ArrayOK
  <2> QED
    BY <2>1, <2>2 DEF AlADT!Get, AlADT!Next, Seen, ArrayOK
<1>8. ASSUME NEW i \in 0..(len - 1), NEW v \in Value, AlSet(i, v) PROVE AlADT!Next
  <2>1. AlVisit' = AlVisit /\ out' = NoValue
    BY <1>8 DEF AlSet, AlVisit
  <2>2. arr' = [arr EXCEPT ![i] = v] /\ len' = len
    BY <1>8 DEF AlSet
  <2>3. AlCells' = [AlCells EXCEPT ![i + 1] = v]
    <3>2. \A j \in 1..len : AlCells'[j] = IF j = i + 1 THEN v ELSE AlCells[j]
      <4> TAKE j \in 1..len
      <4>1. AlCells'[j] = arr'[j - 1] /\ AlCells[j] = arr[j - 1]
        BY <2>2 DEF Seen
      <4>2. j - 1 \in 0..(cap - 1)
        BY DEF ArrayOK
      <4>3. arr'[j - 1] = IF j - 1 = i THEN v ELSE arr[j - 1]
        BY <2>2, <4>2 DEF ArrayOK
      <4> QED
        BY <4>1, <4>3 DEF ArrayOK
    <3>3. AlCells' \in Seq(Item) /\ Len(AlCells') = len
      BY <2>2 DEF Seen
    <3>4. i + 1 \in 1..len /\ v \in Item
      BY DEF ArrayOK, Item
    <3> QED
      BY <3>2, <3>3, <3>4, IsExcept DEF Seen
  <2>4. i \in 0..(Len(AlCells) - 1) /\ i < Len(AlCells)
    BY DEF Seen, ArrayOK
  <2>5. AlADT!Set(i, v)
    BY <2>1, <2>3, <2>4 DEF AlADT!Set
  <2> QED
    BY <2>4, <2>5 DEF AlADT!Next
<1>9. CASE AlDelete
  <2>1. AlCells' = <<>> /\ AlVisit' = -1 /\ out' = NoValue
    BY <1>9 DEF AlDelete, AlCells, AlVisit
  <2> QED
    BY <2>1 DEF AlADT!Renew, AlADT!Next
<1> QED
  BY <1>1, <1>2, <1>3, <1>4, <1>5, <1>6, <1>7, <1>8, <1>9 DEF AlNext

\* The array list is a list: every operation of list.c:57-133 does what
\* list.h promises of a list_t, whatever was pushed, popped and polled before.
THEOREM ArrayListIsAList == AlSpec => AlList
  BY InitInv, StepInv, RefineInit, RefineStep, PTL DEF AlSpec, AlList, AlADT!Spec

----------------------------------------------------------------------------
(* Recursion along the next pointers. *)

\* A set of naturals has a least one: the form in which induction is used here.
LEMMA Minimal ==
    ASSUME NEW S \in SUBSET Nat, S # {}
    PROVE  \E m \in S : \A n \in S : m <= n
<1> DEFINE R == OpToRel(<, Nat)
<1>1. PICK m \in S : \A n \in S : ~ (<<n, m>> \in R)
  BY NatLessThanWellFounded, WFMin
<1>2. \A n \in S : <<n, m>> \in R <=> n < m
  BY DEF OpToRel
<1> HIDE DEF R
<1>3. \A n \in S : ~ (n < m)
  BY <1>1, <1>2, Zenon
<1> QED
  BY <1>3

\* The first n steps of the walk from f along nx.
Walk(g, f, nx, n) == g[0] = f /\ \A i \in 1..n : g[i] = nx[g[i - 1]]

LEMMA WalkExists ==
    ASSUME NEW f, NEW nx, NEW n \in Nat
    PROVE  \E g : Walk(g, f, nx, n)
<1> DEFINE bad == {k \in Nat : ~ \E g : Walk(g, f, nx, k)}
<1>1. SUFFICES ASSUME bad # {} PROVE FALSE
  OBVIOUS
<1>2. PICK m \in bad : \A k \in bad : m <= k
  <2>1. bad \in SUBSET Nat
    OBVIOUS
  <2> HIDE DEF bad
  <2> QED
    BY <1>1, <2>1, Minimal
<1>3. m # 0
  <2>1. Walk([i \in {0} |-> f], f, nx, 0)
    BY DEF Walk
  <2> QED
    BY <2>1
<1>4. PICK g : Walk(g, f, nx, m - 1)
  <2>1. m - 1 \in Nat /\ ~ (m <= m - 1)
    BY <1>3
  <2> QED
    BY <1>2, <2>1
<1> DEFINE h == [i \in 0..m |-> IF i = m THEN nx[g[m - 1]] ELSE g[i]]
<1>5. Walk(h, f, nx, m)
  BY <1>3, <1>4 DEF Walk
<1> QED
  BY <1>5

LEMMA WalkUnique ==
    ASSUME NEW f, NEW nx, NEW n \in Nat, NEW m \in Nat, NEW g, NEW h,
           Walk(g, f, nx, n), Walk(h, f, nx, m), NEW i \in Nat, i <= n, i <= m
    PROVE  g[i] = h[i]
<1> DEFINE bad == {k \in 0..i : g[k] # h[k]}
<1>1. SUFFICES ASSUME bad # {} PROVE FALSE
  OBVIOUS
<1>2. PICK k \in bad : \A j \in bad : k <= j
  <2>1. bad \in SUBSET Nat
    OBVIOUS
  <2> HIDE DEF bad
  <2> QED
    BY <1>1, <2>1, Minimal
<1>3. k # 0
  BY DEF Walk
<1>4. k - 1 \notin bad /\ k - 1 \in 0..i
  BY <1>2, <1>3
<1>5. g[k] = nx[g[k - 1]] /\ h[k] = nx[h[k - 1]]
  BY <1>3 DEF Walk
<1> QED
  BY <1>4, <1>5

\* NodeAt is what its definition says: from first along the next pointers.
LEMMA NodeAtIs == NodeAt = [i \in Nat |-> IF i = 0 THEN first ELSE next[NodeAt[i - 1]]]
<1> DEFINE W(n) == CHOOSE g : Walk(g, first, next, n)
           G == [n \in Nat |-> W(n)[n]]
           Body(h) == [i \in Nat |-> IF i = 0 THEN first ELSE next[h[i - 1]]]
<1>1. \A n \in Nat : Walk(W(n), first, next, n)
  BY WalkExists, Zenon
<1> HIDE DEF W
<1>2. ASSUME NEW i \in Nat
      PROVE  G[i] = IF i = 0 THEN first ELSE next[G[i - 1]]
  <2>1. CASE i = 0
    BY <1>1, <2>1 DEF Walk
  <2>2. CASE i # 0
    <3>1. i - 1 \in Nat /\ i - 1 <= i /\ i \in 1..i
      BY <2>2
    <3>2. W(i)[i] = next[W(i)[i - 1]]
      BY <1>1, <3>1 DEF Walk
    <3>3. W(i)[i - 1] = W(i - 1)[i - 1]
      BY <1>1, <3>1, WalkUnique
    <3> QED
      BY <2>2, <3>1, <3>2, <3>3
  <2> QED
    BY <2>1, <2>2
<1>3. G = Body(G)
  BY <1>2
<1> HIDE DEF G, Body
<1>4. (CHOOSE h : h = Body(h)) = Body(CHOOSE h : h = Body(h))
  BY <1>3, Zenon
<1>5. NodeAt = CHOOSE h : h = Body(h)
  BY DEF NodeAt, Body
<1>6. NodeAt = Body(NodeAt)
  BY <1>4, <1>5, Zenon
<1> QED
  BY <1>6 DEF Body

----------------------------------------------------------------------------
(* The chain of the linked list's nodes: c is the nodes from first to last, *)
(* by position, and says of every pointer that is followed where it leads.  *)

Linked(c, n, f, l, nx, pv, al) ==
    /\ n \in Nat /\ c \in [0..(n - 1) -> Node]
    /\ n = 0 => f = Null /\ l = Null
    /\ n > 0 => f = c[0] /\ l = c[n - 1] /\ nx[l] = Null /\ pv[f] = Null
    /\ \A i \in 1..(n - 1) : nx[c[i - 1]] = c[i] /\ pv[c[i]] = c[i - 1]
    /\ \A i, j \in 0..(n - 1) : c[i] = c[j] => i = j
    /\ \A i \in 0..(n - 1) : c[i] \in al
    /\ \A x \in al : \E i \in 0..(n - 1) : c[i] = x

\* The iterator in use is at the next cell to visit.
AtCell(c, n, it, vis) ==
    \/ vis = -1
    \/ vis \in 0..n /\ (vis < n => it = c[vis]) /\ (vis = n => it = Null)

NodesOK ==
    /\ alive \subseteq Node
    /\ prev \in [Node -> Pointer]
    /\ next \in [Node -> Pointer]
    /\ cell \in [Node -> Value \cup {NoValue}]
    /\ first \in Pointer /\ last \in Pointer
    /\ iter \in Pointer

HasChain(c) ==
    /\ Linked(c, llLen, first, last, next, prev, alive)
    /\ AtCell(c, llLen, iter, visited)

LlInv == NodesOK /\ \E c : HasChain(c)

\* Where the loop of ll_get stops: at once, whatever the index.
LEMMA FindsFirst == ASSUME NodesOK, NEW i \in Nat PROVE Find(i) = first
<1> DEFINE Body(h) == [p \in Pointer \X Nat |->
                IF p[1] # Null /\ i < p[2] THEN h[<<next[p[1]], p[2] + 1>>] ELSE p[1]]
           G == [p \in Pointer \X Nat |-> IF p[1] # Null /\ i < p[2] THEN Null ELSE p[1]]
           step == CHOOSE h : h = Body(h)
<1>1. ASSUME NEW p \in Pointer \X Nat, p[1] # Null, i < p[2]
      PROVE  G[<<next[p[1]], p[2] + 1>>] = Null
  <2>1. next[p[1]] \in Pointer /\ p[2] + 1 \in Nat /\ i < p[2] + 1
    BY <1>1 DEF NodesOK, Pointer
  <2>2. <<next[p[1]], p[2] + 1>> \in Pointer \X Nat
    BY <2>1
  <2> QED
    BY <2>1, <2>2
<1>2. G = Body(G)
  BY <1>1
<1> HIDE DEF G, Body
<1>3. step = Body(step)
  BY <1>2, Zenon
<1>4. first \in Pointer /\ 0 \in Nat /\ ~ (i < 0)
  BY DEF NodesOK
<1> HIDE DEF step
<1>5. Body(step)[<<first, 0>>] = first
  BY <1>4 DEF Body
<1>6. step[<<first, 0>>] = first
  BY <1>3, <1>5, Zenon
<1>7. Find(i) = step[<<first, 0>>]
  BY Zenon DEF Find, step, Body
<1> QED
  BY <1>6, <1>7

\* The nodes delete_linked_list meets when it starts at f: those in every set
\* that the walk cannot leave.
Closed(S) == \A x \in S : next[x] \in S \cup {Null}
Met(f) == {m \in Node : \A S \in SUBSET Node : Closed(S) /\ f \in S \cup {Null} => m \in S}

LEMMA MetNext == ASSUME NodesOK, LinkedListAssumption, NEW f \in Node
                 PROVE  Met(f) = {f} \cup Met(next[f])
<1>1. next[f] \in Pointer /\ f # Null
  BY DEF NodesOK, LinkedListAssumption
<1>2. Met(next[f]) \in SUBSET Node /\ Closed(Met(next[f]))
  <2>1. ASSUME NEW x \in Met(next[f]), next[x] # Null PROVE next[x] \in Met(next[f])
    <3>1. next[x] \in Node
      BY <2>1 DEF Met, NodesOK, Pointer
    <3>2. ASSUME NEW S \in SUBSET Node, Closed(S), next[f] \in S \cup {Null} PROVE next[x] \in S
      BY <2>1, <3>2 DEF Met, Closed
    <3> QED
      BY <3>1, <3>2 DEF Met
  <2> QED
    BY <2>1 DEF Met, Closed
<1>3. next[f] \in Met(next[f]) \cup {Null}
  BY <1>1 DEF Met, Pointer
<1> DEFINE T == {f} \cup Met(next[f])
<1>4. T \in SUBSET Node /\ Closed(T) /\ f \in T
  BY <1>2, <1>3 DEF Closed
<1>5. Met(f) \subseteq T
  BY <1>4 DEF Met
<1>6. ASSUME NEW m \in T PROVE m \in Met(f)
  <2>1. ASSUME NEW S \in SUBSET Node, Closed(S), f \in S \cup {Null} PROVE m \in S
    <3>1. f \in S /\ next[f] \in S \cup {Null}
      BY <1>1, <2>1 DEF Closed
    <3> QED
      BY <1>6, <2>1, <3>1 DEF Met
  <2>2. m \in Node
    BY <1>4, <1>6
  <2> QED
    BY <2>1, <2>2 DEF Met
<1> QED
  BY <1>5, <1>6

LEMMA MetNull == LinkedListAssumption => Met(Null) = {}
<1> SUFFICES ASSUME NEW m \in Met(Null) PROVE FALSE
  OBVIOUS
<1>1. {} \in SUBSET Node /\ Closed({}) /\ Null \in {} \cup {Null}
  BY DEF Closed
<1> QED
  BY <1>1 DEF Met

LEMMA FreedIs ==
    ASSUME NodesOK, LinkedListAssumption
    PROVE  Freed = [n \in Pointer |-> IF n = Null THEN {} ELSE {n} \cup Freed[next[n]]]
<1> DEFINE Body(h) == [n \in Pointer |-> IF n = Null THEN {} ELSE {n} \cup h[next[n]]]
           G == [n \in Pointer |-> Met(n)]
<1>1. ASSUME NEW n \in Pointer
      PROVE  Met(n) = IF n = Null THEN {} ELSE {n} \cup G[next[n]]
  <2>1. n # Null => n \in Node /\ next[n] \in Pointer
    BY DEF NodesOK, Pointer
  <2> QED
    BY <2>1, MetNext, MetNull
<1>2. G = Body(G)
  BY <1>1
<1> HIDE DEF G, Body
<1>3. (CHOOSE h : h = Body(h)) = Body(CHOOSE h : h = Body(h))
  BY <1>2, Zenon
<1>4. Freed = CHOOSE h : h = Body(h)
  BY DEF Freed, Body
<1>5. Freed = Body(Freed)
  BY <1>3, <1>4, Zenon
<1> QED
  BY <1>5 DEF Body

\* The walk along a chain misses no node of it, and so frees them all.
LEMMA FreesAll ==
    ASSUME NodesOK, NEW c, HasChain(c)
    PROVE  alive \ Freed[first] = {}
<1> USE LinkedListAssumption
<1>0. Linked(c, llLen, first, last, next, prev, alive)
  BY DEF HasChain
<1> DEFINE bad == {i \in 0..(llLen - 1) : ~ (Freed[c[i]] \subseteq Freed[first])}
<1>1. ASSUME bad # {} PROVE FALSE
  <2>1. PICK m \in bad : \A i \in bad : m <= i
    <3>1. bad \in SUBSET Nat
      OBVIOUS
    <3> HIDE DEF bad
    <3> QED
      BY <1>1, <3>1, Minimal
  <2>2. m # 0 /\ m \in 1..(llLen - 1)
    BY <1>0 DEF Linked
  <2>3. m - 1 \in 0..(llLen - 1) /\ m - 1 \notin bad
    BY <1>0, <2>1, <2>2 DEF Linked
  <2>4. c[m - 1] \in Node /\ c[m - 1] # Null /\ next[c[m - 1]] = c[m]
    BY <1>0, <2>2, <2>3 DEF Linked, LinkedListAssumption
  <2>5. Freed[c[m - 1]] = {c[m - 1]} \cup Freed[c[m]]
    BY <2>4, FreedIs DEF Pointer
  <2> QED
    BY <2>1, <2>3, <2>5
<1>2. ASSUME NEW x \in alive PROVE x \in Freed[first]
  <2>1. PICK i \in 0..(llLen - 1) : c[i] = x
    BY <1>0 DEF Linked
  <2>2. x \in Node /\ x # Null
    BY DEF NodesOK, LinkedListAssumption
  <2>3. Freed[x] = {x} \cup Freed[next[x]]
    BY <2>2, FreedIs DEF Pointer
  <2> QED
    BY <1>1, <2>1, <2>3
<1> QED
  BY <1>2

----------------------------------------------------------------------------
(* What each operation makes of the chain.                                 *)

Longer(c, n, x) == [i \in 0..n |-> IF i = n THEN x ELSE c[i]]
Front(c, n) == [i \in 0..(n - 2) |-> c[i]]
Rest(c, n) == [i \in 0..(n - 2) |-> c[i + 1]]

LinkedNow(c) == Linked(c, llLen, first, last, next, prev, alive)

\* A chain of which k is the last position.
Chained(c, k, nx, pv, al) ==
    /\ c \in [0..k -> Node]
    /\ \A i \in 1..k : nx[c[i - 1]] = c[i] /\ pv[c[i]] = c[i - 1]
    /\ \A i, j \in 0..k : c[i] = c[j] => i = j
    /\ \A i \in 0..k : c[i] \in al
    /\ \A x \in al : \E i \in 0..k : c[i] = x

LEMMA IsLinked ==
    ASSUME NEW n \in Nat, n > 0, NEW k \in Nat, n - 1 = k, NEW c, NEW f, NEW l, NEW nx, NEW pv, NEW al,
           f = c[0], l = c[k], nx[l] = Null, pv[f] = Null, Chained(c, k, nx, pv, al)
    PROVE  Linked(c, n, f, l, nx, pv, al)
<1>1. Chained(c, n - 1, nx, pv, al) /\ l = c[n - 1]
  BY Zenon
<1> QED
  BY <1>1 DEF Linked, Chained

LEMMA Ends ==
    ASSUME NodesOK, NEW c, LinkedNow(c)
    PROVE  /\ llLen \in Nat
           /\ first \in Node <=> llLen > 0
           /\ last \in Node <=> llLen > 0
           /\ first # Null <=> llLen > 0
           /\ last # Null <=> llLen > 0
  BY LinkedListAssumption DEF LinkedNow, Linked

LEMMA PushLinks ==
    ASSUME NodesOK, NEW c, LinkedNow(c), NEW v \in Value, NEW x \in Node, LlPush(v, x)
    PROVE  /\ NodesOK'
           /\ Linked(Longer(c, llLen, x), llLen', first', last', next', prev', alive')
<1> DEFINE n == llLen  d == Longer(c, n, x)
<1>0. /\ n \in Nat /\ c \in [0..(n - 1) -> Node]
      /\ \A i \in 0..(n - 1) : c[i] \in alive
      /\ \A i, j \in 0..(n - 1) : c[i] = c[j] => i = j
      /\ \A y \in alive : \E i \in 0..(n - 1) : c[i] = y
  BY DEF LinkedNow, Linked
<1>1. /\ x \notin alive /\ alive' = alive \cup {x} /\ prev' = [prev EXCEPT ![x] = last]
      /\ last' = x /\ llLen' = n + 1 /\ cell' = [cell EXCEPT ![x] = v] /\ iter' = iter
  BY DEF LlPush
<1>2. /\ d \in [0..n -> Node] /\ d[n] = x
      /\ \A i \in 0..(n - 1) : d[i] = c[i]
  BY <1>0 DEF Longer
<1>3. /\ next' \in [Node -> Pointer] /\ next'[x] = Null
      /\ n > 0 => next'[last] = x /\ first' = first
      /\ n = 0 => first' = x
      /\ \A y \in Node : y # x /\ y # last => next'[y] = next[y]
  <2>1. CASE n = 0
    <3>1. last = Null /\ next' = [next EXCEPT ![x] = Null] /\ first' = x
      BY <2>1 DEF LlPush, LinkedNow, Linked
    <3> QED
      BY <2>1, <3>1 DEF NodesOK, Pointer
  <2>2. CASE n > 0
    <3>1. last \in Node /\ last # Null /\ last # x
      BY <1>0, <1>1, <2>2, Ends DEF LinkedNow, Linked
    <3>2. next' = [next EXCEPT ![x] = Null, ![last] = x] /\ first' = first
      BY <3>1 DEF LlPush
    <3> QED
      BY <2>2, <3>1, <3>2 DEF NodesOK, Pointer
  <2> QED
    BY <1>0, <2>1, <2>2
<1> HIDE DEF d
<1>4. NodesOK'
  <2>1. first' \in Pointer
    BY <1>0, <1>3 DEF NodesOK, Pointer
  <2> QED
    BY <1>1, <1>3, <2>1 DEF NodesOK, Pointer
<1>5. ASSUME NEW i \in 1..n PROVE next'[d[i - 1]] = d[i] /\ prev'[d[i]] = d[i - 1]
  <2>1. i - 1 \in 0..(n - 1) /\ d[i - 1] = c[i - 1] /\ c[i - 1] \in Node /\ c[i - 1] # x
    BY <1>0, <1>1, <1>2
  <2>2. CASE i = n
    <3>1. last = c[n - 1] /\ n > 0 /\ d[i] = x
      BY <1>0, <1>2, <2>2 DEF LinkedNow, Linked
    <3> QED
      BY <1>1, <1>3, <2>1, <2>2, <3>1 DEF NodesOK
  <2>3. CASE i # n
    <3>1. i \in 1..(n - 1) /\ i \in 0..(n - 1) /\ d[i] = c[i] /\ c[i] \in Node /\ c[i] # x
      BY <1>0, <1>1, <1>2, <2>3
    <3>2. c[i - 1] # last
      <4>1. last = c[n - 1] /\ n - 1 \in 0..(n - 1) /\ i - 1 # n - 1
        BY <1>0, <2>3, <3>1 DEF LinkedNow, Linked
      <4> QED
        BY <1>0, <2>1, <4>1
    <3>3. next[c[i - 1]] = c[i] /\ prev[c[i]] = c[i - 1]
      BY <3>1 DEF LinkedNow, Linked
    <3> QED
      BY <1>1, <1>3, <2>1, <3>1, <3>2, <3>3 DEF NodesOK
  <2> QED
    BY <2>2, <2>3
<1>6. first' = d[0] /\ last' = d[n] /\ next'[last'] = Null /\ prev'[first'] = Null
  <2>1. CASE n = 0
    <3>1. first' = x /\ d[0] = x /\ last = Null
      BY <1>2, <1>3, <2>1 DEF LinkedNow, Linked
    <3> QED
      BY <1>1, <1>2, <1>3, <2>1, <3>1 DEF NodesOK
  <2>2. CASE n > 0
    <3>1. first' = c[0] /\ c[0] \in alive /\ c[0] \in Node /\ prev[c[0]] = Null /\ d[0] = c[0]
      BY <1>0, <1>2, <1>3, <2>2 DEF LinkedNow, Linked
    <3> QED
      BY <1>1, <1>2, <1>3, <3>1 DEF NodesOK
  <2> QED
    BY <1>0, <2>1, <2>2
<1>7. \A i, j \in 0..n : d[i] = d[j] => i = j
  BY <1>0, <1>1, <1>2
<1>8. \A i \in 0..n : d[i] \in alive'
  BY <1>0, <1>1, <1>2
<1>9. ASSUME NEW y \in alive' PROVE \E i \in 0..n : d[i] = y
  <2>1. CASE y = x
    BY <1>0, <1>2, <2>1
  <2>2. CASE y # x
    <3>1. PICK i \in 0..(n - 1) : c[i] = y
      BY <1>0, <1>1, <2>2
    <3>2. i \in 0..n /\ d[i] = y
      BY <1>0, <1>2, <3>1
    <3> QED
      BY <3>2
  <2> QED
    BY <2>1, <2>2
<1>10. n + 1 \in Nat /\ (n + 1) - 1 = n /\ n + 1 > 0
  BY <1>0
<1>11. Linked(d, n + 1, first', last', next', prev', alive')
  BY <1>0, <1>2, <1>5, <1>6, <1>7, <1>8, <1>9, <1>10 DEF Linked
<1> QED
  BY <1>1, <1>4, <1>11 DEF d

LEMMA PopUnlinks ==
    ASSUME NodesOK, NEW c, LinkedNow(c), LlPop
    PROVE  /\ NodesOK'
           /\ Linked(Front(c, llLen), llLen', first', last', next', prev', alive')
<1> DEFINE n == llLen  d == Front(c, n)
<1>0. /\ n \in Nat /\ n > 0 /\ c \in [0..(n - 1) -> Node]
      /\ \A i \in 0..(n - 1) : c[i] \in alive
      /\ \A i, j \in 0..(n - 1) : c[i] = c[j] => i = j
      /\ \A y \in alive : \E i \in 0..(n - 1) : c[i] = y
      /\ first = c[0] /\ last = c[n - 1] /\ prev[first] = Null
      /\ \A i \in 1..(n - 1) : next[c[i - 1]] = c[i] /\ prev[c[i]] = c[i - 1]
  <2>1. n # 0 /\ Linked(c, n, first, last, next, prev, alive)
    BY DEF LlPop, LinkedNow
  <2>2. n \in Nat /\ n > 0
    BY <2>1 DEF Linked
  <2> QED
    BY <2>1, <2>2 DEF Linked
<1>1. /\ alive' = alive \ {last} /\ prev' = prev /\ cell' = cell /\ iter' = iter
      /\ last' = prev[last] /\ llLen' = n - 1
  BY DEF LlPop
<1>2. /\ d \in [0..(n - 2) -> Node]
      /\ \A i \in 0..(n - 2) : d[i] = c[i]
  BY <1>0 DEF Front
<1> HIDE DEF d
<1>3. CASE n = 1
  <2>1. prev[last] = Null /\ first' = Null /\ next' = next
    BY <1>0, <1>3 DEF LlPop
  <2>2. alive' = {}
    BY <1>0, <1>1, <1>3
  <2>3. NodesOK'
    BY <1>1, <2>1, <2>2 DEF NodesOK, Pointer
  <2>4. Linked(d, 0, first', last', next', prev', alive')
    BY <1>1, <1>2, <1>3, <2>1, <2>2 DEF Linked
  <2> QED
    BY <1>1, <1>3, <2>3, <2>4 DEF d
<1>4. CASE n > 1
  <2>1. /\ n - 1 \in 1..(n - 1) /\ n - 2 \in 0..(n - 2) /\ n - 2 \in 0..(n - 1)
        /\ (n - 1) - 1 = n - 2
    BY <1>0, <1>4
  <2>2. prev[last] = c[n - 2] /\ c[n - 2] \in Node /\ c[n - 2] # Null
    BY <1>0, <2>1, LinkedListAssumption
  <2>3. next' = [next EXCEPT ![c[n - 2]] = Null] /\ first' = first
    BY <2>2 DEF LlPop
  <2>4. NodesOK'
    BY <1>1, <2>2, <2>3 DEF NodesOK, Pointer
  <2>5. next'[last'] = Null /\ last' = d[n - 2] /\ first' = d[0] /\ prev'[first'] = Null
    BY <1>0, <1>1, <1>2, <1>4, <2>1, <2>2, <2>3 DEF NodesOK
  <2>6. ASSUME NEW i \in 1..(n - 2) PROVE next'[d[i - 1]] = d[i] /\ prev'[d[i]] = d[i - 1]
    <3>1. i - 1 \in 0..(n - 2) /\ i \in 0..(n - 2) /\ i \in 1..(n - 1) /\ i - 1 # n - 2
      BY <1>0
    <3>2. i - 1 \in 0..(n - 1) /\ c[i - 1] \in Node /\ c[i - 1] # c[n - 2]
      BY <1>0, <2>1, <3>1
    <3> QED
      BY <1>0, <1>1, <1>2, <2>3, <3>1, <3>2 DEF NodesOK
  <2>7. \A i \in 0..(n - 2) : d[i] \in alive'
    <3> TAKE i \in 0..(n - 2)
    <3>1. i \in 0..(n - 1) /\ n - 1 \in 0..(n - 1) /\ i # n - 1
      BY <1>0
    <3> QED
      BY <1>0, <1>1, <1>2, <3>1
  <2>8. ASSUME NEW y \in alive' PROVE \E i \in 0..(n - 2) : d[i] = y
    <3>1. PICK i \in 0..(n - 1) : c[i] = y
      BY <1>0, <1>1
    <3>2. i # n - 1
      BY <1>0, <1>1, <3>1
    <3>3. i \in 0..(n - 2) /\ d[i] = y
      BY <1>0, <1>2, <3>1, <3>2
    <3> QED
      BY <3>3
  <2>9. \A i, j \in 0..(n - 2) : d[i] = d[j] => i = j
    <3> TAKE i, j \in 0..(n - 2)
    <3>1. i \in 0..(n - 1) /\ j \in 0..(n - 1)
      BY <1>0
    <3> QED
      BY <1>0, <1>2, <3>1
  <2>10. Chained(d, n - 2, next', prev', alive')
    BY <1>2, <2>6, <2>7, <2>8, <2>9 DEF Chained
  <2>11. Linked(d, n - 1, first', last', next', prev', alive')
    <3>1. n - 1 \in Nat /\ n - 1 > 0 /\ n - 2 \in Nat /\ (n - 1) - 1 = n - 2
      BY <1>0, <1>4
    <3> QED
      BY <2>5, <2>10, <3>1, IsLinked
  <2> QED
    BY <1>1, <2>4, <2>11 DEF d
<1> QED
  BY <1>0, <1>3, <1>4

LEMMA PollUnlinks ==
    ASSUME NodesOK, NEW c, LinkedNow(c), LlPoll
    PROVE  /\ NodesOK'
           /\ Linked(Rest(c, llLen), llLen', first', last', next', prev', alive')
<1> DEFINE n == llLen  d == Rest(c, n)
<1>0. /\ n \in Nat /\ n > 0 /\ c \in [0..(n - 1) -> Node]
      /\ \A i \in 0..(n - 1) : c[i] \in alive
      /\ \A i, j \in 0..(n - 1) : c[i] = c[j] => i = j
      /\ \A y \in alive : \E i \in 0..(n - 1) : c[i] = y
      /\ first = c[0] /\ last = c[n - 1] /\ next[last] = Null
      /\ \A i \in 1..(n - 1) : next[c[i - 1]] = c[i] /\ prev[c[i]] = c[i - 1]
  <2>1. n # 0 /\ Linked(c, n, first, last, next, prev, alive)
    BY DEF LlPoll, LinkedNow
  <2>2. n \in Nat /\ n > 0
    BY <2>1 DEF Linked
  <2> QED
    BY <2>1, <2>2 DEF Linked
<1>1. /\ alive' = alive \ {first} /\ next' = next /\ cell' = cell /\ iter' = iter
      /\ first' = next[first] /\ llLen' = n - 1
  BY DEF LlPoll
<1>2. /\ d \in [0..(n - 2) -> Node]
      /\ \A i \in 0..(n - 2) : d[i] = c[i + 1]
  BY <1>0 DEF Rest
<1> HIDE DEF d
<1>3. CASE n = 1
  <2>1. next[first] = Null /\ last' = Null /\ prev' = prev
    BY <1>0, <1>3 DEF LlPoll
  <2>2. alive' = {}
    BY <1>0, <1>1, <1>3
  <2>3. NodesOK'
    BY <1>1, <2>1, <2>2 DEF NodesOK, Pointer
  <2>4. Linked(d, 0, first', last', next', prev', alive')
    BY <1>1, <1>2, <1>3, <2>1, <2>2 DEF Linked
  <2> QED
    BY <1>1, <1>3, <2>3, <2>4 DEF d
<1>4. CASE n > 1
  <2>1. next[first] = c[1] /\ c[1] \in Node /\ c[1] # Null /\ d[0] = c[1]
    BY <1>0, <1>2, <1>4, LinkedListAssumption
  <2>2. prev' = [prev EXCEPT ![c[1]] = Null] /\ last' = last
    BY <2>1 DEF LlPoll
  <2>3. NodesOK'
    BY <1>1, <2>1, <2>2 DEF NodesOK, Pointer
  <2>4. d[n - 2] = c[n - 1]
    <3>1. n - 2 \in 0..(n - 2) /\ (n - 2) + 1 = n - 1
      BY <1>0, <1>4
    <3> QED
      BY <1>2, <3>1
  <2>5. next'[last'] = Null /\ last' = d[n - 2] /\ first' = d[0] /\ prev'[first'] = Null
    BY <1>0, <1>1, <2>1, <2>2, <2>4 DEF NodesOK
  <2>6. ASSUME NEW i \in 1..(n - 2) PROVE next'[d[i - 1]] = d[i] /\ prev'[d[i]] = d[i - 1]
    <3>1. /\ i - 1 \in 0..(n - 2) /\ i \in 0..(n - 2) /\ i \in 1..(n - 1) /\ i \in 0..(n - 1)
          /\ i + 1 \in 1..(n - 1) /\ i + 1 \in 0..(n - 1) /\ 1 \in 0..(n - 1) /\ i + 1 # 1
          /\ (i + 1) - 1 = i /\ (i - 1) + 1 = i
      BY <1>0, <1>4
    <3>2. d[i - 1] = c[i] /\ d[i] = c[i + 1]
      BY <1>2, <3>1
    <3>3. next[c[i]] = c[i + 1] /\ prev[c[i + 1]] = c[i]
      <4>1. \A j \in 1..(n - 1) : j - 1 = i => next[c[i]] = c[j] /\ prev[c[j]] = c[i]
        BY <1>0
      <4> QED
        BY <3>1, <4>1
    <3>4. c[i + 1] \in Node /\ c[i + 1] # c[1]
      BY <1>0, <3>1
    <3> QED
      BY <1>1, <2>2, <3>2, <3>3, <3>4 DEF NodesOK
  <2>7. ASSUME NEW i \in 0..(n - 2) PROVE d[i] \in alive'
    <3>1. i + 1 \in 0..(n - 1) /\ 0 \in 0..(n - 1) /\ i + 1 # 0
      BY <1>0
    <3> QED
      BY <1>0, <1>1, <1>2, <3>1
  <2>8. ASSUME NEW y \in alive' PROVE \E i \in 0..(n - 2) : d[i] = y
    <3>1. PICK i \in 0..(n - 1) : c[i] = y
      BY <1>0, <1>1
    <3>2. i # 0
      BY <1>0, <1>1, <3>1
    <3>3. i - 1 \in 0..(n - 2) /\ (i - 1) + 1 = i
      BY <1>0, <3>2
    <3>4. d[i - 1] = y
      BY <1>2, <3>1, <3>3
    <3> QED
      BY <3>3, <3>4
  <2>9. ASSUME NEW i \in 0..(n - 2), NEW j \in 0..(n - 2), d[i] = d[j] PROVE i = j
    <3>1. i + 1 \in 0..(n - 1) /\ j + 1 \in 0..(n - 1) /\ c[i + 1] = c[j + 1]
      BY <1>0, <1>2, <2>9
    <3>2. i + 1 = j + 1
      BY <1>0, <3>1
    <3> QED
      BY <3>2
  <2>10. Chained(d, n - 2, next', prev', alive')
    BY <1>2, <2>6, <2>7, <2>8, <2>9 DEF Chained
  <2>11. Linked(d, n - 1, first', last', next', prev', alive')
    <3>1. n - 1 \in Nat /\ n - 1 > 0 /\ n - 2 \in Nat /\ (n - 1) - 1 = n - 2
      BY <1>0, <1>4
    <3> QED
      BY <2>5, <2>10, <3>1, IsLinked
  <2> QED
    BY <1>1, <2>3, <2>11 DEF d
<1> QED
  BY <1>0, <1>3, <1>4

LEMMA DeleteUnlinks ==
    ASSUME NodesOK, NEW c, HasChain(c), LlDelete
    PROVE  NodesOK' /\ \E d : HasChain(d)'
<1>1. /\ alive' = {} /\ first' = Null /\ last' = Null /\ llLen' = 0 /\ iter' \in Pointer
      /\ visited' = -1 /\ UNCHANGED <<prev, next, cell>>
  BY FreesAll DEF LlDelete
<1>2. Linked([i \in {} |-> Null], llLen', first', last', next', prev', alive')
  BY <1>1 DEF Linked
<1>3. NodesOK'
  BY <1>1 DEF NodesOK, Pointer
<1>4. AtCell([i \in {} |-> Null], llLen', iter', visited')
  BY <1>1 DEF AtCell
<1> QED
  BY <1>2, <1>3, <1>4 DEF HasChain

\* What is read, written and visited is a node of the chain.
LEMMA Reads ==
    ASSUME NodesOK, NEW c, HasChain(c)
    PROVE  /\ llLen > 0 => /\ cell[first] \in Value \cup {NoValue}
                           /\ cell[last] \in Value \cup {NoValue}
           /\ visited # -1 /\ iter # Null => /\ visited \in 0..(llLen - 1)
                                             /\ iter = c[visited] /\ iter \in Node
           /\ visited # -1 /\ iter = Null => visited = llLen
<1>1. LinkedNow(c) /\ AtCell(c, llLen, iter, visited) /\ llLen \in Nat
  BY DEF HasChain, LinkedNow, Linked
<1>2. \A i \in 0..(llLen - 1) : c[i] \in Node /\ c[i] # Null
  <2>1. c \in [0..(llLen - 1) -> Node] /\ Null \notin Node
    BY <1>1, LinkedListAssumption DEF LinkedNow, Linked
  <2> QED
    BY <2>1
<1>3. llLen > 0 => first \in Node /\ last \in Node
  BY <1>1, Ends
<1>4. visited # -1 => /\ visited \in 0..llLen
                      /\ visited < llLen => iter = c[visited] /\ visited \in 0..(llLen - 1)
                      /\ visited = llLen => iter = Null
  BY <1>1 DEF AtCell
<1> QED
  BY <1>1, <1>2, <1>3, <1>4 DEF NodesOK

LEMMA LlStepInv ==
    ASSUME LlInv, [LlNext]_llVars
    PROVE  LlInv' /\ (out' \in Value \cup {NoValue} \/ UNCHANGED llVars)
<1>0. PICK c : NodesOK /\ HasChain(c)
  BY DEF LlInv
<1>00. LinkedNow(c) /\ llLen \in Nat
  BY <1>0 DEF HasChain, LinkedNow, Linked
<1>01. ASSUME NEW d, NodesOK', visited' = -1,
              Linked(d, llLen', first', last', next', prev', alive')
       PROVE  LlInv'
  BY <1>01 DEF LlInv, HasChain, AtCell
<1>1. CASE UNCHANGED llVars
  BY <1>0, <1>1 DEF LlInv, HasChain, NodesOK, llVars, Pointer
<1>2. CASE LlPop
  <2>1. llLen > 0 /\ out' = cell[last] /\ visited' = -1
    BY <1>00, <1>2 DEF LlPop
  <2> QED
    BY <1>0, <1>00, <1>01, <1>2, <2>1, PopUnlinks, Reads
<1>3. CASE LlPoll
  <2>1. llLen > 0 /\ out' = cell[first] /\ visited' = -1
    BY <1>00, <1>3 DEF LlPoll
  <2> QED
    BY <1>0, <1>00, <1>01, <1>3, <2>1, PollUnlinks, Reads
<1>4. CASE LlPopOrPollEmpty
  <2>1. NodesOK' /\ visited' = -1 /\ out' = NoValue
    BY <1>0, <1>4 DEF LlPopOrPollEmpty, NodesOK, Pointer
  <2>2. Linked(c, llLen', first', last', next', prev', alive')
    BY <1>00, <1>4 DEF LlPopOrPollEmpty, LinkedNow
  <2> QED
    BY <1>01, <2>1, <2>2
<1>5. CASE LlResetIterator
  <2>1. NodesOK' /\ iter' = first /\ visited' = 0 /\ out' = NoValue
    BY <1>0, <1>5 DEF LlResetIterator, NodesOK, Pointer
  <2>2. Linked(c, llLen', first', last', next', prev', alive')
    BY <1>00, <1>5 DEF LlResetIterator, LinkedNow
  <2>3. AtCell(c, llLen', iter', visited')
    BY <1>00, <1>5, <2>1 DEF LlResetIterator, AtCell, LinkedNow, Linked
  <2> QED
    BY <2>1, <2>2, <2>3 DEF LlInv, HasChain
<1>6. CASE LlNextCell
  <2>1. visited # -1 /\ UNCHANGED <<alive, prev, next, cell, first, last, llLen>>
    BY <1>6 DEF LlNextCell
  <2>2. Linked(c, llLen', first', last', next', prev', alive')
    BY <1>00, <2>1 DEF LinkedNow
  <2>3. CASE iter = Null
    <3>1. out' = NoValue /\ iter' = iter /\ visited' = visited
      BY <1>6, <2>3 DEF LlNextCell
    <3>2. NodesOK'
      BY <1>0, <2>1, <3>1 DEF NodesOK, Pointer
    <3>3. AtCell(c, llLen', iter', visited')
      BY <1>0, <2>1, <3>1 DEF HasChain
    <3> QED
      BY <2>2, <3>1, <3>2, <3>3 DEF LlInv, HasChain
  <2>4. CASE iter # Null
    <3>1. out' = cell[iter] /\ iter' = next[iter] /\ visited' = visited + 1
      BY <1>6, <2>4 DEF LlNextCell
    <3>2. visited \in 0..(llLen - 1) /\ iter = c[visited] /\ iter \in Node
      BY <1>0, <2>1, <2>4, Reads
    <3>3. NodesOK' /\ out' \in Value \cup {NoValue}
      BY <1>0, <2>1, <3>1, <3>2 DEF NodesOK, Pointer
    <3>4. /\ visited + 1 \in 0..llLen
          /\ visited + 1 < llLen => iter' = c[visited + 1]
          /\ visited + 1 = llLen => iter' = Null
      <4>1. CASE visited + 1 < llLen
        <5>1. visited + 1 \in 1..(llLen - 1) /\ (visited + 1) - 1 = visited
          BY <1>00, <3>2, <4>1
        <5>2. \A j \in 1..(llLen - 1) : j - 1 = visited => next[c[visited]] = c[j]
          BY <1>00 DEF LinkedNow, Linked
        <5> QED
          BY <1>00, <3>1, <3>2, <4>1, <5>1, <5>2
      <4>2. CASE visited + 1 = llLen
        <5>1. c[visited] = last /\ next[last] = Null
          BY <1>00, <3>2, <4>2 DEF LinkedNow, Linked
        <5> QED
          BY <1>00, <3>1, <3>2, <4>2, <5>1
      <4> QED
        BY <1>00, <3>2, <4>1, <4>2
    <3>5. AtCell(c, llLen', iter', visited')
      BY <2>1, <3>1, <3>4 DEF AtCell
    <3> QED
      BY <2>2, <3>3, <3>5 DEF LlInv, HasChain
  <2> QED
    BY <2>3, <2>4
<1>7. ASSUME NEW v \in Value, NEW x \in Node, LlPush(v, x)
      PROVE  LlInv' /\ out' \in Value \cup {NoValue}
  <2>1. visited' = -1 /\ out' = NoValue
    BY <1>7 DEF LlPush
  <2> QED
    BY <1>0, <1>00, <1>01, <1>7, <2>1, PushLinks
<1>8. ASSUME NEW i \in Index, LlGet(i) PROVE LlInv' /\ out' \in Value \cup {NoValue}
  <2>1. i \in Nat /\ llLen > 0 /\ out' = cell[first]
    BY <1>0, <1>00, <1>8, FindsFirst, LinkedListAssumption DEF LlGet
  <2>2. NodesOK' /\ HasChain(c)'
    BY <1>0, <1>8 DEF LlGet, NodesOK, HasChain, Pointer
  <2> QED
    BY <1>0, <2>1, <2>2, Reads DEF LlInv
<1>9. ASSUME NEW i \in Index, NEW v \in Value, LlSet(i, v)
      PROVE  LlInv' /\ out' \in Value \cup {NoValue}
  <2>1. out' = NoValue /\ cell' = [cell EXCEPT ![Find(i)] = v]
    BY <1>9 DEF LlSet
  <2>2. NodesOK'
    BY <1>0, <1>9, <2>1 DEF LlSet, NodesOK, Pointer
  <2>3. HasChain(c)'
    BY <1>0, <1>9 DEF LlSet, HasChain
  <2> QED
    BY <2>1, <2>2, <2>3 DEF LlInv
<1>10. CASE LlDelete
  <2>1. out' = NoValue
    BY <1>10 DEF LlDelete
  <2> QED
    BY <1>0, <1>10, <2>1, DeleteUnlinks DEF LlInv
<1> QED
  BY <1>1, <1>2, <1>3, <1>4, <1>5, <1>6, <1>7, <1>8, <1>9, <1>10 DEF LlNext

LEMMA LlInitInv == LlInit => LlInv
<1> SUFFICES ASSUME LlInit PROVE LlInv
  OBVIOUS
<1>1. Linked([i \in {} |-> Null], llLen, first, last, next, prev, alive)
  BY DEF LlInit, Linked
<1>2. AtCell([i \in {} |-> Null], llLen, iter, visited)
  BY DEF LlInit, AtCell
<1>3. NodesOK
  BY DEF LlInit, NodesOK, Pointer
<1> QED
  BY <1>1, <1>2, <1>3 DEF LlInv, HasChain

----------------------------------------------------------------------------
(* What the chain says of the pointers, and what the caller sees of it.    *)

LEMMA NodeAtChain ==
    ASSUME NEW c, LinkedNow(c), NEW i \in 0..(llLen - 1)
    PROVE  NodeAt[i] = c[i]
<1>1. /\ llLen \in Nat /\ llLen > 0 /\ llLen - 1 \in Nat /\ i \in Nat /\ i <= llLen - 1
      /\ first = c[0]
      /\ \A j \in 1..(llLen - 1) : next[c[j - 1]] = c[j]
  <2>1. llLen \in Nat
    BY DEF LinkedNow, Linked
  <2>2. llLen > 0
    BY <2>1
  <2> QED
    BY <2>1, <2>2 DEF LinkedNow, Linked
<1>2. Walk(c, first, next, llLen - 1)
  BY <1>1 DEF Walk
<1>3. Walk(NodeAt, first, next, llLen - 1)
  <2>1. NodeAt[0] = first
    BY NodeAtIs
  <2>2. ASSUME NEW j \in 1..(llLen - 1) PROVE NodeAt[j] = next[NodeAt[j - 1]]
    <3>1. j \in Nat /\ j # 0
      BY <1>1
    <3> QED
      BY <3>1, NodeAtIs
  <2> QED
    BY <2>1, <2>2 DEF Walk
<1> QED
  BY <1>1, <1>2, <1>3, WalkUnique

LEMMA ChainIsWellLinked == ASSUME NodesOK, NEW c, LinkedNow(c) PROVE WellLinked
<1>1. llLen \in Nat /\ c \in [0..(llLen - 1) -> Node]
  BY DEF LinkedNow, Linked
<1>2. llLen = 0 => first = Null /\ last = Null /\ alive = {}
  BY DEF LinkedNow, Linked
<1>3. ASSUME llLen > 0 PROVE NodeAt[llLen - 1] = last /\ next[last] = Null /\ prev[first] = Null
  <2>1. llLen - 1 \in 0..(llLen - 1)
    BY <1>1, <1>3
  <2>2. NodeAt[llLen - 1] = c[llLen - 1]
    BY <2>1, NodeAtChain
  <2> QED
    BY <1>3, <2>2 DEF LinkedNow, Linked
<1>4. {NodeAt[i] : i \in 0..(llLen - 1)} = alive
  <2>1. ASSUME NEW x \in alive PROVE \E i \in 0..(llLen - 1) : x = NodeAt[i]
    BY NodeAtChain DEF LinkedNow, Linked
  <2>2. \A i \in 0..(llLen - 1) : NodeAt[i] \in alive
    BY NodeAtChain DEF LinkedNow, Linked
  <2> QED
    BY <2>1, <2>2
<1>5. \A i, j \in 0..(llLen - 1) : NodeAt[i] = NodeAt[j] => i = j
  <2>1. \A i, j \in 0..(llLen - 1) : c[i] = c[j] => i = j
    BY DEF LinkedNow, Linked
  <2>2. \A i \in 0..(llLen - 1) : NodeAt[i] = c[i]
    BY NodeAtChain
  <2> QED
    BY <2>1, <2>2
<1>6. ASSUME NEW i \in 1..(llLen - 1) PROVE prev[NodeAt[i]] = NodeAt[i - 1]
  <2>1. i \in 0..(llLen - 1) /\ i - 1 \in 0..(llLen - 1)
    BY <1>1
  <2>2. NodeAt[i] = c[i] /\ NodeAt[i - 1] = c[i - 1]
    BY <2>1, NodeAtChain
  <2> QED
    BY <2>2 DEF LinkedNow, Linked
<1> QED
  BY <1>2, <1>3, <1>4, <1>5, <1>6 DEF WellLinked

LlItem == Value \cup {NoValue}

LlSeen(c, n, ce, s) == s \in Seq(LlItem) /\ Len(s) = n /\ \A i \in 1..n : s[i] = ce[c[i - 1]]

LEMMA LlSeenNow == ASSUME NodesOK, NEW c, LinkedNow(c) PROVE LlSeen(c, llLen, cell, LlCells)
<1>1. /\ llLen \in Nat /\ c \in [0..(llLen - 1) -> Node]
      /\ cell \in [Node -> LlItem]
  BY DEF LinkedNow, Linked, NodesOK, LlItem
<1>2. ASSUME NEW i \in 1..llLen PROVE NodeAt[i - 1] = c[i - 1] /\ cell[NodeAt[i - 1]] \in LlItem
  <2>1. i - 1 \in 0..(llLen - 1)
    BY <1>1
  <2> QED
    BY <1>1, <2>1, NodeAtChain
<1>3. LlCells \in [1..llLen -> LlItem] /\ \A i \in 1..llLen : LlCells[i] = cell[c[i - 1]]
  BY <1>2 DEF LlCells
<1> QED
  BY <1>1, <1>3 DEF LlSeen

AllSeen == \A c : LinkedNow(c) => LlSeen(c, llLen, cell, LlCells)

LEMMA AllSeenNext == NodesOK' => AllSeen'
<1>1. NodesOK => AllSeen
  BY LlSeenNow DEF AllSeen
<1> QED
  BY <1>1, PTL

LEMMA LlSeenNext ==
    ASSUME NodesOK', NEW c, Linked(c, llLen', first', last', next', prev', alive')
    PROVE  LlSeen(c, llLen', cell', LlCells')
  BY AllSeenNext DEF AllSeen, LinkedNow

----------------------------------------------------------------------------
(* The refinement: each operation of the linked list is that of ListADT.   *)

LEMMA SeesEnds ==
    ASSUME NodesOK, NEW c, LinkedNow(c)
    PROVE  /\ LlCells \in Seq(LlItem) /\ Len(LlCells) = llLen /\ llLen \in Nat
           /\ LlCells = <<>> <=> llLen = 0
           /\ \A i \in 1..llLen : LlCells[i] = cell[c[i - 1]]
           /\ llLen > 0 => LlCells[1] = cell[first] /\ LlCells[llLen] = cell[last]
<1>1. LlSeen(c, llLen, cell, LlCells) /\ llLen \in Nat
  BY LlSeenNow DEF LinkedNow, Linked
<1>2. ASSUME llLen > 0 PROVE LlCells[1] = cell[first] /\ LlCells[llLen] = cell[last]
  <2>1. 1 \in 1..llLen /\ llLen \in 1..llLen
    BY <1>1, <1>2
  <2>2. c[1 - 1] = first /\ c[llLen - 1] = last
    BY <1>2 DEF LinkedNow, Linked
  <2> QED
    BY <1>1, <2>1, <2>2 DEF LlSeen
<1> QED
  BY <1>1, <1>2 DEF LlSeen

LEMMA PushSeen ==
    ASSUME NodesOK, NEW c, LinkedNow(c), NEW v \in Value, NEW x \in Node, LlPush(v, x)
    PROVE  LlCells' = Append(LlCells, v)
<1> DEFINE d == Longer(c, llLen, x)
<1>1. NodesOK' /\ Linked(d, llLen', first', last', next', prev', alive')
  BY PushLinks
<1>2. /\ LlCells' \in Seq(LlItem) /\ Len(LlCells') = llLen'
      /\ \A i \in 1..llLen' : LlCells'[i] = cell'[d[i - 1]]
  <2> HIDE DEF d
  <2> QED
    BY <1>1, LlSeenNext DEF LlSeen
<1>3. /\ LlCells \in Seq(LlItem) /\ Len(LlCells) = llLen /\ llLen \in Nat
      /\ \A i \in 1..llLen : LlCells[i] = cell[c[i - 1]]
  BY SeesEnds
<1>4. llLen' = llLen + 1 /\ x \notin alive /\ cell' = [cell EXCEPT ![x] = v]
  BY DEF LlPush
<1>5. /\ d[llLen] = x
      /\ \A i \in 1..llLen : d[i - 1] = c[i - 1] /\ c[i - 1] \in Node /\ c[i - 1] # x
  <2>1. \A i \in 1..llLen : i - 1 \in 0..(llLen - 1) /\ i - 1 \in 0..llLen /\ i - 1 # llLen
    BY <1>3
  <2>2. \A i \in 0..(llLen - 1) : c[i] \in Node /\ c[i] # x
    BY <1>4 DEF LinkedNow, Linked
  <2> QED
    BY <1>3, <2>1, <2>2 DEF Longer
<1> HIDE DEF d
<1>6. LlCells'[llLen + 1] = v
  <2>1. \A i \in 1..llLen' : i = llLen + 1 => i - 1 = llLen /\ LlCells'[i] = cell'[d[llLen]]
    BY <1>2, <1>3, <1>4
  <2>2. cell'[x] = v
    BY <1>4 DEF NodesOK
  <2> QED
    BY <1>3, <1>4, <1>5, <2>1, <2>2
<1>7. ASSUME NEW i \in 1..llLen PROVE LlCells'[i] = LlCells[i]
  <2>1. i \in 1..llLen'
    BY <1>3, <1>4
  <2>2. cell'[c[i - 1]] = cell[c[i - 1]]
    BY <1>4, <1>5 DEF NodesOK
  <2> QED
    BY <1>2, <1>3, <1>5, <2>1, <2>2
<1>8. v \in LlItem
  BY DEF LlItem
<1> QED
  BY <1>2, <1>3, <1>4, <1>6, <1>7, <1>8, IsAppend

LEMMA PopSeen ==
    ASSUME NodesOK, NEW c, LinkedNow(c), LlPop
    PROVE  /\ LlCells # <<>> /\ out' = LlCells[Len(LlCells)]
           /\ LlCells' = SubSeq(LlCells, 1, Len(LlCells) - 1)
<1> DEFINE d == Front(c, llLen)
<1>1. NodesOK' /\ Linked(d, llLen', first', last', next', prev', alive')
  BY PopUnlinks
<1>2. /\ LlCells' \in Seq(LlItem) /\ Len(LlCells') = llLen'
      /\ \A i \in 1..llLen' : LlCells'[i] = cell'[d[i - 1]]
  <2> HIDE DEF d
  <2> QED
    BY <1>1, LlSeenNext DEF LlSeen
<1>3. llLen # 0 /\ llLen' = llLen - 1 /\ cell' = cell /\ out' = cell[last]
  BY DEF LlPop
<1>4. /\ LlCells \in Seq(LlItem) /\ Len(LlCells) = llLen /\ llLen \in Nat /\ llLen > 0
      /\ \A i \in 1..llLen : LlCells[i] = cell[c[i - 1]]
      /\ LlCells # <<>> /\ LlCells[llLen] = cell[last]
  BY <1>3, SeesEnds
<1>5. ASSUME NEW i \in 1..(llLen - 1) PROVE LlCells'[i] = LlCells[i]
  <2>1. i \in 1..llLen /\ i - 1 \in 0..(llLen - 2)
    BY <1>4
  <2>2. d[i - 1] = c[i - 1]
    BY <2>1 DEF Front
  <2> QED
    BY <1>2, <1>3, <1>4, <2>1, <2>2
<1> QED
  BY <1>2, <1>3, <1>4, <1>5, IsFront

LEMMA PollSeen ==
    ASSUME NodesOK, NEW c, LinkedNow(c), LlPoll
    PROVE  LlCells # <<>> /\ out' = Head(LlCells) /\ LlCells' = Tail(LlCells)
<1> DEFINE d == Rest(c, llLen)
<1>1. NodesOK' /\ Linked(d, llLen', first', last', next', prev', alive')
  BY PollUnlinks
<1>2. /\ LlCells' \in Seq(LlItem) /\ Len(LlCells') = llLen'
      /\ \A i \in 1..llLen' : LlCells'[i] = cell'[d[i - 1]]
  <2> HIDE DEF d
  <2> QED
    BY <1>1, LlSeenNext DEF LlSeen
<1>3. llLen # 0 /\ llLen' = llLen - 1 /\ cell' = cell /\ out' = cell[first]
  BY DEF LlPoll
<1>4. /\ LlCells \in Seq(LlItem) /\ Len(LlCells) = llLen /\ llLen \in Nat /\ llLen > 0
      /\ \A i \in 1..llLen : LlCells[i] = cell[c[i - 1]]
      /\ LlCells # <<>> /\ LlCells[1] = cell[first]
  BY <1>3, SeesEnds
<1>5. ASSUME NEW i \in 1..(llLen - 1) PROVE LlCells'[i] = LlCells[i + 1]
  <2>1. i + 1 \in 1..llLen /\ i - 1 \in 0..(llLen - 2) /\ (i - 1) + 1 = i /\ (i + 1) - 1 = i
    BY <1>4
  <2>2. d[i - 1] = c[i]
    BY <2>1 DEF Rest
  <2>3. \A j \in 1..llLen : j - 1 = i => LlCells[j] = cell[c[i]]
    BY <1>4
  <2> QED
    BY <1>2, <1>3, <2>1, <2>2, <2>3
<1>6. out' = Head(LlCells)
  BY <1>3, <1>4
<1> QED
  BY <1>2, <1>3, <1>4, <1>5, <1>6, IsTail

\* A step that leaves the pointers and the contents alone leaves the cells.
LEMMA SameSeen ==
    ASSUME NodesOK, NodesOK', NEW c, LinkedNow(c),
           UNCHANGED <<alive, prev, next, cell, first, last, llLen>>
    PROVE  LlCells' = LlCells
<1>1. LlSeen(c, llLen, cell, LlCells) /\ llLen \in Nat
  BY LlSeenNow DEF LinkedNow, Linked
<1>2. Linked(c, llLen', first', last', next', prev', alive')
  BY DEF LinkedNow
<1>3. LlSeen(c, llLen, cell, LlCells')
  BY <1>2, LlSeenNext
<1> QED
  BY <1>1, <1>3, SameCells DEF LlSeen

\* ll_set writes the first cell, whatever the index.
LEMMA SetSeen ==
    ASSUME NodesOK, NodesOK', NEW c, LinkedNow(c), NEW v \in Value, NEW i \in Index, LlSet(i, v)
    PROVE  LlCells' = [LlCells EXCEPT ![1] = v] /\ llLen > 0
<1>1. /\ LlCells \in Seq(LlItem) /\ Len(LlCells) = llLen /\ llLen \in Nat
      /\ \A k \in 1..llLen : LlCells[k] = cell[c[k - 1]]
  BY SeesEnds
<1>2. i \in Nat /\ i < llLen /\ cell' = [cell EXCEPT ![first] = v]
      /\ UNCHANGED <<alive, prev, next, first, last, llLen>>
  BY FindsFirst, LinkedListAssumption DEF LlSet
<1>3. llLen > 0
  BY <1>1, <1>2
<1>4. LlSeen(c, llLen, cell', LlCells')
  <2>1. Linked(c, llLen', first', last', next', prev', alive')
    BY <1>2 DEF LinkedNow
  <2> QED
    BY <1>2, <2>1, LlSeenNext
<1>5. ASSUME NEW k \in 1..llLen PROVE LlCells'[k] = IF k = 1 THEN v ELSE LlCells[k]
  <2>1. k - 1 \in 0..(llLen - 1) /\ 0 \in 0..(llLen - 1) /\ (k - 1 = 0 <=> k = 1)
    BY <1>1
  <2>2. c[k - 1] \in Node /\ first = c[0] /\ (c[k - 1] = first <=> k = 1)
    BY <1>3, <2>1 DEF LinkedNow, Linked
  <2>3. cell'[c[k - 1]] = IF k = 1 THEN v ELSE cell[c[k - 1]]
    BY <1>2, <2>2 DEF NodesOK
  <2> QED
    BY <1>1, <1>4, <2>3 DEF LlSeen
<1>6. 1 \in 1..Len(LlCells) /\ v \in LlItem
  BY <1>1, <1>3 DEF LlItem
<1> QED
  BY <1>1, <1>3, <1>4, <1>5, <1>6, IsExcept DEF LlSeen

----------------------------------------------------------------------------
(* A list_t, whichever implementation the program picked.                  *)

ListInv == IInv /\ FlagOK /\ LlInv

LEMMA ListInitInv == Init => ListInv
  BY InitInv, LlInitInv DEF Init, ListInv

LEMMA LlFrame == LlInv /\ UNCHANGED llState => LlInv'
  BY DEF LlInv, NodesOK, HasChain, Pointer, llState

LEMMA ListStepInv == ListInv /\ [Next]_vars => ListInv'
<1> SUFFICES ASSUME ListInv, [Next]_vars PROVE ListInv'
  OBVIOUS
<1>1. CASE UNCHANGED vars
  <2>1. UNCHANGED alVars /\ UNCHANGED llState
    BY <1>1 DEF vars, alVars, alState
  <2> QED
    BY <2>1, StepInv, StepFlag, LlFrame DEF ListInv
<1>2. CASE AlNext /\ UNCHANGED <<impl, llState>>
  BY <1>2, StepInv, StepFlag, LlFrame DEF ListInv
<1>3. CASE LlNext /\ UNCHANGED <<impl, alState>>
  <2>1. LlInv' /\ (out' \in Value \cup {NoValue} \/ UNCHANGED llVars)
    BY <1>3, LlStepInv DEF ListInv
  <2>2. out' \in Value \cup {NoValue} \/ out' = out
    BY <2>1 DEF llVars
  <2>3. UNCHANGED <<cap, len, arr, iterInd, iterating>>
    BY <1>3 DEF alState
  <2>4. IInv' /\ FlagOK'
    BY <2>2, <2>3, ArrayListAssumption DEF ListInv, IInv, FlagOK, ArrayOK, IterOK, NoJunk, Item
  <2> QED
    BY <2>1, <2>4 DEF ListInv
<1> QED
  BY <1>1, <1>2, <1>3 DEF Next

LEMMA ListTypes == ListInv => TypeOK /\ NoJunk /\ WellLinked
<1> SUFFICES ASSUME ListInv PROVE TypeOK /\ NoJunk /\ WellLinked
  OBVIOUS
<1>1. PICK c : NodesOK /\ HasChain(c)
  BY DEF ListInv, LlInv
<1>2. llLen \in Nat /\ visited \in Nat \cup {-1}
  BY <1>1 DEF HasChain, Linked, AtCell
<1>3. AlTypeOK /\ NoJunk /\ out \in Value \cup {NoValue}
  BY TypeParts DEF ListInv, IInv, FlagOK, IterOK, NoJunk
<1>4. LlTypeOK
  BY <1>1, <1>2, <1>3 DEF LlTypeOK, NodesOK
<1>5. WellLinked
  BY <1>1, ChainIsWellLinked DEF HasChain, LinkedNow
<1> QED
  BY <1>3, <1>4, <1>5 DEF TypeOK

\* The types of both implementations, whichever the program picked; and what it
\* is handed is a value it put in, or nothing.
THEOREM TypeCorrect == Spec => []TypeOK
  BY ListInitInv, ListStepInv, ListTypes, PTL DEF Spec

\* No operation hands out, or leaves in use, a cell that was never written.
THEOREM NoJunkOut == Spec => []NoJunk
  BY ListInitInv, ListStepInv, ListTypes, PTL DEF Spec

\* After any run of pushes, pops, polls, writes and deletions the nodes that are
\* allocated are those of the chain, once each, linked both ways from first to
\* last: no pointer that is followed leads to a freed node and none is leaked.
THEOREM AlwaysLinked == Spec => []WellLinked
  BY ListInitInv, ListStepInv, ListTypes, PTL DEF Spec

LEMMA ListRefineInit == Init => ADT!Init
<1> SUFFICES ASSUME Init PROVE ADT!Init
  OBVIOUS
<1>1. AlCells = <<>> /\ AlVisit = -1 /\ out = NoValue
  BY RefineInit DEF Init, AlADT!Init
<1>2. LlCells = <<>> /\ visited = -1
  BY DEF Init, LlInit, LlCells
<1> QED
  BY <1>1, <1>2 DEF ADT!Init, Cells, Visit

LEMMA ArrayRefines ==
    ASSUME ListInv, ListInv', AlNext, impl = ARRAY_LIST_IMPL, impl' = impl
    PROVE  [ADT!Next]_ADT!vars
<1>1. Cells = AlCells /\ Cells' = AlCells' /\ Visit = AlVisit /\ Visit' = AlVisit'
  BY DEF Cells, Visit
<1>2. [AlADT!Next]_AlADT!vars
  BY RefineStep DEF ListInv
<1>3. CASE UNCHANGED AlADT!vars
  BY <1>1, <1>3 DEF AlADT!vars, ADT!vars
<1>4. CASE AlADT!Next
  BY <1>1, <1>4 DEF AlADT!Next, AlADT!Renew, AlADT!Pop, AlADT!Poll, AlADT!ResetIterator,
     AlADT!NextCell, AlADT!Push, AlADT!Get, AlADT!Set,
     ADT!Next, ADT!Renew, ADT!Pop, ADT!Poll, ADT!ResetIterator,
     ADT!NextCell, ADT!Push, ADT!Get, ADT!Set
<1> QED
  BY <1>2, <1>3, <1>4

LEMMA LinkedRefines ==
    ASSUME Index \subseteq {0}, LlInv, LlInv', LlNext, impl = LINKED_LIST_IMPL, impl' = impl
    PROVE  ADT!Next
<1>1. Cells = LlCells /\ Cells' = LlCells' /\ Visit = visited /\ Visit' = visited'
  BY ImplAssumption DEF Cells, Visit
<1>2. PICK c : NodesOK /\ HasChain(c)
  BY DEF LlInv
<1>3. /\ LinkedNow(c) /\ NodesOK'
      /\ LlCells \in Seq(LlItem) /\ Len(LlCells) = llLen /\ llLen \in Nat
      /\ LlCells = <<>> <=> llLen = 0
      /\ \A i \in 1..llLen : LlCells[i] = cell[c[i - 1]]
      /\ llLen > 0 => LlCells[1] = cell[first]
  <2>1. LinkedNow(c) /\ NodesOK'
    BY <1>2 DEF HasChain, LinkedNow, LlInv
  <2> QED
    BY <1>2, <2>1, SeesEnds
<1>4. CASE LlPop
  <2>1. visited' = -1
    BY <1>4 DEF LlPop
  <2> QED
    BY <1>1, <1>2, <1>3, <1>4, <2>1, PopSeen DEF ADT!Pop, ADT!Next
<1>5. CASE LlPoll
  <2>1. visited' = -1
    BY <1>5 DEF LlPoll
  <2> QED
    BY <1>1, <1>2, <1>3, <1>5, <2>1, PollSeen DEF ADT!Poll, ADT!Next
<1>6. CASE LlPopOrPollEmpty
  <2>1. visited' = -1 /\ out' = NoValue /\ LlCells = <<>> /\ LlCells' = LlCells
    BY <1>2, <1>3, <1>6, SameSeen DEF LlPopOrPollEmpty
  <2> QED
    BY <1>1, <2>1 DEF ADT!Pop, ADT!Next
<1>7. CASE LlResetIterator
  <2>1. visited' = 0 /\ out' = NoValue /\ LlCells' = LlCells
    BY <1>2, <1>3, <1>7, SameSeen DEF LlResetIterator
  <2> QED
    BY <1>1, <2>1 DEF ADT!ResetIterator, ADT!Next
<1>8. CASE LlNextCell
  <2>1. visited # -1 /\ LlCells' = LlCells
    BY <1>2, <1>3, <1>8, SameSeen DEF LlNextCell
  <2>2. CASE iter = Null
    <3>1. out' = NoValue /\ visited' = visited
      BY <1>8, <2>2 DEF LlNextCell
    <3>2. visited = llLen
      BY <1>2, <2>1, <2>2, Reads
    <3> QED
      BY <1>1, <1>3, <2>1, <3>1, <3>2 DEF ADT!NextCell, ADT!Next
  <2>3. CASE iter # Null
    <3>1. out' = cell[iter] /\ visited' = visited + 1
      BY <1>8, <2>3 DEF LlNextCell
    <3>2. visited \in 0..(llLen - 1) /\ iter = c[visited]
      BY <1>2, <2>1, <2>3, Reads
    <3>3. out' = LlCells[visited + 1] /\ visited >= 0 /\ visited < Len(LlCells)
      <4>1. visited + 1 \in 1..llLen /\ (visited + 1) - 1 = visited
        BY <1>3, <3>2
      <4>2. \A j \in 1..llLen : j - 1 = visited => LlCells[j] = cell[c[visited]]
        BY <1>3
      <4> QED
        BY <1>3, <3>1, <3>2, <4>1, <4>2
    <3> QED
      BY <1>1, <2>1, <3>1, <3>3 DEF ADT!NextCell, ADT!Next
  <2> QED
    BY <2>2, <2>3
<1>9. ASSUME NEW v \in Value, NEW x \in Node, LlPush(v, x) PROVE ADT!Next
  <2>1. visited' = -1 /\ out' = NoValue
    BY <1>9 DEF LlPush
  <2>2. LlCells' = Append(LlCells, v)
    BY <1>2, <1>3, <1>9, PushSeen
  <2> QED
    BY <1>1, <2>1, <2>2 DEF ADT!Push, ADT!Next
<1>10. ASSUME NEW i \in Index, LlGet(i) PROVE ADT!Next
  <2>1. i = 0 /\ 0 < llLen /\ out' = cell[first] /\ visited' = visited
    BY <1>2, <1>10, FindsFirst DEF LlGet
  <2>2. LlCells' = LlCells
    BY <1>2, <1>3, <1>10, SameSeen DEF LlGet
  <2>3. ADT!Get(0) /\ 0 \in 0..(Len(Cells) - 1)
    BY <1>1, <1>3, <2>1, <2>2 DEF ADT!Get
  <2> QED
    BY <2>3 DEF ADT!Next
<1>11. ASSUME NEW i \in Index, NEW v \in Value, LlSet(i, v) PROVE ADT!Next
  <2>1. out' = NoValue /\ visited' = visited
    BY <1>11 DEF LlSet
  <2>2. LlCells' = [LlCells EXCEPT ![1] = v] /\ llLen > 0
    BY <1>2, <1>3, <1>11, SetSeen
  <2>3. ADT!Set(0, v) /\ 0 \in 0..(Len(Cells) - 1)
    BY <1>1, <1>3, <2>1, <2>2 DEF ADT!Set
  <2> QED
    BY <2>3 DEF ADT!Next
<1>12. CASE LlDelete
  <2>1. visited' = -1 /\ out' = NoValue /\ LlCells' = <<>>
    BY <1>12 DEF LlDelete, LlCells
  <2> QED
    BY <1>1, <2>1 DEF ADT!Renew, ADT!Next
<1> QED
  BY <1>4, <1>5, <1>6, <1>7, <1>8, <1>9, <1>10, <1>11, <1>12 DEF LlNext

LEMMA ListRefineStep ==
    ASSUME Index \subseteq {0}, ListInv, ListInv', [Next]_vars
    PROVE  [ADT!Next]_ADT!vars
<1>1. CASE UNCHANGED vars
  <2>1. AlCells' = AlCells /\ AlVisit' = AlVisit /\ visited' = visited /\ impl' = impl /\ out' = out
    BY <1>1 DEF vars, alState, llState, AlCells, AlVisit
  <2>2. LlCells' = LlCells
    <3>1. PICK c : NodesOK /\ LinkedNow(c)
      BY DEF ListInv, LlInv, HasChain, LinkedNow
    <3>2. NodesOK'
      BY DEF ListInv, LlInv
    <3>3. UNCHANGED <<alive, prev, next, cell, first, last, llLen>>
      BY <1>1 DEF vars, llState
    <3> QED
      BY <3>1, <3>2, <3>3, SameSeen
  <2> QED
    BY <2>1, <2>2 DEF ADT!vars, Cells, Visit
<1>2. CASE Next
  BY <1>2, ArrayRefines, LinkedRefines DEF Next, ListInv
<1> QED
  BY <1>1, <1>2

\* The program cannot tell which implementation it picked, as long as the only
\* index with which it reads or writes a linked list is 0: for the others
\* ll_get and ll_set stop at the first cell, whatever the index.
THEOREM EitherIsAList == Index \subseteq {0} => (Spec => AnyList)
<1> SUFFICES ASSUME Index \subseteq {0} PROVE Spec => AnyList
  OBVIOUS
<1>1. ListInv /\ ListInv' /\ [Next]_vars => [ADT!Next]_ADT!vars
  BY ListRefineStep
<1> QED
  BY ListInitInv, ListStepInv, ListRefineInit, <1>1, PTL DEF Spec, AnyList, ADT!Spec

=============================================================================
