----------------------------- MODULE MemProofs -----------------------------
(***************************************************************************)
(* Proofs about Mem, for any threads, any finite set of blocks and any     *)
(* SIZE_MAX: the counter is exact, and what it is used for follows.        *)
(***************************************************************************)
EXTENDS Mem, FiniteSetTheorems, TLAPS

\* What makes Balance inductive: a block on its way through safe_malloc_p or
\* safe_free_p is in the hands of one thread only, and is not counted.
Busy(t) == pc[t] \in {"counting", "freeing"}

InHand ==
    /\ \A t \in Thread : pc[t] = "counting" =>
          hand[t] \in Block /\ block[hand[t]] = "raw"
    /\ \A t \in Thread : pc[t] = "freeing" =>
          hand[t] \in Block /\ block[hand[t]] = "doomed"
    /\ \A t, u \in Thread : t # u /\ Busy(t) /\ Busy(u) => hand[t] # hand[u]

IInv == TypeOK /\ InHand /\ Balance /\ UnderflowNeedsReset /\ LeakWarning

----------------------------------------------------------------------------
\* The counted blocks are finitely many.
LEMMA CountedFinite == IsFiniteSet(Counted) /\ Cardinality(Counted) \in Nat
<1>1. Counted \subseteq Block
  BY DEF Counted
<1> QED
  BY <1>1, MemAssumption, FS_Subset, FS_CardinalityType

\* They are as many as the counter can forget, and none when it says zero.
LEMMA CountedEmpty == Counted = {} <=> Cardinality(Counted) = 0
  BY CountedFinite, FS_EmptySet

\* As long as no block becomes counted or ceases to be, they stay as many.
LEMMA CountedSame ==
    ASSUME NEW b \in Block, TypeOK,
           NEW st \in {"free", "raw", "doomed"}, block[b] # "counted",
           block' = [block EXCEPT ![b] = st]
    PROVE  Counted' = Counted
  BY DEF Counted, TypeOK

LEMMA CountedAdd ==
    ASSUME NEW b \in Block, TypeOK, block[b] # "counted",
           block' = [block EXCEPT ![b] = "counted"]
    PROVE  Cardinality(Counted') = Cardinality(Counted) + 1
<1>1. Counted' = Counted \cup {b} /\ b \notin Counted
  BY DEF Counted, TypeOK
<1> QED
  BY <1>1, CountedFinite, FS_AddElement

LEMMA CountedRemove ==
    ASSUME NEW b \in Block, TypeOK, block[b] = "counted",
           NEW st \in {"free", "raw", "doomed"},
           block' = [block EXCEPT ![b] = st]
    PROVE  Cardinality(Counted') = Cardinality(Counted) - 1
<1>1. Counted' = Counted \ {b} /\ b \in Counted
  BY DEF Counted, TypeOK
<1> QED
  BY <1>1, CountedFinite, FS_RemoveElement

LEMMA CountedMove ==
    ASSUME NEW b \in Block, NEW c \in Block, TypeOK,
           block[b] = "counted", block[c] = "free",
           block' = [block EXCEPT ![b] = "free", ![c] = "counted"]
    PROVE  Cardinality(Counted') = Cardinality(Counted)
<1>1. /\ Counted' = (Counted \ {b}) \cup {c}
      /\ b \in Counted /\ c \notin Counted /\ b # c
  BY DEF Counted, TypeOK
<1>2. /\ IsFiniteSet(Counted \ {b})
      /\ Cardinality(Counted \ {b}) = Cardinality(Counted) - 1
  BY <1>1, CountedFinite, FS_RemoveElement
<1>3. Cardinality(Counted') = Cardinality(Counted \ {b}) + 1
  BY <1>1, <1>2, FS_AddElement
<1> QED
  BY <1>2, <1>3, CountedFinite

----------------------------------------------------------------------------
LEMMA InitInv == Init => IInv
<1> SUFFICES ASSUME Init PROVE IInv
  OBVIOUS
<1>1. TypeOK /\ InHand
  <2>1. \A t \in Thread : pc[t] \in {"user", "absent"}
    BY DEF Init
  <2>2. TypeOK
    <3>1. pc \in [Thread -> {"absent", "user", "counting", "freeing", "dying"}]
      BY DEF Init
    <3>2. hand \in [Thread -> Block \cup {NoBlock}]
      BY DEF Init
    <3>3. block \in [Block -> {"free", "raw", "counted", "doomed"}]
      BY DEF Init
    <3>4. quiet \in BOOLEAN /\ warned \in BOOLEAN
      BY DEF Init
    <3>5. count \in 0..SizeMax /\ debt \in Nat
      BY MemAssumption DEF Init
    <3>6. mutex \in Thread \cup {NoThread} /\ over \in {"no", "exit", "overflow", "underflow"}
      BY DEF Init
    <3> QED
      BY <3>1, <3>2, <3>3, <3>4, <3>5, <3>6 DEF TypeOK
  <2> QED
    BY <2>1, <2>2 DEF InHand, Busy
<1>2. Counted = {}
  BY DEF Init, Counted
<1>3. Balance
  BY <1>2, CountedEmpty DEF Init, Balance
<1> QED
  BY <1>1, <1>3 DEF Init, IInv, UnderflowNeedsReset, LeakWarning

\* Each action keeps the types.
LEMMA TypeStep == TypeOK /\ InHand /\ [Next]_vars => TypeOK'
<1> SUFFICES ASSUME TypeOK, InHand, [Next]_vars PROVE TypeOK'
  OBVIOUS
<1> USE DEF TypeOK, At, Goto, CanLock, End
<1>1. CASE UNCHANGED vars
  BY <1>1 DEF vars
<1>2. ASSUME NEW t \in Thread,
             Lock(t) \/ Unlock(t) \/ OutOfMemory(t) \/ ForkedChild(t)
      PROVE  TypeOK'
  BY <1>2 DEF Lock, Unlock, OutOfMemory, ForkedChild
<1>3. ASSUME NEW t \in Thread, IncMallocCount(t) \/ SafeFree(t)
      PROVE  TypeOK'
  BY <1>3, MemAssumption DEF IncMallocCount, SafeFree
<1>4. ASSUME NEW t \in Thread, MallocOverflow(t) \/ SafeExit(t)
      PROVE  TypeOK'
  BY <1>4 DEF MallocOverflow, SafeExit
<1>5. ASSUME NEW t \in Thread, ResetMallocCount(t)
      PROVE  TypeOK'
  BY <1>5, CountedFinite, MemAssumption DEF ResetMallocCount
<1>6. ASSUME NEW t \in Thread, NEW q \in BOOLEAN, SetQuiet(t, q)
      PROVE  TypeOK'
  BY <1>6 DEF SetQuiet
<1>7. ASSUME NEW t \in Thread, NEW u \in Thread, SpawnThread(t, u)
      PROVE  TypeOK'
  BY <1>7 DEF SpawnThread
<1>8. ASSUME NEW t \in Thread, NEW b \in Block,
             SafeMalloc(t, b) \/ DecMallocCount(t, b)
      PROVE  TypeOK'
  BY <1>8, MemAssumption DEF SafeMalloc, DecMallocCount
<1>9. ASSUME NEW t \in Thread, NEW b \in Block, MallocUnderflow(t, b)
      PROVE  TypeOK'
  BY <1>9 DEF MallocUnderflow
<1>10. ASSUME NEW t \in Thread, NEW b \in Block, NEW c \in Block, SafeRealloc(t, b, c)
       PROVE  TypeOK'
  BY <1>10 DEF SafeRealloc
<1> QED
  BY <1>1, <1>2, <1>3, <1>4, <1>5, <1>6, <1>7, <1>8, <1>9, <1>10 DEF Next, Done

\* Each action leaves every block in flight in one pair of hands.
LEMMA InHandStep == TypeOK /\ InHand /\ [Next]_vars => InHand'
<1> SUFFICES ASSUME TypeOK, InHand, [Next]_vars PROVE InHand'
  OBVIOUS
<1> USE DEF TypeOK, InHand, Busy, At, Goto
<1>1. CASE UNCHANGED vars
  BY <1>1 DEF vars
<1>2. ASSUME NEW t \in Thread,
             \/ Lock(t) \/ Unlock(t) \/ OutOfMemory(t) \/ MallocOverflow(t)
             \/ ResetMallocCount(t) \/ SafeExit(t)
      PROVE  InHand'
  BY <1>2 DEF Lock, Unlock, OutOfMemory, MallocOverflow, ResetMallocCount, SafeExit
<1>3. ASSUME NEW t \in Thread, IncMallocCount(t)
      PROVE  InHand'
  BY <1>3 DEF IncMallocCount
<1>4. ASSUME NEW t \in Thread, SafeFree(t)
      PROVE  InHand'
  BY <1>4 DEF SafeFree
<1>5. ASSUME NEW t \in Thread, ForkedChild(t)
      PROVE  InHand'
  BY <1>5 DEF ForkedChild
<1>6. ASSUME NEW t \in Thread, NEW q \in BOOLEAN, SetQuiet(t, q)
      PROVE  InHand'
  BY <1>6 DEF SetQuiet
<1>7. ASSUME NEW t \in Thread, NEW u \in Thread, SpawnThread(t, u)
      PROVE  InHand'
  BY <1>7 DEF SpawnThread
<1>8. ASSUME NEW t \in Thread, NEW b \in Block, SafeMalloc(t, b)
      PROVE  InHand'
  BY <1>8 DEF SafeMalloc
<1>9. ASSUME NEW t \in Thread, NEW b \in Block, DecMallocCount(t, b)
      PROVE  InHand'
  BY <1>9 DEF DecMallocCount
<1>10. ASSUME NEW t \in Thread, NEW b \in Block, MallocUnderflow(t, b)
       PROVE  InHand'
  BY <1>10 DEF MallocUnderflow
<1>11. ASSUME NEW t \in Thread, NEW b \in Block, NEW c \in Block, SafeRealloc(t, b, c)
       PROVE  InHand'
  BY <1>11 DEF SafeRealloc
<1> QED
  BY <1>1, <1>2, <1>3, <1>4, <1>5, <1>6, <1>7, <1>8, <1>9, <1>10, <1>11
  DEF Next, Done

\* Each action moves the counter with the counted blocks.
LEMMA BalanceStep == TypeOK /\ InHand /\ Balance /\ [Next]_vars => Balance'
<1> SUFFICES ASSUME TypeOK, InHand, Balance, [Next]_vars PROVE Balance'
  OBVIOUS
<1> USE CountedFinite DEF Balance
<1>1. CASE UNCHANGED <<count, block, debt>>
  BY <1>1 DEF Counted
<1>2. ASSUME NEW t \in Thread, IncMallocCount(t)
      PROVE  Balance'
  <2>1. hand[t] \in Block /\ block[hand[t]] # "counted"
    BY <1>2 DEF IncMallocCount, At, InHand
  <2>2. Cardinality(Counted') = Cardinality(Counted) + 1
    BY <1>2, <2>1, CountedAdd DEF IncMallocCount
  <2> QED
    BY <1>2, <2>2 DEF IncMallocCount, TypeOK
<1>3. ASSUME NEW t \in Thread, SafeFree(t)
      PROVE  Balance'
  <2>1. hand[t] \in Block /\ block[hand[t]] # "counted"
    BY <1>3 DEF SafeFree, At, InHand
  <2>2. Counted' = Counted
    BY <1>3, <2>1, CountedSame DEF SafeFree
  <2> QED
    BY <1>3, <2>2 DEF SafeFree
<1>4. ASSUME NEW t \in Thread, ResetMallocCount(t)
      PROVE  Balance'
  BY <1>4 DEF ResetMallocCount, Counted
<1>5. ASSUME NEW t \in Thread, NEW b \in Block, SafeMalloc(t, b)
      PROVE  Balance'
  <2>1. Counted' = Counted
    BY <1>5, CountedSame DEF SafeMalloc
  <2> QED
    BY <1>5, <2>1 DEF SafeMalloc
<1>6. ASSUME NEW t \in Thread, NEW b \in Block, DecMallocCount(t, b)
      PROVE  Balance'
  <2>1. Cardinality(Counted') = Cardinality(Counted) - 1
    BY <1>6, CountedRemove DEF DecMallocCount
  <2> QED
    BY <1>6, <2>1 DEF DecMallocCount, TypeOK
<1>7. ASSUME NEW t \in Thread, NEW b \in Block, NEW c \in Block, SafeRealloc(t, b, c)
      PROVE  Balance'
  <2>1. Cardinality(Counted') = Cardinality(Counted)
    BY <1>7, CountedMove DEF SafeRealloc
  <2> QED
    BY <1>7, <2>1 DEF SafeRealloc
<1>8. ASSUME NEW t \in Thread,
             \/ Lock(t) \/ Unlock(t) \/ OutOfMemory(t) \/ MallocOverflow(t)
             \/ SafeExit(t) \/ ForkedChild(t)
             \/ \E q \in BOOLEAN : SetQuiet(t, q)
             \/ \E u \in Thread : SpawnThread(t, u)
             \/ \E b \in Block : MallocUnderflow(t, b)
      PROVE  UNCHANGED <<count, block, debt>>
  BY <1>8 DEF Lock, Unlock, OutOfMemory, MallocOverflow, SafeExit, ForkedChild,
              SetQuiet, SpawnThread, MallocUnderflow
<1> QED
  BY <1>1, <1>2, <1>3, <1>4, <1>5, <1>6, <1>7, <1>8 DEF Next, Done, vars

\* How the process may end, and what it says then.
LEMMA EndStep ==
    TypeOK /\ Balance /\ UnderflowNeedsReset /\ LeakWarning /\ [Next]_vars
       => (UnderflowNeedsReset /\ LeakWarning)'
<1> SUFFICES ASSUME TypeOK, Balance, UnderflowNeedsReset, LeakWarning, [Next]_vars
             PROVE  (UnderflowNeedsReset /\ LeakWarning)'
  OBVIOUS
<1>1. CASE UNCHANGED vars
  BY <1>1 DEF vars, UnderflowNeedsReset, LeakWarning, Counted
<1>2. CASE over' = "no"
  BY <1>2 DEF UnderflowNeedsReset, LeakWarning
<1>3. ASSUME NEW why \in {"exit", "overflow"}, End(why), UNCHANGED <<count, quiet, block, debt>>
      PROVE  (UnderflowNeedsReset /\ LeakWarning)'
  <2>1. debt = 0 => (count > 0 <=> Counted # {})
    BY CountedFinite, CountedEmpty DEF Balance, TypeOK
  <2>2. Counted' = Counted
    BY <1>3 DEF Counted
  <2>3. warned' <=> count > 0 /\ ~ quiet
    BY <1>3 DEF End
  <2> QED
    BY <1>3, <2>1, <2>2, <2>3 DEF End, UnderflowNeedsReset, LeakWarning
<1>4. ASSUME NEW t \in Thread, NEW b \in Block, MallocUnderflow(t, b)
      PROVE  (UnderflowNeedsReset /\ LeakWarning)'
  <2>1. Counted # {}
    BY <1>4 DEF MallocUnderflow, Counted
  <2>2. debt > 0
    BY <1>4, <2>1, CountedFinite, CountedEmpty DEF MallocUnderflow, Balance, TypeOK
  <2> QED
    BY <1>4, <2>2 DEF MallocUnderflow, UnderflowNeedsReset, LeakWarning
<1>5. ASSUME NEW t \in Thread, MallocOverflow(t) \/ SafeExit(t)
      PROVE  \E why \in {"exit", "overflow"} : End(why) /\ UNCHANGED <<count, quiet, block, debt>>
  BY <1>5 DEF MallocOverflow, SafeExit
<1>6. ASSUME NEW t \in Thread,
             \/ Lock(t) \/ Unlock(t) \/ OutOfMemory(t)
             \/ IncMallocCount(t) \/ SafeFree(t)
             \/ ResetMallocCount(t) \/ ForkedChild(t)
             \/ \E q \in BOOLEAN : SetQuiet(t, q)
             \/ \E u \in Thread : SpawnThread(t, u)
             \/ \E b \in Block :
                   \/ SafeMalloc(t, b) \/ DecMallocCount(t, b)
                   \/ \E c \in Block : SafeRealloc(t, b, c)
      PROVE  over' = "no"
  BY <1>6 DEF At, Lock, Unlock, OutOfMemory, IncMallocCount, SafeFree, ResetMallocCount,
              ForkedChild, SetQuiet, SpawnThread, SafeMalloc, DecMallocCount, SafeRealloc
<1> QED
  BY <1>1, <1>2, <1>3, <1>4, <1>5, <1>6 DEF Next, Done

LEMMA Inductive == Spec => []IInv
<1>1. IInv /\ [Next]_vars => IInv'
  BY TypeStep, InHandStep, BalanceStep, EndStep DEF IInv
<1> QED
  BY InitInv, <1>1, PTL DEF Spec

----------------------------------------------------------------------------
\* The types of the variables: in particular the counter stays in the range of
\* a size_t (sys.c:146, sys.c:155).
THEOREM TypeCorrect == Spec => []TypeOK
<1>1. IInv => TypeOK
  BY DEF IInv
<1> QED
  BY Inductive, <1>1, PTL

\* The counter is exact at all times: what safe_malloc_p and safe_free_p do
\* outside the lock (mem.c:10, mem.c:34) never unbalances it.
THEOREM CounterExact == Spec => []Balance
<1>1. IInv => Balance
  BY DEF IInv
<1> QED
  BY Inductive, <1>1, PTL

\* "Malloc underflow" (sys.c:156) is logged only after a reset.
THEOREM UnderflowOnlyAfterReset == Spec => []UnderflowNeedsReset
<1>1. IInv => UnderflowNeedsReset
  BY DEF IInv
<1> QED
  BY Inductive, <1>1, PTL

\* The leak warning of safe_exit_p (sys.c:286-288) is neither missed nor false.
THEOREM WarningExact == Spec => []LeakWarning
<1>1. IInv => LeakWarning
  BY DEF IInv
<1> QED
  BY Inductive, <1>1, PTL

============================================================================
