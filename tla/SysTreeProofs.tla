--------------------------- MODULE SysTreeProofs ---------------------------
(***************************************************************************)
(* More proofs about Sys: the list of children says what safe_exit_p needs *)
(* to know, no process leaves a child behind, and Sys implements ProcTree. *)
(*                                                                         *)
(* The argument counts, for a process and a pid, the nodes in the list and *)
(* the threads on their way to it, against the threads on their way from   *)
(* it and the child itself.  With recycled pids nothing less will do: one  *)
(* pid may be in the list twice, once for a child that is gone.            *)
(***************************************************************************)
EXTENDS SysProofs, FiniteSetTheorems, SequenceTheorems

Places(s, c) == {i \in 1..Len(s) : s[i] = c}
Forkers(p, c) == {t \in Thread : pc[p][t] \in Forking /\ hand[p][t] = c}
Reapers(p, c) == {t \in Thread : pc[p][t] = "reaped" /\ hand[p][t] = c}

One(S, c) == IF c \in S THEN 1 ELSE 0

Coming(p, c) == Cardinality(Places(childList[p], c)) + Cardinality(Forkers(p, c))
Going(p, c) == Cardinality(Reapers(p, c)) + One(Unreaped(p), c)

Newborn(p) == \E t \in Thread : pc[p][t] = "prep"
Ending(p) == \E t \in Thread : pc[p][t] \in Exiting

\* Where a thread counts, or its process does not.
Special == Forking \cup {"reaped", "prep"}

\* Everything that follows is said of one process at a time.

\* The list has no node too many, and outside safe_exit_p none too few.
Counted(p) ==
    Running(p) /\ ~ Newborn(p) =>
       \A c \in Pid : /\ Coming(p, c) <= Going(p, c)
                      /\ ~ Ending(p) => Coming(p, c) = Going(p, c)

Tracked(p) ==
    Running(p) =>
       \A c \in Unreaped(p) : c \in ToSet(childList[p]) \/ Forkers(p, c) # {}

\* A process that is no more, and one that has just been forked, has no child.
Childless(p) == ~ Running(p) \/ Newborn(p) => Unreaped(p) = {}

\* ss is freed when the loop over the children is done.
Cleared(p) == \A t \in Thread : pc[p][t] = "freed" => childList[p] = <<>>

Kept(p) == Counted(p) /\ Tracked(p) /\ Childless(p) /\ Cleared(p)

TreeInv == \A p \in Pid : Kept(p)

----------------------------------------------------------------------------
(* Counting.                                                               *)

LEMMA ThreadsCount ==
    ASSUME NEW S \in SUBSET Thread
    PROVE  IsFiniteSet(S) /\ Cardinality(S) \in Nat
<1>1. IsFiniteSet(Thread)
  BY ThreadAssumption, FS_AddElement DEF Thread
<1> QED
  BY <1>1, FS_Subset, FS_CardinalityType

LEMMA PlacesCount ==
    ASSUME NEW s \in Seq(Pid), NEW c
    PROVE  IsFiniteSet(Places(s, c)) /\ Cardinality(Places(s, c)) \in Nat
<1>1. IsFiniteSet(1..Len(s))
  BY FS_Interval
<1>2. Places(s, c) \in SUBSET (1..Len(s))
  BY DEF Places
<1> QED
  BY <1>1, <1>2, FS_Subset, FS_CardinalityType

LEMMA NoPlaces ==
    ASSUME NEW s \in Seq(Pid), NEW c
    PROVE  Cardinality(Places(s, c)) = 0 <=> c \notin ToSet(s)
<1>1. c \notin ToSet(s) <=> Places(s, c) = {}
  BY DEF ToSet, Places
<1> QED
  BY <1>1, PlacesCount, FS_EmptySet

\* r is s without its i-th place.
Without(r, s, i) ==
    /\ Len(r) = Len(s) - 1
    /\ \A j \in 1..Len(r) : r[j] = s[IF j < i THEN j ELSE j + 1]

LEMMA WithoutCounts ==
    ASSUME NEW r \in Seq(Pid), NEW s \in Seq(Pid), NEW i \in 1..Len(s),
           Without(r, s, i), NEW c
    PROVE  Cardinality(Places(s, c))
              = Cardinality(Places(r, c)) + (IF s[i] = c THEN 1 ELSE 0)
<1> DEFINE f == [j \in Places(r, c) |-> IF j < i THEN j ELSE j + 1]
           Rest == Places(s, c) \ {i}
<1>1. Len(s) \in Nat /\ Len(r) \in Nat /\ i \in Nat
  OBVIOUS
<1>2. f \in [Places(r, c) -> Rest]
  BY <1>1 DEF Places, Without
<1>3. \A j, k \in Places(r, c) : f[j] = f[k] => j = k
  BY <1>1 DEF Places
<1>4. \A k \in Rest : \E j \in Places(r, c) : f[j] = k
  <2> SUFFICES ASSUME NEW k \in Rest PROVE \E j \in Places(r, c) : f[j] = k
    OBVIOUS
  <2> DEFINE j == IF k < i THEN k ELSE k - 1
  <2>1. k \in 1..Len(s) /\ k # i /\ s[k] = c
    BY DEF Places
  <2>2. j \in 1..Len(r) /\ (IF j < i THEN j ELSE j + 1) = k
    BY <1>1, <2>1 DEF Without
  <2>3. r[j] = c
    BY <2>1, <2>2 DEF Without
  <2>4. j \in Places(r, c) /\ f[j] = k
    BY <2>2, <2>3 DEF Places
  <2> QED
    BY <2>4
<1>5. ExistsBijection(Places(r, c), Rest)
  <2>1. f \in Bijection(Places(r, c), Rest)
    BY <1>2, <1>3, <1>4 DEF Bijection, Injection, Surjection, IsInjective
  <2> QED
    BY <2>1 DEF ExistsBijection
<1>6. Cardinality(Rest) = Cardinality(Places(r, c))
  BY <1>5, PlacesCount, FS_Bijection
<1>7. Cardinality(Rest) = IF i \in Places(s, c) THEN Cardinality(Places(s, c)) - 1
                                               ELSE Cardinality(Places(s, c))
  BY PlacesCount, FS_RemoveElement
<1>8. i \in Places(s, c) <=> s[i] = c
  BY DEF Places
<1>9. Cardinality(Places(s, c)) \in Nat /\ Cardinality(Places(r, c)) \in Nat
  BY PlacesCount
<1> HIDE DEF Rest
<1> QED
  BY <1>6, <1>7, <1>8, <1>9

LEMMA ConsWithout ==
    ASSUME NEW r \in Seq(Pid), NEW x \in Pid
    PROVE  /\ <<x>> \o r \in Seq(Pid) /\ 1 \in 1..Len(<<x>> \o r)
           /\ (<<x>> \o r)[1] = x
           /\ Without(r, <<x>> \o r, 1)
  BY DEF Without

LEMMA TailWithout ==
    ASSUME NEW s \in Seq(Pid), s # <<>>
    PROVE  /\ Tail(s) \in Seq(Pid) /\ 1 \in 1..Len(s) /\ s[1] = Head(s)
           /\ Without(Tail(s), s, 1)
  BY DEF Without

LEMMA JoinWithout ==
    ASSUME NEW s \in Seq(Pid), NEW i \in 1..Len(s), NEW a \in Seq(Pid), NEW b \in Seq(Pid),
           Len(a) = i - 1, \A j \in 1..(i - 1) : a[j] = s[j],
           Len(b) = Len(s) - i, \A j \in 1..(Len(s) - i) : b[j] = s[j + i]
    PROVE  Without(a \o b, s, i)
<1>1. Len(s) \in Nat /\ i \in Nat /\ Len(a \o b) = Len(s) - 1
  <2>1. Len(a \o b) = Len(a) + Len(b)
    BY ConcatProperties
  <2>2. Len(s) \in Nat /\ i \in Nat /\ (i - 1) + (Len(s) - i) = Len(s) - 1
    OBVIOUS
  <2> QED
    BY <2>1, <2>2
<1>2. ASSUME NEW j \in 1..Len(a \o b)
      PROVE  (a \o b)[j] = s[IF j < i THEN j ELSE j + 1]
  <2>1. CASE j < i
    BY <1>1, <2>1
  <2>2. CASE ~ (j < i)
    <3>1. (a \o b)[j] = b[j - (i - 1)]
      BY <1>1, <2>2
    <3>2. j - (i - 1) \in 1..(Len(s) - i) /\ j - (i - 1) + i = j + 1
      BY <1>1, <2>2
    <3> QED
      BY <2>2, <3>1, <3>2
  <2> QED
    BY <2>1, <2>2
<1> QED
  BY <1>1, <1>2 DEF Without

LEMMA RemoveAtWithout ==
    ASSUME NEW s \in Seq(Pid), NEW i \in 1..Len(s)
    PROVE  RemoveAt(s, i) \in Seq(Pid) /\ Without(RemoveAt(s, i), s, i)
<1>1. SubSeq(s, 1, i - 1) \in Seq(Pid) /\ SubSeq(s, i + 1, Len(s)) \in Seq(Pid)
  OBVIOUS
<1>2. /\ Len(SubSeq(s, 1, i - 1)) = i - 1
      /\ \A j \in 1..(i - 1) : SubSeq(s, 1, i - 1)[j] = s[j]
  OBVIOUS
<1>3. /\ Len(SubSeq(s, i + 1, Len(s))) = Len(s) - i
      /\ \A j \in 1..(Len(s) - i) : SubSeq(s, i + 1, Len(s))[j] = s[j + i]
  OBVIOUS
<1>4. Without(RemoveAt(s, i), s, i)
  BY <1>1, <1>2, <1>3, JoinWithout DEF RemoveAt
<1> QED
  BY <1>4, RemoveAtType

\* How a list counts with a pid put at its head, and with one taken out.
LEMMA ConsCounts ==
    ASSUME NEW r \in Seq(Pid), NEW x \in Pid, NEW c
    PROVE  Cardinality(Places(<<x>> \o r, c))
              = Cardinality(Places(r, c)) + (IF x = c THEN 1 ELSE 0)
<1> DEFINE s == <<x>> \o r
<1>1. s \in Seq(Pid) /\ 1 \in 1..Len(s) /\ s[1] = x /\ Without(r, s, 1)
  BY ConsWithout
<1> HIDE DEF s
<1>2. Cardinality(Places(s, c)) = Cardinality(Places(r, c)) + (IF s[1] = c THEN 1 ELSE 0)
  BY <1>1, WithoutCounts
<1> QED
  BY <1>1, <1>2 DEF s

LEMMA TailCounts ==
    ASSUME NEW s \in Seq(Pid), s # <<>>, NEW c
    PROVE  Cardinality(Places(s, c))
              = Cardinality(Places(Tail(s), c)) + (IF Head(s) = c THEN 1 ELSE 0)
<1>1. /\ Tail(s) \in Seq(Pid) /\ 1 \in 1..Len(s) /\ s[1] = Head(s)
      /\ Without(Tail(s), s, 1)
  BY TailWithout
<1> DEFINE r == Tail(s)
<1> HIDE DEF r
<1>2. Cardinality(Places(s, c)) = Cardinality(Places(r, c)) + (IF s[1] = c THEN 1 ELSE 0)
  <2>1. r \in Seq(Pid) /\ 1 \in 1..Len(s) /\ Without(r, s, 1)
    BY <1>1 DEF r
  <2> QED
    BY <2>1, WithoutCounts
<1> QED
  BY <1>1, <1>2 DEF r

LEMMA RemoveAtCounts ==
    ASSUME NEW s \in Seq(Pid), NEW i \in 1..Len(s), NEW c
    PROVE  Cardinality(Places(s, c))
              = Cardinality(Places(RemoveAt(s, i), c)) + (IF s[i] = c THEN 1 ELSE 0)
  BY RemoveAtWithout, WithoutCounts

----------------------------------------------------------------------------
(* What a step does to the sets that are counted.                          *)

\* One thread of p moves to l, drops the pid in hand, or takes another.
LEMMA Went ==
    ASSUME CtlInv, NEW p \in Pid, NEW t \in Thread, NEW l, Goto(p, t, l)
    PROVE  /\ pc'[p][t] = l
           /\ \A u \in Thread \ {t} : pc'[p][u] = pc[p][u]
           /\ \A q \in Pid \ {p} : pc'[q] = pc[q]
  BY DEF CtlInv, CtlOK, Goto

LEMMA Carries ==
    ASSUME DataInv, NEW p \in Pid, NEW t \in Thread, NEW h,
           hand' = [hand EXCEPT ![p][t] = h]
    PROVE  /\ hand'[p][t] = h
           /\ \A u \in Thread \ {t} : hand'[p][u] = hand[p][u]
           /\ \A q \in Pid \ {p} : hand'[q] = hand[q]
  BY DEF DataInv, DataOK

LEMMA Dropped ==
    ASSUME DataInv, NEW p \in Pid, NEW t \in Thread, Drop(p, t)
    PROVE  /\ hand'[p][t] = NoPid
           /\ \A u \in Thread \ {t} : hand'[p][u] = hand[p][u]
           /\ \A q \in Pid \ {p} : hand'[q] = hand[q]
  BY Carries DEF Drop

\* It goes where it does not count (any more), or joins the reapers of h.
LEMMA LeaveSets ==
    ASSUME NEW p \in Pid, NEW t \in Thread, pc'[p][t] \notin Special,
           \A u \in Thread \ {t} : pc'[p][u] = pc[p][u] /\ hand'[p][u] = hand[p][u]
    PROVE  \A d : /\ Forkers(p, d)' = Forkers(p, d) \ {t}
                  /\ Reapers(p, d)' = Reapers(p, d) \ {t}
                  /\ t \notin Forkers(p, d) => Forkers(p, d)' = Forkers(p, d)
                  /\ t \notin Reapers(p, d) => Reapers(p, d)' = Reapers(p, d)
<1> SUFFICES ASSUME NEW d
             PROVE  /\ Forkers(p, d)' = Forkers(p, d) \ {t}
                    /\ Reapers(p, d)' = Reapers(p, d) \ {t}
  OBVIOUS
<1>1. pc'[p][t] \notin Forking /\ pc'[p][t] # "reaped"
  BY DEF Special
<1> QED
  BY <1>1 DEF Forkers, Reapers

\* Taking t out of a set of threads, and putting it in.
LEMMA TakeOut ==
    ASSUME NEW S \in SUBSET Thread, NEW t
    PROVE  Cardinality(S \ {t}) = IF t \in S THEN Cardinality(S) - 1 ELSE Cardinality(S)
  BY ThreadsCount, FS_RemoveElement

LEMMA PutIn ==
    ASSUME NEW S \in SUBSET Thread, NEW t
    PROVE  Cardinality(S \cup {t}) = IF t \in S THEN Cardinality(S) ELSE Cardinality(S) + 1
  BY ThreadsCount, FS_AddElement

\* All that is counted is a number.
LEMMA Numbers ==
    ASSUME DataInv, NEW p \in Pid, NEW c
    PROVE  /\ childList[p] \in Seq(Pid)
           /\ Cardinality(Places(childList[p], c)) \in Nat
           /\ Cardinality(Forkers(p, c)) \in Nat
           /\ Cardinality(Reapers(p, c)) \in Nat
           /\ Coming(p, c) \in Nat /\ Going(p, c) \in Nat
<1>1. Forkers(p, c) \in SUBSET Thread /\ Reapers(p, c) \in SUBSET Thread
  BY DEF Forkers, Reapers
<1>2. One(Unreaped(p), c) \in Nat
  BY DEF One
<1>3. childList[p] \in Seq(Pid) /\ Cardinality(Places(childList[p], c)) \in Nat
  BY ListsOK, PlacesCount
<1>4. Cardinality(Forkers(p, c)) \in Nat /\ Cardinality(Reapers(p, c)) \in Nat
  BY <1>1, ThreadsCount
<1> QED
  BY <1>2, <1>3, <1>4 DEF Coming, Going

\* A process that a step does not touch.
LEMMA Untouched ==
    ASSUME NEW q \in Pid, Kept(q), Running(q)' <=> Running(q), Unreaped(q)' = Unreaped(q),
           childList'[q] = childList[q], pc'[q] = pc[q], hand'[q] = hand[q]
    PROVE  Kept(q)'
<1>1. /\ Newborn(q)' <=> Newborn(q)
      /\ Ending(q)' <=> Ending(q)
      /\ \A c : Forkers(q, c)' = Forkers(q, c) /\ Reapers(q, c)' = Reapers(q, c)
  BY DEF Newborn, Ending, Forkers, Reapers
<1>2. \A c : Coming(q, c)' = Coming(q, c) /\ Going(q, c)' = Going(q, c)
  BY <1>1 DEF Coming, Going
<1>3. Counted(q)'
  BY <1>1, <1>2 DEF Kept, Counted
<1>4. Tracked(q)'
  BY <1>1 DEF Kept, Tracked
<1>5. Childless(q)' /\ Cleared(q)'
  BY <1>1 DEF Kept, Childless, Cleared
<1> QED
  BY <1>3, <1>4, <1>5 DEF Kept

LEMMA SameChildren ==
    ASSUME UNCHANGED <<status, parent>>
    PROVE  \A q \in Pid : Unreaped(q)' = Unreaped(q) /\ (Running(q)' <=> Running(q))
  BY DEF Unreaped, Children, Running

\* waitpid returns: with a child that is a zombie, or because there is none.
LEMMA ReapedChildren ==
    ASSUME CtlInv, NEW p \in Pid, NEW c \in Pid, UNCHANGED parent,
           \/ c \in Unreaped(p) /\ status[c] = "zombie" /\ Reap(c)
           \/ c \notin Unreaped(p) /\ UNCHANGED status
    PROVE  /\ Unreaped(p)' = Unreaped(p) \ {c}
           /\ \A q \in Pid \ {p} : Unreaped(q)' = Unreaped(q)
           /\ \A q \in Pid : Running(q)' <=> Running(q)
<1>1. CASE c \in Unreaped(p) /\ status[c] = "zombie" /\ Reap(c)
  <2>1. parent[c] = p
    BY <1>1 DEF Unreaped, Children
  <2>2. \A d \in Pid : status'[d] = IF d = c THEN "reaped" ELSE status[d]
    BY <1>1 DEF CtlInv, CtlOK, Reap
  <2> QED
    BY <1>1, <2>1, <2>2 DEF Unreaped, Children, Running
<1>2. CASE c \notin Unreaped(p) /\ UNCHANGED status
  BY <1>2, SameChildren DEF Unreaped, Children, Running
<1> QED
  BY <1>1, <1>2

----------------------------------------------------------------------------
(* The steps that change nothing that is counted.                          *)

Keeps(q, u) ==
    \/ pc'[q][u] = pc[q][u] /\ hand'[q][u] = hand[q][u]
    \/ pc[q][u] \in Forking /\ pc'[q][u] \in Forking /\ hand'[q][u] = hand[q][u]
    \/ /\ pc[q][u] \notin Special /\ pc'[q][u] \notin Special
       /\ pc[q][u] \in Exiting => pc'[q][u] \in Exiting
       /\ pc'[q][u] = "freed" => childList[q] = <<>>

LEMMA SpecialAre ==
    /\ {"absent", "user", "crit", "spawn", "wait", "dying", "sigwait", "exit", "exitwait", "freed"}
          = PCs \ Special
    /\ Special = {"forked", "undo", "reaped", "prep"}
    /\ Exiting = {"exit", "exitwait", "freed"} /\ Forking = {"forked", "undo"}
    /\ Exiting \subseteq PCs \ Special
  BY DEF Special, Forking, Exiting, PCs, Holding

LEMMA KeepsTree ==
    ASSUME TreeInv, UNCHANGED <<status, parent, childList>>,
           \A q \in Pid : \A u \in Thread : Keeps(q, u)
    PROVE  TreeInv'
<1> SUFFICES ASSUME NEW q \in Pid PROVE Kept(q)'
  BY DEF TreeInv
<1>1. Kept(q) /\ Unreaped(q)' = Unreaped(q) /\ (Running(q)' <=> Running(q))
  BY SameChildren DEF TreeInv
<1>2. /\ Newborn(q)' <=> Newborn(q)
      /\ Ending(q) => Ending(q)'
      /\ \A c : Forkers(q, c)' = Forkers(q, c) /\ Reapers(q, c)' = Reapers(q, c)
  BY SpecialAre DEF Keeps, Newborn, Ending, Forkers, Reapers
<1>3. \A c : Coming(q, c)' = Coming(q, c) /\ Going(q, c)' = Going(q, c)
  BY <1>1, <1>2 DEF Coming, Going
<1>4. Counted(q)'
  BY <1>1, <1>2, <1>3 DEF Kept, Counted
<1>5. Tracked(q)'
  BY <1>1, <1>2 DEF Kept, Tracked
<1>6. Childless(q)'
  BY <1>1, <1>2 DEF Kept, Childless
<1>7. Cleared(q)'
  BY <1>1, SpecialAre DEF Kept, Cleared, Keeps
<1> QED
  BY <1>4, <1>5, <1>6, <1>7 DEF Kept

LEMMA GotoKeeps ==
    ASSUME CtlInv, DataInv, TreeInv, UNCHANGED <<status, parent, childList>>,
           NEW p \in Pid, NEW t \in Thread, NEW l \in PCs, Goto(p, t, l),
           NEW h \in InHand, hand' = [hand EXCEPT ![p][t] = h],
           pc[p][t] \notin Special, l \notin Special,
           pc[p][t] \in Exiting => l \in Exiting,
           l = "freed" => childList[p] = <<>>
    PROVE  TreeInv'
<1>1. \A q \in Pid : \A u \in Thread :
         /\ pc'[q][u] = IF q = p /\ u = t THEN l ELSE pc[q][u]
         /\ hand'[q][u] = IF q = p /\ u = t THEN h ELSE hand[q][u]
  BY GotoMoves DEF CtlInv, DataInv, DataOK
<1>2. \A q \in Pid : \A u \in Thread : Keeps(q, u)
  BY <1>1 DEF Keeps
<1> QED
  BY <1>2, KeepsTree

LEMMA PlainTree ==
    ASSUME CtlInv, DataInv, TreeInv, NEW p \in Pid, NEW t \in Thread,
           \/ SysInit(p, t) \/ Lock(p, t) \/ Unlock(p, t) \/ Exit(p, t)
           \/ ForkFails(p, t) \/ ExitLock(p, t) \/ KillChild(p, t) \/ FreeState(p, t)
           \/ \E target : At(p, t, "user") /\ WaitFails(p, t, target)
           \/ \E target : At(p, t, "wait") /\ WaitFails(p, t, target)
    PROVE  TreeInv'
<1>1. PICK l \in {"spawn", "dying", "crit", "user", "exit", "exitwait", "freed"} :
         /\ Goto(p, t, l) /\ (Drop(p, t) \/ UNCHANGED hand)
         /\ l = "freed" => childList[p] = <<>>
         /\ pc[p][t] \in Exiting => l \in Exiting
         /\ pc[p][t] \in {"user", "crit", "dying", "exit", "wait"}
  BY SpecialAre DEF SysInit, Lock, Unlock, Exit, ForkFails, ExitLock, KillChild, FreeState,
     WaitFails, At
<1>2. UNCHANGED <<status, parent, childList>>
  BY DEF SysInit, Lock, Unlock, Exit, ForkFails, ExitLock, KillChild, FreeState, WaitFails
<1>3. PICK h \in InHand : hand' = [hand EXCEPT ![p][t] = h]
  BY <1>1, Hands
<1>4. l \in PCs /\ l \notin Special /\ pc[p][t] \notin Special
  BY <1>1, SpecialAre
<1> QED
  BY <1>1, <1>2, <1>3, <1>4, GotoKeeps

LEMMA SpawnTree ==
    ASSUME CtlInv, DataInv, TreeInv, NEW p \in Pid, NEW t \in Thread,
           SpawnSig(p, t) \/ \E u \in User : SpawnThread(p, t, u)
    PROVE  TreeInv'
<1>1. UNCHANGED <<status, parent, childList, hand>>
  BY DEF SpawnSig, SpawnThread
<1>2. \A q \in Pid : \A u \in Thread :
         \/ pc'[q][u] = pc[q][u]
         \/ /\ pc[q][u] \in {"spawn", "absent"}
            /\ pc'[q][u] \in {"user", "sigwait", "dying"}
  <2>1. CASE \E u \in User : SpawnThread(p, t, u)
    BY <2>1 DEF SpawnThread, Goto, CtlInv, CtlOK, Thread
  <2>2. CASE SpawnSig(p, t) /\ Goto(p, t, "dying")
    BY <2>2 DEF SpawnSig, At, Goto, CtlInv, CtlOK
  <2>3. CASE /\ SpawnSig(p, t)
             /\ pc' = [pc EXCEPT ![p] = [@ EXCEPT ![t] = "user", ![Sig] = "sigwait"]]
    <3>1. pc[p][t] = "spawn"
      BY <2>3 DEF SpawnSig, At
    <3>2. pc[p][Sig] \in {"spawn", "absent"}
      BY <3>1 DEF CtlInv, Alone, Thread
    <3> QED
      BY <2>3, <3>1, <3>2 DEF CtlInv, CtlOK
  <2> QED
    BY <2>1, <2>2, <2>3 DEF SpawnSig
<1>3. \A q \in Pid : \A u \in Thread : Keeps(q, u)
  BY <1>1, <1>2, SpecialAre DEF Keeps
<1> QED
  BY <1>1, <1>3, KeepsTree

LEMMA OtherTree ==
    ASSUME CtlInv, DataInv, TreeInv, NEW p \in Pid, NEW t \in Thread,
           \/ AddChildFails(p, t) \/ Interrupt(p) \/ SigThread(p) \/ SigwaitFails(p)
           \/ \E target \in Pid \cup {AnyPid} : SafeWaitpid(p, t, target)
    PROVE  TreeInv'
<1>1. CASE AddChildFails(p, t)
  <2>1. /\ \A q \in Pid : \A u \in Thread :
              pc'[q][u] = IF q = p /\ u = t THEN "undo" ELSE pc[q][u]
        /\ pc[p][t] = "forked"
        /\ UNCHANGED <<status, parent, childList, hand>>
    BY <1>1, SpecialAre DEF AddChildFails, At, Goto, CtlInv, CtlOK
  <2>2. \A q \in Pid : \A u \in Thread : Keeps(q, u)
    BY <2>1, SpecialAre DEF Keeps
  <2> QED
    BY <2>1, <2>2, KeepsTree
<1>2. CASE Interrupt(p)
  BY <1>2, KeepsTree DEF Interrupt, Keeps
<1>3. CASE SigThread(p) \/ SigwaitFails(p)
  <2>1. /\ Goto(p, Sig, "dying") /\ Sig \in Thread /\ pc[p][Sig] = "sigwait"
        /\ UNCHANGED <<status, parent, childList, hand>>
    BY <1>3 DEF SigThread, SigwaitFails, At, Thread
  <2>2. hand' = [hand EXCEPT ![p][Sig] = hand[p][Sig]] /\ hand[p][Sig] \in InHand
    BY <2>1, Hands
  <2>3. "dying" \in PCs /\ {"dying", "sigwait"} \cap (Special \cup Exiting) = {}
    BY SpecialAre
  <2> QED
    BY <2>1, <2>2, <2>3, GotoKeeps
<1>4. CASE \E target \in Pid \cup {AnyPid} : SafeWaitpid(p, t, target)
  <2>1. PICK h \in InHand : hand' = [hand EXCEPT ![p][t] = h]
    BY <1>4 DEF SafeWaitpid, InHand
  <2>2. /\ Goto(p, t, "wait") /\ pc[p][t] = "user"
        /\ UNCHANGED <<status, parent, childList>>
    BY <1>4 DEF SafeWaitpid, At
  <2>3. "wait" \in PCs /\ {"wait", "user"} \cap (Special \cup Exiting) = {}
    BY SpecialAre
  <2> QED
    BY <2>1, <2>2, <2>3, GotoKeeps
<1> QED
  BY <1>1, <1>2, <1>3, <1>4

----------------------------------------------------------------------------
(* The steps that do.                                                      *)

\* What a new process has, and what its parent has in hand.
LEMMA ForkTree ==
    ASSUME CtlInv, DataInv, TreeInv, NEW p \in Pid, NEW t \in Thread, NEW c \in Pid,
           SafeFork(p, t, c)
    PROVE  TreeInv'
<1>1. /\ pc[p][t] = "user" /\ status[p] = "running" /\ c # p
      /\ status[c] \in {"unused", "reaped"}
      /\ status' = [status EXCEPT ![c] = "running"]
      /\ parent' = [parent EXCEPT ![c] = p]
      /\ childList' = [childList EXCEPT ![c] = childList[p]]
      /\ pc' = [pc EXCEPT ![p][t] = "forked", ![c] = [Nowhere EXCEPT ![t] = "prep"]]
      /\ hand' = [hand EXCEPT ![p][t] = c, ![c] = EmptyHanded]
  BY DEF SafeFork, At, Free
<1>2. /\ \A q \in Pid \ {c} : childList'[q] = childList[q] /\ (Running(q)' <=> Running(q))
      /\ \A q \in Pid \ {c, p} : pc'[q] = pc[q] /\ hand'[q] = hand[q]
      /\ \A u \in Thread : /\ pc'[c][u] = IF u = t THEN "prep" ELSE "absent"
                           /\ pc'[p][u] = IF u = t THEN "forked" ELSE pc[p][u]
                           /\ hand'[p][u] = IF u = t THEN c ELSE hand[p][u]
  <2>1. /\ pc \in [Pid -> [Thread -> PCs]] /\ status \in [Pid -> {"unused", "running", "zombie", "reaped"}]
        /\ hand \in [Pid -> [Thread -> InHand]] /\ childList \in [Pid -> Seq(Pid)]
    BY DEF CtlInv, CtlOK, DataInv, DataOK
  <2>2. \A u \in Thread : [Nowhere EXCEPT ![t] = "prep"][u] = IF u = t THEN "prep" ELSE "absent"
    BY DEF Nowhere
  <2>3. \A q \in Pid \ {c} : childList'[q] = childList[q] /\ status'[q] = status[q]
    BY <1>1, <2>1
  <2> QED
    BY <1>1, <2>1, <2>2, <2>3 DEF Running
<1>3. /\ c \notin Unreaped(p)
      /\ Unreaped(p)' = Unreaped(p) \cup {c}
      /\ \A q \in Pid \ {p} : Unreaped(q)' = Unreaped(q)
  <2>1. \A d \in Pid : /\ status'[d] = IF d = c THEN "running" ELSE status[d]
                       /\ parent'[d] = IF d = c THEN p ELSE parent[d]
    BY <1>1 DEF CtlInv, CtlOK, DataInv, DataOK
  <2> QED
    BY <1>1, <2>1 DEF Unreaped, Children
<1>4. ASSUME NEW q \in Pid, q \notin {c, p} PROVE Kept(q)'
  BY <1>2, <1>3, <1>4, Untouched DEF TreeInv
<1>5. Kept(c)'
  <2>1. Unreaped(c)' = {}
    BY <1>1, <1>3 DEF TreeInv, Kept, Childless, Running
  <2>2. Newborn(c)'
    BY <1>2 DEF Newborn
  <2> QED
    BY <1>2, <2>1, <2>2 DEF Kept, Counted, Tracked, Childless, Cleared
<1>6. Kept(p)'
  <2>0. /\ \A u \in Thread : /\ pc'[p][u] = IF u = t THEN "forked" ELSE pc[p][u]
                             /\ hand'[p][u] = IF u = t THEN c ELSE hand[p][u]
        /\ pc[p][t] = "user" /\ status[p] = "running"
    BY <1>1, <1>2
  <2>1. /\ Newborn(p)' <=> Newborn(p)
        /\ Ending(p)' <=> Ending(p)
    BY <2>0, SpecialAre DEF Newborn, Ending
  <2>2. \A d : Reapers(p, d)' = Reapers(p, d)
    BY <2>0 DEF Reapers
  <2>3. \A d : Forkers(p, d)' = IF d = c THEN Forkers(p, c) \cup {t} ELSE Forkers(p, d)
    BY <2>0, SpecialAre DEF Forkers
  <2>4. t \notin Forkers(p, c) /\ Forkers(p, c) \in SUBSET Thread
    BY <1>1, SpecialAre DEF Forkers
  <2>5. Cardinality(Forkers(p, c)') = Cardinality(Forkers(p, c)) + 1
    BY <2>3, <2>4, PutIn
  <2>6. \A d : One(Unreaped(p)', d) = IF d = c THEN 1 ELSE One(Unreaped(p), d)
    BY <1>3 DEF One
  <2>7. One(Unreaped(p), c) = 0
    BY <1>3 DEF One
  <2>8. childList'[p] = childList[p]
    BY <1>1, <1>2
  <2>9. \A d : /\ d # c => Coming(p, d)' = Coming(p, d) /\ Going(p, d)' = Going(p, d)
               /\ d = c => Coming(p, d)' = Coming(p, d) + 1 /\ Going(p, d)' = Going(p, d) + 1
    <3> SUFFICES ASSUME NEW d
                 PROVE  /\ d # c => Coming(p, d)' = Coming(p, d) /\ Going(p, d)' = Going(p, d)
                        /\ d = c => Coming(p, d)' = Coming(p, d) + 1 /\ Going(p, d)' = Going(p, d) + 1
      OBVIOUS
    <3>1. CASE d # c
      BY <3>1, <2>2, <2>3, <2>6, <2>8 DEF Coming, Going
    <3>2. CASE d = c
      BY <3>2, <2>2, <2>5, <2>6, <2>7, <2>8, Numbers DEF Coming, Going
    <3> QED
      BY <3>1, <3>2
  <2>10. \A d \in Pid : Coming(p, d) \in Nat /\ Going(p, d) \in Nat
    BY Numbers
  <2>11. Counted(p)'
    BY <1>1, <1>2, <2>1, <2>9, <2>10 DEF TreeInv, Kept, Counted
  <2>12. Tracked(p)'
    <3>1. ASSUME NEW d \in Unreaped(p)', d # c
          PROVE  d \in ToSet(childList[p]) \/ Forkers(p, d) # {}
      BY <2>0, <3>1, <1>3 DEF TreeInv, Kept, Tracked, Running
    <3>2. Forkers(p, c)' # {}
      BY <2>3
    <3> QED
      BY <2>3, <2>8, <3>1, <3>2 DEF Tracked
  <2>13. Childless(p)'
    <3>1. ~ Newborn(p)
      <4>1. ASSUME NEW u \in Thread, pc[p][u] = "prep" PROVE FALSE
        BY <1>1, <4>1 DEF CtlInv, Alone
      <4> QED
        BY <4>1 DEF Newborn
    <3> QED
      BY <1>1, <1>2, <2>1, <3>1 DEF Childless, Running
  <2>14. Cleared(p)'
    BY <1>2, <2>8 DEF TreeInv, Kept, Cleared
  <2> QED
    BY <2>11, <2>12, <2>13, <2>14 DEF Kept
<1> QED
  BY <1>4, <1>5, <1>6 DEF TreeInv

\* The same, for the numbers after a step.
LEMMA NumbersNext ==
    ASSUME DataInv', NEW p \in Pid, NEW c
    PROVE  /\ Coming(p, c)' \in Nat /\ Going(p, c)' \in Nat
           /\ Cardinality(Places(childList'[p], c)) \in Nat
<1>1. Forkers(p, c)' \in SUBSET Thread /\ Reapers(p, c)' \in SUBSET Thread
  BY DEF Forkers, Reapers
<1>2. childList'[p] \in Seq(Pid)
  BY DEF DataInv, DataOK
<1>3. /\ Cardinality(Places(childList'[p], c)) \in Nat
      /\ Cardinality(Forkers(p, c)') \in Nat
      /\ Cardinality(Reapers(p, c)') \in Nat
  BY <1>1, <1>2, PlacesCount, ThreadsCount
<1>4. One(Unreaped(p)', c) \in Nat
  BY DEF One
<1> QED
  BY <1>3, <1>4 DEF Coming, Going

\* A step that keeps the counts even, or that a thread takes on its way into
\* safe_exit_p and that does not add to what comes.
LEMMA CountsKept ==
    ASSUME DataInv, DataInv', NEW p \in Pid, Kept(p), Running(p), ~ Newborn(p),
           Ending(p) => Ending(p)',
           \A d \in Pid : /\ Coming(p, d)' + Going(p, d) <= Coming(p, d) + Going(p, d)'
                          /\ ~ Ending(p)' => Coming(p, d)' + Going(p, d)
                                                = Coming(p, d) + Going(p, d)'
    PROVE  Counted(p)'
<1> SUFFICES ASSUME NEW d \in Pid
             PROVE  /\ Coming(p, d)' <= Going(p, d)'
                    /\ ~ Ending(p)' => Coming(p, d)' = Going(p, d)'
  BY DEF Counted
<1>1. /\ Coming(p, d) \in Nat /\ Going(p, d) \in Nat
      /\ Coming(p, d)' \in Nat /\ Going(p, d)' \in Nat
  BY Numbers, NumbersNext
<1>2. /\ Coming(p, d) <= Going(p, d)
      /\ ~ Ending(p) => Coming(p, d) = Going(p, d)
  BY DEF Kept, Counted
<1> QED
  BY <1>1, <1>2

\* The lock keeps the others away, and then there is nobody who forks, is
\* newborn or exits.
LEMMA Lonely ==
    ASSUME CtlInv, NEW p \in Pid, status[p] = "running", NEW t \in Thread,
           pc[p][t] \in Holding \/ mutex[p] = NoThread
    PROVE  \A u \in Thread \ {t} : pc[p][u] \notin Holding
  BY Excluded

LEMMA AddChildTree ==
    ASSUME CtlInv, DataInv, DataInv', TreeInv, NEW p \in Pid, NEW t \in Thread,
           AddChild(p, t)
    PROVE  TreeInv'
<1>1. PICK c \in Pid : c = hand[p][t]
  BY DEF AddChild, At, DataInv, HandOK, Handy
<1>2. /\ pc[p][t] = "forked" /\ status[p] = "running"
      /\ Goto(p, t, "user") /\ Drop(p, t)
      /\ childList' = [childList EXCEPT ![p] = <<c>> \o childList[p]]
      /\ UNCHANGED <<status, parent>>
  BY <1>1 DEF AddChild, At
<1>3. childList[p] \in Seq(Pid)
  BY ListsOK
<1>4. /\ childList'[p] = <<c>> \o childList[p]
      /\ \A q \in Pid \ {p} : childList'[q] = childList[q]
  BY <1>2 DEF DataInv, DataOK
<1>5. "user" \in PCs /\ "user" \notin Special /\ "user" \notin Exiting /\ NoPid \in InHand
  BY SpecialAre, Hands
<1>6. /\ \A u \in Thread \ {t} : pc'[p][u] = pc[p][u] /\ hand'[p][u] = hand[p][u]
      /\ pc'[p][t] = "user"
      /\ \A q \in Pid \ {p} : pc'[q] = pc[q] /\ hand'[q] = hand[q]
  BY <1>2, Went, Dropped
<1>7. \A d : Forkers(p, d)' = Forkers(p, d) \ {t} /\ Reapers(p, d)' = Reapers(p, d) \ {t}
  BY <1>5, <1>6, LeaveSets
<1>8. \A u \in Thread \ {t} : pc[p][u] \notin Holding
  BY <1>2, Lonely DEF Holding, Forking
<1>9. /\ \A d : t \in Forkers(p, d) <=> d = c
      /\ \A d : t \notin Reapers(p, d)
      /\ \A d : Forkers(p, d) \in SUBSET Thread
  BY <1>1, <1>2, SpecialAre DEF Forkers, Reapers
<1>10. ~ Newborn(p) /\ ~ Ending(p) /\ ~ Ending(p)' /\ ~ Newborn(p)'
  BY <1>2, <1>5, <1>6, <1>8, SpecialAre DEF Newborn, Ending, Holding
<1>11. Unreaped(p)' = Unreaped(p) /\ (Running(p)' <=> Running(p)) /\ Running(p)
  BY <1>2, SameChildren DEF Running
<1>12. Counted(p)'
  <2> SUFFICES ASSUME NEW d \in Pid PROVE Coming(p, d)' = Coming(p, d) /\ Going(p, d)' = Going(p, d)
    <3>1. \A d \in Pid : Coming(p, d)' = Coming(p, d) /\ Going(p, d)' = Going(p, d)
      OBVIOUS
    <3> QED
      BY <1>10, <1>11, <3>1 DEF TreeInv, Kept, Counted
  <2>1. Cardinality(Places(childList'[p], d))
           = Cardinality(Places(childList[p], d)) + IF c = d THEN 1 ELSE 0
    BY <1>3, <1>4, ConsCounts
  <2>2. Cardinality(Forkers(p, d)') = IF c = d THEN Cardinality(Forkers(p, d)) - 1
                                               ELSE Cardinality(Forkers(p, d))
    BY <1>7, <1>9, TakeOut
  <2>3. Reapers(p, d)' = Reapers(p, d)
    <3>1. Reapers(p, d)' = Reapers(p, d) \ {t} /\ t \notin Reapers(p, d)
      BY <1>7, <1>9
    <3> QED
      BY <3>1
  <2>4. Going(p, d)' = Going(p, d)
    BY <1>11, <2>3 DEF Going
  <2>5. Coming(p, d)' = Coming(p, d)
    BY <2>1, <2>2, Numbers DEF Coming
  <2> QED
    BY <2>4, <2>5
<1>13. Tracked(p)'
  <2> SUFFICES ASSUME NEW d \in Unreaped(p) PROVE d \in ToSet(childList'[p])
    BY <1>11 DEF Tracked
  <2>1. d \in Pid
    BY DEF Unreaped, Children
  <2>2. Going(p, d)' >= 1
    <3>1. One(Unreaped(p)', d) = 1
      BY <1>11 DEF One
    <3>2. Reapers(p, d)' \in SUBSET Thread
      BY DEF Reapers
    <3> QED
      BY <3>1, <3>2, ThreadsCount DEF Going
  <2>3. Coming(p, d)' >= 1
    BY <1>10, <1>11, <1>12, <2>1, <2>2 DEF Counted
  <2>4. Forkers(p, d)' = {}
    BY <1>5, <1>6, <1>8, SpecialAre DEF Forkers, Holding
  <2>5. Cardinality(Places(childList'[p], d)) # 0
    BY <2>3, <2>4, FS_EmptySet, NumbersNext DEF Coming
  <2>6. childList'[p] \in Seq(Pid)
    BY DEF DataInv, DataOK
  <2> QED
    BY <2>5, <2>6, NoPlaces
<1>14. Childless(p)' /\ Cleared(p)'
  <2>1. \A u \in Thread : pc'[p][u] # "freed"
    BY <1>5, <1>6, <1>8, SpecialAre DEF Holding
  <2> QED
    BY <1>10, <1>11, <2>1 DEF Childless, Cleared
<1>15. ASSUME NEW q \in Pid, q # p PROVE Kept(q)'
  BY <1>2, <1>4, <1>6, <1>15, SameChildren, Untouched DEF TreeInv
<1> QED
  BY <1>12, <1>13, <1>14, <1>15 DEF TreeInv, Kept

LEMMA UndoWaitTree ==
    ASSUME CtlInv, DataInv, DataInv', TreeInv, NEW p \in Pid, NEW t \in Thread,
           UndoWait(p, t)
    PROVE  TreeInv'
<1>1. PICK c \in Pid : c = hand[p][t]
  BY DEF UndoWait, At, DataInv, HandOK, Handy
<1>2. /\ pc[p][t] = "undo" /\ status[p] = "running"
      /\ Goto(p, t, "exit") /\ Drop(p, t) /\ UNCHANGED <<parent, childList>>
      /\ \/ c \in Unreaped(p) /\ status[c] = "zombie" /\ Reap(c)
         \/ c \notin Unreaped(p) /\ UNCHANGED status
  BY <1>1 DEF UndoWait, At
<1>3. /\ Unreaped(p)' = Unreaped(p) \ {c}
      /\ \A q \in Pid \ {p} : Unreaped(q)' = Unreaped(q)
      /\ \A q \in Pid : Running(q)' <=> Running(q)
  BY <1>2, ReapedChildren
<1>4. /\ \A u \in Thread \ {t} : pc'[p][u] = pc[p][u] /\ hand'[p][u] = hand[p][u]
      /\ pc'[p][t] = "exit"
      /\ \A q \in Pid \ {p} : pc'[q] = pc[q] /\ hand'[q] = hand[q]
  BY <1>2, Went, Dropped
<1>5. \A u \in Thread \ {t} : pc[p][u] \notin Holding
  BY <1>2, Lonely DEF Holding, Forking
<1>6. /\ \A d : t \in Forkers(p, d) <=> d = c
      /\ \A d : t \notin Reapers(p, d)
      /\ \A d : Forkers(p, d) \in SUBSET Thread
  BY <1>1, <1>2, SpecialAre DEF Forkers, Reapers
<1>7. \A d : /\ Forkers(p, d)' = Forkers(p, d) \ {t} /\ Reapers(p, d)' = Reapers(p, d)
             /\ d # c => Forkers(p, d)' = Forkers(p, d)
  BY <1>4, <1>6, LeaveSets, SpecialAre
<1>8. Running(p) /\ ~ Newborn(p) /\ ~ Ending(p) /\ Ending(p)' /\ ~ Newborn(p)'
  BY <1>2, <1>4, <1>5, SpecialAre DEF Newborn, Ending, Holding, Running
<1>9. Counted(p)'
  <2> SUFFICES ASSUME NEW d \in Pid
               PROVE  Coming(p, d)' + Going(p, d) <= Coming(p, d) + Going(p, d)'
    BY <1>8, CountsKept DEF TreeInv
  <2>1. Cardinality(Forkers(p, d)') = IF d = c THEN Cardinality(Forkers(p, d)) - 1
                                               ELSE Cardinality(Forkers(p, d))
    BY <1>6, <1>7, TakeOut
  <2>2. One(Unreaped(p)', d) = IF d = c THEN 0 ELSE One(Unreaped(p), d)
    BY <1>3 DEF One
  <2>3. One(Unreaped(p), d) \in {0, 1}
    BY DEF One
  <2>4. Coming(p, d)' = IF d = c THEN Coming(p, d) - 1 ELSE Coming(p, d)
    BY <1>2, <2>1, Numbers DEF Coming
  <2>5. Going(p, d) <= IF d = c THEN Going(p, d)' + 1 ELSE Going(p, d)'
    BY <1>7, <2>2, <2>3, Numbers DEF Going
  <2> QED
    BY <2>4, <2>5, Numbers, NumbersNext
<1>10. Tracked(p)'
  BY <1>2, <1>3, <1>7, <1>8 DEF TreeInv, Kept, Tracked
<1>11. Childless(p)' /\ Cleared(p)'
  <2>1. \A u \in Thread : pc'[p][u] # "freed"
    BY <1>4, <1>5, SpecialAre DEF Holding
  <2> QED
    BY <1>3, <1>8, <2>1 DEF Childless, Cleared
<1>12. ASSUME NEW q \in Pid, q # p PROVE Kept(q)'
  BY <1>2, <1>3, <1>4, <1>12, Untouched DEF TreeInv
<1> QED
  BY <1>9, <1>10, <1>11, <1>12 DEF TreeInv, Kept

\* The child has nothing, and its parent's list is not its own.
LEMMA PrepareTree ==
    ASSUME CtlInv, DataInv, TreeInv, NEW p \in Pid, NEW t \in Thread,
           PrepareFromChild(p, t)
    PROVE  TreeInv'
<1>1. /\ pc[p][t] = "prep" /\ status[p] = "running"
      /\ Goto(p, t, "spawn") /\ UNCHANGED <<status, parent, hand>>
      /\ childList' = [childList EXCEPT ![p] = <<>>]
  BY DEF PrepareFromChild, At
<1>2. /\ childList'[p] = <<>>
      /\ \A q \in Pid \ {p} : childList'[q] = childList[q]
  BY <1>1 DEF DataInv, DataOK
<1>3. /\ \A u \in Thread \ {t} : pc'[p][u] = pc[p][u]
      /\ pc'[p][t] = "spawn"
      /\ \A q \in Pid \ {p} : pc'[q] = pc[q] /\ hand'[q] = hand[q]
  BY <1>1, Went
<1>4. \A u \in Thread \ {t} : pc[p][u] = "absent"
  BY <1>1 DEF CtlInv, Alone
<1>5. Unreaped(p)' = {}
  <2>1. Newborn(p)
    BY <1>1 DEF Newborn
  <2> QED
    BY <1>1, <2>1, SameChildren DEF TreeInv, Kept, Childless
<1>6. \A d : Forkers(p, d)' = {} /\ Reapers(p, d)' = {}
  BY <1>3, <1>4, SpecialAre DEF Forkers, Reapers
<1>7. Counted(p)'
  <2> SUFFICES ASSUME NEW d PROVE Coming(p, d)' = 0 /\ Going(p, d)' = 0
    <3>1. \A d \in Pid : Coming(p, d)' = 0 /\ Going(p, d)' = 0
      OBVIOUS
    <3> QED
      BY <3>1 DEF Counted
  <2>1. Cardinality(Places(childList'[p], d)) = 0
    BY <1>2, FS_EmptySet DEF Places
  <2>2. Cardinality(Forkers(p, d)') = 0 /\ Cardinality(Reapers(p, d)') = 0
    BY <1>6, FS_EmptySet
  <2>3. One(Unreaped(p)', d) = 0
    BY <1>5 DEF One
  <2> QED
    BY <2>1, <2>2, <2>3 DEF Coming, Going
<1>8. Tracked(p)' /\ Childless(p)'
  BY <1>5 DEF Tracked, Childless
<1>9. Cleared(p)'
  BY <1>2 DEF Cleared
<1>10. ASSUME NEW q \in Pid, q # p PROVE Kept(q)'
  BY <1>1, <1>2, <1>3, <1>10, SameChildren, Untouched DEF TreeInv
<1> QED
  BY <1>7, <1>8, <1>9, <1>10 DEF TreeInv, Kept

\* A thread that reaps a child has it to take off the list.
LEMMA WaitReapsTree ==
    ASSUME CtlInv, DataInv, DataInv', TreeInv, NEW p \in Pid, NEW t \in Thread,
           NEW target, NEW c \in Pid,
           At(p, t, "user") \/ At(p, t, "wait"), WaitReaps(p, t, target, c)
    PROVE  TreeInv'
<1>1. /\ pc[p][t] \in {"user", "wait"} /\ status[p] = "running"
      /\ Goto(p, t, "reaped") /\ hand' = [hand EXCEPT ![p][t] = c]
      /\ UNCHANGED <<parent, childList>>
      /\ c \in Unreaped(p) /\ status[c] = "zombie" /\ Reap(c)
  BY DEF WaitReaps, Waitable, At
<1>2. /\ Unreaped(p)' = Unreaped(p) \ {c}
      /\ \A q \in Pid \ {p} : Unreaped(q)' = Unreaped(q)
      /\ \A q \in Pid : Running(q)' <=> Running(q)
  BY <1>1, ReapedChildren
<1>3. /\ \A u \in Thread \ {t} : pc'[p][u] = pc[p][u] /\ hand'[p][u] = hand[p][u]
      /\ pc'[p][t] = "reaped" /\ hand'[p][t] = c
      /\ \A q \in Pid \ {p} : pc'[q] = pc[q] /\ hand'[q] = hand[q]
  <2>1. /\ \A u \in Thread \ {t} : hand'[p][u] = hand[p][u]
        /\ hand'[p][t] = c
        /\ \A q \in Pid \ {p} : hand'[q] = hand[q]
    BY <1>1 DEF DataInv, DataOK
  <2> QED
    BY <1>1, <2>1, Went
<1>4. \A d : /\ Forkers(p, d)' = Forkers(p, d)
             /\ Reapers(p, d)' = IF d = c THEN Reapers(p, d) \cup {t} ELSE Reapers(p, d)
             /\ t \notin Reapers(p, d) /\ Reapers(p, d) \in SUBSET Thread
  BY <1>1, <1>3, SpecialAre DEF Forkers, Reapers
<1>5. /\ Newborn(p)' <=> Newborn(p)
      /\ Ending(p)' <=> Ending(p)
  BY <1>1, <1>3, SpecialAre DEF Newborn, Ending
<1>6. Counted(p)'
  <2>1. Running(p) /\ ~ Newborn(p)
    BY <1>1 DEF TreeInv, Kept, Childless, Running
  <2> SUFFICES ASSUME NEW d \in Pid
               PROVE  Coming(p, d)' + Going(p, d) = Coming(p, d) + Going(p, d)'
    <3>1. \A d \in Pid : Coming(p, d)' + Going(p, d) = Coming(p, d) + Going(p, d)'
      OBVIOUS
    <3>2. \A d \in Pid : Coming(p, d)' + Going(p, d) <= Coming(p, d) + Going(p, d)'
      <4> SUFFICES ASSUME NEW d \in Pid
                   PROVE  Coming(p, d)' + Going(p, d) <= Coming(p, d) + Going(p, d)'
        OBVIOUS
      <4>1. /\ Coming(p, d) \in Nat /\ Going(p, d) \in Nat
            /\ Coming(p, d)' \in Nat /\ Going(p, d)' \in Nat
        BY Numbers, NumbersNext
      <4> QED
        BY <3>1, <4>1
    <3> QED
      BY <2>1, <1>5, <3>1, <3>2, CountsKept DEF TreeInv
  <2>2. Cardinality(Reapers(p, d)') = IF d = c THEN Cardinality(Reapers(p, d)) + 1
                                               ELSE Cardinality(Reapers(p, d))
    BY <1>4, PutIn
  <2>3. /\ One(Unreaped(p)', d) = IF d = c THEN 0 ELSE One(Unreaped(p), d)
        /\ d = c => One(Unreaped(p), d) = 1
    BY <1>1, <1>2 DEF One
  <2>4. Coming(p, d)' = Coming(p, d)
    BY <1>1, <1>4 DEF Coming
  <2>5. Going(p, d)' = Going(p, d)
    BY <2>2, <2>3, Numbers DEF Going
  <2> QED
    BY <2>4, <2>5
<1>7. Tracked(p)'
  BY <1>1, <1>2, <1>4 DEF TreeInv, Kept, Tracked
<1>8. Childless(p)' /\ Cleared(p)'
  BY <1>1, <1>2, <1>3, <1>5 DEF TreeInv, Kept, Childless, Cleared
<1>9. ASSUME NEW q \in Pid, q # p PROVE Kept(q)'
  BY <1>1, <1>2, <1>3, <1>9, Untouched DEF TreeInv
<1> QED
  BY <1>6, <1>7, <1>8, <1>9 DEF TreeInv, Kept

\* It takes the node off: the two go together.
LEMMA RemoveReapedTree ==
    ASSUME CtlInv, DataInv, DataInv', TreeInv, NEW p \in Pid, NEW t \in Thread,
           RemoveReaped(p, t)
    PROVE  TreeInv'
<1>1. PICK c \in Pid : c = hand[p][t]
  BY DEF RemoveReaped, At, DataInv, HandOK, Handy
<1>2. /\ pc[p][t] = "reaped" /\ status[p] = "running" /\ mutex[p] = NoThread
      /\ Goto(p, t, "user") /\ Drop(p, t) /\ UNCHANGED <<status, parent>>
  BY DEF RemoveReaped, At
<1>3. PICK i \in 1..Len(childList[p]) :
         /\ childList[p][i] = c
         /\ childList' = [childList EXCEPT ![p] = RemoveAt(@, i)]
  BY <1>1 DEF RemoveReaped
<1>4. /\ childList[p] \in Seq(Pid)
      /\ childList'[p] = RemoveAt(childList[p], i)
      /\ \A q \in Pid \ {p} : childList'[q] = childList[q]
  BY <1>3 DEF DataInv, DataOK
<1>5. /\ \A u \in Thread \ {t} : pc'[p][u] = pc[p][u] /\ hand'[p][u] = hand[p][u]
      /\ pc'[p][t] = "user"
      /\ \A q \in Pid \ {p} : pc'[q] = pc[q] /\ hand'[q] = hand[q]
  BY <1>2, Went, Dropped
<1>6. \A u \in Thread : pc[p][u] \notin Holding
  BY <1>2, Excluded
<1>7. /\ Unreaped(p)' = Unreaped(p) /\ (Running(p)' <=> Running(p)) /\ Running(p)
      /\ \A q \in Pid : Unreaped(q)' = Unreaped(q) /\ (Running(q)' <=> Running(q))
  BY <1>2, SameChildren DEF Running
<1>8. /\ \A d : Forkers(p, d) = {}
      /\ \A d : t \in Reapers(p, d) <=> d = c
      /\ \A d : Reapers(p, d) \in SUBSET Thread
  BY <1>1, <1>2, <1>6 DEF Forkers, Reapers, Holding
<1>9. \A d : Forkers(p, d)' = {} /\ Reapers(p, d)' = Reapers(p, d) \ {t}
  BY <1>5, <1>8, LeaveSets, SpecialAre
<1>10. ~ Newborn(p) /\ ~ Ending(p) /\ ~ Ending(p)' /\ ~ Newborn(p)'
  BY <1>5, <1>6, SpecialAre DEF Newborn, Ending, Holding
<1>11. \A d \in Pid : Coming(p, d)' = Going(p, d)' /\ Coming(p, d)' = Cardinality(Places(childList'[p], d))
  <2> SUFFICES ASSUME NEW d \in Pid
               PROVE  /\ Coming(p, d)' = Going(p, d)'
                      /\ Coming(p, d)' = Cardinality(Places(childList'[p], d))
    OBVIOUS
  <2>1. Coming(p, d) = Going(p, d)
    BY <1>7, <1>10 DEF TreeInv, Kept, Counted
  <2>2. Cardinality(Places(childList[p], d))
           = Cardinality(Places(childList'[p], d)) + (IF c = d THEN 1 ELSE 0)
    BY <1>3, <1>4, RemoveAtCounts
  <2>3. Cardinality(Reapers(p, d)') = IF d = c THEN Cardinality(Reapers(p, d)) - 1
                                               ELSE Cardinality(Reapers(p, d))
    BY <1>8, <1>9, TakeOut
  <2>4. Cardinality(Forkers(p, d)) = 0 /\ Cardinality(Forkers(p, d)') = 0
    BY <1>8, <1>9, FS_EmptySet
  <2>5. Cardinality(Places(childList'[p], d)) \in Nat
    BY NumbersNext
  <2>6. Coming(p, d)' = Cardinality(Places(childList'[p], d))
    BY <2>4, <2>5 DEF Coming
  <2>7. Coming(p, d) = Cardinality(Places(childList[p], d))
    BY <2>4, Numbers DEF Coming
  <2>8. Going(p, d)' = IF d = c THEN Going(p, d) - 1 ELSE Going(p, d)
    <3>1. One(Unreaped(p)', d) = One(Unreaped(p), d) /\ One(Unreaped(p), d) \in {0, 1}
      BY <1>7 DEF One
    <3> QED
      BY <2>3, <3>1, Numbers DEF Going
  <2> QED
    <3>1. /\ Cardinality(Places(childList[p], d)) \in Nat
          /\ Coming(p, d) \in Nat /\ Going(p, d) \in Nat
      BY Numbers
    <3>2. Going(p, d)' = Cardinality(Places(childList'[p], d))
      <4>1. CASE c = d
        <5>1. Going(p, d) = Cardinality(Places(childList'[p], d)) + 1
          BY <2>1, <2>2, <2>7, <4>1
        <5>2. Going(p, d)' = Going(p, d) - 1
          BY <2>8, <4>1
        <5> QED
          BY <2>5, <5>1, <5>2
      <4>2. CASE c # d
        <5>1. Going(p, d) = Cardinality(Places(childList'[p], d)) + 0
          BY <2>1, <2>2, <2>7, <4>2
        <5>2. Going(p, d)' = Going(p, d)
          BY <2>8, <4>2
        <5> QED
          BY <2>5, <5>1, <5>2
      <4> QED
        BY <4>1, <4>2
    <3> QED
      BY <2>6, <3>2
<1>12. Counted(p)'
  <2> SUFFICES ASSUME NEW d \in Pid
               PROVE  Coming(p, d)' <= Going(p, d)' /\ Coming(p, d)' = Going(p, d)'
    BY DEF Counted
  <2> QED
    BY <1>11, NumbersNext
<1>13. Tracked(p)'
  <2> SUFFICES ASSUME NEW d \in Unreaped(p) PROVE d \in ToSet(childList'[p])
    BY <1>7 DEF Tracked
  <2>1. d \in Pid
    BY DEF Unreaped, Children
  <2>2. Going(p, d)' >= 1
    <3>1. One(Unreaped(p)', d) = 1
      BY <1>7 DEF One
    <3>2. Reapers(p, d)' \in SUBSET Thread
      BY DEF Reapers
    <3> QED
      BY <3>1, <3>2, ThreadsCount DEF Going
  <2>3. Cardinality(Places(childList'[p], d)) # 0
    BY <1>11, <2>1, <2>2
  <2>4. childList'[p] \in Seq(Pid)
    BY DEF DataInv, DataOK
  <2> QED
    BY <2>3, <2>4, NoPlaces
<1>14. Childless(p)' /\ Cleared(p)'
  <2>1. \A u \in Thread : pc'[p][u] # "freed"
    BY <1>5, <1>6, SpecialAre DEF Holding
  <2> QED
    BY <1>7, <1>10, <2>1 DEF Childless, Cleared
<1>15. ASSUME NEW q \in Pid, q # p PROVE Kept(q)'
  BY <1>4, <1>5, <1>7, <1>15, Untouched DEF TreeInv
<1> QED
  BY <1>12, <1>13, <1>14, <1>15 DEF TreeInv, Kept

\* It does not find it: nobody was coming, so that one going less is no harm
\* to a process that is about to exit.
LEMMA NotFoundTree ==
    ASSUME CtlInv, DataInv, DataInv', TreeInv, NEW p \in Pid, NEW t \in Thread,
           hand[p][t] \notin ToSet(childList[p]), ReapedNotFound(p, t)
    PROVE  TreeInv'
<1>1. PICK c \in Pid : c = hand[p][t]
  BY DEF ReapedNotFound, At, DataInv, HandOK, Handy
<1>2. /\ pc[p][t] = "reaped" /\ status[p] = "running" /\ mutex[p] = NoThread
      /\ Goto(p, t, "exit") /\ Drop(p, t) /\ UNCHANGED <<status, parent, childList>>
  BY DEF ReapedNotFound, At, Acquire
<1>3. /\ \A u \in Thread \ {t} : pc'[p][u] = pc[p][u] /\ hand'[p][u] = hand[p][u]
      /\ pc'[p][t] = "exit"
      /\ \A q \in Pid \ {p} : pc'[q] = pc[q] /\ hand'[q] = hand[q]
  BY <1>2, Went, Dropped
<1>4. \A u \in Thread : pc[p][u] \notin Holding
  BY <1>2, Excluded
<1>5. /\ Running(p) /\ Running(p)'
      /\ \A q \in Pid : Unreaped(q)' = Unreaped(q) /\ (Running(q)' <=> Running(q))
  BY <1>2, SameChildren DEF Running
<1>6. /\ \A d : Forkers(p, d) = {}
      /\ \A d : d # c => t \notin Reapers(p, d)
  BY <1>1, <1>2, <1>4 DEF Forkers, Reapers, Holding
<1>7. \A d : Forkers(p, d)' = {} /\ (d # c => Reapers(p, d)' = Reapers(p, d))
  BY <1>3, <1>6, LeaveSets, SpecialAre
<1>8. ~ Newborn(p) /\ ~ Ending(p) /\ Ending(p)' /\ ~ Newborn(p)'
  BY <1>3, <1>4, SpecialAre DEF Newborn, Ending, Holding
<1>9. Counted(p)'
  <2> SUFFICES ASSUME NEW d \in Pid PROVE Coming(p, d)' <= Going(p, d)'
    BY <1>8 DEF Counted
  <2>1. CASE d = c
    <3>1. Cardinality(Places(childList[p], c)) = 0
      BY <1>1, NoPlaces, ListsOK
    <3>2. Cardinality(Forkers(p, c)') = 0
      BY <1>7, FS_EmptySet
    <3>3. Coming(p, c)' = 0
      BY <1>2, <3>1, <3>2 DEF Coming
    <3> QED
      BY <2>1, <3>3, NumbersNext
  <2>2. CASE d # c
    <3>1. Coming(p, d)' = Coming(p, d) /\ Going(p, d)' = Going(p, d)
      BY <1>2, <1>5, <1>6, <1>7, <2>2 DEF Coming, Going
    <3> QED
      BY <1>5, <1>8, <3>1 DEF TreeInv, Kept, Counted
  <2> QED
    BY <2>1, <2>2
<1>10. Tracked(p)'
  BY <1>2, <1>5, <1>6 DEF TreeInv, Kept, Tracked
<1>11. Childless(p)' /\ Cleared(p)'
  <2>1. \A u \in Thread : pc'[p][u] # "freed"
    BY <1>3, <1>4, SpecialAre DEF Holding
  <2> QED
    BY <1>5, <1>8, <2>1 DEF Childless, Cleared
<1>12. ASSUME NEW q \in Pid, q # p PROVE Kept(q)'
  BY <1>2, <1>3, <1>5, <1>12, Untouched DEF TreeInv
<1> QED
  BY <1>9, <1>10, <1>11, <1>12 DEF TreeInv, Kept

\* A turn of the loop in safe_exit_p: a node goes, and the child with it.
LEMMA ReapKilledTree ==
    ASSUME CtlInv, DataInv, DataInv', TreeInv, NEW p \in Pid, NEW t \in Thread,
           ReapKilled(p, t)
    PROVE  TreeInv'
<1>1. childList[p] \in Seq(Pid) /\ childList[p] # <<>>
  BY DEF ReapKilled, At, DataInv, DataOK, NodeOK
<1>2. PICK c \in Pid : c = Head(childList[p])
  BY <1>1
<1>3. /\ pc[p][t] = "exitwait" /\ status[p] = "running"
      /\ Goto(p, t, "exit") /\ UNCHANGED <<parent, hand>>
      /\ childList' = [childList EXCEPT ![p] = Tail(@)]
      /\ \/ c \in Unreaped(p) /\ status[c] = "zombie" /\ Reap(c)
         \/ c \notin Unreaped(p) /\ UNCHANGED status
  BY <1>2 DEF ReapKilled, At
<1>4. /\ childList'[p] = Tail(childList[p])
      /\ \A q \in Pid \ {p} : childList'[q] = childList[q]
  BY <1>3 DEF DataInv, DataOK
<1>5. /\ Unreaped(p)' = Unreaped(p) \ {c}
      /\ \A q \in Pid \ {p} : Unreaped(q)' = Unreaped(q)
      /\ \A q \in Pid : Running(q)' <=> Running(q)
  BY <1>3, ReapedChildren
<1>6. /\ \A u \in Thread \ {t} : pc'[p][u] = pc[p][u]
      /\ pc'[p][t] = "exit"
      /\ \A q \in Pid \ {p} : pc'[q] = pc[q] /\ hand'[q] = hand[q]
  BY <1>3, Went
<1>7. \A u \in Thread \ {t} : pc[p][u] \notin Holding
  BY <1>3, Lonely DEF Holding, Exiting
<1>8. \A d : Forkers(p, d)' = Forkers(p, d) /\ Reapers(p, d)' = Reapers(p, d)
  BY <1>3, <1>6, SpecialAre DEF Forkers, Reapers
<1>9. Running(p) /\ ~ Newborn(p) /\ Ending(p)' /\ ~ Newborn(p)'
  BY <1>3, <1>6, <1>7, SpecialAre DEF Newborn, Ending, Holding, Running
<1>10. Counted(p)'
  <2> SUFFICES ASSUME NEW d \in Pid
               PROVE  Coming(p, d)' + Going(p, d) <= Coming(p, d) + Going(p, d)'
    BY <1>9, CountsKept DEF TreeInv
  <2>1. Cardinality(Places(childList[p], d))
           = Cardinality(Places(childList'[p], d)) + (IF c = d THEN 1 ELSE 0)
    BY <1>1, <1>2, <1>4, TailCounts
  <2>2. Coming(p, d) = Coming(p, d)' + (IF c = d THEN 1 ELSE 0)
    BY <1>8, <2>1, Numbers, NumbersNext DEF Coming
  <2>3. One(Unreaped(p)', d) = IF d = c THEN 0 ELSE One(Unreaped(p), d)
    BY <1>5 DEF One
  <2>4. One(Unreaped(p), d) \in {0, 1}
    BY DEF One
  <2>5. Going(p, d) <= Going(p, d)' + (IF c = d THEN 1 ELSE 0)
    BY <1>8, <2>3, <2>4, Numbers DEF Going
  <2>6. /\ Coming(p, d) \in Nat /\ Going(p, d) \in Nat
        /\ Coming(p, d)' \in Nat /\ Going(p, d)' \in Nat
    BY Numbers, NumbersNext
  <2> QED
    BY <2>2, <2>5, <2>6
<1>11. Tracked(p)'
  <2>1. \A d \in ToSet(childList[p]) : d # c => d \in ToSet(Tail(childList[p]))
    <3> SUFFICES ASSUME NEW i \in 1..Len(childList[p]), childList[p][i] # c
                 PROVE  childList[p][i] \in ToSet(Tail(childList[p]))
      BY <1>1 DEF ToSet
    <3>1. i - 1 \in 1..Len(Tail(childList[p])) /\ Tail(childList[p])[i - 1] = childList[p][i]
      BY <1>1, <1>2
    <3>2. Tail(childList[p]) \in Seq(Pid)
      BY <1>1
    <3>3. i - 1 \in DOMAIN Tail(childList[p])
      BY <3>1, <3>2
    <3> QED
      BY <3>1, <3>3, Zenon DEF ToSet
  <2> QED
    BY <1>4, <1>5, <1>8, <1>9, <2>1 DEF TreeInv, Kept, Tracked
<1>12. Childless(p)' /\ Cleared(p)'
  <2>1. \A u \in Thread : pc'[p][u] # "freed"
    BY <1>6, <1>7, SpecialAre DEF Holding
  <2> QED
    BY <1>5, <1>9, <2>1 DEF Childless, Cleared
<1>13. ASSUME NEW q \in Pid, q # p PROVE Kept(q)'
  BY <1>4, <1>5, <1>6, <1>13, Untouched DEF TreeInv
<1> QED
  BY <1>10, <1>11, <1>12, <1>13 DEF TreeInv, Kept

\* When ss has been freed, nothing is left to come and nobody to go.
LEMMA FreedChildless ==
    ASSUME CtlInv, DataInv, TreeInv, NEW p \in Pid, NEW t \in Thread, At(p, t, "freed")
    PROVE  Unreaped(p) = {}
<1>1. childList[p] = <<>> /\ Running(p)
  BY DEF At, TreeInv, Kept, Cleared, Running
<1>2. \A u \in Thread \ {t} : pc[p][u] \notin Holding
  BY Lonely DEF At, Holding, Exiting
<1>3. \A d : Forkers(p, d) = {}
  BY <1>2, SpecialAre DEF At, Forkers, Holding
<1>4. ToSet(childList[p]) = {}
  BY <1>1 DEF ToSet
<1> QED
  BY <1>1, <1>3, <1>4 DEF TreeInv, Kept, Tracked

LEMMA ProcessExitTree ==
    ASSUME CtlInv, DataInv, TreeInv, NEW p \in Pid, NEW t \in Thread, ProcessExit(p, t)
    PROVE  TreeInv'
<1>1. /\ status[p] = "running" /\ status' = [status EXCEPT ![p] = "zombie"]
      /\ pc' = [pc EXCEPT ![p] = Nowhere] /\ hand' = [hand EXCEPT ![p] = EmptyHanded]
      /\ UNCHANGED <<parent, childList>>
  BY DEF ProcessExit, At
<1>2. \A q \in Pid : status'[q] = IF q = p THEN "zombie" ELSE status[q]
  BY <1>1 DEF CtlInv, CtlOK
<1>3. /\ \A q \in Pid : Unreaped(q)' = Unreaped(q)
      /\ ~ Running(p)' /\ \A q \in Pid \ {p} : Running(q)' <=> Running(q)
  BY <1>1, <1>2 DEF Unreaped, Children, Running
<1>4. \A q \in Pid \ {p} : pc'[q] = pc[q] /\ hand'[q] = hand[q]
  BY <1>1 DEF CtlInv, CtlOK, DataInv, DataOK
<1>5. \A u \in Thread : pc'[p][u] = "absent"
  BY <1>1 DEF CtlInv, CtlOK, Nowhere
<1>6. Kept(p)'
  <2>1. Unreaped(p)' = {}
    BY <1>3, FreedChildless DEF ProcessExit
  <2> QED
    BY <1>3, <1>5, <2>1 DEF Kept, Counted, Tracked, Childless, Cleared
<1>7. ASSUME NEW q \in Pid, q # p PROVE Kept(q)'
  BY <1>1, <1>3, <1>4, <1>7, Untouched DEF TreeInv
<1> QED
  BY <1>6, <1>7 DEF TreeInv

----------------------------------------------------------------------------
LEMMA InitTree == Init => TreeInv
<1> SUFFICES ASSUME Init, NEW p \in Pid PROVE Kept(p)
  BY DEF TreeInv
<1>1. /\ \A t \in Thread : pc[p][t] \in {"user", "absent"}
      /\ childList[p] = <<>>
  BY DEF Init, Nowhere
<1>2. Unreaped(p) = {}
  BY PidAssumption DEF Init, Unreaped, Children
<1>3. \A c : Forkers(p, c) = {} /\ Reapers(p, c) = {} /\ Places(childList[p], c) = {}
  BY <1>1, SpecialAre DEF Forkers, Reapers, Places
<1>4. \A c : Coming(p, c) = 0 /\ Going(p, c) = 0
  BY <1>2, <1>3, FS_EmptySet DEF Coming, Going, One
<1>5. Counted(p)
  BY <1>4 DEF Counted
<1>6. Tracked(p) /\ Childless(p) /\ Cleared(p)
  BY <1>1, <1>2 DEF Tracked, Childless, Cleared
<1> QED
  BY <1>5, <1>6 DEF Kept

LEMMA TreeStep == CtlInv /\ DataInv /\ DataInv' /\ TreeInv /\ [Next]_vars => TreeInv'
<1> SUFFICES ASSUME CtlInv, DataInv, DataInv', TreeInv, [Next]_vars PROVE TreeInv'
  OBVIOUS
<1>1. CASE UNCHANGED vars
  BY <1>1, KeepsTree DEF vars, Keeps
<1>2. ASSUME NEW p \in Pid, Interrupt(p) \/ SigThread(p) \/ SigwaitFails(p) PROVE TreeInv'
  <2>1. Sig \in Thread
    BY DEF Thread
  <2> QED
    BY <1>2, <2>1, OtherTree
<1>3. ASSUME NEW p \in Pid, NEW t \in User, Choice(p, t) PROVE TreeInv'
  <2>1. t \in Thread
    BY DEF Thread
  <2>2. ASSUME NEW target, PollReturns(p, t, target) PROVE TreeInv'
    BY <2>1, <2>2, WaitReapsTree, PlainTree DEF PollReturns
  <2> QED
    BY <1>3, <2>1, <2>2, PlainTree, SpawnTree, ForkTree, OtherTree DEF Choice
<1>4. ASSUME NEW p \in Pid, NEW t \in Thread, Internal(p, t) PROVE TreeInv'
  <2>1. WaitReturns(p, t) => TreeInv'
    BY WaitReapsTree, PlainTree DEF WaitReturns
  <2> QED
    BY <1>4, <2>1, PlainTree, SpawnTree, OtherTree, AddChildTree, UndoWaitTree,
       PrepareTree, ReapKilledTree, ProcessExitTree DEF Internal
<1>5. ASSUME NEW p \in Pid, NEW t \in Thread, Locking(p, t) PROVE TreeInv'
  BY <1>5, PlainTree, RemoveReapedTree, NotFoundTree DEF Locking, SearchReaped
<1> QED
  BY <1>1, <1>2, <1>3, <1>4, <1>5 DEF Next, Done

LEMMA Inductive == Spec => [](CtlInv /\ DataInv /\ TreeInv)
  BY InitCtl, CtlStep, InitData, DataStep, InitTree, TreeStep, PTL DEF Spec

----------------------------------------------------------------------------
\* safe_exit_p misses no child: each is in the list, or with the thread that
\* has just forked it and holds the lock.
THEOREM ChildrenAreTracked == Spec => []ChildrenTracked
<1>1. TreeInv => ChildrenTracked
  BY DEF TreeInv, Kept, Tracked, ChildrenTracked, Forkers
<1> QED
  BY Inductive, <1>1, PTL

\* A process that has exited has left no child behind, in whatever way its
\* threads and those of its descendants went on.
THEOREM NobodyOrphaned == Spec => []NoOrphans
<1>1. TreeInv => NoOrphans
  BY DEF TreeInv, Kept, Childless, NoOrphans, Running
<1> QED
  BY Inductive, <1>1, PTL

\* The list is what the children and the threads at work say it should be, and
\* "Reaped child not found in child list" (sys.c:265) is never logged.
THEOREM ListIsAccurate == Spec => []ListAccurate
<1>1. ASSUME TreeInv PROVE ListAccurate
  <2> SUFFICES ASSUME NEW p \in Pid, Running(p),
                      \A t \in Thread : pc[p][t] \notin Exiting \cup {"prep"},
                      NEW c \in Pid
               PROVE  Cardinality(Places(childList[p], c)) + Cardinality(Forkers(p, c))
                         = Cardinality(Reapers(p, c)) + Cardinality(Unreaped(p) \cap {c})
    BY DEF ListAccurate, Places, Forkers, Reapers
  <2>1. ~ Newborn(p) /\ ~ Ending(p)
    BY DEF Newborn, Ending
  <2>2. Coming(p, c) = Going(p, c)
    BY <1>1, <2>1 DEF TreeInv, Kept, Counted
  <2>3. Cardinality(Unreaped(p) \cap {c}) = One(Unreaped(p), c)
    <3>1. CASE c \in Unreaped(p)
      <4>1. Unreaped(p) \cap {c} = {c}
        BY <3>1
      <4> QED
        BY <3>1, <4>1, FS_Singleton DEF One
    <3>2. CASE c \notin Unreaped(p)
      <4>1. Unreaped(p) \cap {c} = {}
        BY <3>2
      <4> QED
        BY <3>2, <4>1, FS_EmptySet DEF One
    <3> QED
      BY <3>1, <3>2
  <2> QED
    BY <2>2, <2>3 DEF Coming, Going
<1> QED
  BY Inductive, <1>1, PTL

\* safe_exit_p interrupts the process's own children and nobody else, but for
\* the pids that another of its threads has reaped and not yet taken off.
THEOREM KillsAreKnown == Spec => []KillsOnlyKnown
<1>1. ASSUME CtlInv, DataInv, TreeInv PROVE KillsOnlyKnown
  <2> SUFFICES ASSUME NEW p \in Pid, NEW t \in Thread, At(p, t, "exit"), childList[p] # <<>>
               PROVE  \/ parent[Head(childList[p])] = p
                      \/ \E u \in Thread : pc[p][u] = "reaped" /\ hand[p][u] = Head(childList[p])
    BY DEF KillsOnlyKnown
  <2>1. childList[p] \in Seq(Pid)
    BY <1>1, ListsOK
  <2>2. PICK c \in Pid : c = Head(childList[p])
    BY <2>1
  <2>3. Running(p) /\ ~ Newborn(p)
    <3>1. \A u \in Thread \ {t} : pc[p][u] \notin Holding
      BY <1>1, Lonely DEF At, Holding, Exiting
    <3> QED
      BY <3>1 DEF At, Newborn, Running, Holding
  <2>4. Coming(p, c) <= Going(p, c)
    BY <1>1, <2>3 DEF TreeInv, Kept, Counted
  <2>5. c \in ToSet(childList[p])
    <3>1. 1 \in DOMAIN childList[p] /\ childList[p][1] = c
      BY <2>1, <2>2
    <3> QED
      BY <3>1, Zenon DEF ToSet
  <2>6. Cardinality(Places(childList[p], c)) # 0
    BY <2>1, <2>5, NoPlaces
  <2>7. Coming(p, c) >= 1
    BY <1>1, <2>6, Numbers DEF Coming
  <2>8. Going(p, c) # 0
    BY <1>1, <2>4, <2>7, Numbers
  <2>9. Reapers(p, c) # {} \/ c \in Unreaped(p)
    <3>1. CASE Reapers(p, c) = {} /\ c \notin Unreaped(p)
      <4>1. Cardinality(Reapers(p, c)) = 0 /\ One(Unreaped(p), c) = 0
        BY <3>1, FS_EmptySet DEF One
      <4> QED
        BY <2>8, <4>1 DEF Going
    <3> QED
      BY <3>1
  <2> QED
    BY <2>2, <2>9 DEF Reapers, Unreaped, Children
<1> QED
  BY Inductive, <1>1, PTL

----------------------------------------------------------------------------
(* Sys implements ProcTree.  A fork is a fork, a wait that takes a child's *)
(* status collects it, and a process leaves when it exits.                 *)

LEMMA SameTree == UNCHANGED <<status, parent>> => UNCHANGED PT!vars
  BY DEF PT!vars

LEMMA CollectStep ==
    ASSUME NEW p \in Pid, NEW c \in Pid, status[p] = "running",
           c \in Unreaped(p), status[c] = "zombie", Reap(c), UNCHANGED parent
    PROVE  PT!Next
<1>1. PT!Collect(p, c)
  BY DEF PT!Collect, Reap, Unreaped, Children
<1> QED
  BY <1>1 DEF PT!Next

\* Whichever of the two a wait does.
LEMMA WaitStep ==
    ASSUME NEW p \in Pid, NEW c \in Pid, status[p] = "running", UNCHANGED parent,
           \/ c \in Unreaped(p) /\ status[c] = "zombie" /\ Reap(c)
           \/ c \notin Unreaped(p) /\ UNCHANGED status
    PROVE  [PT!Next]_PT!vars
  BY CollectStep, SameTree

LEMMA RefineStep ==
    ASSUME CtlInv, DataInv, TreeInv, [Next]_vars
    PROVE  [PT!Next]_PT!vars
<1>1. CASE UNCHANGED <<status, parent>>
  BY <1>1, SameTree
<1>2. ASSUME NEW p \in Pid, NEW t \in Thread, NEW target, NEW c \in Pid,
             At(p, t, "user") \/ At(p, t, "wait"), WaitReaps(p, t, target, c)
      PROVE  PT!Next
  <2>1. /\ status[p] = "running" /\ c \in Unreaped(p) /\ status[c] = "zombie"
        /\ Reap(c) /\ UNCHANGED parent
    BY <1>2 DEF WaitReaps, Waitable, At
  <2> QED
    BY <2>1, CollectStep
<1>3. ASSUME NEW p \in Pid, NEW t \in Thread, NEW target, WaitFails(p, t, target)
      PROVE  UNCHANGED <<status, parent>>
  BY <1>3 DEF WaitFails
<1>4. ASSUME NEW p \in Pid, Interrupt(p) \/ SigThread(p) \/ SigwaitFails(p)
      PROVE  UNCHANGED <<status, parent>>
  BY <1>4 DEF Interrupt, SigThread, SigwaitFails
<1>5. ASSUME NEW p \in Pid, NEW t \in User, Choice(p, t) PROVE [PT!Next]_PT!vars
  <2>1. t \in Thread
    BY DEF Thread
  <2>2. ASSUME NEW c \in Pid, SafeFork(p, t, c) PROVE PT!Next
    <3>1. PT!Fork(p, c)
      BY <2>2 DEF SafeFork, Free, At, PT!Fork
    <3> QED
      BY <3>1 DEF PT!Next
  <2>3. ASSUME NEW target, PollReturns(p, t, target) PROVE [PT!Next]_PT!vars
    BY <1>1, <1>2, <1>3, <2>1, <2>3 DEF PollReturns
  <2>4. CASE \/ SysInit(p, t) \/ Lock(p, t) \/ Exit(p, t) \/ ForkFails(p, t)
             \/ \E u \in User : SpawnThread(p, t, u)
             \/ \E target \in Pid \cup {AnyPid} : SafeWaitpid(p, t, target)
    <3>1. UNCHANGED <<status, parent>>
      BY <2>4 DEF SysInit, Lock, Exit, ForkFails, SpawnThread, SafeWaitpid
    <3> QED
      BY <1>1, <3>1
  <2> QED
    BY <1>5, <2>2, <2>3, <2>4 DEF Choice
<1>6. ASSUME NEW p \in Pid, NEW t \in Thread, Internal(p, t) PROVE [PT!Next]_PT!vars
  <2>1. CASE WaitReturns(p, t)
    BY <1>1, <1>2, <1>3, <2>1 DEF WaitReturns
  <2>2. CASE UndoWait(p, t)
    <3>1. PICK c \in Pid : c = hand[p][t]
      BY <2>2 DEF UndoWait, At, DataInv, HandOK, Handy
    <3>2. /\ status[p] = "running" /\ UNCHANGED parent
          /\ \/ c \in Unreaped(p) /\ status[c] = "zombie" /\ Reap(c)
             \/ c \notin Unreaped(p) /\ UNCHANGED status
      BY <2>2, <3>1 DEF UndoWait, At
    <3> QED
      BY <3>2, WaitStep
  <2>3. CASE ReapKilled(p, t)
    <3>1. childList[p] \in Seq(Pid) /\ childList[p] # <<>>
      BY <2>3 DEF ReapKilled, At, DataInv, DataOK, NodeOK
    <3>2. PICK c \in Pid : c = Head(childList[p])
      BY <3>1
    <3>3. /\ status[p] = "running" /\ UNCHANGED parent
          /\ \/ c \in Unreaped(p) /\ status[c] = "zombie" /\ Reap(c)
             \/ c \notin Unreaped(p) /\ UNCHANGED status
      BY <2>3, <3>2 DEF ReapKilled, At
    <3> QED
      BY <3>3, WaitStep
  <2>4. CASE ProcessExit(p, t)
    <3>1. Unreaped(p) = {}
      BY <2>4, FreedChildless DEF ProcessExit
    <3>2. PT!Leave(p)
      BY <2>4, <3>1 DEF ProcessExit, At, PT!Leave, PT!Unreaped, Unreaped, Children
    <3> QED
      BY <3>2 DEF PT!Next
  <2>5. CASE \/ SpawnSig(p, t) \/ Unlock(p, t) \/ AddChild(p, t) \/ AddChildFails(p, t)
             \/ PrepareFromChild(p, t) \/ KillChild(p, t) \/ FreeState(p, t)
    <3>1. UNCHANGED <<status, parent>>
      BY <2>5 DEF SpawnSig, Unlock, AddChild, AddChildFails, PrepareFromChild, KillChild, FreeState
    <3> QED
      BY <1>1, <3>1
  <2> QED
    BY <1>6, <2>1, <2>2, <2>3, <2>4, <2>5 DEF Internal
<1>7. ASSUME NEW p \in Pid, NEW t \in Thread, Locking(p, t) PROVE UNCHANGED <<status, parent>>
  BY <1>7 DEF Locking, SearchReaped, RemoveReaped, ReapedNotFound, ExitLock
<1>8. CASE UNCHANGED vars
  BY <1>1, <1>8 DEF vars
<1> QED
  BY <1>1, <1>4, <1>5, <1>6, <1>7, <1>8 DEF Next, Done

\* Every behaviour of the code is one of a tree that is torn down from the
\* leaves: each exit of a process is one without children.
THEOREM SysIsATree == Spec => Tree
<1>1. Init => PT!Init
  BY DEF Init, PT!Init
<1>2. (CtlInv /\ DataInv /\ TreeInv) /\ [Next]_vars => [PT!Next]_PT!vars
  BY RefineStep
<1> QED
  BY Inductive, <1>1, <1>2, PTL DEF Spec, Tree, PT!Spec

============================================================================
