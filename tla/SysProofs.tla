----------------------------- MODULE SysProofs -----------------------------
(***************************************************************************)
(* Proofs about Sys, for any number of processes and threads, any faults,  *)
(* and whichever pids the kernel gives out again.                          *)
(***************************************************************************)
EXTENDS Sys, TLAPS

\* The types of the variables that say who is where.
CtlOK ==
    /\ status \in [Pid -> {"unused", "running", "zombie", "reaped"}]
    /\ ss \in [Pid -> {"null", "live", "freed"}]
    /\ mutex \in [Pid -> Thread \cup {NoThread}]
    /\ pc \in [Pid -> [Thread -> PCs]]

\* Only a running process has threads.
Dead == \A p \in Pid : ~ Running(p) => \A t \in Thread : pc[p][t] = "absent"

\* A process that has just been forked, or is still in sys_init, has only one;
\* and before sys_init it has only one, and in the program's own code.
Alone ==
    \A p \in Pid : \A t, u \in Thread :
       t # u /\ (pc[p][t] \in {"prep", "spawn"} \/ ss[p] = "null") =>
          pc[p][t] = "absent" \/ pc[p][u] = "absent"

Fresh ==
    \A p \in Pid : ss[p] = "null" =>
       \A t \in Thread : pc[p][t] \in {"absent", "user"}

CtlInv == CtlOK /\ Dead /\ Alone /\ Fresh /\ LockDiscipline /\ NoUseAfterFree

----------------------------------------------------------------------------
LEMMA LabelsDiffer == Holding \cap {"absent", "user", "spawn", "wait", "reaped", "dying", "sigwait"} = {}
  BY DEF Holding, Forking, Exiting

\* What Goto does, thread by thread.
LEMMA GotoMoves ==
    ASSUME CtlOK, NEW p \in Pid, NEW t \in Thread, NEW l \in PCs, Goto(p, t, l)
    PROVE  /\ pc' \in [Pid -> [Thread -> PCs]]
           /\ \A q \in Pid : \A u \in Thread :
                 pc'[q][u] = IF q = p /\ u = t THEN l ELSE pc[q][u]
  BY DEF CtlOK, Goto

LEMMA InitCtl == Init => CtlInv
<1> SUFFICES ASSUME Init PROVE CtlInv
  OBVIOUS
<1>1. \A p \in Pid, t \in Thread :
         pc[p][t] = IF p = Root /\ t = Main THEN "user" ELSE "absent"
  BY ThreadAssumption DEF Init, Nowhere, Thread
<1>2. pc \in [Pid -> [Thread -> PCs]]
  BY ThreadAssumption DEF Init, Nowhere, Thread, PCs
<1>3. CtlOK
  BY <1>2 DEF Init, CtlOK
<1>4. \A p \in Pid : ss[p] = "null" /\ mutex[p] = NoThread
  BY DEF Init
<1>5. Dead /\ Alone /\ Fresh
  BY <1>1, <1>4 DEF Init, Dead, Alone, Fresh, Running
<1>6. LockDiscipline
  BY <1>1, <1>4, ThreadAssumption, LabelsDiffer DEF LockDiscipline, Thread
<1>7. NoUseAfterFree
  BY <1>4 DEF NoUseAfterFree
<1> QED
  BY <1>3, <1>5, <1>6, <1>7 DEF CtlInv

\* A thread that moves on, without the lock changing hands.
LEMMA MoveCtl ==
    ASSUME CtlInv, NEW p \in Pid, NEW t \in Thread, NEW l \in PCs,
           status[p] = "running", pc[p][t] # "absent", ss[p] # "null",
           pc[p][t] # "freed",
           Goto(p, t, l), l \notin {"absent", "prep", "spawn"},
           l \in Holding <=> pc[p][t] \in Holding,
           \A q \in Pid : status'[q] = status[q] \/ (status[q] # "running" /\ status'[q] # "running"),
           status' \in [Pid -> {"unused", "running", "zombie", "reaped"}],
           UNCHANGED <<ss, mutex>>
    PROVE  CtlInv'
<1>1. /\ pc' \in [Pid -> [Thread -> PCs]]
      /\ \A q \in Pid : \A u \in Thread :
            pc'[q][u] = IF q = p /\ u = t THEN l ELSE pc[q][u]
  BY GotoMoves DEF CtlInv
<1>2. CtlOK'
  BY <1>1 DEF CtlInv, CtlOK
<1>3. Dead'
  BY <1>1 DEF CtlInv, Dead, Running
<1>4. Alone' /\ Fresh'
  BY <1>1 DEF CtlInv, Alone, Fresh
<1>5. LockDiscipline'
  BY <1>1 DEF CtlInv, LockDiscipline, Running
<1>6. NoUseAfterFree'
  BY <1>1 DEF CtlInv, NoUseAfterFree, Running
<1> QED
  BY <1>2, <1>3, <1>4, <1>5, <1>6 DEF CtlInv

\* A thread that takes the lock.
LEMMA AcquireCtl ==
    ASSUME CtlInv, NEW p \in Pid, NEW t \in Thread, NEW l \in Holding \ {"prep"},
           status[p] = "running", pc[p][t] # "absent", ss[p] # "null",
           Goto(p, t, l), Acquire(p, t),
           UNCHANGED <<status, ss>>
    PROVE  CtlInv'
<1>0. l \in PCs /\ l \notin {"absent", "prep", "spawn"}
  BY LabelsDiffer DEF PCs
<1>1. /\ pc' \in [Pid -> [Thread -> PCs]]
      /\ \A q \in Pid : \A u \in Thread :
            pc'[q][u] = IF q = p /\ u = t THEN l ELSE pc[q][u]
  BY <1>0, GotoMoves DEF CtlInv
<1>2. /\ mutex' \in [Pid -> Thread \cup {NoThread}]
      /\ mutex[p] = NoThread
      /\ \A q \in Pid : mutex'[q] = IF q = p THEN t ELSE mutex[q]
  BY DEF CtlInv, CtlOK, Acquire
<1>3. CtlOK'
  BY <1>1, <1>2 DEF CtlInv, CtlOK
<1>4. Dead' /\ Alone' /\ Fresh'
  BY <1>0, <1>1 DEF CtlInv, Dead, Alone, Fresh, Running
<1>5. LockDiscipline'
  BY <1>1, <1>2, ThreadAssumption DEF CtlInv, LockDiscipline, Running, Thread
<1>6. NoUseAfterFree'
  BY <1>1, <1>2, ThreadAssumption DEF CtlInv, NoUseAfterFree, Running, Thread
<1> QED
  BY <1>3, <1>4, <1>5, <1>6 DEF CtlInv

\* A thread that lets the lock go, with ss still there.
LEMMA ReleaseCtl ==
    ASSUME CtlInv, NEW p \in Pid, NEW t \in Thread, NEW l \in PCs \ Holding,
           status[p] = "running", pc[p][t] \in Holding \ {"freed"}, ss[p] # "null",
           Goto(p, t, l), Release(p),
           l # "absent", l = "spawn" => pc[p][t] = "prep",
           UNCHANGED <<status, ss>>
    PROVE  CtlInv'
<1>1. /\ pc' \in [Pid -> [Thread -> PCs]]
      /\ \A q \in Pid : \A u \in Thread :
            pc'[q][u] = IF q = p /\ u = t THEN l ELSE pc[q][u]
  BY GotoMoves DEF CtlInv
<1>2. /\ mutex' \in [Pid -> Thread \cup {NoThread}]
      /\ \A q \in Pid : mutex'[q] = IF q = p THEN NoThread ELSE mutex[q]
  BY DEF CtlInv, CtlOK, Release
<1>3. mutex[p] = t
  BY DEF CtlInv, LockDiscipline, Running
<1>4. CtlOK'
  BY <1>1, <1>2 DEF CtlInv, CtlOK
<1>5. pc[p][t] # "absent"
  BY LabelsDiffer
<1>6. Dead' /\ Fresh'
  BY <1>1, <1>5 DEF CtlInv, Dead, Fresh, Running
<1>7. Alone'
  BY <1>1, <1>5, LabelsDiffer DEF CtlInv, Alone, Holding
<1>8. LockDiscipline'
  BY <1>1, <1>2, <1>3, ThreadAssumption DEF CtlInv, LockDiscipline, Running, Thread
<1>9. NoUseAfterFree'
  BY <1>1, <1>2, <1>3 DEF CtlInv, NoUseAfterFree, Running
<1> QED
  BY <1>4, <1>6, <1>7, <1>8, <1>9 DEF CtlInv

----------------------------------------------------------------------------
(* The actions that change who is where in a way of their own.             *)

LEMMA SysInitCtl ==
    ASSUME CtlInv, NEW p \in Pid, NEW t \in Thread, SysInit(p, t)
    PROVE  CtlInv'
<1>1. CASE ss[p] = "null"
  <2>1. PICK l \in {"spawn", "dying"} :
           /\ status[p] = "running" /\ pc[p][t] = "user" /\ Goto(p, t, l)
           /\ ss' = [ss EXCEPT ![p] = "live"] /\ UNCHANGED <<status, mutex>>
    BY <1>1 DEF SysInit, At
  <2>2. l \in PCs /\ l \notin Holding \cup {"freed", "sigwait", "absent", "user"}
    BY <2>1, LabelsDiffer DEF PCs
  <2>3. /\ pc' \in [Pid -> [Thread -> PCs]]
        /\ \A q \in Pid : \A u \in Thread :
              pc'[q][u] = IF q = p /\ u = t THEN l ELSE pc[q][u]
    BY <2>1, <2>2, GotoMoves DEF CtlInv
  <2>4. CtlOK'
    BY <2>1, <2>3 DEF CtlInv, CtlOK
  <2>5. Dead' /\ Fresh'
    BY <2>1, <2>2, <2>3 DEF CtlInv, CtlOK, Dead, Fresh, Running
  <2>6. Alone'
    BY <1>1, <2>1, <2>2, <2>3 DEF CtlInv, CtlOK, Alone
  <2>7. LockDiscipline' /\ NoUseAfterFree'
    BY <1>1, <2>1, <2>2, <2>3, LabelsDiffer
    DEF CtlInv, CtlOK, LockDiscipline, NoUseAfterFree, Running
  <2> QED
    BY <2>4, <2>5, <2>6, <2>7 DEF CtlInv
<1>2. CASE ss[p] # "null"
  <2>1. "dying" \in PCs
    BY DEF PCs
  <2>2. /\ status[p] = "running" /\ pc[p][t] = "user" /\ Goto(p, t, "dying")
        /\ UNCHANGED <<status, ss, mutex>>
    BY <1>2 DEF SysInit, At
  <2>3. status' \in [Pid -> {"unused", "running", "zombie", "reaped"}]
    BY <2>2 DEF CtlInv, CtlOK
  <2> QED
    BY <1>2, <2>1, <2>2, <2>3, MoveCtl, LabelsDiffer
<1> QED
  BY <1>1, <1>2

LEMMA SpawnSigCtl ==
    ASSUME CtlInv, NEW p \in Pid, NEW t \in Thread, SpawnSig(p, t)
    PROVE  CtlInv'
<1>1. /\ status[p] = "running" /\ pc[p][t] = "spawn"
      /\ UNCHANGED <<status, ss, mutex>>
  BY DEF SpawnSig, At
<1>2. ss[p] # "null"
  BY <1>1 DEF CtlInv, Fresh
<1>3. CASE Goto(p, t, "dying")
  <2>1. "dying" \in PCs
    BY DEF PCs
  <2>2. status' \in [Pid -> {"unused", "running", "zombie", "reaped"}]
    BY <1>1 DEF CtlInv, CtlOK
  <2> QED
    BY <1>1, <1>2, <1>3, <2>1, <2>2, MoveCtl, LabelsDiffer
<1>4. CASE pc' = [pc EXCEPT ![p] = [@ EXCEPT ![t] = "user", ![Sig] = "sigwait"]]
  <2>1. Sig \in Thread /\ {"user", "sigwait"} \subseteq PCs
    BY DEF Thread, PCs
  <2>2. /\ pc' \in [Pid -> [Thread -> PCs]]
        /\ \A q \in Pid : \A u \in Thread :
              pc'[q][u] = IF q = p /\ u = Sig THEN "sigwait"
                          ELSE IF q = p /\ u = t THEN "user" ELSE pc[q][u]
    BY <1>4, <2>1 DEF CtlInv, CtlOK
  <2>3. \A u \in Thread : u # t => pc[p][u] = "absent"
    BY <1>1 DEF CtlInv, Alone
  <2>4. CtlOK'
    BY <1>1, <2>2 DEF CtlInv, CtlOK
  <2>5. Dead' /\ Fresh'
    BY <1>1, <1>2, <2>2 DEF CtlInv, Dead, Fresh, Running
  <2>6. Alone'
    BY <1>1, <1>2, <2>2, <2>3 DEF CtlInv, Alone
  <2>7. LockDiscipline' /\ NoUseAfterFree'
    BY <1>1, <2>2, <2>3, LabelsDiffer DEF CtlInv, LockDiscipline, NoUseAfterFree, Running
  <2> QED
    BY <2>4, <2>5, <2>6, <2>7 DEF CtlInv
<1> QED
  BY <1>3, <1>4 DEF SpawnSig

LEMMA SpawnThreadCtl ==
    ASSUME CtlInv, NEW p \in Pid, NEW t \in Thread, NEW u \in Thread, SpawnThread(p, t, u)
    PROVE  CtlInv'
<1>1. /\ status[p] = "running" /\ pc[p][t] = "user" /\ ss[p] # "null"
      /\ pc[p][u] = "absent" /\ Goto(p, u, "user")
      /\ UNCHANGED <<status, ss, mutex>>
  BY DEF SpawnThread, At
<1>2. "user" \in PCs
  BY DEF PCs
<1>3. /\ pc' \in [Pid -> [Thread -> PCs]]
      /\ \A q \in Pid : \A v \in Thread :
            pc'[q][v] = IF q = p /\ v = u THEN "user" ELSE pc[q][v]
  BY <1>1, <1>2, GotoMoves DEF CtlInv
<1>4. \A v \in Thread : pc[p][v] \notin {"prep", "spawn"}
  BY <1>1 DEF CtlInv, Alone
<1>5. CtlOK' /\ Dead' /\ Fresh'
  BY <1>1, <1>3 DEF CtlInv, CtlOK, Dead, Fresh, Running
<1>6. Alone'
  BY <1>1, <1>3, <1>4 DEF CtlInv, Alone
<1>7. LockDiscipline' /\ NoUseAfterFree'
  BY <1>1, <1>3, LabelsDiffer DEF CtlInv, LockDiscipline, NoUseAfterFree, Running
<1> QED
  BY <1>5, <1>6, <1>7 DEF CtlInv

\* The child inherits the mutex, held by the thread it is a copy of, and ss,
\* which cannot be freed since the lock could be taken.
LEMMA SafeForkCtl ==
    ASSUME CtlInv, NEW p \in Pid, NEW t \in Thread, NEW c \in Pid, SafeFork(p, t, c)
    PROVE  CtlInv'
<1>1. /\ status[p] = "running" /\ pc[p][t] = "user" /\ ss[p] # "null"
      /\ mutex[p] = NoThread /\ status[c] # "running" /\ c # p
      /\ mutex' = [mutex EXCEPT ![p] = t, ![c] = t]
      /\ status' = [status EXCEPT ![c] = "running"]
      /\ ss' = [ss EXCEPT ![c] = ss[p]]
      /\ pc' = [pc EXCEPT ![p][t] = "forked", ![c] = [Nowhere EXCEPT ![t] = "prep"]]
  BY DEF SafeFork, At, Free
<1>2. {"absent", "forked", "prep"} \subseteq PCs /\ {"forked", "prep"} \subseteq Holding
  BY DEF PCs, Holding, Forking
<1>3. Nowhere \in [Thread -> PCs] /\ \A u \in Thread : Nowhere[u] = "absent"
  BY <1>2 DEF Nowhere
<1>4. /\ pc' \in [Pid -> [Thread -> PCs]]
      /\ \A q \in Pid : \A u \in Thread :
            pc'[q][u] = IF q = c THEN IF u = t THEN "prep" ELSE "absent"
                        ELSE IF q = p /\ u = t THEN "forked" ELSE pc[q][u]
  BY <1>1, <1>2, <1>3 DEF CtlInv, CtlOK
<1>5. /\ ss[p] = "live"
      /\ \A q \in Pid : ss'[q] = IF q = c THEN ss[p] ELSE ss[q]
      /\ \A q \in Pid : mutex'[q] = IF q \in {p, c} THEN t ELSE mutex[q]
      /\ \A q \in Pid : status'[q] = IF q = c THEN "running" ELSE status[q]
  BY <1>1, ThreadAssumption DEF CtlInv, CtlOK, NoUseAfterFree, Running, Thread
<1>6. CtlOK'
  BY <1>1, <1>4, <1>5 DEF CtlInv, CtlOK
<1>7. /\ status[p] = "running" /\ pc[p][t] = "user" /\ mutex[p] = NoThread
      /\ c # p /\ status[c] # "running"
  BY <1>1
<1>8. \A u \in Thread : pc[p][u] \notin {"prep", "spawn"} \cup Holding
  BY <1>7, ThreadAssumption DEF CtlInv, Alone, LockDiscipline, Running, Thread
<1>9. Dead' /\ Fresh'
  BY <1>4, <1>5, <1>7 DEF CtlInv, Dead, Fresh, Running
<1>10. Alone'
  BY <1>4, <1>5, <1>7, <1>8 DEF CtlInv, Alone
<1>11. LockDiscipline'
  <2> SUFFICES ASSUME NEW q \in Pid, Running(q)', NEW u \in Thread
               PROVE  pc'[q][u] \in Holding <=> mutex'[q] = u
    BY DEF LockDiscipline
  <2>1. CASE q \notin {p, c}
    BY <2>1, <1>4, <1>5 DEF CtlInv, LockDiscipline, Running
  <2>2. CASE q \in {p, c}
    BY <2>2, <1>2, <1>4, <1>5, <1>7, <1>8, LabelsDiffer
  <2> QED
    BY <2>1, <2>2
<1>12. NoUseAfterFree'
  BY <1>4, <1>5, <1>7 DEF CtlInv, NoUseAfterFree, Running
<1> QED
  BY <1>6, <1>9, <1>10, <1>11, <1>12 DEF CtlInv

LEMMA FreeStateCtl ==
    ASSUME CtlInv, NEW p \in Pid, NEW t \in Thread, FreeState(p, t)
    PROVE  CtlInv'
<1>1. /\ status[p] = "running" /\ pc[p][t] = "exit" /\ Goto(p, t, "freed")
      /\ ss' = [ss EXCEPT ![p] = "freed"] /\ UNCHANGED <<status, mutex>>
  BY DEF FreeState, At
<1>2. {"exit", "freed"} \subseteq Holding /\ "freed" \in PCs
  BY DEF PCs, Holding, Exiting
<1>3. /\ pc' \in [Pid -> [Thread -> PCs]]
      /\ \A q \in Pid : \A u \in Thread :
            pc'[q][u] = IF q = p /\ u = t THEN "freed" ELSE pc[q][u]
  BY <1>1, <1>2, GotoMoves DEF CtlInv
<1>4. mutex[p] = t
  BY <1>1, <1>2 DEF CtlInv, LockDiscipline, Running
<1>5. CtlOK'
  BY <1>1, <1>3 DEF CtlInv, CtlOK
<1>6. Dead' /\ Fresh' /\ Alone'
  <2>1. \A q \in Pid : ss'[q] = IF q = p THEN "freed" ELSE ss[q]
    BY <1>1 DEF CtlInv, CtlOK
  <2>2. \A u \in Thread : u # t /\ pc[p][u] \in {"prep", "spawn"} => FALSE
    BY <1>1 DEF CtlInv, Alone
  <2>3. Dead'
    BY <1>1, <1>3 DEF CtlInv, Dead, Running
  <2>4. Fresh'
    BY <1>3, <2>1 DEF CtlInv, Fresh
  <2>5. Alone'
    BY <1>1, <1>3, <2>1, <2>2 DEF CtlInv, Alone
  <2> QED
    BY <2>3, <2>4, <2>5
<1>7. LockDiscipline'
  BY <1>1, <1>2, <1>3 DEF CtlInv, LockDiscipline, Running
<1>8. NoUseAfterFree'
  BY <1>1, <1>3, <1>4 DEF CtlInv, CtlOK, NoUseAfterFree, Running
<1> QED
  BY <1>5, <1>6, <1>7, <1>8 DEF CtlInv

LEMMA ProcessExitCtl ==
    ASSUME CtlInv, NEW p \in Pid, NEW t \in Thread, ProcessExit(p, t)
    PROVE  CtlInv'
<1>1. /\ status' = [status EXCEPT ![p] = "zombie"] /\ pc' = [pc EXCEPT ![p] = Nowhere]
      /\ pc[p][t] = "freed" /\ UNCHANGED <<ss, mutex>>
  BY DEF ProcessExit, At
<1>2. Nowhere \in [Thread -> PCs] /\ \A u \in Thread : Nowhere[u] = "absent"
  BY DEF Nowhere, PCs
<1>3. /\ pc' \in [Pid -> [Thread -> PCs]]
      /\ \A q \in Pid : \A u \in Thread :
            pc'[q][u] = IF q = p THEN "absent" ELSE pc[q][u]
  BY <1>1, <1>2 DEF CtlInv, CtlOK
<1>4. CtlOK' /\ Dead' /\ Alone' /\ Fresh'
  BY <1>1, <1>3 DEF CtlInv, CtlOK, Dead, Alone, Fresh, Running
<1>5. LockDiscipline' /\ NoUseAfterFree'
  BY <1>1, <1>3 DEF CtlInv, CtlOK, LockDiscipline, NoUseAfterFree, Running
<1> QED
  BY <1>4, <1>5 DEF CtlInv

----------------------------------------------------------------------------
(* The other actions take the lock, let it go, or leave it alone.          *)

LEMMA TakingCtl ==
    ASSUME CtlInv, NEW p \in Pid, NEW t \in Thread,
           Lock(p, t) \/ ForkFails(p, t) \/ ReapedNotFound(p, t) \/ ExitLock(p, t)
    PROVE  CtlInv'
<1>1. {"crit", "exit"} \subseteq Holding \ {"prep"}
  BY DEF Holding, Exiting
<1>2. /\ status[p] = "running" /\ pc[p][t] \in {"user", "reaped", "dying"}
      /\ pc[p][t] = "user" => ss[p] # "null"
      /\ \E l \in {"crit", "exit"} : Goto(p, t, l)
      /\ Acquire(p, t) /\ UNCHANGED <<status, ss>>
  BY DEF Lock, ForkFails, ReapedNotFound, ExitLock, At
<1>3. ss[p] # "null"
  BY <1>2 DEF CtlInv, Fresh
<1> QED
  BY <1>1, <1>2, <1>3, AcquireCtl

LEMMA LettingGoCtl ==
    ASSUME CtlInv, NEW p \in Pid, NEW t \in Thread,
           Unlock(p, t) \/ AddChild(p, t) \/ PrepareFromChild(p, t)
    PROVE  CtlInv'
<1>1. {"crit", "forked", "prep"} \subseteq Holding \ {"freed"}
  BY DEF Holding, Exiting, Forking
<1>2. {"user", "spawn"} \subseteq PCs \ Holding
  BY LabelsDiffer DEF PCs
<1>3. /\ status[p] = "running" /\ pc[p][t] \in {"crit", "forked", "prep"}
      /\ \/ Goto(p, t, "user")
         \/ Goto(p, t, "spawn") /\ pc[p][t] = "prep"
      /\ Release(p) /\ UNCHANGED <<status, ss>>
  BY DEF Unlock, AddChild, PrepareFromChild, At
<1>4. ss[p] # "null"
  BY <1>3 DEF CtlInv, Fresh
<1> QED
  BY <1>1, <1>2, <1>3, <1>4, ReleaseCtl

\* Where a thread can go without the lock changing hands.
Moves ==
    {"user", "wait", "reaped", "dying", "sigwait"} \X {"user", "wait", "reaped", "dying"}
    \cup {"crit", "forked", "undo", "exit", "exitwait"} \X {"undo", "exit", "exitwait"}

LEMMA MovesKeepLock ==
    ASSUME NEW k, NEW l, <<k, l>> \in Moves
    PROVE  /\ l \in PCs /\ l \notin {"absent", "prep", "spawn"}
           /\ k \notin {"absent", "freed"}
           /\ l \in Holding <=> k \in Holding
  BY DEF Moves, PCs, Holding, Exiting, Forking

\* waitpid, in whichever of its places: at most one zombie is reaped.
Reaps == UNCHANGED status \/ \E c \in Pid : status[c] = "zombie" /\ Reap(c)

LEMMA ReapsStatus ==
    ASSUME CtlInv, Reaps
    PROVE  /\ status' \in [Pid -> {"unused", "running", "zombie", "reaped"}]
           /\ \A q \in Pid : status'[q] = status[q]
                             \/ (status[q] # "running" /\ status'[q] # "running")
  BY DEF CtlInv, CtlOK, Reaps, Reap

LEMMA MovingCtl ==
    ASSUME CtlInv, NEW p \in Pid, NEW t \in Thread,
           status[p] = "running", pc[p][t] = "user" => ss[p] # "null",
           NEW l, <<pc[p][t], l>> \in Moves, Goto(p, t, l),
           Reaps, UNCHANGED <<ss, mutex>>
    PROVE  CtlInv'
<1>1. ss[p] # "null"
  BY MovesKeepLock DEF CtlInv, Fresh
<1> QED
  BY <1>1, MovesKeepLock, ReapsStatus, MoveCtl

LEMMA WaitReapsReaps ==
    ASSUME NEW p \in Pid, NEW t \in Thread, NEW target, NEW c \in Pid,
           WaitReaps(p, t, target, c)
    PROVE  Reaps /\ Goto(p, t, "reaped") /\ UNCHANGED <<ss, mutex>>
  BY DEF WaitReaps, Reaps

LEMMA WaitFailsStays ==
    ASSUME NEW p \in Pid, NEW t \in Thread, NEW target, WaitFails(p, t, target)
    PROVE  Reaps /\ Goto(p, t, "dying") /\ UNCHANGED <<ss, mutex>>
  BY DEF WaitFails, Reaps

LEMMA StayingCtl ==
    ASSUME CtlInv, NEW p \in Pid, NEW t \in Thread,
           \/ AddChildFails(p, t) \/ UndoWait(p, t)
           \/ \E target \in Pid \cup {AnyPid} :
                 SafeWaitpid(p, t, target) \/ PollReturns(p, t, target)
           \/ WaitReturns(p, t) \/ RemoveReaped(p, t) \/ Exit(p, t)
           \/ KillChild(p, t) \/ ReapKilled(p, t)
    PROVE  CtlInv'
<1>1. CASE AddChildFails(p, t)
  <2>1. <<pc[p][t], "undo">> \in Moves
    BY <1>1 DEF AddChildFails, At, Moves
  <2> QED
    BY <1>1, <2>1, MovingCtl DEF AddChildFails, At, Reaps
<1>2. CASE UndoWait(p, t)
  <2>1. <<pc[p][t], "exit">> \in Moves
    BY <1>2 DEF UndoWait, At, Moves
  <2>2. Reaps
    BY <1>2 DEF UndoWait, Unreaped, Children, Reaps
  <2> QED
    BY <1>2, <2>1, <2>2, MovingCtl DEF UndoWait, At
<1>3. ASSUME NEW target, SafeWaitpid(p, t, target) PROVE CtlInv'
  <2>1. <<pc[p][t], "wait">> \in Moves
    BY <1>3 DEF SafeWaitpid, At, Moves
  <2> QED
    BY <1>3, <2>1, MovingCtl DEF SafeWaitpid, At, Reaps
<1>4. ASSUME NEW target, PollReturns(p, t, target) PROVE CtlInv'
  <2>1. <<pc[p][t], "reaped">> \in Moves /\ <<pc[p][t], "dying">> \in Moves
    BY <1>4 DEF PollReturns, At, Moves
  <2> QED
    BY <1>4, <2>1, MovingCtl, WaitReapsReaps, WaitFailsStays DEF PollReturns, At
<1>5. CASE WaitReturns(p, t)
  <2>1. <<pc[p][t], "reaped">> \in Moves /\ <<pc[p][t], "dying">> \in Moves
    BY <1>5 DEF WaitReturns, At, Moves
  <2> QED
    BY <1>5, <2>1, MovingCtl, WaitReapsReaps, WaitFailsStays DEF WaitReturns, At
<1>6. CASE RemoveReaped(p, t)
  <2>1. <<pc[p][t], "user">> \in Moves
    BY <1>6 DEF RemoveReaped, At, Moves
  <2> QED
    BY <1>6, <2>1, MovingCtl DEF RemoveReaped, At, Reaps
<1>7. CASE Exit(p, t)
  <2>1. CASE pc[p][t] = "user"
    <3>1. <<pc[p][t], "dying">> \in Moves
      BY <2>1 DEF Moves
    <3> QED
      BY <1>7, <2>1, <3>1, MovingCtl DEF Exit, At, Reaps
  <2>2. CASE pc[p][t] = "crit"
    <3>1. <<pc[p][t], "exit">> \in Moves
      BY <2>2 DEF Moves
    <3> QED
      BY <1>7, <2>2, <3>1, MovingCtl DEF Exit, At, Reaps
  <2> QED
    BY <1>7, <2>1, <2>2 DEF Exit, At
<1>8. CASE KillChild(p, t)
  <2>1. <<pc[p][t], "exitwait">> \in Moves
    BY <1>8 DEF KillChild, At, Moves
  <2> QED
    BY <1>8, <2>1, MovingCtl DEF KillChild, At, Reaps
<1>9. CASE ReapKilled(p, t)
  <2>1. <<pc[p][t], "exit">> \in Moves
    BY <1>9 DEF ReapKilled, At, Moves
  <2>2. Reaps
    BY <1>9 DEF ReapKilled, Unreaped, Children, Reaps
  <2> QED
    BY <1>9, <2>1, <2>2, MovingCtl DEF ReapKilled, At
<1> QED
  BY <1>1, <1>2, <1>3, <1>4, <1>5, <1>6, <1>7, <1>8, <1>9

LEMMA SigThreadCtl ==
    ASSUME CtlInv, NEW p \in Pid, SigThread(p) \/ SigwaitFails(p)
    PROVE  CtlInv'
<1>1. Sig \in Thread /\ <<pc[p][Sig], "dying">> \in Moves
  BY DEF SigThread, SigwaitFails, At, Moves, Thread
<1> QED
  BY <1>1, MovingCtl DEF SigThread, SigwaitFails, At, Reaps

LEMMA CtlStep == CtlInv /\ [Next]_vars => CtlInv'
<1> SUFFICES ASSUME CtlInv, [Next]_vars PROVE CtlInv'
  OBVIOUS
<1>1. CASE UNCHANGED <<status, ss, mutex, pc>>
  BY <1>1 DEF CtlInv, CtlOK, Dead, Alone, Fresh, LockDiscipline, NoUseAfterFree, Running
<1>2. ASSUME NEW p \in Pid, Interrupt(p) PROVE CtlInv'
  BY <1>1, <1>2 DEF Interrupt
<1>3. ASSUME NEW p \in Pid, SigThread(p) \/ SigwaitFails(p) PROVE CtlInv'
  BY <1>3, SigThreadCtl
<1>4. ASSUME NEW p \in Pid, NEW t \in User, Choice(p, t) PROVE CtlInv'
  <2>1. t \in Thread /\ User \subseteq Thread
    BY DEF Thread
  <2> QED
    BY <1>4, <2>1, SysInitCtl, TakingCtl, StayingCtl, SpawnThreadCtl, SafeForkCtl DEF Choice
<1>5. ASSUME NEW p \in Pid, NEW t \in Thread, Internal(p, t) PROVE CtlInv'
  BY <1>5, SpawnSigCtl, LettingGoCtl, StayingCtl, FreeStateCtl, ProcessExitCtl DEF Internal
<1>6. ASSUME NEW p \in Pid, NEW t \in Thread, Locking(p, t) PROVE CtlInv'
  BY <1>6, StayingCtl, TakingCtl DEF Locking, SearchReaped
<1> QED
  BY <1>1, <1>2, <1>3, <1>4, <1>5, <1>6 DEF Next, Done, vars

\* sys_mut is held by exactly the thread that is between a lock and an unlock
\* of it, in every process, however it was forked and whatever failed.
THEOREM LockHeld == Spec => []LockDiscipline
<1>1. CtlInv => LockDiscipline
  BY DEF CtlInv
<1> QED
  BY InitCtl, CtlStep, <1>1, PTL DEF Spec

\* After free(ss) (sys.c:307) the lock is never let go, so that no thread, and
\* no new child, can look at ss again.
THEOREM NeverUsedFreed == Spec => []NoUseAfterFree
<1>1. CtlInv => NoUseAfterFree
  BY DEF CtlInv
<1> QED
  BY InitCtl, CtlStep, <1>1, PTL DEF Spec

----------------------------------------------------------------------------
(* The types of the other variables.  A thread that carries a child's pid  *)
(* has one in hand, and one that waits for the child it has killed still   *)
(* has its node at the head of the list: nobody else can change the list.  *)

Handy == {"forked", "undo", "reaped"}
InHand == Pid \cup {NoPid, AnyPid}

DataOK ==
    /\ parent \in [Pid -> Pid \cup {NoPid}]
    /\ childList \in [Pid -> Seq(Pid)]
    /\ pending \in [Pid -> BOOLEAN]
    /\ hand \in [Pid -> [Thread -> InHand]]

HandOK == \A p \in Pid : \A t \in Thread : pc[p][t] \in Handy => hand[p][t] \in Pid

NodeOK == \A p \in Pid : \A t \in Thread : pc[p][t] = "exitwait" => childList[p] # <<>>

DataInv == DataOK /\ HandOK /\ NodeOK

LEMMA LabelsAre ==
    /\ {"crit", "prep", "forked", "undo", "exit", "exitwait", "freed"} = Holding
    /\ {"absent", "user", "spawn", "wait", "reaped", "dying", "sigwait"} = PCs \ Holding
    /\ Holding \subseteq PCs
  BY DEF PCs, Holding, Exiting, Forking

\* While one thread is inside, no other is, and none is if the lock is free.
LEMMA Excluded ==
    ASSUME CtlInv, NEW p \in Pid, status[p] = "running", NEW t \in Thread
    PROVE  /\ pc[p][t] \in Holding => \A u \in Thread : u # t => pc[p][u] \notin Holding
           /\ mutex[p] = NoThread => pc[p][t] \notin Holding
  BY ThreadAssumption DEF CtlInv, LockDiscipline, Running, Thread

LEMMA InitData == Init => DataInv
<1> SUFFICES ASSUME Init PROVE DataInv
  OBVIOUS
<1>1. \A p \in Pid, t \in Thread : pc[p][t] \in {"user", "absent"}
  BY DEF Init, Nowhere
<1>2. pending \in [Pid -> BOOLEAN]
  BY DEF Init
<1>3. DataOK
  BY <1>2 DEF Init, DataOK, EmptyHanded, InHand
<1> QED
  BY <1>1, <1>3 DEF DataInv, HandOK, NodeOK, Handy

\* A thread that moves on, with its own pid in hand.
LEMMA MoveData ==
    ASSUME CtlInv, DataInv, NEW p \in Pid, NEW t \in Thread,
           NEW l \in PCs, Goto(p, t, l),
           NEW h \in InHand, hand' = [hand EXCEPT ![p][t] = h],
           l \in Handy => h \in Pid,
           l = "exitwait" => childList'[p] # <<>>,
           \A u \in Thread : u # t /\ pc[p][u] = "exitwait" => childList'[p] # <<>>,
           \A q \in Pid : q # p => childList'[q] = childList[q],
           parent' \in [Pid -> Pid \cup {NoPid}],
           childList' \in [Pid -> Seq(Pid)],
           pending' \in [Pid -> BOOLEAN]
    PROVE  DataInv'
<1>1. \A q \in Pid : \A u \in Thread :
         pc'[q][u] = IF q = p /\ u = t THEN l ELSE pc[q][u]
  BY GotoMoves DEF CtlInv
<1>2. /\ hand' \in [Pid -> [Thread -> InHand]]
      /\ \A q \in Pid : \A u \in Thread :
            hand'[q][u] = IF q = p /\ u = t THEN h ELSE hand[q][u]
  BY DEF DataInv, DataOK
<1>3. DataOK'
  BY <1>2 DEF DataOK, InHand
<1>4. HandOK'
  <2> SUFFICES ASSUME NEW q \in Pid, NEW u \in Thread, pc'[q][u] \in Handy
               PROVE  hand'[q][u] \in Pid
    BY DEF HandOK, Handy
  <2>1. CASE q = p /\ u = t
    <3>1. l \in Handy /\ hand'[q][u] = h
      BY <2>1, <1>1, <1>2
    <3> QED
      BY <3>1
  <2>2. CASE ~ (q = p /\ u = t)
    <3>1. pc[q][u] \in Handy /\ hand'[q][u] = hand[q][u]
      BY <2>2, <1>1, <1>2
    <3> QED
      BY <3>1 DEF DataInv, HandOK
  <2> QED
    BY <2>1, <2>2
<1>5. NodeOK'
  BY <1>1 DEF DataInv, NodeOK
<1> QED
  BY <1>3, <1>4, <1>5 DEF DataInv

\* What Drop and UNCHANGED do to the pid in hand, as MoveData takes it.
LEMMA Hands ==
    ASSUME DataInv, NEW p \in Pid, NEW t \in Thread
    PROVE  /\ NoPid \in InHand /\ AnyPid \in InHand /\ Pid \subseteq InHand
           /\ hand[p][t] \in InHand
           /\ Drop(p, t) => hand' = [hand EXCEPT ![p][t] = NoPid]
           /\ UNCHANGED hand => hand' = [hand EXCEPT ![p][t] = hand[p][t]]
  BY DEF DataInv, DataOK, InHand, Drop

\* Leaving the list alone keeps it typed, and not empty where it must not be.
LEMMA SameList ==
    ASSUME DataInv, UNCHANGED childList, NEW p \in Pid
    PROVE  /\ childList' \in [Pid -> Seq(Pid)]
           /\ \A u \in Thread : pc[p][u] = "exitwait" => childList'[p] # <<>>
  BY DEF DataInv, DataOK, NodeOK

LEMMA KillPending ==
    ASSUME DataInv, NEW q, Kill(q)
    PROVE  pending' \in [Pid -> BOOLEAN]
<1>1. pending \in [Pid -> BOOLEAN]
  BY DEF DataInv, DataOK
<1>2. pending' = [pending EXCEPT ![q] = TRUE] \/ pending' = pending
  BY DEF Kill
<1> QED
  BY <1>1, <1>2

\* A child's wait status is taken: the pid is a child's.
LEMMA WaitData ==
    ASSUME CtlInv, DataInv, NEW p \in Pid, NEW t \in Thread, NEW target, NEW c \in Pid,
           pc[p][t] \in {"user", "wait"},
           WaitReaps(p, t, target, c) \/ WaitFails(p, t, target)
    PROVE  DataInv'
<1>1. {"reaped", "dying"} \subseteq PCs
  BY LabelsAre
<1>2. UNCHANGED <<parent, childList, pending>>
  BY DEF WaitReaps, WaitFails
<1>3. /\ parent' \in [Pid -> Pid \cup {NoPid}] /\ pending' \in [Pid -> BOOLEAN]
  BY <1>2 DEF DataInv, DataOK
<1>4. CASE WaitReaps(p, t, target, c)
  <2>1. Goto(p, t, "reaped") /\ hand' = [hand EXCEPT ![p][t] = c] /\ c \in InHand
    BY <1>4, Hands DEF WaitReaps
  <2> QED
    BY <1>1, <1>2, <1>3, <2>1, MoveData, SameList
<1>5. CASE WaitFails(p, t, target)
  <2>1. Goto(p, t, "dying") /\ hand' = [hand EXCEPT ![p][t] = NoPid] /\ NoPid \in InHand
    BY <1>5, Hands DEF WaitFails
  <2>2. "dying" \notin Handy
    BY DEF Handy
  <2> QED
    BY <1>1, <1>2, <1>3, <2>1, <2>2, MoveData, SameList
<1> QED
  BY <1>4, <1>5

\* Where else a thread goes, carrying nothing of importance.
Elsewhere == PCs \ (Handy \cup {"exitwait"})

LEMMA ElsewhereAre ==
    /\ {"user", "crit", "spawn", "wait", "dying", "exit", "freed", "sigwait"} \subseteq Elsewhere
    /\ Elsewhere \subseteq PCs /\ \A l \in Elsewhere : l \notin Handy /\ l # "exitwait"
  BY DEF Elsewhere, Handy, PCs, Holding, Forking, Exiting

LEMMA ElsewhereData ==
    ASSUME CtlInv, DataInv, NEW p \in Pid, NEW t \in Thread, NEW l \in Elsewhere,
           Goto(p, t, l), Drop(p, t) \/ UNCHANGED hand,
           UNCHANGED <<parent, childList>>, pending' \in [Pid -> BOOLEAN]
    PROVE  DataInv'
<1>1. l \in PCs /\ l \notin Handy /\ l # "exitwait"
  BY ElsewhereAre
<1>2. parent' \in [Pid -> Pid \cup {NoPid}] /\ UNCHANGED childList
  BY DEF DataInv, DataOK
<1>3. \E h \in InHand : hand' = [hand EXCEPT ![p][t] = h]
  BY Hands
<1> QED
  BY <1>1, <1>2, <1>3, SameList, MoveData

\* The actions that leave the tree, the lists and the signals alone.
LEMMA PlainData ==
    ASSUME CtlInv, DataInv, NEW p \in Pid, NEW t \in Thread,
           \/ SysInit(p, t) \/ Lock(p, t) \/ Unlock(p, t) \/ Exit(p, t)
           \/ ForkFails(p, t) \/ UndoWait(p, t)
           \/ ReapedNotFound(p, t) \/ ExitLock(p, t) \/ FreeState(p, t)
           \/ \E u \in User : SpawnThread(p, t, u)
    PROVE  DataInv'
<1>1. /\ \E u \in Thread : \E l \in {"user", "crit", "spawn", "dying", "exit", "freed"} :
            Goto(p, u, l) /\ (Drop(p, u) \/ UNCHANGED hand)
      /\ UNCHANGED <<parent, childList, pending>>
  <2>1. User \subseteq Thread
    BY DEF Thread
  <2> QED
    BY <2>1 DEF SysInit, Lock, Unlock, Exit, ForkFails, UndoWait, ReapedNotFound,
                ExitLock, FreeState, SpawnThread
<1>2. pending' \in [Pid -> BOOLEAN]
  BY <1>1 DEF DataInv, DataOK
<1> QED
  BY <1>1, <1>2, ElsewhereAre, ElsewhereData

LEMMA SpawnSigData ==
    ASSUME CtlInv, DataInv, NEW p \in Pid, NEW t \in Thread, SpawnSig(p, t)
    PROVE  DataInv'
<1>1. UNCHANGED <<parent, childList, pending, hand>>
  BY DEF SpawnSig
<1>2. CASE Goto(p, t, "dying")
  BY <1>1, <1>2, ElsewhereAre, ElsewhereData DEF DataInv, DataOK
<1>3. CASE pc' = [pc EXCEPT ![p] = [@ EXCEPT ![t] = "user", ![Sig] = "sigwait"]]
  <2>1. \A q \in Pid : \A u \in Thread :
           pc'[q][u] = pc[q][u] \/ pc'[q][u] \in {"user", "sigwait"}
    BY <1>3 DEF CtlInv, CtlOK
  <2>2. DataOK'
    BY <1>1 DEF DataInv, DataOK
  <2>3. HandOK' /\ NodeOK'
    BY <1>1, <2>1 DEF DataInv, HandOK, NodeOK, Handy
  <2> QED
    BY <2>2, <2>3 DEF DataInv
<1> QED
  BY <1>2, <1>3 DEF SpawnSig

\* The child begins with a copy of its parent's list, and nothing in hand.
LEMMA SafeForkData ==
    ASSUME CtlInv, DataInv, NEW p \in Pid, NEW t \in Thread, NEW c \in Pid,
           SafeFork(p, t, c)
    PROVE  DataInv'
<1>1. /\ c # p
      /\ parent' = [parent EXCEPT ![c] = p]
      /\ childList' = [childList EXCEPT ![c] = childList[p]]
      /\ pending' = [pending EXCEPT ![c] = FALSE]
      /\ pc' = [pc EXCEPT ![p][t] = "forked", ![c] = [Nowhere EXCEPT ![t] = "prep"]]
      /\ hand' = [hand EXCEPT ![p][t] = c, ![c] = EmptyHanded]
  BY DEF SafeFork, At, Free
<1>2. Nowhere \in [Thread -> PCs] /\ EmptyHanded \in [Thread -> InHand]
  BY LabelsAre DEF Nowhere, EmptyHanded, InHand
<1>3. parent' \in [Pid -> Pid \cup {NoPid}] /\ childList' \in [Pid -> Seq(Pid)]
  BY <1>1 DEF DataInv, DataOK
<1>4. pending' \in [Pid -> BOOLEAN]
  BY <1>1 DEF DataInv, DataOK
<1>5. /\ hand' \in [Pid -> [Thread -> InHand]]
      /\ \A q \in Pid : \A u \in Thread : q # c =>
            hand'[q][u] = IF q = p /\ u = t THEN c ELSE hand[q][u]
  BY <1>1, <1>2 DEF DataInv, DataOK, InHand
<1>6. \A q \in Pid : \A u \in Thread :
         pc'[q][u] = IF q = c THEN IF u = t THEN "prep" ELSE "absent"
                     ELSE IF q = p /\ u = t THEN "forked" ELSE pc[q][u]
  BY <1>1, <1>2 DEF CtlInv, CtlOK, Nowhere
<1>7. DataOK'
  BY <1>3, <1>4, <1>5 DEF DataOK, InHand
<1>8. {"prep", "absent"} \cap Handy = {}
  BY DEF Handy
<1>9. HandOK'
  <2> SUFFICES ASSUME NEW q \in Pid, NEW u \in Thread, pc'[q][u] \in Handy
               PROVE  hand'[q][u] \in Pid
    BY DEF HandOK, Handy
  <2>1. q # c
    BY <1>6, <1>8
  <2>2. CASE q = p /\ u = t
    BY <2>1, <2>2, <1>5
  <2>3. CASE ~ (q = p /\ u = t)
    <3>1. pc[q][u] \in Handy /\ hand'[q][u] = hand[q][u]
      BY <2>1, <2>3, <1>5, <1>6
    <3> QED
      BY <3>1 DEF DataInv, HandOK
  <2> QED
    BY <2>2, <2>3
<1>10. NodeOK'
  <2>1. \A q \in Pid : q # c => childList'[q] = childList[q]
    BY <1>1 DEF DataInv, DataOK
  <2> QED
    BY <2>1, <1>6 DEF DataInv, NodeOK
<1> QED
  BY <1>7, <1>9, <1>10 DEF DataInv

LEMMA AddChildFailsData ==
    ASSUME CtlInv, DataInv, NEW p \in Pid, NEW t \in Thread, AddChildFails(p, t)
    PROVE  DataInv'
<1>1. /\ pc[p][t] = "forked" /\ Goto(p, t, "undo") /\ "undo" \in PCs
      /\ Kill(hand[p][t]) /\ UNCHANGED <<parent, childList, hand>>
  BY LabelsAre DEF AddChildFails, At
<1>2. hand[p][t] \in Pid
  BY <1>1 DEF DataInv, HandOK, Handy
<1>3. pending' \in [Pid -> BOOLEAN]
  BY <1>1, KillPending
<1>4. parent' \in [Pid -> Pid \cup {NoPid}]
  BY <1>1 DEF DataInv, DataOK
<1> QED
  BY <1>1, <1>2, <1>3, <1>4, Hands, SameList, MoveData

\* The actions that change the list of the thread's own process: no other
\* thread is in ReapKilled meanwhile.
LEMMA ListData ==
    ASSUME CtlInv, DataInv, NEW p \in Pid, NEW t \in Thread, status[p] = "running",
           NEW l \in Elsewhere, Goto(p, t, l), Drop(p, t) \/ UNCHANGED hand,
           pc[p][t] \in Holding \/ mutex[p] = NoThread,
           NEW list \in Seq(Pid), childList' = [childList EXCEPT ![p] = list],
           UNCHANGED <<parent, pending>>
    PROVE  DataInv'
<1>1. l \in PCs /\ l \notin Handy /\ l # "exitwait"
  BY ElsewhereAre
<1>2. \A u \in Thread : u # t => pc[p][u] # "exitwait"
  BY Excluded, LabelsAre
<1>3. /\ childList' \in [Pid -> Seq(Pid)]
      /\ \A q \in Pid : q # p => childList'[q] = childList[q]
      /\ parent' \in [Pid -> Pid \cup {NoPid}]
  BY DEF DataInv, DataOK
<1>4. pending' \in [Pid -> BOOLEAN]
  BY DEF DataInv, DataOK
<1>5. PICK h \in InHand : hand' = [hand EXCEPT ![p][t] = h]
  BY Hands
<1>6. \A u \in Thread : u # t /\ pc[p][u] = "exitwait" => childList'[p] # <<>>
  BY <1>2
<1> QED
  BY <1>1, <1>3, <1>4, <1>5, <1>6, MoveData

LEMMA ListsOK == ASSUME DataInv, NEW p \in Pid PROVE childList[p] \in Seq(Pid)
  BY DEF DataInv, DataOK

LEMMA RemoveAtType ==
    ASSUME NEW s \in Seq(Pid), NEW i \in 1..Len(s)
    PROVE  RemoveAt(s, i) \in Seq(Pid)
<1>1. SubSeq(s, 1, i - 1) \in Seq(Pid) /\ SubSeq(s, i + 1, Len(s)) \in Seq(Pid)
  OBVIOUS
<1> QED
  BY <1>1 DEF RemoveAt

LEMMA ListActionsData ==
    ASSUME CtlInv, DataInv, NEW p \in Pid, NEW t \in Thread,
           \/ AddChild(p, t) \/ PrepareFromChild(p, t)
           \/ RemoveReaped(p, t) \/ ReapKilled(p, t)
    PROVE  DataInv'
<1>1. childList[p] \in Seq(Pid)
  BY ListsOK
<1>2. CASE AddChild(p, t)
  <2>1. hand[p][t] \in Pid
    BY <1>2 DEF AddChild, At, DataInv, HandOK, Handy
  <2>2. <<hand[p][t]>> \o childList[p] \in Seq(Pid)
    BY <1>1, <2>1
  <2>3. /\ status[p] = "running" /\ pc[p][t] \in Holding /\ "user" \in Elsewhere
        /\ Goto(p, t, "user") /\ Drop(p, t) /\ UNCHANGED <<parent, pending>>
        /\ childList' = [childList EXCEPT ![p] = <<hand[p][t]>> \o childList[p]]
    BY <1>2, LabelsAre, ElsewhereAre DEF AddChild, At
  <2> QED
    BY <2>2, <2>3, ListData
<1>3. CASE PrepareFromChild(p, t)
  <2>1. /\ status[p] = "running" /\ pc[p][t] \in Holding /\ "spawn" \in Elsewhere
        /\ Goto(p, t, "spawn") /\ UNCHANGED <<parent, pending, hand>>
        /\ childList' = [childList EXCEPT ![p] = <<>>]
    BY <1>3, LabelsAre, ElsewhereAre DEF PrepareFromChild, At
  <2>2. <<>> \in Seq(Pid)
    OBVIOUS
  <2> QED
    BY <2>1, <2>2, ListData
<1>4. CASE RemoveReaped(p, t)
  <2>1. PICK i \in 1..Len(childList[p]) :
           childList' = [childList EXCEPT ![p] = RemoveAt(@, i)]
    BY <1>4 DEF RemoveReaped
  <2>2. RemoveAt(childList[p], i) \in Seq(Pid)
    BY <1>1, RemoveAtType
  <2> QED
    BY <1>4, <2>1, <2>2, ListData, ElsewhereAre DEF RemoveReaped, At
<1>5. CASE ReapKilled(p, t)
  <2>1. childList[p] # <<>>
    BY <1>5 DEF ReapKilled, At, DataInv, NodeOK
  <2>2. Tail(childList[p]) \in Seq(Pid)
    BY <1>1, <2>1
  <2> QED
    BY <1>5, <2>2, ListData, ElsewhereAre, LabelsAre DEF ReapKilled, At
<1> QED
  BY <1>2, <1>3, <1>4, <1>5

LEMMA KillChildData ==
    ASSUME CtlInv, DataInv, NEW p \in Pid, NEW t \in Thread, KillChild(p, t)
    PROVE  DataInv'
<1>1. /\ Goto(p, t, "exitwait") /\ "exitwait" \in PCs /\ "exitwait" \notin Handy
      /\ childList[p] # <<>>
      /\ Kill(Head(childList[p])) /\ UNCHANGED <<parent, childList, hand>>
  BY LabelsAre DEF KillChild, Handy
<1>2. pending' \in [Pid -> BOOLEAN]
  BY <1>1, KillPending
<1>3. parent' \in [Pid -> Pid \cup {NoPid}]
  BY <1>1 DEF DataInv, DataOK
<1> QED
  BY <1>1, <1>2, <1>3, Hands, SameList, MoveData

LEMMA SafeWaitpidData ==
    ASSUME CtlInv, DataInv, NEW p \in Pid, NEW t \in Thread, NEW target \in Pid \cup {AnyPid},
           SafeWaitpid(p, t, target)
    PROVE  DataInv'
<1>1. /\ Goto(p, t, "wait") /\ "wait" \in PCs /\ "wait" \notin Handy
      /\ hand' = [hand EXCEPT ![p][t] = target] /\ target \in InHand
      /\ UNCHANGED <<parent, childList, pending>>
  BY LabelsAre DEF SafeWaitpid, Handy, InHand
<1>2. parent' \in [Pid -> Pid \cup {NoPid}] /\ pending' \in [Pid -> BOOLEAN]
  BY <1>1 DEF DataInv, DataOK
<1> QED
  BY <1>1, <1>2, SameList, MoveData

LEMMA ProcessExitData ==
    ASSUME CtlInv, DataInv, NEW p \in Pid, NEW t \in Thread, ProcessExit(p, t)
    PROVE  DataInv'
<1>1. /\ pc' = [pc EXCEPT ![p] = Nowhere] /\ hand' = [hand EXCEPT ![p] = EmptyHanded]
      /\ UNCHANGED <<parent, childList, pending>>
  BY DEF ProcessExit
<1>2. EmptyHanded \in [Thread -> InHand]
  BY DEF EmptyHanded, InHand
<1>3. /\ hand' \in [Pid -> [Thread -> InHand]]
      /\ \A q \in Pid : q # p => hand'[q] = hand[q]
  BY <1>1, <1>2 DEF DataInv, DataOK
<1>4. \A q \in Pid : \A u \in Thread :
         pc'[q][u] = IF q = p THEN "absent" ELSE pc[q][u]
  BY <1>1 DEF CtlInv, CtlOK, Nowhere
<1>5. DataOK'
  BY <1>1, <1>3 DEF DataInv, DataOK, InHand
<1>6. HandOK' /\ NodeOK'
  BY <1>1, <1>3, <1>4 DEF DataInv, HandOK, NodeOK, Handy
<1> QED
  BY <1>5, <1>6 DEF DataInv

LEMMA SignalData ==
    ASSUME CtlInv, DataInv, NEW p \in Pid, Interrupt(p) \/ SigThread(p) \/ SigwaitFails(p)
    PROVE  DataInv'
<1>1. pending \in [Pid -> BOOLEAN]
  BY DEF DataInv, DataOK
<1>2. CASE Interrupt(p)
  <2>1. pending' \in [Pid -> BOOLEAN] /\ UNCHANGED <<parent, childList, pc, hand>>
    BY <1>1, <1>2 DEF Interrupt
  <2> QED
    BY <2>1 DEF DataInv, DataOK, HandOK, NodeOK
<1>3. CASE SigThread(p) \/ SigwaitFails(p)
  <2>1. pending' \in [Pid -> BOOLEAN]
    BY <1>1, <1>3 DEF SigThread, SigwaitFails
  <2>2. Sig \in Thread
    BY DEF Thread
  <2> QED
    BY <1>3, <2>1, <2>2, ElsewhereAre, ElsewhereData DEF SigThread, SigwaitFails
<1> QED
  BY <1>2, <1>3

LEMMA DataStep == CtlInv /\ DataInv /\ [Next]_vars => DataInv'
<1> SUFFICES ASSUME CtlInv, DataInv, [Next]_vars PROVE DataInv'
  OBVIOUS
<1>1. CASE UNCHANGED vars
  BY <1>1 DEF vars, DataInv, DataOK, HandOK, NodeOK
<1>2. ASSUME NEW p \in Pid, Interrupt(p) \/ SigThread(p) \/ SigwaitFails(p) PROVE DataInv'
  BY <1>2, SignalData
<1>3. ASSUME NEW p \in Pid, NEW t \in User, Choice(p, t) PROVE DataInv'
  <2>1. t \in Thread
    BY DEF Thread
  <2>2. ASSUME NEW target, PollReturns(p, t, target) PROVE DataInv'
    BY <2>1, <2>2, WaitData DEF PollReturns, At, WaitFails
  <2> QED
    BY <1>3, <2>1, <2>2, PlainData, SafeForkData, SafeWaitpidData DEF Choice
<1>4. ASSUME NEW p \in Pid, NEW t \in Thread, Internal(p, t) PROVE DataInv'
  <2>1. WaitReturns(p, t) => DataInv'
    BY WaitData DEF WaitReturns, At
  <2> QED
    BY <1>4, <2>1, SpawnSigData, PlainData, ListActionsData, AddChildFailsData,
       KillChildData, ProcessExitData DEF Internal
<1>5. ASSUME NEW p \in Pid, NEW t \in Thread, Locking(p, t) PROVE DataInv'
  BY <1>5, PlainData, ListActionsData DEF Locking, SearchReaped
<1> QED
  BY <1>1, <1>2, <1>3, <1>4, <1>5 DEF Next, Done

\* The types of the variables: in particular, every pid in a list of children
\* is one, and the head of the list is never taken when there is none.
THEOREM TypeCorrect == Spec => []TypeOK
<1>1. CtlInv /\ DataInv => TypeOK
  BY DEF CtlInv, CtlOK, DataInv, DataOK, InHand, TypeOK
<1> QED
  BY InitCtl, CtlStep, InitData, DataStep, <1>1, PTL DEF Spec

============================================================================
