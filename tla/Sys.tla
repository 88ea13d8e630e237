-------------------------------- MODULE Sys --------------------------------
(***************************************************************************)
(* chsys/src/sys.c: the system state every chlibs process keeps (a mutex,  *)
(* the list of its children, a thread that waits for SIGINT), and the four *)
(* calls that act on it: sys_init, safe_fork, safe_waitpid, safe_exit_p.   *)
(*                                                                         *)
(* The model is the whole tree of processes.  A step is one system call,   *)
(* or one stretch of code that no other thread can observe half done,      *)
(* because the thread holds sys_mut or touches only its own variables.     *)
(* The program's malloc accounting is the subject of module Mem.           *)
(*                                                                         *)
(* External to src/, and modelled from how sys.c uses them: fork, waitpid, *)
(* kill and the SIGINT pending on a process, pthread_create, the mutex.    *)
(***************************************************************************)
EXTENDS Integers, FiniteSets, Sequences, SequencesExt

CONSTANTS
    Pid,         \* process ids; each fork takes one, so they bound the forks
    Root,        \* the process that calls sys_init
    Recyclable,  \* the pids that the kernel gives out again once reaped
    User,        \* the threads that run the program's own code
    Main,        \* the one that calls sys_init
    Sig,         \* the thread that waits for SIGINT (sig_thread)
    NoThread,    \* "nobody holds the mutex"
    NoPid,       \* "no pid in hand"; also the parent of Root
    AnyPid,      \* the target of waitpid(-1, ..)
    Faults       \* the calls that may fail: "fork" "malloc" "thread" "sigmask" "sigwait"

ASSUME PidAssumption ==
    /\ Root \in Pid
    /\ Recyclable \subseteq Pid \ {Root}
    /\ NoPid \notin Pid
    /\ AnyPid \notin Pid \cup {NoPid}

ASSUME ThreadAssumption ==
    /\ IsFiniteSet(User)
    /\ Main \in User
    /\ Sig \notin User
    /\ NoThread \notin User \cup {Sig}

Thread == User \cup {Sig}

VARIABLES
    status,     \* of a process: "unused", "running", "zombie" or "reaped"
    parent,     \* the process that forked it
    ss,         \* the pointer ss: "null", "live" or "freed"
    mutex,      \* who holds sys_mut
    childList,  \* the pids of the nodes of ss->child_list not yet freed
    pending,    \* is a SIGINT pending?
    pc,         \* where each thread of each process is
    hand        \* the pid in a thread's local variable or argument

vars == <<status, parent, ss, mutex, childList, pending, pc, hand>>

(***************************************************************************)
(* Where a thread may be.  A thread in Holding has locked sys_mut.         *)
(*   absent    not created, or gone with its process                       *)
(*   user      in the program's own code                                   *)
(*   crit      in the program's own code, between sys_lock and sys_unlock  *)
(*   forked    safe_fork, in the parent, after fork()                      *)
(*   undo      safe_fork, in waitpid on the child it could not record      *)
(*   prep      safe_fork, in the child, before prepare_from_child          *)
(*   spawn     before spawn_sig_thread_p, in sys_init or in the child      *)
(*   wait      safe_waitpid, in waitpid                                    *)
(*   reaped    safe_waitpid, waiting for the lock with a reaped pid        *)
(*   dying     waiting for the lock in safe_exit_p(true) or log_fatal_p    *)
(*   exit      safe_exit_p, at the head of the loop over the children      *)
(*   exitwait  safe_exit_p, in waitpid on the child it has killed          *)
(*   freed     safe_exit_p, after free(ss)                                 *)
(*   sigwait   sig_thread, in sigwait                                      *)
(***************************************************************************)
Exiting == {"exit", "exitwait", "freed"}
Forking == {"forked", "undo"}
Holding == {"crit", "prep"} \cup Forking \cup Exiting
PCs == Holding \cup {"absent", "user", "spawn", "wait", "reaped", "dying", "sigwait"}

TypeOK ==
    /\ status \in [Pid -> {"unused", "running", "zombie", "reaped"}]
    /\ parent \in [Pid -> Pid \cup {NoPid}]
    /\ ss \in [Pid -> {"null", "live", "freed"}]
    /\ mutex \in [Pid -> Thread \cup {NoThread}]
    /\ childList \in [Pid -> Seq(Pid)]
    /\ pending \in [Pid -> BOOLEAN]
    /\ pc \in [Pid -> [Thread -> PCs]]
    /\ hand \in [Pid -> [Thread -> Pid \cup {NoPid, AnyPid}]]

----------------------------------------------------------------------------
Nowhere == [t \in Thread |-> "absent"]
EmptyHanded == [t \in Thread |-> NoPid]

Init ==
    /\ status = [p \in Pid |-> IF p = Root THEN "running" ELSE "unused"]
    /\ parent = [p \in Pid |-> NoPid]
    /\ ss = [p \in Pid |-> "null"]
    /\ mutex = [p \in Pid |-> NoThread]
    /\ childList = [p \in Pid |-> <<>>]
    /\ pending = [p \in Pid |-> FALSE]
    /\ pc = [p \in Pid |-> IF p = Root THEN [Nowhere EXCEPT ![Main] = "user"]
                                       ELSE Nowhere]
    /\ hand = [p \in Pid |-> EmptyHanded]

At(p, t, label) == status[p] = "running" /\ pc[p][t] = label
Goto(p, t, label) == pc' = [pc EXCEPT ![p][t] = label]
Drop(p, t) == hand' = [hand EXCEPT ![p][t] = NoPid]

MayFail(call) == call \in Faults

Children(p) == {c \in Pid : parent[c] = p}

\* Those that waitpid can still report.
Unreaped(p) == {c \in Children(p) : status[c] \in {"running", "zombie"}}

\* Those that a waitpid on target is about.
Waitable(p, target) == {c \in Unreaped(p) : target \in {c, AnyPid}}

\* pthread_mutex_lock and pthread_mutex_unlock on sys_mut.
Acquire(p, t) == mutex[p] = NoThread /\ mutex' = [mutex EXCEPT ![p] = t]
Release(p) == mutex' = [mutex EXCEPT ![p] = NoThread]

\* kill(q, SIGINT): a process that is gone, or a zombie, is not disturbed.
Kill(q) == pending' = IF status[q] = "running" THEN [pending EXCEPT ![q] = TRUE]
                                               ELSE pending

\* waitpid takes c's exit status: the kernel forgets c.
Reap(c) == status' = [status EXCEPT ![c] = "reaped"]

----------------------------------------------------------------------------
(* Starting a process, and its threads.                                    *)

\* sys_init.  A second call is fatal, and so is a SIGINT that cannot be blocked.
SysInit(p, t) ==
    /\ At(p, t, "user") /\ t \in User
    /\ \/ /\ ss[p] = "null"
          /\ ss' = [ss EXCEPT ![p] = "live"]
          /\ Goto(p, t, "spawn") \/ (MayFail("sigmask") /\ Goto(p, t, "dying"))
       \/ /\ ss[p] # "null"
          /\ Goto(p, t, "dying")
          /\ UNCHANGED ss
    /\ UNCHANGED <<status, parent, mutex, childList, pending, hand>>

\* Mutant: the signal thread is not started.
SpawnSigNot(p, t) ==
    /\ At(p, t, "spawn")
    /\ Goto(p, t, "user")
    /\ UNCHANGED <<status, parent, ss, mutex, childList, pending, hand>>

\* spawn_sig_thread_p(true), the last thing sys_init and a new child do.
SpawnSig(p, t) ==
    /\ At(p, t, "spawn")
    /\ \/ pc' = [pc EXCEPT ![p] = [@ EXCEPT ![t] = "user", ![Sig] = "sigwait"]]
       \/ MayFail("thread") /\ Goto(p, t, "dying")
    /\ UNCHANGED <<status, parent, ss, mutex, childList, pending, hand>>

\* The program starts a thread of its own, after sys_init.
SpawnThread(p, t, u) ==
    /\ At(p, t, "user") /\ ss[p] # "null"
    /\ u \in User /\ pc[p][u] = "absent"
    /\ Goto(p, u, "user")
    /\ UNCHANGED <<status, parent, ss, mutex, childList, pending, hand>>

\* sys_lock and sys_unlock, called by the program.
Lock(p, t) ==
    /\ At(p, t, "user") /\ ss[p] # "null"
    /\ Acquire(p, t)
    /\ Goto(p, t, "crit")
    /\ UNCHANGED <<status, parent, ss, childList, pending, hand>>

Unlock(p, t) ==
    /\ At(p, t, "crit")
    /\ Release(p)
    /\ Goto(p, t, "user")
    /\ UNCHANGED <<status, parent, ss, childList, pending, hand>>

----------------------------------------------------------------------------
(* safe_fork.                                                              *)

\* The kernel may hand out a pid that nobody has, or has any more.
Free(c) == status[c] = "unused" \/ (c \in Recyclable /\ status[c] = "reaped")

\* sys_lock_p and fork().  The child is a copy of p with one thread, the one
\* that called: it has ss, child_list and the mutex as t left them, locked.
SafeFork(p, t, c) ==
    /\ At(p, t, "user") /\ ss[p] # "null"
    /\ mutex[p] = NoThread
    /\ Free(c)
    /\ mutex' = [mutex EXCEPT ![p] = t, ![c] = t]
    /\ status' = [status EXCEPT ![c] = "running"]
    /\ parent' = [parent EXCEPT ![c] = p]
    /\ ss' = [ss EXCEPT ![c] = ss[p]]
    /\ childList' = [childList EXCEPT ![c] = childList[p]]
    /\ pending' = [pending EXCEPT ![c] = FALSE]
    /\ pc' = [pc EXCEPT ![p][t] = "forked", ![c] = [Nowhere EXCEPT ![t] = "prep"]]
    /\ hand' = [hand EXCEPT ![p][t] = c, ![c] = EmptyHanded]

\* fork() fails: log_fatal_p(false), with the lock held.
ForkFails(p, t) ==
    /\ At(p, t, "user") /\ ss[p] # "null"
    /\ MayFail("fork")
    /\ Acquire(p, t)
    /\ Goto(p, t, "exit")
    /\ UNCHANGED <<status, parent, ss, childList, pending, hand>>

\* Mutant: the local variable is cleared before the node is filled in.
AddChildCleared(p, t) ==
    /\ At(p, t, "forked")
    /\ Drop(p, t)
    /\ childList' = [childList EXCEPT ![p] = <<hand'[p][t]>> \o @]
    /\ Release(p)
    /\ Goto(p, t, "user")
    /\ UNCHANGED <<status, parent, ss, pending>>

\* Mutant: node->next is not set.
AddChildAlone(p, t) ==
    /\ At(p, t, "forked")
    /\ childList' = [childList EXCEPT ![p] = <<hand[p][t]>>]
    /\ Release(p)
    /\ Goto(p, t, "user")
    /\ Drop(p, t)
    /\ UNCHANGED <<status, parent, ss, pending>>

\* Mutant: safe_fork returns without unlocking.
AddChildLocked(p, t) ==
    /\ At(p, t, "forked")
    /\ childList' = [childList EXCEPT ![p] = <<hand[p][t]>> \o @]
    /\ Goto(p, t, "user")
    /\ Drop(p, t)
    /\ UNCHANGED <<status, parent, ss, mutex, pending>>

\* The parent puts the child at the head of its list and unlocks.
AddChild(p, t) ==
    /\ At(p, t, "forked")
    /\ childList' = [childList EXCEPT ![p] = <<hand[p][t]>> \o @]
    /\ Release(p)
    /\ Goto(p, t, "user")
    /\ Drop(p, t)
    /\ UNCHANGED <<status, parent, ss, pending>>

\* Mutant: the child that could not be recorded is killed, not waited for.
AddChildFailsNoWait(p, t) ==
    /\ At(p, t, "forked")
    /\ MayFail("malloc")
    /\ Kill(hand[p][t])
    /\ Goto(p, t, "exit")
    /\ Drop(p, t)
    /\ UNCHANGED <<status, parent, ss, mutex, childList>>

\* There is no memory for the node: the parent kills the child it cannot
\* record, waits for it, and exits.
AddChildFails(p, t) ==
    /\ At(p, t, "forked")
    /\ MayFail("malloc")
    /\ Kill(hand[p][t])
    /\ Goto(p, t, "undo")
    /\ UNCHANGED <<status, parent, ss, mutex, childList, hand>>

\* waitpid returns with the child, or at once if another thread reaped it.
UndoWait(p, t) ==
    LET c == hand[p][t]
    IN /\ At(p, t, "undo")
       /\ \/ c \in Unreaped(p) /\ status[c] = "zombie" /\ Reap(c)
          \/ c \notin Unreaped(p) /\ UNCHANGED status
       /\ Goto(p, t, "exit")
       /\ Drop(p, t)
       /\ UNCHANGED <<parent, ss, mutex, childList, pending>>

\* Mutant: the child keeps the lock it inherited.
PrepareFromChildLocked(c, t) ==
    /\ At(c, t, "prep")
    /\ childList' = [childList EXCEPT ![c] = <<>>]
    /\ Goto(c, t, "spawn")
    /\ UNCHANGED <<status, parent, ss, mutex, pending, hand>>

\* Mutant: the child keeps its copy of its parent's list.
PrepareFromChildListed(c, t) ==
    /\ At(c, t, "prep")
    /\ Release(c)
    /\ Goto(c, t, "spawn")
    /\ UNCHANGED <<status, parent, ss, childList, pending, hand>>

\* prepare_from_child: the child frees its copy of its parent's list, unlocks
\* its copy of the mutex, and goes on to start its own sig_thread.
PrepareFromChild(c, t) ==
    /\ At(c, t, "prep")
    /\ childList' = [childList EXCEPT ![c] = <<>>]
    /\ Release(c)
    /\ Goto(c, t, "spawn")
    /\ UNCHANGED <<status, parent, ss, pending, hand>>

----------------------------------------------------------------------------
(* safe_waitpid.  It calls waitpid without the lock.                       *)

\* A blocking call, on a child of p or on any child.
SafeWaitpid(p, t, target) ==
    /\ At(p, t, "user") /\ ss[p] # "null"
    /\ target \in Children(p) \cup {AnyPid}
    /\ Goto(p, t, "wait")
    /\ hand' = [hand EXCEPT ![p][t] = target]
    /\ UNCHANGED <<status, parent, ss, mutex, childList, pending>>

\* waitpid reaps c and returns its pid.
WaitReaps(p, t, target, c) ==
    /\ c \in Waitable(p, target) /\ status[c] = "zombie"
    /\ Reap(c)
    /\ Goto(p, t, "reaped")
    /\ hand' = [hand EXCEPT ![p][t] = c]
    /\ UNCHANGED <<parent, ss, mutex, childList, pending>>

\* There is no such child: waitpid returns -1, which is fatal.
WaitFails(p, t, target) ==
    /\ Waitable(p, target) = {}
    /\ Goto(p, t, "dying")
    /\ Drop(p, t)
    /\ UNCHANGED <<status, parent, ss, mutex, childList, pending>>

WaitReturns(p, t) ==
    /\ At(p, t, "wait")
    /\ \/ \E c \in Pid : WaitReaps(p, t, hand[p][t], c)
       \/ WaitFails(p, t, hand[p][t])

\* With WNOHANG the call never blocks: when no child has ended it returns 0,
\* and the step changes nothing.
PollReturns(p, t, target) ==
    /\ At(p, t, "user") /\ ss[p] # "null"
    /\ target \in Children(p) \cup {AnyPid}
    /\ \/ \E c \in Pid : WaitReaps(p, t, target, c)
       \/ WaitFails(p, t, target)

\* Mutant: the first node goes, whatever its pid.
RemoveReapedFirst(p, t) ==
    /\ At(p, t, "reaped")
    /\ mutex[p] = NoThread
    /\ childList[p] # <<>>
    /\ childList' = [childList EXCEPT ![p] = Tail(@)]
    /\ Goto(p, t, "user")
    /\ Drop(p, t)
    /\ UNCHANGED <<status, parent, ss, mutex, pending>>

\* With the lock, the thread takes the first node with that pid off the list.
RemoveReaped(p, t) ==
    /\ At(p, t, "reaped")
    /\ mutex[p] = NoThread
    /\ \E i \in 1..Len(childList[p]) :
          /\ childList[p][i] = hand[p][t]
          /\ \A j \in 1..(i - 1) : childList[p][j] # hand[p][t]
          /\ childList' = [childList EXCEPT ![p] = RemoveAt(@, i)]
    /\ Goto(p, t, "user")
    /\ Drop(p, t)
    /\ UNCHANGED <<status, parent, ss, mutex, pending>>

\* A pid that is not there is fatal: log_fatal_p(false), with the lock held.
ReapedNotFound(p, t) ==
    /\ At(p, t, "reaped")
    /\ Acquire(p, t)
    /\ Goto(p, t, "exit")
    /\ Drop(p, t)
    /\ UNCHANGED <<status, parent, ss, childList, pending>>

\* One search, and one of the two: ListAccurate says it is always the first.
SearchReaped(p, t) ==
    IF hand[p][t] \in ToSet(childList[p]) THEN RemoveReaped(p, t)
                                          ELSE ReapedNotFound(p, t)

----------------------------------------------------------------------------
(* safe_exit_p, which log_fatal_p calls too.                               *)

\* The program exits: it may hold the lock already, and then says so.
Exit(p, t) ==
    /\ \/ At(p, t, "user") /\ ss[p] # "null" /\ Goto(p, t, "dying")
       \/ At(p, t, "crit") /\ Goto(p, t, "exit")
    /\ UNCHANGED <<status, parent, ss, mutex, childList, pending, hand>>

ExitLock(p, t) ==
    /\ At(p, t, "dying")
    /\ Acquire(p, t)
    /\ Goto(p, t, "exit")
    /\ UNCHANGED <<status, parent, ss, childList, pending, hand>>

\* Mutant: the child is waited for, not killed.
KillChildNot(p, t) ==
    /\ At(p, t, "exit") /\ childList[p] # <<>>
    /\ Goto(p, t, "exitwait")
    /\ UNCHANGED <<status, parent, ss, mutex, childList, pending, hand>>

KillChild(p, t) ==
    /\ At(p, t, "exit") /\ childList[p] # <<>>
    /\ Kill(Head(childList[p]))
    /\ Goto(p, t, "exitwait")
    /\ UNCHANGED <<status, parent, ss, mutex, childList, hand>>

\* Mutant: the child is killed, not waited for.
ReapKilledNot(p, t) ==
    /\ At(p, t, "exitwait")
    /\ childList' = [childList EXCEPT ![p] = Tail(@)]
    /\ Goto(p, t, "exit")
    /\ UNCHANGED <<status, parent, ss, mutex, pending, hand>>

\* waitpid returns with the child, or at once if there is no such child; the
\* result is not looked at, and the node is freed.
ReapKilled(p, t) ==
    LET c == Head(childList[p])
    IN /\ At(p, t, "exitwait")
       /\ \/ c \in Unreaped(p) /\ status[c] = "zombie" /\ Reap(c)
          \/ c \notin Unreaped(p) /\ UNCHANGED status
       /\ childList' = [childList EXCEPT ![p] = Tail(@)]
       /\ Goto(p, t, "exit")
       /\ UNCHANGED <<parent, ss, mutex, pending, hand>>

\* Mutant: the lock is let go before exit.
FreeStateUnlock(p, t) ==
    /\ At(p, t, "exit") /\ childList[p] = <<>>
    /\ ss' = [ss EXCEPT ![p] = "freed"]
    /\ Release(p)
    /\ Goto(p, t, "freed")
    /\ UNCHANGED <<status, parent, childList, pending, hand>>

FreeState(p, t) ==
    /\ At(p, t, "exit") /\ childList[p] = <<>>
    /\ ss' = [ss EXCEPT ![p] = "freed"]
    /\ Goto(p, t, "freed")
    /\ UNCHANGED <<status, parent, mutex, childList, pending, hand>>

\* exit(status), with the lock held: every thread of p is gone.
ProcessExit(p, t) ==
    /\ At(p, t, "freed")
    /\ status' = [status EXCEPT ![p] = "zombie"]
    /\ pc' = [pc EXCEPT ![p] = Nowhere]
    /\ hand' = [hand EXCEPT ![p] = EmptyHanded]
    /\ UNCHANGED <<parent, ss, mutex, childList, pending>>

----------------------------------------------------------------------------
(* SIGINT.                                                                 *)

\* Somebody sends p a SIGINT.  From sys_init on every thread blocks it, and
\* so does every child, which inherits the mask.
Interrupt(p) ==
    /\ status[p] = "running" /\ ss[p] # "null" /\ ~ pending[p]
    /\ pending' = [pending EXCEPT ![p] = TRUE]
    /\ UNCHANGED <<status, parent, ss, mutex, childList, pc, hand>>

\* sig_thread: sigwait takes the signal; the process exits.
SigThread(p) ==
    /\ At(p, Sig, "sigwait") /\ pending[p]
    /\ pending' = [pending EXCEPT ![p] = FALSE]
    /\ Goto(p, Sig, "dying")
    /\ UNCHANGED <<status, parent, ss, mutex, childList, hand>>

\* sigwait fails, which is fatal.
SigwaitFails(p) ==
    /\ At(p, Sig, "sigwait") /\ MayFail("sigwait")
    /\ Goto(p, Sig, "dying")
    /\ UNCHANGED <<status, parent, ss, mutex, childList, pending, hand>>

----------------------------------------------------------------------------
\* What the program decides to do.
Choice(p, t) ==
    \/ SysInit(p, t) \/ Lock(p, t) \/ Exit(p, t) \/ ForkFails(p, t)
    \/ \E u \in User : SpawnThread(p, t, u)
    \/ \E c \in Pid : SafeFork(p, t, c)
    \/ \E target \in Pid \cup {AnyPid} :
          SafeWaitpid(p, t, target) \/ PollReturns(p, t, target)

\* What the code then does by itself, without taking the lock...
Internal(p, t) ==
    \/ SpawnSig(p, t) \/ Unlock(p, t)
    \/ AddChild(p, t) \/ AddChildFails(p, t) \/ UndoWait(p, t)
    \/ PrepareFromChild(p, t)
    \/ WaitReturns(p, t)
    \/ KillChild(p, t) \/ ReapKilled(p, t) \/ FreeState(p, t) \/ ProcessExit(p, t)

\* ... and where it must wait for the lock first.
Locking(p, t) == SearchReaped(p, t) \/ ExitLock(p, t)

\* Every process has exited.
Done ==
    /\ \A p \in Pid : status[p] # "running"
    /\ UNCHANGED vars

Next ==
    \/ \E p \in Pid :
          \/ Interrupt(p) \/ SigThread(p) \/ SigwaitFails(p)
          \/ \E t \in User : Choice(p, t)
          \/ \E t \in Thread : Internal(p, t) \/ Locking(p, t)
    \/ Done

Spec == Init /\ [][Next]_vars

\* The scheduler runs every thread that can run, a thread that waits for
\* sys_mut gets it sooner or later, and the program does not keep it for ever.
Fairness ==
    \A p \in Pid :
       /\ WF_vars(SigThread(p))
       /\ \A t \in Thread : WF_vars(Internal(p, t)) /\ SF_vars(Locking(p, t))

FairSpec == Spec /\ Fairness

----------------------------------------------------------------------------
(* What the code promises.                                                 *)

Running(p) == status[p] = "running"

\* sys_mut is held by exactly the thread that is between a lock and an unlock
\* of it; in a new child that is the thread that forked (sys.c:178-180).
LockDiscipline ==
    \A p \in Pid : Running(p) =>
       \A t \in Thread : pc[p][t] \in Holding <=> mutex[p] = t

\* Once safe_exit_p has freed ss, the lock is never let go ("We exit while
\* holding our lock!", sys.c:309), so that no thread can look at ss again.
NoUseAfterFree ==
    \A p \in Pid : Running(p) /\ ss[p] = "freed" =>
       \E t \in Thread : mutex[p] = t /\ pc[p][t] = "freed"

\* A child that is not reaped is in its parent's list, or in the hands of the
\* thread that has just forked it and holds the lock; safe_exit_p, which only
\* looks at the list, misses none.
ChildrenTracked ==
    \A p \in Pid : Running(p) =>
       \A c \in Unreaped(p) :
          \/ c \in ToSet(childList[p])
          \/ \E t \in Thread : pc[p][t] \in Forking /\ hand[p][t] = c

\* A process that has exited leaves no child behind, running or unreaped.
NoOrphans ==
    \A p \in Pid : status[p] \in {"zombie", "reaped"} => Unreaped(p) = {}

\* Outside safe_exit_p, pid by pid, the list holds one node for every child
\* that is not reaped and every thread that still has to take off the one it
\* reaped, less the child that a forking thread has yet to put there.  Hence
\* "Reaped child not found in child list" (sys.c:265) is never logged.
ListAccurate ==
    \A p \in Pid :
       (/\ Running(p)
        /\ \A t \in Thread : pc[p][t] \notin Exiting \cup {"prep"})
       => \A c \in Pid :
             LET nodes   == {i \in 1..Len(childList[p]) : childList[p][i] = c}
                 forkers == {t \in Thread : pc[p][t] \in Forking /\ hand[p][t] = c}
                 reapers == {t \in Thread : pc[p][t] = "reaped" /\ hand[p][t] = c}
             IN Cardinality(nodes) + Cardinality(forkers)
                   = Cardinality(reapers) + Cardinality(Unreaped(p) \cap {c})

\* safe_exit_p interrupts nobody but the process's own children, save for pids
\* that another of its threads has just reaped and not yet taken off the list.
KillsOnlyKnown ==
    \A p \in Pid : \A t \in Thread :
       At(p, t, "exit") /\ childList[p] # <<>> =>
          \/ parent[Head(childList[p])] = p
          \/ \E u \in Thread : pc[p][u] = "reaped" /\ hand[p][u] = Head(childList[p])

\* Without exception: what is killed is a child ("kill all children",
\* sys.c:290).  The exception makes this false once the kernel has given the
\* reaped pid to somebody else.
KillsOnlyOwn ==
    \A p \in Pid : \A t \in Thread :
       At(p, t, "exit") /\ childList[p] # <<>> => parent[Head(childList[p])] = p

\* A process that has been sent SIGINT ends, and its whole subtree with it
\* (NoOrphans), whatever its threads and its descendants are doing.
InterruptTerminates ==
    \A p \in Pid : pending[p] /\ Running(p) ~> ~ Running(p)

\* So does one that has called safe_exit_p or met a fatal error.
ExitTerminates ==
    \A p \in Pid : (\E t \in Thread : pc[p][t] \in Exiting \cup {"dying", "undo"})
                      ~> ~ Running(p)

\* A thread that has reaped a child gets to take it off the list, unless the
\* process exits first: safe_waitpid returns.
WaitReturnsPid ==
    \A p \in Pid : \A t \in User : At(p, t, "reaped") ~> ~ At(p, t, "reaped")

\* The processes behave as the tree of module ProcTree, whose variables status
\* and parent are this module's own.
PT == INSTANCE ProcTree

Tree == PT!Spec

============================================================================
