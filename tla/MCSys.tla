------------------------------- MODULE MCSys -------------------------------
(***************************************************************************)
(* Sys on a few processes and threads.  Pid bounds the number of forks; no *)
(* other bound is needed, since nothing else in the model grows.           *)
(***************************************************************************)
EXTENDS Sys, TLC

CONSTANTS p1, p2, p3, u1, u2, sig, nobody, nopid, anypid

\* Every call of sys.c that has an error path takes it now and then.
AllFaults == {"fork", "malloc", "thread", "sigmask", "sigwait"}

\* What a thread meets while others go on: a fork that must be undone, since there is
\* no memory for its list cell.
LiveFaults == {"malloc"}

\* The pids other than Root's are interchangeable.
ForkedPids == Permutations(Pid \ {Root})

\* The bound: three processes, or two threads in one of them, not both.
Bounded ==
    \/ \E p \in Pid : status[p] = "unused"
    \/ \A p \in Pid : \A u \in User \ {Main} : pc[p][u] = "absent"

\* The bound of the liveness run: Root alone has two threads.  All that it cuts off
\* is SpawnThread in a child, a step that no fairness asks for.
OneThreadBelow ==
    \A p \in Pid \ {Root} : \A t, u \in User :
       pc[p][t] # "absent" /\ pc[p][u] # "absent" => t = u

============================================================================
