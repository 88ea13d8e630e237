------------------------------ MODULE ProcTree ------------------------------
(***************************************************************************)
(* What chsys promises about the processes of a program: they form a tree  *)
(* that is torn down from the leaves.  A process leaves only when it has   *)
(* no child, running or zombie, so nothing is ever left to init.  Module   *)
(* Sys implements this (MCSys, property Tree).                             *)
(***************************************************************************)
CONSTANTS Pid, Root, Recyclable, NoPid

VARIABLES status, parent

vars == <<status, parent>>

Init ==
    /\ status = [p \in Pid |-> IF p = Root THEN "running" ELSE "unused"]
    /\ parent = [p \in Pid |-> NoPid]

Unreaped(p) == {c \in Pid : parent[c] = p /\ status[c] \in {"running", "zombie"}}

\* A running process has a new child, under a pid nobody has.
Fork(p, c) ==
    /\ status[p] = "running"
    /\ status[c] = "unused" \/ (c \in Recyclable /\ status[c] = "reaped")
    /\ status' = [status EXCEPT ![c] = "running"]
    /\ parent' = [parent EXCEPT ![c] = p]

\* A process that has no child any more ends.
Leave(p) ==
    /\ status[p] = "running"
    /\ Unreaped(p) = {}
    /\ status' = [status EXCEPT ![p] = "zombie"]
    /\ UNCHANGED parent

\* Only a running parent takes its child's exit status.
Collect(p, c) ==
    /\ status[p] = "running"
    /\ parent[c] = p /\ status[c] = "zombie"
    /\ status' = [status EXCEPT ![c] = "reaped"]
    /\ UNCHANGED parent

Next == \E p \in Pid : Leave(p) \/ \E c \in Pid : Fork(p, c) \/ Collect(p, c)

Spec == Init /\ [][Next]_vars

=============================================================================
