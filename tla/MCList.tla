------------------------------- MODULE MCList -------------------------------
(***************************************************************************)
(* List with two values.  MaxLen bounds the length of an array list (three *)
(* resizes fit under it), the nodes that of a linked list.                 *)
(***************************************************************************)
EXTENDS List, TLC

CONSTANTS v1, v2, none, junk, n1, n2, n3, n4, null, array, linked

\* The nodes are interchangeable.
Nodes == Permutations(Node)

============================================================================
