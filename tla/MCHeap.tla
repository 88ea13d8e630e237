------------------------------- MODULE MCHeap -------------------------------
(***************************************************************************)
(* Heap with a few values and priorities.  MaxLen bounds the length.       *)
(***************************************************************************)
EXTENDS Heap, TLC

CONSTANTS v1, v2, none, junk

\* The values are interchangeable: their priorities are not fixed.
Values == Permutations(Value)

============================================================================
