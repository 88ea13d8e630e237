------------------------------- MODULE MCMem -------------------------------
(***************************************************************************)
(* Mem with a few threads and blocks, and a SIZE_MAX that they reach.      *)
(***************************************************************************)
EXTENDS Mem, TLC

CONSTANTS t1, t2, b1, b2, b3, nobody, noblock

\* The blocks are interchangeable.
Blocks == Permutations(Block)

============================================================================
