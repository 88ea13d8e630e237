----------------------------- MODULE MCHashMap -----------------------------
(***************************************************************************)
(* HashMap with four keys and a table of one chain to begin with, so that  *)
(* it doubles three times.  k1 and k2 have the same hash, k3 shares their  *)
(* chain except in the largest table, and k4 is in a chain before theirs,  *)
(* the next one in that table, or the very first.                          *)
(***************************************************************************)
EXTENDS HashMap, TLC

CONSTANTS k1, k2, k3, k4, v1, v2, none, nobody

Hashes == k1 :> 5 @@ k2 :> 5 @@ k3 :> 1 @@ k4 :> 4

============================================================================
