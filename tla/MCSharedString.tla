--------------------------- MODULE MCSharedString ---------------------------
(***************************************************************************)
(* SharedString with three strings: one more address than strings, which a *)
(* change needs for a moment, and room for two resizes under MaxLen.       *)
(***************************************************************************)
EXTENDS SharedString, TLC

CONSTANTS s1, s2, s3, a1, a2, a3, a4, null

Texts == {<<>>, <<1, 2>>}

Symmetric == Permutations(Handle) \cup Permutations(Addr)

============================================================================
