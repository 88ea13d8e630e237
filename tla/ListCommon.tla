----------------------------- MODULE ListCommon -----------------------------
(***************************************************************************)
(* What the two implementations of list_t share: the caller's side.        *)
(***************************************************************************)
CONSTANTS
    Value,      \* the contents of a cell
    NoValue     \* no cell at all: what an empty list hands out

ASSUME ValueAssumption == NoValue \notin Value

VARIABLE
    out         \* what the last operation handed to the caller

=============================================================================
