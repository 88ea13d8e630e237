------------------------------ MODULE ListADT ------------------------------
(***************************************************************************)
(* What chutil/list.h promises of a list_t, whichever list_impl_t is under *)
(* it: a sequence of cells with two ends, read and written by index, and   *)
(* an iterator that visits the cells in order.                             *)
(*                                                                         *)
(* The program iterates as the callers in chutil and chjson do: it resets  *)
(* the iterator and uses it until it pushes, pops or polls.                *)
(***************************************************************************)
EXTENDS Integers, Sequences

CONSTANTS Value, NoValue

VARIABLES
    cells,  \* the contents, first cell first
    visit,  \* how many cells the iterator has visited; -1 when it is not in use
    out     \* what the last operation handed to the caller, or NoValue

vars == <<cells, visit, out>>

Init ==
    /\ cells = <<>>
    /\ visit = -1
    /\ out = NoValue

Push(v) ==
    /\ cells' = Append(cells, v)
    /\ visit' = -1
    /\ out' = NoValue

\* Popping and polling an empty list hands out nothing.
Pop ==
    /\ IF cells = <<>>
         THEN out' = NoValue /\ UNCHANGED cells
         ELSE /\ out' = cells[Len(cells)]
              /\ cells' = SubSeq(cells, 1, Len(cells) - 1)
    /\ visit' = -1

Poll ==
    /\ IF cells = <<>>
         THEN out' = NoValue /\ UNCHANGED cells
         ELSE out' = Head(cells) /\ cells' = Tail(cells)
    /\ visit' = -1

\* Indexes count from 0.
Get(i) ==
    /\ i < Len(cells)
    /\ out' = cells[i + 1]
    /\ UNCHANGED <<cells, visit>>

Set(i, v) ==
    /\ i < Len(cells)
    /\ cells' = [cells EXCEPT ![i + 1] = v]
    /\ out' = NoValue
    /\ UNCHANGED visit

ResetIterator ==
    /\ visit' = 0
    /\ out' = NoValue
    /\ UNCHANGED cells

\* After the last cell the iterator says so, and goes on saying so.
NextCell ==
    /\ visit >= 0
    /\ IF visit < Len(cells)
         THEN out' = cells[visit + 1] /\ visit' = visit + 1
         ELSE out' = NoValue /\ UNCHANGED visit
    /\ UNCHANGED cells

\* The list is deleted, and the program makes another.
Renew ==
    /\ cells' = <<>>
    /\ visit' = -1
    /\ out' = NoValue

Next ==
    \/ Renew
    \/ Pop \/ Poll \/ ResetIterator \/ NextCell
    \/ \E v \in Value : Push(v)
    \/ \E i \in 0..(Len(cells) - 1) : Get(i) \/ \E v \in Value : Set(i, v)

Spec == Init /\ [][Next]_vars

============================================================================
