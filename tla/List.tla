-------------------------------- MODULE List --------------------------------
(***************************************************************************)
(* list_t (chutil/list.h): a list behind a table of functions, list_impl_t,*)
(* which is that of the array list or of the linked list.  The program     *)
(* picks one when it makes the list; every call then goes through it.      *)
(***************************************************************************)
EXTENDS ArrayList, LinkedList

CONSTANTS ARRAY_LIST_IMPL, LINKED_LIST_IMPL

ASSUME ImplAssumption == ARRAY_LIST_IMPL # LINKED_LIST_IMPL

VARIABLE impl       \* l->impl

vars == <<impl, alState, llState, out>>

\* new_list: the state of the implementation that was not picked stands still.
Init ==
    /\ impl \in {ARRAY_LIST_IMPL, LINKED_LIST_IMPL}
    /\ AlInit /\ (impl = LINKED_LIST_IMPL => iterInd = 0)
    /\ LlInit /\ (impl = ARRAY_LIST_IMPL => iter = Null)

Next ==
    \/ impl = ARRAY_LIST_IMPL /\ AlNext /\ UNCHANGED <<impl, llState>>
    \/ impl = LINKED_LIST_IMPL /\ LlNext /\ UNCHANGED <<impl, alState>>

Spec == Init /\ [][Next]_vars

----------------------------------------------------------------------------
TypeOK == AlTypeOK /\ LlTypeOK

\* Either way it is a list: the program cannot tell which one it picked.
Cells == IF impl = ARRAY_LIST_IMPL THEN AlCells ELSE LlCells
Visit == IF impl = ARRAY_LIST_IMPL THEN AlVisit ELSE visited

ADT == INSTANCE ListADT WITH cells <- Cells, visit <- Visit

AnyList == ADT!Spec

=============================================================================
