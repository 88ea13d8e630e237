----------------------------- MODULE LinkedList -----------------------------
(***************************************************************************)
(* The linked list of chutil/src/list.c: nodes that point both ways, and   *)
(* pointers to the first and the last.  A node is named by its address, so *)
(* that a freed node can come back from malloc.                            *)
(***************************************************************************)
EXTENDS Integers, Sequences, ListCommon

CONSTANTS
    Node,      \* the addresses malloc can return; they bound the length
    Null,      \* the null pointer
    Index      \* the indexes with which the program calls ll_get and ll_set

ASSUME LinkedListAssumption ==
    /\ Null \notin Node
    /\ Index \subseteq Nat

VARIABLES
    alive,        \* the nodes that are allocated
    prev, next,   \* their pointers
    cell,         \* their contents; a new node's are written by ll_push
    first, last, llLen,
    iter,         \* ll->iter, of which the constructor makes nothing
    visited       \* history: cells visited since the reset; -1 when not iterating

llState == <<alive, prev, next, cell, first, last, llLen, iter, visited>>
llVars == <<alive, prev, next, cell, first, last, llLen, iter, visited, out>>

Pointer == Node \cup {Null}

LlTypeOK ==
    /\ alive \subseteq Node
    /\ prev \in [Node -> Pointer]
    /\ next \in [Node -> Pointer]
    /\ cell \in [Node -> Value \cup {NoValue}]
    /\ first \in Pointer /\ last \in Pointer
    /\ llLen \in Nat
    /\ iter \in Pointer
    /\ visited \in Nat \cup {-1}
    /\ out \in Value \cup {NoValue}

\* new_linked_list.
LlInit ==
    /\ alive = {}
    /\ prev = [n \in Node |-> Null]
    /\ next = [n \in Node |-> Null]
    /\ cell = [n \in Node |-> NoValue]
    /\ first = Null /\ last = Null
    /\ llLen = 0
    /\ iter \in Pointer
    /\ visited = -1
    /\ out = NoValue

LlPush(v, n) ==
    /\ n \notin alive
    /\ alive' = alive \cup {n}
    /\ prev' = [prev EXCEPT ![n] = last]
    /\ IF last # Null
         THEN next' = [next EXCEPT ![n] = Null, ![last] = n] /\ UNCHANGED first
         ELSE next' = [next EXCEPT ![n] = Null] /\ first' = n
    /\ last' = n
    /\ llLen' = llLen + 1
    /\ cell' = [cell EXCEPT ![n] = v]
    /\ visited' = -1
    /\ out' = NoValue
    /\ UNCHANGED iter

LlPop ==
    /\ llLen # 0
    /\ out' = cell[last]
    /\ last' = prev[last]
    /\ IF prev[last] # Null
         THEN next' = [next EXCEPT ![prev[last]] = Null] /\ UNCHANGED first
         ELSE first' = Null /\ UNCHANGED next
    /\ llLen' = llLen - 1
    /\ alive' = alive \ {last}
    /\ visited' = -1
    /\ UNCHANGED <<prev, cell, iter>>

\* Mutant: the new first node keeps its prev pointer.
LlPollKeepsPrev ==
    /\ llLen # 0
    /\ out' = cell[first]
    /\ first' = next[first]
    /\ IF next[first] # Null THEN UNCHANGED last ELSE last' = Null
    /\ llLen' = llLen - 1
    /\ alive' = alive \ {first}
    /\ visited' = -1
    /\ UNCHANGED <<prev, next, cell, iter>>

LlPoll ==
    /\ llLen # 0
    /\ out' = cell[first]
    /\ first' = next[first]
    /\ IF next[first] # Null
         THEN prev' = [prev EXCEPT ![next[first]] = Null] /\ UNCHANGED last
         ELSE last' = Null /\ UNCHANGED prev
    /\ llLen' = llLen - 1
    /\ alive' = alive \ {first}
    /\ visited' = -1
    /\ UNCHANGED <<next, cell, iter>>

\* Both return at once when the list is empty.
LlPopOrPollEmpty ==
    /\ llLen = 0
    /\ out' = NoValue
    /\ visited' = -1
    /\ UNCHANGED <<alive, prev, next, cell, first, last, llLen, iter>>

\* The node ll_get(i) stops at.  The loop goes on while i < cnt, and cnt
\* starts at 0: whatever i is, the loop never runs.
Find(i) ==
    LET step[p \in Pointer \X Nat] ==
          LET node == p[1]  cnt == p[2]
          IN IF node # Null /\ i < cnt THEN step[<<next[node], cnt + 1>>] ELSE node
    IN step[<<first, 0>>]

LlGet(i) ==
    /\ i < llLen
    /\ out' = cell[Find(i)]
    /\ UNCHANGED <<alive, prev, next, cell, first, last, llLen, iter, visited>>

LlSet(i, v) ==
    /\ i < llLen
    /\ cell' = [cell EXCEPT ![Find(i)] = v]
    /\ out' = NoValue
    /\ UNCHANGED <<alive, prev, next, first, last, llLen, iter, visited>>

LlResetIterator ==
    /\ iter' = first
    /\ visited' = 0
    /\ out' = NoValue
    /\ UNCHANGED <<alive, prev, next, cell, first, last, llLen>>

LlNextCell ==
    /\ visited # -1
    /\ IF iter # Null
         THEN out' = cell[iter] /\ iter' = next[iter] /\ visited' = visited + 1
         ELSE out' = NoValue /\ UNCHANGED <<iter, visited>>
    /\ UNCHANGED <<alive, prev, next, cell, first, last, llLen>>

\* delete_linked_list walks from a node to the next until there is none, and
\* frees each; and new_linked_list for another.
Freed[n \in Pointer] == IF n = Null THEN {} ELSE {n} \cup Freed[next[n]]

LlDelete ==
    /\ alive' = alive \ Freed[first]
    /\ first' = Null /\ last' = Null
    /\ llLen' = 0
    /\ iter' \in Pointer
    /\ visited' = -1
    /\ out' = NoValue
    /\ UNCHANGED <<prev, next, cell>>

LlNext ==
    \/ LlDelete
    \/ LlPop \/ LlPoll \/ LlPopOrPollEmpty \/ LlResetIterator \/ LlNextCell
    \/ \E v \in Value, n \in Node : LlPush(v, n)
    \/ \E i \in Index : LlGet(i) \/ \E v \in Value : LlSet(i, v)

LlSpec == LlInit /\ [][LlNext]_llVars

----------------------------------------------------------------------------
\* The i-th node, from 0, along the next pointers.
NodeAt[i \in Nat] == IF i = 0 THEN first ELSE next[NodeAt[i - 1]]

\* The chain from first has llLen nodes, the allocated ones, each once, and ends
\* at last with no next; the prev pointers lead back the same way.  So no
\* pointer that is still followed leads to a freed node.
WellLinked ==
    /\ llLen = 0 => first = Null /\ last = Null /\ alive = {}
    /\ llLen > 0 => /\ NodeAt[llLen - 1] = last
                  /\ next[last] = Null
                  /\ prev[first] = Null
    /\ {NodeAt[i] : i \in 0..(llLen - 1)} = alive
    /\ \A i, j \in 0..(llLen - 1) : NodeAt[i] = NodeAt[j] => i = j
    /\ \A i \in 1..(llLen - 1) : prev[NodeAt[i]] = NodeAt[i - 1]

\* What it holds, as a list.
LlCells == [i \in 1..llLen |-> cell[NodeAt[i - 1]]]

\* ll_get finds the cell it is asked for, as its callers expect ("l_get(l, 3)",
\* chutil/test/list.c:55, is meant to be the cell just pushed).
GetFindsCell == \A i \in Index : i < llLen => Find(i) = NodeAt[i]

============================================================================
