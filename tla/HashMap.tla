------------------------------ MODULE HashMap ------------------------------
(***************************************************************************)
(* chutil/src/map.c: a hash map whose chains are singly linked lists.  A   *)
(* chain is the sequence of its nodes; hash_func and eq_func are the       *)
(* program's, as a function Hash on the keys and equality.                 *)
(***************************************************************************)
EXTENDS Integers, Sequences, FiniteSets, SequencesExt

CONSTANTS
    Key,            \* keys of key_size bytes each: there are finitely many
    Value, NoValue,
    Hash,           \* hash_func
    InitialCap,     \* 8 in the code ("arb choice")
    Nobody          \* the null iterator

ASSUME HashMapAssumption ==
    /\ IsFiniteSet(Key)
    /\ Hash \in [Key -> Nat]
    /\ InitialCap \in Nat \ {0}
    /\ NoValue \notin Value
    /\ Nobody \notin Key

HM_FILL_FACTOR == 2

VARIABLES
    numKeys,    \* hm->num_keys
    cap,        \* hm->chains_cap
    chains,     \* hm->chains, on 0..cap-1
    iterChain,  \* hm->iter_chain_ind, ...
    iter,       \* ... and hm->iter, as the key of the node it points to
    visited,    \* history: the keys the iterator has returned
    iterating,  \* history: is the iterator in use (see MapADT)?
    out         \* the pair the last operation found, as a set of at most one

vars == <<numKeys, cap, chains, iterChain, iter, visited, iterating, out>>

Node == [key : Key, val : Value]

TypeOK ==
    /\ numKeys \in Nat
    /\ cap \in Nat \ {0}
    /\ chains \in [0..(cap - 1) -> Seq(Node)]
    /\ iterChain \in Nat
    /\ iter \in Key \cup {Nobody}
    /\ visited \subseteq Key
    /\ iterating \in BOOLEAN
    /\ out \subseteq Key \X Value

\* new_hash_map.  It leaves the iterator as the memory was.
Init ==
    /\ numKeys = 0
    /\ cap = InitialCap
    /\ chains = [c \in 0..(InitialCap - 1) |-> <<>>]
    /\ iterChain = 0
    /\ iter \in Key \cup {Nobody}
    /\ visited = {}
    /\ iterating = FALSE
    /\ out = {}

\* The chain of a key in a table of n chains; and in the map's.
Slot(k, n) == Hash[k] % n
ChainInd(k) == Slot(k, cap)

\* The walk along the chain of k: the places of the nodes with that key.
Places(k) == {i \in DOMAIN chains[ChainInd(k)] : chains[ChainInd(k)][i].key = k}
First(places) == CHOOSE i \in places : \A j \in places : i <= j

NodeOf(k) == chains[ChainInd(k)][First(Places(k))]
Found(k) == IF Places(k) = {} THEN {} ELSE {<<k, NodeOf(k).val>>}

\* A node goes to the head of its chain, in a table of n chains.
AtHead(table, n, node) == [table EXCEPT ![Slot(node.key, n)] = <<node>> \o @]

\* The nodes of a chain move, from the first on, into such a table.
Moved(table, n, chain) ==
    LET after[j \in 0..Len(chain)] ==
          IF j = 0 THEN table ELSE AtHead(after[j - 1], n, chain[j])
    IN after[Len(chain)]

\* Mutant: the nodes are placed by the old capacity.
RehashOldCap(table, n) ==
    LET after[i \in 0..n] ==
          IF i = 0 THEN [c \in 0..(2 * n - 1) |-> <<>>]
                   ELSE Moved(after[i - 1], n, table[i - 1])
    IN after[n]

\* hm_check_resize: the nodes move, chain after chain, to a table of twice the
\* size.
Rehash(table, n) ==
    LET after[i \in 0..n] ==
          IF i = 0 THEN [c \in 0..(2 * n - 1) |-> <<>>]
                   ELSE Moved(after[i - 1], 2 * n, table[i - 1])
    IN after[n]

\* Mutant: the table may fill up.
CheckResizeLate(table, n) ==
    IF n <= cap
      THEN chains' = table /\ UNCHANGED cap
      ELSE chains' = Rehash(table, cap) /\ cap' = 2 * cap

CheckResize(table, n) ==
    IF n * HM_FILL_FACTOR <= cap
      THEN chains' = table /\ UNCHANGED cap
      ELSE chains' = Rehash(table, cap) /\ cap' = 2 * cap

----------------------------------------------------------------------------
HmPut(k, v) ==
    /\ IF Places(k) # {}
         THEN /\ chains' = [chains EXCEPT ![ChainInd(k)][First(Places(k))].val = v]
              /\ UNCHANGED <<numKeys, cap>>
         ELSE /\ numKeys' = numKeys + 1
              /\ CheckResize(AtHead(chains, cap, [key |-> k, val |-> v]), numKeys + 1)
    /\ iterating' = FALSE /\ visited' = {}
    /\ out' = {}
    /\ UNCHANGED <<iterChain, iter>>

HmGet(k) ==
    /\ out' = Found(k)
    /\ UNCHANGED <<numKeys, cap, chains, iterChain, iter, visited, iterating>>

\* Mutant: a key that was not there is discounted too.
HmRemoveAlways(k) ==
    /\ IF Places(k) = {}
         THEN UNCHANGED chains
         ELSE chains' = [chains EXCEPT ![ChainInd(k)] = RemoveAt(@, First(Places(k)))]
    /\ numKeys' = numKeys - 1
    /\ out' = Found(k)
    /\ iterating' = FALSE /\ visited' = {}
    /\ UNCHANGED <<cap, iterChain, iter>>

HmRemove(k) ==
    /\ IF Places(k) = {}
         THEN UNCHANGED <<numKeys, chains>>
         ELSE /\ chains' = [chains EXCEPT ![ChainInd(k)] = RemoveAt(@, First(Places(k)))]
              /\ numKeys' = numKeys - 1
    /\ out' = Found(k)
    /\ iterating' = FALSE /\ visited' = {}
    /\ UNCHANGED <<cap, iterChain, iter>>

\* Mutant: the search begins one chain too far on.
NonEmptyAfter(c) == {d \in (c + 1)..(cap - 1) : chains[d] # <<>>}

\* The first chain from c on that has a node, if there is one.
NonEmpty(c) == {d \in c..(cap - 1) : chains[d] # <<>>}

HmResetIterator ==
    /\ IF NonEmpty(0) = {}
         THEN iter' = Nobody /\ UNCHANGED iterChain
         ELSE iterChain' = First(NonEmpty(0)) /\ iter' = chains[First(NonEmpty(0))][1].key
    /\ iterating' = TRUE /\ visited' = {}
    /\ out' = {}
    /\ UNCHANGED <<numKeys, cap, chains>>

\* hm_next_kvp: on along the chain, or to the next chain that has a node.
HmNextKvp ==
    LET chain == chains[iterChain]
        place == CHOOSE i \in DOMAIN chain : chain[i].key = iter
        rest  == NonEmpty(iterChain + 1)
    IN /\ iterating /\ iter # Nobody
       /\ out' = {<<iter, chain[place].val>>}
       /\ \/ /\ place < Len(chain)
             /\ iter' = chain[place + 1].key
             /\ UNCHANGED iterChain
          \/ /\ place = Len(chain) /\ rest # {}
             /\ iterChain' = First(rest)
             /\ iter' = chains[First(rest)][1].key
          \/ /\ place = Len(chain) /\ rest = {}
             /\ iterChain' = cap
             /\ iter' = Nobody
       /\ visited' = visited \cup {iter}
       /\ UNCHANGED <<numKeys, cap, chains, iterating>>

HmExhausted ==
    /\ iterating /\ iter = Nobody
    /\ out' = {}
    /\ UNCHANGED <<numKeys, cap, chains, iterChain, iter, visited, iterating>>

\* delete_hash_map, every node of every chain; and new_hash_map for another.
DeleteHashMap ==
    /\ numKeys' = 0
    /\ cap' = InitialCap
    /\ chains' = [c \in 0..(InitialCap - 1) |-> <<>>]
    /\ iterChain' = 0
    /\ iter' \in Key \cup {Nobody}
    /\ visited' = {}
    /\ iterating' = FALSE
    /\ out' = {}

Next ==
    \/ DeleteHashMap
    \/ HmResetIterator \/ HmNextKvp \/ HmExhausted
    \/ \E k \in Key : HmGet(k) \/ HmRemove(k) \/ \E v \in Value : HmPut(k, v)

Spec == Init /\ [][Next]_vars

----------------------------------------------------------------------------
\* A node is in the chain its hash says, in the table of the present size, and
\* there is no other with its key: whatever resizes there were, a lookup finds
\* what was put.
RightChain ==
    \A c \in 0..(cap - 1) : \A i \in DOMAIN chains[c] :
       LET k == chains[c][i].key
       IN c = ChainInd(k) /\ Places(k) = {i}

\* The table is never more than half as full as it is long, so that chains
\* stay short.
LoadBounded ==
    /\ numKeys = Cardinality({k \in Key : Places(k) # {}})
    /\ numKeys * HM_FILL_FACTOR <= cap

\* The hash map is a map.
Contents == [k \in Key |-> IF Places(k) = {} THEN NoValue ELSE NodeOf(k).val]

ADT == INSTANCE MapADT WITH map <- Contents

Map == ADT!Spec

============================================================================
