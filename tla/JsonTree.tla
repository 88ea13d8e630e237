------------------------------ MODULE JsonTree ------------------------------
(***************************************************************************)
(* chjson/src/json.c: JSON trees on the heap, and what reads them:          *)
(* json_equals with hm_equals and l_equals, and the lookups.                *)
(*                                                                          *)
(* A block is a json_t together with its list or map, or a string_t; a map  *)
(* is its keys and its values, in no order that is relied on.  Lists, maps  *)
(* and strings behave as ListADT, MapADT and StringADT say.                 *)
(***************************************************************************)
EXTENDS Stream, FiniteSetsExt

CONSTANTS
    MaxAddr,    \* bound on the blocks allocated at a time
    HashSize    \* the hashes of a uint32_t

ASSUME JsonTreeAssumption == MaxAddr \in Nat \ {0} /\ HashSize \in Nat \ {0}

VARIABLES
    heap,    \* the blocks
    lost     \* history: the blocks to which hm_put overwrote the only pointer

Addr == 1..MaxAddr
NULL_JSON == 0      \* the static null value
None == -1          \* no pointer

JsonType == {"OBJECT", "LIST", "STRING", "NUMBER", "BOOLEAN"}

\* keys: the strings a block owns; kids: the values it owns; val: the
\* characters of a string, a number, or one bool (0 or 1).
Block(type, keys, kids, val) ==
    [type |-> type, keys |-> keys, kids |-> kids, val |-> val]
Free == Block("free", <<>>, <<>>, <<>>)
String(x) == Block("string", <<>>, <<>>, x)
JsonObject == Block("OBJECT", <<>>, <<>>, <<>>)
JsonList == Block("LIST", <<>>, <<>>, <<>>)
JsonString(s) == Block("STRING", <<s>>, <<>>, <<>>)
JsonNumber(n) == Block("NUMBER", <<>>, <<>>, n)
JsonBoolean(b) == Block("BOOLEAN", <<>>, <<>>, <<b>>)

Type(h, a) == IF a = NULL_JSON THEN "NULL" ELSE h[a].type

HeapTypeOK ==
    /\ DOMAIN heap = Addr
    /\ \A a \in Addr :
         /\ heap[a].type \in JsonType \cup {"string", "free"}
         /\ \A i \in DOMAIN heap[a].keys : heap[a].keys[i] \in Addr
         /\ \A i \in DOMAIN heap[a].kids : heap[a].kids[i] \in Addr \cup {NULL_JSON}
         /\ heap[a].type = "string" => heap[a].val \in Seq(Char)
         /\ heap[a].type = "OBJECT" => Len(heap[a].keys) = Len(heap[a].kids)
    /\ lost \subseteq Addr

HeapInit ==
    /\ heap = [a \in Addr |-> Free]
    /\ lost = {}

----------------------------------------------------------------------------
\* safe_malloc: any free address would do, and without one it ends the process.
HasRoom(h) == {a \in Addr : h[a] = Free} # {}
Fresh(h) == Min({a \in Addr : h[a] = Free})
New(h, block) == [h EXCEPT ![Fresh(h)] = block]

\* json_as_list and l_push.
ListPush(h, l, v) == [h EXCEPT ![l].kids = Append(@, v)]

\* What strcmp sees of a string, and s_hash.
CStr(x) ==
    LET nuls == {i \in DOMAIN x : x[i] = 0}
    IN IF nuls = {} THEN x
       ELSE SubSeq(x, 1, Min(nuls) - 1)

SHash(x) ==
    LET hash[n \in 0..Len(x)] ==
            IF n = 0 THEN 23 ELSE (hash[n - 1] * 31 + x[n]) % HashSize
    IN hash[Len(x)]

SEquals(x, y) == CStr(x) = CStr(y)

\* The pair that hm_put and hm_get find for a key with the characters x: none,
\* or the only one.
Matches(h, o, x) ==
    {i \in DOMAIN h[o].keys :
        LET y == h[h[o].keys[i]].val IN SHash(y) = SHash(x) /\ SEquals(y, x)}

\* json_as_object and hm_put: a key that is there keeps its string_t, and its
\* value is overwritten.
HmPut(h, o, k, v) ==
    LET found == Matches(h, o, h[k].val)
    IN IF found = {}
       THEN [h EXCEPT ![o].keys = Append(@, k), ![o].kids = Append(@, v)]
       ELSE [h EXCEPT ![o].kids = [i \in DOMAIN @ |-> IF i \in found THEN v ELSE @[i]]]

\* What nothing points to after hm_put: its key and the value before.
Overwritten(h, o, k) ==
    LET found == Matches(h, o, h[k].val)
    IN IF found = {} THEN {}
       ELSE ({k} \cup {h[o].kids[i] : i \in found}) \ {NULL_JSON}

\* The blocks of a tree, and the pointers in a block.
Parts(b) == {b.keys[i] : i \in DOMAIN b.keys} \cup {b.kids[i] : i \in DOMAIN b.kids}

Below(h, root) ==
    LET below[a \in Addr \cup {NULL_JSON}] ==
            IF a = NULL_JSON THEN {}
            ELSE {a} \cup UNION {below[b] : b \in Parts(h[a])}
    IN below[root]

\* A pointer, if it leads to a block, and where it is: in what kind of variable, of
\* which block, at which place; and those in blocks.
Pointer(kind, of, place, to) ==
    IF to \in Addr THEN {[kind |-> kind, of |-> of, place |-> place, to |-> to]} ELSE {}

Inside(h) ==
    (UNION {UNION {Pointer("key", a, i, h[a].keys[i]) : i \in DOMAIN h[a].keys} : a \in Addr})
    \cup (UNION {UNION {Pointer("kid", a, i, h[a].kids[i]) : i \in DOMAIN h[a].kids} : a \in Addr})

\* delete_json: the whole tree, but for null values; and delete_string.
DeleteJson(h, json) ==
    LET gone == Below(h, json)
    IN [a \in Addr |-> IF a \in gone THEN Free ELSE h[a]]
DeleteString(h, s) == [h EXCEPT ![s] = Free]

----------------------------------------------------------------------------
\* l_equals: two iterators in step; they are one and the same when a list is
\* compared with itself, and take turns at its cells.
LEquals(h, eq, a, b) ==
    LET x == h[a].kids
        y == h[b].kids
    IN IF a = b
       THEN \A i \in 1..Len(x) \div 2 : eq[<<x[2 * i - 1], x[2 * i]>>]
       ELSE Len(x) = Len(y) /\ \A i \in DOMAIN x : eq[<<x[i], y[i]>>]

\* Mutant: the numbers of keys are not compared.
HmEqualsUncounted(h, eq, a, b) ==
    \A i \in DOMAIN h[a].keys :
        \E j \in Matches(h, b, h[h[a].keys[i]].val) :
            eq[<<h[a].kids[i], h[b].kids[j]>>]

\* hm_equals: as many keys, and each value of the first map equal to the one
\* that hm_get finds in the second.
HmEquals(h, eq, a, b) ==
    /\ Len(h[a].keys) = Len(h[b].keys)
    /\ \A i \in DOMAIN h[a].keys :
         \E j \in Matches(h, b, h[h[a].keys[i]].val) :
            eq[<<h[a].kids[i], h[b].kids[j]>>]

\* json_equals.
ValuePairs == (Addr \cup {NULL_JSON}) \X (Addr \cup {NULL_JSON})

JsonEquals(h, json1, json2) ==
    LET eq[p \in ValuePairs] ==
            LET a == p[1]
                b == p[2]
            IN /\ Type(h, a) = Type(h, b)
               /\ CASE Type(h, a) = "OBJECT" -> HmEquals(h, eq, a, b)
                    [] Type(h, a) = "LIST" -> LEquals(h, eq, a, b)
                    [] Type(h, a) = "STRING" ->
                         SEquals(h[h[a].keys[1]].val, h[h[b].keys[1]].val)
                    [] Type(h, a) = "NULL" -> TRUE
                    [] OTHER -> h[a].val = h[b].val
    IN eq[<<json1, json2>>]

\* json_lookup_key and json_lookup_index (from 0); None is a null pointer.
JsonLookupKey(h, json, x) ==
    IF json = None \/ Type(h, json) # "OBJECT" \/ Matches(h, json, x) = {} THEN None
    ELSE h[json].kids[CHOOSE i \in Matches(h, json, x) : TRUE]

JsonLookupIndex(h, json, ind) ==
    IF json = None \/ Type(h, json) # "LIST" \/ Len(h[json].kids) <= ind THEN None
    ELSE h[json].kids[ind + 1]

============================================================================
