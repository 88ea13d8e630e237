----------------------------- MODULE JsonProofs -----------------------------
(***************************************************************************)
(* Proofs about Json and the modules it is built from.                      *)
(*                                                                          *)
(* First the trees of json.c: what each operation does to the owners of the *)
(* blocks.  Then the calls of the parser and the program that uses both:    *)
(* each block has one owner, whatever the program builds and wherever the   *)
(* parser fails, so that delete_json frees every block once and nothing is  *)
(* lost.  Then json_equals, what is left in the end, the lookups, and the   *)
(* encoding of characters, utf8.c.  Last the types: what the lexical        *)
(* functions and the writer's texts are, what each block holds, and that    *)
(* every step of the parser takes it closer to its return.                  *)
(***************************************************************************)
EXTENDS Json, NaturalsInduction, WellFoundedInduction, SequenceTheorems, FiniteSetTheorems, TLAPS

Ptr == Addr \cup {NULL_JSON}

LEMMA Constants == 0 \notin Addr /\ None \notin Ptr /\ NULL_JSON \notin Addr /\ Addr \subseteq Nat
  BY JsonTreeAssumption DEF Addr, Ptr, None, NULL_JSON

----------------------------------------------------------------------------
(* The blocks below a block. *)

PartsOK(h) == \A a \in Addr : Parts(h[a]) \subseteq Ptr

\* Every set of blocks has one with no part in the set.
Acyclic(h) == \A S \in SUBSET Addr : S # {} => \E a \in S : Parts(h[a]) \cap S = {}

Closed(h, S) == \A x \in S : Parts(h[x]) \subseteq S \cup {NULL_JSON}

\* What is in every closed set that has a.
Met(h, a) == {m \in Addr : \A S \in SUBSET Addr : Closed(h, S) /\ a \in S \cup {NULL_JSON} => m \in S}

LEMMA MetNext ==
    ASSUME NEW h, PartsOK(h), NEW a \in Addr
    PROVE  Met(h, a) = {a} \cup UNION {Met(h, b) : b \in Parts(h[a])}
<1> DEFINE T == {a} \cup UNION {Met(h, b) : b \in Parts(h[a])}
<1>1. T \in SUBSET Addr /\ a \in T
  BY DEF Met
<1>2. ASSUME NEW b \in Ptr, NEW x \in Met(h, b), NEW y \in Parts(h[x]), y # NULL_JSON
      PROVE  y \in Met(h, b)
  <2>1. y \in Addr
    BY <1>2, Constants DEF Met, PartsOK, Ptr
  <2>2. ASSUME NEW S \in SUBSET Addr, Closed(h, S), b \in S \cup {NULL_JSON} PROVE y \in S
    BY <1>2, <2>2 DEF Met, Closed
  <2> QED
    BY <2>1, <2>2 DEF Met
<1>3. ASSUME NEW b \in Parts(h[a]), b # NULL_JSON PROVE b \in Met(h, b)
  BY <1>3 DEF Met, PartsOK, Ptr
<1>4. Closed(h, T)
  <2>1. ASSUME NEW x \in T, NEW y \in Parts(h[x]), y # NULL_JSON PROVE y \in T
    <3>1. CASE x = a
      BY <1>3, <2>1, <3>1
    <3>2. CASE x # a
      <4>1. PICK b \in Parts(h[a]) : x \in Met(h, b)
        BY <3>2
      <4>2. b \in Ptr
        BY DEF PartsOK
      <4> QED
        BY <1>2, <2>1, <4>1, <4>2
    <3> QED
      BY <3>1, <3>2
  <2> QED
    BY <2>1 DEF Closed
<1>5. Met(h, a) \subseteq T
  BY <1>1, <1>4 DEF Met
<1>6. ASSUME NEW m \in T PROVE m \in Met(h, a)
  <2>1. ASSUME NEW S \in SUBSET Addr, Closed(h, S), a \in S \cup {NULL_JSON} PROVE m \in S
    <3>1. a \in S /\ Parts(h[a]) \subseteq S \cup {NULL_JSON}
      BY <2>1, Constants DEF Closed
    <3>2. CASE m # a
      <4>1. PICK b \in Parts(h[a]) : m \in Met(h, b)
        BY <1>6, <3>2
      <4> QED
        BY <2>1, <3>1, <4>1 DEF Met
    <3> QED
      BY <3>1, <3>2
  <2>2. m \in Addr
    BY <1>1, <1>6
  <2> QED
    BY <2>1, <2>2 DEF Met
<1> QED
  BY <1>5, <1>6

LEMMA MetNull == ASSUME NEW h PROVE Met(h, NULL_JSON) = {}
<1> SUFFICES ASSUME NEW m \in Met(h, NULL_JSON) PROVE FALSE
  OBVIOUS
<1>1. {} \in SUBSET Addr /\ Closed(h, {}) /\ NULL_JSON \in {} \cup {NULL_JSON}
  BY DEF Closed
<1> QED
  BY <1>1 DEF Met

\* The recursion that delete_json is has a result on every heap.
LEMMA BelowIs ==
    ASSUME NEW h, PartsOK(h)
    PROVE  \E below :
             /\ \A a \in Addr : below[a] = {a} \cup UNION {below[b] : b \in Parts(h[a])}
             /\ below[NULL_JSON] = {}
             /\ \A r : Below(h, r) = below[r]
<1> DEFINE Body(f) == [a \in Addr \cup {NULL_JSON} |->
                         IF a = NULL_JSON THEN {} ELSE {a} \cup UNION {f[b] : b \in Parts(h[a])}]
           G == [a \in Addr \cup {NULL_JSON} |-> Met(h, a)]
           below == CHOOSE f : f = Body(f)
<1>1. ASSUME NEW a \in Addr \cup {NULL_JSON}
      PROVE  Met(h, a) = IF a = NULL_JSON THEN {} ELSE {a} \cup UNION {G[b] : b \in Parts(h[a])}
  <2>1. CASE a = NULL_JSON
    BY <2>1, MetNull
  <2>2. CASE a # NULL_JSON
    <3>1. a \in Addr /\ Parts(h[a]) \subseteq Addr \cup {NULL_JSON}
      BY <2>2 DEF PartsOK, Ptr
    <3>2. \A b \in Parts(h[a]) : G[b] = Met(h, b)
      BY <3>1
    <3> HIDE DEF G
    <3>3. UNION {G[b] : b \in Parts(h[a])} = UNION {Met(h, b) : b \in Parts(h[a])}
      BY <3>2
    <3> QED
      BY <2>2, <3>1, <3>3, MetNext
  <2> QED
    BY <2>1, <2>2
<1>2. G = Body(G)
  BY <1>1
<1>3. \A r : Below(h, r) = below[r]
  BY DEF Below
<1> HIDE DEF G, Body
<1>4. below = Body(below)
  BY <1>2, Zenon
<1> HIDE DEF below
<1>5. \A a \in Addr : below[a] = {a} \cup UNION {below[b] : b \in Parts(h[a])}
  <2>1. ASSUME NEW a \in Addr PROVE below[a] = {a} \cup UNION {below[b] : b \in Parts(h[a])}
    <3>1. a # NULL_JSON
      BY Constants
    <3>2. Body(below)[a] = {a} \cup UNION {below[b] : b \in Parts(h[a])}
      BY <3>1 DEF Body
    <3> QED
      BY <1>4, <3>2, Zenon
  <2> QED
    BY <2>1
<1>6. below[NULL_JSON] = {}
  <2>1. Body(below)[NULL_JSON] = {}
    BY DEF Body
  <2> QED
    BY <1>4, <2>1, Zenon
<1> QED
  BY <1>3, <1>5, <1>6

\* What is below a block: itself, and with every block its parts; and each block
\* below it but itself is a part of another.
LEMMA BelowClosed ==
    ASSUME NEW h, PartsOK(h), Acyclic(h), NEW r \in Addr
    PROVE  /\ r \in Below(h, r) /\ Below(h, r) \subseteq Addr
           /\ \A x \in Below(h, r) : \A y \in Parts(h[x]) : y # NULL_JSON => y \in Below(h, r)
           /\ \A y \in Below(h, r) : y = r \/ \E x \in Below(h, r) : y \in Parts(h[x])
<1>1. PICK below :
             /\ \A a \in Addr : below[a] = {a} \cup UNION {below[b] : b \in Parts(h[a])}
             /\ below[NULL_JSON] = {}
             /\ \A a : Below(h, a) = below[a]
  BY BelowIs
<1> DEFINE Fine(a) ==
             /\ below[a] \subseteq Addr
             /\ \A x \in below[a] : \A y \in Parts(h[x]) : y # NULL_JSON => y \in below[a]
             /\ \A y \in below[a] : y = a \/ \E x \in below[a] : y \in Parts(h[x])
           bad == {a \in Addr : ~ Fine(a)}
<1>2. ASSUME NEW a \in Addr, \A b \in Parts(h[a]) : b # NULL_JSON => Fine(b)
      PROVE  Fine(a)
  <2>1. /\ a \in below[a]
        /\ \A b \in Parts(h[a]) : \A x \in below[b] : x \in below[a] /\ b # NULL_JSON
        /\ \A x \in below[a] : x = a \/ \E b \in Parts(h[a]) : x \in below[b]
    BY <1>1
  <2>2. \A b \in Parts(h[a]) : b # NULL_JSON => b \in below[b]
    BY <1>1 DEF PartsOK, Ptr
  <2>3. below[a] \subseteq Addr
    BY <1>2, <2>1
  <2>4. ASSUME NEW x \in below[a], NEW y \in Parts(h[x]), y # NULL_JSON PROVE y \in below[a]
    BY <1>2, <2>1, <2>2, <2>4
  <2>5. ASSUME NEW y \in below[a], y # a PROVE \E x \in below[a] : y \in Parts(h[x])
    <3>1. PICK b \in Parts(h[a]) : y \in below[b]
      BY <2>1, <2>5
    <3> QED
      BY <1>2, <2>1, <3>1
  <2> QED
    BY <2>3, <2>4, <2>5
<1> HIDE DEF Fine
<1>3. bad = {}
  <2>1. SUFFICES ASSUME bad # {} PROVE FALSE
    OBVIOUS
  <2>2. PICK a \in bad : Parts(h[a]) \cap bad = {}
    BY <2>1 DEF Acyclic
  <2>3. \A b \in Parts(h[a]) : b # NULL_JSON => Fine(b)
    BY <2>2 DEF PartsOK, Ptr
  <2> QED
    BY <1>2, <2>2, <2>3
<1>4. Fine(r) /\ r \in below[r]
  BY <1>1, <1>3
<1> QED
  BY <1>1, <1>4 DEF Fine

----------------------------------------------------------------------------
(* Owners.  A block has a row of keys and a row of kids. *)

Rows == {"key", "kid"}
Row(h, a, k) == IF k = "key" THEN h[a].keys ELSE h[a].kids
Dom(h, a, k) == DOMAIN Row(h, a, k)
At(h, a, k, i) == Row(h, a, k)[i]

Part(h, a, y) == \E k \in Rows : \E i \in Dom(h, a, k) : y = At(h, a, k, i)

LEMMA PartsAre == ASSUME NEW h, NEW a, NEW y PROVE y \in Parts(h[a]) <=> Part(h, a, y)
  BY DEF Parts, Part, Rows, Row, Dom, At

\* E is a set of pointers from outside: each of them, and each pointer in a block,
\* leads to a block that is not free, to which no other leads.
Exclusive(E, h) ==
    /\ \A e \in E : e.to \in Addr /\ h[e.to] # Free
    /\ \A e, f \in E : e.to = f.to => e = f
    /\ \A a \in Addr, k \in Rows : \A i \in Dom(h, a, k) :
         At(h, a, k, i) # NULL_JSON =>
            /\ h[At(h, a, k, i)] # Free
            /\ \A e \in E : e.to # At(h, a, k, i)
            /\ \A b \in Addr, l \in Rows : \A j \in Dom(h, b, l) :
                 At(h, b, l, j) = At(h, a, k, i) => b = a /\ l = k /\ j = i

Covered(E, h) ==
    \A a \in Addr : h[a] # Free =>
       \/ \E e \in E : e.to = a
       \/ \E b \in Addr, k \in Rows : \E i \in Dom(h, b, k) : At(h, b, k, i) = a

AllOwned(E, h) == PartsOK(h) /\ Exclusive(E, h) /\ Covered(E, h) /\ Acyclic(h)

LEMMA PartsOKIs ==
    ASSUME NEW h
    PROVE  PartsOK(h) <=> \A a \in Addr, k \in Rows : \A i \in Dom(h, a, k) : At(h, a, k, i) \in Ptr
<1>1. ASSUME PartsOK(h), NEW a \in Addr, NEW k \in Rows, NEW i \in Dom(h, a, k)
      PROVE  At(h, a, k, i) \in Ptr
  <2>1. At(h, a, k, i) \in Parts(h[a])
    BY PartsAre DEF Part
  <2> QED
    BY <1>1, <2>1 DEF PartsOK
<1>2. ASSUME \A a \in Addr, k \in Rows : \A i \in Dom(h, a, k) : At(h, a, k, i) \in Ptr,
             NEW a \in Addr, NEW y \in Parts(h[a])
      PROVE  y \in Ptr
  <2>0. Part(h, a, y)
    BY PartsAre
  <2>1. PICK k \in Rows : \E i \in Dom(h, a, k) : y = At(h, a, k, i)
    BY <2>0 DEF Part
  <2> QED
    BY <1>2, <2>1
<1> QED
  BY <1>1, <1>2 DEF PartsOK

LEMMA PointerIs ==
    ASSUME NEW k, NEW o, NEW i, NEW t
    PROVE  /\ t \in Addr => /\ Pointer(k, o, i, t) = {[kind |-> k, of |-> o, place |-> i, to |-> t]}
                            /\ [kind |-> k, of |-> o, place |-> i, to |-> t].to = t
           /\ t \notin Addr => Pointer(k, o, i, t) = {}
           /\ \A p \in Pointer(k, o, i, t) : p.to = t /\ p.kind = k
           /\ t \in Addr => \E p \in Pointer(k, o, i, t) : p.to = t
<1> DEFINE r == [kind |-> k, of |-> o, place |-> i, to |-> t]
<1>1. r.to = t /\ r.kind = k
  OBVIOUS
<1>2. Pointer(k, o, i, t) = IF t \in Addr THEN {r} ELSE {}
  BY DEF Pointer
<1> HIDE DEF r
<1>3. \A p \in Pointer(k, o, i, t) : p.to = t /\ p.kind = k
  BY <1>1, <1>2
<1>4. t \in Addr => \E p \in Pointer(k, o, i, t) : p.to = t
  BY <1>1, <1>2
<1> QED
  BY <1>1, <1>2, <1>3, <1>4 DEF r

\* The owner of a block hands it on.
LEMMA OwnMove ==
    ASSUME NEW E, NEW h, AllOwned(E, h), NEW k, NEW o, NEW i, NEW l, NEW p, NEW j, NEW t,
           Pointer(k, o, i, t) \subseteq E
    PROVE  AllOwned((E \ Pointer(k, o, i, t)) \cup Pointer(l, p, j, t), h)
<1> DEFINE F == (E \ Pointer(k, o, i, t)) \cup Pointer(l, p, j, t)
<1>1. CASE t \notin Addr
  BY <1>1, PointerIs
<1>2. CASE t \in Addr
  <2>1. PICK e \in E, f \in F : e.to = t /\ f.to = t /\ F = (E \ {e}) \cup {f}
    BY <1>2, PointerIs
  <2> HIDE DEF F
  <2>2. Exclusive(F, h)
    BY <1>2, <2>1 DEF AllOwned, Exclusive
  <2>3. Covered(F, h)
    BY <1>2, <2>1 DEF AllOwned, Covered
  <2> QED
    BY <2>2, <2>3 DEF AllOwned, F
<1> QED
  BY <1>1, <1>2

SameRow(h, g, a, k) == Dom(g, a, k) = Dom(h, a, k) /\ \A i \in Dom(h, a, k) : At(g, a, k, i) = At(h, a, k, i)
SameRows(h, g) == \A a \in Addr, k \in Rows : SameRow(h, g, a, k)
SameFree(h, g) == \A a \in Addr : g[a] = Free <=> h[a] = Free

LEMMA SameParts ==
    ASSUME NEW h, NEW g, SameRows(h, g)
    PROVE  /\ \A a \in Addr : Parts(g[a]) = Parts(h[a])
           /\ PartsOK(h) => PartsOK(g)
           /\ Acyclic(h) => Acyclic(g)
<1>1. ASSUME NEW a \in Addr PROVE Parts(g[a]) = Parts(h[a])
  <2>1. \A k \in Rows : Dom(g, a, k) = Dom(h, a, k) /\ \A i \in Dom(h, a, k) : At(g, a, k, i) = At(h, a, k, i)
    BY DEF SameRows, SameRow
  <2>2. ASSUME NEW y PROVE y \in Parts(g[a]) <=> y \in Parts(h[a])
    <3>1. Part(g, a, y) <=> Part(h, a, y)
      BY <2>1 DEF Part
    <3> QED
      BY <3>1, PartsAre
  <2> QED
    BY <2>2
<1> QED
  BY <1>1 DEF PartsOK, Acyclic

\* A new block without parts, and the pointer to it.
LEMMA OwnAlloc ==
    ASSUME NEW E, NEW h, NEW g, AllOwned(E, h), NEW f \in Addr, h[f] = Free, g[f] # Free,
           SameRows(h, g), \A a \in Addr : a # f => (g[a] = Free <=> h[a] = Free),
           NEW k, NEW o, NEW i
    PROVE  AllOwned(E \cup Pointer(k, o, i, f), g)
<1> DEFINE F == E \cup Pointer(k, o, i, f)
<1>1. PICK e : e.to = f /\ F = E \cup {e}
  BY PointerIs
<1> HIDE DEF F
<1>2. \A a \in Addr, l \in Rows : \A j \in Dom(h, a, l) : At(h, a, l, j) # f
  BY Constants DEF AllOwned, Exclusive
<1>3. Exclusive(F, g)
  BY <1>1, <1>2, PartsOKIs DEF AllOwned, Exclusive, SameRows, SameRow, Ptr
<1>4. Covered(F, g)
  BY <1>1 DEF AllOwned, Covered, SameRows, SameRow
<1> QED
  BY <1>3, <1>4, SameParts DEF AllOwned, F

\* g is h but for the place i in a row of x.
OnlyAt(h, g, x, k, i) ==
    \A a \in Addr, l \in Rows : \A j :
       \/ a = x /\ l = k /\ j = i
       \/ /\ j \in Dom(g, a, l) <=> j \in Dom(h, a, l)
          /\ j \in Dom(h, a, l) => At(g, a, l, j) = At(h, a, l, j)

\* Then x alone has other parts, and t alone is a new one.
OnlyPart(h, g, x, t) ==
    \A a \in Addr :
       /\ a # x => Parts(g[a]) = Parts(h[a])
       /\ \A y \in Parts(g[a]) : y \in Parts(h[a]) \/ y = t

LEMMA OnlyAtParts ==
    ASSUME NEW h, NEW g, NEW x, NEW k \in Rows, NEW i, OnlyAt(h, g, x, k, i)
    PROVE  OnlyPart(h, g, x, At(g, x, k, i))
<1> SUFFICES ASSUME NEW a \in Addr
             PROVE  /\ a # x => Parts(g[a]) = Parts(h[a])
                    /\ \A y \in Parts(g[a]) : y \in Parts(h[a]) \/ y = At(g, x, k, i)
  BY DEF OnlyPart
<1>1. ASSUME NEW y, a # x PROVE Part(g, a, y) <=> Part(h, a, y)
  BY <1>1 DEF Part, OnlyAt
<1>2. ASSUME NEW y, Part(g, a, y) PROVE Part(h, a, y) \/ y = At(g, x, k, i)
  BY <1>2 DEF Part, OnlyAt
<1> QED
  BY <1>1, <1>2, PartsAre

\* A block that is owned from outside becomes a part of another such block.
LEMMA OwnAttach ==
    ASSUME NEW E, NEW h, NEW g, AllOwned(E, h), NEW x \in Addr, NEW e \in E, e.to = x,
           NEW t \in Ptr, t # x, NEW l, NEW o, NEW j, Pointer(l, o, j, t) \subseteq E,
           NEW k \in Rows, NEW i, i \in Dom(h, x, k) => At(h, x, k, i) = NULL_JSON,
           OnlyAt(h, g, x, k, i), i \in Dom(g, x, k), At(g, x, k, i) = t, SameFree(h, g)
    PROVE  AllOwned(E \ Pointer(l, o, j, t), g)
<1>0. OnlyPart(h, g, x, At(g, x, k, i))
  BY OnlyAtParts
<1> DEFINE F == E \ Pointer(l, o, j, t)
<1>1. F \subseteq E /\ (\A f \in F : f.to # t) /\ (\A f \in E : f.to # t => f \in F)
  <2>1. ASSUME NEW f \in E PROVE f \in F <=> f.to # t
    <3>1. CASE t \in Addr
      BY <3>1, PointerIs DEF AllOwned, Exclusive
    <3>2. CASE t \notin Addr
      BY <3>2, PointerIs DEF AllOwned, Exclusive
    <3> QED
      BY <3>1, <3>2
  <2> QED
    BY <2>1
<1>1a. t # NULL_JSON => t \in Addr /\ \E f \in E : f.to = t
  BY PointerIs DEF Ptr
<1> HIDE DEF F
<1>2. PartsOK(g)
  BY <1>0 DEF OnlyPart, AllOwned, PartsOK
<1>3. \A a \in Addr : x \notin Parts(h[a])
  <2>1. ASSUME NEW a \in Addr PROVE ~ Part(h, a, x)
    BY Constants DEF Part, AllOwned, Exclusive
  <2> QED
    BY <2>1, PartsAre
<1>4. Acyclic(g)
  <2> SUFFICES ASSUME NEW S \in SUBSET Addr, S # {} PROVE \E a \in S : Parts(g[a]) \cap S = {}
    BY DEF Acyclic
  <2>1. CASE x \notin S
    <3>1. PICK a \in S : Parts(h[a]) \cap S = {}
      BY DEF AllOwned, Acyclic
    <3> QED
      BY <2>1, <3>1, <1>0 DEF OnlyPart
  <2>2. CASE S = {x}
    BY <1>3, <2>2, <1>0 DEF OnlyPart
  <2>3. CASE x \in S /\ S # {x}
    <3>1. S \ {x} \in SUBSET Addr /\ S \ {x} # {}
      BY <2>3
    <3>2. PICK a \in S \ {x} : Parts(h[a]) \cap (S \ {x}) = {}
      BY <3>1 DEF AllOwned, Acyclic
    <3>3. Parts(g[a]) = Parts(h[a]) /\ x \notin Parts(h[a])
      BY <1>3, <3>2, <1>0 DEF OnlyPart
    <3> QED
      BY <3>2, <3>3
  <2> QED
    BY <2>1, <2>2, <2>3
<1>5. Exclusive(F, g)
  <2>1. ASSUME NEW f \in F
        PROVE  f.to \in Addr /\ g[f.to] # Free /\ \A d \in F : f.to = d.to => f = d
    BY <1>1 DEF AllOwned, Exclusive, SameFree
  <2>2. ASSUME NEW a \in Addr, NEW m \in Rows, NEW n \in Dom(g, a, m), At(g, a, m, n) # NULL_JSON
        PROVE  /\ g[At(g, a, m, n)] # Free
               /\ \A f \in F : f.to # At(g, a, m, n)
               /\ \A b \in Addr, p \in Rows : \A q \in Dom(g, b, p) :
                    At(g, b, p, q) = At(g, a, m, n) => b = a /\ p = m /\ q = n
    <3>1. CASE a = x /\ m = k /\ n = i
      <4>1. At(g, a, m, n) = t /\ t \in Addr /\ \E f \in E : f.to = t
        BY <1>1a, <2>2, <3>1
      <4>2. g[t] # Free /\ \A f \in F : f.to # t
        BY <1>1, <4>1 DEF AllOwned, Exclusive, SameFree
      <4>3. ASSUME NEW b \in Addr, NEW p \in Rows, NEW q \in Dom(g, b, p), At(g, b, p, q) = t,
                   ~ (b = x /\ p = k /\ q = i)
            PROVE  FALSE
        <5>1. q \in Dom(h, b, p) /\ At(h, b, p, q) = t
          BY <4>3 DEF OnlyAt
        <5> QED
          BY <4>1, <5>1, Constants DEF AllOwned, Exclusive
      <4> QED
        BY <3>1, <4>1, <4>2, <4>3
    <3>2. CASE ~ (a = x /\ m = k /\ n = i)
      <4> DEFINE y == At(g, a, m, n)
      <4>1. n \in Dom(h, a, m) /\ At(h, a, m, n) = y
        BY <3>2 DEF OnlyAt
      <4>2. y \in Addr /\ h[y] # Free /\ \A f \in E : f.to # y
        BY <2>2, <4>1, PartsOKIs DEF AllOwned, Exclusive, Ptr
      <4>3. ASSUME NEW b \in Addr, NEW p \in Rows, NEW q \in Dom(g, b, p), At(g, b, p, q) = y
            PROVE  b = a /\ p = m /\ q = n
        <5>1. ~ (b = x /\ p = k /\ q = i)
          BY <1>1a, <2>2, <4>2, <4>3
        <5>2. q \in Dom(h, b, p) /\ At(h, b, p, q) = y
          BY <4>3, <5>1 DEF OnlyAt
        <5> QED
          BY <2>2, <4>1, <5>2 DEF AllOwned, Exclusive
      <4> QED
        BY <1>1, <4>2, <4>3 DEF SameFree
    <3> QED
      BY <3>1, <3>2
  <2> QED
    BY <2>1, <2>2 DEF Exclusive
<1>6. Covered(F, g)
  <2> SUFFICES ASSUME NEW a \in Addr, g[a] # Free
               PROVE  \/ \E f \in F : f.to = a
                      \/ \E b \in Addr, m \in Rows : \E n \in Dom(g, b, m) : At(g, b, m, n) = a
    BY DEF Covered
  <2>1. CASE a = t
    BY <2>1
  <2>2. CASE a # t /\ \E f \in E : f.to = a
    BY <1>1, <2>2
  <2>3. ASSUME NEW b \in Addr, NEW m \in Rows, NEW n \in Dom(h, b, m), At(h, b, m, n) = a
        PROVE  n \in Dom(g, b, m) /\ At(g, b, m, n) = a
    BY <2>3, Constants DEF OnlyAt
  <2> QED
    BY <2>1, <2>2, <2>3 DEF AllOwned, Covered, SameFree
<1> QED
  BY <1>2, <1>4, <1>5, <1>6 DEF AllOwned, F

\* A part of a block is taken from it.
LEMMA OwnDetach ==
    ASSUME NEW E, NEW h, NEW g, AllOwned(E, h), NEW x \in Addr, NEW k \in Rows, NEW i \in Dom(h, x, k),
           NEW t, At(h, x, k, i) = t, OnlyAt(h, g, x, k, i),
           At(g, x, k, i) = NULL_JSON, SameFree(h, g), NEW l, NEW o, NEW j
    PROVE  AllOwned(E \cup Pointer(l, o, j, t), g)
<1>0. OnlyPart(h, g, x, At(g, x, k, i))
  BY OnlyAtParts
<1> DEFINE F == E \cup Pointer(l, o, j, t)
<1>1. t \in Ptr
  BY PartsOKIs DEF AllOwned
<1>2. /\ \A f \in F : f \in E \/ (f.to = t /\ t \in Addr)
      /\ E \subseteq F
      /\ t \in Addr => \E f \in F : f.to = t
      /\ \A f, d \in F : f.to = t /\ d.to = t /\ f \notin E /\ d \notin E => f = d
  <2>1. CASE t \in Addr
    BY <2>1, PointerIs
  <2>2. CASE t \notin Addr
    <3>1. F = E
      BY <2>2, PointerIs
    <3> HIDE DEF F
    <3> QED
      BY <2>2, <3>1
  <2> QED
    BY <2>1, <2>2
<1> HIDE DEF F
<1>3. PartsOK(g)
  BY <1>0 DEF OnlyPart, AllOwned, PartsOK, Ptr
<1>4. Acyclic(g)
  <2> SUFFICES ASSUME NEW S \in SUBSET Addr, S # {} PROVE \E a \in S : Parts(g[a]) \cap S = {}
    BY DEF Acyclic
  <2>1. PICK a \in S : Parts(h[a]) \cap S = {}
    BY DEF AllOwned, Acyclic
  <2>2. \A y \in Parts(g[a]) : y \in Parts(h[a]) \/ y = NULL_JSON
    BY <1>0 DEF OnlyPart
  <2> QED
    BY <2>1, <2>2, Constants
<1>5. \A f \in E : f.to # t
  BY Constants DEF AllOwned, Exclusive
<1>6. t \in Addr => h[t] # Free
  BY Constants DEF AllOwned, Exclusive
<1>7. ASSUME NEW a \in Addr, NEW m \in Rows, NEW n \in Dom(g, a, m), At(g, a, m, n) # NULL_JSON
      PROVE  /\ ~ (a = x /\ m = k /\ n = i) /\ n \in Dom(h, a, m)
             /\ At(h, a, m, n) = At(g, a, m, n) /\ At(g, a, m, n) # t
  <2>1. ~ (a = x /\ m = k /\ n = i)
    BY <1>7
  <2>2. n \in Dom(h, a, m) /\ At(h, a, m, n) = At(g, a, m, n)
    BY <2>1 DEF OnlyAt
  <2> QED
    BY <1>7, <2>1, <2>2 DEF AllOwned, Exclusive
<1>8. Exclusive(F, g)
  <2>1. ASSUME NEW f \in F
        PROVE  f.to \in Addr /\ g[f.to] # Free /\ \A d \in F : f.to = d.to => f = d
    BY <1>2, <1>5, <1>6 DEF AllOwned, Exclusive, SameFree
  <2>2. ASSUME NEW a \in Addr, NEW m \in Rows, NEW n \in Dom(g, a, m), At(g, a, m, n) # NULL_JSON
        PROVE  /\ g[At(g, a, m, n)] # Free
               /\ \A f \in F : f.to # At(g, a, m, n)
               /\ \A b \in Addr, p \in Rows : \A q \in Dom(g, b, p) :
                    At(g, b, p, q) = At(g, a, m, n) => b = a /\ p = m /\ q = n
    <3> DEFINE y == At(g, a, m, n)
    <3>1. n \in Dom(h, a, m) /\ At(h, a, m, n) = y /\ y # t /\ y # NULL_JSON
      BY <1>7, <2>2
    <3>2. y \in Addr
      BY <3>1, PartsOKIs DEF AllOwned, Ptr
    <3> HIDE DEF y
    <3>3. h[y] # Free /\ \A f \in E : f.to # y
      BY <3>1 DEF AllOwned, Exclusive
    <3>4. ASSUME NEW b \in Addr, NEW p \in Rows, NEW q \in Dom(g, b, p), At(g, b, p, q) = y
          PROVE  b = a /\ p = m /\ q = n
      <4>1. q \in Dom(h, b, p) /\ At(h, b, p, q) = y
        BY <1>7, <3>1, <3>4
      <4> QED
        BY <3>1, <4>1 DEF AllOwned, Exclusive
    <3> QED
      BY <1>2, <3>1, <3>2, <3>3, <3>4 DEF SameFree, y
  <2> QED
    BY <2>1, <2>2 DEF Exclusive
<1>9. Covered(F, g)
  <2> SUFFICES ASSUME NEW a \in Addr, g[a] # Free
               PROVE  \/ \E f \in F : f.to = a
                      \/ \E b \in Addr, m \in Rows : \E n \in Dom(g, b, m) : At(g, b, m, n) = a
    BY DEF Covered
  <2>1. CASE a = t
    BY <1>2, <2>1
  <2>2. CASE \E f \in E : f.to = a
    BY <1>2, <2>2
  <2>3. ASSUME NEW b \in Addr, NEW m \in Rows, NEW n \in Dom(h, b, m), At(h, b, m, n) = a, a # t
        PROVE  n \in Dom(g, b, m) /\ At(g, b, m, n) = a
    BY <2>3 DEF OnlyAt
  <2> QED
    BY <2>1, <2>2, <2>3 DEF AllOwned, Covered, SameFree
<1> QED
  BY <1>3, <1>4, <1>8, <1>9 DEF AllOwned, F

\* A block that is owned from outside goes, with what is below it.
Tree(h, r, D) ==
    /\ r \in D
    /\ \A x \in D : \A y \in Parts(h[x]) : y # NULL_JSON => y \in D
    /\ \A y \in D : y = r \/ \E x \in D : y \in Parts(h[x])

Freed(h, g, D) == \A a \in Addr : g[a] = IF a \in D THEN Free ELSE h[a]

\* No pointer leads into D.
Away(E, h, D) ==
    /\ \A e \in E : e.to \in Addr \ D
    /\ \A a \in Addr \ D, k \in Rows : \A i \in Dom(h, a, k) : At(h, a, k, i) \notin D

LEMMA OwnFree ==
    ASSUME NEW E, NEW h, NEW g, AllOwned(E, h), NEW D \in SUBSET Addr, NEW r, Tree(h, r, D), Freed(h, g, D),
           NEW l, NEW o, NEW j, Pointer(l, o, j, r) \subseteq E
    PROVE  AllOwned(E \ Pointer(l, o, j, r), g) /\ Away(E \ Pointer(l, o, j, r), h, D)
<1> USE DEF Tree, Freed
<1> DEFINE F == E \ Pointer(l, o, j, r)
<1>1. PICK e \in E : e.to = r /\ F = E \ {e}
  BY PointerIs
<1> HIDE DEF F
<1>2. ASSUME NEW a \in Addr \ D, NEW k \in Rows, NEW i \in Dom(h, a, k) PROVE At(h, a, k, i) \notin D
  <2> SUFFICES ASSUME At(h, a, k, i) \in D PROVE FALSE
    OBVIOUS
  <2> DEFINE y == At(h, a, k, i)
  <2>1. y \in D /\ y # NULL_JSON
    BY Constants
  <2>2. y # r
    BY <1>1, <2>1 DEF AllOwned, Exclusive
  <2>3. PICK x \in D : y \in Parts(h[x])
    BY <2>1, <2>2
  <2>4. Part(h, x, y)
    BY <2>3, PartsAre
  <2>5. PICK m \in Rows : \E n \in Dom(h, x, m) : y = At(h, x, m, n)
    BY <2>4 DEF Part
  <2> QED
    BY <2>1, <2>5 DEF AllOwned, Exclusive
<1>3. ASSUME NEW f \in F PROVE f.to \in Addr \ D
  <2> SUFFICES ASSUME f.to \in D PROVE FALSE
    BY <1>1 DEF AllOwned, Exclusive
  <2>1. f.to # r
    BY <1>1 DEF AllOwned, Exclusive
  <2>2. PICK x \in D : f.to \in Parts(h[x])
    BY <2>1
  <2>3. Part(h, x, f.to)
    BY <2>2, PartsAre
  <2>4. PICK m \in Rows : \E n \in Dom(h, x, m) : f.to = At(h, x, m, n)
    BY <2>3 DEF Part
  <2> QED
    BY <1>1, <2>4, Constants DEF AllOwned, Exclusive
<1>4. ASSUME NEW a \in Addr, NEW k \in Rows
      PROVE  /\ a \in D => Dom(g, a, k) = {} /\ Parts(g[a]) = {} /\ g[a] = Free
             /\ a \notin D => Dom(g, a, k) = Dom(h, a, k) /\ Parts(g[a]) = Parts(h[a]) /\ g[a] = h[a]
             /\ a \notin D => \A i : At(g, a, k, i) = At(h, a, k, i)
  BY DEF Dom, At, Row, Parts, Free, Block
<1>5. PartsOK(g) /\ Acyclic(g)
  <2>1. \A a \in Addr : Parts(g[a]) \subseteq Parts(h[a])
    BY <1>4 DEF Rows
  <2> QED
    BY <2>1 DEF AllOwned, PartsOK, Acyclic
<1>6. Exclusive(F, g)
  <2>1. ASSUME NEW f \in F
        PROVE  f.to \in Addr /\ g[f.to] # Free /\ \A d \in F : f.to = d.to => f = d
    BY <1>1, <1>3 DEF AllOwned, Exclusive
  <2>2. ASSUME NEW a \in Addr, NEW m \in Rows, NEW n \in Dom(g, a, m), At(g, a, m, n) # NULL_JSON
        PROVE  /\ g[At(g, a, m, n)] # Free
               /\ \A f \in F : f.to # At(g, a, m, n)
               /\ \A b \in Addr, p \in Rows : \A q \in Dom(g, b, p) :
                    At(g, b, p, q) = At(g, a, m, n) => b = a /\ p = m /\ q = n
    <3>1. a \notin D /\ n \in Dom(h, a, m) /\ At(g, a, m, n) = At(h, a, m, n)
      BY <1>4, <2>2
    <3>2. At(h, a, m, n) \in Addr \ D
      BY <1>2, <2>2, <3>1, PartsOKIs DEF AllOwned, Ptr
    <3>3. \A b \in Addr, p \in Rows : \A q \in Dom(g, b, p) :
            b \notin D /\ q \in Dom(h, b, p) /\ At(g, b, p, q) = At(h, b, p, q)
      BY <1>4
    <3>4. g[At(h, a, m, n)] = h[At(h, a, m, n)]
      BY <3>2
    <3>5. h[At(h, a, m, n)] # Free /\ \A f \in F : f.to # At(h, a, m, n)
      BY <1>1, <2>2, <3>1 DEF AllOwned, Exclusive
    <3>6. ASSUME NEW b \in Addr, NEW p \in Rows, NEW q \in Dom(g, b, p), At(g, b, p, q) = At(g, a, m, n)
          PROVE  b = a /\ p = m /\ q = n
      <4>1. q \in Dom(h, b, p) /\ At(h, b, p, q) = At(h, a, m, n) /\ At(h, a, m, n) # NULL_JSON
        BY <2>2, <3>1, <3>3, <3>6
      <4> QED
        BY <3>1, <4>1 DEF AllOwned, Exclusive
    <3> QED
      BY <3>1, <3>4, <3>5, <3>6
  <2> QED
    BY <2>1, <2>2 DEF Exclusive
<1>7. Covered(F, g)
  <2> SUFFICES ASSUME NEW a \in Addr, g[a] # Free
               PROVE  \/ \E f \in F : f.to = a
                      \/ \E b \in Addr, m \in Rows : \E n \in Dom(g, b, m) : At(g, b, m, n) = a
    BY DEF Covered
  <2>1. a \notin D /\ h[a] # Free /\ a # NULL_JSON
    BY Constants
  <2>2. ASSUME NEW b \in Addr, NEW m \in Rows, NEW n \in Dom(h, b, m), At(h, b, m, n) = a
        PROVE  n \in Dom(g, b, m) /\ At(g, b, m, n) = a
    <3>1. Part(h, b, a)
      BY <2>2 DEF Part
    <3>2. a \in Parts(h[b])
      BY <3>1, PartsAre
    <3>3. b \notin D
      BY <2>1, <3>2
    <3> QED
      BY <1>4, <2>2, <3>3
  <2>3. CASE \E f \in E : f.to = a
    BY <1>1, <2>1, <2>3
  <2> QED
    BY <2>1, <2>2, <2>3 DEF AllOwned, Covered
<1> QED
  BY <1>2, <1>3, <1>5, <1>6, <1>7 DEF AllOwned, Away, F

----------------------------------------------------------------------------
(* What the blocks are like. *)

Types == JsonType \cup {"string", "free"}

ShapeOf(b) ==
    /\ b = Block(b.type, b.keys, b.kids, b.val)
    /\ b.type \in Types
    /\ b.keys \in Seq(Addr)
    /\ b.kids \in Seq(Ptr)
    /\ b.type \notin {"OBJECT", "STRING"} => b.keys = <<>>
    /\ b.type \notin {"OBJECT", "LIST"} => b.kids = <<>>
    /\ b.type = "OBJECT" => Len(b.keys) = Len(b.kids)

Shaped(h) == h = [a \in Addr |-> h[a]] /\ \A a \in Addr : ShapeOf(h[a])

\* No two keys of an object are the same to hm_get.
SameKey(x, y) == SHash(x) = SHash(y) /\ SEquals(x, y)
KeysApart(h) ==
    \A a \in Addr : \A i, j \in DOMAIN h[a].keys :
        SameKey(h[h[a].keys[i]].val, h[h[a].keys[j]].val) => i = j

Sound(E, h) == AllOwned(E, h) /\ Shaped(h) /\ KeysApart(h)

LEMMA Minimal ==
    ASSUME NEW S \in SUBSET Nat, S # {}
    PROVE  \E m \in S : \A n \in S : m <= n
<1> DEFINE R == OpToRel(<, Nat)
<1>1. PICK m \in S : \A n \in S : ~ (<<n, m>> \in R)
  BY NatLessThanWellFounded, WFMin
<1>2. \A n \in S : <<n, m>> \in R <=> n < m
  BY DEF OpToRel
<1> HIDE DEF R
<1>3. \A n \in S : ~ (n < m)
  BY <1>1, <1>2, Zenon
<1> QED
  BY <1>3

LEMMA FreshIs == ASSUME NEW h, HasRoom(h) PROVE Fresh(h) \in Addr /\ h[Fresh(h)] = Free
<1> DEFINE S == {a \in Addr : h[a] = Free}
<1>1. S \in SUBSET Nat /\ S # {}
  BY Constants DEF HasRoom
<1>2. PICK m \in S : \A n \in S : m <= n
  BY <1>1, Minimal
<1>3. Min(S) \in S
  BY <1>2 DEF Min
<1> QED
  BY <1>3 DEF Fresh

LEMMA BlockIs ==
    ASSUME NEW t, NEW k, NEW v, NEW x
    PROVE  /\ Block(t, k, v, x).type = t /\ Block(t, k, v, x).keys = k
           /\ Block(t, k, v, x).kids = v /\ Block(t, k, v, x).val = x
  BY DEF Block

LEMMA FreeIs == Free.type = "free" /\ Free.keys = <<>> /\ Free.kids = <<>> /\ ShapeOf(Free)
<1>1. <<>> \in Seq(Addr) /\ <<>> \in Seq(Ptr)
  OBVIOUS
<1> QED
  BY <1>1 DEF Free, Block, ShapeOf, Types

OnlyBlock(h, g, f, b) == \A a \in Addr : g[a] = IF a = f THEN b ELSE h[a]

\* A block without parts in the place of a free one.
LEMMA OwnNew ==
    ASSUME NEW E, NEW h, AllOwned(E, h), NEW f \in Addr, h[f] = Free, NEW g, NEW b, OnlyBlock(h, g, f, b),
           b.keys = <<>>, b.kids = <<>>, b.type # "free", NEW k, NEW o, NEW i
    PROVE  AllOwned(E \cup Pointer(k, o, i, f), g)
<1>1. b # Free
  BY FreeIs
<1>2. SameRows(h, g)
  BY FreeIs DEF SameRows, SameRow, Dom, At, Row, OnlyBlock
<1> QED
  BY <1>1, <1>2, OwnAlloc DEF OnlyBlock

\* Keys stay apart when their characters stay, and each object has the same.
LEMMA KeysStay ==
    ASSUME NEW E, NEW h, AllOwned(E, h), Shaped(h), KeysApart(h), NEW g,
           \A a \in Addr : \/ g[a].keys = h[a].keys
                            \/ \A i, j \in DOMAIN g[a].keys : i = j,
           \A a \in Addr : h[a] # Free => g[a].val = h[a].val
    PROVE  KeysApart(g)
<1> SUFFICES ASSUME NEW a \in Addr, NEW i \in DOMAIN g[a].keys, NEW j \in DOMAIN g[a].keys,
                    SameKey(g[g[a].keys[i]].val, g[g[a].keys[j]].val), g[a].keys = h[a].keys
             PROVE  i = j
  BY DEF KeysApart
<1>1. ASSUME NEW m \in DOMAIN h[a].keys PROVE g[h[a].keys[m]].val = h[h[a].keys[m]].val
  <2>1. h[a].keys[m] \in Addr
    BY DEF Shaped, ShapeOf
  <2>2. m \in Dom(h, a, "key") /\ At(h, a, "key", m) = h[a].keys[m] /\ "key" \in Rows
    BY DEF Dom, At, Row, Rows
  <2>3. h[h[a].keys[m]] # Free
    BY <2>1, <2>2, Constants DEF AllOwned, Exclusive
  <2> QED
    BY <2>1, <2>3
<1> QED
  BY <1>1 DEF KeysApart

\* What is owned from outside stays as it is, and is not at f.
SameTypes(h, g) == \A a \in Addr : g[a].type = h[a].type

Stay(E, h, g, f) == \A e \in E : e.to \in Addr /\ e.to # f /\ g[e.to] = h[e.to]

\* new_json_list and the like, and a string_t.
LEMMA NewIsSound ==
    ASSUME NEW E, NEW h, Sound(E, h), HasRoom(h),
           NEW t \in {"OBJECT", "LIST", "NUMBER", "BOOLEAN", "string"}, NEW v, NEW k, NEW o, NEW i
    PROVE  /\ Fresh(h) \in Addr
           /\ Sound(E \cup Pointer(k, o, i, Fresh(h)), New(h, Block(t, <<>>, <<>>, v)))
           /\ New(h, Block(t, <<>>, <<>>, v))[Fresh(h)] = Block(t, <<>>, <<>>, v)
           /\ Stay(E, h, New(h, Block(t, <<>>, <<>>, v)), Fresh(h))
<1> DEFINE f == Fresh(h)
           b == Block(t, <<>>, <<>>, v)
           g == New(h, b)
<1>1. f \in Addr /\ h[f] = Free
  BY FreshIs
<1>2. g = [a \in Addr |-> IF a = f THEN b ELSE h[a]]
  BY <1>1 DEF New, Sound, Shaped
<1> HIDE DEF f, g
<1>3. b.type = t /\ b.keys = <<>> /\ b.kids = <<>> /\ b.type # "free" /\ ShapeOf(b)
  <2>1. <<>> \in Seq(Addr) /\ <<>> \in Seq(Ptr)
    OBVIOUS
  <2>2. b.type = t /\ b.keys = <<>> /\ b.kids = <<>> /\ b.val = v
    BY BlockIs
  <2>3. b = Block(b.type, b.keys, b.kids, b.val)
    BY <2>2
  <2> HIDE DEF b
  <2> QED
    BY <2>1, <2>2, <2>3 DEF ShapeOf, Types, JsonType
<1> HIDE DEF b
<1>4. \A a \in Addr : g[a] = IF a = f THEN b ELSE h[a]
  BY <1>2
<1>5. AllOwned(E \cup Pointer(k, o, i, f), g) /\ Stay(E, h, g, f)
  <2>1. AllOwned(E, h) /\ OnlyBlock(h, g, f, b)
    BY <1>4 DEF Sound, OnlyBlock
  <2>2. AllOwned(E \cup Pointer(k, o, i, f), g)
    BY <1>1, <1>3, <2>1, OwnNew
  <2> QED
    BY <1>1, <1>4, <2>1, <2>2 DEF AllOwned, Exclusive, Stay
<1>6. Shaped(g)
  BY <1>2, <1>3, <1>4 DEF Sound, Shaped
<1>7. KeysApart(g)
  <2>1. \A a \in Addr : g[a].keys = h[a].keys
    BY <1>1, <1>3, <1>4, FreeIs
  <2>2. \A a \in Addr : h[a] # Free => g[a].val = h[a].val
    BY <1>1, <1>4
  <2> QED
    BY <2>1, <2>2, KeysStay DEF Sound
<1> QED
  BY <1>1, <1>4, <1>5, <1>6, <1>7 DEF Sound, b, f, g

\* json_t and string_t of a string.
LEMMA NewStringIsSound ==
    ASSUME NEW E, NEW h, Sound(E, h), NEW x, HasRoom(h), HasRoom(New(h, String(x))),
           NEW k, NEW o, NEW i
    PROVE  LET built == New(h, String(x))
               g == New(built, JsonString(Fresh(h)))
           IN /\ Fresh(built) \in Addr
              /\ Sound(E \cup Pointer(k, o, i, Fresh(built)), g)
              /\ g[Fresh(built)].type = "STRING"
              /\ Stay(E, h, g, Fresh(built))
<1> DEFINE s == Fresh(h)
           built == New(h, String(x))
           t == Fresh(built)
           b == JsonString(s)
           g == New(built, b)
           c == Block("STRING", <<>>, <<>>, <<>>)
           d == [built EXCEPT ![t] = c]
           F == E \cup Pointer(k, o, i, t)
           G == E \cup Pointer("key", t, 1, s)
<1>1. s \in Addr /\ Sound(G, built) /\ built[s] = String(x) /\ Stay(E, h, built, s)
  BY NewIsSound DEF String
<1>2. t \in Addr /\ built[t] = Free
  BY FreshIs
<1>3. s # t
  BY <1>1, <1>2, FreeIs, BlockIs DEF String
<1> HIDE DEF s, built, t
<1>4. /\ b.type = "STRING" /\ b.keys = <<s>> /\ b.kids = <<>> /\ b.val = <<>> /\ ShapeOf(b)
      /\ c.type = "STRING" /\ c.keys = <<>> /\ c.kids = <<>>
  <2>1. <<>> \in Seq(Ptr) /\ <<s>> \in Seq(Addr)
    BY <1>1
  <2>2. b.type = "STRING" /\ b.keys = <<s>> /\ b.kids = <<>> /\ b.val = <<>>
    BY BlockIs DEF JsonString
  <2>3. b = Block(b.type, b.keys, b.kids, b.val)
    BY <2>2 DEF JsonString
  <2> HIDE DEF b
  <2> QED
    BY <2>1, <2>2, <2>3, BlockIs DEF ShapeOf, Types, JsonType
<1> HIDE DEF b, c
<1>5. /\ g = [a \in Addr |-> IF a = t THEN b ELSE built[a]]
      /\ \A a \in Addr : d[a] = IF a = t THEN c ELSE built[a]
  BY <1>1, <1>2 DEF New, Sound, Shaped, t
<1> HIDE DEF g, d
<1>6. \A a \in Addr : g[a] = IF a = t THEN b ELSE built[a]
  BY <1>5
<1>7. AllOwned(G \cup Pointer(k, o, i, t), d)
  <2>1. AllOwned(G, built) /\ OnlyBlock(built, d, t, c)
    BY <1>1, <1>5 DEF Sound, OnlyBlock
  <2> QED
    BY <1>2, <1>4, <2>1, OwnNew
<1>8. AllOwned((G \cup Pointer(k, o, i, t)) \ Pointer("key", t, 1, s), g)
  <2>1. PICK e \in G \cup Pointer(k, o, i, t) : e.to = t
    BY <1>2, PointerIs
  <2>2. SameFree(d, g)
    BY <1>2, <1>4, <1>5, <1>6, FreeIs DEF SameFree
  <2>3. 1 \in Dom(g, t, "key") /\ At(g, t, "key", 1) = s /\ Dom(d, t, "key") = {} /\ "key" \in Rows
    BY <1>2, <1>4, <1>5, <1>6 DEF Dom, At, Row, Rows
  <2>4. OnlyAt(d, g, t, "key", 1)
    <3>1. \A a \in Addr : a # t => g[a] = d[a]
      BY <1>5, <1>6
    <3>2. Dom(g, t, "key") = {1} /\ Dom(g, t, "kid") = {} /\ Dom(d, t, "kid") = {}
      BY <1>2, <1>4, <1>5, <1>6 DEF Dom, Row
    <3>3. At(g, t, "kid", 1) = At(d, t, "kid", 1) /\ \A j : At(g, t, "kid", j) = At(d, t, "kid", j)
      BY <1>2, <1>4, <1>5, <1>6 DEF At, Row
    <3>4. ASSUME NEW a \in Addr, NEW l \in Rows, NEW j, ~ (a = t /\ l = "key" /\ j = 1)
          PROVE  /\ j \in Dom(g, a, l) <=> j \in Dom(d, a, l)
                 /\ j \in Dom(d, a, l) => At(g, a, l, j) = At(d, a, l, j)
      <4>1. CASE a # t
        BY <3>1, <4>1 DEF Dom, At, Row
      <4>2. CASE a = t /\ l = "kid"
        BY <3>2, <3>3, <4>2
      <4>3. CASE a = t /\ l = "key"
        <5>1. j # 1 /\ Dom(g, a, l) = {1} /\ Dom(d, a, l) = {}
          BY <2>3, <3>2, <3>4, <4>3
        <5> QED
          BY <5>1
      <4> QED
        BY <4>1, <4>2, <4>3 DEF Rows
    <3> QED
      BY <3>4 DEF OnlyAt
  <2>5. s \in Ptr /\ Pointer("key", t, 1, s) \subseteq G \cup Pointer(k, o, i, t)
    BY <1>1 DEF Ptr
  <2>6. 1 \in Dom(d, t, "key") => At(d, t, "key", 1) = NULL_JSON
    BY <2>3
  <2> QED
    BY <1>2, <1>3, <1>7, <2>1, <2>2, <2>3, <2>4, <2>5, <2>6, OwnAttach
<1>9. (G \cup Pointer(k, o, i, t)) \ Pointer("key", t, 1, s) = F
  <2>1. \A p \in Pointer("key", t, 1, s) : p \notin E /\ p \notin Pointer(k, o, i, t)
    BY <1>1, <1>3, PointerIs DEF Stay
  <2> QED
    BY <2>1
<1>10. Shaped(g)
  BY <1>1, <1>4, <1>5, <1>6 DEF Sound, Shaped
<1>11. KeysApart(g)
  <2>1. \A a \in Addr : g[a].keys = built[a].keys \/ \A j, n \in DOMAIN g[a].keys : j = n
    BY <1>4, <1>6
  <2>2. \A a \in Addr : built[a] # Free => g[a].val = built[a].val
    BY <1>2, <1>6
  <2> QED
    BY <1>1, <2>1, <2>2, KeysStay DEF Sound
<1>12. Stay(E, h, g, t)
  <2>1. \A e \in E : built[e.to] # Free
    BY <1>1 DEF Sound, AllOwned, Exclusive
  <2> QED
    BY <1>1, <1>2, <1>6, <2>1 DEF Stay
<1>13. Sound(F, g) /\ g[t].type = "STRING"
  BY <1>2, <1>4, <1>6, <1>8, <1>9, <1>10, <1>11 DEF Sound
<1> QED
  BY <1>2, <1>12, <1>13 DEF g, b, t, built, s

\* l_push: the list is owned from outside, and so is the value until now.
LEMMA PushIsSound ==
    ASSUME NEW E, NEW h, Sound(E, h), NEW l \in Addr, h[l].type = "LIST", NEW e \in E, e.to = l,
           NEW v \in Ptr, v # l, NEW k, NEW o, NEW i, Pointer(k, o, i, v) \subseteq E
    PROVE  /\ Sound(E \ Pointer(k, o, i, v), ListPush(h, l, v))
           /\ SameTypes(h, ListPush(h, l, v))
<1> DEFINE g == ListPush(h, l, v)
           n == Len(h[l].kids) + 1
<1>1. ShapeOf(h[l]) /\ n \in Nat /\ h[l].keys = <<>>
  BY DEF Sound, Shaped, ShapeOf
<1>2. /\ g = [a \in Addr |-> g[a]]
      /\ \A a \in Addr : a # l => g[a] = h[a]
      /\ g[l] = Block("LIST", h[l].keys, Append(h[l].kids, v), h[l].val)
  BY <1>1 DEF ListPush, Sound, Shaped, ShapeOf, Block
<1> HIDE DEF g
<1>3. /\ g[l].type = "LIST" /\ g[l].keys = <<>> /\ g[l].val = h[l].val
      /\ g[l].kids = Append(h[l].kids, v) /\ ShapeOf(g[l])
  <2>1. Append(h[l].kids, v) \in Seq(Ptr) /\ <<>> \in Seq(Addr)
    BY <1>1 DEF ShapeOf
  <2>2. /\ g[l].type = "LIST" /\ g[l].keys = <<>> /\ g[l].val = h[l].val
        /\ g[l].kids = Append(h[l].kids, v)
    BY <1>1, <1>2 DEF Block
  <2>3. g[l] = Block(g[l].type, g[l].keys, g[l].kids, g[l].val)
    BY <1>1, <1>2, <2>2
  <2> QED
    BY <2>1, <2>2, <2>3 DEF ShapeOf, Types, JsonType
<1>4. /\ DOMAIN g[l].kids = 1..n /\ DOMAIN h[l].kids = 1..(n - 1) /\ g[l].kids[n] = v
      /\ \A j \in 1..(n - 1) : g[l].kids[j] = h[l].kids[j]
  BY <1>1, <1>3 DEF ShapeOf
<1>5. OnlyAt(h, g, l, "kid", n)
  <2>1. ASSUME NEW a \in Addr, NEW m \in Rows, NEW j, ~ (a = l /\ m = "kid" /\ j = n)
        PROVE  /\ j \in Dom(g, a, m) <=> j \in Dom(h, a, m)
               /\ j \in Dom(h, a, m) => At(g, a, m, j) = At(h, a, m, j)
    <3>1. CASE a # l
      BY <1>2, <3>1 DEF Dom, At, Row
    <3>2. CASE a = l /\ m = "key"
      BY <1>1, <1>3, <3>2 DEF Dom, At, Row
    <3>3. CASE a = l /\ m = "kid" /\ j \in 1..(n - 1)
      BY <1>1, <1>4, <3>3 DEF Dom, At, Row
    <3>4. CASE a = l /\ m = "kid" /\ j \notin 1..n
      BY <1>1, <1>4, <3>4 DEF Dom, At, Row
    <3> QED
      BY <1>1, <2>1, <3>1, <3>2, <3>3, <3>4 DEF Rows
  <2> QED
    BY <2>1 DEF OnlyAt
<1>6. AllOwned(E \ Pointer(k, o, i, v), g)
  <2>1. /\ AllOwned(E, h) /\ "kid" \in Rows /\ n \in Dom(g, l, "kid") /\ At(g, l, "kid", n) = v
        /\ n \in Dom(h, l, "kid") => At(h, l, "kid", n) = NULL_JSON
    BY <1>1, <1>4 DEF Sound, Rows, Dom, At, Row
  <2>2. SameFree(h, g)
    BY <1>2, <1>3, FreeIs DEF SameFree
  <2> QED
    BY <1>5, <2>1, <2>2, OwnAttach
<1>7. Shaped(g)
  BY <1>2, <1>3 DEF Sound, Shaped
<1>8. KeysApart(g)
  <2>1. \A a \in Addr : g[a].keys = h[a].keys /\ g[a].val = h[a].val
    BY <1>1, <1>2, <1>3
  <2> QED
    BY <2>1, KeysStay DEF Sound
<1>9. SameTypes(h, g)
  BY <1>2, <1>3 DEF SameTypes
<1> QED
  BY <1>6, <1>7, <1>8, <1>9 DEF Sound, g

\* delete_json of a value owned from outside.
LEMMA DeleteIsSound ==
    ASSUME NEW E, NEW h, Sound(E, h), NEW r \in Ptr, NEW k, NEW o, NEW i, Pointer(k, o, i, r) \subseteq E
    PROVE  /\ Sound(E \ Pointer(k, o, i, r), DeleteJson(h, r))
           /\ Stay(E \ Pointer(k, o, i, r), h, DeleteJson(h, r), r)
<1> DEFINE F == E \ Pointer(k, o, i, r)
           D == Below(h, r)
           g == DeleteJson(h, r)
<1>0. PartsOK(h) /\ Acyclic(h) /\ Shaped(h) /\ AllOwned(E, h) /\ KeysApart(h)
  BY DEF Sound, AllOwned
<1>1. g = [a \in Addr |-> IF a \in D THEN Free ELSE h[a]]
  BY DEF DeleteJson
<1>2. CASE r = NULL_JSON
  <2>1. PICK below : below[NULL_JSON] = {} /\ \A a : Below(h, a) = below[a]
    BY <1>0, BelowIs
  <2>2. D = {}
    BY <1>2, <2>1
  <2>3. F = E
    BY <1>2, Constants, PointerIs
  <2> HIDE DEF F, D, g
  <2>4. g = h
    BY <1>0, <1>1, <2>2 DEF Shaped
  <2>5. Stay(E, h, h, r)
    BY <1>0, <1>2, Constants DEF AllOwned, Exclusive, Stay
  <2> QED
    BY <2>3, <2>4, <2>5 DEF F, g
<1>3. CASE r # NULL_JSON
  <2>1. D \in SUBSET Addr /\ Tree(h, r, D)
    BY <1>0, <1>3, BelowClosed DEF Ptr, Tree
  <2> HIDE DEF D, g
  <2>2. \A a \in Addr : g[a] = IF a \in D THEN Free ELSE h[a]
    BY <1>1
  <2>3. AllOwned(F, g) /\ Away(F, h, D)
    <3>1. Freed(h, g, D)
      BY <2>2 DEF Freed
    <3> QED
      BY <1>0, <2>1, <3>1, OwnFree
  <2>4. Stay(F, h, g, r)
    BY <2>1, <2>2, <2>3 DEF Stay, Away, Tree
  <2>5. Shaped(g)
    BY <1>0, <1>1, <2>2, FreeIs DEF Shaped
  <2>6. KeysApart(g)
    <3> SUFFICES ASSUME NEW a \in Addr, NEW m \in DOMAIN g[a].keys, NEW n \in DOMAIN g[a].keys,
                        SameKey(g[g[a].keys[m]].val, g[g[a].keys[n]].val)
                 PROVE  m = n
      BY DEF KeysApart
    <3>1. a \notin D
      BY <2>2, FreeIs
    <3>2. g[a] = h[a] /\ \A j \in DOMAIN h[a].keys : h[a].keys[j] \in Addr
      BY <1>0, <2>2, <3>1 DEF Shaped, ShapeOf
    <3>3. ASSUME NEW j \in DOMAIN h[a].keys PROVE g[h[a].keys[j]] = h[h[a].keys[j]]
      <4>1. "key" \in Rows /\ j \in Dom(h, a, "key") /\ At(h, a, "key", j) = h[a].keys[j]
        BY DEF Rows, Dom, At, Row
      <4>2. h[a].keys[j] \notin D
        BY <2>3, <3>1, <4>1 DEF Away
      <4> QED
        BY <2>2, <3>2, <4>2
    <3>4. m \in DOMAIN h[a].keys /\ n \in DOMAIN h[a].keys
      BY <3>2
    <3>5. SameKey(h[h[a].keys[m]].val, h[h[a].keys[n]].val)
      BY <3>2, <3>3, <3>4
    <3> QED
      BY <1>0, <3>4, <3>5 DEF KeysApart
  <2> QED
    BY <2>3, <2>4, <2>5, <2>6 DEF Sound, F, g
<1> QED
  BY <1>2, <1>3 DEF Ptr

\* delete_string is delete_json of a block without parts.
LEMMA DeleteStringIs ==
    ASSUME NEW E, NEW h, Sound(E, h), NEW s \in Addr, h[s].type = "string"
    PROVE  DeleteString(h, s) = DeleteJson(h, s)
<1>0. PartsOK(h) /\ Shaped(h) /\ h = [a \in Addr |-> h[a]]
  BY DEF Sound, AllOwned, Shaped
<1>1. PICK below :
             /\ \A a \in Addr : below[a] = {a} \cup UNION {below[b] : b \in Parts(h[a])}
             /\ below[NULL_JSON] = {}
             /\ \A a : Below(h, a) = below[a]
  BY <1>0, BelowIs
<1>2. Parts(h[s]) = {}
  <2>1. h[s].keys = <<>> /\ h[s].kids = <<>>
    BY <1>0 DEF Shaped, ShapeOf
  <2> QED
    BY <2>1 DEF Parts
<1>3. Below(h, s) = {s}
  BY <1>1, <1>2
<1>4. DeleteString(h, s) = [a \in Addr |-> IF a = s THEN Free ELSE h[a]]
  BY <1>0 DEF DeleteString
<1> QED
  BY <1>3, <1>4 DEF DeleteJson

\* h with other rows in the object o.
Rerowed(h, o, keys, kids) == [a \in Addr |-> IF a = o THEN Block("OBJECT", keys, kids, h[o].val) ELSE h[a]]

\* The rows of the one block in which g is not h.
HasRows(h, g, o, keys, kids) ==
    /\ \A a \in Addr : a # o => g[a] = h[a]
    /\ g[o].type = "OBJECT" /\ g[o].keys = keys /\ g[o].kids = kids /\ g[o].val = h[o].val

LEMMA RerowedIs ==
    ASSUME NEW h, NEW o \in Addr, NEW keys, NEW kids
    PROVE  HasRows(h, Rerowed(h, o, keys, kids), o, keys, kids)
<1> DEFINE g == Rerowed(h, o, keys, kids)
<1>1. g[o] = Block("OBJECT", keys, kids, h[o].val)
  BY DEF Rerowed
<1>2. \A a \in Addr : a # o => g[a] = h[a]
  BY DEF Rerowed
<1> HIDE DEF g
<1>3. g[o].type = "OBJECT" /\ g[o].keys = keys /\ g[o].kids = kids /\ g[o].val = h[o].val
  BY <1>1, BlockIs
<1>4. HasRows(h, g, o, keys, kids)
  BY <1>2, <1>3 DEF HasRows
<1> QED
  BY <1>4 DEF g

LEMMA RerowedShaped ==
    ASSUME NEW h, Shaped(h), NEW o \in Addr, NEW keys \in Seq(Addr), NEW kids \in Seq(Ptr),
           Len(keys) = Len(kids)
    PROVE  Shaped(Rerowed(h, o, keys, kids))
<1> DEFINE g == Rerowed(h, o, keys, kids)
<1>1. HasRows(h, g, o, keys, kids)
  BY RerowedIs
<1>1a. g = [a \in Addr |-> g[a]] /\ g[o] = Block("OBJECT", keys, kids, h[o].val)
  BY DEF Rerowed
<1> HIDE DEF g
<1>2. g[o] = Block(g[o].type, g[o].keys, g[o].kids, g[o].val)
  BY <1>1, <1>1a DEF HasRows
<1>3. ShapeOf(g[o])
  BY <1>1, <1>2 DEF ShapeOf, Types, JsonType, HasRows
<1> QED
  BY <1>1, <1>1a, <1>3 DEF Shaped, HasRows, g

LEMMA RerowedFree ==
    ASSUME NEW h, NEW o \in Addr, NEW keys, NEW kids, NEW keys2, NEW kids2
    PROVE  SameFree(Rerowed(h, o, keys, kids), Rerowed(h, o, keys2, kids2))
<1> DEFINE g == Rerowed(h, o, keys, kids)
           g2 == Rerowed(h, o, keys2, kids2)
<1>1. HasRows(h, g, o, keys, kids) /\ HasRows(h, g2, o, keys2, kids2)
  BY RerowedIs
<1> HIDE DEF g, g2
<1>3. SameFree(g, g2)
  BY <1>1, FreeIs DEF SameFree, HasRows
<1> QED
  BY <1>3 DEF g, g2

\* One row with one more or one other place.
OnlyPlace(row, row2, i) ==
    \A j : j # i => /\ j \in DOMAIN row2 <=> j \in DOMAIN row
                    /\ j \in DOMAIN row => row2[j] = row[j]

LEMMA RerowedAt ==
    ASSUME NEW h, NEW o \in Addr, NEW keys, NEW kids, NEW keys2, NEW kids2, NEW k \in Rows, NEW i,
           IF k = "key" THEN kids2 = kids /\ OnlyPlace(keys, keys2, i)
                        ELSE keys2 = keys /\ OnlyPlace(kids, kids2, i)
    PROVE  OnlyAt(Rerowed(h, o, keys, kids), Rerowed(h, o, keys2, kids2), o, k, i)
<1> DEFINE g == Rerowed(h, o, keys, kids)
           g2 == Rerowed(h, o, keys2, kids2)
<1>1a. HasRows(h, g, o, keys, kids) /\ HasRows(h, g2, o, keys2, kids2)
  BY RerowedIs
<1> HIDE DEF g, g2
<1>1. /\ \A a \in Addr : a # o => g[a] = g2[a]
      /\ g[o].keys = keys /\ g2[o].keys = keys2
      /\ g[o].kids = kids /\ g2[o].kids = kids2
  BY <1>1a DEF HasRows
<1>2. ASSUME NEW a \in Addr, NEW m \in Rows, NEW j, ~ (a = o /\ m = k /\ j = i)
      PROVE  /\ j \in Dom(g2, a, m) <=> j \in Dom(g, a, m)
             /\ j \in Dom(g, a, m) => At(g2, a, m, j) = At(g, a, m, j)
  <2>1. CASE a # o
    BY <1>1, <2>1 DEF Dom, At, Row
  <2>2. CASE a = o /\ m # k
    BY <1>1, <2>2 DEF Dom, At, Row, Rows
  <2>3. CASE a = o /\ m = k /\ j # i
    BY <1>1, <2>3 DEF Dom, At, Row, Rows, OnlyPlace
  <2> QED
    BY <1>2, <2>1, <2>2, <2>3
<1>3. OnlyAt(g, g2, o, k, i)
  BY <1>2 DEF OnlyAt
<1> QED
  BY <1>3 DEF g, g2

LEMMA RerowedSelf ==
    ASSUME NEW h, Shaped(h), NEW o \in Addr, h[o].type = "OBJECT"
    PROVE  Rerowed(h, o, h[o].keys, h[o].kids) = h
  BY DEF Shaped, ShapeOf, Rerowed

LEMMA HmPutIs ==
    ASSUME NEW h, Shaped(h), NEW o \in Addr, h[o].type = "OBJECT", NEW k, NEW v
    PROVE  HmPut(h, o, k, v) =
             IF Matches(h, o, h[k].val) = {}
             THEN Rerowed(h, o, Append(h[o].keys, k), Append(h[o].kids, v))
             ELSE Rerowed(h, o, h[o].keys,
                          [i \in DOMAIN h[o].kids |-> IF i \in Matches(h, o, h[k].val) THEN v ELSE h[o].kids[i]])
<1> DEFINE found == Matches(h, o, h[k].val)
           keys == h[o].keys
           kids == h[o].kids
           new == [i \in DOMAIN kids |-> IF i \in found THEN v ELSE kids[i]]
<1>1. h = [a \in Addr |-> h[a]] /\ h[o] = Block("OBJECT", keys, kids, h[o].val)
  BY DEF Shaped, ShapeOf
<1>3. ASSUME found = {} PROVE HmPut(h, o, k, v) = Rerowed(h, o, Append(keys, k), Append(kids, v))
  <2> DEFINE b == [h[o] EXCEPT !.keys = Append(keys, k)]
  <2>1. b = Block("OBJECT", Append(keys, k), kids, h[o].val)
    <3> DEFINE K == Append(keys, k)
    <3> HIDE DEF K
    <3>1. [Block("OBJECT", keys, kids, h[o].val) EXCEPT !.keys = K] = Block("OBJECT", K, kids, h[o].val)
      BY DEF Block
    <3> QED
      BY <1>1, <3>1 DEF K
  <2>2. HmPut(h, o, k, v) =
          [a \in Addr |-> IF a = o THEN [b EXCEPT !.kids = Append(b.kids, v)] ELSE h[a]]
    BY <1>1, <1>3 DEF HmPut
  <2> HIDE DEF b
  <2>3. b.kids = kids
    BY <2>1 DEF Block
  <2>4. [b EXCEPT !.kids = Append(b.kids, v)] = Block("OBJECT", Append(keys, k), Append(kids, v), h[o].val)
    <3> DEFINE K == Append(keys, k)
               V == Append(b.kids, v)
    <3>1. b = Block("OBJECT", K, kids, h[o].val) /\ V = Append(kids, v)
      BY <2>1, <2>3
    <3> HIDE DEF K, V
    <3>2. [Block("OBJECT", K, kids, h[o].val) EXCEPT !.kids = V] = Block("OBJECT", K, V, h[o].val)
      BY DEF Block
    <3> QED
      BY <3>1, <3>2 DEF K, V
  <2> QED
    BY <2>2, <2>4 DEF Rerowed
<1>4. ASSUME found # {} PROVE HmPut(h, o, k, v) = Rerowed(h, o, keys, new)
  <2>1. HmPut(h, o, k, v) = [a \in Addr |-> IF a = o THEN [h[o] EXCEPT !.kids = new] ELSE h[a]]
    BY <1>1, <1>4 DEF HmPut
  <2>2. [h[o] EXCEPT !.kids = new] = Block("OBJECT", keys, new, h[o].val)
    BY <1>1 DEF Block
  <2> QED
    BY <2>1, <2>2 DEF Rerowed
<1> QED
  BY <1>3, <1>4

LEMMA SeqPlace ==
    ASSUME NEW S, NEW row \in Seq(S), NEW x \in S
    PROVE  /\ Append(row, x) \in Seq(S) /\ Len(Append(row, x)) = Len(row) + 1 /\ Len(row) \in Nat
           /\ DOMAIN row = 1..Len(row) /\ DOMAIN Append(row, x) = 1..(Len(row) + 1)
           /\ Append(row, x)[Len(row) + 1] = x
           /\ OnlyPlace(row, Append(row, x), Len(row) + 1)
<1>1. /\ Append(row, x) \in Seq(S) /\ Len(Append(row, x)) = Len(row) + 1 /\ Len(row) \in Nat
      /\ DOMAIN row = 1..Len(row) /\ DOMAIN Append(row, x) = 1..(Len(row) + 1)
      /\ Append(row, x)[Len(row) + 1] = x
      /\ \A i \in DOMAIN row : Append(row, x)[i] = row[i]
  OBVIOUS
<1>2. \A j : j # Len(row) + 1 => (j \in 1..(Len(row) + 1) <=> j \in 1..Len(row))
  BY <1>1
<1> QED
  BY <1>1, <1>2 DEF OnlyPlace

\* The pointers that hm_put overwrites.
LostPtrs(S) == UNION {Pointer("lost", 0, a, a) : a \in S}

\* hm_put of a key that the map does not have.
LEMMA PutNewIsSound ==
    ASSUME NEW E, NEW h, Sound(E, h), NEW o \in Addr, h[o].type = "OBJECT", NEW e \in E, e.to = o,
           NEW k \in Addr, k # o, NEW kk, NEW ko, NEW ki, Pointer(kk, ko, ki, k) \subseteq E,
           NEW v \in Ptr, v # o, v # k, NEW vk, NEW vo, NEW vi, Pointer(vk, vo, vi, v) \subseteq E,
           Matches(h, o, h[k].val) = {}
    PROVE  Sound((E \ Pointer(kk, ko, ki, k)) \ Pointer(vk, vo, vi, v), HmPut(h, o, k, v))
<1> DEFINE keys == h[o].keys
           kids == h[o].kids
           h1 == Rerowed(h, o, Append(keys, k), kids)
           g == Rerowed(h, o, Append(keys, k), Append(kids, v))
           F == E \ Pointer(kk, ko, ki, k)
           G == F \ Pointer(vk, vo, vi, v)
           n == Len(keys) + 1
<1>1. HmPut(h, o, k, v) = g
  BY HmPutIs DEF Sound
<1>2. keys \in Seq(Addr) /\ kids \in Seq(Ptr) /\ Len(keys) = Len(kids)
  BY DEF Sound, Shaped, ShapeOf
<1>3. HasRows(h, h1, o, Append(keys, k), kids) /\ HasRows(h, g, o, Append(keys, k), Append(kids, v))
  BY RerowedIs
<1>4. h = Rerowed(h, o, keys, kids)
  BY RerowedSelf DEF Sound
<1>5. /\ n \in Nat /\ DOMAIN keys = 1..(n - 1) /\ DOMAIN Append(keys, k) = 1..n
      /\ Append(keys, k)[n] = k /\ OnlyPlace(keys, Append(keys, k), n)
      /\ Append(keys, k) \in Seq(Addr) /\ Len(Append(keys, k)) = n
  <2>1. /\ Len(keys) \in Nat /\ DOMAIN keys = 1..Len(keys)
        /\ DOMAIN Append(keys, k) = 1..(Len(keys) + 1)
        /\ Append(keys, k)[Len(keys) + 1] = k /\ OnlyPlace(keys, Append(keys, k), Len(keys) + 1)
        /\ Append(keys, k) \in Seq(Addr) /\ Len(Append(keys, k)) = Len(keys) + 1
    BY <1>2, SeqPlace
  <2>2. n - 1 = Len(keys) /\ n \in Nat
    BY <2>1
  <2> QED
    BY <2>1, <2>2
<1>6. /\ DOMAIN kids = 1..(n - 1) /\ DOMAIN Append(kids, v) = 1..n
      /\ Append(kids, v)[n] = v /\ OnlyPlace(kids, Append(kids, v), n)
      /\ Append(kids, v) \in Seq(Ptr) /\ Len(Append(kids, v)) = n
  BY <1>2, SeqPlace
<1>7. OnlyAt(h, h1, o, "key", n) /\ OnlyAt(h1, g, o, "kid", n) /\ SameFree(h, h1) /\ SameFree(h1, g)
  <2>1. "key" \in Rows /\ "kid" \in Rows
    BY DEF Rows
  <2>2. OnlyAt(Rerowed(h, o, keys, kids), h1, o, "key", n)
    BY <1>5, <2>1, RerowedAt
  <2>3. OnlyAt(h1, g, o, "kid", n)
    BY <1>6, <2>1, RerowedAt
  <2>4. SameFree(Rerowed(h, o, keys, kids), h1) /\ SameFree(h1, g)
    BY RerowedFree
  <2> QED
    BY <1>4, <2>2, <2>3, <2>4
<1> HIDE DEF h1, g
<1>8. AllOwned(F, h1)
  <2>1. /\ AllOwned(E, h) /\ "key" \in Rows /\ k \in Ptr
        /\ n \in Dom(h1, o, "key") /\ At(h1, o, "key", n) = k
        /\ n \in Dom(h, o, "key") => At(h, o, "key", n) = NULL_JSON
    BY <1>3, <1>5 DEF Sound, Rows, Dom, At, Row, HasRows, Ptr
  <2> QED
    BY <1>7, <2>1, OwnAttach
<1>9. AllOwned(G, g)
  <2>1. /\ "kid" \in Rows /\ n \in Dom(g, o, "kid") /\ At(g, o, "kid", n) = v
        /\ n \in Dom(h1, o, "kid") => At(h1, o, "kid", n) = NULL_JSON
    BY <1>3, <1>5, <1>6 DEF Rows, Dom, At, Row, HasRows
  <2>2. e \in F
    BY PointerIs
  <2>3. Pointer(vk, vo, vi, v) \subseteq F
    <3>1. \A p \in Pointer(vk, vo, vi, v) : p.to = v
      BY PointerIs
    <3>2. \A p \in Pointer(kk, ko, ki, k) : p.to = k
      BY PointerIs
    <3> QED
      BY <3>1, <3>2
  <2> HIDE DEF F, n
  <2> QED
    BY <1>7, <1>8, <2>1, <2>2, <2>3, OwnAttach
<1>10. Shaped(g)
  BY <1>2, <1>5, <1>6, RerowedShaped DEF g, Sound
<1>11. KeysApart(g)
  <2> SUFFICES ASSUME NEW a \in Addr, NEW i \in DOMAIN g[a].keys, NEW j \in DOMAIN g[a].keys,
                      SameKey(g[g[a].keys[i]].val, g[g[a].keys[j]].val)
               PROVE  i = j
    BY DEF KeysApart
  <2>1. \A b \in Addr : g[b].val = h[b].val
    BY <1>3 DEF HasRows
  <2>2. g[a].keys[i] \in Addr /\ g[a].keys[j] \in Addr
    BY <1>10 DEF Shaped, ShapeOf
  <2>3. SameKey(h[g[a].keys[i]].val, h[g[a].keys[j]].val)
    BY <2>1, <2>2
  <2>4. CASE a # o
    BY <1>3, <2>3, <2>4 DEF Sound, KeysApart, HasRows
  <2>5. CASE a = o
    <3>1. ASSUME NEW m \in 1..(n - 1) PROVE ~ SameKey(h[keys[m]].val, h[k].val)
      BY <1>5, <3>1 DEF Matches, SameKey
    <3>2. i \in 1..n /\ j \in 1..n /\ g[a].keys = Append(keys, k)
      BY <1>3, <1>5, <2>5 DEF HasRows
    <3>a. n \in Nat /\ \A m \in 1..n : m # n => m \in 1..(n - 1)
      BY <1>5
    <3>b. Append(keys, k)[n] = k /\ \A m \in 1..(n - 1) : Append(keys, k)[m] = keys[m]
      BY <1>5, <3>a DEF OnlyPlace
    <3>c. \A x, y : SameKey(x, y) => SameKey(y, x)
      BY DEF SameKey, SEquals
    <3>d. SameKey(h[Append(keys, k)[i]].val, h[Append(keys, k)[j]].val)
      BY <2>3, <3>2
    <3> HIDE DEF keys, n
    <3>3. CASE i = n /\ j # n
      <4>1. j \in 1..(n - 1)
        BY <3>2, <3>3, <3>a
      <4>2. SameKey(h[keys[j]].val, h[k].val)
        BY <3>3, <3>b, <3>c, <3>d, <4>1
      <4> QED
        BY <3>1, <4>1, <4>2
    <3>4. CASE i # n /\ j = n
      <4>1. i \in 1..(n - 1)
        BY <3>2, <3>4, <3>a
      <4>2. SameKey(h[keys[i]].val, h[k].val)
        BY <3>4, <3>b, <3>d, <4>1
      <4> QED
        BY <3>1, <4>1, <4>2
    <3>5. CASE i # n /\ j # n
      <4>1. i \in 1..(n - 1) /\ j \in 1..(n - 1)
        BY <3>2, <3>5, <3>a
      <4>2. SameKey(h[keys[i]].val, h[keys[j]].val)
        BY <3>b, <3>d, <4>1
      <4>3. keys = h[o].keys /\ DOMAIN keys = 1..(n - 1)
        BY <1>5 DEF keys
      <4> QED
        BY <4>1, <4>2, <4>3 DEF Sound, KeysApart
    <3> QED
      BY <3>3, <3>4, <3>5
  <2> QED
    BY <2>4, <2>5
<1> QED
  BY <1>1, <1>9, <1>10, <1>11 DEF Sound

\* hm_put finds its key at most once.
LEMMA MatchesOne ==
    ASSUME NEW h, KeysApart(h), NEW o \in Addr, NEW x,
           NEW i \in Matches(h, o, x), NEW j \in Matches(h, o, x)
    PROVE  i = j
<1>1. /\ i \in DOMAIN h[o].keys /\ SHash(h[h[o].keys[i]].val) = SHash(x) /\ SEquals(h[h[o].keys[i]].val, x)
      /\ j \in DOMAIN h[o].keys /\ SHash(h[h[o].keys[j]].val) = SHash(x) /\ SEquals(h[h[o].keys[j]].val, x)
  BY DEF Matches
<1>2. SameKey(h[h[o].keys[i]].val, h[h[o].keys[j]].val)
  BY <1>1 DEF SameKey, SEquals
<1> QED
  BY <1>1, <1>2 DEF KeysApart

LEMMA LostPtrsAre ==
    ASSUME NEW a, NEW b
    PROVE  LostPtrs({a, b} \ {NULL_JSON}) = Pointer("lost", 0, a, a) \cup Pointer("lost", 0, b, b)
<1>1. Pointer("lost", 0, NULL_JSON, NULL_JSON) = {}
  BY Constants, PointerIs
<1> QED
  BY <1>1 DEF LostPtrs

\* hm_put of a key that the map has: the key and the value before are lost.
LEMMA PutOldIsSound ==
    ASSUME NEW E, NEW h, Sound(E, h), NEW o \in Addr, h[o].type = "OBJECT", NEW e \in E, e.to = o,
           NEW k \in Addr, k # o, NEW kk, NEW ko, NEW ki, Pointer(kk, ko, ki, k) \subseteq E,
           NEW v \in Ptr, v # o, v # k, NEW vk, NEW vo, NEW vi, Pointer(vk, vo, vi, v) \subseteq E,
           Matches(h, o, h[k].val) # {}
    PROVE  /\ Sound(((E \ Pointer(kk, ko, ki, k)) \ Pointer(vk, vo, vi, v)) \cup LostPtrs(Overwritten(h, o, k)),
                    HmPut(h, o, k, v))
           /\ Overwritten(h, o, k) \subseteq Addr
<1> DEFINE found == Matches(h, o, h[k].val)
           keys == h[o].keys
           kids == h[o].kids
           new == [i \in DOMAIN kids |-> IF i \in found THEN v ELSE kids[i]]
<1>1. PICK n : found = {n}
  <2>1. PICK n : n \in found
    OBVIOUS
  <2>2. \A m \in found : m = n
    BY <2>1, MatchesOne DEF Sound
  <2> QED
    BY <2>1, <2>2
<1>2. keys \in Seq(Addr) /\ kids \in Seq(Ptr) /\ Len(keys) = Len(kids) /\ n \in DOMAIN keys
  BY <1>1 DEF Sound, Shaped, ShapeOf, Matches
<1> DEFINE old == kids[n]
           mid == [i \in DOMAIN kids |-> IF i = n THEN NULL_JSON ELSE kids[i]]
           h1 == Rerowed(h, o, keys, mid)
           g == Rerowed(h, o, keys, new)
           K == Pointer(kk, ko, ki, k)
           V == Pointer(vk, vo, vi, v)
           P == Pointer("lost", 0, old, old)
           Q == Pointer("lost", 0, k, k)
<1>3. HmPut(h, o, k, v) = g
  BY <1>1, HmPutIs DEF Sound
<1>4. /\ n \in DOMAIN kids /\ old \in Ptr /\ Len(kids) \in Nat /\ DOMAIN kids = 1..Len(kids)
      /\ new = [i \in DOMAIN kids |-> IF i = n THEN v ELSE kids[i]]
  BY <1>1, <1>2
<1>5. Overwritten(h, o, k) = {k, old} \ {NULL_JSON}
  BY <1>1 DEF Overwritten
<1> HIDE DEF old, new
<1>6. /\ DOMAIN mid = DOMAIN kids /\ mid[n] = NULL_JSON /\ OnlyPlace(kids, mid, n)
      /\ DOMAIN new = DOMAIN kids /\ new[n] = v /\ OnlyPlace(mid, new, n)
  BY <1>4 DEF OnlyPlace
<1>7. new \in Seq(Ptr) /\ Len(new) = Len(kids)
  BY <1>2, <1>4
<1> HIDE DEF mid
<1>8. HasRows(h, h1, o, keys, mid) /\ HasRows(h, g, o, keys, new)
  BY RerowedIs
<1>9. OnlyAt(h, h1, o, "kid", n) /\ OnlyAt(h1, g, o, "kid", n) /\ SameFree(h, h1) /\ SameFree(h1, g)
  <2>1. "kid" \in Rows
    BY DEF Rows
  <2>2. h = Rerowed(h, o, keys, kids)
    BY RerowedSelf DEF Sound
  <2>3. OnlyAt(Rerowed(h, o, keys, kids), h1, o, "kid", n)
    BY <1>6, <2>1, RerowedAt
  <2>4. OnlyAt(h1, g, o, "kid", n)
    BY <1>6, <2>1, RerowedAt
  <2>5. SameFree(Rerowed(h, o, keys, kids), h1) /\ SameFree(h1, g)
    BY RerowedFree
  <2> QED
    BY <2>2, <2>3, <2>4, <2>5
<1> HIDE DEF h1, g
<1>10. /\ "kid" \in Rows /\ n \in Dom(h, o, "kid") /\ At(h, o, "kid", n) = old
       /\ n \in Dom(h1, o, "kid") /\ At(h1, o, "kid", n) = NULL_JSON
       /\ n \in Dom(g, o, "kid") /\ At(g, o, "kid", n) = v
  BY <1>4, <1>6, <1>8 DEF Rows, Dom, At, Row, HasRows, old
<1>11. old # NULL_JSON => old # v /\ old # k
  <2>1. \A d \in E : old # NULL_JSON => d.to # old
    BY <1>10 DEF Sound, AllOwned, Exclusive
  <2>2. \E d \in E : d.to = k
    BY PointerIs
  <2>3. v \in Addr => \E d \in E : d.to = v
    BY PointerIs
  <2> QED
    BY <2>1, <2>2, <2>3 DEF Ptr
<1>12. AllOwned(E \cup P, h1)
  <2>1. AllOwned(E, h)
    BY DEF Sound
  <2> QED
    BY <1>9, <1>10, <2>1, OwnDetach
<1>13. AllOwned((E \cup P) \ V, g)
  <2>1. e \in E \cup P /\ V \subseteq E \cup P
    OBVIOUS
  <2>2. n \in Dom(h1, o, "kid") => At(h1, o, "kid", n) = NULL_JSON
    BY <1>10
  <2> HIDE DEF P
  <2> QED
    BY <1>9, <1>10, <1>12, <2>1, <2>2, OwnAttach
<1>14. /\ \A p \in P : p \notin K /\ p \notin V
       /\ \A p \in K : p \notin V
  <2>1. (\A p \in P : p.to = old) /\ (\A p \in K : p.to = k) /\ (\A p \in V : p.to = v)
    BY PointerIs
  <2>2. old = NULL_JSON => P = {}
    BY Constants, PointerIs
  <2> QED
    BY <1>11, <2>1, <2>2
<1>15. AllOwned((((E \cup P) \ V) \ K) \cup Q, g)
  <2>1. K \subseteq (E \cup P) \ V
    BY <1>14
  <2> DEFINE G == (E \cup P) \ V
  <2> HIDE DEF G
  <2>2. AllOwned(G, g) /\ K \subseteq G
    BY <1>13, <2>1 DEF G
  <2>3. AllOwned((G \ K) \cup Q, g)
    BY <2>2, OwnMove
  <2> QED
    BY <2>3 DEF G
<1>16. (((E \cup P) \ V) \ K) \cup Q = ((E \ K) \ V) \cup LostPtrs(Overwritten(h, o, k))
  <2>1. LostPtrs(Overwritten(h, o, k)) = Q \cup P
    BY <1>5, LostPtrsAre
  <2> HIDE DEF P, Q, K, V
  <2> QED
    BY <1>14, <2>1
<1>17. Shaped(g)
  BY <1>2, <1>7, RerowedShaped DEF g, Sound
<1>18. KeysApart(g)
  <2>1. \A a \in Addr : g[a].keys = h[a].keys /\ g[a].val = h[a].val
    BY <1>8 DEF HasRows
  <2> QED
    BY <2>1, KeysStay DEF Sound
<1>19. Overwritten(h, o, k) \subseteq Addr
  BY <1>4, <1>5 DEF Ptr
<1> QED
  BY <1>3, <1>15, <1>16, <1>17, <1>18, <1>19 DEF Sound

\* hm_put, in the two cases; the types of blocks stay.
LEMMA PutIsSound ==
    ASSUME NEW E, NEW h, Sound(E, h), NEW o \in Addr, h[o].type = "OBJECT", NEW e \in E, e.to = o,
           NEW k \in Addr, k # o, NEW kk, NEW ko, NEW ki, Pointer(kk, ko, ki, k) \subseteq E,
           NEW v \in Ptr, v # o, v # k, NEW vk, NEW vo, NEW vi, Pointer(vk, vo, vi, v) \subseteq E
    PROVE  /\ Sound(((E \ Pointer(kk, ko, ki, k)) \ Pointer(vk, vo, vi, v)) \cup LostPtrs(Overwritten(h, o, k)),
                    HmPut(h, o, k, v))
           /\ Overwritten(h, o, k) \subseteq Addr
           /\ SameTypes(h, HmPut(h, o, k, v))
<1>1. ASSUME Matches(h, o, h[k].val) = {}
      PROVE  /\ Overwritten(h, o, k) = {} /\ LostPtrs({}) = {}
             /\ Sound((E \ Pointer(kk, ko, ki, k)) \ Pointer(vk, vo, vi, v), HmPut(h, o, k, v))
  BY <1>1, PutNewIsSound DEF Overwritten, LostPtrs
<1>2. \E keys, kids : HmPut(h, o, k, v) = Rerowed(h, o, keys, kids)
  <2> DEFINE keys == Append(h[o].keys, k)
             kids == Append(h[o].kids, v)
             new == [i \in DOMAIN h[o].kids |-> IF i \in Matches(h, o, h[k].val) THEN v ELSE h[o].kids[i]]
  <2>1. HmPut(h, o, k, v) = Rerowed(h, o, keys, kids) \/ HmPut(h, o, k, v) = Rerowed(h, o, h[o].keys, new)
    BY HmPutIs DEF Sound
  <2> HIDE DEF keys, kids, new
  <2> QED
    BY <2>1
<1>3. SameTypes(h, HmPut(h, o, k, v))
  <2>1. PICK keys, kids : HmPut(h, o, k, v) = Rerowed(h, o, keys, kids)
    BY <1>2
  <2>2. HasRows(h, Rerowed(h, o, keys, kids), o, keys, kids)
    BY RerowedIs
  <2> QED
    BY <2>1, <2>2 DEF HasRows, SameTypes
<1>4. CASE Matches(h, o, h[k].val) = {}
  <2>1. ((E \ Pointer(kk, ko, ki, k)) \ Pointer(vk, vo, vi, v)) \cup LostPtrs({})
          = (E \ Pointer(kk, ko, ki, k)) \ Pointer(vk, vo, vi, v)
    BY <1>1, <1>4
  <2> QED
    BY <1>1, <1>3, <1>4, <2>1
<1>5. CASE Matches(h, o, h[k].val) # {}
  BY <1>3, <1>5, PutOldIsSound
<1> QED
  BY <1>4, <1>5

----------------------------------------------------------------------------
(* The program and the calls of the parser: what each holds. *)

FnType(fn) == CASE fn = "list" -> "LIST" [] fn = "object" -> "OBJECT" [] fn = "pair" -> "string"

\* The stack of calls: a pair is read for an object, and a container for a list, for
\* a pair or for the caller; each frame owns a block of its type.
Frame == [fn : {"object", "list", "pair"}, own : Addr]

CallsFit(c, h) ==
    /\ c \in Seq(Frame)
    /\ \A i \in DOMAIN c :
         /\ h[c[i].own].type = FnType(c[i].fn)
         /\ c[i].fn = "pair" => i > 1 /\ c[i - 1].fn = "object"
         /\ c[i].fn # "pair" => i = 1 \/ c[i - 1].fn \in {"list", "pair"}

\* What the innermost call may be when a value is read or returned.
Expecting == calls = <<>> \/ Top.fn \in {"list", "pair"}

ModeOK ==
    /\ mode \in {"idle", "value", "pair", "next", "return"}
    /\ mode = "idle" => calls = <<>>
    /\ mode = "value" => Expecting
    /\ mode = "pair" => calls # <<>> /\ Top.fn = "object"
    /\ mode = "next" => calls # <<>> /\ Top.fn \in {"list", "object"}
    /\ mode = "return" =>
         IF ret.ps = "SUCCESS" THEN Expecting /\ ret.json \in Ptr ELSE ret.json = None

ProgramOK ==
    /\ work \in Seq(Ptr)
    /\ lost \subseteq Addr
    /\ {root, dest} \subseteq Ptr \cup {None}
    /\ phase = "build" => root = None
    /\ phase # "delete" => dest = None
    /\ phase # "read" => mode = "idle"

\* The inductive invariant.  NoDangling and NothingLost are not inductive by themselves:
\* they say neither that the calls own what their functions take them to own, nor
\* that the blocks form trees, without which delete_json would not end.
IInv == CallsFit(calls, heap) /\ ModeOK /\ ProgramOK /\ Sound(Held, heap)

----------------------------------------------------------------------------
(* The set of the pointers that are held, as it grows and shrinks. *)

Kind(S, k) == \A p \in S : p.kind = k

RowPtrs(k, w) == UNION {Pointer(k, 0, i, w[i]) : i \in DOMAIN w}

Owns(c) == [i \in DOMAIN c |-> c[i].own]

RetPtrs(m, r) == IF m = "return" THEN Pointer("ret", 0, 0, r.json) ELSE {}

HeldBy(w, x, y, c, R, l) ==
    RowPtrs("work", w) \cup Pointer("root", 0, 0, x) \cup Pointer("dest", 0, 0, y)
    \cup RowPtrs("call", Owns(c)) \cup R \cup LostPtrs(l)

\* Held by the owners it is made of, before and after a step.
LEMMA HeldIs ==
    /\ Held = HeldBy(work, root, dest, calls, RetPtrs(mode, ret), lost)
    /\ Held' = HeldBy(work', root', dest', calls', RetPtrs(mode', ret'), lost')
<1>1. ASSUME NEW c
      PROVE  UNION {Pointer("call", 0, i, c[i].own) : i \in DOMAIN c} = RowPtrs("call", Owns(c))
  <2>1. DOMAIN Owns(c) = DOMAIN c /\ \A i \in DOMAIN c : Owns(c)[i] = c[i].own
    BY DEF Owns
  <2> QED
    BY <2>1 DEF RowPtrs
<1>a. LostPtrs(lost) = UNION {Pointer("lost", 0, a, a) : a \in lost}
  BY DEF LostPtrs
<1>b. LostPtrs(lost') = UNION {Pointer("lost", 0, a, a) : a \in lost'}
  BY DEF LostPtrs
<1>2. Held = HeldBy(work, root, dest, calls, RetPtrs(mode, ret), lost)
  <2>1. UNION {Pointer("call", 0, i, calls[i].own) : i \in DOMAIN calls} = RowPtrs("call", Owns(calls))
    BY <1>1
  <2>2. UNION {Pointer("work", 0, i, work[i]) : i \in DOMAIN work} = RowPtrs("work", work)
    BY DEF RowPtrs
  <2> QED
    BY <1>a, <2>1, <2>2, Zenon DEF Held, HeldBy, RetPtrs
<1>3. Held' = HeldBy(work', root', dest', calls', RetPtrs(mode', ret'), lost')
  <2>1. UNION {Pointer("call", 0, i, calls'[i].own) : i \in DOMAIN calls'} = RowPtrs("call", Owns(calls'))
    BY <1>1
  <2>2. UNION {Pointer("work", 0, i, work'[i]) : i \in DOMAIN work'} = RowPtrs("work", work')
    BY DEF RowPtrs
  <2> QED
    BY <1>b, <2>1, <2>2, Zenon DEF Held, HeldBy, RetPtrs
<1> QED
  BY <1>2, <1>3

LEMMA PointerPlace == ASSUME NEW k, NEW o, NEW i, NEW t PROVE \A p \in Pointer(k, o, i, t) : p.place = i
  BY DEF Pointer

LEMMA KindsAre ==
    ASSUME NEW w, NEW x, NEW c, NEW l, NEW i
    PROVE  /\ Kind(RowPtrs("work", w), "work") /\ Kind(RowPtrs("call", c), "call")
           /\ Kind(Pointer("root", 0, 0, x), "root") /\ Kind(Pointer("dest", 0, 0, x), "dest")
           /\ Kind(Pointer("ret", 0, 0, x), "ret") /\ Kind(LostPtrs(l), "lost")
           /\ Kind(Pointer("work", 0, i, x), "work") /\ Kind(Pointer("call", 0, i, x), "call")
<1>1. \A k, o, j, t : \A p \in Pointer(k, o, j, t) : p.kind = k
  BY PointerIs
<1> QED
  BY <1>1 DEF Kind, RowPtrs, LostPtrs

\* Row w2 is row w with x behind it.
Extends(w, w2, n, x) ==
    n \in Nat /\ DOMAIN w = 1..n /\ DOMAIN w2 = 1..(n + 1) /\ w2[n + 1] = x /\ \A i \in 1..n : w2[i] = w[i]

\* H2 is H and P besides.
Grows(H, H2, P) == H2 = H \cup P /\ H = H2 \ P /\ P \subseteq H2

LEMMA RowGrows ==
    ASSUME NEW k, NEW w, NEW w2, NEW n, NEW x, Extends(w, w2, n, x)
    PROVE  Grows(RowPtrs(k, w), RowPtrs(k, w2), Pointer(k, 0, n + 1, x))
<1> DEFINE P == Pointer(k, 0, n + 1, x)
<1>1. n \in Nat /\ DOMAIN w = 1..n /\ DOMAIN w2 = 1..(n + 1) /\ w2[n + 1] = x /\ \A i \in 1..n : w2[i] = w[i]
  BY DEF Extends
<1>2. 1..(n + 1) = (1..n) \cup {n + 1} /\ n + 1 \notin 1..n
  BY <1>1
<1>3. RowPtrs(k, w2) = RowPtrs(k, w) \cup P
  <2>1. ASSUME NEW p \in RowPtrs(k, w2) PROVE p \in RowPtrs(k, w) \cup P
    <3>1. PICK i \in 1..(n + 1) : p \in Pointer(k, 0, i, w2[i])
      BY <1>1, <2>1 DEF RowPtrs
    <3> QED
      BY <1>1, <1>2, <3>1 DEF RowPtrs
  <2>2. ASSUME NEW p \in RowPtrs(k, w) PROVE p \in RowPtrs(k, w2)
    <3>1. PICK i \in 1..n : p \in Pointer(k, 0, i, w[i])
      BY <1>1, <2>2 DEF RowPtrs
    <3>2. i \in DOMAIN w2 /\ p \in Pointer(k, 0, i, w2[i])
      BY <1>1, <1>2, <3>1
    <3> QED
      BY <3>2 DEF RowPtrs
  <2>3. ASSUME NEW p \in P PROVE p \in RowPtrs(k, w2)
    BY <1>1, <1>2, <2>3 DEF RowPtrs
  <2> QED
    BY <2>1, <2>2, <2>3
<1>4. ASSUME NEW p \in P PROVE p \notin RowPtrs(k, w)
  <2> SUFFICES ASSUME p \in RowPtrs(k, w) PROVE FALSE
    OBVIOUS
  <2>1. PICK i \in 1..n : p \in Pointer(k, 0, i, w[i])
    BY <1>1 DEF RowPtrs
  <2>2. p.place = i /\ p.place = n + 1
    BY <2>1, PointerPlace
  <2> QED
    BY <1>2, <2>2
<1> HIDE DEF P
<1>5. Grows(RowPtrs(k, w), RowPtrs(k, w2), P)
  BY <1>3, <1>4 DEF Grows
<1> QED
  BY <1>5 DEF P

LEMMA HeldWork ==
    ASSUME NEW w, NEW w2, NEW n, NEW t, Extends(w, w2, n, t),
           NEW x, NEW y, NEW c, NEW R, Kind(R, "ret"), NEW l
    PROVE  Grows(HeldBy(w, x, y, c, R, l), HeldBy(w2, x, y, c, R, l), Pointer("work", 0, n + 1, t))
<1> DEFINE P == Pointer("work", 0, n + 1, t)
           A == RowPtrs("work", w)
           A2 == RowPtrs("work", w2)
           B == Pointer("root", 0, 0, x)
           D == Pointer("dest", 0, 0, y)
           C == RowPtrs("call", Owns(c))
           L == LostPtrs(l)
<1>1. Grows(A, A2, P)
  BY RowGrows
<1>2. Kind(P, "work") /\ Kind(B, "root") /\ Kind(D, "dest") /\ Kind(C, "call") /\ Kind(L, "lost")
  BY KindsAre
<1> HIDE DEF P, A, A2, B, D, C, L
<1>3. \A p \in P : p \notin B /\ p \notin D /\ p \notin C /\ p \notin R /\ p \notin L
  BY <1>2 DEF Kind
<1>4. Grows(A \cup B \cup D \cup C \cup R \cup L, A2 \cup B \cup D \cup C \cup R \cup L, P)
  BY <1>1, <1>3 DEF Grows
<1> QED
  BY <1>4 DEF HeldBy, P, A, A2, B, D, C, L

LEMMA HeldCalls ==
    ASSUME NEW c, NEW c2, NEW n, NEW t, Extends(Owns(c), Owns(c2), n, t),
           NEW w, NEW x, NEW y, NEW R, Kind(R, "ret"), NEW l
    PROVE  Grows(HeldBy(w, x, y, c, R, l), HeldBy(w, x, y, c2, R, l), Pointer("call", 0, n + 1, t))
<1> DEFINE P == Pointer("call", 0, n + 1, t)
           A == RowPtrs("work", w)
           B == Pointer("root", 0, 0, x)
           D == Pointer("dest", 0, 0, y)
           C == RowPtrs("call", Owns(c))
           C2 == RowPtrs("call", Owns(c2))
           L == LostPtrs(l)
<1>1. Grows(C, C2, P)
  BY RowGrows
<1>2. Kind(P, "call") /\ Kind(B, "root") /\ Kind(D, "dest") /\ Kind(A, "work") /\ Kind(L, "lost")
  BY KindsAre
<1> HIDE DEF P, A, B, D, C, C2, L
<1>3. \A p \in P : p \notin B /\ p \notin D /\ p \notin A /\ p \notin R /\ p \notin L
  BY <1>2 DEF Kind
<1>4. Grows(A \cup B \cup D \cup C \cup R \cup L, A \cup B \cup D \cup C2 \cup R \cup L, P)
  BY <1>1, <1>3 DEF Grows
<1> QED
  BY <1>4 DEF HeldBy, P, A, B, D, C, C2, L

\* The single variables.
LEMMA HeldVars ==
    ASSUME NEW w, NEW x, NEW y, NEW c, NEW R, Kind(R, "ret"), NEW l, NEW t
    PROVE  /\ Grows(HeldBy(w, None, y, c, R, l), HeldBy(w, x, y, c, R, l), Pointer("root", 0, 0, x))
           /\ Grows(HeldBy(w, x, None, c, R, l), HeldBy(w, x, y, c, R, l), Pointer("dest", 0, 0, y))
           /\ Grows(HeldBy(w, x, y, c, {}, l), HeldBy(w, x, y, c, Pointer("ret", 0, 0, t), l),
                    Pointer("ret", 0, 0, t))
<1> DEFINE T == Pointer("ret", 0, 0, t)
           A == RowPtrs("work", w)
           B == Pointer("root", 0, 0, x)
           D == Pointer("dest", 0, 0, y)
           C == RowPtrs("call", Owns(c))
           L == LostPtrs(l)
<1>1. /\ Kind(A, "work") /\ Kind(B, "root") /\ Kind(D, "dest") /\ Kind(C, "call") /\ Kind(L, "lost")
      /\ Kind(T, "ret")
  BY KindsAre
<1>2. Pointer("root", 0, 0, None) = {} /\ Pointer("dest", 0, 0, None) = {}
  BY Constants, PointerIs DEF Ptr
<1> HIDE DEF T, A, B, D, C, L
<1>3. \A p \in B : p \notin A /\ p \notin D /\ p \notin C /\ p \notin R /\ p \notin L
  BY <1>1 DEF Kind
<1>4. \A p \in D : p \notin A /\ p \notin B /\ p \notin C /\ p \notin R /\ p \notin L
  BY <1>1 DEF Kind
<1>5. \A p \in T : p \notin A /\ p \notin B /\ p \notin C /\ p \notin D /\ p \notin L
  BY <1>1 DEF Kind
<1>6. Grows(A \cup {} \cup D \cup C \cup R \cup L, A \cup B \cup D \cup C \cup R \cup L, B)
  BY <1>3 DEF Grows
<1>7. Grows(A \cup B \cup {} \cup C \cup R \cup L, A \cup B \cup D \cup C \cup R \cup L, D)
  BY <1>4 DEF Grows
<1>8. Grows(A \cup B \cup D \cup C \cup {} \cup L, A \cup B \cup D \cup C \cup T \cup L, T)
  BY <1>5 DEF Grows
<1> QED
  BY <1>2, <1>6, <1>7, <1>8 DEF HeldBy, T, A, B, D, C, L

LEMMA HeldLost ==
    ASSUME NEW w, NEW x, NEW y, NEW c, NEW R, NEW l, NEW m
    PROVE  HeldBy(w, x, y, c, R, l \cup m) = HeldBy(w, x, y, c, R, l) \cup LostPtrs(m)
<1>1. LostPtrs(l \cup m) = LostPtrs(l) \cup LostPtrs(m)
  BY DEF LostPtrs
<1> QED
  BY <1>1 DEF HeldBy

LEMMA AppendExtends ==
    ASSUME NEW S, NEW w \in Seq(S), NEW x \in S PROVE Extends(w, Append(w, x), Len(w), x)
  BY DEF Extends

LEMMA FrontIs ==
    ASSUME NEW S, NEW w \in Seq(S), w # <<>>
    PROVE  /\ Front(w) \in Seq(S) /\ Len(Front(w)) = Len(w) - 1 /\ Len(w) - 1 \in Nat
           /\ DOMAIN Front(w) = 1..(Len(w) - 1)
           /\ \A i \in 1..(Len(w) - 1) : Front(w)[i] = w[i]
           /\ Extends(Front(w), w, Len(w) - 1, w[Len(w)])
<1>1. Len(w) \in Nat /\ Len(w) # 0 /\ DOMAIN w = 1..Len(w)
  OBVIOUS
<1>2. Front(w) = [i \in 1..(Len(w) - 1) |-> w[i]]
  BY <1>1 DEF Front
<1>3. Len(w) - 1 \in Nat /\ (Len(w) - 1) + 1 = Len(w)
  BY <1>1
<1>4. Front(w) \in Seq(S) /\ Len(Front(w)) = Len(w) - 1
  BY <1>1, <1>2, <1>3
<1> QED
  BY <1>1, <1>2, <1>3, <1>4 DEF Extends

----------------------------------------------------------------------------
(* From owners to the properties. *)

LEMMA InsideIs ==
    ASSUME NEW p
    PROVE  p \in Inside(heap) <=>
             \E a \in Addr, k \in Rows : \E i \in Dom(heap, a, k) : p \in Pointer(k, a, i, At(heap, a, k, i))
<1> DEFINE In(k) == \E a \in Addr : \E i \in Dom(heap, a, k) : p \in Pointer(k, a, i, At(heap, a, k, i))
<1>1. p \in Inside(heap) <=> In("key") \/ In("kid")
  <2>1. p \in (UNION {UNION {Pointer("key", a, i, heap[a].keys[i]) : i \in DOMAIN heap[a].keys} : a \in Addr})
          <=> \E a \in Addr : \E i \in DOMAIN heap[a].keys : p \in Pointer("key", a, i, heap[a].keys[i])
    OBVIOUS
  <2>2. p \in (UNION {UNION {Pointer("kid", a, i, heap[a].kids[i]) : i \in DOMAIN heap[a].kids} : a \in Addr})
          <=> \E a \in Addr : \E i \in DOMAIN heap[a].kids : p \in Pointer("kid", a, i, heap[a].kids[i])
    OBVIOUS
  <2>3. \A a : /\ Dom(heap, a, "key") = DOMAIN heap[a].keys /\ Dom(heap, a, "kid") = DOMAIN heap[a].kids
               /\ \A i : /\ At(heap, a, "key", i) = heap[a].keys[i]
                         /\ At(heap, a, "kid", i) = heap[a].kids[i]
    BY DEF Dom, At, Row
  <2> QED
    BY <2>1, <2>2, <2>3 DEF Inside
<1>2. In("key") \/ In("kid") <=> \E k \in Rows : In(k)
  BY DEF Rows
<1> QED
  BY <1>1, <1>2

\* With one owner for each block there is nothing dangling and nothing lost.
LEMMA Owned == AllOwned(Held, heap) => NoDangling /\ NothingLost
<1> SUFFICES ASSUME AllOwned(Held, heap) PROVE NoDangling /\ NothingLost
  OBVIOUS
<1>1. ASSUME NEW p \in Inside(heap)
      PROVE  \E a \in Addr, k \in Rows : \E i \in Dom(heap, a, k) :
               p = [kind |-> k, of |-> a, place |-> i, to |-> At(heap, a, k, i)]
               /\ p.to = At(heap, a, k, i) /\ p.to \in Addr
  <2>1. PICK a \in Addr, k \in Rows : \E i \in Dom(heap, a, k) : p \in Pointer(k, a, i, At(heap, a, k, i))
    BY InsideIs
  <2>2. PICK i \in Dom(heap, a, k) : p \in Pointer(k, a, i, At(heap, a, k, i))
    BY <2>1
  <2>3. /\ At(heap, a, k, i) \in Addr /\ p.to = At(heap, a, k, i)
        /\ p = [kind |-> k, of |-> a, place |-> i, to |-> At(heap, a, k, i)]
    BY <2>2 DEF Pointer
  <2> QED
    BY <2>3
<1>2. ASSUME NEW p \in Pointers PROVE heap[p.to] # Free
  <2>1. CASE p \in Held
    BY <2>1 DEF AllOwned, Exclusive
  <2>2. CASE p \in Inside(heap)
    <3>1. PICK a \in Addr, k \in Rows : \E i \in Dom(heap, a, k) : p.to = At(heap, a, k, i) /\ p.to \in Addr
      BY <1>1, <2>2
    <3> QED
      BY <3>1, Constants DEF AllOwned, Exclusive
  <2> QED
    BY <2>1, <2>2 DEF Pointers
<1>3. ASSUME NEW p \in Pointers, NEW q \in Pointers, q.to = p.to PROVE q = p
  <2>1. CASE p \in Held /\ q \in Held
    BY <1>3, <2>1 DEF AllOwned, Exclusive
  <2>2. ASSUME NEW r \in Held, NEW s \in Inside(heap), r.to = s.to PROVE FALSE
    <3>1. PICK a \in Addr, k \in Rows : \E i \in Dom(heap, a, k) : s.to = At(heap, a, k, i) /\ s.to \in Addr
      BY <1>1
    <3> QED
      BY <2>2, <3>1, Constants DEF AllOwned, Exclusive
  <2>3. CASE p \in Inside(heap) /\ q \in Inside(heap)
    <3>1. PICK a \in Addr, k \in Rows : \E i \in Dom(heap, a, k) :
               p = [kind |-> k, of |-> a, place |-> i, to |-> At(heap, a, k, i)]
               /\ p.to = At(heap, a, k, i) /\ p.to \in Addr
      BY <1>1, <2>3
    <3>2. PICK i \in Dom(heap, a, k) :
               p = [kind |-> k, of |-> a, place |-> i, to |-> At(heap, a, k, i)]
               /\ p.to = At(heap, a, k, i) /\ p.to \in Addr
      BY <3>1
    <3>3. PICK b \in Addr, l \in Rows : \E j \in Dom(heap, b, l) :
               q = [kind |-> l, of |-> b, place |-> j, to |-> At(heap, b, l, j)]
               /\ q.to = At(heap, b, l, j) /\ q.to \in Addr
      BY <1>1, <2>3
    <3>4. PICK j \in Dom(heap, b, l) :
               q = [kind |-> l, of |-> b, place |-> j, to |-> At(heap, b, l, j)]
               /\ q.to = At(heap, b, l, j) /\ q.to \in Addr
      BY <3>3
    <3>5. b = a /\ l = k /\ j = i
      <4>1. At(heap, b, l, j) = At(heap, a, k, i) /\ At(heap, a, k, i) # NULL_JSON
        BY <1>3, <3>2, <3>4, Constants
      <4> QED
        BY <4>1 DEF AllOwned, Exclusive
    <3> QED
      BY <3>2, <3>4, <3>5
  <2> QED
    BY <1>3, <2>1, <2>2, <2>3 DEF Pointers
<1>4. NoDangling
  BY <1>2, <1>3 DEF NoDangling
<1>5. NothingLost
  <2> SUFFICES ASSUME NEW a \in Addr, heap[a] # Free PROVE \E p \in Pointers : p.to = a
    BY DEF NothingLost
  <2>1. CASE \E e \in Held : e.to = a
    BY <2>1 DEF Pointers
  <2>2. ASSUME NEW b \in Addr, NEW k \in Rows, NEW i \in Dom(heap, b, k), At(heap, b, k, i) = a
        PROVE  \E p \in Pointers : p.to = a
    <3>1. PICK p \in Pointer(k, b, i, At(heap, b, k, i)) : p.to = a
      BY <2>2, PointerIs
    <3>2. p \in Inside(heap)
      BY <3>1, InsideIs
    <3> QED
      BY <3>1, <3>2 DEF Pointers
  <2> QED
    BY <2>1, <2>2 DEF AllOwned, Covered
<1> QED
  BY <1>4, <1>5

----------------------------------------------------------------------------
(* What the calls of the parser do. *)

LEMMA HeldHas ==
    ASSUME CallsFit(calls, heap)
    PROVE  /\ \A i \in DOMAIN calls : /\ Pointer("call", 0, i, calls[i].own) \subseteq Held
                                     /\ \E e \in Held : e.to = calls[i].own /\ e.kind = "call" /\ e.place = i
           /\ mode = "return" => Pointer("ret", 0, 0, ret.json) \subseteq Held
           /\ Pointer("root", 0, 0, root) \subseteq Held /\ Pointer("dest", 0, 0, dest) \subseteq Held
           /\ \A i \in DOMAIN work : Pointer("work", 0, i, work[i]) \subseteq Held
<1>1. ASSUME NEW i \in DOMAIN calls
      PROVE  /\ Pointer("call", 0, i, calls[i].own) \subseteq Held
             /\ \E e \in Held : e.to = calls[i].own /\ e.kind = "call" /\ e.place = i
  <2>1. Pointer("call", 0, i, calls[i].own) \subseteq Held
    BY DEF Held
  <2>2. calls[i].own \in Addr
    <3>1. calls \in Seq(Frame)
      BY DEF CallsFit
    <3>2. calls[i] \in Frame
      BY <3>1
    <3> QED
      BY <3>2 DEF Frame
  <2>3. PICK e \in Pointer("call", 0, i, calls[i].own) : e.to = calls[i].own
    BY <2>2, PointerIs
  <2>4. e.kind = "call" /\ e.place = i
    BY PointerIs, PointerPlace
  <2> QED
    BY <2>1, <2>3, <2>4
<1>2. mode = "return" => Pointer("ret", 0, 0, ret.json) \subseteq Held
  BY DEF Held
<1>3. Pointer("root", 0, 0, root) \subseteq Held /\ Pointer("dest", 0, 0, dest) \subseteq Held
  BY DEF Held
<1>4. \A i \in DOMAIN work : Pointer("work", 0, i, work[i]) \subseteq Held
  BY DEF Held
<1> QED
  BY <1>1, <1>2, <1>3, <1>4

\* Two places from which a block is held hold two blocks.
LEMMA Distinct ==
    ASSUME NEW E, NEW h, AllOwned(E, h), NEW e \in E, NEW f \in E, e.kind # f.kind \/ e.place # f.place
    PROVE  e.to # f.to
  BY DEF AllOwned, Exclusive

LEMMA CallsStay ==
    ASSUME CallsFit(calls, heap), NEW g, NEW f, Stay(Held, heap, g, f)
    PROVE  CallsFit(calls, g) /\ \A i \in DOMAIN calls : calls[i].own # f
<1>1. ASSUME NEW i \in DOMAIN calls PROVE g[calls[i].own] = heap[calls[i].own] /\ calls[i].own # f
  BY HeldHas DEF Stay
<1> QED
  BY <1>1 DEF CallsFit

LEMMA CallsKeep ==
    ASSUME NEW c, NEW h, NEW g, CallsFit(c, h), SameTypes(h, g)
    PROVE  CallsFit(c, g)
<1>1. c \in Seq(Frame)
  BY DEF CallsFit
<1>2. ASSUME NEW i \in DOMAIN c PROVE c[i].own \in Addr
  <2>1. c[i] \in Frame
    BY <1>1
  <2> QED
    BY <2>1 DEF Frame
<1> QED
  BY <1>2 DEF CallsFit, SameTypes

LEMMA TopIs ==
    ASSUME CallsFit(calls, heap), calls # <<>>
    PROVE  /\ Len(calls) \in Nat \ {0} /\ DOMAIN calls = 1..Len(calls)
           /\ Top.own \in Addr /\ Top.fn \in {"object", "list", "pair"}
           /\ heap[Top.own].type = FnType(Top.fn)
           /\ Top = calls[Len(calls)] /\ Len(calls) \in DOMAIN calls
           /\ Top.fn = "pair" => /\ Len(calls) > 1 /\ calls[Len(calls) - 1].fn = "object"
                                /\ calls[Len(calls) - 1].own \in Addr
                                /\ heap[calls[Len(calls) - 1].own].type = "OBJECT"
           /\ Top.fn # "pair" => Len(calls) = 1 \/ calls[Len(calls) - 1].fn \in {"list", "pair"}
<1>1. calls \in Seq(Frame) /\ Len(calls) \in Nat \ {0} /\ DOMAIN calls = 1..Len(calls)
  BY DEF CallsFit
<1>2. Len(calls) \in DOMAIN calls /\ Top = calls[Len(calls)] /\ Top \in Frame
  BY <1>1 DEF Top
<1>3. ASSUME Top.fn = "pair"
      PROVE  /\ Len(calls) > 1 /\ calls[Len(calls) - 1].fn = "object"
             /\ calls[Len(calls) - 1].own \in Addr
             /\ heap[calls[Len(calls) - 1].own].type = "OBJECT"
  <2>1. Len(calls) > 1 /\ calls[Len(calls) - 1].fn = "object"
    BY <1>2, <1>3 DEF CallsFit
  <2>2. Len(calls) - 1 \in DOMAIN calls
    BY <1>1, <2>1
  <2> QED
    <3> DEFINE r == calls[Len(calls) - 1]
    <3>1. r \in Frame
      BY <1>1, <2>2
    <3>2. heap[r.own].type = FnType(r.fn)
      BY <2>2 DEF CallsFit
    <3> QED
      BY <2>1, <3>1, <3>2 DEF Frame, FnType
<1> QED
  BY <1>1, <1>2, <1>3 DEF CallsFit, Frame

\* The stack without its innermost frame.
LEMMA PoppedIs ==
    ASSUME CallsFit(calls, heap), calls # <<>>, NEW g,
           \A i \in 1..(Len(calls) - 1) : g[calls[i].own].type = heap[calls[i].own].type
    PROVE  /\ CallsFit(Popped, g)
           /\ Popped # <<>> => Popped[Len(Popped)] = calls[Len(calls) - 1] /\ Len(calls) > 1
           /\ Popped = <<>> => Len(calls) = 1
           /\ Extends(Owns(Popped), Owns(calls), Len(calls) - 1, Top.own)
<1>1. calls \in Seq(Frame) /\ Len(calls) \in Nat \ {0} /\ DOMAIN calls = 1..Len(calls)
  BY DEF CallsFit
<1>2. /\ Popped \in Seq(Frame) /\ Len(Popped) = Len(calls) - 1 /\ Len(calls) - 1 \in Nat
      /\ DOMAIN Popped = 1..(Len(calls) - 1)
      /\ \A i \in 1..(Len(calls) - 1) : Popped[i] = calls[i]
  BY <1>1, FrontIs DEF Popped
<1>3. CallsFit(Popped, g)
  <2> SUFFICES ASSUME NEW i \in DOMAIN Popped
               PROVE  /\ g[Popped[i].own].type = FnType(Popped[i].fn)
                      /\ Popped[i].fn = "pair" => i > 1 /\ Popped[i - 1].fn = "object"
                      /\ Popped[i].fn # "pair" => i = 1 \/ Popped[i - 1].fn \in {"list", "pair"}
    BY <1>2 DEF CallsFit
  <2>1. i \in DOMAIN calls /\ i \in 1..(Len(calls) - 1) /\ Popped[i] = calls[i]
    BY <1>1, <1>2
  <2>2. i = 1 \/ Popped[i - 1] = calls[i - 1]
    BY <1>1, <1>2, <2>1
  <2>3. /\ heap[calls[i].own].type = FnType(calls[i].fn)
        /\ calls[i].fn = "pair" => i > 1 /\ calls[i - 1].fn = "object"
        /\ calls[i].fn # "pair" => i = 1 \/ calls[i - 1].fn \in {"list", "pair"}
    BY <2>1 DEF CallsFit
  <2> QED
    BY <2>1, <2>2, <2>3
<1>4. Popped # <<>> => Popped[Len(Popped)] = calls[Len(calls) - 1] /\ Len(calls) > 1
  <2> SUFFICES ASSUME Popped # <<>> PROVE Popped[Len(Popped)] = calls[Len(calls) - 1] /\ Len(calls) > 1
    OBVIOUS
  <2>1. Len(Popped) # 0
    BY <1>2
  <2> QED
    BY <1>1, <1>2, <2>1
<1>5. Popped = <<>> => Len(calls) = 1
  <2> SUFFICES ASSUME Popped = <<>> PROVE Len(calls) = 1
    OBVIOUS
  <2>1. Len(Popped) = 0
    OBVIOUS
  <2>2. Len(calls) - 1 = 0 /\ Len(calls) \in Nat
    BY <1>1, <1>2, <2>1, Zenon
  <2> QED
    BY <2>2
<1>6. Extends(Owns(Popped), Owns(calls), Len(calls) - 1, Top.own)
  <2>1. /\ DOMAIN Owns(Popped) = 1..(Len(calls) - 1) /\ DOMAIN Owns(calls) = 1..Len(calls)
        /\ \A i \in 1..(Len(calls) - 1) : Owns(Popped)[i] = Popped[i].own
        /\ \A i \in 1..Len(calls) : Owns(calls)[i] = calls[i].own
    BY <1>1, <1>2 DEF Owns
  <2>2. (Len(calls) - 1) + 1 = Len(calls) /\ Len(calls) \in 1..Len(calls)
    BY <1>1
  <2>3. \A i \in 1..(Len(calls) - 1) : i \in 1..Len(calls)
    BY <1>1
  <2> QED
    BY <1>2, <2>1, <2>2, <2>3 DEF Extends, Top
<1> QED
  BY <1>3, <1>4, <1>5, <1>6

\* The stack with one more frame.
LEMMA PushedIs ==
    ASSUME CallsFit(calls, heap), NEW fn \in {"object", "list", "pair"}, NEW f \in Addr, NEW g,
           Stay(Held, heap, g, f), g[f].type = FnType(fn),
           fn = "pair" => calls # <<>> /\ Top.fn = "object",
           fn # "pair" => Expecting
    PROVE  /\ CallsFit(Pushed(fn, f), g)
           /\ Pushed(fn, f) # <<>> /\ Pushed(fn, f)[Len(Pushed(fn, f))].fn = fn
           /\ Extends(Owns(calls), Owns(Pushed(fn, f)), Len(calls), f)
<1> DEFINE r == [fn |-> fn, own |-> f]
           c == Pushed(fn, f)
           n == Len(calls) + 1
<1>1. calls \in Seq(Frame) /\ Len(calls) \in Nat /\ DOMAIN calls = 1..Len(calls) /\ r \in Frame
  BY DEF CallsFit, Frame
<1>2. /\ c \in Seq(Frame) /\ Len(c) = n /\ DOMAIN c = 1..n /\ c[n] = r
      /\ \A i \in 1..Len(calls) : c[i] = calls[i]
  BY <1>1 DEF Pushed
<1>3. c # <<>> /\ c[Len(c)].fn = fn
  BY <1>1, <1>2
<1>4. CallsFit(calls, g)
  BY CallsStay
<1>5. CallsFit(c, g)
  <2> SUFFICES ASSUME NEW i \in 1..n
               PROVE  /\ g[c[i].own].type = FnType(c[i].fn)
                      /\ c[i].fn = "pair" => i > 1 /\ c[i - 1].fn = "object"
                      /\ c[i].fn # "pair" => i = 1 \/ c[i - 1].fn \in {"list", "pair"}
    BY <1>2 DEF CallsFit
  <2>1. CASE i # n
    <3>1. i \in DOMAIN calls /\ i \in 1..Len(calls) /\ (i = 1 \/ i - 1 \in 1..Len(calls))
      BY <1>1, <2>1
    <3>2. c[i] = calls[i] /\ (i = 1 \/ c[i - 1] = calls[i - 1])
      BY <1>2, <3>1
    <3>3. /\ g[calls[i].own].type = FnType(calls[i].fn)
          /\ calls[i].fn = "pair" => i > 1 /\ calls[i - 1].fn = "object"
          /\ calls[i].fn # "pair" => i = 1 \/ calls[i - 1].fn \in {"list", "pair"}
      BY <1>4, <3>1 DEF CallsFit
    <3> QED
      BY <3>2, <3>3
  <2>2. CASE i = n
    <3>1. c[i].fn = fn /\ c[i].own = f
      BY <1>2, <2>2
    <3>2. calls # <<>> => i > 1 /\ c[i - 1] = Top /\ i # 1
      <4>1. ASSUME calls # <<>> PROVE Len(calls) # 0
        BY <1>1, <4>1
      <4> QED
        BY <1>1, <1>2, <2>2, <4>1 DEF Top
    <3>3. calls = <<>> => i = 1
      BY <2>2
    <3> QED
      BY <3>1, <3>2, <3>3 DEF Expecting
  <2> QED
    BY <2>1, <2>2
<1>6. Extends(Owns(calls), Owns(c), Len(calls), f)
  <2>1. /\ DOMAIN Owns(calls) = 1..Len(calls) /\ DOMAIN Owns(c) = 1..n
        /\ \A i \in 1..Len(calls) : Owns(calls)[i] = calls[i].own
        /\ \A i \in 1..n : Owns(c)[i] = c[i].own
    BY <1>1, <1>2 DEF Owns
  <2>2. n \in 1..n /\ \A i \in 1..Len(calls) : i \in 1..n
    BY <1>1
  <2> QED
    BY <1>1, <1>2, <2>1, <2>2 DEF Extends
<1> QED
  BY <1>3, <1>5, <1>6

\* The parser alone works.
Parsing == phase = "read" /\ UNCHANGED <<work, root, dest, phase>>

\* Then the rest of the invariant says little.
LEMMA ParsingKeeps ==
    ASSUME IInv, Parsing, lost' \subseteq Addr, CallsFit(calls', heap'), ModeOK', Sound(Held', heap')
    PROVE  IInv'
<1>1. ProgramOK'
  BY DEF IInv, ProgramOK, Parsing
<1> QED
  BY <1>1 DEF IInv

\* A call returns an error, a null value or a value that it has built.
LEMMA ReturnKeeps ==
    ASSUME IInv, Parsing, UNCHANGED <<lost, calls>>, mode \in {"value", "pair", "next"},
           NEW ps, NEW json, Return(ps, json),
           IF ps = "SUCCESS" THEN Expecting /\ json \in Ptr ELSE json = None,
           \/ heap' = heap /\ json \notin Addr
           \/ /\ json \in Addr /\ Sound(Held \cup Pointer("ret", 0, 0, json), heap')
              /\ Stay(Held, heap, heap', json)
    PROVE  IInv'
<1>1. mode' = "return" /\ ret' = [ps |-> ps, json |-> json] /\ ret'.ps = ps /\ ret'.json = json
  BY DEF Return
<1>2. RetPtrs(mode, ret) = {} /\ RetPtrs(mode', ret') = Pointer("ret", 0, 0, json)
  BY <1>1 DEF RetPtrs
<1>3. Held' = Held \cup Pointer("ret", 0, 0, json)
  <2>1. Held = HeldBy(work, root, dest, calls, {}, lost)
    BY <1>2, HeldIs
  <2>2. Held' = HeldBy(work, root, dest, calls, Pointer("ret", 0, 0, json), lost)
    BY <1>2, HeldIs DEF Parsing
  <2>3. Kind({}, "ret")
    BY DEF Kind
  <2> QED
    BY <2>1, <2>2, <2>3, HeldVars DEF Grows
<1>4. Sound(Held', heap')
  <2>1. CASE heap' = heap /\ json \notin Addr
    <3>1. Held' = Held
      BY <1>3, <2>1, PointerIs
    <3> QED
      BY <2>1, <3>1 DEF IInv
  <2>2. CASE Sound(Held \cup Pointer("ret", 0, 0, json), heap')
    BY <1>3, <2>2
  <2> QED
    BY <2>1, <2>2
<1>5. CallsFit(calls', heap')
  BY CallsStay DEF IInv
<1>6. ModeOK'
  BY <1>1 DEF ModeOK, Expecting, Top
<1>7. lost' \subseteq Addr
  BY DEF IInv, ProgramOK
<1> QED
  BY <1>4, <1>5, <1>6, <1>7, ParsingKeeps

\* A call begins that owns what it has built.
LEMMA PushKeeps ==
    ASSUME IInv, Parsing, UNCHANGED lost, mode \in {"value", "pair"},
           NEW fn \in {"object", "list", "pair"}, NEW f \in Addr,
           fn = "pair" => mode = "pair", fn # "pair" => mode = "value",
           calls' = Pushed(fn, f),
           \/ Fail
           \/ mode' = IF fn = "object" THEN "pair" ELSE "value",
           Sound(Held \cup Pointer("call", 0, Len(calls) + 1, f), heap'),
           Stay(Held, heap, heap', f), heap'[f].type = FnType(fn)
    PROVE  IInv'
<1>1. /\ CallsFit(calls', heap')
      /\ calls' # <<>> /\ calls'[Len(calls')].fn = fn
      /\ Extends(Owns(calls), Owns(calls'), Len(calls), f)
  BY PushedIs DEF IInv, ModeOK
<1>2. RetPtrs(mode, ret) = {} /\ RetPtrs(mode', ret') = {}
  BY Constants, PointerIs DEF RetPtrs, Fail, Return, Ptr
<1>3. Held' = Held \cup Pointer("call", 0, Len(calls) + 1, f)
  <2>1. Held = HeldBy(work, root, dest, calls, {}, lost)
    BY <1>2, HeldIs
  <2>2. Held' = HeldBy(work, root, dest, calls', {}, lost)
    BY <1>2, HeldIs DEF Parsing
  <2>3. Kind({}, "ret")
    BY DEF Kind
  <2> QED
    BY <1>1, <2>1, <2>2, <2>3, HeldCalls DEF Grows
<1>4. ModeOK'
  BY <1>1 DEF ModeOK, Expecting, Top, Fail, Return
<1>5. lost' \subseteq Addr
  BY DEF IInv, ProgramOK
<1> QED
  BY <1>1, <1>3, <1>4, <1>5, ParsingKeeps

LEMMA SoundMove ==
    ASSUME NEW E, NEW h, Sound(E, h), NEW k, NEW o, NEW i, NEW l, NEW p, NEW j, NEW t,
           Pointer(k, o, i, t) \subseteq E
    PROVE  Sound((E \ Pointer(k, o, i, t)) \cup Pointer(l, p, j, t), h)
  BY OwnMove DEF Sound

\* The functions of parser.c keep the invariant, one by one.
LEMMA NoValueKeeps == ASSUME IInv, Parsing, NoValue PROVE IInv'
  BY ReturnKeeps, Constants DEF NoValue, Fail, Ptr

LEMMA WordKeeps ==
    ASSUME IInv, Parsing, NEW word, NEW first, Word(word, first),
           word # Null => \E b : first = Block("BOOLEAN", <<>>, <<>>, b)
    PROVE  IInv'
<1>1. mode = "value" /\ UNCHANGED <<lost, calls>> /\ Expecting
  BY DEF Word, IInv, ModeOK
<1>2. CASE Fail /\ UNCHANGED heap
  BY <1>1, <1>2, ReturnKeeps, Constants DEF Fail, Ptr
<1>3. CASE Return("SUCCESS", NULL_JSON) /\ UNCHANGED heap
  BY <1>1, <1>3, ReturnKeeps, Constants DEF Ptr
<1>4. ASSUME HasRoom(heap), heap' = New(heap, first), Return("SUCCESS", Fresh(heap)), word # Null
      PROVE  IInv'
  <2>1. PICK b : first = Block("BOOLEAN", <<>>, <<>>, b)
    BY <1>4
  <2>2. /\ Fresh(heap) \in Addr
        /\ Sound(Held \cup Pointer("ret", 0, 0, Fresh(heap)), heap')
        /\ Stay(Held, heap, heap', Fresh(heap))
    BY <1>4, <2>1, NewIsSound DEF IInv
  <2> QED
    BY <1>1, <1>4, <2>2, ReturnKeeps DEF Ptr
<1> QED
  BY <1>2, <1>3, <1>4 DEF Word

LEMMA ParseWordKeeps == ASSUME IInv, Parsing, ParseWord PROVE IInv'
<1>1. \A b : JsonBoolean(b) = Block("BOOLEAN", <<>>, <<>>, <<b>>)
  BY DEF JsonBoolean
<1>2. CASE Word(True, JsonBoolean(1))
  BY <1>1, <1>2, WordKeeps
<1>3. CASE Word(False, JsonBoolean(0))
  BY <1>1, <1>3, WordKeeps
<1>4. CASE Word(Null, Free)
  BY <1>4, WordKeeps
<1> QED
  BY <1>2, <1>3, <1>4 DEF ParseWord

LEMMA ParseStringKeeps == ASSUME IInv, Parsing, ParseString PROVE IInv'
<1>1. mode = "value" /\ UNCHANGED <<lost, calls>> /\ Expecting
  BY DEF ParseString, IInv, ModeOK
<1>2. CASE Fail /\ UNCHANGED heap
  BY <1>1, <1>2, ReturnKeeps, Constants DEF Fail, Ptr
<1>3. ASSUME NEW x, HasRoom(heap), HasRoom(New(heap, String(x))),
             heap' = New(New(heap, String(x)), JsonString(Fresh(heap))),
             Return("SUCCESS", Fresh(New(heap, String(x))))
      PROVE  IInv'
  <2> DEFINE f == Fresh(New(heap, String(x)))
  <2>1. /\ f \in Addr
        /\ Sound(Held \cup Pointer("ret", 0, 0, f), heap')
        /\ Stay(Held, heap, heap', f)
    BY <1>3, NewStringIsSound DEF IInv
  <2> QED
    BY <1>1, <1>3, <2>1, ReturnKeeps DEF Ptr
<1> QED
  BY <1>2, <1>3 DEF ParseString

LEMMA ParseNumberKeeps == ASSUME IInv, Parsing, ParseNumber PROVE IInv'
<1>1. mode = "value" /\ UNCHANGED <<lost, calls>> /\ Expecting
  BY DEF ParseNumber, IInv, ModeOK
<1>2. CASE Fail /\ UNCHANGED heap
  BY <1>1, <1>2, ReturnKeeps, Constants DEF Fail, Ptr
<1>3. ASSUME NEW x, HasRoom(heap), heap' = New(heap, JsonNumber(x)), Return("SUCCESS", Fresh(heap))
      PROVE  IInv'
  <2>1. /\ Fresh(heap) \in Addr
        /\ Sound(Held \cup Pointer("ret", 0, 0, Fresh(heap)), heap')
        /\ Stay(Held, heap, heap', Fresh(heap))
    BY <1>3, NewIsSound DEF IInv, JsonNumber
  <2> QED
    BY <1>1, <1>3, <2>1, ReturnKeeps DEF Ptr
<1> QED
  BY <1>2, <1>3 DEF ParseNumber

LEMMA OpenKeeps ==
    ASSUME IInv, Parsing, NEW fn \in {"list", "object"}, NEW opening, NEW new, NEW then,
           new = Block(FnType(fn), <<>>, <<>>, <<>>), then = IF fn = "object" THEN "pair" ELSE "value",
           Open(fn, opening, new, then)
    PROVE  IInv'
<1> DEFINE f == Fresh(heap)
<1>1. /\ mode = "value" /\ UNCHANGED lost /\ Expecting
      /\ HasRoom(heap) /\ heap' = New(heap, new)
  BY DEF Open, IInv, ModeOK
<1>2. FnType(fn) \in {"LIST", "OBJECT"}
  BY DEF FnType
<1>3. /\ f \in Addr
      /\ Sound(Held \cup Pointer("ret", 0, 0, f), heap')
      /\ Sound(Held \cup Pointer("call", 0, Len(calls) + 1, f), heap')
      /\ Stay(Held, heap, heap', f)
      /\ heap'[f] = new
  BY <1>1, <1>2, NewIsSound DEF IInv
<1>4. heap'[f].type = FnType(fn)
  BY <1>3, BlockIs
<1>5. CASE Return("SUCCESS", f) /\ UNCHANGED calls
  BY <1>1, <1>3, <1>5, ReturnKeeps DEF Ptr
<1>6. CASE (Fail \/ mode' = then) /\ calls' = Pushed(fn, f)
  BY <1>1, <1>3, <1>4, <1>6, PushKeeps
<1> QED
  BY <1>5, <1>6 DEF Open

LEMMA OpensKeep == ASSUME IInv, Parsing, OpenList \/ OpenObject PROVE IInv'
<1>1. CASE OpenList
  BY <1>1, OpenKeeps DEF OpenList, JsonList, FnType
<1>2. CASE OpenObject
  BY <1>2, OpenKeeps DEF OpenObject, JsonObject, FnType
<1> QED
  BY <1>1, <1>2

LEMMA ParseKeyKeeps == ASSUME IInv, Parsing, ParseKey PROVE IInv'
<1>1. mode = "pair" /\ UNCHANGED lost
  BY DEF ParseKey
<1>2. CASE Fail /\ UNCHANGED <<heap, calls>>
  BY <1>1, <1>2, ReturnKeeps, Constants DEF Fail, Ptr
<1>3. ASSUME NEW x, HasRoom(heap), heap' = New(heap, String(x)), calls' = Pushed("pair", Fresh(heap)),
             mode' = "value"
      PROVE  IInv'
  <2>1. /\ Fresh(heap) \in Addr
        /\ Sound(Held \cup Pointer("call", 0, Len(calls) + 1, Fresh(heap)), heap')
        /\ Stay(Held, heap, heap', Fresh(heap))
        /\ heap'[Fresh(heap)] = String(x)
    BY <1>3, NewIsSound DEF IInv, String
  <2>2. heap'[Fresh(heap)].type = FnType("pair")
    BY <2>1, BlockIs DEF String, FnType
  <2> QED
    BY <1>1, <1>3, <2>1, <2>2, PushKeeps
<1> QED
  BY <1>2, <1>3 DEF ParseKey

\* The value that was returned, and the innermost call.
LEMMA Returned ==
    ASSUME IInv, mode = "return", calls # <<>>
    PROVE  /\ \E e \in Held : e.to = Top.own /\ e.kind = "call" /\ e.place = Len(calls)
           /\ Pointer("call", 0, Len(calls), Top.own) \subseteq Held
           /\ Pointer("ret", 0, 0, ret.json) \subseteq Held
           /\ ret.json # Top.own
           /\ ret.ps = "SUCCESS" => ret.json \in Ptr /\ Top.fn \in {"list", "pair"}
           /\ ret.ps # "SUCCESS" => ret.json = None
<1>1. CallsFit(calls, heap) /\ AllOwned(Held, heap)
  BY DEF IInv, Sound
<1>2. Len(calls) \in DOMAIN calls /\ Top = calls[Len(calls)] /\ Top.own \in Addr
  BY <1>1, TopIs
<1>3. /\ Pointer("call", 0, Len(calls), Top.own) \subseteq Held
      /\ \E e \in Held : e.to = Top.own /\ e.kind = "call" /\ e.place = Len(calls)
      /\ Pointer("ret", 0, 0, ret.json) \subseteq Held
  BY <1>1, <1>2, HeldHas
<1>4. PICK e \in Held : e.to = Top.own /\ e.kind = "call"
  BY <1>3
<1>5. ret.json # Top.own
  <2> SUFFICES ASSUME ret.json = Top.own PROVE FALSE
    OBVIOUS
  <2>1. PICK p \in Pointer("ret", 0, 0, ret.json) : p.to = ret.json
    BY <1>2, PointerIs
  <2>2. p.kind = "ret" /\ p \in Held
    BY <1>3, PointerIs
  <2> QED
    BY <1>1, <1>4, <2>1, <2>2, Distinct
<1> QED
  BY <1>3, <1>5 DEF IInv, ModeOK, Expecting

LEMMA Earlier ==
    ASSUME NEW n \in Nat
    PROVE  /\ n > 1 => n - 1 \in 1..n /\ n - 1 # n
           /\ \A i \in 1..(n - 1) : i \in 1..n /\ i # n
  OBVIOUS

\* l_push of the value that was read: the list becomes its owner.
LEMMA PushElementKeeps == ASSUME IInv, Parsing, PushElement PROVE IInv'
<1> DEFINE l == Top.own
           v == ret.json
<1>1. /\ mode = "return" /\ calls # <<>> /\ Top.fn = "list" /\ ret.ps = "SUCCESS"
      /\ heap' = ListPush(heap, l, v) /\ mode' = "next" /\ UNCHANGED <<lost, calls, ret>>
  BY DEF PushElement
<1>2. CallsFit(calls, heap) /\ Sound(Held, heap)
  BY DEF IInv
<1>3. l \in Addr /\ heap[l].type = "LIST"
  BY <1>1, <1>2, TopIs DEF FnType
<1>4. PICK e \in Held : e.to = l
  BY <1>1, Returned
<1>5. v \in Ptr /\ v # l /\ Pointer("ret", 0, 0, v) \subseteq Held
  BY <1>1, Returned
<1>6. /\ Sound(Held \ Pointer("ret", 0, 0, v), heap')
      /\ SameTypes(heap, heap')
  <2> HIDE DEF l, v
  <2>1. Sound(Held \ Pointer("ret", 0, 0, v), ListPush(heap, l, v))
    BY <1>2, <1>3, <1>4, <1>5, PushIsSound
  <2>2. SameTypes(heap, ListPush(heap, l, v))
    BY <1>2, <1>3, <1>4, <1>5, PushIsSound
  <2> QED
    BY <1>1, <2>1, <2>2
<1>7. Held' = Held \ Pointer("ret", 0, 0, v)
  <2>1. RetPtrs(mode, ret) = Pointer("ret", 0, 0, v) /\ RetPtrs(mode', ret') = {}
    BY <1>1 DEF RetPtrs
  <2>2. /\ Held = HeldBy(work, root, dest, calls, Pointer("ret", 0, 0, v), lost)
        /\ Held' = HeldBy(work, root, dest, calls, {}, lost)
    BY <1>1, <2>1, HeldIs DEF Parsing
  <2>3. Kind({}, "ret")
    BY DEF Kind
  <2> QED
    BY <2>2, <2>3, HeldVars DEF Grows
<1>8. CallsFit(calls', heap')
  BY <1>1, <1>2, <1>6, CallsKeep
<1>9. ModeOK'
  BY <1>1 DEF ModeOK, Top
<1>10. lost' \subseteq Addr
  BY <1>1 DEF IInv, ProgramOK
<1> QED
  BY <1>6, <1>7, <1>8, <1>9, <1>10, ParsingKeeps

\* hm_put of the pair that was read: the map becomes the owner of the key and the value,
\* or they and the value before become nobody's.
LEMMA PutPairKeeps == ASSUME IInv, Parsing, PutPair PROVE IInv'
<1> DEFINE n == Len(calls)
           o == calls[n - 1].own
           k == Top.own
           v == ret.json
           K == Pointer("call", 0, n, k)
           V == Pointer("ret", 0, 0, v)
           over == Overwritten(heap, o, k)
<1>1. /\ mode = "return" /\ calls # <<>> /\ Top.fn = "pair" /\ ret.ps = "SUCCESS"
      /\ heap' = HmPut(heap, o, k, v) /\ mode' = "next" /\ lost' = lost \cup over
      /\ calls' = Popped /\ UNCHANGED ret
  BY DEF PutPair
<1>2. CallsFit(calls, heap) /\ Sound(Held, heap) /\ AllOwned(Held, heap)
  BY DEF IInv, Sound
<1>3. /\ n \in Nat \ {0} /\ DOMAIN calls = 1..n /\ k \in Addr /\ n > 1
      /\ calls[n - 1].fn = "object" /\ o \in Addr /\ heap[o].type = "OBJECT"
  BY <1>1, <1>2, TopIs
<1>4. n - 1 \in DOMAIN calls /\ n - 1 # n
  <2> HIDE DEF n
  <2> QED
    BY <1>3, Earlier
<1>5. PICK e \in Held : e.to = o /\ e.kind = "call" /\ e.place = n - 1
  BY <1>2, <1>4, HeldHas
<1>6. PICK d \in Held : d.to = k /\ d.kind = "call" /\ d.place = n
  BY <1>1, Returned
<1>7. v \in Ptr /\ v # k /\ V \subseteq Held /\ K \subseteq Held
  BY <1>1, Returned
<1>8. k # o
  BY <1>2, <1>4, <1>5, <1>6, Distinct
<1>9. v # o
  <2> SUFFICES ASSUME v = o PROVE FALSE
    OBVIOUS
  <2>1. PICK p \in V : p.to = v
    BY <1>3, PointerIs
  <2>2. p.kind = "ret" /\ p \in Held
    BY <1>7, PointerIs
  <2> QED
    BY <1>2, <1>5, <2>1, <2>2, Distinct
<1>10. /\ Sound(((Held \ K) \ V) \cup LostPtrs(over), heap')
       /\ over \subseteq Addr
       /\ SameTypes(heap, heap')
  <2>1. K = Pointer("call", 0, n, k) /\ V = Pointer("ret", 0, 0, v)
    OBVIOUS
  <2>2. over = Overwritten(heap, o, k)
    OBVIOUS
  <2> HIDE DEF n, o, k, v, K, V, over
  <2>3. Sound(Held, heap) /\ o \in Addr /\ heap[o].type = "OBJECT" /\ e \in Held /\ e.to = o
    BY <1>2, <1>3, <1>5
  <2>4. /\ k \in Addr /\ k # o /\ v \in Ptr /\ v # o /\ v # k
        /\ Pointer("call", 0, n, k) \subseteq Held /\ Pointer("ret", 0, 0, v) \subseteq Held
    BY <1>3, <1>7, <1>8, <1>9, <2>1
  <2>5. /\ Sound(((Held \ Pointer("call", 0, n, k)) \ Pointer("ret", 0, 0, v))
                   \cup LostPtrs(Overwritten(heap, o, k)), HmPut(heap, o, k, v))
        /\ Overwritten(heap, o, k) \subseteq Addr
        /\ SameTypes(heap, HmPut(heap, o, k, v))
    BY <2>3, <2>4, PutIsSound
  <2> QED
    BY <1>1, <2>1, <2>2, <2>5
<1>11. /\ CallsFit(calls', heap')
       /\ calls' # <<>> => calls'[Len(calls')] = calls[n - 1]
       /\ calls' = <<>> => n = 1
       /\ Extends(Owns(calls'), Owns(calls), n - 1, k)
  <2>1. \A i \in 1..(n - 1) : heap'[calls[i].own].type = heap[calls[i].own].type
    <3> SUFFICES ASSUME NEW i \in 1..(n - 1) PROVE heap'[calls[i].own].type = heap[calls[i].own].type
      OBVIOUS
    <3>1. i \in DOMAIN calls
      BY <1>3
    <3>2. calls[i] \in Frame
      BY <1>2, <3>1 DEF CallsFit
    <3> QED
      BY <1>10, <3>2 DEF Frame, SameTypes
  <2> QED
    BY <1>1, <1>2, <2>1, PoppedIs
<1>12. Held' = ((Held \ K) \ V) \cup LostPtrs(over)
  <2>1. RetPtrs(mode, ret) = V /\ RetPtrs(mode', ret') = {}
    BY <1>1 DEF RetPtrs
  <2>2. /\ Held = HeldBy(work, root, dest, calls, V, lost)
        /\ Held' = HeldBy(work, root, dest, calls', {}, lost \cup over)
    BY <1>1, <2>1, HeldIs DEF Parsing
  <2>3. Kind({}, "ret") /\ Kind(V, "ret")
    BY KindsAre DEF Kind
  <2>4. (n - 1) + 1 = n
    BY <1>3
  <2>5. HeldBy(work, root, dest, calls', V, lost) = HeldBy(work, root, dest, calls, V, lost) \ K
    <3>1. K = Pointer("call", 0, n, k)
      OBVIOUS
    <3> HIDE DEF n, k, V, K
    <3>2. Grows(HeldBy(work, root, dest, calls', V, lost), HeldBy(work, root, dest, calls, V, lost), K)
      BY <1>11, <2>3, <2>4, <3>1, HeldCalls
    <3> QED
      BY <3>2 DEF Grows
  <2>6. HeldBy(work, root, dest, calls', {}, lost) = HeldBy(work, root, dest, calls', V, lost) \ V
    BY <2>3, HeldVars DEF Grows
  <2> QED
    BY <2>2, <2>5, <2>6, HeldLost
<1>13. ModeOK'
  BY <1>1, <1>3, <1>11 DEF ModeOK, Top
<1>14. lost' \subseteq Addr
  BY <1>1, <1>10 DEF IInv, ProgramOK
<1> QED
  BY <1>10, <1>11, <1>12, <1>13, <1>14, ParsingKeeps

LEMMA NextOrCloseKeeps == ASSUME IInv, Parsing, NextOrClose PROVE IInv'
<1>1. mode = "next" /\ UNCHANGED <<heap, lost>>
  BY DEF NextOrClose
<1>2. /\ calls # <<>> /\ Top.fn \in {"list", "object"} /\ CallsFit(calls, heap) /\ Sound(Held, heap)
  BY <1>1 DEF IInv, ModeOK
<1>3. CASE mode' = (IF Top.fn = "list" THEN "value" ELSE "pair") /\ UNCHANGED <<calls, ret>>
  <2>1. Held' = Held
    BY <1>1, <1>3, HeldIs DEF Parsing, RetPtrs
  <2>2. ModeOK'
    BY <1>2, <1>3 DEF ModeOK, Expecting, Top
  <2> QED
    BY <1>1, <1>2, <1>3, <2>1, <2>2, ParsingKeeps DEF IInv, ProgramOK
<1>4. CASE Fail /\ UNCHANGED calls
  BY <1>1, <1>4, ReturnKeeps, Constants DEF Fail, Ptr
<1>5. CASE Return("SUCCESS", Top.own) /\ calls' = Popped
  <2> DEFINE n == Len(calls)
             t == Top.own
             K == Pointer("call", 0, n, t)
  <2>1. /\ n \in Nat \ {0} /\ DOMAIN calls = 1..n /\ n \in DOMAIN calls /\ Top = calls[n] /\ t \in Addr
        /\ n = 1 \/ calls[n - 1].fn \in {"list", "pair"}
    BY <1>2, TopIs
  <2>2. /\ CallsFit(calls', heap)
        /\ calls' # <<>> => calls'[Len(calls')] = calls[n - 1] /\ n > 1
        /\ Extends(Owns(calls'), Owns(calls), n - 1, t)
    BY <1>2, <1>5, PoppedIs
  <2>3. K \subseteq Held
    BY <1>2, <2>1, HeldHas
  <2>4. Sound((Held \ K) \cup Pointer("ret", 0, 0, t), heap)
    BY <1>2, <2>3, SoundMove
  <2>5. mode' = "return" /\ ret' = [ps |-> "SUCCESS", json |-> t] /\ ret'.json = t
    BY <1>5 DEF Return
  <2>6. Held' = (Held \ K) \cup Pointer("ret", 0, 0, t)
    <3>1. RetPtrs(mode, ret) = {} /\ RetPtrs(mode', ret') = Pointer("ret", 0, 0, t)
      BY <1>1, <2>5 DEF RetPtrs
    <3>2. /\ Held = HeldBy(work, root, dest, calls, {}, lost)
          /\ Held' = HeldBy(work, root, dest, calls', Pointer("ret", 0, 0, t), lost)
      BY <1>1, <3>1, HeldIs DEF Parsing
    <3>3. Kind({}, "ret")
      BY DEF Kind
    <3>4. (n - 1) + 1 = n
      BY <2>1
    <3>5. HeldBy(work, root, dest, calls', {}, lost) = HeldBy(work, root, dest, calls, {}, lost) \ K
      BY <2>2, <3>3, <3>4, HeldCalls DEF Grows
    <3>6. HeldBy(work, root, dest, calls', Pointer("ret", 0, 0, t), lost)
            = HeldBy(work, root, dest, calls', {}, lost) \cup Pointer("ret", 0, 0, t)
      BY <3>3, HeldVars DEF Grows
    <3> QED
      BY <3>2, <3>5, <3>6
  <2>7. ModeOK'
    BY <2>1, <2>2, <2>5 DEF ModeOK, Expecting, Top, Ptr
  <2> QED
    BY <1>1, <2>2, <2>4, <2>6, <2>7, ParsingKeeps DEF IInv, ProgramOK
<1> QED
  BY <1>3, <1>4, <1>5 DEF NextOrClose

\* A call on the way out of an error: what it owns is deleted, and the calls around it
\* keep what they own.
LEMMA PropagateKeeps == ASSUME IInv, Parsing, Propagate PROVE IInv'
<1> DEFINE n == Len(calls)
           t == Top.own
           K == Pointer("call", 0, n, t)
<1>1. mode = "return" /\ calls # <<>> /\ ret.ps # "SUCCESS" /\ calls' = Popped /\ UNCHANGED <<lost, mode, ret>>
  BY DEF Propagate
<1>2. CallsFit(calls, heap) /\ Sound(Held, heap) /\ AllOwned(Held, heap)
  BY DEF IInv, Sound
<1>3. /\ n \in Nat \ {0} /\ DOMAIN calls = 1..n /\ t \in Addr /\ heap[t].type = FnType(Top.fn)
  BY <1>1, <1>2, TopIs
<1>4. heap' = DeleteJson(heap, t)
  BY <1>2, <1>3, DeleteStringIs DEF Propagate, FnType
<1>5. K \subseteq Held /\ ret.json = None
  BY <1>1, Returned
<1>6. Sound(Held \ K, heap') /\ Stay(Held \ K, heap, heap', t)
  BY <1>2, <1>3, <1>4, <1>5, DeleteIsSound DEF Ptr
<1>7. ASSUME NEW i \in 1..(n - 1) PROVE heap'[calls[i].own] = heap[calls[i].own]
  <2>1. i \in DOMAIN calls /\ i # n
    <3> HIDE DEF n
    <3> QED
      BY <1>3, <1>7, Earlier
  <2>2. PICK e \in Held : e.to = calls[i].own /\ e.place = i
    BY <1>2, <2>1, HeldHas
  <2>3. e \notin K
    BY <2>1, <2>2, PointerPlace
  <2> QED
    BY <1>6, <2>2, <2>3 DEF Stay
<1>8. /\ CallsFit(calls', heap')
      /\ Extends(Owns(calls'), Owns(calls), n - 1, t)
  BY <1>1, <1>2, <1>7, PoppedIs
<1>9. Held' = Held \ K
  <2>1. RetPtrs(mode, ret) = {} /\ RetPtrs(mode', ret') = {}
    BY <1>1, <1>5, Constants, PointerIs DEF RetPtrs, Ptr
  <2>2. /\ Held = HeldBy(work, root, dest, calls, {}, lost)
        /\ Held' = HeldBy(work, root, dest, calls', {}, lost)
    BY <1>1, <2>1, HeldIs DEF Parsing
  <2>3. Kind({}, "ret")
    BY DEF Kind
  <2>4. (n - 1) + 1 = n
    BY <1>3
  <2> QED
    BY <1>8, <2>2, <2>3, <2>4, HeldCalls DEF Grows
<1>10. ModeOK'
  BY <1>1, <1>5 DEF ModeOK
<1>11. lost' \subseteq Addr
  BY <1>1 DEF IInv, ProgramOK
<1> QED
  BY <1>6, <1>8, <1>9, <1>10, <1>11, ParsingKeeps

----------------------------------------------------------------------------
(* What the program does. *)

LEMMA ReadingKeeps == ASSUME IInv, Reading PROVE IInv'
<1>1. Parsing /\ ParserStep
  BY DEF Reading, Parsing
<1> QED
  BY <1>1, NoValueKeeps, ParseWordKeeps, ParseStringKeeps, ParseNumberKeeps, OpensKeep, PushElementKeeps,
     ParseKeyKeeps, PutPairKeeps, NextOrCloseKeeps, PropagateKeeps DEF ParserStep

\* Outside of json_from_in_stream its calls hold nothing.
LEMMA Quiet ==
    ASSUME IInv, phase # "read"
    PROVE  /\ mode = "idle" /\ calls = <<>> /\ RetPtrs(mode, ret) = {}
           /\ Sound(Held, heap) /\ AllOwned(Held, heap)
           /\ Held = HeldBy(work, root, dest, <<>>, {}, lost) /\ Kind({}, "ret")
           /\ work \in Seq(Ptr) /\ lost \subseteq Addr /\ {root, dest} \subseteq Ptr \cup {None}
<1>1. mode = "idle" /\ calls = <<>>
  BY DEF IInv, ProgramOK, ModeOK
<1>2. RetPtrs(mode, ret) = {}
  BY <1>1 DEF RetPtrs
<1>3. Held = HeldBy(work, root, dest, <<>>, {}, lost)
  BY <1>1, <1>2, HeldIs
<1> QED
  BY <1>1, <1>2, <1>3 DEF IInv, ProgramOK, Sound, Kind

LEMMA QuietKeeps ==
    ASSUME calls' = <<>>, mode' = "idle", work' \in Seq(Ptr), lost' \subseteq Addr,
           {root', dest'} \subseteq Ptr \cup {None}, phase' = "build" => root' = None,
           phase' # "delete" => dest' = None,
           Sound(HeldBy(work', root', dest', <<>>, {}, lost'), heap')
    PROVE  IInv'
<1>1. Held' = HeldBy(work', root', dest', <<>>, {}, lost')
  <2>1. RetPtrs(mode', ret') = {}
    BY DEF RetPtrs
  <2> QED
    BY <2>1, HeldIs
<1>2. CallsFit(calls', heap')
  <2>1. <<>> \in Seq(Frame) /\ DOMAIN <<>> = {}
    OBVIOUS
  <2> QED
    BY <2>1 DEF CallsFit
<1>3. ModeOK'
  BY DEF ModeOK
<1>4. ProgramOK'
  BY DEF ProgramOK
<1> QED
  BY <1>1, <1>2, <1>3, <1>4 DEF IInv

\* The program comes to hold one value more.
LEMMA WorkGrows ==
    ASSUME IInv, Build, UNCHANGED lost, NEW x \in Ptr, work' = Append(work, x),
           Sound(Held \cup Pointer("work", 0, Len(work) + 1, x), heap')
    PROVE  IInv'
<1>1. phase = "build" /\ UNCHANGED <<calls, mode, phase, root, dest>>
  BY DEF Build, parserVars
<1>2. /\ calls = <<>> /\ mode = "idle" /\ Held = HeldBy(work, root, dest, <<>>, {}, lost) /\ Kind({}, "ret")
      /\ work \in Seq(Ptr) /\ lost \subseteq Addr /\ {root, dest} \subseteq Ptr \cup {None}
  BY <1>1, Quiet
<1>3. Extends(work, work', Len(work), x) /\ work' \in Seq(Ptr)
  BY <1>2, AppendExtends
<1>4. Grows(HeldBy(work, root, dest, <<>>, {}, lost), HeldBy(work', root, dest, <<>>, {}, lost),
            Pointer("work", 0, Len(work) + 1, x))
  BY <1>2, <1>3, HeldWork
<1>5. HeldBy(work', root', dest', <<>>, {}, lost') = Held \cup Pointer("work", 0, Len(work) + 1, x)
  BY <1>1, <1>2, <1>4 DEF Grows
<1>6. root = None /\ dest = None
  BY <1>1 DEF IInv, ProgramOK
<1> QED
  BY <1>1, <1>2, <1>3, <1>5, <1>6, QuietKeeps

LEMMA NewJsonStringKeeps == ASSUME IInv, NewJsonString PROVE IInv'
<1>1. Build /\ UNCHANGED lost
  BY DEF NewJsonString
<1>2. PICK x : /\ HasRoom(heap) /\ HasRoom(New(heap, String(x)))
               /\ heap' = New(New(heap, String(x)), JsonString(Fresh(heap)))
               /\ work' = Append(work, Fresh(New(heap, String(x))))
  BY DEF NewJsonString
<1> DEFINE f == Fresh(New(heap, String(x)))
<1>3. /\ f \in Addr
      /\ Sound(Held \cup Pointer("work", 0, Len(work) + 1, f), heap')
  BY <1>2, NewStringIsSound DEF IInv
<1> QED
  BY <1>1, <1>2, <1>3, WorkGrows DEF Ptr

LEMMA NewJsonKeeps == ASSUME IInv, NewJson PROVE IInv'
<1>1. Build /\ UNCHANGED lost /\ HasRoom(heap) /\ work' = Append(work, Fresh(heap))
  BY DEF NewJson
<1>2. \E t \in {"OBJECT", "LIST", "NUMBER", "BOOLEAN"} : \E v : heap' = New(heap, Block(t, <<>>, <<>>, v))
  BY DEF NewJson, JsonNumber, JsonBoolean, JsonList, JsonObject
<1>3. PICK t \in {"OBJECT", "LIST", "NUMBER", "BOOLEAN"} : \E v : heap' = New(heap, Block(t, <<>>, <<>>, v))
  BY <1>2
<1>4. PICK v : heap' = New(heap, Block(t, <<>>, <<>>, v))
  BY <1>3
<1>5. /\ Fresh(heap) \in Addr
      /\ Sound(Held \cup Pointer("work", 0, Len(work) + 1, Fresh(heap)), heap')
  BY <1>1, <1>4, NewIsSound DEF IInv
<1> QED
  BY <1>1, <1>5, WorkGrows DEF Ptr

LEMMA NewJsonNullKeeps == ASSUME IInv, NewJsonNull PROVE IInv'
<1>1. Build /\ UNCHANGED <<heap, lost>> /\ work' = Append(work, NULL_JSON)
  BY DEF NewJsonNull
<1>2. Pointer("work", 0, Len(work) + 1, NULL_JSON) = {}
  BY Constants, PointerIs
<1>3. Sound(Held \cup Pointer("work", 0, Len(work) + 1, NULL_JSON), heap')
  BY <1>1, <1>2 DEF IInv
<1> QED
  BY <1>1, <1>3, WorkGrows DEF Ptr

\* The last two values that the program holds, and what is held without the last.
LEMMA LastTwo ==
    ASSUME IInv, phase = "build", Len(work) > 1, Type(heap, work[Len(work) - 1]) \in {"LIST", "OBJECT"}
    PROVE  LET n == Len(work)
               container == work[n - 1]
               last == work[n]
               V == Pointer("work", 0, n, last)
           IN /\ container \in Addr /\ heap[container].type = Type(heap, container)
              /\ \E e \in Held : e.to = container
              /\ last \in Ptr /\ last # container /\ V \subseteq Held
              /\ Front(work) \in Seq(Ptr)
              /\ HeldBy(Front(work), root, dest, <<>>, {}, lost) = Held \ V
<1> DEFINE n == Len(work)
           container == work[n - 1]
           last == work[n]
           V == Pointer("work", 0, n, last)
<1>1. /\ Held = HeldBy(work, root, dest, <<>>, {}, lost) /\ Kind({}, "ret") /\ AllOwned(Held, heap)
      /\ work \in Seq(Ptr) /\ CallsFit(calls, heap)
  BY Quiet DEF IInv
<1>2. n \in Nat /\ DOMAIN work = 1..n /\ n - 1 \in 1..n /\ n \in 1..n /\ n - 1 # n /\ (n - 1) + 1 = n /\ work # <<>>
  <2>1. n \in Nat /\ DOMAIN work = 1..n
    BY <1>1
  <2>2. work # <<>> /\ n > 1
    OBVIOUS
  <2> HIDE DEF n
  <2> QED
    BY <2>1, <2>2
<1>3. container \in Ptr /\ last \in Ptr
  <2>1. \A i \in DOMAIN work : work[i] \in Ptr
    BY <1>1
  <2> QED
    BY <1>2, <2>1
<1>4. container \in Addr /\ heap[container].type = Type(heap, container)
  BY <1>3 DEF Type, Ptr
<1>5. V \subseteq Held /\ Pointer("work", 0, n - 1, container) \subseteq Held
  BY <1>1, <1>2, HeldHas
<1>6. PICK e \in Pointer("work", 0, n - 1, container) : e.to = container
  BY <1>4, PointerIs
<1>7. e \in Held /\ e.place = n - 1
  BY <1>5, <1>6, PointerPlace
<1>8. last # container
  <2> SUFFICES ASSUME last = container PROVE FALSE
    OBVIOUS
  <2>1. PICK f \in V : f.to = last
    BY <1>4, PointerIs
  <2>2. f \in Held /\ f.place = n
    BY <1>5, <2>1, PointerPlace
  <2> QED
    BY <1>1, <1>2, <1>6, <1>7, <2>1, <2>2, Distinct
<1>9. Front(work) \in Seq(Ptr) /\ Extends(Front(work), work, n - 1, last)
  BY <1>1, <1>2, FrontIs
<1>10. HeldBy(Front(work), root, dest, <<>>, {}, lost) = Held \ V
  <2>1. V = Pointer("work", 0, (n - 1) + 1, last)
    BY <1>2
  <2> HIDE DEF n, last, V
  <2>2. Grows(HeldBy(Front(work), root, dest, <<>>, {}, lost), HeldBy(work, root, dest, <<>>, {}, lost), V)
    BY <1>1, <1>9, <2>1, HeldWork
  <2> QED
    BY <1>1, <2>2 DEF Grows
<1> QED
  BY <1>3, <1>4, <1>5, <1>6, <1>7, <1>8, <1>9, <1>10

LEMMA PushWorkKeeps == ASSUME IInv, PushWork PROVE IInv'
<1> DEFINE n == Len(work)
           l == work[n - 1]
           v == work[n]
           V == Pointer("work", 0, n, v)
<1>1. /\ phase = "build" /\ UNCHANGED <<calls, mode, phase, root, dest>> /\ UNCHANGED lost
      /\ Len(work) > 1 /\ Type(heap, l) = "LIST" /\ heap' = ListPush(heap, l, v) /\ work' = Front(work)
  BY DEF PushWork, Build, parserVars
<1>2. /\ calls = <<>> /\ mode = "idle" /\ Sound(Held, heap)
      /\ lost \subseteq Addr /\ {root, dest} \subseteq Ptr \cup {None}
  BY <1>1, Quiet
<1>3. /\ l \in Addr /\ heap[l].type = "LIST" /\ \E e \in Held : e.to = l
      /\ v \in Ptr /\ v # l /\ V \subseteq Held
      /\ Front(work) \in Seq(Ptr)
      /\ HeldBy(Front(work), root, dest, <<>>, {}, lost) = Held \ V
  BY <1>1, LastTwo
<1>4. Sound(Held \ V, heap')
  <2>1. V = Pointer("work", 0, n, v) /\ heap' = ListPush(heap, l, v)
    BY <1>1
  <2> HIDE DEF n, l, v, V
  <2>2. PICK e \in Held : e.to = l
    BY <1>3
  <2> QED
    BY <1>2, <1>3, <2>1, <2>2, PushIsSound
<1>5. root = None /\ dest = None
  BY <1>1 DEF IInv, ProgramOK
<1> QED
  BY <1>1, <1>2, <1>3, <1>4, <1>5, QuietKeeps

\* The key is new: until hm_put it is held by a call.
LEMMA PutWorkKeeps == ASSUME IInv, PutWork PROVE IInv'
<1> DEFINE n == Len(work)
           o == work[n - 1]
           v == work[n]
           V == Pointer("work", 0, n, v)
           s == Fresh(heap)
           K == Pointer("call", 0, 1, s)
<1>1. /\ phase = "build" /\ UNCHANGED <<calls, mode, phase, root, dest>>
      /\ Len(work) > 1 /\ Type(heap, o) = "OBJECT" /\ HasRoom(heap) /\ work' = Front(work)
  BY DEF PutWork, Build, parserVars
<1>2. PICK x : /\ heap' = HmPut(New(heap, String(x)), o, s, v)
               /\ lost' = lost \cup Overwritten(New(heap, String(x)), o, s)
  BY DEF PutWork
<1> DEFINE keyed == New(heap, String(x))
           over == Overwritten(keyed, o, s)
<1>3. /\ calls = <<>> /\ mode = "idle" /\ Sound(Held, heap)
      /\ lost \subseteq Addr /\ {root, dest} \subseteq Ptr \cup {None}
  BY <1>1, Quiet
<1>4. /\ o \in Addr /\ heap[o].type = "OBJECT" /\ \E e \in Held : e.to = o
      /\ v \in Ptr /\ v # o /\ V \subseteq Held
      /\ Front(work) \in Seq(Ptr)
      /\ HeldBy(Front(work), root, dest, <<>>, {}, lost) = Held \ V
  BY <1>1, LastTwo
<1>5. /\ s \in Addr /\ Sound(Held \cup K, keyed) /\ Stay(Held, heap, keyed, s)
  BY <1>1, <1>3, NewIsSound DEF String
<1>6. PICK e \in Held : e.to = o
  BY <1>4
<1>7. o # s /\ keyed[o] = heap[o]
  BY <1>5, <1>6 DEF Stay
<1>8. v # s
  <2> SUFFICES ASSUME v = s PROVE FALSE
    OBVIOUS
  <2>1. PICK f \in V : f.to = v
    BY <1>5, PointerIs
  <2> QED
    BY <1>4, <1>5, <2>1 DEF Stay
<1>9. (Held \cup K) \ K = Held
  <2>1. ASSUME NEW p \in K PROVE p.to = s
    BY PointerIs
  <2>2. ASSUME NEW p \in Held PROVE p.to # s
    BY <1>5 DEF Stay
  <2> HIDE DEF K, s
  <2> QED
    BY <2>1, <2>2
<1>10. Sound((Held \ V) \cup LostPtrs(over), heap') /\ over \subseteq Addr
  <2>1. V = Pointer("work", 0, n, v) /\ K = Pointer("call", 0, 1, s) /\ over = Overwritten(keyed, o, s)
    OBVIOUS
  <2>2. heap' = HmPut(keyed, o, s, v) /\ keyed[o].type = "OBJECT"
    BY <1>2, <1>4, <1>7
  <2> HIDE DEF n, o, v, V, s, K, keyed, over
  <2>3. Sound(Held \cup K, keyed) /\ o \in Addr /\ keyed[o].type = "OBJECT" /\ e \in Held \cup K /\ e.to = o
    BY <1>4, <1>5, <1>6, <2>2
  <2>4. /\ s \in Addr /\ s # o /\ v \in Ptr /\ v # o /\ v # s
        /\ Pointer("call", 0, 1, s) \subseteq Held \cup K /\ Pointer("work", 0, n, v) \subseteq Held \cup K
    BY <1>4, <1>5, <1>7, <1>8, <2>1
  <2>5. /\ Sound((((Held \cup K) \ Pointer("call", 0, 1, s)) \ Pointer("work", 0, n, v))
                   \cup LostPtrs(Overwritten(keyed, o, s)), HmPut(keyed, o, s, v))
        /\ Overwritten(keyed, o, s) \subseteq Addr
    BY <2>3, <2>4, PutIsSound
  <2> QED
    BY <1>9, <2>1, <2>2, <2>5
<1>11. HeldBy(work', root', dest', <<>>, {}, lost') = (Held \ V) \cup LostPtrs(over)
  <2>1. lost' = lost \cup over
    BY <1>2
  <2> HIDE DEF over, V
  <2> QED
    BY <1>1, <1>4, <2>1, HeldLost
<1>12. lost' \subseteq Addr
  BY <1>2, <1>3, <1>10
<1>13. root = None /\ dest = None
  BY <1>1 DEF IInv, ProgramOK
<1> QED
  BY <1>1, <1>3, <1>4, <1>10, <1>11, <1>12, <1>13, QuietKeeps

LEMMA WriteKeeps == ASSUME IInv, Write PROVE IInv'
<1> DEFINE v == work[1]
           V == Pointer("work", 0, 1, v)
           R == Pointer("root", 0, 0, v)
<1>1. /\ phase = "build" /\ Len(work) = 1 /\ phase' = "write" /\ root' = v /\ work' = <<>>
      /\ UNCHANGED <<heap, lost, calls, mode, dest>>
  BY DEF Write, StartWriting, parserVars
<1>2. /\ calls = <<>> /\ mode = "idle" /\ Sound(Held, heap) /\ Held = HeldBy(work, root, dest, <<>>, {}, lost)
      /\ Kind({}, "ret") /\ work \in Seq(Ptr) /\ lost \subseteq Addr
  BY <1>1, Quiet
<1>3. root = None /\ dest = None
  BY <1>1 DEF IInv, ProgramOK
<1>4. v \in Ptr /\ Extends(<<>>, work, 0, v)
  BY <1>1, <1>2 DEF Extends
<1>5. Grows(HeldBy(<<>>, root, dest, <<>>, {}, lost), Held, V)
  <2>1. V = Pointer("work", 0, 0 + 1, v)
    OBVIOUS
  <2> HIDE DEF v, V
  <2> QED
    BY <1>2, <1>4, <2>1, HeldWork
<1>6. Grows(HeldBy(<<>>, None, dest, <<>>, {}, lost), HeldBy(<<>>, v, dest, <<>>, {}, lost), R)
  BY <1>2, HeldVars
<1>7. V \subseteq Held
  BY <1>5 DEF Grows
<1>8. Sound((Held \ V) \cup R, heap)
  BY <1>2, <1>7, SoundMove
<1>9. HeldBy(work', root', dest', <<>>, {}, lost') = (Held \ V) \cup R
  BY <1>1, <1>3, <1>5, <1>6 DEF Grows
<1>10. work' \in Seq(Ptr) /\ {root', dest'} \subseteq Ptr \cup {None}
  BY <1>1, <1>3, <1>4
<1> QED
  BY <1>1, <1>2, <1>3, <1>8, <1>9, <1>10, QuietKeeps

\* The parser begins; the program keeps what it holds.
LEMMA BeginKeeps ==
    ASSUME IInv, phase # "read", phase # "delete", phase' = "read", NEW text, Begin(text),
           UNCHANGED <<work, root, dest>>
    PROVE  IInv'
<1>1. mode' = "value" /\ UNCHANGED <<heap, lost, calls, ret>>
  BY DEF Begin
<1>2. /\ calls = <<>> /\ RetPtrs(mode, ret) = {} /\ CallsFit(calls, heap) /\ Sound(Held, heap)
  BY Quiet DEF IInv
<1>3. Held' = Held
  <2>1. RetPtrs(mode', ret') = {}
    BY <1>1 DEF RetPtrs
  <2> QED
    BY <1>1, <1>2, <2>1, HeldIs
<1>4. ModeOK'
  BY <1>1, <1>2 DEF ModeOK, Expecting
<1>5. ProgramOK'
  BY <1>1 DEF IInv, ProgramOK
<1> QED
  BY <1>1, <1>2, <1>3, <1>4, <1>5 DEF IInv

LEMMA ReadKeeps == ASSUME IInv, ReadOwn \/ ReadForeign PROVE IInv'
<1>1. CASE ReadOwn
  BY <1>1, BeginKeeps DEF ReadOwn
<1>2. CASE ReadForeign
  BY <1>2, BeginKeeps DEF ReadForeign
<1> QED
  BY <1>1, <1>2

LEMMA EndReadingKeeps == ASSUME IInv, EndReading PROVE IInv'
<1> DEFINE v == ret.json
           V == Pointer("ret", 0, 0, v)
           D == Pointer("dest", 0, 0, v)
<1>1. /\ phase = "read" /\ mode = "return" /\ calls = <<>> /\ phase' = "delete" /\ dest' = v
      /\ mode' = "idle" /\ UNCHANGED <<heap, lost, calls, work, root>>
  BY DEF EndReading, Parsed
<1>2. /\ work \in Seq(Ptr) /\ lost \subseteq Addr /\ root \in Ptr \cup {None} /\ dest = None
      /\ Sound(Held, heap) /\ v \in Ptr \cup {None}
  BY <1>1 DEF IInv, ProgramOK, ModeOK
<1>3. Held = HeldBy(work, root, dest, <<>>, V, lost)
  BY <1>1, HeldIs DEF RetPtrs
<1>4. Kind({}, "ret")
  BY DEF Kind
<1>5. Grows(HeldBy(work, root, dest, <<>>, {}, lost), HeldBy(work, root, dest, <<>>, V, lost), V)
  BY <1>4, HeldVars
<1>6. Grows(HeldBy(work, root, None, <<>>, {}, lost), HeldBy(work, root, v, <<>>, {}, lost), D)
  BY <1>4, HeldVars
<1>7. Sound((Held \ V) \cup D, heap)
  BY <1>2, <1>3, <1>5, SoundMove DEF Grows
<1>8. HeldBy(work', root', dest', <<>>, {}, lost') = (Held \ V) \cup D
  BY <1>1, <1>2, <1>3, <1>5, <1>6 DEF Grows
<1> QED
  BY <1>1, <1>2, <1>7, <1>8, QuietKeeps

LEMMA DeleteKeeps == ASSUME IInv, Delete PROVE IInv'
<1>1. phase = "delete" /\ UNCHANGED <<lost, calls, mode, work, phase>>
  BY DEF Delete, parserVars
<1>2. /\ calls = <<>> /\ mode = "idle" /\ Sound(Held, heap) /\ Held = HeldBy(work, root, dest, <<>>, {}, lost)
      /\ Kind({}, "ret") /\ work \in Seq(Ptr) /\ lost \subseteq Addr /\ {root, dest} \subseteq Ptr \cup {None}
      /\ CallsFit(calls, heap)
  BY <1>1, Quiet DEF IInv
<1>3. ASSUME root # None, heap' = DeleteJson(heap, root), root' = None, UNCHANGED dest
      PROVE  IInv'
  <2> DEFINE R == Pointer("root", 0, 0, root)
  <2>1. R \subseteq Held
    BY <1>2, HeldHas
  <2>2. Sound(Held \ R, heap')
    BY <1>2, <1>3, <2>1, DeleteIsSound
  <2>3. Grows(HeldBy(work, None, dest, <<>>, {}, lost), HeldBy(work, root, dest, <<>>, {}, lost), R)
    BY <1>2, HeldVars
  <2>4. HeldBy(work', root', dest', <<>>, {}, lost') = Held \ R
    BY <1>1, <1>2, <1>3, <2>3 DEF Grows
  <2> QED
    BY <1>1, <1>2, <1>3, <2>2, <2>4, QuietKeeps
<1>4. ASSUME dest # None, heap' = DeleteJson(heap, dest), dest' = None, UNCHANGED root
      PROVE  IInv'
  <2> DEFINE D == Pointer("dest", 0, 0, dest)
  <2>1. D \subseteq Held
    BY <1>2, HeldHas
  <2>2. Sound(Held \ D, heap')
    BY <1>2, <1>4, <2>1, DeleteIsSound
  <2>3. Grows(HeldBy(work, root, None, <<>>, {}, lost), HeldBy(work, root, dest, <<>>, {}, lost), D)
    BY <1>2, HeldVars
  <2>4. HeldBy(work', root', dest', <<>>, {}, lost') = Held \ D
    BY <1>1, <1>2, <1>4, <2>3 DEF Grows
  <2> QED
    BY <1>1, <1>2, <1>4, <2>2, <2>4, QuietKeeps
<1> QED
  BY <1>3, <1>4 DEF Delete

\* Json_to_stream only reads the tree, and a stutter changes nothing.
LEMMA SameKeeps ==
    ASSUME IInv, UNCHANGED <<heap, lost, calls, mode, ret, work, root, dest, phase>>
    PROVE  IInv'
<1>1. Held' = Held
  BY HeldIs
<1>2. ModeOK' /\ ProgramOK' /\ CallsFit(calls', heap')
  BY DEF IInv, ModeOK, ProgramOK, Expecting, Top
<1> QED
  BY <1>1, <1>2 DEF IInv

LEMMA OthersKeep == ASSUME IInv, Writing \/ Finished \/ UNCHANGED vars PROVE IInv'
<1>1. CASE Writing
  <2>1. UNCHANGED <<heap, lost>>
    BY <1>1 DEF Writing, WriterStep, WriteLeaf, WriteOpening, WriteMember, WriteClosing
  <2> QED
    BY <1>1, <2>1, SameKeeps DEF Writing, parserVars
<1>2. CASE Finished \/ UNCHANGED vars
  BY <1>2, SameKeeps DEF Finished, vars, parserVars
<1> QED
  BY <1>1, <1>2

LEMMA Initially == Init => IInv
<1> SUFFICES ASSUME Init PROVE IInv
  OBVIOUS
<1>1. /\ heap = [a \in Addr |-> Free] /\ lost = {} /\ calls = <<>> /\ mode = "idle"
      /\ work = <<>> /\ phase = "build" /\ root = None /\ dest = None
  BY DEF Init, HeapInit, ParserInit
<1>2. DOMAIN <<>> = {} /\ <<>> \in Seq(Frame) /\ <<>> \in Seq(Ptr)
  OBVIOUS
<1>3. CallsFit(calls, heap) /\ ModeOK /\ ProgramOK
  BY <1>1, <1>2 DEF CallsFit, ModeOK, ProgramOK
<1>4. Held = {}
  <2>1. Pointer("root", 0, 0, None) = {} /\ Pointer("dest", 0, 0, None) = {}
    BY Constants, PointerIs DEF Ptr
  <2> QED
    BY <1>1, <1>2, <2>1 DEF Held
<1>5. \A a \in Addr : Parts(heap[a]) = {}
  BY <1>1, <1>2, FreeIs DEF Parts
<1>6. \A a \in Addr, k \in Rows : Dom(heap, a, k) = {}
  BY <1>1, <1>2, FreeIs DEF Dom, Row
<1>7. AllOwned({}, heap)
  <2>1. PartsOK(heap) /\ Acyclic(heap)
    BY <1>5 DEF PartsOK, Acyclic
  <2>2. Exclusive({}, heap) /\ Covered({}, heap)
    BY <1>1, <1>6 DEF Exclusive, Covered
  <2> QED
    BY <2>1, <2>2 DEF AllOwned
<1>8. Shaped(heap) /\ KeysApart(heap)
  BY <1>1, <1>2, FreeIs DEF Shaped, KeysApart
<1> QED
  BY <1>3, <1>4, <1>7, <1>8 DEF IInv, Sound

\* The invariant holds: the calls of the parser are nested as its functions call each
\* other, and every block has one owner, in a block, in a call or in the program.
THEOREM IInvHolds == Spec => []IInv
<1>1. Init => IInv
  BY Initially
<1>2. IInv /\ [Next]_vars => IInv'
  <2> SUFFICES ASSUME IInv, [Next]_vars PROVE IInv'
    OBVIOUS
  <2>1. CASE NewJsonString
    BY <2>1, NewJsonStringKeeps
  <2>2. CASE NewJson
    BY <2>2, NewJsonKeeps
  <2>3. CASE NewJsonNull
    BY <2>3, NewJsonNullKeeps
  <2>4. CASE PushWork
    BY <2>4, PushWorkKeeps
  <2>5. CASE PutWork
    BY <2>5, PutWorkKeeps
  <2>6. CASE Write
    BY <2>6, WriteKeeps
  <2>7. CASE ReadOwn \/ ReadForeign
    BY <2>7, ReadKeeps
  <2>8. CASE Reading
    BY <2>8, ReadingKeeps
  <2>9. CASE EndReading
    BY <2>9, EndReadingKeeps
  <2>10. CASE Delete
    BY <2>10, DeleteKeeps
  <2>11. CASE Writing \/ Finished \/ UNCHANGED vars
    BY <2>11, OthersKeep
  <2> QED
    BY <2>1, <2>2, <2>3, <2>4, <2>5, <2>6, <2>7, <2>8, <2>9, <2>10, <2>11 DEF Next
<1> QED
  BY <1>1, <1>2, PTL DEF Spec

\* No pointer leads to a freed block, and no block has two owners: delete_json, called
\* by the program or on an error path of parser.c, frees each block once.
THEOREM JsonNoDangling == Spec => []NoDangling
<1>1. IInv => NoDangling
  BY Owned DEF IInv, Sound
<1> QED
  BY <1>1, IInvHolds, PTL

\* Each block that is not freed has an owner, but for those for which hm_put found the
\* key in the map already: a parse that fails deletes all that it has built.
THEOREM JsonNothingLost == Spec => []NothingLost
<1>1. IInv => NothingLost
  BY Owned DEF IInv, Sound
<1> QED
  BY <1>1, IInvHolds, PTL

\* No object has two keys that hm_get takes for the same, however it was put together
\* or read.
THEOREM JsonKeysApart == Spec => []KeysApart(heap)
<1>1. IInv => KeysApart(heap)
  BY DEF IInv, Sound
<1> QED
  BY <1>1, IInvHolds, PTL

----------------------------------------------------------------------------
(* json_equals and Same: two recursions over pairs of trees. *)

\* A function on sets that keeps the order of inclusion has a fixed point.
Ordered(X, Phi) ==
    /\ Phi \in [SUBSET X -> SUBSET X]
    /\ \A R, S \in SUBSET X : R \subseteq S => Phi[R] \subseteq Phi[S]

LEMMA FixedPoint ==
    ASSUME NEW X, NEW Phi, Ordered(X, Phi)
    PROVE  \E G \in SUBSET X : Phi[G] = G
<1> DEFINE G == {x \in X : \E R \in SUBSET X : R \subseteq Phi[R] /\ x \in R}
<1>1. G \in SUBSET X /\ Phi[G] \in SUBSET X
  BY DEF Ordered
<1>2. G \subseteq Phi[G]
  <2> SUFFICES ASSUME NEW x \in G PROVE x \in Phi[G]
    OBVIOUS
  <2>1. PICK R \in SUBSET X : R \subseteq Phi[R] /\ x \in R
    OBVIOUS
  <2>2. R \subseteq G
    BY <2>1
  <2> HIDE DEF G
  <2> QED
    BY <1>1, <2>1, <2>2 DEF Ordered
<1>3. Phi[G] \subseteq Phi[Phi[G]]
  <2> HIDE DEF G
  <2> QED
    BY <1>1, <1>2 DEF Ordered
<1>4. Phi[G] \subseteq G
  BY <1>1, <1>3
<1> QED
  BY <1>1, <1>2, <1>4

\* A relation as a function to the Booleans.
Rel(R) == [p \in ValuePairs |-> p \in R]

\* The bodies of the two recursions.
EqualBody(h, f, a, b) ==
    /\ Type(h, a) = Type(h, b)
    /\ CASE Type(h, a) = "OBJECT" -> HmEquals(h, f, a, b)
         [] Type(h, a) = "LIST" -> LEquals(h, f, a, b)
         [] Type(h, a) = "STRING" -> SEquals(h[h[a].keys[1]].val, h[h[b].keys[1]].val)
         [] Type(h, a) = "NULL" -> TRUE
         [] OTHER -> h[a].val = h[b].val

Text(s) == heap[s].val
KeyTexts(o) == {Text(s) : s \in ToSet(heap[o].keys)}

SameObject(f, a, b) ==
    /\ KeyTexts(a) = KeyTexts(b)
    /\ \A i \in DOMAIN heap[a].keys, j \in DOMAIN heap[b].keys :
         Text(heap[a].keys[i]) = Text(heap[b].keys[j]) => f[<<heap[a].kids[i], heap[b].kids[j]>>]

SameList(f, a, b) ==
    /\ DOMAIN heap[a].kids = DOMAIN heap[b].kids
    /\ \A i \in DOMAIN heap[a].kids : f[<<heap[a].kids[i], heap[b].kids[i]>>]

SameBody(f, a, b) ==
    /\ Type(heap, a) = Type(heap, b)
    /\ CASE Type(heap, a) = "OBJECT" -> SameObject(f, a, b)
         [] Type(heap, a) = "LIST" -> SameList(f, a, b)
         [] Type(heap, a) = "STRING" -> CStr(Text(heap[a].keys[1])) = CStr(Text(heap[b].keys[1]))
         [] Type(heap, a) = "NULL" -> TRUE
         [] OTHER -> heap[a].val = heap[b].val

LEMMA RelIs ==
    ASSUME NEW R, NEW S, R \subseteq S, NEW x \in Ptr, NEW y \in Ptr, Rel(R)[<<x, y>>]
    PROVE  Rel(S)[<<x, y>>]
  BY DEF Rel, ValuePairs, Ptr

\* What is known of the rows of a value.
LEMMA RowsAre ==
    ASSUME NEW h, Shaped(h), NEW a \in Ptr
    PROVE  /\ Type(h, a) \in {"OBJECT", "LIST"} =>
                /\ a \in Addr /\ h[a].kids \in Seq(Ptr) /\ Len(h[a].kids) \in Nat
                /\ DOMAIN h[a].kids = 1..Len(h[a].kids)
                /\ \A i \in DOMAIN h[a].kids : h[a].kids[i] \in Ptr
           /\ Type(h, a) = "OBJECT" =>
                /\ h[a].keys \in Seq(Addr) /\ Len(h[a].keys) = Len(h[a].kids)
                /\ DOMAIN h[a].keys = DOMAIN h[a].kids
<1>1. ASSUME Type(h, a) \in {"OBJECT", "LIST"} PROVE a \in Addr /\ h[a].kids \in Seq(Ptr) /\ Type(h, a) = h[a].type
  BY <1>1 DEF Shaped, ShapeOf, Type, Ptr
<1>2. ASSUME Type(h, a) = "OBJECT" PROVE h[a].keys \in Seq(Addr) /\ Len(h[a].keys) = Len(h[a].kids)
  BY <1>1, <1>2 DEF Shaped, ShapeOf
<1> QED
  BY <1>1, <1>2

\* With more results for the parts there are no fewer for the whole.
LEMMA EqualOrdered ==
    ASSUME NEW h, Shaped(h), NEW R, NEW S, R \subseteq S, NEW a \in Ptr, NEW b \in Ptr,
           EqualBody(h, Rel(R), a, b)
    PROVE  EqualBody(h, Rel(S), a, b)
<1>1. Type(h, a) = Type(h, b)
  BY DEF EqualBody
<1>2. CASE Type(h, a) = "OBJECT"
  <2>1. HmEquals(h, Rel(R), a, b)
    BY <1>2 DEF EqualBody
  <2>2. ASSUME NEW i \in DOMAIN h[a].keys, NEW j \in Matches(h, b, h[h[a].keys[i]].val),
               Rel(R)[<<h[a].kids[i], h[b].kids[j]>>]
        PROVE  Rel(S)[<<h[a].kids[i], h[b].kids[j]>>]
    <3>1. i \in DOMAIN h[a].kids /\ j \in DOMAIN h[b].kids
      BY <1>1, <1>2, RowsAre DEF Matches
    <3>2. h[a].kids[i] \in Ptr /\ h[b].kids[j] \in Ptr
      BY <1>1, <1>2, <3>1, RowsAre
    <3> QED
      BY <2>2, <3>2, RelIs
  <2>3. HmEquals(h, Rel(S), a, b)
    BY <2>1, <2>2 DEF HmEquals
  <2> QED
    BY <1>1, <1>2, <2>3 DEF EqualBody
<1>3. CASE Type(h, a) = "LIST"
  <2> DEFINE x == h[a].kids
             y == h[b].kids
  <2>1. LEquals(h, Rel(R), a, b)
    BY <1>3 DEF EqualBody
  <2>2. /\ Len(x) \in Nat /\ DOMAIN x = 1..Len(x) /\ \A i \in DOMAIN x : x[i] \in Ptr
        /\ DOMAIN y = 1..Len(y) /\ \A i \in DOMAIN y : y[i] \in Ptr
    BY <1>1, <1>3, RowsAre
  <2>3. ASSUME NEW i, NEW j, i \in DOMAIN x, j \in DOMAIN y, Rel(R)[<<x[i], y[j]>>]
        PROVE  Rel(S)[<<x[i], y[j]>>]
    BY <2>2, <2>3, RelIs
  <2>4. CASE a = b
    <3> DEFINE n == Len(x)
    <3>1. \A i \in 1..n \div 2 : Rel(R)[<<x[2 * i - 1], x[2 * i]>>]
      BY <2>1, <2>4 DEF LEquals
    <3>2. ASSUME NEW i \in 1..n \div 2 PROVE 2 * i - 1 \in 1..n /\ 2 * i \in 1..n
      <4> HIDE DEF n
      <4>1. n \in Nat
        BY <2>2 DEF n
      <4> QED
        BY <4>1
    <3>3. \A i \in 1..n \div 2 : Rel(S)[<<x[2 * i - 1], x[2 * i]>>]
      BY <2>2, <2>3, <2>4, <3>1, <3>2
    <3> QED
      BY <1>1, <1>3, <2>4, <3>3 DEF EqualBody, LEquals
  <2>5. CASE a # b
    <3>1. Len(x) = Len(y) /\ \A i \in DOMAIN x : Rel(R)[<<x[i], y[i]>>]
      BY <2>1, <2>5 DEF LEquals
    <3>2. \A i \in DOMAIN x : Rel(S)[<<x[i], y[i]>>]
      BY <2>2, <2>3, <3>1
    <3> QED
      BY <1>1, <1>3, <2>5, <3>1, <3>2 DEF EqualBody, LEquals
  <2> QED
    BY <2>4, <2>5
<1>4. CASE Type(h, a) \notin {"OBJECT", "LIST"}
  BY <1>4 DEF EqualBody
<1> QED
  BY <1>2, <1>3, <1>4

LEMMA SameOrdered ==
    ASSUME Shaped(heap), NEW R, NEW S, R \subseteq S, NEW a \in Ptr, NEW b \in Ptr, SameBody(Rel(R), a, b)
    PROVE  SameBody(Rel(S), a, b)
<1>1. Type(heap, a) = Type(heap, b)
  BY DEF SameBody
<1>2. CASE Type(heap, a) = "OBJECT"
  <2>1. SameObject(Rel(R), a, b)
    BY <1>2 DEF SameBody
  <2>2. ASSUME NEW i \in DOMAIN heap[a].keys, NEW j \in DOMAIN heap[b].keys,
               Rel(R)[<<heap[a].kids[i], heap[b].kids[j]>>]
        PROVE  Rel(S)[<<heap[a].kids[i], heap[b].kids[j]>>]
    <3>1. heap[a].kids[i] \in Ptr /\ heap[b].kids[j] \in Ptr
      BY <1>1, <1>2, RowsAre
    <3> QED
      BY <2>2, <3>1, RelIs
  <2>3. SameObject(Rel(S), a, b)
    BY <2>1, <2>2 DEF SameObject
  <2> QED
    BY <1>1, <1>2, <2>3 DEF SameBody
<1>3. CASE Type(heap, a) = "LIST"
  <2>1. SameList(Rel(R), a, b)
    BY <1>3 DEF SameBody
  <2>2. ASSUME NEW i \in DOMAIN heap[a].kids, i \in DOMAIN heap[b].kids,
               Rel(R)[<<heap[a].kids[i], heap[b].kids[i]>>]
        PROVE  Rel(S)[<<heap[a].kids[i], heap[b].kids[i]>>]
    <3>1. heap[a].kids[i] \in Ptr /\ heap[b].kids[i] \in Ptr
      BY <1>1, <1>3, <2>2, RowsAre
    <3> QED
      BY <2>2, <3>1, RelIs
  <2>3. SameList(Rel(S), a, b)
    BY <2>1, <2>2 DEF SameList
  <2> QED
    BY <1>1, <1>3, <2>3 DEF SameBody
<1>4. CASE Type(heap, a) \notin {"OBJECT", "LIST"}
  BY <1>4 DEF SameBody
<1> QED
  BY <1>2, <1>3, <1>4

\* json_equals has a result, which is what its body says of the results for the parts.
LEMMA JsonEqualsIs ==
    ASSUME NEW h, Shaped(h)
    PROVE  \E f : /\ \A a, b \in Ptr : f[<<a, b>>] = EqualBody(h, f, a, b)
                  /\ \A a, b : JsonEquals(h, a, b) = f[<<a, b>>]
<1> DEFINE Body(g) == [p \in ValuePairs |-> EqualBody(h, g, p[1], p[2])]
           Phi == [R \in SUBSET ValuePairs |-> {p \in ValuePairs : EqualBody(h, Rel(R), p[1], p[2])}]
           f == CHOOSE g : g = Body(g)
<1>1. ASSUME NEW p \in ValuePairs PROVE p[1] \in Ptr /\ p[2] \in Ptr /\ p = <<p[1], p[2]>>
  BY DEF ValuePairs, Ptr
<1>2. Ordered(ValuePairs, Phi)
  <2>1. ASSUME NEW R \in SUBSET ValuePairs, NEW S \in SUBSET ValuePairs, R \subseteq S,
               NEW p \in ValuePairs, EqualBody(h, Rel(R), p[1], p[2])
        PROVE  EqualBody(h, Rel(S), p[1], p[2])
    BY <1>1, <2>1, EqualOrdered
  <2>2. \A R \in SUBSET ValuePairs : Phi[R] \in SUBSET ValuePairs
    OBVIOUS
  <2>3. \A R, S \in SUBSET ValuePairs : R \subseteq S => Phi[R] \subseteq Phi[S]
    BY <2>1
  <2> QED
    BY <2>2, <2>3 DEF Ordered
<1>3. PICK G \in SUBSET ValuePairs : Phi[G] = G
  BY <1>2, FixedPoint
<1>4. Rel(G) = Body(Rel(G))
  <2>1. ASSUME NEW p \in ValuePairs PROVE (p \in G) = EqualBody(h, Rel(G), p[1], p[2])
    <3>1. (p \in G) <=> EqualBody(h, Rel(G), p[1], p[2])
      BY <1>3
    <3>2. EqualBody(h, Rel(G), p[1], p[2]) \in BOOLEAN
      BY DEF EqualBody
    <3> QED
      BY <3>1, <3>2
  <2> QED
    BY <2>1 DEF Rel
<1>5. f = Body(f)
  <2> HIDE DEF Body
  <2> QED
    BY <1>4
<1>6. \A a, b : JsonEquals(h, a, b) = f[<<a, b>>]
  BY DEF JsonEquals, EqualBody
<1> HIDE DEF f
<1>7. \A a, b \in Ptr : f[<<a, b>>] = EqualBody(h, f, a, b)
  <2> SUFFICES ASSUME NEW a \in Ptr, NEW b \in Ptr PROVE f[<<a, b>>] = EqualBody(h, f, a, b)
    OBVIOUS
  <2>1. <<a, b>> \in ValuePairs /\ <<a, b>>[1] = a /\ <<a, b>>[2] = b
    BY DEF ValuePairs, Ptr
  <2> QED
    BY <1>5, <2>1
<1> QED
  BY <1>6, <1>7

LEMMA SameIs ==
    ASSUME Shaped(heap)
    PROVE  \E f : /\ \A a, b \in Ptr : f[<<a, b>>] = SameBody(f, a, b)
                  /\ \A a, b : Same(heap, a, b) = f[<<a, b>>]
<1> DEFINE Body(g) == [p \in ValuePairs |-> SameBody(g, p[1], p[2])]
           Phi == [R \in SUBSET ValuePairs |-> {p \in ValuePairs : SameBody(Rel(R), p[1], p[2])}]
           f == CHOOSE g : g = Body(g)
<1>1. ASSUME NEW p \in ValuePairs PROVE p[1] \in Ptr /\ p[2] \in Ptr /\ p = <<p[1], p[2]>>
  BY DEF ValuePairs, Ptr
<1>2. Ordered(ValuePairs, Phi)
  <2>1. ASSUME NEW R \in SUBSET ValuePairs, NEW S \in SUBSET ValuePairs, R \subseteq S,
               NEW p \in ValuePairs, SameBody(Rel(R), p[1], p[2])
        PROVE  SameBody(Rel(S), p[1], p[2])
    BY <1>1, <2>1, SameOrdered
  <2>2. \A R \in SUBSET ValuePairs : Phi[R] \in SUBSET ValuePairs
    OBVIOUS
  <2>3. \A R, S \in SUBSET ValuePairs : R \subseteq S => Phi[R] \subseteq Phi[S]
    BY <2>1
  <2> QED
    BY <2>2, <2>3 DEF Ordered
<1>3. PICK G \in SUBSET ValuePairs : Phi[G] = G
  BY <1>2, FixedPoint
<1>4. Rel(G) = Body(Rel(G))
  <2>1. ASSUME NEW p \in ValuePairs PROVE (p \in G) = SameBody(Rel(G), p[1], p[2])
    <3>1. (p \in G) <=> SameBody(Rel(G), p[1], p[2])
      BY <1>3
    <3>2. SameBody(Rel(G), p[1], p[2]) \in BOOLEAN
      BY DEF SameBody
    <3> QED
      BY <3>1, <3>2
  <2> QED
    BY <2>1 DEF Rel
<1>5. f = Body(f)
  <2> HIDE DEF Body
  <2> QED
    BY <1>4
<1>6. \A a, b : Same(heap, a, b) = f[<<a, b>>]
  BY DEF Same, SameBody, SameObject, SameList, Text, KeyTexts
<1> HIDE DEF f
<1>7. \A a, b \in Ptr : f[<<a, b>>] = SameBody(f, a, b)
  <2> SUFFICES ASSUME NEW a \in Ptr, NEW b \in Ptr PROVE f[<<a, b>>] = SameBody(f, a, b)
    OBVIOUS
  <2>1. <<a, b>> \in ValuePairs /\ <<a, b>>[1] = a /\ <<a, b>>[2] = b
    BY DEF ValuePairs, Ptr
  <2> QED
    BY <1>5, <2>1
<1> QED
  BY <1>6, <1>7

\* A row that holds nothing twice, and one that holds nothing but what another does.
Apart(x, n) == \A i, j \in 1..n : x[i] = x[j] => i = j
Among(x, n, y, k) == \A i \in 1..n : \E j \in 1..k : x[i] = y[j]

LEMMA Pairing ==
    ASSUME NEW n \in Nat, NEW k \in Nat, NEW x, NEW y, Apart(x, n), Among(x, n, y, k)
    PROVE  n <= k /\ (n = k => Among(y, k, x, n))
<1> DEFINE m == [i \in 1..n |-> CHOOSE j \in 1..k : x[i] = y[j]]
<1>1. ASSUME NEW i \in 1..n PROVE m[i] \in 1..k /\ x[i] = y[m[i]]
  BY <1>1 DEF Among
<1>2. m \in [1..n -> 1..k]
  BY <1>1
<1> HIDE DEF m
<1>3. m \in Injection(1..n, 1..k)
  <2>1. ASSUME NEW i \in 1..n, NEW j \in 1..n, m[i] = m[j] PROVE i = j
    <3>1. x[i] = x[j]
      BY <1>1, <2>1
    <3> QED
      BY <3>1 DEF Apart
  <2>2. DOMAIN m = 1..n
    BY <1>2
  <2>3. IsInjective(m)
    BY <2>1, <2>2 DEF IsInjective
  <2> QED
    BY <1>2, <2>3 DEF Injection
<1>4. /\ IsFiniteSet(1..n) /\ Cardinality(1..n) = n
      /\ IsFiniteSet(1..k) /\ Cardinality(1..k) = k
  BY FS_Interval
<1>5. n <= k /\ (n = k => m \in Surjection(1..n, 1..k))
  BY <1>3, <1>4, FS_Injection
<1>6. ASSUME n = k, NEW j \in 1..k PROVE \E i \in 1..n : x[i] = y[j]
  <2>1. PICK i \in 1..n : m[i] = j
    BY <1>5, <1>6 DEF Surjection
  <2> QED
    BY <1>1, <2>1
<1> QED
  BY <1>5, <1>6 DEF Among

\* No key has a character 0, at which strcmp stops.
KeysWhole ==
    \A a \in Addr : heap[a].type = "OBJECT" =>
       \A i \in DOMAIN heap[a].keys : 0 \notin ToSet(Text(heap[a].keys[i]))

\* hm_get tells keys with different characters apart: it does not if they have the same
\* hash and differ only behind a character 0.
KeysTold ==
    \A a, b \in Addr : heap[a].type = "OBJECT" /\ heap[b].type = "OBJECT" =>
       \A i \in DOMAIN heap[a].keys, j \in DOMAIN heap[b].keys :
          SameKey(Text(heap[b].keys[j]), Text(heap[a].keys[i]))
            => Text(heap[b].keys[j]) = Text(heap[a].keys[i])

LEMMA WholeAreTold == KeysWhole => KeysTold
<1> SUFFICES ASSUME KeysWhole PROVE KeysTold
  OBVIOUS
<1>1. ASSUME NEW x, 0 \notin ToSet(x) PROVE CStr(x) = x
  BY <1>1 DEF ToSet, CStr
<1>2. ASSUME NEW a \in Addr, heap[a].type = "OBJECT", NEW i \in DOMAIN heap[a].keys
      PROVE  CStr(Text(heap[a].keys[i])) = Text(heap[a].keys[i])
  BY <1>1, <1>2 DEF KeysWhole
<1> QED
  BY <1>2 DEF KeysTold, SameKey, SEquals

\* Then hm_get finds the keys that have the same characters.
LEMMA MatchesAre ==
    ASSUME Shaped(heap), KeysTold, NEW a \in Ptr, Type(heap, a) = "OBJECT", NEW b \in Ptr, Type(heap, b) = "OBJECT",
           NEW i \in DOMAIN heap[a].keys
    PROVE  Matches(heap, b, heap[heap[a].keys[i]].val)
             = {j \in DOMAIN heap[b].keys : Text(heap[b].keys[j]) = Text(heap[a].keys[i])}
<1>1. a \in Addr /\ b \in Addr /\ heap[a].type = "OBJECT" /\ heap[b].type = "OBJECT"
  BY RowsAre DEF Type
<1>2. ASSUME NEW j \in DOMAIN heap[b].keys
      PROVE  SameKey(Text(heap[b].keys[j]), Text(heap[a].keys[i]))
               <=> Text(heap[b].keys[j]) = Text(heap[a].keys[i])
  BY <1>1 DEF KeysTold, SameKey, SEquals
<1>3. Matches(heap, b, heap[heap[a].keys[i]].val)
        = {j \in DOMAIN heap[b].keys : SameKey(Text(heap[b].keys[j]), Text(heap[a].keys[i]))}
  BY DEF Matches, SameKey, Text
<1> QED
  BY <1>2, <1>3

\* Keys with the same characters are one key.
LEMMA TextsApart ==
    ASSUME Shaped(heap), KeysApart(heap), NEW a \in Ptr, Type(heap, a) = "OBJECT",
           NEW i \in DOMAIN heap[a].keys, NEW j \in DOMAIN heap[a].keys,
           Text(heap[a].keys[i]) = Text(heap[a].keys[j])
    PROVE  i = j
<1>1. a \in Addr
  BY RowsAre
<1>2. SameKey(heap[heap[a].keys[i]].val, heap[heap[a].keys[j]].val)
  BY DEF SameKey, SEquals, Text
<1> QED
  BY <1>1, <1>2 DEF KeysApart

\* The rows of one object's keys, and another's.
LEMMA KeysPair ==
    ASSUME Shaped(heap), KeysApart(heap), NEW a \in Ptr, Type(heap, a) = "OBJECT",
           NEW b \in Ptr, Type(heap, b) = "OBJECT", KeyTexts(a) \subseteq KeyTexts(b)
    PROVE  /\ Len(heap[a].keys) <= Len(heap[b].keys)
           /\ Len(heap[a].keys) = Len(heap[b].keys) => KeyTexts(b) \subseteq KeyTexts(a)
<1> DEFINE n == Len(heap[a].keys)
           k == Len(heap[b].keys)
           x == [i \in DOMAIN heap[a].keys |-> Text(heap[a].keys[i])]
           y == [i \in DOMAIN heap[b].keys |-> Text(heap[b].keys[i])]
<1>1. n \in Nat /\ k \in Nat /\ DOMAIN heap[a].keys = 1..n /\ DOMAIN heap[b].keys = 1..k
  BY RowsAre
<1>2. Apart(x, n)
  BY <1>1, TextsApart DEF Apart
<1>3. /\ \A t : t \in KeyTexts(a) <=> \E i \in 1..n : t = x[i]
      /\ \A t : t \in KeyTexts(b) <=> \E i \in 1..k : t = y[i]
  BY <1>1 DEF KeyTexts, ToSet
<1> HIDE DEF n, k, x, y
<1>4. Among(x, n, y, k)
  BY <1>3 DEF Among
<1>5. n <= k /\ (n = k => Among(y, k, x, n))
  BY <1>1, <1>2, <1>4, Pairing
<1>6. n = k => KeyTexts(b) \subseteq KeyTexts(a)
  BY <1>3, <1>5 DEF Among
<1> QED
  BY <1>5, <1>6 DEF n, k

\* The two results for a pair of values agree.
Agree(f, g, a, b) == f[<<a, b>>] <=> g[<<a, b>>]

PartsAgree(f, g, a, b) ==
    \A i \in DOMAIN heap[a].kids, j \in DOMAIN heap[b].kids :
       Agree(f, g, heap[a].kids[i], heap[b].kids[j])

\* hm_equals looks up the keys of the first map only, and counts.
LEMMA ObjectsAgree ==
    ASSUME Shaped(heap), KeysApart(heap), KeysTold, NEW a \in Ptr, Type(heap, a) = "OBJECT",
           NEW b \in Ptr, Type(heap, b) = "OBJECT", NEW f, NEW g, PartsAgree(f, g, a, b)
    PROVE  HmEquals(heap, f, a, b) <=> SameObject(g, a, b)
<1> DEFINE x(i) == Text(heap[a].keys[i])
           y(j) == Text(heap[b].keys[j])
<1>1. /\ DOMAIN heap[a].keys = DOMAIN heap[a].kids /\ DOMAIN heap[b].keys = DOMAIN heap[b].kids
      /\ Len(heap[a].keys) \in Nat /\ Len(heap[b].keys) \in Nat
  BY RowsAre
<1>2. \A i \in DOMAIN heap[a].keys :
        Matches(heap, b, heap[heap[a].keys[i]].val) = {j \in DOMAIN heap[b].keys : y(j) = x(i)}
  BY MatchesAre
<1>3. /\ \A t : t \in KeyTexts(a) <=> \E i \in DOMAIN heap[a].keys : t = x(i)
      /\ \A t : t \in KeyTexts(b) <=> \E j \in DOMAIN heap[b].keys : t = y(j)
  BY DEF KeyTexts, ToSet
<1>4. ASSUME HmEquals(heap, f, a, b) PROVE SameObject(g, a, b)
  <2>1. /\ Len(heap[a].keys) = Len(heap[b].keys)
        /\ \A i \in DOMAIN heap[a].keys : \E j \in DOMAIN heap[b].keys :
             y(j) = x(i) /\ f[<<heap[a].kids[i], heap[b].kids[j]>>]
    BY <1>2, <1>4 DEF HmEquals
  <2>2. KeyTexts(a) \subseteq KeyTexts(b)
    BY <1>3, <2>1
  <2>3. KeyTexts(a) = KeyTexts(b)
    BY <2>1, <2>2, KeysPair
  <2>4. ASSUME NEW i \in DOMAIN heap[a].keys, NEW j \in DOMAIN heap[b].keys, x(i) = y(j)
        PROVE  g[<<heap[a].kids[i], heap[b].kids[j]>>]
    <3>1. PICK m \in DOMAIN heap[b].keys : y(m) = x(i) /\ f[<<heap[a].kids[i], heap[b].kids[m]>>]
      BY <2>1
    <3>2. m = j
      BY <2>4, <3>1, TextsApart
    <3> QED
      BY <1>1, <3>1, <3>2 DEF PartsAgree, Agree
  <2> QED
    BY <2>3, <2>4 DEF SameObject
<1>5. ASSUME SameObject(g, a, b) PROVE HmEquals(heap, f, a, b)
  <2>1. /\ KeyTexts(a) = KeyTexts(b)
        /\ \A i \in DOMAIN heap[a].keys, j \in DOMAIN heap[b].keys :
             x(i) = y(j) => g[<<heap[a].kids[i], heap[b].kids[j]>>]
    BY <1>5 DEF SameObject
  <2>2. Len(heap[a].keys) = Len(heap[b].keys)
    <3>1. Len(heap[a].keys) <= Len(heap[b].keys)
      BY <2>1, KeysPair
    <3>2. Len(heap[b].keys) <= Len(heap[a].keys)
      BY <2>1, KeysPair
    <3> QED
      BY <1>1, <3>1, <3>2
  <2>3. ASSUME NEW i \in DOMAIN heap[a].keys
        PROVE  \E j \in Matches(heap, b, heap[heap[a].keys[i]].val) : f[<<heap[a].kids[i], heap[b].kids[j]>>]
    <3>1. PICK j \in DOMAIN heap[b].keys : x(i) = y(j)
      BY <1>3, <2>1
    <3>2. j \in Matches(heap, b, heap[heap[a].keys[i]].val)
      BY <1>2, <3>1
    <3> QED
      BY <1>1, <2>1, <3>1, <3>2 DEF PartsAgree, Agree
  <2> QED
    BY <2>2, <2>3 DEF HmEquals
<1> QED
  BY <1>4, <1>5

LEMMA ListsAgree ==
    ASSUME Shaped(heap), NEW a \in Ptr, Type(heap, a) = "LIST",
           NEW b \in Ptr, Type(heap, b) = "LIST", a # b, NEW f, NEW g, PartsAgree(f, g, a, b)
    PROVE  LEquals(heap, f, a, b) <=> SameList(g, a, b)
<1> DEFINE x == heap[a].kids
           y == heap[b].kids
<1>1. Len(x) \in Nat /\ Len(y) \in Nat /\ DOMAIN x = 1..Len(x) /\ DOMAIN y = 1..Len(y)
  BY RowsAre
<1>2. Len(x) = Len(y) <=> DOMAIN x = DOMAIN y
  <2>1. \A m, n \in Nat : 1..m = 1..n => m = n
    OBVIOUS
  <2> QED
    BY <1>1, <2>1
<1>3. ASSUME DOMAIN x = DOMAIN y, NEW i \in DOMAIN x PROVE f[<<x[i], y[i]>>] <=> g[<<x[i], y[i]>>]
  BY <1>3 DEF PartsAgree, Agree
<1> QED
  BY <1>2, <1>3 DEF LEquals, SameList

\* Two values have no part in common but for null.
LEMMA NoneShared ==
    ASSUME NEW E, Sound(E, heap), NEW a \in Ptr, Type(heap, a) \in {"OBJECT", "LIST"},
           NEW b \in Ptr, Type(heap, b) \in {"OBJECT", "LIST"}, a # b,
           NEW i \in DOMAIN heap[a].kids, NEW j \in DOMAIN heap[b].kids
    PROVE  /\ heap[a].kids[i] \in Ptr /\ heap[b].kids[j] \in Ptr
           /\ heap[a].kids[i] # heap[b].kids[j] \/ heap[a].kids[i] = NULL_JSON
           /\ heap[a].kids[i] \in Parts(heap[a])
<1>1. a \in Addr /\ b \in Addr /\ heap[a].kids[i] \in Ptr /\ heap[b].kids[j] \in Ptr
  BY RowsAre DEF Sound
<1>2. /\ "kid" \in Rows /\ i \in Dom(heap, a, "kid") /\ j \in Dom(heap, b, "kid")
      /\ At(heap, a, "kid", i) = heap[a].kids[i] /\ At(heap, b, "kid", j) = heap[b].kids[j]
  BY DEF Rows, Dom, At, Row
<1>3. heap[a].kids[i] # heap[b].kids[j] \/ heap[a].kids[i] = NULL_JSON
  BY <1>1, <1>2 DEF Sound, AllOwned, Exclusive
<1> QED
  BY <1>1, <1>3 DEF Parts

\* json_equals finds what Same says of two values of which neither is the other.
LEMMA EqualsAgrees ==
    ASSUME NEW E, Sound(E, heap), KeysTold,
           NEW f, \A a, b \in Ptr : f[<<a, b>>] = EqualBody(heap, f, a, b),
           NEW g, \A a, b \in Ptr : g[<<a, b>>] = SameBody(g, a, b)
    PROVE  \A a, b \in Ptr : a # b => Agree(f, g, a, b)
<1>1. Shaped(heap) /\ KeysApart(heap) /\ Acyclic(heap)
  BY DEF Sound, AllOwned
<1>2. \A a \in Addr : Type(heap, a) # "NULL"
  BY <1>1, Constants DEF Shaped, ShapeOf, Type, Types, JsonType
<1>3. ASSUME NEW b \in Ptr PROVE Agree(f, g, NULL_JSON, b)
  <2>1. Type(heap, NULL_JSON) = "NULL" /\ NULL_JSON \in Ptr
    BY DEF Type, Ptr
  <2>2. EqualBody(heap, f, NULL_JSON, b) <=> SameBody(g, NULL_JSON, b)
    BY <2>1 DEF EqualBody, SameBody
  <2> QED
    BY <2>1, <2>2 DEF Agree
<1> DEFINE bad == {a \in Addr : \E b \in Ptr : a # b /\ ~ Agree(f, g, a, b)}
<1>4. bad = {}
  <2> SUFFICES ASSUME bad # {} PROVE FALSE
    OBVIOUS
  <2>1. PICK a \in bad : Parts(heap[a]) \cap bad = {}
    BY <1>1 DEF Acyclic
  <2>2. PICK b \in Ptr : a # b /\ ~ Agree(f, g, a, b)
    OBVIOUS
  <2>3. a \in Addr /\ a \in Ptr
    BY DEF Ptr
  <2>4. ASSUME NEW x \in Parts(heap[a]), x \in Ptr, NEW y \in Ptr, x # y \/ x = NULL_JSON PROVE Agree(f, g, x, y)
    <3>1. CASE x = NULL_JSON
      BY <1>3, <3>1
    <3>2. CASE x \in Addr /\ x # y
      BY <2>1, <2>4, <3>2
    <3> QED
      BY <2>4, <3>1, <3>2 DEF Ptr
  <2> HIDE DEF bad
  <2>5. EqualBody(heap, f, a, b) <=> SameBody(g, a, b)
    <3>1. CASE Type(heap, a) # Type(heap, b)
      BY <3>1 DEF EqualBody, SameBody
    <3>2. CASE Type(heap, a) = Type(heap, b) /\ Type(heap, a) \in {"OBJECT", "LIST"}
      <4>1. PartsAgree(f, g, a, b)
        BY <2>2, <2>3, <2>4, <3>2, NoneShared DEF PartsAgree
      <4>2. CASE Type(heap, a) = "OBJECT"
        <5>1. HmEquals(heap, f, a, b) <=> SameObject(g, a, b)
          BY <1>1, <2>3, <3>2, <4>1, <4>2, ObjectsAgree
        <5> QED
          BY <3>2, <4>2, <5>1 DEF EqualBody, SameBody
      <4>3. CASE Type(heap, a) = "LIST"
        <5>1. LEquals(heap, f, a, b) <=> SameList(g, a, b)
          BY <1>1, <2>2, <2>3, <3>2, <4>1, <4>3, ListsAgree
        <5> QED
          BY <3>2, <4>3, <5>1 DEF EqualBody, SameBody
      <4> QED
        BY <3>2, <4>2, <4>3
    <3>3. CASE Type(heap, a) = Type(heap, b) /\ Type(heap, a) \notin {"OBJECT", "LIST"}
      BY <3>3 DEF EqualBody, SameBody, SEquals, Text
    <3> QED
      BY <3>1, <3>2, <3>3
  <2> QED
    BY <2>2, <2>3, <2>5 DEF Agree
<1> QED
  BY <1>3, <1>4 DEF Ptr

LEMMA SoundEquals == ASSUME IInv, KeysTold PROVE EqualsSame
<1>1. Sound(Held, heap) /\ Shaped(heap)
  BY DEF IInv, Sound
<1>2. PICK f : /\ \A a, b \in Ptr : f[<<a, b>>] = EqualBody(heap, f, a, b)
               /\ \A a, b : JsonEquals(heap, a, b) = f[<<a, b>>]
  BY <1>1, JsonEqualsIs
<1>3. PICK g : /\ \A a, b \in Ptr : g[<<a, b>>] = SameBody(g, a, b)
               /\ \A a, b : Same(heap, a, b) = g[<<a, b>>]
  BY <1>1, SameIs
<1>4. \A a, b \in Ptr : a # b => Agree(f, g, a, b)
  BY <1>1, <1>2, <1>3, EqualsAgrees
<1>5. \A a, b \in Ptr : a # b => (JsonEquals(heap, a, b) <=> Same(heap, a, b))
  <2> TAKE a, b \in Ptr
  <2>1. HAVE a # b
  <2>2. Agree(f, g, a, b)
    BY <1>4, <2>1
  <2>3. JsonEquals(heap, a, b) = f[<<a, b>>] /\ Same(heap, a, b) = g[<<a, b>>]
    BY <1>2, <1>3, Zenon
  <2>4. f[<<a, b>>] <=> g[<<a, b>>]
    BY <2>2 DEF Agree
  <2> HIDE DEF JsonEquals, Same
  <2> QED
    BY <2>3, <2>4, Zenon
<1> QED
  BY <1>5 DEF EqualsSame, Ptr

\* json_equals finds two trees equal exactly if they are, whatever the order of their
\* keys, as long as hm_get tells the keys apart.
THEOREM JsonEqualsSame == Spec => [](KeysTold => EqualsSame)
<1>1. IInv => (KeysTold => EqualsSame)
  BY SoundEquals
<1> QED
  BY <1>1, IInvHolds, PTL

----------------------------------------------------------------------------
(* When nothing is held, nothing is left. *)

\* The blocks of a set each have an owner in it.
OwnersIn(h, T) == T # {} /\ \A a \in T : \E b \in T : a \in Parts(h[b])

\* A chain of owners would be a circle.
LEMMA NoneOwned == ASSUME NEW h, Acyclic(h), NEW T \in SUBSET Addr PROVE ~ OwnersIn(h, T)
<1> DEFINE Sets == {S \in SUBSET Addr : OwnersIn(h, S)}
           Sizes == {Cardinality(S) : S \in Sets}
<1> SUFFICES ASSUME OwnersIn(h, T) PROVE FALSE
  OBVIOUS
<1>1. IsFiniteSet(Addr)
  BY JsonTreeAssumption, FS_Interval DEF Addr
<1>2. ASSUME NEW S \in SUBSET Addr PROVE IsFiniteSet(S) /\ Cardinality(S) \in Nat
  BY <1>1, FS_Subset, FS_CardinalityType
<1>3. Sizes \in SUBSET Nat /\ Sizes # {}
  BY <1>2
<1>4. PICK m \in Sizes : \A n \in Sizes : m <= n
  <2> HIDE DEF Sizes
  <2> QED
    BY <1>3, Minimal
<1>5. PICK S \in SUBSET Addr : OwnersIn(h, S) /\ Cardinality(S) = m
  OBVIOUS
<1>6. PICK s \in S : Parts(h[s]) \cap S = {}
  BY <1>5 DEF Acyclic, OwnersIn
<1>7. OwnersIn(h, S \ {s})
  BY <1>5, <1>6 DEF OwnersIn
<1>8. Cardinality(S \ {s}) = m - 1 /\ m \in Nat
  BY <1>2, <1>5, FS_RemoveElement
<1>9. m - 1 \in Sizes
  BY <1>7, <1>8
<1> QED
  BY <1>4, <1>8, <1>9

LEMMA NothingHeld == ASSUME NEW h, AllOwned({}, h) PROVE \A a \in Addr : h[a] = Free
<1> DEFINE S == {a \in Addr : h[a] # Free}
<1>1. ASSUME NEW a \in S PROVE \E b \in S : a \in Parts(h[b])
  <2>1. PICK b \in Addr, k \in Rows : \E i \in Dom(h, b, k) : At(h, b, k, i) = a
    BY <1>1 DEF AllOwned, Covered
  <2>2. PICK i \in Dom(h, b, k) : At(h, b, k, i) = a
    BY <2>1
  <2>3. a \in Parts(h[b])
    BY <2>2, PartsAre DEF Part
  <2>4. h[b] # Free
    BY <2>3, FreeIs DEF Parts
  <2> QED
    BY <2>3, <2>4
<1>2. S \in SUBSET Addr /\ (S # {} => OwnersIn(h, S))
  BY <1>1 DEF OwnersIn
<1>3. S = {}
  BY <1>2, NoneOwned DEF AllOwned
<1> QED
  BY <1>3

\* The program that writes or reads has put all its values together.
WorkDone ==
    /\ made \in Nat
    /\ made = 0 => work = <<>>
    /\ phase # "build" => work = <<>>

LEMMA WorkDoneHolds == Spec => []WorkDone
<1>1. Init => WorkDone
  BY DEF Init, WorkDone
<1>2. WorkDone /\ [Next]_vars => WorkDone'
  <2> SUFFICES ASSUME WorkDone, [Next]_vars PROVE WorkDone'
    OBVIOUS
  <2>1. CASE Build
    BY <2>1 DEF Build, WorkDone
  <2>2. CASE Write
    BY <2>2 DEF Write, WorkDone
  <2>3. CASE ReadForeign
    BY <2>3 DEF ReadForeign, WorkDone
  <2>4. CASE Writing \/ ReadOwn \/ Reading \/ EndReading \/ Delete \/ Finished \/ UNCHANGED vars
    BY <2>4 DEF Writing, ReadOwn, Reading, EndReading, Delete, Finished, vars, WorkDone
  <2> QED
    BY <2>1, <2>2, <2>3, <2>4 DEF Next, NewJsonString, NewJson, NewJsonNull, PushWork, PutWork
<1> QED
  BY <1>1, <1>2, PTL DEF Spec

\* What is left at the end of the program, or when a text was not accepted.
AllFree == \A a \in Addr : heap[a] = Free

NoLeak ==
    lost = {} /\ root = None =>
       /\ phase = "delete" /\ dest = None => AllFree
       /\ Parsed /\ ret.ps # "SUCCESS" => AllFree

LEMMA NoLeakHere == IInv /\ WorkDone => NoLeak
<1> SUFFICES ASSUME IInv, WorkDone, lost = {}, root = None,
                    \/ phase = "delete" /\ dest = None
                    \/ Parsed /\ ret.ps # "SUCCESS"
             PROVE  AllFree
  BY DEF NoLeak
<1>1. /\ work = <<>> /\ calls = <<>> /\ dest = None
      /\ mode = "return" => ret.json = None
  BY DEF WorkDone, IInv, ModeOK, ProgramOK, Parsed
<1>2. \A k : Pointer(k, 0, 0, None) = {}
  BY Constants, PointerIs DEF Ptr
<1>3. Held = {}
  BY <1>1, <1>2 DEF Held
<1> QED
  BY <1>3, NothingHeld DEF IInv, Sound, AllFree

\* A parse that fails leaves no block behind, and a program that has deleted what it
\* wrote and what it read leaves none, unless hm_put has overwritten a value.
THEOREM JsonNoLeak == Spec => []NoLeak
  BY IInvHolds, WorkDoneHolds, NoLeakHere, PTL

----------------------------------------------------------------------------
(* hm_put and the lookups of json.c. *)

\* Which of the pairs found JsonLookupKey takes.
AnyOf(S) == CHOOSE i \in S : TRUE

\* With key y and value v put in, y leads to v, and other keys where they led before.
PutLooksUp(h, g, o, y, v) ==
    /\ JsonLookupKey(g, o, y) = v
    /\ \A x : ~ SameKey(x, y) => JsonLookupKey(g, o, x) = JsonLookupKey(h, o, x)

LEMMA LookupIs ==
    ASSUME NEW h, NEW o \in Addr, h[o].type = "OBJECT", NEW x
    PROVE  JsonLookupKey(h, o, x) = IF Matches(h, o, x) = {} THEN None
                                    ELSE h[o].kids[AnyOf(Matches(h, o, x))]
<1>1. o # None /\ o # NULL_JSON
  BY Constants DEF Ptr
<1> QED
  BY <1>1 DEF JsonLookupKey, Type, AnyOf

LEMMA MatchesIs ==
    ASSUME NEW h, NEW o, NEW x, NEW i
    PROVE  i \in Matches(h, o, x) <=> i \in DOMAIN h[o].keys /\ SameKey(h[h[o].keys[i]].val, x)
  BY DEF Matches, SameKey

\* After hm_put of a key, new to the map or not, json_lookup_key finds the value at it,
\* and at each other key what it found there before.
THEOREM LookupAfterPut ==
    ASSUME NEW E, NEW h, Sound(E, h), NEW o \in Addr, h[o].type = "OBJECT", NEW k \in Addr, NEW v \in Ptr
    PROVE  PutLooksUp(h, HmPut(h, o, k, v), o, h[k].val, v)
<1> DEFINE y == h[k].val
           keys == h[o].keys
           kids == h[o].kids
           found == Matches(h, o, y)
           g == HmPut(h, o, k, v)
<1>1. keys \in Seq(Addr) /\ kids \in Seq(Ptr) /\ Len(keys) = Len(kids)
  BY DEF Sound, Shaped, ShapeOf
<1>2. \A x, z, w : /\ SameKey(x, x) /\ (SameKey(x, z) => SameKey(z, x))
                   /\ (SameKey(x, z) /\ SameKey(z, w) => SameKey(x, w))
  BY DEF SameKey, SEquals
<1>3. ASSUME NEW keys2, NEW kids2, g = Rerowed(h, o, keys2, kids2)
      PROVE  /\ g[o].type = "OBJECT" /\ g[o].keys = keys2 /\ g[o].kids = kids2
             /\ \A a \in Addr : g[a].val = h[a].val
  <2> HIDE DEF g
  <2>1. HasRows(h, g, o, keys2, kids2)
    BY <1>3, RerowedIs
  <2> QED
    BY <2>1 DEF HasRows
<1>4. CASE found = {}
  <2> DEFINE n == Len(keys) + 1
  <2>1. g = Rerowed(h, o, Append(keys, k), Append(kids, v))
    BY <1>4, HmPutIs DEF Sound
  <2>2. /\ g[o].type = "OBJECT" /\ g[o].keys = Append(keys, k) /\ g[o].kids = Append(kids, v)
        /\ \A a \in Addr : g[a].val = h[a].val
    BY <1>3, <2>1
  <2>3. /\ DOMAIN keys = 1..Len(keys) /\ DOMAIN Append(keys, k) = 1..n /\ Len(keys) \in Nat
        /\ Append(keys, k)[n] = k /\ Append(kids, v)[n] = v
        /\ \A i \in 1..Len(keys) : Append(keys, k)[i] = keys[i] /\ Append(kids, v)[i] = kids[i] /\ keys[i] \in Addr
    BY <1>1
  <2> HIDE DEF g, keys, kids
  <2>4. ASSUME NEW x, NEW i
        PROVE  i \in Matches(g, o, x) <=> i \in Matches(h, o, x) \/ (i = n /\ SameKey(y, x))
    <3>1. i \in Matches(g, o, x) <=> i \in 1..n /\ SameKey(g[Append(keys, k)[i]].val, x)
      BY <2>2, <2>3, MatchesIs
    <3>2. i \in Matches(h, o, x) <=> i \in 1..Len(keys) /\ SameKey(h[keys[i]].val, x)
      BY <2>3, MatchesIs DEF keys
    <3>3. i \in 1..n <=> i \in 1..Len(keys) \/ i = n
      BY <2>3
    <3>4. i \in 1..Len(keys) => i # n /\ g[Append(keys, k)[i]].val = h[keys[i]].val
      BY <2>2, <2>3
    <3>5. g[Append(keys, k)[n]].val = y
      BY <2>2, <2>3
    <3> QED
      BY <3>1, <3>2, <3>3, <3>4, <3>5
  <2>5. Matches(g, o, y) = {n}
    BY <1>2, <1>4, <2>4
  <2>6. JsonLookupKey(g, o, y) = v
    <3>1. JsonLookupKey(g, o, y) = g[o].kids[AnyOf(Matches(g, o, y))]
      BY <2>2, <2>5, LookupIs
    <3>2. AnyOf(Matches(g, o, y)) = n
      BY <2>5 DEF AnyOf
    <3> QED
      BY <2>2, <2>3, <3>1, <3>2
  <2>7. ASSUME NEW x, ~ SameKey(x, y) PROVE JsonLookupKey(g, o, x) = JsonLookupKey(h, o, x)
    <3>a. ~ SameKey(y, x)
      BY <1>2, <2>7
    <3>b. \A i : i \in Matches(g, o, x) <=> i \in Matches(h, o, x)
      BY <2>4, <3>a
    <3>1. Matches(g, o, x) = Matches(h, o, x)
      BY <3>b
    <3>2. \A i \in Matches(h, o, x) : g[o].kids[i] = kids[i]
      BY <2>2, <2>3, MatchesIs DEF keys
    <3>3. Matches(h, o, x) # {} => AnyOf(Matches(h, o, x)) \in Matches(h, o, x)
      BY DEF AnyOf
    <3>4. JsonLookupKey(g, o, x) = IF Matches(h, o, x) = {} THEN None
                                  ELSE g[o].kids[AnyOf(Matches(h, o, x))]
      BY <2>2, <3>1, LookupIs
    <3>5. JsonLookupKey(h, o, x) = IF Matches(h, o, x) = {} THEN None
                                  ELSE kids[AnyOf(Matches(h, o, x))]
      BY LookupIs DEF kids
    <3> QED
      BY <3>2, <3>3, <3>4, <3>5
  <2> QED
    BY <2>6, <2>7 DEF PutLooksUp, g
<1>5. CASE found # {}
  <2> DEFINE kids2 == [i \in DOMAIN kids |-> IF i \in found THEN v ELSE kids[i]]
  <2>1. g = Rerowed(h, o, keys, kids2)
    BY <1>5, HmPutIs DEF Sound
  <2>2. /\ g[o].type = "OBJECT" /\ g[o].keys = keys /\ g[o].kids = kids2
        /\ \A a \in Addr : g[a].val = h[a].val
    BY <1>3, <2>1
  <2>3. /\ DOMAIN keys = DOMAIN kids /\ \A i \in DOMAIN keys : keys[i] \in Addr
    BY <1>1
  <2>4. \A i \in DOMAIN keys : kids2[i] = IF i \in found THEN v ELSE kids[i]
    BY <2>3
  <2> HIDE DEF g, keys, kids, kids2
  <2>5. ASSUME NEW x PROVE Matches(g, o, x) = Matches(h, o, x)
    <3>1. \A i : i \in Matches(g, o, x) <=> i \in DOMAIN keys /\ SameKey(g[keys[i]].val, x)
      BY <2>2, MatchesIs
    <3>2. \A i : i \in Matches(h, o, x) <=> i \in DOMAIN keys /\ SameKey(h[keys[i]].val, x)
      BY MatchesIs DEF keys
    <3> QED
      BY <2>2, <2>3, <3>1, <3>2
  <2>6. \A x : Matches(h, o, x) \subseteq DOMAIN keys
    BY DEF Matches, keys
  <2>7. JsonLookupKey(g, o, y) = v
    <3>1. Matches(g, o, y) = found
      BY <2>5
    <3>2. AnyOf(found) \in found
      BY <1>5 DEF AnyOf
    <3>3. JsonLookupKey(g, o, y) = g[o].kids[AnyOf(found)]
      BY <1>5, <2>2, <3>1, LookupIs
    <3> QED
      BY <2>2, <2>4, <2>6, <3>2, <3>3
  <2>8. ASSUME NEW x, ~ SameKey(x, y) PROVE JsonLookupKey(g, o, x) = JsonLookupKey(h, o, x)
    <3>1. \A i \in Matches(h, o, x) : i \notin found
      BY <1>2, <2>8, MatchesIs
    <3>2. \A i \in Matches(h, o, x) : kids2[i] = kids[i]
      BY <2>4, <2>6, <3>1
    <3>3. Matches(h, o, x) # {} => AnyOf(Matches(h, o, x)) \in Matches(h, o, x)
      BY DEF AnyOf
    <3> QED
      BY <2>2, <2>5, <3>2, <3>3, LookupIs DEF kids
  <2> QED
    BY <2>7, <2>8 DEF PutLooksUp, g
<1> QED
  BY <1>4, <1>5

----------------------------------------------------------------------------
(* utf8.c: the proof takes a code point apart into its digits, the second lowest in *)
(* two halves, since the boundary between two bytes runs through it.               *)

\* One digit of base k split off a number: the only quotient and rest.
LEMMA SplitOff16 ==
    ASSUME NEW n \in Nat
    PROVE  n \div 16 \in Nat /\ n % 16 \in 0..15 /\ n = 16 * (n \div 16) + (n % 16)
  BY SMT

\* And one of base 4.
LEMMA SplitOff4 ==
    ASSUME NEW n \in Nat
    PROVE  n \div 4 \in Nat /\ n % 4 \in 0..3 /\ n = 4 * (n \div 4) + (n % 4)
  BY SMT

\* A following byte, and the six bits in it.
LEMMA SixBits ==
    ASSUME NEW n \in 0..63
    PROVE  /\ 128 + n \in Byte
           /\ Follows(128 + n)
           /\ (128 + n) % 64 = n
  BY SMT DEF Follows, Byte

\* unicode_from_utf8 of a byte below 128.
LEMMA DecodeOne ==
    ASSUME NEW b \in 0..127
    PROVE  UnicodeFromUtf8(<<b>>) = <<b>>
  <1>1. b \div 128 = 0
    BY SMT
  <1>2. <<b>> # <<>> /\ <<b>>[1] = b
    OBVIOUS
  <1> QED
    BY <1>1, <1>2, SMT DEF UnicodeFromUtf8

\* Of the form of two bytes.
LEMMA DecodeTwo ==
    ASSUME NEW m \in 0..31, NEW n \in 0..63
    PROVE  UnicodeFromUtf8(<<192 + m, 128 + n>>) = <<n + m * 64>>
  <1> DEFINE bytes == <<192 + m, 128 + n>>
  <1>1. /\ (192 + m) \div 128 # 0
        /\ (192 + m) \div 32 = 6
        /\ (192 + m) % 32 = m
    BY SMT
  <1>2. bytes # <<>> /\ bytes[1] = 192 + m /\ bytes[2] = 128 + n /\ ~ Len(bytes) < 2
    BY SMT
  <1>3. Follows(bytes[2]) /\ bytes[2] % 64 = n
    BY <1>2, SixBits
  <1> HIDE DEF bytes
  <1>4. UnicodeFromUtf8(bytes) = <<(bytes[2] % 64) + (bytes[1] % 32) * 64>>
    BY <1>1, <1>2, <1>3, Zenon DEF UnicodeFromUtf8
  <1> QED
    BY <1>1, <1>2, <1>3, <1>4, Zenon DEF bytes

\* The digits of a code point of three bytes, and those bytes.
Joined(p, m, n) == n + m * 64 + p * 4096
ThreeBytes(p, m, n) == <<224 + p, 128 + m, 128 + n>>

\* Of the form of three bytes.
LEMMA DecodeThree ==
    ASSUME NEW p \in 0..15, NEW m \in 0..63, NEW n \in 0..63
    PROVE  UnicodeFromUtf8(ThreeBytes(p, m, n)) = <<Joined(p, m, n)>>
  <1> DEFINE bytes == <<224 + p, 128 + m, 128 + n>>
  <1>1. /\ (224 + p) \div 128 # 0
        /\ (224 + p) \div 32 # 6
        /\ (224 + p) \div 16 = 14
        /\ (224 + p) % 16 = p
    BY SMT
  <1>2. /\ bytes # <<>>
        /\ bytes[1] = 224 + p
        /\ bytes[2] = 128 + m
        /\ bytes[3] = 128 + n
        /\ ~ Len(bytes) < 3
    BY SMT
  <1>3. /\ Follows(bytes[2]) /\ bytes[2] % 64 = m
        /\ Follows(bytes[3]) /\ bytes[3] % 64 = n
    BY <1>2, SixBits
  <1> HIDE DEF bytes
  <1>4. UnicodeFromUtf8(bytes)
          = <<(bytes[3] % 64) + (bytes[2] % 64) * 64 + (bytes[1] % 16) * 4096>>
    BY <1>1, <1>2, <1>3, SMT DEF UnicodeFromUtf8
  <1> QED
    BY <1>1, <1>2, <1>3, <1>4, SMT DEF bytes, ThreeBytes, Joined

\* unicode_to_utf8 writes bytes, and unicode_from_utf8 reads from them the code
\* point they were written for, whatever its range.
THEOREM Utf8RoundTrip ==
    ASSUME NEW uc \in Unicode
    PROVE  /\ UnicodeToUtf8(uc) \in Seq(Byte)
           /\ UnicodeFromUtf8(UnicodeToUtf8(uc)) = <<uc>>
  <1> DEFINE a == uc \div 16
             b == a \div 4
             c == b \div 4
             p3 == c \div 16
             p2 == c % 16
             h == b % 4
             l == a % 4
             p0 == uc % 16
             n == 16 * l + p0
             m == 4 * p2 + h
  <1>1. uc \in Nat /\ uc < 65536
    BY SMT DEF Unicode
  <1>2. a \in Nat /\ p0 \in 0..15 /\ uc = 16 * a + p0
    BY <1>1, SplitOff16
  <1>3. b \in Nat /\ l \in 0..3 /\ a = 4 * b + l
    <2> HIDE DEF a
    <2> QED BY <1>2, SplitOff4
  <1>4. c \in Nat /\ h \in 0..3 /\ b = 4 * c + h
    <2> HIDE DEF b
    <2> QED BY <1>3, SplitOff4
  <1>5. p3 \in Nat /\ p2 \in 0..15 /\ c = 16 * p3 + p2
    <2> HIDE DEF c
    <2> QED BY <1>4, SplitOff16
  <1> HIDE DEF a, b, c, p3, p2, h, l, p0
  <1>6. uc = 4096 * p3 + 256 * p2 + 64 * h + 16 * l + p0 /\ p3 \in 0..15
    BY <1>1, <1>2, <1>3, <1>4, <1>5, SMT
  <1>7. /\ uc \div 4096 = p3
        /\ (uc \div 256) % 16 = p2
        /\ (uc \div 16) % 16 = 4 * h + l
        /\ (uc \div 16) % 4 = l
        /\ uc % 16 = p0
    <2>1. uc \div 4096 = p3
      BY <1>2, <1>3, <1>4, <1>5, <1>6, SMT
    <2>2. uc \div 256 = 16 * p3 + p2
      BY <1>2, <1>3, <1>4, <1>5, <1>6, SMT
    <2>3. uc \div 16 = 256 * p3 + 16 * p2 + 4 * h + l
      BY <1>2, <1>3, <1>4, <1>5, <1>6, SMT
    <2>4. uc % 16 = p0
      BY <1>2, <1>3, <1>4, <1>5, <1>6, SMT
    <2>5. (16 * p3 + p2) % 16 = p2
      BY <1>5, <1>6, SMT
    <2>6. (256 * p3 + 16 * p2 + 4 * h + l) % 16 = 4 * h + l
      BY <1>3, <1>4, <1>5, <1>6, SMT
    <2>7. (256 * p3 + 16 * p2 + 4 * h + l) % 4 = l
      BY <1>3, <1>4, <1>5, <1>6, SMT
    <2> QED
      BY <2>1, <2>2, <2>3, <2>4, <2>5, <2>6, <2>7
  <1>8. (4 * h + l) \div 4 = h
    BY <1>3, <1>4, SMT
  <1>9. n \in 0..63 /\ m \in 0..63 /\ uc = n + m * 64 + p3 * 4096
    BY <1>2, <1>3, <1>4, <1>5, <1>6, SMT
  <1>10. LastByte(uc) = 128 + n
    BY <1>2, <1>3, <1>7, SMT DEF LastByte
  <1>11. CASE uc < 128
    <2>1. uc = (4 * h + l) * 16 + p0
      BY <1>2, <1>3, <1>4, <1>5, <1>6, <1>11, SMT
    <2>2. UnicodeToUtf8(uc) = <<uc>>
      BY <1>7, <1>11, <2>1 DEF UnicodeToUtf8
    <2>3. uc \in 0..127 /\ uc \in Byte
      BY <1>1, <1>11, SMT DEF Byte
    <2>4. UnicodeFromUtf8(<<uc>>) = <<uc>>
      BY <2>3, DecodeOne
    <2>5. <<uc>> \in Seq(Byte)
      BY <2>3
    <2> QED
      BY <2>2, <2>4, <2>5
  <1>12. CASE ~ uc < 128 /\ uc < 2048
    <2>1. m \in 0..31 /\ p3 = 0 /\ 192 + p2 * 4 + h = 192 + m
      BY <1>4, <1>5, <1>9, <1>12, SMT
    <2>2. UnicodeToUtf8(uc) = <<192 + p2 * 4 + h, 128 + n>>
      <3> HIDE DEF n, m
      <3> QED BY <1>1, <1>7, <1>8, <1>10, <1>12, SMT DEF UnicodeToUtf8
    <2> HIDE DEF n, m
    <2>3. 192 + m \in Byte /\ 128 + n \in Byte /\ n + m * 64 = uc
      BY <1>9, <2>1, SMT DEF Byte
    <2>4. UnicodeFromUtf8(<<192 + m, 128 + n>>) = <<n + m * 64>>
      <3>1. m \in 0..31 /\ n \in 0..63
        BY <1>9, <2>1
      <3> QED
        BY <3>1, DecodeTwo, Zenon
    <2>5. <<192 + m, 128 + n>> \in Seq(Byte)
      BY <2>3
    <2> QED
      BY <2>1, <2>2, <2>3, <2>4, <2>5
  <1>13. CASE ~ uc < 2048
    <2>1. 128 + p2 * 4 + h = 128 + m /\ ~ uc < 128
      BY <1>1, <1>4, <1>5, <1>13, SMT
    <2>2. UnicodeToUtf8(uc) = <<224 + p3, 128 + p2 * 4 + h, 128 + n>>
      <3> HIDE DEF n, m
      <3> QED BY <1>1, <1>7, <1>8, <1>10, <1>13, <2>1, SMT DEF UnicodeToUtf8
    <2> HIDE DEF n, m
    <2>3. 224 + p3 \in Byte /\ 128 + m \in Byte /\ 128 + n \in Byte
      BY <1>6, <1>9, SMT DEF Byte
    <2>4. p3 \in 0..15 /\ m \in 0..63 /\ n \in 0..63 /\ Joined(p3, m, n) = uc
      BY <1>6, <1>9 DEF Joined
    <2>5. UnicodeFromUtf8(ThreeBytes(p3, m, n)) = <<uc>>
      BY <2>4, DecodeThree, Zenon
    <2>6. <<224 + p3, 128 + m, 128 + n>> \in Seq(Byte)
      BY <2>3
    <2> QED
      BY <2>1, <2>2, <2>5, <2>6 DEF ThreeBytes
  <1> HIDE DEF n, m
  <1> QED
    BY <1>11, <1>12, <1>13

----------------------------------------------------------------------------
(* Definitions by recursion. *)

LEMMA MinIs ==
    ASSUME NEW S \in SUBSET Nat, S # {}
    PROVE  Min(S) \in S /\ \A n \in S : Min(S) <= n
  BY Minimal DEF Min

\* A function that is defined by recursion exists, if what it is at a place depends on
\* places of a smaller measure only.
Local(D, V, m, Phi) ==
    /\ m \in [D -> Nat]
    /\ Phi \in [D \X [D -> V] -> V]
    /\ \A d \in D : \A f, g \in [D -> V] :
         (\A e \in D : m[e] < m[d] => f[e] = g[e]) => Phi[<<d, f>>] = Phi[<<d, g>>]

Solved(D, m, Phi, f, n) == \A d \in D : m[d] < n => f[d] = Phi[<<d, f>>]

LEMMA Recursion ==
    ASSUME NEW D, NEW V, NEW m, NEW Phi, Local(D, V, m, Phi), NEW v \in V
    PROVE  \E f \in [D -> V] : \A d \in D : f[d] = Phi[<<d, f>>]
<1>1. ASSUME NEW f \in [D -> V], NEW g \in [D -> V], NEW n \in Nat, NEW k \in Nat, n <= k,
             Solved(D, m, Phi, f, n), Solved(D, m, Phi, g, k)
      PROVE  \A d \in D : m[d] < n => f[d] = g[d]
  <2> DEFINE bad == {m[d] : d \in {e \in D : m[e] < n /\ f[e] # g[e]}}
  <2> SUFFICES ASSUME bad # {} PROVE FALSE
    OBVIOUS
  <2>1. bad \in SUBSET Nat
    BY DEF Local
  <2>2. PICK i \in bad : \A j \in bad : i <= j
    BY <2>1, Minimal
  <2>3. PICK d \in D : i = m[d] /\ m[d] < n /\ f[d] # g[d]
    OBVIOUS
  <2>4. \A e \in D : m[e] < m[d] => f[e] = g[e]
    <3> SUFFICES ASSUME NEW e \in D, m[e] < m[d], f[e] # g[e] PROVE FALSE
      OBVIOUS
    <3>1. m[e] \in Nat /\ m[d] \in Nat
      BY DEF Local
    <3>2. m[e] < n
      BY <2>3, <3>1
    <3>3. m[e] \in bad
      BY <3>2
    <3> QED
      BY <2>2, <2>3, <3>1, <3>3
  <2> HIDE DEF bad
  <2>5. m[d] \in Nat /\ m[d] < k
    BY <1>1, <2>3 DEF Local
  <2>6. f[d] = Phi[<<d, f>>] /\ g[d] = Phi[<<d, g>>]
    BY <1>1, <2>3, <2>5 DEF Solved
  <2>7. Phi[<<d, f>>] = Phi[<<d, g>>]
    BY <2>4 DEF Local
  <2> QED
    BY <2>3, <2>6, <2>7
<1> DEFINE none == {n \in Nat : ~ \E f \in [D -> V] : Solved(D, m, Phi, f, n)}
<1>2. none = {}
  <2> SUFFICES ASSUME none # {} PROVE FALSE
    OBVIOUS
  <2>1. PICK n \in none : \A k \in none : n <= k
    BY Minimal
  <2>2. n # 0
    <3>1. [d \in D |-> v] \in [D -> V]
      OBVIOUS
    <3>2. Solved(D, m, Phi, [d \in D |-> v], 0)
      BY DEF Solved, Local
    <3> QED
      BY <3>1, <3>2
  <2>3. n - 1 \in Nat /\ n - 1 \notin none
    BY <2>1, <2>2
  <2>4. PICK f \in [D -> V] : Solved(D, m, Phi, f, n - 1)
    BY <2>3
  <2> DEFINE g == [d \in D |-> Phi[<<d, f>>]]
  <2>5. g \in [D -> V]
    BY DEF Local
  <2>6. ASSUME NEW d \in D, m[d] < n PROVE g[d] = Phi[<<d, g>>]
    <3>1. ASSUME NEW e \in D, m[e] < m[d] PROVE f[e] = g[e]
      <4>1. m[e] < n - 1
        BY <2>6, <3>1 DEF Local
      <4> QED
        BY <2>4, <4>1 DEF Solved
    <3> HIDE DEF g
    <3>2. Phi[<<d, f>>] = Phi[<<d, g>>]
      BY <2>5, <3>1 DEF Local
    <3> QED
      BY <3>2 DEF g
  <2> HIDE DEF g
  <2>7. Solved(D, m, Phi, g, n)
    BY <2>6 DEF Solved
  <2> QED
    BY <2>5, <2>7
<1> DEFINE Some(n) == CHOOSE f \in [D -> V] : Solved(D, m, Phi, f, n)
           h == [d \in D |-> Some(m[d] + 1)[d]]
<1>3. ASSUME NEW n \in Nat PROVE Some(n) \in [D -> V] /\ Solved(D, m, Phi, Some(n), n)
  BY <1>2
<1> HIDE DEF Some, none
<1>4. ASSUME NEW d \in D PROVE m[d] \in Nat /\ m[d] + 1 \in Nat /\ m[d] < m[d] + 1
  BY DEF Local
<1>5. h \in [D -> V]
  BY <1>3, <1>4
<1>6. ASSUME NEW d \in D PROVE h[d] = Phi[<<d, h>>]
  <2> DEFINE g == Some(m[d] + 1)
  <2>1. g \in [D -> V] /\ Solved(D, m, Phi, g, m[d] + 1)
    BY <1>3, <1>4
  <2>2. h[d] = g[d] /\ g[d] = Phi[<<d, g>>]
    BY <1>4, <2>1 DEF Solved
  <2>3. ASSUME NEW e \in D, m[e] < m[d] PROVE h[e] = g[e]
    <3>1. /\ Some(m[e] + 1) \in [D -> V]
          /\ Solved(D, m, Phi, Some(m[e] + 1), m[e] + 1)
      BY <1>3, <1>4
    <3>2. m[e] + 1 <= m[d] + 1
      BY <1>4, <2>3
    <3>3. Some(m[e] + 1)[e] = g[e]
      BY <1>1, <1>4, <2>1, <3>1, <3>2
    <3> QED
      BY <3>3
  <2> HIDE DEF h, g
  <2>4. Phi[<<d, h>>] = Phi[<<d, g>>]
    BY <1>5, <2>1, <2>3 DEF Local
  <2> QED
    BY <2>2, <2>4
<1> QED
  BY <1>5, <1>6

----------------------------------------------------------------------------
(* The characters, and where the lexical functions stop. *)

Places == 1..Len(input) + 1

LEMMA CharsAre ==
    /\ Ch["quote"] = 34 /\ Ch["\\"] = 92 /\ Ch["/"] = 47 /\ Ch["-"] = 45 /\ Ch["+"] = 43
    /\ Ch["."] = 46 /\ Ch["bs"] = 8 /\ Ch["\t"] = 9 /\ Ch["\n"] = 10 /\ Ch["\f"] = 12
    /\ Ch["\r"] = 13 /\ Ch["0"] = 48 /\ Ch["9"] = 57 /\ Ch["A"] = 65 /\ Ch["E"] = 69
    /\ Ch["a"] = 97 /\ Ch["b"] = 98 /\ Ch["e"] = 101 /\ Ch["f"] = 102 /\ Ch["l"] = 108
    /\ Ch["n"] = 110 /\ Ch["r"] = 114 /\ Ch["s"] = 115 /\ Ch["t"] = 116 /\ Ch["u"] = 117
    /\ Ch["["] = 91 /\ Ch["]"] = 93 /\ Ch[":"] = 58
<1>1. Ch["quote"] = 34 /\ Ch["\\"] = 92 /\ Ch["/"] = 47 /\ Ch["-"] = 45 /\ Ch["+"] = 43
  BY DEF Ch
<1>2. Ch["."] = 46 /\ Ch["bs"] = 8 /\ Ch["\t"] = 9 /\ Ch["\n"] = 10 /\ Ch["\f"] = 12
  BY DEF Ch
<1>3. Ch["\r"] = 13 /\ Ch["0"] = 48 /\ Ch["9"] = 57 /\ Ch["A"] = 65 /\ Ch["E"] = 69
  BY DEF Ch
<1>4. Ch["a"] = 97 /\ Ch["b"] = 98 /\ Ch["e"] = 101 /\ Ch["f"] = 102 /\ Ch["l"] = 108
  BY DEF Ch
<1>5. Ch["n"] = 110 /\ Ch["r"] = 114 /\ Ch["s"] = 115 /\ Ch["t"] = 116 /\ Ch["u"] = 117
  BY DEF Ch
<1>6. Ch["["] = 91 /\ Ch["]"] = 93 /\ Ch[":"] = 58
  BY DEF Ch
<1> QED
  BY <1>1, <1>2, <1>3, <1>4, <1>5, <1>6

LEMMA BlankIs == Ch[" "] # STREAM_EMPTY
  BY DEF Ch, STREAM_EMPTY

LEMMA CommaIs == Ch[","] # STREAM_EMPTY
  BY DEF Ch, STREAM_EMPTY

LEMMA BracesAre == Ch["{"] # STREAM_EMPTY /\ Ch["}"] # STREAM_EMPTY
  BY DEF Ch, STREAM_EMPTY

LEMMA EmptyIs == STREAM_EMPTY \notin Char /\ Char \subseteq Int
  BY DEF Char, STREAM_EMPTY

LEMMA LettersAre ==
    /\ DOMAIN Letter = {8, 12, 10, 13, 9}
    /\ Letter[8] = 98 /\ Letter[12] = 102 /\ Letter[10] = 110 /\ Letter[13] = 114 /\ Letter[9] = 116
  BY CharsAre DEF Letter

LEMMA EscapesAre ==
    /\ DOMAIN Escapes = {92, 47, 98, 102, 110, 114, 116}
    /\ \A l \in DOMAIN Escapes : Escapes[l] \in Char
<1>1. {Letter[c] : c \in DOMAIN Letter} = {98, 102, 110, 114, 116}
  BY LettersAre
<1>2. Escapes = [l \in {92, 47} \cup {98, 102, 110, 114, 116} |->
                   IF l \in {92, 47} THEN l ELSE CHOOSE c \in DOMAIN Letter : Letter[c] = l]
  BY <1>1, CharsAre DEF Escapes
<1>3. DOMAIN Letter \subseteq Char /\ {92, 47} \subseteq Char
  BY LettersAre DEF Char
<1>4. ASSUME NEW l \in {92, 47} \cup {98, 102, 110, 114, 116} PROVE Escapes[l] \in Char
  <2>1. CASE l \in {92, 47}
    BY <1>2, <1>3, <2>1
  <2>2. CASE l \in {98, 102, 110, 114, 116}
    <3> DEFINE c == CHOOSE k \in DOMAIN Letter : Letter[k] = l
    <3>1. Escapes[l] = c
      BY <1>2, <2>2
    <3>2. \E k \in DOMAIN Letter : Letter[k] = l
      BY <1>1, <2>2
    <3>3. c \in DOMAIN Letter
      BY <3>2
    <3> HIDE DEF c
    <3> QED
      BY <1>3, <3>1, <3>3
  <2> QED
    BY <2>1, <2>2
<1>5. DOMAIN Escapes = {92, 47, 98, 102, 110, 114, 116}
  BY <1>2
<1> QED
  BY <1>4, <1>5

LEMMA WordIs ==
    ASSUME NEW word \in {True, False, Null}
    PROVE  /\ word \in Seq(Char) /\ Len(word) \in {4, 5} /\ DOMAIN word = 1..Len(word)
           /\ \A i \in DOMAIN word : word[i] # STREAM_EMPTY
<1>1. True = <<116, 114, 117, 101>>
  BY CharsAre DEF True, Chars
<1>2. False = <<102, 97, 108, 115, 101>>
  BY CharsAre DEF False, Chars
<1>3. Null = <<110, 117, 108, 108>>
  BY CharsAre DEF Null, Chars
<1>4. ASSUME word \in Seq(Char) PROVE \A i \in DOMAIN word : word[i] # STREAM_EMPTY
  BY <1>4, EmptyIs
<1>5. /\ {116, 114, 117, 101, 102, 97, 108, 115, 110} \subseteq Char
  BY DEF Char
<1>6. CASE word = True
  BY <1>1, <1>4, <1>5, <1>6
<1>7. CASE word = False
  BY <1>2, <1>4, <1>5, <1>7
<1>8. CASE word = Null
  BY <1>3, <1>4, <1>5, <1>8
<1> QED
  BY <1>6, <1>7, <1>8

LEMMA PeekIs ==
    ASSUME input \in Seq(Char), NEW p \in Nat, p > 0
    PROVE  /\ Len(input) \in Nat
           /\ p <= Len(input) => Peek(p) \in Char /\ Peek(p) = input[p] /\ Next1(p) = p + 1
           /\ p > Len(input) => Peek(p) = STREAM_EMPTY /\ Next1(p) = p
           /\ Peek(p) = STREAM_EMPTY <=> p > Len(input)
<1>1. Len(input) \in Nat /\ (p <= Len(input) => input[p] \in Char)
  OBVIOUS
<1> QED
  BY <1>1, EmptyIs DEF Peek, Next1, PeekChar, NextChar

LEMMA PastIs ==
    ASSUME input \in Seq(Char), NEW p \in Places, NEW chars, STREAM_EMPTY \notin chars
    PROVE  /\ Past(p, chars) \in Places /\ p <= Past(p, chars)
           /\ Peek(Past(p, chars)) \notin chars
           /\ Peek(p) \in chars => p < Past(p, chars)
<1> DEFINE S == {q \in p..Len(input) + 1 : Peek(q) \notin chars}
<1>1. Len(input) \in Nat /\ p \in Nat /\ p > 0 /\ p <= Len(input) + 1
  BY DEF Places
<1>2. Peek(Len(input) + 1) = STREAM_EMPTY
  BY <1>1, PeekIs
<1>3. S \in SUBSET Nat /\ Len(input) + 1 \in S
  BY <1>1, <1>2
<1>4. Min(S) \in S
  BY <1>3, MinIs
<1>5. Past(p, chars) = Min(S)
  BY DEF Past
<1> QED
  BY <1>1, <1>4, <1>5 DEF Places

LEMMA TrimIs ==
    ASSUME input \in Seq(Char), NEW p \in Places
    PROVE  Trim(p) \in Places /\ p <= Trim(p)
<1>1. STREAM_EMPTY # Ch[" "]
  BY BlankIs, Zenon
<1>2. STREAM_EMPTY # Ch["\n"] /\ STREAM_EMPTY # Ch["\r"] /\ STREAM_EMPTY # Ch["\t"]
  BY CharsAre DEF STREAM_EMPTY
<1>3. STREAM_EMPTY \notin Whitespace
  BY <1>1, <1>2, Zenon DEF Whitespace
<1> QED
  BY <1>3, PastIs DEF Trim

\* What follows a place with a character is a place.
LEMMA NextIs ==
    ASSUME input \in Seq(Char), NEW p \in Places
    PROVE  /\ Next1(p) \in Places /\ p <= Next1(p)
           /\ Peek(p) # STREAM_EMPTY => p + 1 \in Places /\ p + 1 > p /\ Next1(p) = p + 1
<1>1. Len(input) \in Nat /\ p \in Nat /\ p > 0 /\ p <= Len(input) + 1
  BY DEF Places
<1> QED
  BY <1>1, PeekIs DEF Places

LEMMA ExpectedIs ==
    ASSUME input \in Seq(Char), NEW p \in Places, NEW word \in {True, False, Null}
    PROVE  /\ Expected(p, word).ok \in BOOLEAN
           /\ Expected(p, word).at \in Places
           /\ Peek(p) = word[1] => p < Expected(p, word).at
<1> DEFINE n == Len(word)
           bad == {i \in DOMAIN word : Peek(p + i - 1) # word[i]}
<1>1. Len(input) \in Nat /\ p \in Nat /\ p > 0 /\ p <= Len(input) + 1
  BY DEF Places
<1>2. n \in {4, 5} /\ DOMAIN word = 1..n /\ \A i \in 1..n : word[i] # STREAM_EMPTY
  BY WordIs
<1> HIDE DEF n
<1>3. ASSUME NEW i \in 1..n, i \notin bad PROVE p + i - 1 <= Len(input)
  <2>1. Peek(p + i - 1) # STREAM_EMPTY /\ p + i - 1 \in Nat /\ p + i - 1 > 0
    BY <1>1, <1>2, <1>3
  <2> QED
    BY <1>1, <2>1, PeekIs
<1>4. CASE bad = {}
  <2>1. p + n - 1 <= Len(input)
    BY <1>2, <1>3, <1>4
  <2>2. Expected(p, word) = [ok |-> TRUE, at |-> p + n]
    BY <1>4 DEF Expected, n
  <2> QED
    BY <1>1, <1>2, <2>1, <2>2 DEF Places
<1>5. CASE bad # {}
  <2> DEFINE m == Min(bad)
  <2>1. m \in 1..n /\ m \in bad /\ \A i \in bad : m <= i
    <3>1. bad \in SUBSET Nat
      BY <1>2
    <3>2. m \in bad /\ \A i \in bad : m <= i
      BY <1>5, <3>1, MinIs
    <3> QED
      BY <1>2, <3>2
  <2>2. Expected(p, word) = [ok |-> FALSE, at |-> Next1(p + m - 1)]
    BY <1>5 DEF Expected
  <2> HIDE DEF m
  <2>3. m = 1 \/ p + m - 2 <= Len(input)
    <3>1. m > 1 => m - 1 \in 1..n /\ m - 1 \notin bad
      BY <1>2, <2>1
    <3>2. m > 1 => p + (m - 1) - 1 <= Len(input)
      BY <1>3, <3>1
    <3> QED
      BY <1>1, <1>2, <2>1, <3>2
  <2>4. p + m - 1 \in Places /\ p <= p + m - 1
    BY <1>1, <1>2, <2>1, <2>3 DEF Places
  <2>5. Peek(p) = word[1] => m # 1
    <3>1. p + 1 - 1 = p
      BY <1>1
    <3> QED
      BY <2>1, <3>1
  <2>6. Next1(p + m - 1) \in Places /\ p + m - 1 <= Next1(p + m - 1)
    BY <2>4, NextIs
  <2>7. Next1(p + m - 1) \in Nat
    BY <1>1, <2>6 DEF Places
  <2> QED
    BY <1>1, <1>2, <2>1, <2>2, <2>4, <2>5, <2>6, <2>7
<1> QED
  BY <1>4, <1>5

----------------------------------------------------------------------------
(* The strings and the escapes in them. *)

\* What a lexical function returns.
Scan == [ok : BOOLEAN, at : Places, val : Seq(Char)]

LEMMA HexIs ==
    ASSUME NEW c \in Int
    PROVE  /\ HexDigit(c) \in 0..15 \cup {None}
           /\ c = STREAM_EMPTY => HexDigit(c) = None
<1>1. Digit = 48..57
  BY CharsAre DEF Digit
<1>2. Ch["a"]..Ch["f"] = 97..102 /\ Ch["A"]..Ch["A"] + 5 = 65..70
  BY CharsAre
<1>3. Ch["0"] = 48 /\ Ch["a"] = 97 /\ Ch["A"] = 65
  BY CharsAre
<1>4. HexDigit(c) = CASE c \in 48..57 -> c - 48
                      [] c \in 97..102 -> c - 97 + 10
                      [] c \in 65..70 -> c - 65 + 10
                      [] OTHER -> None
  BY <1>1, <1>2, <1>3, Zenon DEF HexDigit
<1> QED
  BY <1>4 DEF STREAM_EMPTY, None

LEMMA PeekChars ==
    ASSUME input \in Seq(Char), NEW p \in Places, NEW i \in 1..4
    PROVE  /\ Peek(p + i) \in Int
           /\ Peek(p + i) # STREAM_EMPTY => p + i <= Len(input)
<1>1. Len(input) \in Nat /\ p \in Nat /\ p > 0 /\ p + i \in Nat /\ p + i > 0
  BY DEF Places
<1>2. STREAM_EMPTY \in Int /\ Char \subseteq Int
  BY EmptyIs DEF STREAM_EMPTY
<1> DEFINE q == p + i
<1>3. q \in Nat /\ q > 0
  BY <1>1
<1> HIDE DEF q
<1>4. CASE q <= Len(input)
  <2>1. Peek(q) \in Char
    BY <1>3, <1>4, PeekIs
  <2> QED
    BY <1>2, <1>4, <2>1 DEF q
<1>5. CASE q > Len(input)
  <2>1. Peek(q) = STREAM_EMPTY
    BY <1>3, <1>5, PeekIs
  <2> QED
    BY <1>2, <2>1 DEF q
<1> QED
  BY <1>1, <1>3, <1>4, <1>5

\* Two and three digits of base 16.
Hex2 == 0..255
Hex3 == 0..4095

LEMMA UnicodeIs == ASSUME NEW z \in Int, 0 <= z, z <= 65535 PROVE z \in Unicode
<1> DEFINE n == 65535
<1>1. n \in Int /\ z <= n
  BY SMT
<1>2. Unicode = 0..n
  BY DEF Unicode
<1> HIDE DEF n
<1>3. z \in 0..n
  BY <1>1, SMT
<1> QED
  BY <1>2, <1>3

LEMMA Hex2Is == ASSUME NEW a \in 0..15, NEW b \in 0..15 PROVE a * 16 + b \in Hex2
  BY SMT DEF Hex2

LEMMA Hex3Is == ASSUME NEW x \in Hex2, NEW b \in 0..15 PROVE x * 16 + b \in Hex3
  BY SMT DEF Hex2, Hex3

LEMMA Hex4Is == ASSUME NEW x \in Hex3, NEW b \in 0..15 PROVE x * 16 + b \in Unicode
<1>1. x * 16 + b \in Int /\ 0 <= x * 16 + b /\ x * 16 + b <= 65535
  BY SMT DEF Hex3
<1> QED
  BY <1>1, UnicodeIs, SMT

LEMMA DigitsIs ==
    ASSUME NEW a \in 0..15, NEW b \in 0..15, NEW c \in 0..15, NEW d \in 0..15
    PROVE  ((a * 16 + b) * 16 + c) * 16 + d \in Unicode
<1> DEFINE x == a * 16 + b
           y == x * 16 + c
<1>1. x \in Hex2
  BY Hex2Is, Zenon
<1> HIDE DEF x
<1>2. y \in Hex3
  BY <1>1, Hex3Is, Zenon
<1> HIDE DEF y
<1>3. y * 16 + d \in Unicode
  BY <1>2, Hex4Is, Zenon
<1> QED
  BY <1>3, Zenon DEF y, x

LEMMA SignedIs ==
    ASSUME NEW uc \in Unicode
    PROVE  [i \in DOMAIN UnicodeToUtf8(uc) |-> SignedChar(UnicodeToUtf8(uc)[i])] \in Seq(Char)
<1>1. UnicodeToUtf8(uc) \in Seq(Byte)
  BY Utf8RoundTrip
<1>2. ASSUME NEW b \in Byte PROVE SignedChar(b) \in Char
  BY DEF Byte, SignedChar, Char
<1> DEFINE x == UnicodeToUtf8(uc)
           y == [i \in DOMAIN x |-> SignedChar(x[i])]
<1> HIDE DEF x
<1>3. x \in Seq(Byte)
  BY <1>1 DEF x
<1>4. DOMAIN x = 1..Len(x) /\ Len(x) \in Nat /\ \A i \in DOMAIN x : x[i] \in Byte
  BY <1>3
<1>5. y \in [1..Len(x) -> Char]
  BY <1>2, <1>4
<1>6. y \in Seq(Char)
  BY <1>4, <1>5, SeqDef
<1> QED
  BY <1>6 DEF x

LEMMA SuffixIs ==
    ASSUME input \in Seq(Char), NEW p \in Places
    PROVE  ControlSuffix(p) \in Scan /\ p <= ControlSuffix(p).at
<1> DEFINE dec == [i \in 1..4 |-> HexDigit(Peek(p + i))]
           bad == {i \in 1..4 : dec[i] = None}
<1>1. Len(input) \in Nat /\ p \in Nat /\ p > 0 /\ p <= Len(input) + 1
  BY DEF Places
<1>2. \A i \in 1..4 : dec[i] \in 0..15 \cup {None}
  BY PeekChars, HexIs
<1>3. \A i \in 1..4 : i \notin bad => p + i <= Len(input)
  BY PeekChars, HexIs
<1> HIDE DEF dec
<1>4. Ch["u"] = 117 /\ Ch["u"] # STREAM_EMPTY /\ Ch["u"] \notin DOMAIN Escapes
  BY CharsAre, EscapesAre DEF STREAM_EMPTY
<1>5. CASE Peek(p) \in DOMAIN Escapes
  <2>1. ControlSuffix(p) = [ok |-> TRUE, at |-> p + 1, val |-> <<Escapes[Peek(p)]>>]
    BY <1>4, <1>5 DEF ControlSuffix
  <2>2. Escapes[Peek(p)] \in Char
    BY <1>5, EscapesAre
  <2>3. Peek(p) # STREAM_EMPTY
    BY <1>5, EscapesAre DEF STREAM_EMPTY
  <2>4. p + 1 \in Places
    BY <2>3, NextIs
  <2>5. <<Escapes[Peek(p)]>> \in Seq(Char)
    BY <2>2
  <2> QED
    BY <1>1, <2>1, <2>4, <2>5 DEF Scan
<1>6. CASE Peek(p) = Ch["u"] /\ bad = {}
  <2> DEFINE uc == UnicodeFromCstr(dec)
             val == [i \in DOMAIN UnicodeToUtf8(uc) |-> SignedChar(UnicodeToUtf8(uc)[i])]
  <2>1. ControlSuffix(p) = [ok |-> TRUE, at |-> p + 5, val |-> val]
    BY <1>4, <1>6 DEF ControlSuffix, dec
  <2>2. \A i \in 1..4 : dec[i] \in 0..15
    BY <1>2, <1>6
  <2>3. uc \in Unicode
    <3>1. dec[1] \in 0..15 /\ dec[2] \in 0..15 /\ dec[3] \in 0..15 /\ dec[4] \in 0..15
      BY <2>2
    <3> QED
      <4>1. ((dec[1] * 16 + dec[2]) * 16 + dec[3]) * 16 + dec[4] \in Unicode
        BY <3>1, DigitsIs, Zenon
      <4> QED
        BY <4>1, Zenon DEF UnicodeFromCstr
  <2>4. val \in Seq(Char)
    BY <2>3, SignedIs
  <2>5. p + 5 \in Places /\ p <= p + 5
    BY <1>1, <1>3, <1>6 DEF Places
  <2> HIDE DEF val
  <2> QED
    BY <2>1, <2>4, <2>5 DEF Scan
<1>7. CASE Peek(p) = Ch["u"] /\ bad # {}
  <2> DEFINE m == Min(bad)
  <2>1. ControlSuffix(p) = [ok |-> FALSE, at |-> Next1(p + m), val |-> <<>>]
    BY <1>4, <1>7 DEF ControlSuffix, dec
  <2>2. m \in bad /\ \A i \in bad : m <= i
    <3>1. bad \in SUBSET Nat
      OBVIOUS
    <3> QED
      BY <1>7, <3>1, MinIs
  <2>3. m \in 1..4
    BY <2>2
  <2>4. p + m - 1 <= Len(input)
    <3>1. CASE m = 1
      BY <1>1, <1>4, <1>7, <3>1, PeekIs
    <3>2. CASE m > 1
      <4>1. m - 1 \in 1..4 /\ m - 1 \notin bad
        BY <2>2, <2>3, <3>2
      <4>2. p + (m - 1) <= Len(input)
        BY <1>3, <4>1
      <4> QED
        BY <1>1, <2>3, <4>2
    <3> QED
      BY <2>3, <3>1, <3>2
  <2> HIDE DEF m
  <2>5. p + m \in Places /\ p + m \in Nat /\ p <= p + m
    BY <1>1, <2>3, <2>4 DEF Places
  <2>6. Next1(p + m) \in Places /\ p + m <= Next1(p + m)
    BY <2>5, NextIs
  <2>7. Next1(p + m) \in Nat
    BY <1>1, <2>6 DEF Places
  <2>8. p <= Next1(p + m)
    BY <1>1, <2>5, <2>6, <2>7
  <2> QED
    BY <2>1, <2>6, <2>8 DEF Scan
<1>8. CASE Peek(p) \notin DOMAIN Escapes /\ Peek(p) # Ch["u"]
  <2>1. ControlSuffix(p) = [ok |-> FALSE, at |-> Next1(p), val |-> <<>>]
    BY <1>8 DEF ControlSuffix
  <2>2. Next1(p) \in Places /\ p <= Next1(p)
    BY NextIs
  <2> QED
    BY <2>1, <2>2 DEF Scan
<1> QED
  BY <1>5, <1>6, <1>7, <1>8

\* The body of the recursion of StringFrom.
StringBody(q, f) ==
    LET Stop(ok, r) == [ok |-> ok, at |-> r, val |-> <<>>]
        Before(x, rest) == [rest EXCEPT !.val = x \o @]
        c == Peek(q)
        Escaping(suffix) == IF suffix.ok THEN Before(suffix.val, f[suffix.at]) ELSE suffix
    IN CASE c = STREAM_EMPTY \/ c \in Control -> Stop(FALSE, Next1(q))
         [] c = Ch["quote"] -> Stop(TRUE, q + 1)
         [] c = Ch["\\"] -> Escaping(ControlSuffix(q + 1))
         [] OTHER -> Before(<<c>>, f[q + 1])

Reaches(q, s) == s \in Scan /\ q <= s.at

LEMMA PrefixedIs ==
    ASSUME NEW q, NEW s, Reaches(q, s), NEW x \in Seq(Char)
    PROVE  Reaches(q, [s EXCEPT !.val = x \o @])
<1>1. s.val \in Seq(Char) /\ s.at \in Places
  BY DEF Reaches, Scan
<1>2. x \o s.val \in Seq(Char)
  BY <1>1
<1>3. [s EXCEPT !.val = x \o @] = [ok |-> s.ok, at |-> s.at, val |-> x \o s.val]
  <2> DEFINE v == x \o s.val
  <2>1. [s EXCEPT !.val = x \o @] = [s EXCEPT !.val = v]
    OBVIOUS
  <2>2. s \in [ok : BOOLEAN, at : Places, val : Seq(Char)]
    BY DEF Reaches, Scan
  <2> HIDE DEF v
  <2>3. [s EXCEPT !.val = v] = [ok |-> s.ok, at |-> s.at, val |-> v]
    BY <2>2
  <2> QED
    BY <2>1, <2>3 DEF v
<1> QED
  BY <1>1, <1>2, <1>3 DEF Reaches, Scan

\* What the recursion makes of the places behind q is all that it is at q made of.
LEMMA BodyIs ==
    ASSUME input \in Seq(Char), NEW l \in Places, NEW q \in Places, l <= q,
           NEW f, \A r \in Places : q < r => Reaches(l, f[r])
    PROVE  /\ Reaches(l, StringBody(q, f))
           /\ \A g : (\A r \in Places : q < r => g[r] = f[r]) => StringBody(q, g) = StringBody(q, f)
<1> DEFINE c == Peek(q)
           escape == ControlSuffix(q + 1)
<1>1. Len(input) \in Nat /\ q \in Nat /\ q > 0 /\ q <= Len(input) + 1 /\ l \in Nat /\ l <= q
  BY DEF Places
<1>2. Ch["quote"] = 34 /\ Ch["\\"] = 92 /\ Control = 0..31 /\ STREAM_EMPTY = 256
  BY CharsAre DEF Control, STREAM_EMPTY
<1>3. Ch["quote"] \notin Control /\ Ch["quote"] # STREAM_EMPTY /\ Ch["quote"] # Ch["\\"]
      /\ Ch["\\"] \notin Control /\ Ch["\\"] # STREAM_EMPTY
  BY <1>2
<1>4. ASSUME c # STREAM_EMPTY
      PROVE  /\ q + 1 \in Places /\ q < q + 1 /\ Next1(q) = q + 1 /\ c \in Char
             /\ escape \in Scan /\ escape.at \in Places /\ q < escape.at
             /\ escape.val \in Seq(Char)
  <2>1. q + 1 \in Places /\ q < q + 1 /\ Next1(q) = q + 1
    BY <1>4, NextIs
  <2>2. c \in Char
    BY <1>1, <1>4, PeekIs
  <2>3. escape \in Scan /\ q + 1 <= escape.at
    BY <2>1, SuffixIs
  <2>4. escape.at \in Places /\ escape.val \in Seq(Char)
    BY <2>3 DEF Scan
  <2>5. q < escape.at
    BY <1>1, <2>3, <2>4 DEF Places
  <2> HIDE DEF escape
  <2> QED
    BY <2>1, <2>2, <2>3, <2>4, <2>5
<1>5. CASE c = STREAM_EMPTY \/ c \in Control
  <2>1. \A g : StringBody(q, g) = [ok |-> FALSE, at |-> Next1(q), val |-> <<>>]
    BY <1>3, <1>5, Zenon DEF StringBody
  <2>2. Next1(q) \in Places /\ q <= Next1(q)
    BY NextIs
  <2>3. l <= Next1(q)
    BY <1>1, <2>2 DEF Places
  <2>4. Reaches(l, [ok |-> FALSE, at |-> Next1(q), val |-> <<>>])
    BY <2>2, <2>3 DEF Reaches, Scan
  <2> QED
    BY <2>1, <2>4
<1>6. CASE c = Ch["quote"]
  <2>1. \A g : StringBody(q, g) = [ok |-> TRUE, at |-> q + 1, val |-> <<>>]
    BY <1>3, <1>6, Zenon DEF StringBody
  <2>2. Reaches(l, [ok |-> TRUE, at |-> q + 1, val |-> <<>>])
    <3>1. q + 1 \in Places /\ l <= q + 1
      BY <1>3, <1>4, <1>6, <1>1
    <3> QED
      BY <3>1 DEF Reaches, Scan
  <2> QED
    BY <2>1, <2>2
<1>7. CASE c = Ch["\\"] /\ escape.ok
  <2>1. \A g : StringBody(q, g) = [g[escape.at] EXCEPT !.val = escape.val \o @]
    BY <1>3, <1>7, Zenon DEF StringBody
  <2>2. escape.at \in Places /\ q < escape.at /\ escape.val \in Seq(Char)
    BY <1>3, <1>4, <1>7
  <2> HIDE DEF escape
  <2>3. Reaches(l, StringBody(q, f))
    <3>1. Reaches(l, f[escape.at])
      BY <2>2
    <3>2. Reaches(l, [f[escape.at] EXCEPT !.val = escape.val \o @])
      BY <2>2, <3>1, PrefixedIs
    <3> QED
      BY <2>1, <3>2, Zenon
  <2>4. ASSUME NEW g, \A r \in Places : q < r => g[r] = f[r]
        PROVE  StringBody(q, g) = StringBody(q, f)
    <3>1. g[escape.at] = f[escape.at]
      BY <2>2, <2>4
    <3> QED
      BY <2>1, <3>1, Zenon
  <2> QED
    BY <2>3, <2>4
<1>8. CASE c = Ch["\\"] /\ ~ escape.ok
  <2>1. \A g : StringBody(q, g) = escape
    BY <1>3, <1>8, Zenon DEF StringBody
  <2>2. Reaches(l, escape)
    <3>1. escape \in Scan /\ escape.at \in Places /\ q < escape.at
      BY <1>3, <1>4, <1>8
    <3> HIDE DEF escape
    <3>2. l <= escape.at
      BY <1>1, <3>1 DEF Places
    <3> QED
      BY <3>1, <3>2 DEF Reaches
  <2> HIDE DEF escape
  <2> QED
    BY <2>1, <2>2, Zenon
<1>9. CASE ~ (c = STREAM_EMPTY \/ c \in Control) /\ c # Ch["quote"] /\ c # Ch["\\"]
  <2>1. \A g : StringBody(q, g) = [g[q + 1] EXCEPT !.val = <<c>> \o @]
    BY <1>3, <1>9, Zenon DEF StringBody
  <2>2. q + 1 \in Places /\ q < q + 1 /\ <<c>> \in Seq(Char)
    BY <1>4, <1>9
  <2> HIDE DEF c
  <2>3. Reaches(l, StringBody(q, f))
    <3>1. Reaches(l, f[q + 1])
      BY <2>2
    <3>2. Reaches(l, [f[q + 1] EXCEPT !.val = <<c>> \o @])
      BY <2>2, <3>1, PrefixedIs
    <3> QED
      BY <2>1, <3>2, Zenon
  <2>4. ASSUME NEW g, \A r \in Places : q < r => g[r] = f[r]
        PROVE  StringBody(q, g) = StringBody(q, f)
    <3>1. g[q + 1] = f[q + 1]
      BY <2>2, <2>4
    <3> QED
      BY <2>1, <3>1, Zenon
  <2> QED
    BY <2>3, <2>4
<1> QED
  BY <1>5, <1>6, <1>7, <1>8, <1>9

LEMMA StringIs ==
    ASSUME input \in Seq(Char), NEW p \in Places
    PROVE  /\ StringFrom(p) \in Scan /\ p <= StringFrom(p).at
           /\ Peek(p) = Ch["quote"] => p < StringFrom(p).at
           /\ StringFrom(p).ok => Peek(p) = Ch["quote"]
<1> DEFINE Body(f) == [q \in Places |-> StringBody(q, f)]
           from == CHOOSE f : f = Body(f)
           m == [q \in Places |-> Len(input) + 1 - q]
           Phi == [z \in Places \X [Places -> Scan] |-> StringBody(z[1], z[2])]
<1>1. Len(input) \in Nat /\ \A q \in Places : q \in Nat /\ q > 0 /\ q <= Len(input) + 1
  BY DEF Places
<1>2. 1 \in Places /\ \A q \in Places : 1 <= q
  BY <1>1 DEF Places
<1>3. ASSUME NEW q \in Places, NEW f \in [Places -> Scan]
      PROVE  /\ StringBody(q, f) \in Scan
             /\ \A g : (\A r \in Places : q < r => g[r] = f[r]) => StringBody(q, g) = StringBody(q, f)
  <2>1. \A r \in Places : q < r => Reaches(1, f[r])
    <3> SUFFICES ASSUME NEW r \in Places PROVE Reaches(1, f[r])
      OBVIOUS
    <3>1. f[r] \in Scan
      OBVIOUS
    <3>2. f[r].at \in Places
      BY <3>1 DEF Scan
    <3> QED
      BY <1>2, <3>1, <3>2 DEF Reaches
  <2>2. 1 <= q
    BY <1>2
  <2> QED
    BY <1>2, <2>1, <2>2, BodyIs DEF Reaches
<1>4. Local(Places, Scan, m, Phi)
  <2>1. m \in [Places -> Nat]
    BY <1>1
  <2>2. Phi \in [Places \X [Places -> Scan] -> Scan]
    BY <1>3
  <2>3. ASSUME NEW q \in Places, NEW f \in [Places -> Scan], NEW g \in [Places -> Scan],
               \A r \in Places : m[r] < m[q] => f[r] = g[r]
        PROVE  Phi[<<q, f>>] = Phi[<<q, g>>]
    <3>1. \A r \in Places : q < r => m[r] < m[q]
      BY <1>1
    <3>2. \A r \in Places : q < r => f[r] = g[r]
      BY <2>3, <3>1
    <3>3. StringBody(q, f) = StringBody(q, g)
      BY <1>3, <3>2
    <3> QED
      BY <3>3
  <2> QED
    BY <2>1, <2>2, <2>3 DEF Local
<1>5. [ok |-> TRUE, at |-> 1, val |-> <<>>] \in Scan
  BY <1>2 DEF Scan
<1>6. PICK f \in [Places -> Scan] : \A q \in Places : f[q] = Phi[<<q, f>>]
  <2> HIDE DEF m, Phi
  <2> QED
    BY <1>4, <1>5, Recursion
<1>7. f = Body(f)
  <2>1. f = [q \in Places |-> f[q]]
    OBVIOUS
  <2>2. \A q \in Places : f[q] = StringBody(q, f)
    BY <1>6
  <2> QED
    BY <2>1, <2>2
<1>8. from = Body(from)
  <2> HIDE DEF Body
  <2> QED
    BY <1>7
<1>9. StringFrom(p) = IF Peek(p) = Ch["quote"] THEN from[p + 1]
                      ELSE [ok |-> FALSE, at |-> Next1(p), val |-> <<>>]
  BY Zenon DEF StringFrom, StringBody, Places
<1> HIDE DEF from
<1>10. \A q \in Places : from[q] = StringBody(q, from)
  BY <1>8
<1>11. ASSUME NEW l \in Places, NEW q \in Places, l <= q PROVE Reaches(l, from[q])
  <2> DEFINE bad == {m[r] : r \in {t \in Places : l <= t /\ ~ Reaches(l, from[t])}}
  <2> SUFFICES ASSUME bad # {} PROVE FALSE
    BY <1>11
  <2>1. bad \in SUBSET Nat
    BY <1>1
  <2>2. PICK i \in bad : \A j \in bad : i <= j
    BY <2>1, Minimal
  <2>3. PICK t \in Places : i = m[t] /\ l <= t /\ ~ Reaches(l, from[t])
    OBVIOUS
  <2>4. \A r \in Places : t < r => Reaches(l, from[r])
    <3> SUFFICES ASSUME NEW r \in Places, t < r, ~ Reaches(l, from[r]) PROVE FALSE
      OBVIOUS
    <3>1. l <= r
      BY <1>1, <2>3
    <3>2. m[r] \in bad
      BY <3>1
    <3>3. m[r] < m[t]
      BY <1>1
    <3>4. m[r] \in Nat /\ m[t] \in Nat
      BY <1>1
    <3> HIDE DEF bad, m
    <3> QED
      BY <2>2, <2>3, <3>2, <3>3, <3>4
  <2>5. Reaches(l, StringBody(t, from))
    BY <2>3, <2>4, BodyIs
  <2> QED
    BY <1>10, <2>3, <2>5
<1>12. CASE Peek(p) = Ch["quote"]
  <2>1. p + 1 \in Places /\ p + 1 > p
    <3>1. Ch["quote"] # STREAM_EMPTY
      BY CharsAre DEF STREAM_EMPTY
    <3>2. Peek(p) # STREAM_EMPTY
      BY <1>12, <3>1
    <3> QED
      BY <3>2, NextIs
  <2>2. Reaches(p + 1, from[p + 1])
    <3>1. p + 1 <= p + 1
      BY <1>1
    <3> QED
      BY <1>11, <2>1, <3>1
  <2>3. from[p + 1] \in Scan /\ p + 1 <= from[p + 1].at /\ from[p + 1].at \in Places
    BY <2>2 DEF Reaches, Scan
  <2>4. p < from[p + 1].at /\ p <= from[p + 1].at
    BY <1>1, <2>3
  <2> QED
    BY <1>9, <1>12, <2>3, <2>4
<1>13. CASE Peek(p) # Ch["quote"]
  <2>1. Next1(p) \in Places /\ p <= Next1(p)
    BY NextIs
  <2>2. StringFrom(p) = [ok |-> FALSE, at |-> Next1(p), val |-> <<>>]
    BY <1>9, <1>13
  <2> QED
    BY <1>13, <2>1, <2>2 DEF Scan
<1> QED
  BY <1>12, <1>13

----------------------------------------------------------------------------
(* The numbers, and the rows of characters that are put together. *)

\* What is in V at a place if it is at all places of a smaller measure is in V everywhere.
LEMMA Inductively ==
    ASSUME NEW D, NEW m \in [D -> Nat], NEW f, NEW V,
           \A d \in D : (\A e \in D : m[e] < m[d] => f[e] \in V) => f[d] \in V
    PROVE  \A d \in D : f[d] \in V
<1> DEFINE bad == {m[d] : d \in {e \in D : f[e] \notin V}}
<1> SUFFICES ASSUME bad # {} PROVE FALSE
  OBVIOUS
<1>1. bad \in SUBSET Nat
  OBVIOUS
<1>2. PICK i \in bad : \A j \in bad : i <= j
  BY <1>1, Minimal
<1>3. PICK d \in D : i = m[d] /\ f[d] \notin V
  OBVIOUS
<1>4. PICK e \in D : m[e] < m[d] /\ f[e] \notin V
  BY <1>3
<1>5. m[e] \in bad /\ m[e] \in Nat /\ m[d] \in Nat
  BY <1>4
<1> HIDE DEF bad
<1> QED
  BY <1>2, <1>3, <1>4, <1>5

LEMMA MaxIs ==
    ASSUME NEW n \in Nat, NEW S \in SUBSET (1..n), S # {}
    PROVE  Max(S) \in S
<1> DEFINE R == {n - i : i \in S}
<1>1. R \in SUBSET Nat /\ R # {}
  <2>1. \A i \in S : n - i \in Nat
    <3>1. \A i \in S : i \in Int /\ i <= n
      OBVIOUS
    <3> QED
      BY <3>1
  <2> QED
    BY <2>1
<1>2. PICK r \in R : \A q \in R : r <= q
  BY <1>1, Minimal
<1>3. PICK i \in S : r = n - i
  OBVIOUS
<1>4. \A j \in S : n - j \in R /\ j \in Nat
  OBVIOUS
<1> HIDE DEF R
<1>5. \A j \in S : i >= j
  BY <1>2, <1>3, <1>4
<1> QED
  BY <1>5 DEF Max

ShiftIn(n, c) == IF c \in Digit THEN n * 10 + c - Ch["0"] ELSE n

LEMMA ShiftIs == ASSUME NEW n \in Int, NEW c \in Int PROVE ShiftIn(n, c) \in Int
<1>1. Ch["0"] = 48
  BY CharsAre
<1> QED
  BY <1>1 DEF ShiftIn

LEMMA IntegerValueIs == ASSUME NEW x \in Seq(Char) PROVE IntegerValue(x) \in Int
<1> DEFINE n == Len(x)
           D == SUBSET (DOMAIN x)
           Shifted(s, f) == IF s = {} THEN 0 ELSE ShiftIn(f[s \ {Max(s)}], x[Max(s)])
           Body(f) == [s \in D |-> Shifted(s, f)]
           iter == CHOOSE f : f = Body(f)
           m == [s \in D |-> Cardinality(s)]
           Phi == [z \in D \X [D -> Int] |-> Shifted(z[1], z[2])]
<1>1. n \in Nat /\ DOMAIN x = 1..n /\ \A i \in 1..n : x[i] \in Int
  <2>1. n \in Nat /\ DOMAIN x = 1..n /\ \A i \in 1..n : x[i] \in Char
    OBVIOUS
  <2> QED
    BY <2>1, EmptyIs
<1>2. m \in [D -> Nat] /\ \A s \in D : IsFiniteSet(s)
  <2>1. IsFiniteSet(1..n)
    BY <1>1, FS_Interval
  <2>2. \A s \in D : IsFiniteSet(s)
    BY <1>1, <2>1, FS_Subset
  <2>3. \A s \in D : Cardinality(s) \in Nat
    BY <2>2, FS_CardinalityType
  <2> QED
    BY <2>2, <2>3
<1>3. ASSUME NEW s \in D, s # {}
      PROVE  s \ {Max(s)} \in D /\ m[s \ {Max(s)}] < m[s] /\ x[Max(s)] \in Int
  <2>1. Max(s) \in s
    BY <1>1, <1>3, MaxIs
  <2>2. IsFiniteSet(s)
    BY <1>2
  <2>3. Cardinality(s) \in Nat /\ Cardinality(s \ {Max(s)}) = Cardinality(s) - 1
    BY <2>1, <2>2, FS_CardinalityType, FS_RemoveElement
  <2> QED
    BY <1>1, <2>1, <2>3
<1> HIDE DEF m
<1>4. Local(D, Int, m, Phi)
  <2>1. ASSUME NEW s \in D, NEW f \in [D -> Int] PROVE Shifted(s, f) \in Int
    <3>1. CASE s = {}
      BY <3>1
    <3>2. CASE s # {}
      <4>1. f[s \ {Max(s)}] \in Int
        BY <1>3, <3>2
      <4> QED
        BY <1>3, <3>2, <4>1, ShiftIs
    <3> QED
      BY <3>1, <3>2
  <2>2. ASSUME NEW s \in D, NEW f \in [D -> Int], NEW g \in [D -> Int],
               \A e \in D : m[e] < m[s] => f[e] = g[e]
        PROVE  Shifted(s, f) = Shifted(s, g)
    BY <1>3, <2>2
  <2>3. Phi \in [D \X [D -> Int] -> Int]
    <3> HIDE DEF Shifted, D
    <3> QED
      BY <2>1
  <2>4. \A s \in D, f \in [D -> Int] : Phi[<<s, f>>] = Shifted(s, f)
    <3> HIDE DEF Shifted, D
    <3> QED
      OBVIOUS
  <2> HIDE DEF Shifted, Phi, D
  <2>5. ASSUME NEW s \in D, NEW f \in [D -> Int], NEW g \in [D -> Int],
               \A e \in D : m[e] < m[s] => f[e] = g[e]
        PROVE  Phi[<<s, f>>] = Phi[<<s, g>>]
    <3>1. Phi[<<s, f>>] = Shifted(s, f) /\ Phi[<<s, g>>] = Shifted(s, g)
      BY <2>4
    <3>2. Shifted(s, f) = Shifted(s, g)
      BY <2>2, <2>5
    <3> QED
      BY <3>1, <3>2
  <2> QED
    BY <1>2, <2>3, <2>5 DEF Local
<1>5. PICK f \in [D -> Int] : \A s \in D : f[s] = Phi[<<s, f>>]
  <2> HIDE DEF Phi, D
  <2> QED
    BY <1>4, Recursion
<1>6. f = Body(f)
  <2>1. \A s \in D : f[s] = Shifted(s, f)
    <3> HIDE DEF Shifted, D
    <3> QED
      BY <1>5
  <2> HIDE DEF Shifted, D
  <2> QED
    BY <2>1
<1>7. iter = Body(iter)
  <2> HIDE DEF Body
  <2> QED
    BY <1>6
<1>8. IntegerValue(x) = IF x[1] = Ch["-"] THEN - iter[DOMAIN x] ELSE iter[DOMAIN x]
  BY Zenon DEF IntegerValue, FoldLeft, MapThenFoldSet, ShiftIn
<1> HIDE DEF iter
<1>9. \A s \in D : iter[s] = Shifted(s, iter)
  <2> HIDE DEF Shifted, D
  <2> QED
    BY <1>7
<1>10. \A s \in D : (\A e \in D : m[e] < m[s] => iter[e] \in Int) => iter[s] \in Int
  <2> SUFFICES ASSUME NEW s \in D, \A e \in D : m[e] < m[s] => iter[e] \in Int
               PROVE  iter[s] \in Int
    OBVIOUS
  <2>0. iter[s] = Shifted(s, iter)
    BY <1>9
  <2>1. CASE s = {}
    BY <2>0, <2>1
  <2>2. CASE s # {}
    <3>1. iter[s \ {Max(s)}] \in Int /\ x[Max(s)] \in Int
      BY <1>3, <2>2
    <3>2. ShiftIn(iter[s \ {Max(s)}], x[Max(s)]) \in Int
      BY <3>1, ShiftIs
    <3> QED
      BY <2>0, <2>2, <3>2
  <2> QED
    BY <2>1, <2>2
<1>11. \A s \in D : iter[s] \in Int
  <2> HIDE DEF D
  <2> QED
    BY <1>2, <1>10, Inductively
<1>12. iter[DOMAIN x] \in Int
  BY <1>11
<1> QED
  BY <1>8, <1>12

LEMMA FlattenIs ==
    ASSUME NEW seqs \in Seq(Seq(Char))
    PROVE  FlattenSeq(seqs) \in Seq(Char)
<1> DEFINE n == Len(seqs)
           D == 1..n
           Glued(i, f) == IF i = 1 THEN seqs[i] ELSE f[i - 1] \o seqs[i]
           Body(f) == [i \in D |-> Glued(i, f)]
           flatten == CHOOSE f : f = Body(f)
           m == [i \in D |-> i]
           Phi == [z \in D \X [D -> Seq(Char)] |-> Glued(z[1], z[2])]
<1>1. n \in Nat /\ m \in [D -> Nat] /\ \A i \in D : seqs[i] \in Seq(Char)
  OBVIOUS
<1>2. \A i \in D : i # 1 => i - 1 \in D /\ m[i - 1] < m[i]
  BY <1>1
<1>3. CASE n = 0
  <2>1. FlattenSeq(seqs) = seqs /\ seqs = <<>>
    BY <1>3 DEF FlattenSeq
  <2> QED
    BY <2>1
<1>4. CASE n # 0
  <2> HIDE DEF m
  <2>1. ASSUME NEW i \in D, NEW f, \A e \in D : m[e] < m[i] => f[e] \in Seq(Char)
        PROVE  Glued(i, f) \in Seq(Char)
    <3>1. CASE i = 1
      BY <1>1, <3>1
    <3>2. CASE i # 1
      <4>1. f[i - 1] \in Seq(Char)
        BY <1>2, <2>1, <3>2
      <4>2. f[i - 1] \o seqs[i] \in Seq(Char)
        BY <1>1, <4>1
      <4> QED
        BY <3>2, <4>2
    <3> QED
      BY <3>1, <3>2
  <2>2. ASSUME NEW i \in D, NEW f, NEW g, \A e \in D : m[e] < m[i] => f[e] = g[e]
        PROVE  Glued(i, f) = Glued(i, g)
    BY <1>2, <2>2
  <2>3. \A i \in D : \A f \in [D -> Seq(Char)] : Phi[<<i, f>>] = Glued(i, f)
    <3> HIDE DEF Glued, D
    <3> QED
      OBVIOUS
  <2>4. Phi \in [D \X [D -> Seq(Char)] -> Seq(Char)]
    <3>1. ASSUME NEW i \in D, NEW f \in [D -> Seq(Char)] PROVE Glued(i, f) \in Seq(Char)
      <4>1. \A e \in D : f[e] \in Seq(Char)
        OBVIOUS
      <4> HIDE DEF Glued, D
      <4> QED
        BY <2>1, <4>1
    <3> HIDE DEF Glued, D
    <3> QED
      BY <3>1
  <2> HIDE DEF Glued, Phi, D
  <2>5. Local(D, Seq(Char), m, Phi)
    <3>1. ASSUME NEW i \in D, NEW f \in [D -> Seq(Char)], NEW g \in [D -> Seq(Char)],
                 \A e \in D : m[e] < m[i] => f[e] = g[e]
          PROVE  Phi[<<i, f>>] = Phi[<<i, g>>]
      <4>1. Glued(i, f) = Glued(i, g)
        BY <2>2, <3>1
      <4> QED
        BY <2>3, <4>1
    <3> QED
      BY <1>1, <2>4, <3>1 DEF Local
  <2>6. <<>> \in Seq(Char)
    OBVIOUS
  <2>7. PICK f \in [D -> Seq(Char)] : \A i \in D : f[i] = Phi[<<i, f>>]
    <3> DEFINE V == Seq(Char)
               v == <<>>
    <3>1. v \in V /\ Local(D, V, m, Phi)
      BY <2>5, <2>6
    <3> HIDE DEF V, v
    <3>2. \E f \in [D -> V] : \A i \in D : f[i] = Phi[<<i, f>>]
      BY <3>1, Recursion
    <3> QED
      BY <3>2 DEF V
  <2>8. f = Body(f)
    <3>1. \A i \in D : f[i] = Glued(i, f)
      BY <2>3, <2>7
    <3> QED
      BY <3>1
  <2>9. flatten = Body(flatten)
    <3> HIDE DEF Body
    <3> QED
      BY <2>8
  <2>10. FlattenSeq(seqs) = flatten[n]
    BY <1>4, Zenon DEF FlattenSeq, Glued, D
  <2> HIDE DEF flatten
  <2>11. \A i \in D : flatten[i] = Glued(i, flatten)
    BY <2>9
  <2>12. \A i \in D : (\A e \in D : m[e] < m[i] => flatten[e] \in Seq(Char)) => flatten[i] \in Seq(Char)
    BY <2>1, <2>11
  <2>13. \A i \in D : flatten[i] \in Seq(Char)
    BY <1>1, <2>12, Inductively
  <2>14. n \in D
    BY <1>1, <1>4 DEF D
  <2> QED
    BY <2>10, <2>13, <2>14
<1> QED
  BY <1>3, <1>4

LEMMA SpelledIs == ASSUME NEW tokens \in Foreign PROVE Spelled(tokens) \in Seq(Char)
<1>1. tokens \in Seq(DOMAIN Spelling) /\ \A t \in DOMAIN Spelling : Spelling[t] \in Seq(Char)
  BY TextAssumption
<1> DEFINE texts == [i \in DOMAIN tokens |-> Spelling[tokens[i]]]
<1>2. Len(tokens) \in Nat /\ texts \in [1..Len(tokens) -> Seq(Char)]
  BY <1>1
<1>3. texts \in Seq(Seq(Char))
  BY <1>2, SeqDef
<1> QED
  BY <1>3, FlattenIs DEF Spelled

LEMMA MinOfTwo ==
    ASSUME NEW a \in Nat, NEW b \in Nat
    PROVE  Min({a, b}) \in {a, b} /\ Min({a, b}) <= a /\ Min({a, b}) <= b
<1>1. {a, b} \in SUBSET Nat /\ {a, b} # {}
  OBVIOUS
<1> QED
  BY <1>1, MinIs

LEMMA PartIs ==
    ASSUME NEW x \in Seq(Char), NEW m \in Nat, m > 0, NEW n \in Int, m - 1 <= n, n <= Len(x)
    PROVE  SubSeq(x, m, n) \in Seq(Char) /\ Len(SubSeq(x, m, n)) = n + 1 - m
<1>1. \A i \in m..n : x[i] \in Char
  OBVIOUS
<1>2. m..n \subseteq 1..Len(x)
  OBVIOUS
<1> QED
  BY <1>1, <1>2, SubSeqProperties

----------------------------------------------------------------------------
(* The numbers: what snprintf writes and strtod reads. *)

LEMMA MarksToo ==
    {Ch["["], Ch["]"], Ch[":"], Ch["quote"], Ch["\n"], Ch["-"]} \subseteq Char /\ \A k \in 0..9 : Ch["0"] + k \in Char
<1>1. {Ch["["], Ch["]"], Ch[":"], Ch["quote"], Ch["\n"], Ch["-"]} = {91, 93, 58, 34, 10, 45} /\ Ch["0"] = 48
  BY CharsAre
<1>2. {91, 93, 58, 34, 10, 45} \subseteq Char
  BY DEF Char
<1>3. \A k \in 0..9 : 48 + k \in Char
  BY DEF Char
<1> QED
  BY <1>1, <1>2, <1>3

LEMMA Joining == ASSUME NEW x \in Seq(Char), NEW y \in Seq(Char) PROVE x \o y \in Seq(Char)
  OBVIOUS

\* A part of a row, which may be empty.
LEMMA PartOf ==
    ASSUME NEW S, NEW x \in Seq(S), NEW m \in Nat, m > 0, NEW n \in Int, n <= Len(x)
    PROVE  /\ SubSeq(x, m, n) \in Seq(S)
           /\ Len(SubSeq(x, m, n)) = IF m <= n THEN n + 1 - m ELSE 0
           /\ \A i \in 1..Len(SubSeq(x, m, n)) : i + m - 1 \in m..n /\ SubSeq(x, m, n)[i] = x[i + m - 1]
<1>1. \A i \in m..n : x[i] \in S
  OBVIOUS
<1>2. CASE m - 1 <= n
  <2>1. m..n \subseteq 1..Len(x)
    OBVIOUS
  <2>2. SubSeq(x, m, n) \in Seq(S) /\ Len(SubSeq(x, m, n)) = n + 1 - m
    BY <1>1, <1>2, <2>1, SubSeqProperties
  <2> QED
    BY <1>2, <2>2
<1>3. CASE n < m - 1
  BY <1>3
<1> QED
  BY <1>2, <1>3

LEMMA RowIn ==
    ASSUME NEW S, NEW T, NEW x \in Seq(S), \A i \in 1..Len(x) : x[i] \in T
    PROVE  x \in Seq(T)
<1>1. Len(x) \in Nat /\ x = [i \in 1..Len(x) |-> x[i]]
  OBVIOUS
<1>2. x \in [1..Len(x) -> T]
  BY <1>1
<1> QED
  BY <1>1, <1>2, SeqDef

LEMMA NumberParts ==
    ASSUME NEW n \in Number
    PROVE  Exp(n) \in Int /\ Sign(n) \in {1, -1} /\ Digits(n) \in Seq(0..9)
<1> DEFINE d == Digits(n)
           l == Len(n)
<1>1. n \in Seq(Int) /\ l >= 2 /\ n[2] \in {1, -1} /\ \A i \in 3..l : n[i] \in 0..9
  BY DEF Number
<1>2. n[1] \in Int /\ l \in Nat
  BY <1>1
<1>3. d \in Seq(Int) /\ \A i \in 1..Len(d) : i + 3 - 1 \in 3..l /\ d[i] = n[i + 3 - 1]
  <2>1. l \in Int /\ l <= l
    BY <1>2
  <2> QED
    BY <1>1, <2>1, PartOf DEF Digits
<1> HIDE DEF d, l
<1>4. \A i \in 1..Len(d) : d[i] \in 0..9
  BY <1>1, <1>3
<1>5. d \in Seq(0..9)
  BY <1>3, <1>4, RowIn
<1> QED
  BY <1>1, <1>2, <1>5 DEF Exp, Sign, d

LEMMA DecimalIs ==
    ASSUME NEW e \in Int, NEW s \in {1, -1}, NEW d \in Seq(0..9)
    PROVE  Decimal(e, s, d) \in Number
<1> DEFINE rest == <<e, s>>
           whole == rest \o d
<1>1. rest \in Seq(Int) /\ Len(rest) = 2 /\ rest[2] = s
  OBVIOUS
<1> HIDE DEF rest
<1>2. Len(d) \in Nat /\ \A i \in 1..Len(d) : d[i] \in 0..9 /\ d[i] \in Int
  OBVIOUS
<1>3. d \in Seq(Int)
  BY <1>2, RowIn
<1>4. /\ whole \in Seq(Int)
      /\ Len(whole) = Len(rest) + Len(d)
      /\ \A i \in 1..Len(rest) + Len(d) : whole[i] = IF i <= Len(rest) THEN rest[i] ELSE d[i - Len(rest)]
  BY <1>1, <1>3, ConcatProperties, Zenon
<1> HIDE DEF whole
<1>5. Len(whole) = 2 + Len(d)
  BY <1>1, <1>4
<1>6. whole[2] = s
  BY <1>1, <1>2, <1>4
<1>7. \A i \in 3..Len(whole) : whole[i] \in 0..9
  <2>1. \A i \in 3..Len(whole) : whole[i] = d[i - 2] /\ i - 2 \in 1..Len(d)
    BY <1>1, <1>2, <1>4, <1>5
  <2> QED
    BY <1>2, <2>1
<1>8. Len(whole) >= 2
  BY <1>2, <1>5
<1>9. whole \in Number
  BY <1>4, <1>6, <1>7, <1>8 DEF Number
<1> QED
  BY <1>9 DEF Decimal, whole, rest

LEMMA CanonicalIs == ASSUME NEW n \in Number PROVE Canonical[n] \in Number
<1> DEFINE d == Digits(n)
           places == {i \in DOMAIN d : d[i] # 0}
           first == Min(places)
           last == Max(places)
           part == SubSeq(d, first, last)
<1>1. Canonical[n] = IF places = {} THEN Decimal(0, 1, <<>>)
                     ELSE Decimal(Exp(n) - (first - 1), Sign(n), part)
  BY DEF Canonical
<1>2. Exp(n) \in Int /\ Sign(n) \in {1, -1} /\ d \in Seq(0..9)
  BY NumberParts
<1> HIDE DEF d
<1>3. CASE places = {}
  <2>1. <<>> \in Seq(0..9) /\ 0 \in Int /\ 1 \in {1, -1}
    OBVIOUS
  <2>2. Decimal(0, 1, <<>>) \in Number
    BY <2>1, DecimalIs
  <2> QED
    BY <1>1, <1>3, <2>2
<1>4. CASE places # {}
  <2>1. Len(d) \in Nat /\ places \in SUBSET (1..Len(d)) /\ places \in SUBSET Nat
    BY <1>2
  <2>2. first \in places /\ last \in places
    BY <1>4, <2>1, MinIs, MaxIs
  <2> HIDE DEF places, first, last
  <2>3. first \in Nat /\ first > 0 /\ last \in Int /\ last <= Len(d)
    BY <2>1, <2>2
  <2>4. part \in Seq(0..9)
    BY <1>2, <2>3, PartOf
  <2> HIDE DEF part
  <2>5. Exp(n) - (first - 1) \in Int
    BY <1>2, <2>3
  <2> QED
    BY <1>1, <1>2, <1>4, <2>4, <2>5, DecimalIs
<1> QED
  BY <1>3, <1>4

LEMMA RoundedIs == ASSUME NEW n \in Number PROVE Rounded[n] \in Number
<1> DEFINE d == Digits(n)
           kept == SubSeq(d, 1, Precision)
           upwards == \/ d[Precision + 1] > 5
                      \/ /\ d[Precision + 1] = 5
                         /\ Len(d) > Precision + 1 \/ kept[Precision] % 2 = 1
           small == {i \in 1..Precision : kept[i] < 9}
           top == Max(small)
           part == SubSeq(kept, 1, top)
           risen == [part EXCEPT ![top] = @ + 1]
<1>1. Rounded[n] = IF Len(d) <= Precision THEN n
                   ELSE IF ~ upwards THEN Canonical[Decimal(Exp(n), Sign(n), kept)]
                   ELSE IF small = {} THEN Decimal(Exp(n) + 1, Sign(n), <<1>>)
                   ELSE Decimal(Exp(n), Sign(n), risen)
  BY Zenon DEF Rounded
<1>2. Exp(n) \in Int /\ Sign(n) \in {1, -1} /\ d \in Seq(0..9) /\ Len(d) \in Nat
  BY NumberParts
<1>3. Precision \in Nat /\ Precision > 0
  BY PrecisionAssumption
<1> HIDE DEF d, upwards
<1>4. ASSUME ~ (Len(d) <= Precision)
      PROVE  kept \in Seq(0..9) /\ Len(kept) = Precision
  <2>1. Precision \in Int /\ Precision <= Len(d) /\ 1 <= Precision /\ Precision + 1 - 1 = Precision
    BY <1>2, <1>3, <1>4
  <2> QED
    BY <1>2, <2>1, PartOf
<1> HIDE DEF kept
<1>5. ASSUME ~ (Len(d) <= Precision), small # {}
      PROVE  risen \in Seq(0..9)
  <2>1. small \in SUBSET (1..Precision)
    OBVIOUS
  <2>2. top \in small
    BY <1>3, <1>5, <2>1, MaxIs
  <2>3. top \in 1..Precision /\ kept[top] < 9 /\ kept[top] \in 0..9
    BY <1>4, <1>5, <2>2
  <2> HIDE DEF top
  <2>4. top \in Int /\ top <= Len(kept) /\ 1 <= top /\ top + 1 - 1 = top
    BY <1>3, <1>4, <1>5, <2>3
  <2>5. part \in Seq(0..9) /\ Len(part) = top /\ \A i \in 1..Len(part) : i + 1 - 1 \in 1..top /\ part[i] = kept[i + 1 - 1]
    BY <1>4, <1>5, <2>4, PartOf
  <2>6. part[top] = kept[top]
    BY <2>4, <2>5
  <2> HIDE DEF part
  <2>7. part[top] + 1 \in 0..9
    BY <2>3, <2>6
  <2> QED
    BY <2>4, <2>5, <2>7
<1> HIDE DEF small, risen
<1>6. CASE Len(d) <= Precision
  BY <1>1, <1>6
<1>7. CASE ~ (Len(d) <= Precision) /\ ~ upwards
  <2>1. Decimal(Exp(n), Sign(n), kept) \in Number
    BY <1>2, <1>4, <1>7, DecimalIs
  <2>2. Rounded[n] = Canonical[Decimal(Exp(n), Sign(n), kept)]
    BY <1>1, <1>7, Zenon
  <2> QED
    BY <2>1, <2>2, CanonicalIs
<1>8. CASE ~ (Len(d) <= Precision) /\ upwards /\ small = {}
  <2>1. Exp(n) + 1 \in Int /\ <<1>> \in Seq(0..9)
    BY <1>2
  <2>2. Rounded[n] = Decimal(Exp(n) + 1, Sign(n), <<1>>)
    BY <1>1, <1>8, Zenon
  <2> QED
    BY <1>2, <2>1, <2>2, DecimalIs
<1>9. CASE ~ (Len(d) <= Precision) /\ upwards /\ small # {}
  <2>1. Rounded[n] = Decimal(Exp(n), Sign(n), risen)
    BY <1>1, <1>9, Zenon
  <2> QED
    BY <1>2, <1>5, <1>9, <2>1, DecimalIs
<1> QED
  BY <1>6, <1>7, <1>8, <1>9

LEMMA DigitCharsIs == ASSUME NEW d \in Seq(0..9) PROVE DigitChars(d) \in Seq(Char)
<1>1. Len(d) \in Nat /\ DOMAIN d = 1..Len(d) /\ \A i \in 1..Len(d) : d[i] \in 0..9
  OBVIOUS
<1>2. \A i \in 1..Len(d) : Ch["0"] + d[i] \in Char
  BY <1>1, MarksToo
<1>3. DigitChars(d) \in [1..Len(d) -> Char]
  BY <1>1, <1>2 DEF DigitChars
<1> QED
  BY <1>1, <1>3, SeqDef

LEMMA ZerosIs ==
    ASSUME NEW k \in Int PROVE Zeros(k) \in Seq(0..9) /\ Len(Zeros(k)) = IF k > 0 THEN k ELSE 0
<1>1. CASE k > 0
  <2> DEFINE z == [i \in 1..k |-> 0]
  <2>1. k \in Nat /\ z \in [1..k -> 0..9]
    BY <1>1
  <2>2. z \in Seq(0..9) /\ Len(z) = k
    BY <2>1, SeqDef
  <2>3. Zeros(k) = z
    BY <1>1 DEF Zeros
  <2> QED
    BY <1>1, <2>2, <2>3
<1>2. CASE ~ (k > 0)
  BY <1>2 DEF Zeros
<1> QED
  BY <1>1, <1>2

LEMMA PointedIs ==
    ASSUME NEW whole \in Seq(0..9), NEW fraction \in Seq(0..9)
    PROVE  Pointed(whole, fraction) \in Seq(Char)
<1> DEFINE w == DigitChars(whole)
           f == DigitChars(fraction)
           dot == <<Ch["."]>>
           tail == IF fraction = <<>> THEN <<>> ELSE dot \o f
<1>1. w \in Seq(Char) /\ f \in Seq(Char)
  BY DigitCharsIs
<1>2. dot \in Seq(Char)
  <2>1. Ch["."] \in Char
    BY CharsAre DEF Char
  <2> QED
    BY <2>1
<1>3. Pointed(whole, fraction) = w \o tail
  BY Zenon DEF Pointed
<1> HIDE DEF w, f, dot
<1>4. dot \o f \in Seq(Char)
  BY <1>1, <1>2
<1>5. tail \in Seq(Char)
  BY <1>4
<1> HIDE DEF tail
<1>6. w \o tail \in Seq(Char)
  BY <1>1, <1>5
<1> QED
  BY <1>3, <1>6

LEMMA ExponentTextIs == ASSUME NEW x \in Int PROVE ExponentText(x) \in Seq(Char)
<1> DEFINE size == IF x < 0 THEN -x ELSE x
           tens == <<(size \div 10) % 10, size % 10>>
           hundreds == <<(size \div 100) % 10>>
           all == hundreds \o tens
           digits == IF size < 100 THEN tens ELSE all
           sign == IF x < 0 THEN Ch["-"] ELSE Ch["+"]
           head == <<Ch["e"], sign>>
<1>1. ExponentText(x) = head \o DigitChars(digits)
  BY Zenon DEF ExponentText
<1>2. head \in Seq(Char)
  <2>1. Ch["e"] \in Char /\ Ch["-"] \in Char /\ Ch["+"] \in Char
    BY CharsAre DEF Char
  <2>2. sign \in Char
    BY <2>1
  <2> HIDE DEF sign
  <2> QED
    BY <2>1, <2>2
<1>3. size \in Nat
  OBVIOUS
<1> HIDE DEF size, head
<1>4. (size \div 10) % 10 \in 0..9 /\ size % 10 \in 0..9 /\ (size \div 100) % 10 \in 0..9
  BY <1>3
<1>5. tens \in Seq(0..9) /\ hundreds \in Seq(0..9)
  BY <1>4
<1> HIDE DEF tens, hundreds
<1>6. all \in Seq(0..9)
  BY <1>5
<1> HIDE DEF all
<1>7. digits \in Seq(0..9)
  BY <1>5, <1>6
<1> HIDE DEF digits
<1>8. DigitChars(digits) \in Seq(Char)
  BY <1>7, DigitCharsIs
<1> QED
  BY <1>1, <1>2, <1>8, Joining

LEMMA MagnitudeIs == ASSUME NEW n \in Number PROVE MagnitudeText[n] \in Seq(Char)
<1> DEFINE d == Digits(n)
           before == Zeros(1 - Exp(n))
           behind == Zeros(Exp(n) - Len(d))
           padded == before \o d \o behind
           point == IF Exp(n) > 0 THEN Exp(n) ELSE 1
           whole == SubSeq(padded, 1, point)
           fraction == SubSeq(padded, point + 1, Len(padded))
           others == SubSeq(d, 2, Len(d))
           zero == <<Ch["0"]>>
           short == Pointed(whole, fraction)
           long == Pointed(<<d[1]>>, others) \o ExponentText(Exp(n) - 1)
<1>1. MagnitudeText[n] = IF d = <<>> THEN zero
                         ELSE IF Exp(n) \in -3..Precision THEN short ELSE long
  BY Zenon DEF MagnitudeText
<1>2. Exp(n) \in Int /\ d \in Seq(0..9) /\ Len(d) \in Nat
  BY NumberParts
<1>3. zero \in Seq(Char)
  <2>1. 0 \in 0..9 /\ Ch["0"] + 0 = Ch["0"]
    BY CharsAre
  <2>2. Ch["0"] \in Char
    BY <2>1, MarksToo
  <2> QED
    BY <2>2
<1> HIDE DEF d, zero
<1>4. short \in Seq(Char)
  <2>0. 1 - Exp(n) \in Int /\ Exp(n) - Len(d) \in Int
    BY <1>2
  <2>1. before \in Seq(0..9) /\ Len(before) = IF 1 - Exp(n) > 0 THEN 1 - Exp(n) ELSE 0
    BY <2>0, ZerosIs
  <2>2. behind \in Seq(0..9) /\ Len(behind) = IF Exp(n) - Len(d) > 0 THEN Exp(n) - Len(d) ELSE 0
    BY <2>0, ZerosIs
  <2> HIDE DEF before, behind
  <2> DEFINE front == before \o d
  <2>3. front \in Seq(0..9) /\ Len(front) = Len(before) + Len(d)
    BY <1>2, <2>1, ConcatProperties, Zenon
  <2>4. padded = front \o behind
    OBVIOUS
  <2> HIDE DEF front
  <2>5. padded \in Seq(0..9) /\ Len(padded) = Len(front) + Len(behind)
    BY <2>2, <2>3, <2>4, ConcatProperties, Zenon
  <2> HIDE DEF padded
  <2> DEFINE e == Exp(n)
             a == Len(before)
             b == Len(behind)
             k == Len(d)
             l == Len(padded)
  <2>a. l = a + k + b /\ a \in Nat /\ b \in Nat
    BY <1>2, <2>1, <2>2, <2>3, <2>5
  <2>b. a >= 1 - e /\ b >= e - k /\ e \in Int /\ k \in Nat
    BY <1>2, <2>1, <2>2
  <2>d. point \in Int /\ 1 <= point /\ (point = e \/ (point = 1 /\ e <= 0))
    BY <2>b
  <2> HIDE DEF e, a, b, k, l, point
  <2>6. point \in Int /\ 1 <= point /\ point <= l /\ point + 1 \in Nat /\ point + 1 > 0
        /\ l \in Int /\ l <= l
    BY <2>a, <2>b, <2>d
  <2> USE DEF l
  <2>7. 1 \in Nat /\ 1 > 0
    OBVIOUS
  <2>8. whole \in Seq(0..9) /\ fraction \in Seq(0..9)
    BY <2>5, <2>6, <2>7, PartOf
  <2> HIDE DEF whole, fraction
  <2> QED
    BY <2>8, PointedIs
<1>5. CASE d # <<>>
  <2>1. Len(d) > 0 /\ d[1] \in 0..9
    BY <1>2, <1>5
  <2>2. <<d[1]>> \in Seq(0..9)
    BY <2>1
  <2>3. 2 \in Nat /\ 2 > 0 /\ Len(d) \in Int /\ Len(d) <= Len(d)
    BY <1>2
  <2>4. others \in Seq(0..9)
    BY <1>2, <2>3, PartOf
  <2> HIDE DEF others
  <2>5. Pointed(<<d[1]>>, others) \in Seq(Char)
    BY <2>2, <2>4, PointedIs
  <2>6. Exp(n) - 1 \in Int
    BY <1>2
  <2>7. ExponentText(Exp(n) - 1) \in Seq(Char)
    BY <2>6, ExponentTextIs
  <2>8. long \in Seq(Char)
    BY <2>5, <2>7, Joining
  <2> HIDE DEF long, short
  <2> QED
    BY <1>1, <1>4, <1>5, <2>8, Zenon
<1>6. CASE d = <<>>
  BY <1>1, <1>3, <1>6
<1> QED
  BY <1>5, <1>6

LEMMA NumberTextIs == ASSUME NEW n \in Number PROVE NumberText[n] \in Seq(Char)
<1> DEFINE minus == <<Ch["-"]>>
           sign == IF Sign(n) = -1 THEN minus ELSE <<>>
           magnitude == MagnitudeText[Rounded[n]]
           text == sign \o magnitude
           l == Min({Len(text), NumberWidth - 1})
<1>1. NumberText[n] = SubSeq(text, 1, l)
  BY Zenon DEF NumberText
<1>2. minus \in Seq(Char)
  BY MarksToo
<1> HIDE DEF minus
<1>3. sign \in Seq(Char)
  BY <1>2
<1>4. magnitude \in Seq(Char)
  BY RoundedIs, MagnitudeIs
<1> HIDE DEF sign, magnitude
<1>5. text \in Seq(Char)
  BY <1>3, <1>4, Joining
<1> HIDE DEF text
<1>6. Len(text) \in Nat /\ NumberWidth - 1 \in Nat
  BY <1>5, NumberAssumption
<1>7. l \in Nat /\ l <= Len(text)
  BY <1>6, MinOfTwo
<1> HIDE DEF l
<1>8. 1 \in Nat /\ 1 > 0 /\ l \in Int
  BY <1>7
<1>9. SubSeq(text, 1, l) \in Seq(Char)
  BY <1>5, <1>7, <1>8, PartOf
<1> QED
  BY <1>1, <1>9

LEMMA MantissaIs ==
    ASSUME NEW x \in Seq(Char)
    PROVE  /\ Mantissa(x) \in Seq(Char) /\ Len(Mantissa(x)) <= Len(x)
           /\ Exponent(x) \in Seq(Char)
<1> DEFINE places == Exponents(x)
           first == Min(places)
           upto == IF places = {} THEN Len(x) ELSE first - 1
           zero == <<Ch["0"]>>
           rest == SubSeq(x, first + 1, Len(x))
<1>1. Len(x) \in Nat /\ Len(x) \in Int /\ Len(x) <= Len(x)
  OBVIOUS
<1>2. places \in SUBSET (1..Len(x)) /\ places \in SUBSET Nat
  BY <1>1 DEF Exponents
<1>3. places # {} => first \in 1..Len(x)
  BY <1>2, MinIs
<1>4. Mantissa(x) = SubSeq(x, 1, upto)
  BY Zenon DEF Mantissa
<1>5. Exponent(x) = IF places = {} THEN zero ELSE rest
  BY Zenon DEF Exponent
<1>6. zero \in Seq(Char)
  <2>1. 0 \in 0..9 /\ Ch["0"] + 0 = Ch["0"]
    BY CharsAre
  <2>2. Ch["0"] \in Char
    BY <2>1, MarksToo
  <2> QED
    BY <2>2
<1> HIDE DEF places, first, zero
<1>7. upto \in Int /\ upto <= Len(x) /\ 1 \in Nat /\ 1 > 0
  BY <1>1, <1>3
<1> HIDE DEF upto
<1>8. /\ SubSeq(x, 1, upto) \in Seq(Char)
      /\ Len(SubSeq(x, 1, upto)) = IF 1 <= upto THEN upto + 1 - 1 ELSE 0
  BY <1>7, PartOf
<1>9. places # {} => rest \in Seq(Char)
  <2>1. places # {} => first + 1 \in Nat /\ first + 1 > 0
    BY <1>3
  <2> QED
    BY <1>1, <2>1, PartOf
<1> HIDE DEF rest
<1>10. Exponent(x) \in Seq(Char)
  BY <1>5, <1>6, <1>9
<1>11. Len(Mantissa(x)) <= Len(x)
  BY <1>1, <1>4, <1>7, <1>8
<1> QED
  BY <1>4, <1>8, <1>10, <1>11

LEMMA StrtodIs == ASSUME NEW x \in Seq(Char), IsNumber[x] PROVE Strtod[x] \in Number
<1> DEFINE m == Mantissa(x)
           l == Len(m)
           dots == {i \in DOMAIN m : m[i] = Ch["."]} \cup {Len(m) + 1}
           point == Min(dots)
           start == IF IsSign(m, 1) THEN 2 ELSE 1
           whole == SubSeq(m, start, point - 1)
           fraction == SubSeq(m, point + 1, Len(m))
           figures == whole \o fraction
           digits == [i \in DOMAIN figures |-> figures[i] - Ch["0"]]
           exp == IntegerValue(Exponent(x)) + Len(whole)
           sign == IF m[1] = Ch["-"] THEN -1 ELSE 1
<1>1. Strtod[x] = Canonical[Decimal(exp, sign, digits)]
  BY Zenon DEF Strtod
<1>2. m \in Seq(Char) /\ IntegerValue(Exponent(x)) \in Int
  BY MantissaIs, IntegerValueIs
<1>3. IsDecimal(m)
  BY Zenon DEF IsNumber
<1> HIDE DEF m
<1>4. l \in Nat /\ DOMAIN m = 1..l
  BY <1>2
<1>5. point \in dots /\ \A i \in dots : point <= i
  <2>1. dots \in SUBSET Nat /\ dots # {}
    BY <1>4
  <2> HIDE DEF dots
  <2> QED
    BY <2>1, MinIs
<1>6. point \in 1..l + 1 /\ (point = l + 1 \/ m[point] = Ch["."]) /\ \A i \in 1..l : m[i] = Ch["."] => point <= i
  BY <1>4, <1>5
<1> HIDE DEF dots, point
<1>7. start \in {1, 2} /\ (start = 1 => ~ IsSign(m, 1))
  <2>1. CASE IsSign(m, 1)
    <3>1. start = 2
      BY <2>1
    <3> QED
      BY <3>1
  <2>2. CASE ~ IsSign(m, 1)
    <3>1. start = 1
      BY <2>2
    <3> QED
      BY <2>2, <3>1
  <2> QED
    BY <2>1, <2>2
<1> HIDE DEF start
<1>8. /\ \A i \in 1..l : m[i] \in Digit \/ m[i] = Ch["."] \/ IsSign(m, i)
      /\ \A i, j \in 1..l : m[i] = Ch["."] /\ m[j] = Ch["."] => i = j
  BY <1>3, <1>4 DEF IsDecimal
<1>9. \A i \in 1..l : IsSign(m, i) => i = 1
  BY Zenon DEF IsSign
<1>10. whole \in Seq(Digit)
  <2>1. start \in Nat /\ start > 0 /\ point - 1 \in Int /\ point - 1 <= l
    BY <1>4, <1>6, <1>7
  <2>2. whole \in Seq(Char) /\ \A i \in 1..Len(whole) : i + start - 1 \in start..(point - 1) /\ whole[i] = m[i + start - 1]
    BY <1>2, <2>1, PartOf
  <2> HIDE DEF whole
  <2>3. \A k \in start..(point - 1) : m[k] \in Digit
    <3> TAKE k \in start..(point - 1)
    <3>1. k \in 1..l /\ k < point
      BY <1>4, <1>6, <1>7
    <3>2. m[k] # Ch["."]
      BY <1>4, <1>6, <3>1
    <3>3. ~ IsSign(m, k)
      BY <1>7, <1>9, <3>1
    <3> QED
      BY <1>8, <3>1, <3>2, <3>3
  <2>4. \A i \in 1..Len(whole) : whole[i] \in Digit
    BY <2>2, <2>3
  <2> QED
    BY <2>2, <2>4, RowIn
<1>11. fraction \in Seq(Digit)
  <2>1. point + 1 \in Nat /\ point + 1 > 0 /\ l \in Int /\ l <= l
    BY <1>4, <1>6
  <2>2. fraction \in Seq(Char) /\ \A i \in 1..Len(fraction) : i + (point + 1) - 1 \in (point + 1)..l
                                  /\ fraction[i] = m[i + (point + 1) - 1]
    BY <1>2, <2>1, PartOf
  <2> HIDE DEF fraction
  <2>3. \A k \in (point + 1)..l : m[k] \in Digit
    <3> TAKE k \in (point + 1)..l
    <3>1. k \in 1..l /\ point \in 1..l /\ k # point /\ k # 1 /\ m[point] = Ch["."]
      BY <1>4, <1>6
    <3>2. m[k] # Ch["."]
      BY <1>8, <3>1
    <3>3. ~ IsSign(m, k)
      BY <1>9, <3>1
    <3> QED
      BY <1>8, <3>1, <3>2, <3>3
  <2>4. \A i \in 1..Len(fraction) : fraction[i] \in Digit
    BY <2>2, <2>3
  <2> QED
    BY <2>2, <2>4, RowIn
<1>12. exp \in Int
  BY <1>2, <1>10
<1> HIDE DEF whole, fraction, exp
<1>13. figures \in Seq(Digit)
  BY <1>10, <1>11, ConcatProperties, Zenon
<1> HIDE DEF figures
<1>14. digits \in Seq(0..9)
  <2>1. Ch["0"] = 48 /\ Ch["9"] = 57
    BY CharsAre
  <2>2. Len(figures) \in Nat /\ DOMAIN figures = 1..Len(figures) /\ \A i \in 1..Len(figures) : figures[i] \in Digit
    BY <1>13
  <2>3. \A c \in Digit : c - Ch["0"] \in 0..9
    BY <2>1 DEF Digit
  <2>4. digits \in [1..Len(figures) -> 0..9]
    BY <2>2, <2>3
  <2> QED
    BY <2>2, <2>4, SeqDef
<1> HIDE DEF digits
<1>15. sign \in {1, -1}
  OBVIOUS
<1> HIDE DEF sign
<1>16. Decimal(exp, sign, digits) \in Number
  BY <1>12, <1>14, <1>15, DecimalIs
<1> QED
  BY <1>1, <1>16, CanonicalIs

\* Whether strtod takes a row of characters; it does not take none.
LEMMA IsNumberIs ==
    ASSUME NEW x \in Seq(Char) PROVE IsNumber[x] \in BOOLEAN /\ (IsNumber[x] => x # <<>>)
<1>1. IsNumber[x] = (IsDecimal(Mantissa(x)) /\ IsInteger(Exponent(x)))
  BY Zenon DEF IsNumber
<1>2. ASSUME IsNumber[x], x = <<>> PROVE FALSE
  <2>1. PICK i \in DOMAIN Mantissa(x) : TRUE
    BY <1>1, <1>2, Zenon DEF IsDecimal
  <2>2. Mantissa(x) \in Seq(Char) /\ Len(Mantissa(x)) <= Len(x)
    BY MantissaIs
  <2>3. Len(x) = 0
    BY <1>2
  <2> HIDE DEF Mantissa
  <2> QED
    BY <2>1, <2>2, <2>3
<1> QED
  BY <1>1, <1>2

----------------------------------------------------------------------------
(* The number at a position, and the characters of a string. *)

LEMMA NumberIs ==
    ASSUME input \in Seq(Char), NEW p \in Places
    PROVE  /\ NumberFrom(p) \in Scan /\ p <= NumberFrom(p).at
           /\ NumberFrom(p).ok => p < NumberFrom(p).at /\ IsNumber[NumberFrom(p).val]
<1> DEFINE r == Past(p, NumberLike)
           w == p + NumberWidth
           q == Min({r, w})
           buf == SubSeq(input, p, q - 1)
<1>1. STREAM_EMPTY \notin NumberLike
  <2>1. Digit = 48..57
    BY CharsAre DEF Digit
  <2>2. {Ch["e"], Ch["E"], Ch["+"], Ch["-"], Ch["."]} = {101, 69, 43, 45, 46}
    BY CharsAre
  <2>3. NumberLike = (48..57) \cup {101, 69, 43, 45, 46}
    BY <2>1, <2>2, Zenon DEF NumberLike
  <2> QED
    BY <2>3 DEF STREAM_EMPTY
<1>2. r \in Places /\ p <= r
  BY <1>1, PastIs
<1>3. Len(input) \in Nat /\ p \in Nat /\ p > 0 /\ p <= Len(input) + 1 /\ NumberWidth \in Nat
      /\ r \in Nat /\ r <= Len(input) + 1
  BY <1>2, NumberAssumption DEF Places
<1>4. w \in Nat /\ p <= w
  BY <1>3
<1> HIDE DEF r, w
<1>5. q \in Nat /\ p <= q /\ q <= r
  BY <1>2, <1>3, <1>4, MinOfTwo
<1>6. NumberFrom(p) = [ok |-> IsNumber[buf], at |-> q, val |-> buf]
  BY DEF NumberFrom, r, w
<1> HIDE DEF q
<1>7. buf \in Seq(Char) /\ Len(buf) = q - p
  <2>1. q - 1 \in Int /\ p - 1 <= q - 1 /\ q - 1 <= Len(input) /\ q - 1 + 1 - p = q - p
    BY <1>3, <1>5
  <2> QED
    BY <1>3, <2>1, PartIs
<1>8. IsNumber[buf] \in BOOLEAN /\ (IsNumber[buf] => buf # <<>>)
  BY <1>7, IsNumberIs
<1>9. buf # <<>> => p < q
  <2> HIDE DEF buf
  <2>1. buf # <<>> => Len(buf) # 0
    BY <1>7
  <2> QED
    BY <1>3, <1>5, <1>7, <2>1
<1>10. q \in Places
  BY <1>3, <1>5 DEF Places
<1> HIDE DEF buf
<1> QED
  BY <1>5, <1>6, <1>7, <1>8, <1>9, <1>10 DEF Scan

LEMMA CStrIs == ASSUME NEW x \in Seq(Char) PROVE CStr(x) \in Seq(Char) /\ DOMAIN CStr(x) \subseteq DOMAIN x
<1> DEFINE nuls == {i \in DOMAIN x : x[i] = 0}
           m == Min(nuls)
<1>1. CASE nuls = {}
  BY <1>1 DEF CStr
<1>2. CASE nuls # {}
  <2>1. nuls \in SUBSET Nat
    OBVIOUS
  <2>2. m \in nuls
    BY <1>2, <2>1, MinIs
  <2>3. CStr(x) = SubSeq(x, 1, m - 1)
    BY <1>2 DEF CStr
  <2>4. m \in 1..Len(x) /\ Len(x) \in Nat
    BY <2>2
  <2> HIDE DEF m
  <2>5. m - 1 \in Int /\ 0 <= m - 1 /\ m - 1 <= Len(x) /\ 1 - 1 = 0 /\ m - 1 + 1 - 1 = m - 1
    BY <2>4
  <2>6. CStr(x) \in Seq(Char) /\ Len(CStr(x)) = m - 1
    BY <2>3, <2>5, PartIs
  <2>7. DOMAIN CStr(x) = 1..(m - 1) /\ DOMAIN x = 1..Len(x)
    BY <2>6
  <2> QED
    BY <2>4, <2>6, <2>7
<1> QED
  BY <1>1, <1>2

LEMMA EscapeIs == ASSUME NEW c \in Char PROVE Escape(c) \in Seq(Char)
<1>1. Ch["quote"] = 34 /\ Ch["\\"] = 92
  BY CharsAre
<1>2. Ch["quote"] \in Char /\ Ch["\\"] \in Char
  BY <1>1 DEF Char
<1>3. \A d \in DOMAIN Letter : Letter[d] \in Char /\ d \notin {34, 92}
  BY LettersAre DEF Char
<1>4. DOMAIN Letter \subseteq 0..31
  BY LettersAre
<1>5. CASE c \in {Ch["quote"], Ch["\\"]}
  <2>1. c \notin DOMAIN Letter /\ c \notin Control
    BY <1>1, <1>3, <1>5 DEF Control
  <2>2. Escape(c) = <<Ch["\\"], c>>
    BY <1>5, <2>1, Zenon DEF Escape
  <2> QED
    BY <1>2, <2>2
<1>6. CASE c \in DOMAIN Letter
  <2>1. c \notin {Ch["quote"], Ch["\\"]}
    BY <1>1, <1>3, <1>6
  <2>2. Escape(c) = <<Ch["\\"], Letter[c]>>
    BY <1>6, <2>1, Zenon DEF Escape
  <2> QED
    BY <1>2, <1>3, <1>6, <2>2
<1>7. CASE c \in Control \ DOMAIN Letter
  <2>1. c \notin {Ch["quote"], Ch["\\"]}
    BY <1>1, <1>7 DEF Control
  <2>2. Escape(c) = <<>>
    BY <1>7, <2>1, Zenon DEF Escape
  <2> QED
    BY <2>2
<1>8. CASE c \notin {Ch["quote"], Ch["\\"]} \cup DOMAIN Letter \cup Control
  <2>1. Escape(c) = <<c>>
    BY <1>8, Zenon DEF Escape
  <2> QED
    BY <2>1
<1> QED
  BY <1>5, <1>6, <1>7, <1>8

LEMMA EscapedIs == ASSUME NEW x \in Seq(Char) PROVE EscapeString(x) \in Seq(Char)
<1> DEFINE y == CStr(x)
           parts == [i \in DOMAIN y |-> Escape(x[i])]
<1>1. y \in Seq(Char) /\ DOMAIN y \subseteq DOMAIN x
  BY CStrIs
<1> HIDE DEF y
<1>2. Len(y) \in Nat /\ DOMAIN y = 1..Len(y) /\ \A i \in DOMAIN x : x[i] \in Char
  BY <1>1
<1>3. \A i \in DOMAIN y : Escape(x[i]) \in Seq(Char)
  BY <1>1, <1>2, EscapeIs
<1>4. parts \in [1..Len(y) -> Seq(Char)]
  BY <1>2, <1>3
<1>5. parts \in Seq(Seq(Char))
  BY <1>2, <1>4, SeqDef
<1> QED
  BY <1>5, FlattenIs DEF EscapeString, y

----------------------------------------------------------------------------
(* What the writer puts. *)

LEMMA MarksAre == {Ch["{"], Ch["}"], Ch[","], Ch[" "]} \subseteq Char
<1>1. Ch["{"] \in Char
  BY DEF Ch, Char
<1>2. Ch["}"] \in Char
  BY DEF Ch, Char
<1>3. Ch[","] \in Char
  BY DEF Ch, Char
<1>4. Ch[" "] \in Char
  BY DEF Ch, Char
<1> QED
  BY <1>1, <1>2, <1>3, <1>4, Zenon

LEMMA IndentIs == ASSUME NEW tabs \in Nat PROVE Indent(tabs) \in Seq(Char)
<1> DEFINE blank == Ch[" "]
           newline == Ch["\n"]
           b == [i \in 1..2 * tabs |-> blank]
<1>1. blank \in Char /\ newline \in Char
  BY MarksAre, MarksToo, Zenon
<1>2. Indent(tabs) = IF spaced THEN <<newline>> \o b ELSE <<>>
  BY Zenon DEF Indent
<1> HIDE DEF blank, newline
<1>3. 2 * tabs \in Nat /\ b \in [1..2 * tabs -> Char]
  BY <1>1
<1>4. b \in Seq(Char)
  BY <1>3, SeqDef
<1> HIDE DEF b
<1>5. <<newline>> \o b \in Seq(Char) /\ <<>> \in Seq(Char)
  BY <1>1, <1>4
<1> QED
  BY <1>2, <1>5, Zenon

LEMMA QuotedIs == ASSUME NEW x \in Seq(Char) PROVE Quoted(x) \in Seq(Char)
<1>1. <<Ch["quote"]>> \in Seq(Char)
  BY MarksToo
<1> QED
  BY <1>1 DEF Quoted

----------------------------------------------------------------------------
(* The types of the blocks, and what each operation does to them. *)

\* A string_t, and a value or the null value.
StringAt(h, s) == s \in Addr /\ h[s].type = "string"
JsonAt(h, v) == v = NULL_JSON \/ (v \in Addr /\ h[v].type \in JsonType)

\* What a block holds is of the type that the code reads there.
BlockTyped(h, b) ==
    /\ \A i \in DOMAIN b.keys : StringAt(h, b.keys[i])
    /\ \A i \in DOMAIN b.kids : JsonAt(h, b.kids[i])
    /\ b.type = "string" => b.val \in Seq(Char)
    /\ b.type = "STRING" => DOMAIN b.keys = {1}
    /\ b.type = "NUMBER" => b.val \in Number

Typed(h) == \A a \in Addr : BlockTyped(h, h[a])

RetType == [ps : {"SUCCESS", "SYNTAX_ERROR"}, json : Ptr \cup {None}]

ReaderOK ==
    /\ input \in Seq(Char)
    /\ at \in 1..Len(input) + 1
    /\ ret \in RetType

\* What the program and the parser hold as a json_t is one.
ValuesOK(h) ==
    /\ \A i \in DOMAIN work : JsonAt(h, work[i])
    /\ root # None => JsonAt(h, root)
    /\ dest # None => JsonAt(h, dest)
    /\ mode = "return" /\ ret.ps = "SUCCESS" => JsonAt(h, ret.json)

\* A container that is being written, and its members that are still to be written.
Writer(h, w) ==
    /\ w \in [json : Addr, left : SUBSET Nat]
    /\ h[w.json].type \in {"OBJECT", "LIST"}
    /\ w.left \subseteq DOMAIN h[w.json].kids

WritingOK ==
    /\ output \in Seq(Char)
    /\ spaced \in BOOLEAN
    /\ status \in {"none", "SUCCESS", "ERROR"}
    /\ failed \in Seq(Nat)
    /\ writers \in Seq([json : Addr, left : SUBSET Nat])
    /\ \A i \in DOMAIN writers : Writer(heap, writers[i])
    /\ pending # None => JsonAt(heap, pending)
    /\ phase # "write" \/ status # "none" => writers = <<>> /\ pending = None

PhaseOK ==
    /\ made \in 0..MaxCalls
    /\ phase \in {"build", "write", "read", "delete"}
    /\ source \in Foreign \cup {Own}

Data == Typed(heap) /\ ReaderOK /\ ValuesOK(heap) /\ WritingOK /\ PhaseOK

\* No block that was in use has gone or changed its type or its characters.
Keeps(h, g) ==
    \A a \in Addr : h[a].type # "free" =>
       g[a].type = h[a].type /\ (h[a].type = "string" => g[a].val = h[a].val)

LEMMA KeepsAt ==
    ASSUME NEW h, NEW g, Keeps(h, g), NEW v
    PROVE  /\ StringAt(h, v) => StringAt(g, v)
           /\ JsonAt(h, v) => JsonAt(g, v)
  BY DEF Keeps, StringAt, JsonAt, JsonType

LEMMA KeepsTyped ==
    ASSUME NEW h, NEW g, Keeps(h, g), NEW b, BlockTyped(h, b)
    PROVE  BlockTyped(g, b)
  BY KeepsAt DEF BlockTyped

LEMMA NewTyped ==
    ASSUME NEW h, Shaped(h), Typed(h), HasRoom(h), NEW b, BlockTyped(h, b)
    PROVE  /\ Typed(New(h, b)) /\ Keeps(h, New(h, b))
           /\ Fresh(h) \in Addr /\ New(h, b)[Fresh(h)] = b
<1> DEFINE f == Fresh(h)
           g == New(h, b)
<1>1. f \in Addr /\ h[f] = Free
  BY FreshIs
<1> HIDE DEF f
<1>2. g = [h EXCEPT ![f] = b]
  BY DEF New, f
<1>3. g[f] = b /\ \A a \in Addr : a # f => g[a] = h[a]
  BY <1>1, <1>2 DEF Shaped
<1> HIDE DEF g
<1>4. Keeps(h, g)
  BY <1>1, <1>3, FreeIs DEF Keeps
<1>5. \A a \in Addr : BlockTyped(g, g[a])
  BY <1>3, <1>4, KeepsTyped DEF Typed
<1> QED
  BY <1>1, <1>3, <1>4, <1>5 DEF Typed, f, g

LEMMA NoKeys ==
    ASSUME NEW h
    PROVE  /\ \A x \in Seq(Char) : BlockTyped(h, String(x))
           /\ BlockTyped(h, JsonObject) /\ BlockTyped(h, JsonList)
           /\ \A s : StringAt(h, s) => BlockTyped(h, JsonString(s))
           /\ \A n \in Number : BlockTyped(h, JsonNumber(n))
           /\ \A n \in Int : BlockTyped(h, JsonBoolean(n))
           /\ BlockTyped(h, Free)
<1>1. DOMAIN <<>> = {}
  OBVIOUS
<1>2. \A s : DOMAIN <<s>> = {1} /\ <<s>>[1] = s
  OBVIOUS
<1>3. BlockTyped(h, JsonObject) /\ BlockTyped(h, JsonList) /\ BlockTyped(h, Free)
  BY <1>1, BlockIs DEF BlockTyped, JsonObject, JsonList, Free
<1>4. \A x \in Seq(Char) : BlockTyped(h, String(x))
  BY <1>1, BlockIs DEF BlockTyped, String
<1>5. \A s : StringAt(h, s) => BlockTyped(h, JsonString(s))
  BY <1>1, <1>2, BlockIs DEF BlockTyped, JsonString
<1>6. \A n \in Int : BlockTyped(h, JsonBoolean(n))
  BY <1>1, <1>2, BlockIs DEF BlockTyped, JsonBoolean
<1>7. \A n \in Number : BlockTyped(h, JsonNumber(n))
  BY <1>1, BlockIs DEF BlockTyped, JsonNumber
<1> QED
  BY <1>3, <1>4, <1>5, <1>6, <1>7

\* A container is filled.
LEMMA RowsTyped ==
    ASSUME NEW h, Typed(h), NEW g, NEW o \in Addr, h[o].type \in {"OBJECT", "LIST"},
           \A a \in Addr : a # o => g[a] = h[a],
           g[o].type = h[o].type,
           \A i \in DOMAIN g[o].keys : StringAt(h, g[o].keys[i]),
           \A i \in DOMAIN g[o].kids : JsonAt(h, g[o].kids[i])
    PROVE  Typed(g) /\ Keeps(h, g)
<1>1. Keeps(h, g)
  BY DEF Keeps
<1>2. BlockTyped(h, g[o])
  BY DEF BlockTyped
<1>3. \A a \in Addr : BlockTyped(h, g[a])
  BY <1>2 DEF Typed
<1> QED
  BY <1>1, <1>3, KeepsTyped DEF Typed

LEMMA PushTyped ==
    ASSUME NEW h, Shaped(h), Typed(h), NEW l \in Addr, h[l].type = "LIST", NEW v, JsonAt(h, v)
    PROVE  Typed(ListPush(h, l, v)) /\ Keeps(h, ListPush(h, l, v))
<1> DEFINE g == ListPush(h, l, v)
<1>1. \A a \in Addr : a # l => g[a] = h[a]
  BY DEF ListPush, Shaped
<1>2. h[l] = Block(h[l].type, h[l].keys, h[l].kids, h[l].val) /\ h[l].kids \in Seq(Ptr)
  BY DEF Shaped, ShapeOf
<1>3. g[l] = [h[l] EXCEPT !.kids = Append(h[l].kids, v)]
  BY DEF ListPush, Shaped
<1>4. g[l] = Block(h[l].type, h[l].keys, Append(h[l].kids, v), h[l].val)
  BY <1>2, <1>3 DEF Block
<1>5. g[l].type = h[l].type /\ g[l].keys = h[l].keys /\ g[l].kids = Append(h[l].kids, v)
  <2> DEFINE kids == Append(h[l].kids, v)
             t == h[l].type
             keys == h[l].keys
             val == h[l].val
  <2>1. g[l] = Block(t, keys, kids, val)
    BY <1>4
  <2> HIDE DEF g, kids, t, keys, val
  <2>2. g[l].type = t /\ g[l].keys = keys /\ g[l].kids = kids
    BY <2>1, BlockIs
  <2> QED
    BY <2>2 DEF kids, t, keys
<1>6. JsonAt(h, v) /\ \A i \in DOMAIN h[l].kids : JsonAt(h, h[l].kids[i])
  BY DEF Typed, BlockTyped
<1>7. \A i \in DOMAIN Append(h[l].kids, v) : JsonAt(h, Append(h[l].kids, v)[i])
  BY <1>2, <1>6
<1>8. \A i \in DOMAIN h[l].keys : StringAt(h, h[l].keys[i])
  BY DEF Typed, BlockTyped
<1> HIDE DEF g
<1> QED
  BY <1>1, <1>5, <1>7, <1>8, RowsTyped DEF g

LEMMA PutTyped ==
    ASSUME NEW h, Shaped(h), Typed(h), NEW o \in Addr, h[o].type = "OBJECT",
           NEW k, StringAt(h, k), NEW v, JsonAt(h, v)
    PROVE  Typed(HmPut(h, o, k, v)) /\ Keeps(h, HmPut(h, o, k, v))
<1> DEFINE found == Matches(h, o, h[k].val)
           keys == IF found = {} THEN Append(h[o].keys, k) ELSE h[o].keys
           kids == IF found = {} THEN Append(h[o].kids, v)
                   ELSE [i \in DOMAIN h[o].kids |-> IF i \in found THEN v ELSE h[o].kids[i]]
           g == HmPut(h, o, k, v)
<1>1. g = Rerowed(h, o, keys, kids)
  BY HmPutIs
<1>2. h[o].keys \in Seq(Addr) /\ h[o].kids \in Seq(Ptr)
  BY DEF Shaped, ShapeOf
<1>3. /\ \A i \in DOMAIN h[o].keys : StringAt(h, h[o].keys[i])
      /\ \A i \in DOMAIN h[o].kids : JsonAt(h, h[o].kids[i])
  BY DEF Typed, BlockTyped
<1> HIDE DEF found
<1>4. \A i \in DOMAIN keys : StringAt(h, keys[i])
  BY <1>2, <1>3
<1>5. \A i \in DOMAIN kids : JsonAt(h, kids[i])
  BY <1>2, <1>3
<1> HIDE DEF keys, kids, g
<1>6. HasRows(h, g, o, keys, kids)
  BY <1>1, RerowedIs
<1>7. g[o].keys = keys /\ g[o].kids = kids /\ g[o].type = h[o].type /\ \A a \in Addr : a # o => g[a] = h[a]
  BY <1>6 DEF HasRows
<1>8. Typed(g) /\ Keeps(h, g)
  BY <1>4, <1>5, <1>7, RowsTyped
<1> QED
  BY <1>8 DEF g

\* Blocks are freed, and what is left leads to none of them.
LEMMA FreedTyped ==
    ASSUME NEW h, Typed(h), NEW g, \A a \in Addr : g[a] = Free \/ g[a] = h[a],
           \A a \in Addr : \A p \in Parts(g[a]) : p # NULL_JSON => g[p] # Free
    PROVE  /\ Typed(g)
           /\ \A v : JsonAt(h, v) /\ (v # NULL_JSON => g[v] # Free) => JsonAt(g, v)
           /\ \A s : StringAt(h, s) /\ g[s] # Free => StringAt(g, s)
<1>1. \A v : JsonAt(h, v) /\ (v # NULL_JSON => g[v] # Free) => JsonAt(g, v)
  BY DEF JsonAt
<1>2. \A s : StringAt(h, s) /\ g[s] # Free => StringAt(g, s)
  BY DEF StringAt
<1>3. ASSUME NEW a \in Addr PROVE BlockTyped(g, g[a])
  <2>1. CASE g[a] = Free
    BY <2>1, NoKeys
  <2>2. CASE g[a] = h[a]
    <3>1. BlockTyped(h, g[a])
      BY <2>2 DEF Typed
    <3>2. \A i \in DOMAIN g[a].keys : StringAt(g, g[a].keys[i])
      <4>1. \A i \in DOMAIN g[a].keys : g[a].keys[i] \in Parts(g[a]) /\ StringAt(h, g[a].keys[i])
        BY <3>1 DEF Parts, BlockTyped
      <4> QED
        BY <1>2, <4>1, Constants DEF StringAt
    <3>3. \A i \in DOMAIN g[a].kids : JsonAt(g, g[a].kids[i])
      <4>1. \A i \in DOMAIN g[a].kids : g[a].kids[i] \in Parts(g[a]) /\ JsonAt(h, g[a].kids[i])
        BY <3>1 DEF Parts, BlockTyped
      <4> QED
        BY <1>1, <4>1
    <3> QED
      BY <3>1, <3>2, <3>3 DEF BlockTyped
  <2> QED
    BY <2>1, <2>2
<1> QED
  BY <1>1, <1>2, <1>3 DEF Typed

\* Every pointer that is held, and every pointer in a block, leads to a block.
Alive ==
    /\ \A a \in Addr : \A p \in Parts(heap[a]) : p # NULL_JSON => heap[p] # Free
    /\ \A i \in DOMAIN work : work[i] # NULL_JSON => heap[work[i]] # Free
    /\ root \in Addr => heap[root] # Free
    /\ dest \in Addr => heap[dest] # Free
    /\ mode = "return" /\ ret.json \in Addr => heap[ret.json] # Free

LEMMA AllAlive == IInv => Alive
<1> SUFFICES ASSUME IInv PROVE Alive
  OBVIOUS
<1>1. /\ CallsFit(calls, heap) /\ Exclusive(Held, heap) /\ PartsOK(heap) /\ work \in Seq(Ptr)
  BY DEF IInv, Sound, AllOwned, ProgramOK
<1>2. ASSUME NEW k, NEW i, NEW v \in Addr, Pointer(k, 0, i, v) \subseteq Held PROVE heap[v] # Free
  <2>1. \E p \in Held : p.to = v
    BY <1>2, PointerIs
  <2> QED
    BY <1>1, <2>1 DEF Exclusive
<1>3. /\ mode = "return" => Pointer("ret", 0, 0, ret.json) \subseteq Held
      /\ Pointer("root", 0, 0, root) \subseteq Held /\ Pointer("dest", 0, 0, dest) \subseteq Held
      /\ \A i \in DOMAIN work : Pointer("work", 0, i, work[i]) \subseteq Held
  BY <1>1, HeldHas
<1>4. ASSUME NEW a \in Addr, NEW p \in Parts(heap[a]), p # NULL_JSON PROVE heap[p] # Free
  <2>1. PICK k \in Rows : \E i \in Dom(heap, a, k) : p = At(heap, a, k, i)
    BY PartsAre DEF Part
  <2> QED
    BY <1>1, <1>4, <2>1 DEF Exclusive
<1>5. ASSUME NEW i \in DOMAIN work, work[i] # NULL_JSON PROVE heap[work[i]] # Free
  <2>1. work[i] \in Addr
    BY <1>1, <1>5 DEF Ptr
  <2> QED
    BY <1>2, <1>3, <2>1
<1>6. /\ root \in Addr => heap[root] # Free
      /\ dest \in Addr => heap[dest] # Free
      /\ mode = "return" /\ ret.json \in Addr => heap[ret.json] # Free
  BY <1>2, <1>3
<1> QED
  BY <1>4, <1>5, <1>6 DEF Alive

----------------------------------------------------------------------------
(* json_to_stream. *)

LEMMA LeafIs ==
    ASSUME Typed(heap), NEW v, JsonAt(heap, v), Type(heap, v) \notin {"OBJECT", "LIST"}
    PROVE  LeafText(v) \in Seq(Char)
<1>1. CASE v = NULL_JSON
  <2>1. LeafText(v) = Null
    BY <1>1 DEF LeafText, Type
  <2> QED
    BY <2>1, WordIs
<1>2. CASE v # NULL_JSON
  <2>1. v \in Addr /\ Type(heap, v) = heap[v].type /\ BlockTyped(heap, heap[v])
    BY <1>2 DEF JsonAt, Type, Typed
  <2>2. heap[v].type \in {"STRING", "NUMBER", "BOOLEAN"}
    BY <1>2, <2>1 DEF JsonAt, JsonType
  <2>3. CASE heap[v].type = "STRING"
    <3>1. StringAt(heap, heap[v].keys[1])
      BY <2>1, <2>3 DEF BlockTyped
    <3>2. heap[heap[v].keys[1]].val \in Seq(Char)
      BY <3>1 DEF StringAt, Typed, BlockTyped
    <3>3. LeafText(v) = Quoted(EscapeString(heap[heap[v].keys[1]].val))
      BY <2>1, <2>3 DEF LeafText
    <3> QED
      BY <3>2, <3>3, EscapedIs, QuotedIs
  <2>4. CASE heap[v].type = "NUMBER"
    <3>1. LeafText(v) = NumberText[heap[v].val] /\ heap[v].val \in Number
      BY <2>1, <2>4 DEF LeafText, BlockTyped
    <3> QED
      BY <3>1, NumberTextIs
  <2>5. CASE heap[v].type = "BOOLEAN"
    <3>1. LeafText(v) \in {True, False}
      BY <2>1, <2>5 DEF LeafText
    <3> QED
      BY <3>1, WordIs
  <2> QED
    BY <2>2, <2>3, <2>4, <2>5
<1> QED
  BY <1>1, <1>2

LEMMA MemberIs ==
    ASSUME Typed(heap), Shaped(heap), NEW json \in Addr, heap[json].type \in {"OBJECT", "LIST"},
           NEW i \in DOMAIN heap[json].kids, NEW first, Len(writers) \in Nat
    PROVE  MemberText(json, i, first) \in Seq(Char)
<1> DEFINE key == CStr(heap[heap[json].keys[i]].val)
           comma == <<Ch[","]>>
           colon == <<Ch[":"]>>
           blank == <<Ch[" "]>>
           x == IF first THEN <<>> ELSE comma
           y == Indent(Tabs + 1)
           b == IF spaced THEN blank ELSE <<>>
           z == IF heap[json].type = "LIST" THEN <<>> ELSE Quoted(key) \o colon \o b
<1>1. comma \in Seq(Char) /\ colon \in Seq(Char) /\ blank \in Seq(Char) /\ <<>> \in Seq(Char)
  <2>1. \A c \in Char : <<c>> \in Seq(Char)
    OBVIOUS
  <2>2. <<>> \in Seq(Char)
    OBVIOUS
  <2> QED
    BY <2>1, <2>2, MarksAre, MarksToo, Zenon
<1>2. MemberText(json, i, first) = x \o y \o z
  BY Zenon DEF MemberText
<1> HIDE DEF comma, colon, blank
<1>3. x \in Seq(Char) /\ b \in Seq(Char)
  BY <1>1
<1>4. y \in Seq(Char)
  <2>1. Tabs + 1 = Len(writers)
    BY DEF Tabs
  <2> QED
    BY <2>1, IndentIs
<1>5. z \in Seq(Char)
  <2>1. CASE heap[json].type = "LIST"
    BY <1>1, <2>1
  <2>2. CASE heap[json].type = "OBJECT"
    <3>1. i \in DOMAIN heap[json].keys
      BY <2>2 DEF Shaped, ShapeOf
    <3>2. StringAt(heap, heap[json].keys[i])
      BY <3>1 DEF Typed, BlockTyped
    <3>3. heap[heap[json].keys[i]].val \in Seq(Char)
      BY <3>2 DEF StringAt, Typed, BlockTyped
    <3>4. key \in Seq(Char)
      BY <3>3, CStrIs
    <3> HIDE DEF key, b
    <3>5. Quoted(key) \o colon \in Seq(Char)
      BY <1>1, <3>4, QuotedIs, Joining
    <3>6. Quoted(key) \o colon \o b \in Seq(Char)
      BY <1>3, <3>5, Joining
    <3> QED
      BY <2>2, <3>6
  <2> QED
    BY <2>1, <2>2
<1> HIDE DEF x, y, z
<1>6. x \o y \in Seq(Char)
  BY <1>3, <1>4, Joining
<1>7. x \o y \o z \in Seq(Char)
  BY <1>5, <1>6, Joining
<1> QED
  BY <1>2, <1>7

LEMMA ClosingIs ==
    ASSUME NEW json, Len(writers) \in Nat, Len(writers) > 0
    PROVE  ClosingText(json) \in Seq(Char)
<1>1. Indent(Tabs) \in Seq(Char)
  <2>1. Tabs \in Nat
    BY DEF Tabs
  <2> QED
    BY <2>1, IndentIs
<1>2. \A c \in Char : <<c>> \in Seq(Char)
  OBVIOUS
<1>3. <<IF heap[json].type = "LIST" THEN Ch["]"] ELSE Ch["}"]>> \in Seq(Char)
  BY <1>2, MarksAre, MarksToo, Zenon
<1> QED
  BY <1>1, <1>3, Joining, Zenon DEF ClosingText

LEMMA OpeningIs == ASSUME NEW json PROVE <<Opening(json)>> \in Seq(Char) /\ Len(<<Opening(json)>>) = 1
<1>1. \A c \in Char : <<c>> \in Seq(Char) /\ Len(<<c>>) = 1
  OBVIOUS
<1> QED
  BY <1>1, MarksAre, MarksToo, Zenon DEF Opening

LEMMA PutIs ==
    ASSUME output \in Seq(Char), failed \in Seq(Nat), NEW chars \in Seq(Char), NEW good \in 0..Len(chars),
           NEW depth \in Nat, Put(chars, good, depth)
    PROVE  output' \in Seq(Char) /\ failed' \in Seq(Nat)
<1>1. good \in Int /\ 1 - 1 <= good /\ good <= Len(chars)
  OBVIOUS
<1>2. SubSeq(chars, 1, good) \in Seq(Char)
  BY <1>1, PartIs
<1>3. output' = output \o SubSeq(chars, 1, good)
  BY DEF Put, Puts
<1>4. Append(failed, depth) \in Seq(Nat)
  OBVIOUS
<1> QED
  BY <1>2, <1>3, <1>4, Joining DEF Put

Writers == Seq([json : Addr, left : SUBSET Nat])

LEMMA WritersIs ==
    ASSUME writers \in Writers, writers # <<>>, \A i \in DOMAIN writers : Writer(heap, writers[i])
    PROVE  /\ Len(writers) \in Nat /\ Len(writers) > 0 /\ Writer(heap, Last1)
           /\ Front(writers) \in Writers
           /\ \A i \in DOMAIN Front(writers) : Writer(heap, Front(writers)[i])
           /\ \A l \in SUBSET Last1.left :
                /\ [writers EXCEPT ![Len(writers)].left = l] \in Writers
                /\ \A i \in DOMAIN writers :
                     Writer(heap, [writers EXCEPT ![Len(writers)].left = l][i])
                /\ DOMAIN [writers EXCEPT ![Len(writers)].left = l] = DOMAIN writers
<1> DEFINE W == [json : Addr, left : SUBSET Nat]
           n == Len(writers)
<1>1. n \in Nat /\ n > 0 /\ n \in DOMAIN writers /\ DOMAIN writers = 1..n
  BY DEF Writers
<1>2. Writer(heap, Last1) /\ Last1 \in W
  <2>1. writers \in Seq(W)
    BY DEF Writers
  <2>2. Last1 = writers[n]
    BY DEF Last1
  <2> HIDE DEF W
  <2> QED
    BY <1>1, <2>1, <2>2
<1>3. /\ Front(writers) \in Writers /\ DOMAIN Front(writers) = 1..(n - 1)
      /\ \A i \in 1..(n - 1) : Front(writers)[i] = writers[i]
  BY FrontIs DEF Writers
<1>4. \A i \in 1..(n - 1) : i \in DOMAIN writers
  BY <1>1
<1>5. ASSUME NEW l \in SUBSET Last1.left
      PROVE  LET v == [writers EXCEPT ![n].left = l]
             IN  v \in Writers /\ (\A i \in DOMAIN writers : Writer(heap, v[i])) /\ DOMAIN v = DOMAIN writers
  <2> DEFINE new == [json |-> Last1.json, left |-> l]
             v == [writers EXCEPT ![n] = new]
  <2>1. new \in W
    BY <1>2
  <2>2. [writers EXCEPT ![n].left = l] = v
    <3>1. [writers[n] EXCEPT !.left = l] = new
      BY <1>2 DEF Last1
    <3> QED
      BY <3>1, Zenon
  <2>3. Writer(heap, new)
    BY <1>2, <2>1 DEF Writer
  <2> HIDE DEF new
  <2>4. v \in Writers /\ DOMAIN v = DOMAIN writers /\ v[n] = new /\ \A i \in DOMAIN writers : i # n => v[i] = writers[i]
    BY <1>1, <2>1 DEF Writers
  <2> QED
    BY <2>2, <2>3, <2>4
<1> QED
  BY <1>1, <1>2, <1>3, <1>4, <1>5

LEMMA WritingKeepsData ==
    ASSUME Shaped(heap), Typed(heap), WritingOK, Writing
    PROVE  WritingOK' /\ UNCHANGED <<heap, lost, parserVars, work, made, phase, source, root, dest>>
<1> DEFINE n == Len(writers)
<1>1. phase = "write" /\ WriterStep /\ phase' = "write"
  BY DEF Writing
<1>2. /\ output \in Seq(Char) /\ failed \in Seq(Nat) /\ writers \in Writers /\ n \in Nat
      /\ \A i \in DOMAIN writers : Writer(heap, writers[i])
      /\ spaced \in BOOLEAN /\ (pending # None => JsonAt(heap, pending))
      /\ (status # "none" => writers = <<>> /\ pending = None)
      /\ status \in {"none", "SUCCESS", "ERROR"}
  BY <1>1 DEF WritingOK, Writers
<1>3. UNCHANGED <<heap, lost, spaced>>
  BY <1>1 DEF WriterStep, WriteLeaf, WriteOpening, WriteMember, WriteClosing
<1>4. UNCHANGED <<parserVars, work, made, phase, source, root, dest>>
  BY DEF Writing
<1> SUFFICES WritingOK'
  BY <1>3, <1>4
<1>5. status = "none"
  BY <1>1, <1>2 DEF WriterStep, WriteLeaf, WriteOpening, WriteMember, WriteClosing
<1>6. ASSUME NEW chars \in Seq(Char), NEW good \in 0..Len(chars), NEW depth \in Nat, Put(chars, good, depth),
             NEW rest \in Writers, \A i \in DOMAIN rest : Writer(heap, rest[i]), NEW ok, Returns(rest, ok)
      PROVE  WritingOK'
  <2>1. output' \in Seq(Char) /\ failed' \in Seq(Nat)
    BY <1>2, <1>6, PutIs
  <2>2. writers' = rest /\ pending' = None /\ status' \in {"none", "SUCCESS", "ERROR"}
        /\ (status' # "none" => rest = <<>>)
    BY <1>5, <1>6 DEF Returns
  <2> QED
    BY <1>1, <1>2, <1>3, <1>6, <2>1, <2>2 DEF WritingOK, Writers
<1>7. CASE WriteLeaf
  <2>1. LeafText(pending) \in Seq(Char)
    BY <1>2, <1>7, LeafIs DEF WriteLeaf
  <2>2. PICK good \in 0..Len(LeafText(pending)) :
          Put(LeafText(pending), good, n) /\ Returns(writers, good = Len(LeafText(pending)))
    BY <1>7 DEF WriteLeaf
  <2> QED
    BY <1>2, <1>6, <2>1, <2>2
<1>8. CASE WriteOpening
  <2> DEFINE text == <<Opening(pending)>>
             new == [json |-> pending, left |-> DOMAIN heap[pending].kids]
  <2>1. pending \in Addr /\ heap[pending].type \in {"OBJECT", "LIST"} /\ heap[pending].kids \in Seq(Ptr)
    BY <1>2, <1>8 DEF WriteOpening, Type, JsonAt, Shaped, ShapeOf
  <2>2. text \in Seq(Char) /\ Len(text) = 1
    BY OpeningIs
  <2>3. PICK good \in 0..1 :
          /\ Put(text, good, n)
          /\ IF good = 1
             THEN writers' = Append(writers, new) /\ pending' = None /\ UNCHANGED status
             ELSE Returns(writers, FALSE)
    BY <1>8 DEF WriteOpening
  <2> HIDE DEF text
  <2>4. CASE good = 1
    <3>1. output' \in Seq(Char) /\ failed' \in Seq(Nat)
      BY <1>2, <2>2, <2>3, PutIs
    <3>2. new \in [json : Addr, left : SUBSET Nat] /\ Writer(heap, new)
      BY <2>1 DEF Writer
    <3> HIDE DEF new
    <3>3. writers' \in Writers /\ \A i \in DOMAIN writers' : Writer(heap, writers'[i])
      <4> DEFINE W == [json : Addr, left : SUBSET Nat]
      <4>1. writers \in Seq(W) /\ new \in W /\ writers' = Append(writers, new)
        BY <1>2, <2>3, <2>4, <3>2 DEF Writers
      <4> HIDE DEF W
      <4>2. writers' \in Seq(W) /\ DOMAIN writers' = 1..(n + 1) /\ DOMAIN writers = 1..n /\ writers'[n + 1] = new
            /\ \A i \in 1..n : writers'[i] = writers[i]
        BY <4>1
      <4>3. \A i \in 1..(n + 1) : i \in 1..n \/ i = n + 1
        BY <1>2
      <4> QED
        BY <1>2, <3>2, <4>2, <4>3 DEF W, Writers
    <3> QED
      BY <1>1, <1>2, <1>3, <1>5, <2>3, <2>4, <3>1, <3>3 DEF WritingOK, Writers
  <2>5. CASE good = 0
    <3>1. Put(text, good, n) /\ Returns(writers, FALSE) /\ good \in 0..Len(text)
      <4>1. good # 1
        BY <2>5
      <4>2. Put(text, good, n) /\ Returns(writers, FALSE)
        BY <2>3, <4>1, Zenon
      <4>3. 0 \in 0..Len(text)
        BY <2>2
      <4> QED
        BY <2>5, <4>2, <4>3
    <3> QED
      BY <1>2, <1>6, <2>2, <3>1
  <2> QED
    BY <2>4, <2>5
<1>9. CASE WriteMember
  <2> DEFINE json == Last1.json
             left == Last1.left
  <2>1. n > 0 /\ Tabs \in Nat /\ json \in Addr /\ heap[json].type \in {"OBJECT", "LIST"}
        /\ left \subseteq DOMAIN heap[json].kids
    <3>1. writers # <<>>
      BY <1>9 DEF WriteMember
    <3>2. n > 0 /\ Writer(heap, Last1)
      BY <1>2, <3>1, WritersIs
    <3> QED
      BY <1>2, <3>2 DEF Writer, Tabs
  <2>2. PICK i \in left :
          LET text == MemberText(json, i, left = DOMAIN heap[json].kids)
          IN \E good \in 0..Len(text) :
               /\ Put(text, good, Tabs)
               /\ IF good = Len(text)
                  THEN /\ writers' = [writers EXCEPT ![n].left = @ \ {i}]
                       /\ pending' = heap[json].kids[i]
                       /\ UNCHANGED status
                  ELSE Returns(Front(writers), FALSE)
    BY <1>9 DEF WriteMember
  <2> DEFINE text == MemberText(json, i, left = DOMAIN heap[json].kids)
  <2>3. text \in Seq(Char)
    BY <1>2, <2>1, MemberIs
  <2>4. PICK good \in 0..Len(text) :
          /\ Put(text, good, Tabs)
          /\ IF good = Len(text)
             THEN /\ writers' = [writers EXCEPT ![n].left = @ \ {i}]
                  /\ pending' = heap[json].kids[i]
                  /\ UNCHANGED status
             ELSE Returns(Front(writers), FALSE)
    BY <2>2
  <2> HIDE DEF text
  <2>5. writers # <<>>
    BY <1>9 DEF WriteMember
  <2>6. CASE good = Len(text)
    <3>1. output' \in Seq(Char) /\ failed' \in Seq(Nat)
      BY <1>2, <2>1, <2>3, <2>4, PutIs
    <3>2. writers' = [writers EXCEPT ![n].left = left \ {i}]
      BY <2>4, <2>6 DEF Last1
    <3>3. writers' \in Writers /\ \A k \in DOMAIN writers' : Writer(heap, writers'[k])
      <4>1. left \ {i} \in SUBSET left
        OBVIOUS
      <4> QED
        BY <1>2, <2>5, <3>2, <4>1, WritersIs
    <3>4. JsonAt(heap, heap[json].kids[i])
      BY <2>1 DEF Typed, BlockTyped
    <3> QED
      BY <1>1, <1>2, <1>3, <1>5, <2>4, <2>6, <3>1, <3>3, <3>4 DEF WritingOK, Writers
  <2>7. CASE good # Len(text)
    <3>1. Front(writers) \in Writers /\ \A k \in DOMAIN Front(writers) : Writer(heap, Front(writers)[k])
      BY <1>2, <2>5, WritersIs
    <3> QED
      BY <1>6, <2>1, <2>3, <2>4, <2>7, <3>1
  <2> QED
    BY <2>6, <2>7
<1>10. CASE WriteClosing
  <2> DEFINE text == ClosingText(Last1.json)
  <2>1. writers # <<>> /\ \E good \in 0..Len(text) :
          Put(text, good, Tabs) /\ Returns(Front(writers), good = Len(text))
    BY <1>10 DEF WriteClosing
  <2>2. /\ n > 0 /\ Front(writers) \in Writers
        /\ \A i \in DOMAIN Front(writers) : Writer(heap, Front(writers)[i])
    BY <1>2, <2>1, WritersIs
  <2>3. text \in Seq(Char) /\ Tabs \in Nat
    BY <1>2, <2>2, ClosingIs DEF Tabs
  <2> HIDE DEF text
  <2> QED
    BY <1>6, <2>1, <2>2, <2>3
<1> QED
  BY <1>1, <1>7, <1>8, <1>9, <1>10 DEF WriterStep

----------------------------------------------------------------------------
(* json_from_in_stream: what its steps hold, and that they come to an end. *)

\* How much json_from_in_stream has still to do: the characters it has not taken, what
\* the innermost call has to do without one, and the calls that are still to return.
ModeRank == CASE mode \in {"value", "pair"} -> 3
              [] mode = "return" /\ ret.ps = "SUCCESS" -> 2
              [] mode = "next" -> 1
              [] OTHER -> 0
Rank == <<Len(input) + 1 - at, ModeRank, Len(calls)>>
Triples == Nat \X Nat \X Nat
LexLess(x, y) == \E i \in DOMAIN x : x[i] < y[i] /\ \A j \in 1..(i - 1) : x[j] = y[j]

\* Every step of the parser lowers that rank, in the order of the words in a lexicon.
Advances == Reading => Rank' \in Triples /\ LexLess(Rank', Rank)

\* There is no way to lower such a rank for ever: every set of triples has a least one.
LEMMA Founded ==
    ASSUME NEW S \in SUBSET Triples, S # {}
    PROVE  \E x \in S : \A y \in S : ~ LexLess(y, x)
<1> DEFINE A == {x[1] : x \in S}
<1>1. A \in SUBSET Nat /\ A # {}
  BY DEF Triples
<1>2. PICK a \in A : \A n \in A : a <= n
  BY <1>1, Minimal
<1> DEFINE B == {x[2] : x \in {y \in S : y[1] = a}}
<1>3. B \in SUBSET Nat /\ B # {}
  BY DEF Triples
<1>4. PICK b \in B : \A n \in B : b <= n
  BY <1>3, Minimal
<1> DEFINE C == {x[3] : x \in {y \in S : y[1] = a /\ y[2] = b}}
<1>5. C \in SUBSET Nat /\ C # {}
  BY DEF Triples
<1>6. PICK c \in C : \A n \in C : c <= n
  BY <1>5, Minimal
<1>7. PICK x \in S : x[1] = a /\ x[2] = b /\ x[3] = c
  OBVIOUS
<1>8. ASSUME NEW y \in S PROVE ~ LexLess(y, x)
  <2> SUFFICES ASSUME NEW i \in DOMAIN y, y[i] < x[i], \A j \in 1..(i - 1) : y[j] = x[j] PROVE FALSE
    BY DEF LexLess
  <2>1. /\ DOMAIN y = 1..3 /\ y[1] \in Nat /\ y[2] \in Nat /\ y[3] \in Nat
        /\ x[1] \in Nat /\ x[2] \in Nat /\ x[3] \in Nat
    BY DEF Triples
  <2>2. CASE i = 1
    <3>1. y[1] \in A
      OBVIOUS
    <3> QED
      BY <1>1, <1>2, <1>7, <2>1, <2>2, <3>1
  <2>3. CASE i = 2
    <3>1. 1 \in 1..(i - 1)
      BY <2>3
    <3>2. y[1] = a
      BY <1>7, <3>1
    <3>3. y[2] \in B
      BY <3>2
    <3> QED
      BY <1>3, <1>4, <1>7, <2>1, <2>3, <3>3
  <2>4. CASE i = 3
    <3>1. 1 \in 1..(i - 1) /\ 2 \in 1..(i - 1)
      BY <2>4
    <3>2. y[1] = a /\ y[2] = b
      BY <1>7, <3>1
    <3>3. y[3] \in C
      BY <3>2
    <3> QED
      BY <1>5, <1>6, <1>7, <2>1, <2>4, <3>3
  <2> QED
    BY <2>1, <2>2, <2>3, <2>4
<1> QED
  BY <1>8

ReadData == Typed(heap) /\ ReaderOK /\ ValuesOK(heap)

LEMMA ReadPlaces ==
    ASSUME ReadData
    PROVE  input \in Seq(Char) /\ at \in Places /\ Len(input) \in Nat /\ Places \subseteq Nat /\ ret \in RetType
  BY DEF ReadData, ReaderOK, Places

LEMMA RankFalls ==
    ASSUME ReadData, CallsFit(calls, heap), input' = input, at' \in Places, at <= at',
           \/ at < at'
           \/ ModeRank' < ModeRank
           \/ ModeRank' = ModeRank /\ Len(calls') < Len(calls)
    PROVE  LexLess(Rank', Rank)
<1> DEFINE x == Len(input) + 1 - at
           y == Len(input) + 1 - at'
           r == ModeRank
           s == ModeRank'
           m == Len(calls)
           n == Len(calls')
<1>1. at \in Nat /\ at' \in Nat /\ Len(input) \in Nat
  BY ReadPlaces
<1>2. x \in Int /\ y \in Int /\ y <= x /\ (at < at' => y < x)
  BY <1>1
<1>3. Rank = <<x, r, m>> /\ Rank' = <<y, s, n>>
  BY DEF Rank
<1> HIDE DEF x, y, r, s, m, n
<1>4. DOMAIN <<y, s, n>> = {1, 2, 3}
  OBVIOUS
<1>5. CASE y < x
  <2>1. \A j \in 1..(1 - 1) : <<y, s, n>>[j] = <<x, r, m>>[j]
    OBVIOUS
  <2> QED
    BY <1>3, <1>4, <1>5, <2>1 DEF LexLess
<1>6. CASE y = x /\ s < r
  <2>1. \A j \in 1..(2 - 1) : <<y, s, n>>[j] = <<x, r, m>>[j]
    BY <1>6
  <2> QED
    BY <1>3, <1>4, <1>6, <2>1 DEF LexLess
<1>7. CASE y = x /\ s = r /\ n < m
  <2>1. \A j \in 1..(3 - 1) : <<y, s, n>>[j] = <<x, r, m>>[j]
    BY <1>7
  <2> QED
    BY <1>3, <1>4, <1>7, <2>1 DEF LexLess
<1>8. y < x \/ (y = x /\ s < r) \/ (y = x /\ s = r /\ n < m)
  BY <1>2 DEF r, s, m, n
<1> QED
  BY <1>5, <1>6, <1>7, <1>8

LEMMA ReturnsData ==
    ASSUME ReadData, CallsFit(calls, heap), Keeps(heap, heap'), Typed(heap'), UNCHANGED <<input, work, root, dest>>,
           at' \in Places, at <= at',
           NEW ps \in {"SUCCESS", "SYNTAX_ERROR"}, NEW json \in Ptr \cup {None}, Return(ps, json),
           ps = "SUCCESS" => JsonAt(heap', json),
           mode \in {"value", "pair"} \/ (mode = "next" /\ (at < at' \/ ps # "SUCCESS"))
    PROVE  ReadData' /\ LexLess(Rank', Rank)
<1>1. mode' = "return" /\ ret'.ps = ps /\ ret'.json = json /\ ret' \in RetType
  BY DEF Return, RetType
<1>2. ReaderOK'
  BY <1>1, ReadPlaces DEF ReaderOK, Places
<1>3. ValuesOK(heap)'
  BY <1>1, KeepsAt DEF ValuesOK, ReadData
<1>4. LexLess(Rank', Rank)
  <2>1. at < at' \/ ModeRank' < ModeRank
    BY <1>1 DEF ModeRank
  <2> QED
    BY <2>1, RankFalls
<1> QED
  BY <1>2, <1>3, <1>4 DEF ReadData

LEMMA GoesOnData ==
    ASSUME ReadData, CallsFit(calls, heap), Keeps(heap, heap'), Typed(heap'),
           UNCHANGED <<input, work, root, dest, ret>>,
           at' \in Places, at <= at', mode' \in {"value", "pair", "next"},
           at < at' \/ (mode = "return" /\ ret.ps = "SUCCESS" /\ mode' = "next")
    PROVE  ReadData' /\ LexLess(Rank', Rank)
<1>1. ReaderOK'
  BY ReadPlaces DEF ReaderOK, Places
<1>2. ValuesOK(heap)'
  BY KeepsAt DEF ValuesOK, ReadData
<1>3. LexLess(Rank', Rank)
  <2>1. at < at' \/ ModeRank' < ModeRank
    BY DEF ModeRank
  <2> QED
    BY <2>1, RankFalls
<1> QED
  BY <1>1, <1>2, <1>3 DEF ReadData

Outside == UNCHANGED <<work, root, dest>>

LEMMA Unchanged ==
    ASSUME heap' = heap, Typed(heap)
    PROVE  Keeps(heap, heap') /\ Typed(heap')
  BY DEF Keeps

LEMMA FreshJson ==
    ASSUME Typed(heap), Shaped(heap), HasRoom(heap), NEW b, BlockTyped(heap, b), b.type \in JsonType \cup {"string"},
           heap' = New(heap, b)
    PROVE  /\ Keeps(heap, heap') /\ Typed(heap') /\ Fresh(heap) \in Addr
           /\ b.type \in JsonType => JsonAt(heap', Fresh(heap))
           /\ b.type = "string" => StringAt(heap', Fresh(heap))
  BY NewTyped DEF JsonAt, StringAt

LEMMA WordData ==
    ASSUME ReadData, CallsFit(calls, heap), Shaped(heap), Outside, ParseWord
    PROVE  ReadData' /\ LexLess(Rank', Rank)
<1>1. ASSUME NEW word \in {True, False, Null}, NEW first, Word(word, first),
             word # Null => BlockTyped(heap, first) /\ first.type \in JsonType
      PROVE  ReadData' /\ LexLess(Rank', Rank)
  <2>1. /\ mode = "value" /\ Peek(at) = word[1] /\ at' = Expected(at, word).at
        /\ UNCHANGED <<lost, input, calls>>
    BY <1>1 DEF Word
  <2>2. at' \in Places /\ at < at' /\ at <= at'
    <3>1. at' \in Places /\ at < at'
      BY <2>1, ExpectedIs, ReadPlaces
    <3> QED
      BY <3>1, ReadPlaces
  <2>3. CASE Fail /\ UNCHANGED heap
    <3>1. Keeps(heap, heap') /\ Typed(heap')
      BY <2>3, Unchanged DEF ReadData
    <3> QED
      BY <2>1, <2>2, <2>3, <3>1, ReturnsData DEF Fail, Outside
  <2>4. CASE word = Null /\ Return("SUCCESS", NULL_JSON) /\ UNCHANGED heap
    <3>1. Keeps(heap, heap') /\ Typed(heap')
      BY <2>4, Unchanged DEF ReadData
    <3>2. JsonAt(heap', NULL_JSON) /\ NULL_JSON \in Ptr \cup {None}
      BY DEF JsonAt, Ptr
    <3> QED
      BY <2>1, <2>2, <2>4, <3>1, <3>2, ReturnsData DEF Outside
  <2>5. CASE word # Null /\ HasRoom(heap) /\ heap' = New(heap, first) /\ Return("SUCCESS", Fresh(heap))
    <3>1. Keeps(heap, heap') /\ Typed(heap') /\ Fresh(heap) \in Addr /\ JsonAt(heap', Fresh(heap))
      BY <1>1, <2>5, FreshJson DEF ReadData
    <3>2. Fresh(heap) \in Ptr \cup {None}
      BY <3>1 DEF Ptr
    <3> QED
      BY <2>1, <2>2, <2>5, <3>1, <3>2, ReturnsData DEF Outside
  <2> QED
    BY <1>1, <2>3, <2>4, <2>5 DEF Word
<1>2. \A n \in Int : BlockTyped(heap, JsonBoolean(n))
  BY NoKeys
<1>3. \A n \in Int : JsonBoolean(n).type \in JsonType
  BY BlockIs DEF JsonBoolean, JsonType
<1> QED
  BY <1>1, <1>2, <1>3 DEF ParseWord

LEMMA KeepsKeeps ==
    ASSUME NEW h, NEW g, NEW k, Keeps(h, g), Keeps(g, k)
    PROVE  Keeps(h, k)
  BY DEF Keeps

LEMMA NewShaped ==
    ASSUME NEW h, Shaped(h), HasRoom(h), NEW b, ShapeOf(b)
    PROVE  Shaped(New(h, b))
<1>1. Fresh(h) \in Addr
  BY FreshIs
<1>2. New(h, b) = [h EXCEPT ![Fresh(h)] = b]
  BY DEF New
<1> QED
  BY <1>1, <1>2 DEF Shaped

LEMMA StringShaped ==
    ASSUME NEW x
    PROVE  ShapeOf(String(x)) /\ String(x).type = "string"
<1> DEFINE b == String(x)
<1>1. <<>> \in Seq(Addr) /\ <<>> \in Seq(Ptr)
  OBVIOUS
<1>2. b.type = "string" /\ b.keys = <<>> /\ b.kids = <<>> /\ b.val = x
  BY BlockIs DEF String
<1>3. b = Block("string", <<>>, <<>>, x)
  BY DEF String
<1> HIDE DEF b
<1>4. b = Block(b.type, b.keys, b.kids, b.val)
  BY <1>2, <1>3
<1>5. ShapeOf(b)
  BY <1>1, <1>2, <1>4 DEF ShapeOf, Types
<1> QED
  BY <1>2, <1>5 DEF b

\* json_t and string_t of a string.
LEMMA TwoTyped ==
    ASSUME NEW h, Typed(h), Shaped(h), HasRoom(h), NEW x \in Seq(Char)
    PROVE  LET built == New(h, String(x))
               g == New(built, JsonString(Fresh(h)))
           IN  /\ Shaped(built) /\ Typed(built) /\ Keeps(h, built) /\ StringAt(built, Fresh(h)) /\ Fresh(h) \in Addr
               /\ HasRoom(built) => Typed(g) /\ Keeps(h, g) /\ Fresh(built) \in Addr /\ JsonAt(g, Fresh(built))
<1> DEFINE built == New(h, String(x))
           g == New(built, JsonString(Fresh(h)))
<1>1. BlockTyped(h, String(x)) /\ String(x).type = "string" /\ ShapeOf(String(x))
  BY NoKeys, StringShaped
<1>2. Typed(built) /\ Keeps(h, built) /\ Fresh(h) \in Addr /\ built[Fresh(h)] = String(x)
  BY <1>1, NewTyped
<1>3. Shaped(built)
  BY <1>1, NewShaped
<1>4. StringAt(built, Fresh(h))
  BY <1>1, <1>2 DEF StringAt
<1>5. BlockTyped(built, JsonString(Fresh(h))) /\ JsonString(Fresh(h)).type = "STRING"
  BY <1>4, NoKeys, BlockIs DEF JsonString
<1> HIDE DEF built
<1>6. HasRoom(built) => Typed(g) /\ Keeps(built, g) /\ Fresh(built) \in Addr /\ g[Fresh(built)].type = "STRING"
  BY <1>2, <1>3, <1>5, NewTyped
<1> HIDE DEF g
<1>7. HasRoom(built) => Typed(g) /\ Keeps(h, g) /\ Fresh(built) \in Addr /\ JsonAt(g, Fresh(built))
  BY <1>2, <1>6, KeepsKeeps DEF JsonAt, JsonType
<1> QED
  BY <1>2, <1>3, <1>4, <1>7 DEF built, g

LEMMA NoValueData ==
    ASSUME ReadData, CallsFit(calls, heap), Outside, NoValue
    PROVE  ReadData' /\ LexLess(Rank', Rank)
<1>1. mode = "value" /\ Fail /\ UNCHANGED <<heap, lost, input, at, calls>>
  BY DEF NoValue
<1>2. Keeps(heap, heap') /\ Typed(heap')
  BY <1>1, Unchanged DEF ReadData
<1>3. at' \in Places /\ at <= at'
  BY <1>1, ReadPlaces
<1> QED
  BY <1>1, <1>2, <1>3, ReturnsData DEF Fail, Outside

LEMMA ParseStringData ==
    ASSUME ReadData, CallsFit(calls, heap), Shaped(heap), Outside, ParseString
    PROVE  ReadData' /\ LexLess(Rank', Rank)
<1> DEFINE found == StringFrom(at)
           built == New(heap, String(found.val))
<1>1. /\ mode = "value" /\ Peek(at) = Ch["quote"] /\ at' = found.at
      /\ IF found.ok
         THEN /\ HasRoom(heap) /\ HasRoom(built)
              /\ heap' = New(built, JsonString(Fresh(heap)))
              /\ Return("SUCCESS", Fresh(built))
         ELSE Fail /\ UNCHANGED heap
      /\ UNCHANGED <<lost, input, calls>>
  BY DEF ParseString
<1>2. found \in Scan /\ at < found.at
  BY <1>1, ReadPlaces, StringIs
<1>3. at' \in Places /\ at <= at' /\ at < at' /\ found.val \in Seq(Char)
  BY <1>1, <1>2, ReadPlaces DEF Scan
<1> HIDE DEF found
<1>4. CASE found.ok
  <2>1. /\ HasRoom(heap) /\ HasRoom(built) /\ heap' = New(built, JsonString(Fresh(heap)))
        /\ Return("SUCCESS", Fresh(built))
    BY <1>1, <1>4
  <2>2. Typed(heap') /\ Keeps(heap, heap') /\ Fresh(built) \in Addr /\ JsonAt(heap', Fresh(built))
    BY <1>3, <2>1, TwoTyped DEF ReadData
  <2> HIDE DEF built
  <2>3. Fresh(built) \in Ptr \cup {None}
    BY <2>2 DEF Ptr
  <2> QED
    BY <1>1, <1>3, <2>1, <2>2, <2>3, ReturnsData DEF Outside
<1>5. CASE ~ found.ok
  <2>1. Keeps(heap, heap') /\ Typed(heap') /\ Fail
    BY <1>1, <1>5, Unchanged DEF ReadData
  <2> QED
    BY <1>1, <1>3, <2>1, ReturnsData DEF Fail, Outside
<1> QED
  BY <1>4, <1>5

LEMMA ParseNumberData ==
    ASSUME ReadData, CallsFit(calls, heap), Shaped(heap), Outside, ParseNumber
    PROVE  ReadData' /\ LexLess(Rank', Rank)
<1> DEFINE found == NumberFrom(at)
           n == Strtod[found.val]
<1>1. /\ mode = "value" /\ at' = found.at
      /\ IF found.ok
         THEN HasRoom(heap) /\ heap' = New(heap, JsonNumber(n)) /\ Return("SUCCESS", Fresh(heap))
         ELSE Fail /\ UNCHANGED heap
      /\ UNCHANGED <<lost, input, calls>>
  BY DEF ParseNumber
<1>2. found \in Scan /\ at <= found.at /\ (found.ok => IsNumber[found.val])
  BY ReadPlaces, NumberIs
<1>3. at' \in Places /\ at <= at' /\ (found.ok => n \in Number)
  BY <1>1, <1>2, StrtodIs DEF Scan
<1> HIDE DEF found, n
<1>4. CASE found.ok
  <2>1. BlockTyped(heap, JsonNumber(n))
    BY <1>3, <1>4, NoKeys
  <2>2. JsonNumber(n).type \in JsonType
    BY BlockIs DEF JsonNumber, JsonType
  <2>3. Keeps(heap, heap') /\ Typed(heap') /\ Fresh(heap) \in Addr /\ JsonAt(heap', Fresh(heap))
    BY <1>1, <1>4, <2>1, <2>2, FreshJson DEF ReadData
  <2>4. Fresh(heap) \in Ptr \cup {None}
    BY <2>3 DEF Ptr
  <2> QED
    BY <1>1, <1>3, <1>4, <2>3, <2>4, ReturnsData DEF Outside
<1>5. CASE ~ found.ok
  <2>1. Keeps(heap, heap') /\ Typed(heap') /\ Fail
    BY <1>1, <1>5, Unchanged DEF ReadData
  <2> QED
    BY <1>1, <1>3, <2>1, ReturnsData DEF Fail, Outside
<1> QED
  BY <1>4, <1>5

LEMMA ClosingsAre == ASSUME NEW fn PROVE Closing(fn) # STREAM_EMPTY
<1>1. Ch["]"] # STREAM_EMPTY
  BY CharsAre DEF STREAM_EMPTY
<1> QED
  BY <1>1, BracesAre, Zenon DEF Closing

LEMMA Onward ==
    ASSUME input \in Seq(Char), NEW p \in Places, NEW q \in Places, NEW r \in Places, p <= q, q <= r
    PROVE  p <= r /\ (p < q \/ q < r => p < r)
<1>1. p \in Nat /\ q \in Nat /\ r \in Nat
  BY DEF Places
<1> QED
  BY <1>1

LEMMA OpenData ==
    ASSUME ReadData, CallsFit(calls, heap), Shaped(heap), Outside,
           NEW fn \in {"list", "object"}, NEW opening, opening # STREAM_EMPTY, NEW new, BlockTyped(heap, new),
           new.type \in JsonType, NEW then \in {"value", "pair"}, Open(fn, opening, new, then)
    PROVE  ReadData' /\ LexLess(Rank', Rank)
<1> DEFINE p == Trim(at + 1)
<1>1. /\ mode = "value" /\ Peek(at) = opening /\ HasRoom(heap) /\ heap' = New(heap, new)
      /\ IF Peek(p) = Closing(fn)
         THEN Return("SUCCESS", Fresh(heap)) /\ at' = p + 1
         ELSE /\ IF Peek(p) = STREAM_EMPTY THEN Fail ELSE mode' = then /\ UNCHANGED ret
              /\ at' = p
      /\ UNCHANGED <<lost, input>>
  BY DEF Open
<1>2. at + 1 \in Places /\ at < at + 1
  <2>1. input \in Seq(Char) /\ at \in Places
    BY ReadPlaces
  <2> QED
    BY <1>1, <2>1, NextIs
<1>3. p \in Places /\ at + 1 <= p
  BY <1>2, ReadPlaces, TrimIs
<1>4. Keeps(heap, heap') /\ Typed(heap') /\ Fresh(heap) \in Addr /\ JsonAt(heap', Fresh(heap))
  BY <1>1, FreshJson DEF ReadData
<1>5. Fresh(heap) \in Ptr \cup {None}
  BY <1>4 DEF Ptr
<1> HIDE DEF p
<1>6. CASE Peek(p) = Closing(fn)
  <2>1. Peek(p) # STREAM_EMPTY
    BY <1>6, ClosingsAre
  <2>2. p + 1 \in Places /\ p + 1 > p
    <3>1. input \in Seq(Char)
      BY ReadPlaces
    <3> QED
      BY <1>3, <2>1, <3>1, NextIs
  <2>3. at' \in Places /\ at < at' /\ at <= at'
    <3>1. at' = p + 1 /\ at \in Nat /\ p \in Nat
      BY <1>1, <1>3, <1>6, ReadPlaces
    <3> QED
      BY <1>3, <2>2, <3>1
  <2> QED
    BY <1>1, <1>4, <1>5, <1>6, <2>3, ReturnsData DEF Outside
<1>7. CASE Peek(p) # Closing(fn)
  <2>1. at' = p /\ at' \in Places /\ at < at' /\ at <= at'
    <3>1. at' = p /\ at \in Nat /\ p \in Nat
      BY <1>1, <1>3, <1>7, ReadPlaces
    <3> QED
      BY <1>3, <3>1
  <2>2. CASE Fail
    BY <1>1, <1>4, <2>1, <2>2, ReturnsData DEF Fail, Outside
  <2>3. CASE mode' = then /\ UNCHANGED ret
    BY <1>1, <1>4, <2>1, <2>3, GoesOnData DEF Outside
  <2> QED
    BY <1>1, <1>7, <2>2, <2>3
<1> QED
  BY <1>6, <1>7

LEMMA OpensData ==
    ASSUME ReadData, CallsFit(calls, heap), Shaped(heap), Outside, OpenList \/ OpenObject
    PROVE  ReadData' /\ LexLess(Rank', Rank)
<1>1. BlockTyped(heap, JsonList) /\ BlockTyped(heap, JsonObject)
  BY NoKeys
<1>2. JsonList.type \in JsonType /\ JsonObject.type \in JsonType
  BY BlockIs DEF JsonList, JsonObject, JsonType
<1>3. Ch["["] # STREAM_EMPTY
  BY CharsAre DEF STREAM_EMPTY
<1>4. CASE OpenList
  BY <1>1, <1>2, <1>3, <1>4, OpenData, Zenon DEF OpenList
<1>5. CASE OpenObject
  BY <1>1, <1>2, <1>5, BracesAre, OpenData, Zenon DEF OpenObject
<1> QED
  BY <1>4, <1>5

LEMMA PushElementData ==
    ASSUME ReadData, CallsFit(calls, heap), Shaped(heap), Outside, PushElement
    PROVE  ReadData' /\ LexLess(Rank', Rank)
<1>1. /\ mode = "return" /\ calls # <<>> /\ Top.fn = "list" /\ ret.ps = "SUCCESS"
      /\ heap' = ListPush(heap, Top.own, ret.json) /\ mode' = "next"
      /\ UNCHANGED <<lost, input, at, calls, ret>>
  BY DEF PushElement
<1>2. Top.own \in Addr /\ heap[Top.own].type = "LIST"
  BY <1>1, TopIs DEF FnType
<1>3. JsonAt(heap, ret.json)
  BY <1>1 DEF ReadData, ValuesOK
<1>4. Keeps(heap, heap') /\ Typed(heap')
  BY <1>1, <1>2, <1>3, PushTyped DEF ReadData
<1>5. at' \in Places /\ at <= at'
  BY <1>1, ReadPlaces
<1> QED
  BY <1>1, <1>4, <1>5, GoesOnData DEF Outside

LEMMA PutPairData ==
    ASSUME ReadData, CallsFit(calls, heap), Shaped(heap), Outside, PutPair
    PROVE  ReadData' /\ LexLess(Rank', Rank)
<1> DEFINE object == calls[Len(calls) - 1].own
<1>1. /\ mode = "return" /\ calls # <<>> /\ Top.fn = "pair" /\ ret.ps = "SUCCESS"
      /\ heap' = HmPut(heap, object, Top.own, ret.json) /\ mode' = "next"
      /\ UNCHANGED <<input, at, ret>>
  BY DEF PutPair
<1>2. Top.own \in Addr /\ heap[Top.own].type = "string" /\ object \in Addr /\ heap[object].type = "OBJECT"
  BY <1>1, TopIs DEF FnType
<1>3. JsonAt(heap, ret.json) /\ StringAt(heap, Top.own)
  BY <1>1, <1>2 DEF ReadData, ValuesOK, StringAt
<1>4. Keeps(heap, heap') /\ Typed(heap')
  BY <1>1, <1>2, <1>3, PutTyped DEF ReadData
<1>5. at' \in Places /\ at <= at'
  BY <1>1, ReadPlaces
<1> QED
  BY <1>1, <1>4, <1>5, GoesOnData DEF Outside

LEMMA ParseKeyData ==
    ASSUME ReadData, CallsFit(calls, heap), Shaped(heap), Outside, ParseKey
    PROVE  ReadData' /\ LexLess(Rank', Rank)
<1> DEFINE key == StringFrom(at)
           colon == Trim(key.at)
<1>1. /\ mode = "pair"
      /\ \/ ~ key.ok /\ Fail /\ at' = key.at /\ UNCHANGED heap
         \/ key.ok /\ Peek(colon) # Ch[":"] /\ Fail /\ at' = Next1(colon) /\ UNCHANGED heap
         \/ /\ key.ok /\ Peek(colon) = Ch[":"] /\ HasRoom(heap) /\ heap' = New(heap, String(key.val))
            /\ at' = Trim(colon + 1) /\ mode' = "value" /\ UNCHANGED ret
      /\ UNCHANGED <<lost, input>>
  BY DEF ParseKey
<1>2. /\ input \in Seq(Char) /\ at \in Places /\ Places \subseteq Nat
      /\ key \in Scan /\ at <= key.at /\ (key.ok => at < key.at)
  BY ReadPlaces, StringIs
<1>3. key.at \in Places /\ key.val \in Seq(Char)
  BY <1>2 DEF Scan
<1> HIDE DEF key
<1>4. colon \in Places /\ key.at <= colon
  BY <1>2, <1>3, TrimIs
<1> HIDE DEF colon
<1>5. Next1(colon) \in Places /\ colon <= Next1(colon)
      /\ (Peek(colon) # STREAM_EMPTY => colon + 1 \in Places /\ colon + 1 > colon)
  BY <1>2, <1>4, NextIs
<1>6. CASE Fail /\ UNCHANGED heap /\ at' \in {key.at, Next1(colon)}
  <2>1. at' \in Places /\ at <= at'
    <3>1. at <= colon
      BY <1>2, <1>3, <1>4, Onward
    <3>2. at <= Next1(colon)
      BY <1>2, <1>4, <1>5, <3>1, Onward
    <3> QED
      BY <1>2, <1>3, <1>5, <1>6, <3>2
  <2>2. Keeps(heap, heap') /\ Typed(heap')
    BY <1>6, Unchanged DEF ReadData
  <2> QED
    BY <1>1, <1>6, <2>1, <2>2, ReturnsData DEF Fail, Outside
<1>7. CASE /\ key.ok /\ Peek(colon) = Ch[":"] /\ HasRoom(heap) /\ heap' = New(heap, String(key.val))
           /\ at' = Trim(colon + 1) /\ mode' = "value" /\ UNCHANGED ret
  <2>1. Ch[":"] # STREAM_EMPTY
    BY CharsAre DEF STREAM_EMPTY
  <2>2. colon + 1 \in Places /\ colon + 1 > colon
    BY <1>5, <1>7, <2>1
  <2>3. at' \in Places /\ colon + 1 <= at'
    BY <1>2, <1>7, <2>2, TrimIs
  <2>4. at < at' /\ at <= at'
    <3>1. at < colon
      BY <1>2, <1>3, <1>4, <1>7, Onward
    <3>2. at \in Nat /\ colon \in Nat /\ at' \in Nat
      BY <1>2, <1>4, <2>3
    <3> QED
      BY <2>3, <3>1, <3>2
  <2>5. Keeps(heap, heap') /\ Typed(heap')
    BY <1>3, <1>7, NoKeys, StringShaped, FreshJson DEF ReadData
  <2> QED
    BY <1>1, <1>7, <2>3, <2>4, <2>5, GoesOnData DEF Outside
<1> QED
  BY <1>1, <1>6, <1>7

LEMMA NextOrCloseData ==
    ASSUME ReadData, CallsFit(calls, heap), ModeOK, Outside, NextOrClose
    PROVE  ReadData' /\ LexLess(Rank', Rank)
<1> DEFINE p == Trim(at)
<1>1. /\ mode = "next"
      /\ \/ Peek(p) = Ch[","] /\ mode' \in {"value", "pair"} /\ at' = Trim(p + 1) /\ UNCHANGED ret
         \/ Peek(p) = Closing(Top.fn) /\ Return("SUCCESS", Top.own) /\ at' = p + 1
         \/ Fail /\ at' = Next1(p)
      /\ UNCHANGED <<heap, lost, input>>
  BY DEF NextOrClose
<1>2. /\ input \in Seq(Char) /\ at \in Places /\ Places \subseteq Nat
      /\ Keeps(heap, heap') /\ Typed(heap')
  BY <1>1, ReadPlaces, Unchanged DEF ReadData
<1>3. p \in Places /\ at <= p
  BY <1>2, TrimIs
<1> HIDE DEF p
<1>4. Next1(p) \in Places /\ p <= Next1(p) /\ (Peek(p) # STREAM_EMPTY => p + 1 \in Places /\ p + 1 > p)
  BY <1>2, <1>3, NextIs
<1>5. CASE Peek(p) = Ch[","] /\ mode' \in {"value", "pair"} /\ at' = Trim(p + 1) /\ UNCHANGED ret
  <2>1. p + 1 \in Places /\ p + 1 > p
    BY <1>4, <1>5, CommaIs
  <2>2. at' \in Places /\ p + 1 <= at'
    BY <1>2, <1>5, <2>1, TrimIs
  <2>3. at < at' /\ at <= at'
    BY <1>2, <1>3, <2>1, <2>2
  <2> QED
    BY <1>1, <1>2, <1>5, <2>2, <2>3, GoesOnData DEF Outside
<1>6. CASE Peek(p) = Closing(Top.fn) /\ Return("SUCCESS", Top.own) /\ at' = p + 1
  <2>1. calls # <<>> /\ Top.fn \in {"list", "object"}
    BY <1>1 DEF ModeOK
  <2>2. Top.own \in Addr /\ JsonAt(heap', Top.own)
    <3>1. Top.own \in Addr /\ heap[Top.own].type = FnType(Top.fn)
      BY <2>1, TopIs
    <3>2. FnType(Top.fn) \in {"LIST", "OBJECT"}
      BY <2>1 DEF FnType
    <3> QED
      BY <1>1, <3>1, <3>2 DEF JsonAt, JsonType
  <2>3. Top.own \in Ptr \cup {None}
    BY <2>2 DEF Ptr
  <2>4. p + 1 \in Places /\ p + 1 > p
    BY <1>4, <1>6, <2>1, ClosingsAre
  <2>5. at' \in Places /\ at < at' /\ at <= at'
    BY <1>2, <1>3, <1>6, <2>4
  <2> QED
    BY <1>1, <1>2, <1>6, <2>2, <2>3, <2>5, ReturnsData DEF Outside
<1>7. CASE Fail /\ at' = Next1(p)
  <2>1. at' \in Places /\ at <= at'
    <3>1. at <= Next1(p)
      BY <1>2, <1>3, <1>4, Onward
    <3> QED
      BY <1>4, <1>7, <3>1
  <2> QED
    BY <1>1, <1>2, <1>7, <2>1, ReturnsData DEF Fail, Outside
<1> QED
  BY <1>1, <1>5, <1>6, <1>7

LEMMA DeletedAre ==
    ASSUME NEW h, Shaped(h), NEW r
    PROVE  /\ \A a \in Addr : DeleteString(h, r)[a] = Free \/ DeleteString(h, r)[a] = h[a]
           /\ \A a \in Addr : DeleteJson(h, r)[a] = Free \/ DeleteJson(h, r)[a] = h[a]
<1>1. \A a \in Addr : DeleteString(h, r)[a] = Free \/ DeleteString(h, r)[a] = h[a]
  BY DEF DeleteString, Shaped
<1>2. \A a \in Addr : DeleteJson(h, r)[a] = Free \/ DeleteJson(h, r)[a] = h[a]
  BY DEF DeleteJson
<1> QED
  BY <1>1, <1>2

LEMMA PropagateData ==
    ASSUME ReadData, CallsFit(calls, heap), Shaped(heap), Outside, Propagate, Alive'
    PROVE  ReadData' /\ LexLess(Rank', Rank)
<1>1. /\ mode = "return" /\ calls # <<>> /\ ret.ps # "SUCCESS" /\ calls' = Popped
      /\ heap' = IF Top.fn = "pair" THEN DeleteString(heap, Top.own) ELSE DeleteJson(heap, Top.own)
      /\ UNCHANGED <<lost, input, at, mode, ret>>
  BY DEF Propagate
<1>2. \A a \in Addr : heap'[a] = Free \/ heap'[a] = heap[a]
  BY <1>1, DeletedAre
<1>3. Typed(heap') /\ \A v : JsonAt(heap, v) /\ (v # NULL_JSON => heap'[v] # Free) => JsonAt(heap', v)
  BY <1>2, FreedTyped DEF ReadData, Alive
<1>4. ReaderOK'
  BY <1>1, ReadPlaces DEF ReaderOK, Places
<1>5. ValuesOK(heap)'
  <2>1. /\ \A i \in DOMAIN work : JsonAt(heap, work[i])
        /\ root # None => JsonAt(heap, root)
        /\ dest # None => JsonAt(heap, dest)
    BY DEF ReadData, ValuesOK
  <2>2. /\ work' = work /\ root' = root /\ dest' = dest
        /\ \A i \in DOMAIN work : work[i] # NULL_JSON => heap'[work[i]] # Free
        /\ root \in Addr => heap'[root] # Free
        /\ dest \in Addr => heap'[dest] # Free
    BY DEF Outside, Alive
  <2>3. \A v : JsonAt(heap, v) /\ v # NULL_JSON => v \in Addr
    BY DEF JsonAt
  <2> QED
    BY <1>1, <1>3, <2>1, <2>2, <2>3 DEF ValuesOK
<1>6. LexLess(Rank', Rank)
  <2>1. at' \in Places /\ at <= at' /\ input' = input
    BY <1>1, ReadPlaces
  <2>2. ModeRank' = ModeRank
    BY <1>1 DEF ModeRank
  <2>3. Len(calls') < Len(calls)
    <3>1. calls \in Seq(Frame)
      BY DEF CallsFit
    <3>2. Len(Front(calls)) = Len(calls) - 1 /\ Len(calls) - 1 \in Nat
      BY <1>1, <3>1, FrontIs
    <3>3. Len(calls) \in Nat
      BY <3>1
    <3> QED
      BY <1>1, <3>2, <3>3 DEF Popped
  <2> QED
    BY <2>1, <2>2, <2>3, RankFalls
<1> QED
  BY <1>3, <1>4, <1>5, <1>6 DEF ReadData

\* Every function of parser.c keeps the types, and comes closer to its return.
LEMMA StepData ==
    ASSUME ReadData, CallsFit(calls, heap), Shaped(heap), ModeOK, Outside, ParserStep, Alive'
    PROVE  ReadData' /\ LexLess(Rank', Rank)
<1>1. CASE NoValue
  BY <1>1, NoValueData
<1>2. CASE ParseWord
  BY <1>2, WordData
<1>3. CASE ParseString
  BY <1>3, ParseStringData
<1>4. CASE ParseNumber
  BY <1>4, ParseNumberData
<1>5. CASE OpenList \/ OpenObject
  BY <1>5, OpensData
<1>6. CASE PushElement
  BY <1>6, PushElementData
<1>7. CASE ParseKey
  BY <1>7, ParseKeyData
<1>8. CASE PutPair
  BY <1>8, PutPairData
<1>9. CASE NextOrClose
  BY <1>9, NextOrCloseData
<1>10. CASE Propagate
  BY <1>10, PropagateData
<1> QED
  BY <1>1, <1>2, <1>3, <1>4, <1>5, <1>6, <1>7, <1>8, <1>9, <1>10 DEF ParserStep

----------------------------------------------------------------------------
(* The types of all that the program keeps. *)

\* The writer rests, before and after.
LEMMA Resting ==
    ASSUME WritingOK, phase # "write" \/ status # "none", UNCHANGED writerVars, phase' # "write" \/ status # "none"
    PROVE  WritingOK'
<1>1. writers = <<>> /\ pending = None
  BY DEF WritingOK
<1>2. \A i \in DOMAIN writers' : Writer(heap, writers[i])'
  BY <1>1 DEF writerVars
<1> QED
  BY <1>1, <1>2 DEF WritingOK, writerVars

LEMMA ReadingData ==
    ASSUME IInv, Alive', Data, Reading
    PROVE  Data' /\ LexLess(Rank', Rank)
<1>1. phase = "read" /\ ParserStep /\ UNCHANGED <<writerVars, work, made, phase, source, root, dest>>
  BY DEF Reading
<1>2. ReadData /\ CallsFit(calls, heap) /\ Shaped(heap) /\ ModeOK /\ Outside
  BY <1>1 DEF Data, ReadData, IInv, Sound, Outside
<1>3. ReadData' /\ LexLess(Rank', Rank)
  BY <1>1, <1>2, StepData
<1>4. WritingOK'
  BY <1>1, Resting DEF Data
<1>5. PhaseOK'
  BY <1>1 DEF Data, PhaseOK
<1> QED
  BY <1>3, <1>4, <1>5 DEF Data, ReadData

\* The program builds.
LEMMA BuildData ==
    ASSUME IInv, Data, Build, Keeps(heap, heap'), Typed(heap'),
           \A i \in DOMAIN work' : JsonAt(heap', work'[i])
    PROVE  Data'
<1>1. /\ phase = "build" /\ made < MaxCalls /\ made' = made + 1
      /\ UNCHANGED <<parserVars, writerVars, phase, source, root, dest>>
  BY DEF Build
<1>2. ReaderOK'
  BY <1>1 DEF Data, ReaderOK, parserVars
<1>3. ValuesOK(heap)'
  BY <1>1, KeepsAt DEF Data, ValuesOK, parserVars
<1>4. WritingOK'
  BY <1>1, Resting DEF Data
<1>5. PhaseOK'
  <2>1. made \in Nat /\ MaxCalls \in Nat
    BY TextAssumption DEF Data, PhaseOK
  <2>2. made' \in 0..MaxCalls
    BY <1>1, <2>1
  <2> QED
    BY <1>1, <2>2 DEF Data, PhaseOK
<1> QED
  BY <1>2, <1>3, <1>4, <1>5 DEF Data

LEMMA WorkGrowsData ==
    ASSUME IInv, Data, Build, Keeps(heap, heap'), Typed(heap'), NEW v, v \in Ptr, JsonAt(heap', v),
           work' = Append(work, v)
    PROVE  Data'
<1>1. \A i \in DOMAIN work : JsonAt(heap', work[i])
  BY KeepsAt DEF Data, ValuesOK
<1>2. work \in Seq(Ptr)
  BY DEF IInv, ProgramOK
<1>3. \A i \in DOMAIN work' : JsonAt(heap', work'[i])
  BY <1>1, <1>2
<1> QED
  BY <1>3, BuildData

LEMMA WorkShrinksData ==
    ASSUME IInv, Data, Build, Keeps(heap, heap'), Typed(heap'), work' = Front(work), Len(work) > 1
    PROVE  Data'
<1>1. \A i \in DOMAIN work : JsonAt(heap', work[i])
  BY KeepsAt DEF Data, ValuesOK
<1>2. work \in Seq(Ptr) /\ Len(work) \in Nat /\ DOMAIN work = 1..Len(work)
  BY DEF IInv, ProgramOK
<1>3. work # <<>>
  BY <1>2
<1>4. DOMAIN work' = 1..(Len(work) - 1) /\ \A i \in 1..(Len(work) - 1) : work'[i] = work[i]
  BY <1>2, <1>3, FrontIs
<1>5. \A i \in DOMAIN work' : JsonAt(heap', work'[i])
  BY <1>1, <1>2, <1>4
<1> QED
  BY <1>5, BuildData

LEMMA NewJsonStringData == ASSUME IInv, Data, NewJsonString PROVE Data'
<1>1. PICK x \in Strings :
        LET built == New(heap, String(x))
        IN /\ HasRoom(heap) /\ HasRoom(built)
           /\ heap' = New(built, JsonString(Fresh(heap)))
           /\ work' = Append(work, Fresh(built))
  BY DEF NewJsonString
<1> DEFINE built == New(heap, String(x))
<1>2. x \in Seq(Char) /\ Shaped(heap) /\ Typed(heap) /\ Build
  BY TextAssumption DEF Data, IInv, Sound, NewJsonString
<1>3. /\ HasRoom(heap) /\ HasRoom(built) /\ heap' = New(built, JsonString(Fresh(heap)))
      /\ work' = Append(work, Fresh(built))
  BY <1>1
<1>4. Typed(heap') /\ Keeps(heap, heap') /\ Fresh(built) \in Addr /\ JsonAt(heap', Fresh(built))
  BY <1>2, <1>3, TwoTyped
<1> HIDE DEF built
<1>5. Fresh(built) \in Ptr
  BY <1>4 DEF Ptr
<1> QED
  BY <1>2, <1>3, <1>4, <1>5, WorkGrowsData

LEMMA NewJsonData == ASSUME IInv, Data, NewJson PROVE Data'
<1>1. PICK b \in {JsonNumber(n) : n \in Numbers} \cup {JsonBoolean(1), JsonList, JsonObject} : heap' = New(heap, b)
  BY DEF NewJson
<1>2. Shaped(heap) /\ Typed(heap) /\ Build /\ HasRoom(heap) /\ work' = Append(work, Fresh(heap))
  BY DEF Data, IInv, Sound, NewJson
<1>3. BlockTyped(heap, b) /\ b.type \in JsonType
  <2>1. Numbers \subseteq Number /\ 1 \in Int
    BY TextAssumption
  <2>2. ASSUME NEW n PROVE JsonNumber(n).type = "NUMBER" /\ JsonBoolean(n).type = "BOOLEAN"
    BY BlockIs DEF JsonNumber, JsonBoolean
  <2>3. JsonList.type \in JsonType /\ JsonObject.type \in JsonType
    BY BlockIs DEF JsonList, JsonObject, JsonType
  <2>4. CASE \E n \in Numbers : b = JsonNumber(n)
    BY <2>1, <2>2, <2>4, NoKeys DEF JsonType
  <2>5. CASE b = JsonBoolean(1)
    BY <2>1, <2>2, <2>5, NoKeys DEF JsonType
  <2>6. CASE b \in {JsonList, JsonObject}
    BY <2>3, <2>6, NoKeys
  <2> QED
    BY <1>1, <2>4, <2>5, <2>6
<1>4. Typed(heap') /\ Keeps(heap, heap') /\ Fresh(heap) \in Addr /\ JsonAt(heap', Fresh(heap))
  BY <1>1, <1>2, <1>3, FreshJson
<1>5. Fresh(heap) \in Ptr
  BY <1>4 DEF Ptr
<1> QED
  BY <1>2, <1>4, <1>5, WorkGrowsData

LEMMA NewJsonNullData == ASSUME IInv, Data, NewJsonNull PROVE Data'
<1>1. Build /\ work' = Append(work, NULL_JSON) /\ UNCHANGED <<heap, lost>>
  BY DEF NewJsonNull
<1>2. Keeps(heap, heap') /\ Typed(heap')
  BY <1>1, Unchanged DEF Data
<1>3. NULL_JSON \in Ptr /\ JsonAt(heap', NULL_JSON)
  BY DEF Ptr, JsonAt
<1> QED
  BY <1>1, <1>2, <1>3, WorkGrowsData

LEMMA PushWorkData == ASSUME IInv, Data, PushWork PROVE Data'
<1> DEFINE n == Len(work)
           l == work[n - 1]
           v == work[n]
<1>1. /\ Build /\ phase = "build" /\ n > 1 /\ Type(heap, l) = "LIST" /\ heap' = ListPush(heap, l, v)
      /\ work' = Front(work)
  BY DEF PushWork, Build
<1>2. l \in Addr /\ heap[l].type = "LIST"
  BY <1>1, LastTwo
<1>3. JsonAt(heap, v)
  <2>1. n \in DOMAIN work
    BY <1>1 DEF IInv, ProgramOK
  <2> QED
    BY <2>1 DEF Data, ValuesOK
<1>4. Typed(heap') /\ Keeps(heap, heap')
  BY <1>1, <1>2, <1>3, PushTyped DEF Data, IInv, Sound
<1> QED
  BY <1>1, <1>4, WorkShrinksData

LEMMA PutWorkData == ASSUME IInv, Data, PutWork PROVE Data'
<1> DEFINE n == Len(work)
           o == work[n - 1]
           v == work[n]
<1>1. /\ Build /\ phase = "build" /\ n > 1 /\ Type(heap, o) = "OBJECT" /\ HasRoom(heap) /\ work' = Front(work)
  BY DEF PutWork, Build
<1>2. PICK x \in Keys : heap' = HmPut(New(heap, String(x)), o, Fresh(heap), v)
  BY DEF PutWork
<1> DEFINE keyed == New(heap, String(x))
           k == Fresh(heap)
<1>3. o \in Addr /\ heap[o].type = "OBJECT"
  BY <1>1, LastTwo
<1>4. JsonAt(heap, v)
  <2>1. n \in DOMAIN work
    BY <1>1 DEF IInv, ProgramOK
  <2> QED
    BY <2>1 DEF Data, ValuesOK
<1>5. x \in Seq(Char) /\ Shaped(heap) /\ Typed(heap)
  BY TextAssumption DEF Data, IInv, Sound
<1>6. Shaped(keyed) /\ Typed(keyed) /\ Keeps(heap, keyed) /\ StringAt(keyed, k)
  BY <1>1, <1>5, TwoTyped
<1>7. heap' = HmPut(keyed, o, k, v)
  BY <1>2
<1> HIDE DEF keyed, k
<1>8. keyed[o].type = "OBJECT" /\ JsonAt(keyed, v)
  BY <1>3, <1>4, <1>6, KeepsAt DEF Keeps
<1>9. Typed(heap') /\ Keeps(keyed, heap')
  BY <1>3, <1>6, <1>7, <1>8, PutTyped
<1> QED
  BY <1>1, <1>6, <1>9, KeepsKeeps, WorkShrinksData

LEMMA WriteData == ASSUME IInv, Data, Write PROVE Data'
<1>1. PICK s \in BOOLEAN : StartWriting(work[1], s)
  BY DEF Write
<1>2. /\ phase = "build" /\ Len(work) = 1 /\ phase' = "write" /\ root' = work[1] /\ work' = <<>>
      /\ UNCHANGED <<parserVars, made, source, dest>>
  BY DEF Write
<1>3. /\ status = "none" /\ writers = <<>> /\ pending' = work[1] /\ spaced' = s
      /\ UNCHANGED <<heap, lost, output, writers, status, failed>>
  BY <1>1 DEF StartWriting
<1>4. JsonAt(heap, work[1])
  <2>1. 1 \in DOMAIN work
    BY <1>2 DEF IInv, ProgramOK
  <2> QED
    BY <2>1 DEF Data, ValuesOK
<1>5. Typed(heap') /\ ReaderOK' /\ PhaseOK'
  BY <1>2, <1>3 DEF Data, ReaderOK, PhaseOK, parserVars
<1>6. ValuesOK(heap)'
  <2>1. DOMAIN work' = {}
    BY <1>2
  <2> QED
    BY <1>2, <1>3, <1>4, <2>1 DEF Data, ValuesOK, parserVars
<1>7. WritingOK'
  <2>1. DOMAIN writers' = {}
    BY <1>3
  <2> QED
    BY <1>2, <1>3, <1>4, <2>1 DEF Data, WritingOK
<1> QED
  BY <1>5, <1>6, <1>7 DEF Data

\* A text is given to json_from_in_stream.
LEMMA BeginData ==
    ASSUME IInv, Data, phase' = "read", NEW text \in Seq(Char), Begin(text), writers = <<>>, pending = None,
           UNCHANGED <<writerVars, work, made, root, dest>>, source' \in Foreign \cup {Own}
    PROVE  Data'
<1>1. /\ mode' = "value" /\ input' = text /\ UNCHANGED <<heap, lost, calls, ret>>
      /\ at' = Min({p \in 1..Len(text) + 1 : PeekChar(text, p) \notin Whitespace})
  BY DEF Begin
<1>2. at' \in 1..Len(text) + 1
  <2> DEFINE S == {p \in 1..Len(text) + 1 : PeekChar(text, p) \notin Whitespace}
  <2>1. Len(text) \in Nat
    OBVIOUS
  <2>2. PeekChar(text, Len(text) + 1) \notin Whitespace
    <3>1. PeekChar(text, Len(text) + 1) = STREAM_EMPTY
      BY <2>1 DEF PeekChar
    <3>2. STREAM_EMPTY \notin Whitespace
      <4>1. Ch["\n"] # STREAM_EMPTY /\ Ch["\r"] # STREAM_EMPTY /\ Ch["\t"] # STREAM_EMPTY
        BY CharsAre DEF STREAM_EMPTY
      <4> QED
        BY <4>1, BlankIs, Zenon DEF Whitespace
    <3> QED
      BY <3>1, <3>2
  <2>3. S \in SUBSET Nat /\ Len(text) + 1 \in S
    BY <2>1, <2>2
  <2>4. S # {}
    BY <2>3
  <2>5. Min(S) \in S
    BY <2>3, <2>4, MinIs
  <2> HIDE DEF S
  <2>6. at' = Min(S)
    BY <1>1 DEF S
  <2> QED
    BY <2>5, <2>6 DEF S
<1>3. ReaderOK'
  BY <1>1, <1>2 DEF Data, ReaderOK
<1>4. ValuesOK(heap)'
  BY <1>1 DEF Data, ValuesOK
<1>5. WritingOK'
  <2>1. DOMAIN writers' = {}
    BY DEF writerVars
  <2> QED
    BY <2>1 DEF Data, WritingOK, writerVars
<1>6. PhaseOK'
  BY DEF Data, PhaseOK
<1> QED
  BY <1>1, <1>3, <1>4, <1>5, <1>6 DEF Data

LEMMA ReadOwnData == ASSUME IInv, Data, ReadOwn PROVE Data'
<1> DEFINE text == output \o Follow
<1>1. /\ phase = "write" /\ Written /\ phase' = "read" /\ UNCHANGED <<writerVars, work, made, source, root, dest>>
      /\ \E delivered \in IF failed = <<>> THEN Delivered(text) ELSE {text} : Begin(delivered)
  BY DEF ReadOwn
<1>2. text \in Seq(Char)
  BY TextAssumption, Joining DEF Data, WritingOK
<1> HIDE DEF text
<1>3. PICK delivered \in Delivered(text) \cup {text} : Begin(delivered)
  BY <1>1
<1>4. delivered \in Seq(Char)
  <2>1. ASSUME NEW n \in 0..Len(text) PROVE SubSeq(text, 1, n) \in Seq(Char)
    <3>1. n \in Int /\ 1 - 1 <= n /\ n <= Len(text)
      OBVIOUS
    <3> QED
      BY <1>2, <3>1, PartIs
  <2> QED
    BY <1>2, <2>1 DEF Delivered
<1>5. writers = <<>> /\ pending = None /\ source' \in Foreign \cup {Own}
  BY <1>1 DEF Data, WritingOK, Written, PhaseOK
<1> QED
  BY <1>1, <1>3, <1>4, <1>5, BeginData

LEMMA ReadForeignData == ASSUME IInv, Data, ReadForeign PROVE Data'
<1>1. phase = "build" /\ phase' = "read" /\ UNCHANGED <<writerVars, work, made, root, dest>>
  BY DEF ReadForeign
<1>2. PICK tokens \in Foreign : Begin(Spelled(tokens)) /\ source' = tokens
  BY DEF ReadForeign
<1>3. Spelled(tokens) \in Seq(Char)
  BY SpelledIs
<1>4. writers = <<>> /\ pending = None
  BY <1>1 DEF Data, WritingOK
<1> QED
  BY <1>1, <1>2, <1>3, <1>4, BeginData

LEMMA EndReadingData == ASSUME IInv, Data, EndReading PROVE Data'
<1>1. /\ phase = "read" /\ Parsed /\ phase' = "delete" /\ dest' = ret.json /\ input' = <<>> /\ at' = 1
      /\ mode' = "idle" /\ ret' = [ps |-> "SUCCESS", json |-> None] /\ output' = <<>> /\ spaced' = FALSE
      /\ status' = "none" /\ failed' = <<>> /\ source' = Own
      /\ UNCHANGED <<heap, lost, calls, writers, pending, work, made, root>>
  BY DEF EndReading
<1>2. dest' # None => JsonAt(heap, dest')
  <2>1. CASE ret.ps = "SUCCESS"
    BY <1>1, <2>1 DEF Parsed, Data, ValuesOK
  <2>2. CASE ret.ps # "SUCCESS"
    BY <1>1, <2>2 DEF Parsed, IInv, ModeOK
  <2> QED
    BY <2>1, <2>2
<1>3. ValuesOK(heap)'
  BY <1>1, <1>2 DEF Data, ValuesOK
<1>4. ReaderOK'
  <2>1. <<>> \in Seq(Char) /\ Len(<<>>) = 0
    OBVIOUS
  <2> QED
    BY <1>1, <2>1 DEF ReaderOK, RetType
<1>5. WritingOK'
  <2>1. <<>> \in Seq(Char) /\ <<>> \in Seq(Nat)
    OBVIOUS
  <2>2. writers = <<>> /\ pending = None
    BY <1>1 DEF Data, WritingOK
  <2>3. DOMAIN writers' = {}
    BY <1>1, <2>2
  <2> QED
    BY <1>1, <2>1, <2>2, <2>3 DEF Data, WritingOK
<1>6. PhaseOK'
  BY <1>1 DEF Data, PhaseOK
<1> QED
  BY <1>1, <1>3, <1>4, <1>5, <1>6 DEF Data

LEMMA DeleteData == ASSUME IInv, Alive', Data, Delete PROVE Data'
<1>1. /\ phase = "delete" /\ UNCHANGED <<lost, parserVars, writerVars, work, made, phase, source>>
      /\ \/ heap' = DeleteJson(heap, root) /\ root' = None /\ UNCHANGED dest
         \/ heap' = DeleteJson(heap, dest) /\ dest' = None /\ UNCHANGED root
  BY DEF Delete
<1>2. \A a \in Addr : heap'[a] = Free \/ heap'[a] = heap[a]
  BY <1>1, DeletedAre DEF IInv, Sound
<1>3. Typed(heap') /\ \A v : JsonAt(heap, v) /\ (v # NULL_JSON => heap'[v] # Free) => JsonAt(heap', v)
  BY <1>2, FreedTyped DEF Data, Alive
<1>4. ValuesOK(heap)'
  <2>1. /\ \A i \in DOMAIN work : JsonAt(heap, work[i])
        /\ root # None => JsonAt(heap, root)
        /\ dest # None => JsonAt(heap, dest)
    BY DEF Data, ValuesOK
  <2>2. /\ work' = work /\ root' \in {root, None} /\ dest' \in {dest, None}
        /\ \A i \in DOMAIN work : work[i] # NULL_JSON => heap'[work[i]] # Free
        /\ root' \in Addr => heap'[root'] # Free
        /\ dest' \in Addr => heap'[dest'] # Free
    BY <1>1 DEF Alive
  <2>3. mode' = "idle"
    BY <1>1 DEF IInv, ProgramOK, parserVars
  <2>4. \A v : JsonAt(heap, v) /\ v # NULL_JSON => v \in Addr
    BY DEF JsonAt
  <2> QED
    BY <1>3, <2>1, <2>2, <2>3, <2>4 DEF ValuesOK
<1>5. ReaderOK' /\ PhaseOK'
  BY <1>1 DEF Data, ReaderOK, PhaseOK, parserVars
<1>6. WritingOK'
  BY <1>1, Resting DEF Data
<1> QED
  BY <1>3, <1>4, <1>5, <1>6 DEF Data

LEMMA WritingData == ASSUME IInv, Data, Writing PROVE Data'
<1>1. WritingOK' /\ UNCHANGED <<heap, lost, parserVars, work, made, phase, source, root, dest>>
  BY WritingKeepsData DEF Data, IInv, Sound
<1> QED
  BY <1>1 DEF Data, ReaderOK, ValuesOK, PhaseOK, parserVars

LEMMA StutterData == ASSUME Data, UNCHANGED vars PROVE Data'
  BY DEF Data, ReaderOK, ValuesOK, WritingOK, PhaseOK, vars, parserVars, writerVars

LEMMA DataFirst == ASSUME Init PROVE Data
<1>1. /\ heap = [a \in Addr |-> Free] /\ input = <<>> /\ at = 1 /\ mode = "idle"
      /\ ret = [ps |-> "SUCCESS", json |-> None] /\ output = <<>> /\ writers = <<>> /\ pending = None
      /\ spaced = FALSE /\ status = "none" /\ failed = <<>> /\ work = <<>> /\ made = 0 /\ phase = "build"
      /\ source = Own /\ root = None /\ dest = None
  BY DEF Init, HeapInit, ParserInit, WriterInit
<1>2. <<>> \in Seq(Char) /\ <<>> \in Seq(Nat) /\ <<>> \in Writers /\ Len(<<>>) = 0 /\ DOMAIN <<>> = {}
  BY DEF Writers
<1>3. Typed(heap)
  BY <1>1, NoKeys DEF Typed
<1>4. ReaderOK
  BY <1>1, <1>2 DEF ReaderOK, RetType
<1>5. ValuesOK(heap)
  BY <1>1, <1>2 DEF ValuesOK
<1>6. WritingOK
  BY <1>1, <1>2 DEF WritingOK, Writers
<1>7. PhaseOK
  BY <1>1, TextAssumption DEF PhaseOK
<1> QED
  BY <1>3, <1>4, <1>5, <1>6, <1>7 DEF Data

\* Every step of the program keeps the types.
LEMMA DataStep == ASSUME IInv, Alive', Data, [Next]_vars PROVE Data'
<1>1. CASE NewJsonString
  BY <1>1, NewJsonStringData
<1>2. CASE NewJson
  BY <1>2, NewJsonData
<1>3. CASE NewJsonNull
  BY <1>3, NewJsonNullData
<1>4. CASE PushWork
  BY <1>4, PushWorkData
<1>5. CASE PutWork
  BY <1>5, PutWorkData
<1>6. CASE Write
  BY <1>6, WriteData
<1>7. CASE Writing
  BY <1>7, WritingData
<1>8. CASE ReadOwn
  BY <1>8, ReadOwnData
<1>9. CASE ReadForeign
  BY <1>9, ReadForeignData
<1>10. CASE Reading
  BY <1>10, ReadingData
<1>11. CASE EndReading
  BY <1>11, EndReadingData
<1>12. CASE Delete
  BY <1>12, DeleteData
<1>13. CASE Finished \/ UNCHANGED vars
  BY <1>13, StutterData DEF Finished
<1> QED
  BY <1>1, <1>2, <1>3, <1>4, <1>5, <1>6, <1>7, <1>8, <1>9, <1>10, <1>11, <1>12, <1>13 DEF Next

LEMMA AliveNext == IInv' => Alive'
<1>1. IInv => Alive
  BY AllAlive
<1> QED
  BY <1>1, PTL

\* What a block holds is always of the type that the code reads there, and what the
\* program, the parser and the writer hold as a json_t is one, whatever the texts are.
THEOREM DataHolds == Spec => []Data
<1>1. Init => Data
  BY DataFirst
<1>2. IInv /\ IInv' /\ Data /\ [Next]_vars => Data'
  BY AliveNext, DataStep
<1> QED
  BY <1>1, <1>2, IInvHolds, PTL DEF Spec

\* With the owners, that is the type invariant of the four modules.
LEMMA TypesAre == IInv /\ Data => TypeOK
<1> SUFFICES ASSUME IInv, Data PROVE TypeOK
  OBVIOUS
<1>1. HeapTypeOK
  <2>1. Shaped(heap) /\ Typed(heap) /\ lost \subseteq Addr
    BY DEF IInv, Sound, ProgramOK, Data
  <2>2. DOMAIN heap = Addr
    BY <2>1 DEF Shaped
  <2>3. ASSUME NEW a \in Addr
        PROVE  /\ heap[a].type \in JsonType \cup {"string", "free"}
               /\ \A i \in DOMAIN heap[a].keys : heap[a].keys[i] \in Addr
               /\ \A i \in DOMAIN heap[a].kids : heap[a].kids[i] \in Addr \cup {NULL_JSON}
               /\ heap[a].type = "string" => heap[a].val \in Seq(Char)
               /\ heap[a].type = "OBJECT" => Len(heap[a].keys) = Len(heap[a].kids)
    <3>1. ShapeOf(heap[a]) /\ BlockTyped(heap, heap[a])
      BY <2>1 DEF Shaped, Typed
    <3>2. heap[a].type \in Types /\ heap[a].keys \in Seq(Addr) /\ heap[a].kids \in Seq(Ptr)
      BY <3>1 DEF ShapeOf
    <3> QED
      BY <3>1, <3>2 DEF ShapeOf, BlockTyped, Types, Ptr
  <2> QED
    BY <2>1, <2>2, <2>3 DEF HeapTypeOK
<1>2. ParserTypeOK
  <2>1. calls \in Seq([fn : {"object", "list", "pair"}, own : Addr])
    BY DEF IInv, CallsFit, Frame
  <2>2. mode \in {"idle", "value", "pair", "next", "return"}
    BY DEF IInv, ModeOK
  <2>3. ret \in [ps : {"SUCCESS", "SYNTAX_ERROR"}, json : Addr \cup {NULL_JSON, None}]
    <3>1. Ptr \cup {None} = Addr \cup {NULL_JSON, None}
      BY DEF Ptr
    <3> QED
      BY <3>1 DEF Data, ReaderOK, RetType
  <2> QED
    BY <2>1, <2>2, <2>3 DEF ParserTypeOK, Data, ReaderOK
<1>3. WriterTypeOK
  <2>1. pending \in Addr \cup {NULL_JSON, None}
    BY DEF Data, WritingOK, JsonAt
  <2> QED
    BY <2>1 DEF WriterTypeOK, Data, WritingOK
<1>4. work \in Seq(Addr \cup {NULL_JSON}) /\ {root, dest} \subseteq Addr \cup {NULL_JSON, None}
  BY DEF IInv, ProgramOK, Ptr
<1> QED
  BY <1>1, <1>2, <1>3, <1>4 DEF TypeOK, Data, PhaseOK

\* The type invariant of the four modules holds.
THEOREM JsonTypeOK == Spec => []TypeOK
  BY IInvHolds, DataHolds, TypesAre, PTL

LEMMA RankIs == IInv /\ Data => Rank \in Triples
<1> SUFFICES ASSUME IInv, Data PROVE Rank \in Triples
  OBVIOUS
<1>1. Len(input) + 1 - at \in Nat
  <2>1. input \in Seq(Char) /\ at \in 1..Len(input) + 1
    BY DEF Data, ReaderOK
  <2>2. Len(input) \in Nat
    BY <2>1
  <2> QED
    BY <2>1, <2>2
<1>2. ModeRank \in Nat
  BY DEF ModeRank
<1>3. Len(calls) \in Nat
  BY DEF IInv, CallsFit
<1> QED
  BY <1>1, <1>2, <1>3 DEF Rank, Triples

LEMMA RankNext == IInv' /\ Data' => (Rank \in Triples)'
<1>1. IInv /\ Data => Rank \in Triples
  BY RankIs
<1> QED
  BY <1>1, PTL

\* Each step of json_from_in_stream lowers its rank, so that none of its loops and
\* recursions goes on for ever, whatever the text: it takes characters from the stream,
\* or comes closer to its return without.
THEOREM ParserAdvances == Spec => [][Advances]_vars
<1>1. IInv /\ IInv' /\ Data /\ Data' /\ [Next]_vars => [Advances]_vars
  <2> SUFFICES ASSUME IInv, IInv', Data, Data', Reading
               PROVE  Rank' \in Triples /\ LexLess(Rank', Rank)
    BY DEF Advances
  <2>1. Alive'
    BY AliveNext
  <2>2. LexLess(Rank', Rank)
    BY <2>1, ReadingData
  <2>3. Rank' \in Triples
    BY RankNext
  <2> QED
    BY <2>2, <2>3
<1> QED
  BY <1>1, IInvHolds, DataHolds, PTL DEF Spec

=============================================================================
