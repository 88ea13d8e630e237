---------------------------- MODULE HashMapProofs ----------------------------
(***************************************************************************)
(* Proofs about the hash map of chutil/src/map.c, for any keys, any hash   *)
(* function and any first capacity: through any run of puts, removals and  *)
(* resizes every node is in the chain its hash says, once; the table is    *)
(* never more than half full; and the caller sees a map.                   *)
(***************************************************************************)
EXTENDS HashMap, TLAPS, FiniteSetTheorems, WellFoundedInduction

Table(n) == [0..(n - 1) -> Seq(Node)]

\* Every node is in the chain its hash says, and none has the key of another.
Good(T, n) ==
    /\ n \in Nat \ {0}
    /\ T \in Table(n)
    /\ \A c \in 0..(n - 1) : \A i \in 1..Len(T[c]) : Slot(T[c][i].key, n) = c
    /\ \A c \in 0..(n - 1) : \A i, j \in 1..Len(T[c]) : T[c][i].key = T[c][j].key => i = j

\* Where a lookup finds a key, or a node.
HasKey(k, T, n) == \E i \in 1..Len(T[Slot(k, n)]) : T[Slot(k, n)][i].key = k
In(x, T, n) == \E i \in 1..Len(T[Slot(x.key, n)]) : T[Slot(x.key, n)][i] = x

LEMMA SlotIn == ASSUME NEW k \in Key, NEW n \in Nat \ {0} PROVE Slot(k, n) \in 0..(n - 1)
<1>1. Hash[k] \in Nat
  BY HashMapAssumption
<1> QED
  BY <1>1 DEF Slot

LEMMA NodeKey == ASSUME NEW x \in Node PROVE x.key \in Key /\ x.val \in Value
  BY DEF Node

\* The nodes tell the keys.
LEMMA KeyIn ==
    ASSUME NEW T, NEW n, Good(T, n), NEW k \in Key
    PROVE  HasKey(k, T, n) <=> \E x \in Node : x.key = k /\ In(x, T, n)
<1>1. Slot(k, n) \in 0..(n - 1) /\ T[Slot(k, n)] \in Seq(Node)
  BY SlotIn DEF Good, Table
<1>2. ASSUME HasKey(k, T, n) PROVE \E x \in Node : x.key = k /\ In(x, T, n)
  <2>1. PICK i \in 1..Len(T[Slot(k, n)]) : T[Slot(k, n)][i].key = k
    BY <1>2 DEF HasKey
  <2>2. T[Slot(k, n)][i] \in Node
    BY <1>1
  <2> QED
    BY <2>1, <2>2 DEF In
<1>3. ASSUME NEW x \in Node, x.key = k, In(x, T, n) PROVE HasKey(k, T, n)
  BY <1>3 DEF In, HasKey
<1> QED
  BY <1>2, <1>3

LEMMA OneOfKey ==
    ASSUME NEW T, NEW n, Good(T, n), NEW x \in Node, NEW y \in Node,
           In(x, T, n), In(y, T, n), x.key = y.key
    PROVE  x = y
<1>1. Slot(x.key, n) \in 0..(n - 1)
  BY SlotIn, NodeKey DEF Good
<1>2. PICK i \in 1..Len(T[Slot(x.key, n)]) : T[Slot(x.key, n)][i] = x
  BY DEF In
<1>3. PICK j \in 1..Len(T[Slot(x.key, n)]) : T[Slot(x.key, n)][j] = y
  BY DEF In
<1>4. i = j
  BY <1>1, <1>2, <1>3 DEF Good
<1> QED
  BY <1>2, <1>3, <1>4

\* A sequence with an element put in front.
LEMMA InFront ==
    ASSUME NEW S, NEW x \in S, NEW t \in Seq(S)
    PROVE  LET s == <<x>> \o t
           IN /\ s \in Seq(S) /\ Len(s) = Len(t) + 1 /\ Len(t) \in Nat /\ 1 \in 1..Len(s)
              /\ s[1] = x
              /\ \A i \in 1..Len(s) : i = 1 \/ (i - 1 \in 1..Len(t) /\ s[i] = t[i - 1])
              /\ \A i \in 1..Len(t) : i + 1 \in 1..Len(s) /\ s[i + 1] = t[i]
<1> DEFINE s == <<x>> \o t
<1>1. s \in Seq(S) /\ Len(s) = Len(t) + 1 /\ Len(t) \in Nat
  OBVIOUS
<1>2. s[1] = x /\ 1 \in 1..Len(s)
  OBVIOUS
<1>3. ASSUME NEW i \in 1..Len(s), i # 1 PROVE i - 1 \in 1..Len(t) /\ s[i] = t[i - 1]
  BY <1>3
<1>4. ASSUME NEW i \in 1..Len(t) PROVE i + 1 \in 1..Len(s) /\ s[i + 1] = t[i]
  <2>1. i + 1 \in 1..Len(s) /\ i + 1 # 1 /\ (i + 1) - 1 = i
    BY <1>1
  <2>2. \A k \in 1..Len(s) : k - 1 = i => s[k] = t[i]
    BY <1>3
  <2> QED
    BY <2>1, <2>2
<1> HIDE DEF s
<1>5. \A i \in 1..Len(s) : i = 1 \/ (i - 1 \in 1..Len(t) /\ s[i] = t[i - 1])
  BY <1>3
<1>6. \A i \in 1..Len(t) : i + 1 \in 1..Len(s) /\ s[i + 1] = t[i]
  BY <1>4
<1> QED
  BY <1>1, <1>2, <1>5, <1>6, Zenon DEF s

\* A new node at the head of its chain leaves the table in order.
LEMMA AtHeadGood ==
    ASSUME NEW T, NEW n, Good(T, n), NEW x \in Node, ~ HasKey(x.key, T, n)
    PROVE  /\ Good(AtHead(T, n, x), n)
           /\ \A y \in Node : In(y, AtHead(T, n, x), n) <=> In(y, T, n) \/ y = x
<1> DEFINE c == Slot(x.key, n)  t == T[c]  s == <<x>> \o t  U == [T EXCEPT ![c] = s]
<1>1. c \in 0..(n - 1) /\ t \in Seq(Node)
  BY SlotIn, NodeKey DEF Good, Table
<1>2. /\ \A p \in 1..Len(t) : Slot(t[p].key, n) = c /\ t[p].key # x.key
      /\ \A p, q \in 1..Len(t) : t[p].key = t[q].key => p = q
  BY <1>1 DEF Good, HasKey
<1> HIDE DEF t
<1>3. /\ s \in Seq(Node) /\ Len(s) = Len(t) + 1 /\ Len(t) \in Nat /\ 1 \in 1..Len(s)
      /\ s[1] = x
      /\ \A i \in 1..Len(s) : i = 1 \/ (i - 1 \in 1..Len(t) /\ s[i] = t[i - 1])
      /\ \A i \in 1..Len(t) : i + 1 \in 1..Len(s) /\ s[i + 1] = t[i]
  BY <1>1, InFront
<1>4. AtHead(T, n, x) = U
  BY DEF AtHead, t
<1> HIDE DEF s
<1>5. U \in Table(n) /\ U[c] = s /\ \A d \in 0..(n - 1) : d # c => U[d] = T[d]
  BY <1>1, <1>3 DEF Good, Table
<1> HIDE DEF U
<1>6. ASSUME NEW i \in 1..Len(s) PROVE Slot(s[i].key, n) = c
  <2>1. CASE i = 1
    BY <1>3, <2>1 DEF c
  <2>2. CASE i - 1 \in 1..Len(t) /\ s[i] = t[i - 1]
    BY <1>2, <2>2
  <2> QED
    BY <1>3, <2>1, <2>2
<1>7. ASSUME NEW i \in 1..Len(s), NEW j \in 1..Len(s), s[i].key = s[j].key PROVE i = j
  <2>1. \A k \in 1..Len(s) : s[k].key = x.key => k = 1
    BY <1>2, <1>3
  <2>2. CASE i = 1 \/ j = 1
    BY <1>3, <1>7, <2>1, <2>2
  <2>3. CASE i # 1 /\ j # 1
    <3>1. /\ i - 1 \in 1..Len(t) /\ j - 1 \in 1..Len(t)
          /\ s[i] = t[i - 1] /\ s[j] = t[j - 1]
      BY <1>3, <2>3
    <3>2. i - 1 = j - 1
      BY <1>2, <1>7, <3>1
    <3> QED
      BY <1>3, <3>2
  <2> QED
    BY <2>2, <2>3
<1>8. ASSUME NEW y
      PROVE  (\E i \in 1..Len(s) : s[i] = y) <=> (\E i \in 1..Len(t) : t[i] = y) \/ y = x
  <2>1. ASSUME NEW i \in 1..Len(s), s[i] = y PROVE (\E k \in 1..Len(t) : t[k] = y) \/ y = x
    BY <1>3, <2>1
  <2>2. ASSUME NEW i \in 1..Len(t), t[i] = y PROVE \E k \in 1..Len(s) : s[k] = y
    <3>1. i + 1 \in 1..Len(s) /\ s[i + 1] = y
      BY <1>3, <2>2
    <3> QED
      BY <3>1
  <2>3. y = x => \E k \in 1..Len(s) : s[k] = y
    BY <1>3
  <2> QED
    BY <2>1, <2>2, <2>3
<1>9. Good(U, n)
  BY <1>5, <1>6, <1>7 DEF Good
<1>10. ASSUME NEW y \in Node PROVE In(y, U, n) <=> In(y, T, n) \/ y = x
  <2>1. Slot(y.key, n) \in 0..(n - 1)
    BY SlotIn, NodeKey DEF Good
  <2>2. CASE Slot(y.key, n) # c
    BY <1>5, <2>1, <2>2 DEF In, c
  <2>3. CASE Slot(y.key, n) = c
    <3>1. In(y, U, n) <=> \E i \in 1..Len(s) : s[i] = y
      BY <1>5, <2>3 DEF In
    <3>2. In(y, T, n) <=> \E i \in 1..Len(t) : t[i] = y
      BY <2>3 DEF In, t
    <3> QED
      BY <1>8, <3>1, <3>2
  <2> QED
    BY <2>2, <2>3
<1> QED
  BY <1>4, <1>9, <1>10

----------------------------------------------------------------------------
(* Loops: what is computed in n steps, each from the last.                 *)

\* A set of naturals has a least one: the form in which induction is used here.
LEMMA Minimal ==
    ASSUME NEW S \in SUBSET Nat, S # {}
    PROVE  \E m \in S : \A n \in S : m <= n
<1> DEFINE R == OpToRel(<, Nat)
<1>1. PICK m \in S : \A n \in S : ~ (<<n, m>> \in R)
  BY NatLessThanWellFounded, WFMin
<1>2. \A n \in S : <<n, m>> \in R <=> n < m
  BY DEF OpToRel
<1> HIDE DEF R
<1>3. \A n \in S : ~ (n < m)
  BY <1>1, <1>2, Zenon
<1> QED
  BY <1>3

\* The values of a loop that begins with a and in whose turn i the body makes
\* body[i, d] of d.
Turns(g, n, a, body) == g[0] = a /\ \A i \in 1..n : g[i] = body[<<i, g[i - 1]>>]

LEMMA LoopRuns ==
    ASSUME NEW n \in Nat, NEW D, NEW a \in D, NEW body \in [(1..n) \X D -> D]
    PROVE  \E g \in [0..n -> D] : Turns(g, n, a, body)
<1> DEFINE bad == {k \in 0..n : ~ \E g \in [0..k -> D] : Turns(g, k, a, body)}
<1>1. SUFFICES ASSUME bad # {} PROVE FALSE
  OBVIOUS
<1>2. PICK m \in bad : \A k \in bad : m <= k
  <2>1. bad \in SUBSET Nat
    OBVIOUS
  <2> HIDE DEF bad
  <2> QED
    BY <1>1, <2>1, Minimal
<1>3. m # 0
  <2>1. [i \in 0..0 |-> a] \in [0..0 -> D] /\ Turns([i \in 0..0 |-> a], 0, a, body)
    BY DEF Turns
  <2> QED
    BY <2>1
<1>4. PICK g \in [0..(m - 1) -> D] : Turns(g, m - 1, a, body)
  <2>1. m - 1 \in 0..n /\ ~ (m <= m - 1)
    BY <1>3
  <2> QED
    BY <1>2, <2>1
<1> DEFINE h == [i \in 0..m |-> IF i = m THEN body[<<m, g[m - 1]>>] ELSE g[i]]
<1>5. m \in 1..n /\ m - 1 \in 0..(m - 1) /\ g[m - 1] \in D
  BY <1>3
<1>6. body[<<m, g[m - 1]>>] \in D
  BY <1>5
<1>7. h \in [0..m -> D]
  BY <1>6
<1>8. Turns(h, m, a, body)
  <2>1. h[0] = a
    BY <1>3, <1>4 DEF Turns
  <2>2. ASSUME NEW i \in 1..m PROVE h[i] = body[<<i, h[i - 1]>>]
    <3>1. i - 1 \in 0..m /\ i - 1 # m /\ h[i - 1] = g[i - 1]
      OBVIOUS
    <3>2. CASE i = m
      BY <3>1, <3>2
    <3>3. CASE i # m
      <4>1. i \in 1..(m - 1) /\ h[i] = g[i]
        BY <3>3
      <4>2. g[i] = body[<<i, g[i - 1]>>]
        BY <1>4, <4>1 DEF Turns
      <4> QED
        BY <3>1, <4>1, <4>2
    <3> QED
      BY <3>2, <3>3
  <2> HIDE DEF h
  <2> QED
    BY <2>1, <2>2 DEF Turns
<1> QED
  BY <1>7, <1>8

Follows(h, n, a, body, D) ==
    h[0] = a /\ \A i \in 1..n : h[i - 1] \in D => h[i] = body[<<i, h[i - 1]>>]

\* There is one such loop: whatever takes these steps ends where it does.
LEMMA LoopUnique ==
    ASSUME NEW n \in Nat, NEW D, NEW a, NEW body, NEW g \in [0..n -> D], NEW h,
           Turns(g, n, a, body), Follows(h, n, a, body, D)
    PROVE  h[n] = g[n]
<1> DEFINE bad == {k \in 0..n : g[k] # h[k]}
<1>1. SUFFICES ASSUME bad # {} PROVE FALSE
  OBVIOUS
<1>2. PICK m \in bad : \A k \in bad : m <= k
  <2>1. bad \in SUBSET Nat
    OBVIOUS
  <2> HIDE DEF bad
  <2> QED
    BY <1>1, <2>1, Minimal
<1>3. m # 0
  BY DEF Turns, Follows
<1>4. m - 1 \in 0..n /\ m - 1 \notin bad /\ m \in 1..n
  BY <1>2, <1>3
<1>5. g[m - 1] = h[m - 1] /\ h[m - 1] \in D
  BY <1>4
<1>6. g[m] = body[<<m, g[m - 1]>>] /\ h[m] = body[<<m, h[m - 1]>>]
  BY <1>4, <1>5 DEF Turns, Follows
<1> QED
  BY <1>5, <1>6

----------------------------------------------------------------------------
(* A resize: hm_check_resize keeps every node, and puts each where its     *)
(* hash says in the longer table.                                          *)

LEMMA AtHeadType ==
    ASSUME NEW n \in Nat \ {0}, NEW T \in Table(n), NEW x \in Node
    PROVE  AtHead(T, n, x) \in Table(n)
  BY SlotIn, NodeKey, InFront DEF AtHead, Table

LEMMA MovedSteps ==
    ASSUME NEW n \in Nat \ {0}, NEW T \in Table(n), NEW chain \in Seq(Node)
    PROVE  \E g \in [0..Len(chain) -> Table(n)] :
              /\ g[0] = T
              /\ \A j \in 1..Len(chain) : g[j] = AtHead(g[j - 1], n, chain[j])
              /\ Moved(T, n, chain) = g[Len(chain)]
<1> DEFINE N == Len(chain)  D == Table(n)
           body == [p \in (1..N) \X D |-> AtHead(p[2], n, chain[p[1]])]
           Body(f) == [j \in 0..N |-> IF j = 0 THEN T ELSE AtHead(f[j - 1], n, chain[j])]
           after == CHOOSE f : f = Body(f)
<1>1. N \in Nat
  OBVIOUS
<1>2. \A i \in 1..N, d \in D : AtHead(d, n, chain[i]) \in D
  BY AtHeadType
<1> HIDE DEF D
<1>3. body \in [(1..N) \X D -> D] /\ \A i \in 1..N, d \in D : body[<<i, d>>] = AtHead(d, n, chain[i])
  BY <1>2
<1>4. T \in D
  BY DEF D
<1> HIDE DEF body, N
<1>5. PICK g \in [0..N -> D] : Turns(g, N, T, body)
  BY <1>1, <1>3, <1>4, LoopRuns
<1>6. g[0] = T /\ \A j \in 1..N : g[j] = AtHead(g[j - 1], n, chain[j])
  <2>1. ASSUME NEW j \in 1..N PROVE g[j] = AtHead(g[j - 1], n, chain[j])
    <3>1. j - 1 \in 0..N
      BY <1>1
    <3> QED
      BY <1>3, <1>5, <3>1 DEF Turns
  <2> QED
    BY <1>5, <2>1 DEF Turns
<1>7. g = Body(g)
  <2>1. ASSUME NEW j \in 0..N
        PROVE  g[j] = IF j = 0 THEN T ELSE AtHead(g[j - 1], n, chain[j])
    BY <1>1, <1>6
  <2> QED
    BY <2>1
<1> HIDE DEF Body
<1>8. after = Body(after)
  BY <1>7, Zenon
<1>9. Moved(T, n, chain) = after[N]
  BY Zenon DEF Moved, after, Body, N
<1> HIDE DEF after
<1>10. after[0] = T /\ \A j \in 1..N : after[j] = AtHead(after[j - 1], n, chain[j])
  <2>1. \A j \in 0..N : after[j] = IF j = 0 THEN T ELSE AtHead(after[j - 1], n, chain[j])
    BY <1>8 DEF Body
  <2> QED
    BY <1>1, <2>1
<1>11. g[N] = after[N]
  <2>1. Follows(after, N, T, body, D)
    BY <1>3, <1>10 DEF Follows
  <2>2. after[N] = g[N]
    BY <1>1, <1>5, <2>1, LoopUnique
  <2> QED
    BY <2>2
<1> QED
  BY <1>5, <1>6, <1>9, <1>11 DEF D, N

\* The nodes of a chain whose keys are new to the table are added to it.
LEMMA MovedGood ==
    ASSUME NEW T, NEW n, Good(T, n), NEW chain \in Seq(Node),
           \A i, j \in 1..Len(chain) : chain[i].key = chain[j].key => i = j,
           \A i \in 1..Len(chain) : ~ HasKey(chain[i].key, T, n)
    PROVE  /\ Good(Moved(T, n, chain), n)
           /\ \A y \in Node : In(y, Moved(T, n, chain), n)
                                 <=> In(y, T, n) \/ \E i \in 1..Len(chain) : chain[i] = y
<1> DEFINE N == Len(chain)
<1>1. n \in Nat \ {0} /\ T \in Table(n) /\ N \in Nat
  BY DEF Good
<1>2. PICK g : /\ g[0] = T
               /\ \A j \in 1..N : g[j] = AtHead(g[j - 1], n, chain[j])
               /\ Moved(T, n, chain) = g[N]
  BY <1>1, MovedSteps
<1> DEFINE Added(k) == /\ Good(g[k], n)
                       /\ \A y \in Node : In(y, g[k], n)
                                            <=> In(y, T, n) \/ \E i \in 1..k : chain[i] = y
           bad == {k \in 0..N : ~ Added(k)}
<1>3. Added(0)
  BY <1>2
<1>4. ASSUME NEW k \in 1..N, Added(k - 1) PROVE Added(k)
  <2>1. chain[k] \in Node /\ chain[k].key \in Key /\ g[k] = AtHead(g[k - 1], n, chain[k])
    BY <1>2, NodeKey
  <2>2. ~ HasKey(chain[k].key, g[k - 1], n)
    <3>1. ASSUME NEW x \in Node, x.key = chain[k].key, In(x, g[k - 1], n) PROVE FALSE
      <4>1. CASE In(x, T, n)
        BY <1>1, <2>1, <3>1, <4>1, KeyIn
      <4>2. CASE \E i \in 1..(k - 1) : chain[i] = x
        <5>1. PICK i \in 1..(k - 1) : chain[i] = x
          BY <4>2
        <5>2. i \in 1..N /\ k \in 1..N /\ i # k
          BY <1>1
        <5> QED
          BY <3>1, <5>1, <5>2
      <4> QED
        BY <1>4, <3>1, <4>1, <4>2
    <3> QED
      BY <1>4, <2>1, <3>1, KeyIn
  <2>3. /\ Good(g[k], n)
        /\ \A y \in Node : In(y, g[k], n) <=> In(y, g[k - 1], n) \/ y = chain[k]
    BY <1>4, <2>1, <2>2, AtHeadGood
  <2>4. ASSUME NEW y
        PROVE  (\E i \in 1..k : chain[i] = y)
                  <=> (\E i \in 1..(k - 1) : chain[i] = y) \/ y = chain[k]
    <3>1. \A i \in 1..k : i = k \/ i \in 1..(k - 1)
      OBVIOUS
    <3>2. k \in 1..k /\ \A i \in 1..(k - 1) : i \in 1..k
      OBVIOUS
    <3> QED
      BY <3>1, <3>2
  <2> QED
    BY <1>4, <2>3, <2>4
<1>5. ASSUME bad # {} PROVE FALSE
  <2>1. PICK m \in bad : \A k \in bad : m <= k
    <3>1. bad \in SUBSET Nat
      BY <1>1
    <3> HIDE DEF bad
    <3> QED
      BY <1>5, <3>1, Minimal
  <2>2. m \in 0..N /\ ~ Added(m)
    OBVIOUS
  <2> HIDE DEF Added
  <2>3. m \in 1..N
    BY <1>1, <1>3, <2>2
  <2>4. m - 1 \in 0..N /\ m - 1 \notin bad
    BY <1>1, <2>1, <2>3
  <2> QED
    BY <1>4, <2>2, <2>3, <2>4
<1>6. Added(N)
  <2>1. N \in 0..N
    BY <1>1
  <2> HIDE DEF Added
  <2> QED
    BY <1>5, <2>1
<1> QED
  BY <1>2, <1>6

LEMMA MovedType ==
    ASSUME NEW n \in Nat \ {0}, NEW T \in Table(n), NEW chain \in Seq(Node)
    PROVE  Moved(T, n, chain) \in Table(n)
<1>1. PICK g \in [0..Len(chain) -> Table(n)] : Moved(T, n, chain) = g[Len(chain)]
  BY MovedSteps
<1> QED
  BY <1>1

Empty(n) == [c \in 0..(n - 1) |-> <<>>]

LEMMA EmptyGood ==
    ASSUME NEW n \in Nat \ {0}
    PROVE  Good(Empty(n), n) /\ \A y \in Node : ~ In(y, Empty(n), n)
<1> DEFINE none == <<>>
<1>1. none \in Seq(Node) /\ Len(none) = 0
  OBVIOUS
<1>2. Empty(n) = [c \in 0..(n - 1) |-> none]
  BY DEF Empty
<1> HIDE DEF none
<1>3. Empty(n) \in Table(n) /\ \A c \in 0..(n - 1) : Empty(n)[c] = none
  BY <1>1, <1>2 DEF Table
<1>4. ASSUME NEW y \in Node PROVE ~ In(y, Empty(n), n)
  <2>1. Slot(y.key, n) \in 0..(n - 1)
    BY SlotIn, NodeKey
  <2> QED
    BY <1>1, <1>3, <2>1 DEF In
<1> QED
  BY <1>1, <1>3, <1>4 DEF Good

LEMMA RehashSteps ==
    ASSUME NEW n \in Nat \ {0}, NEW T \in Table(n)
    PROVE  \E g \in [0..n -> Table(2 * n)] :
              /\ g[0] = Empty(2 * n)
              /\ \A i \in 1..n : g[i] = Moved(g[i - 1], 2 * n, T[i - 1])
              /\ Rehash(T, n) = g[n]
<1> DEFINE m == 2 * n  D == Table(m)  E == Empty(m)
           body == [p \in (1..n) \X D |-> Moved(p[2], m, T[p[1] - 1])]
           Body(f) == [i \in 0..n |-> IF i = 0 THEN E ELSE Moved(f[i - 1], m, T[i - 1])]
           after == CHOOSE f : f = Body(f)
<1>1. m \in Nat \ {0}
  OBVIOUS
<1>2. \A i \in 1..n : T[i - 1] \in Seq(Node)
  BY DEF Table
<1>3. Rehash(T, n) = after[n]
  BY Zenon DEF Rehash, after, Body, E, Empty, m
<1>4. E \in D
  BY <1>1, EmptyGood DEF Good
<1> HIDE DEF m, E
<1>5. \A i \in 1..n, d \in D : Moved(d, m, T[i - 1]) \in D
  BY <1>1, <1>2, MovedType
<1> HIDE DEF D
<1>6. body \in [(1..n) \X D -> D] /\ \A i \in 1..n, d \in D : body[<<i, d>>] = Moved(d, m, T[i - 1])
  BY <1>5
<1> HIDE DEF body
<1>7. PICK g \in [0..n -> D] : Turns(g, n, E, body)
  BY <1>4, <1>6, LoopRuns
<1>8. g[0] = E /\ \A i \in 1..n : g[i] = Moved(g[i - 1], m, T[i - 1])
  <2>1. ASSUME NEW i \in 1..n PROVE g[i] = Moved(g[i - 1], m, T[i - 1])
    <3>1. i - 1 \in 0..n
      OBVIOUS
    <3> QED
      BY <1>6, <1>7, <3>1 DEF Turns
  <2> QED
    BY <1>7, <2>1 DEF Turns
<1>9. g = Body(g)
  <2>1. ASSUME NEW i \in 0..n
        PROVE  g[i] = IF i = 0 THEN E ELSE Moved(g[i - 1], m, T[i - 1])
    BY <1>8
  <2> QED
    BY <2>1
<1> HIDE DEF Body
<1>10. after = Body(after)
  BY <1>9, Zenon
<1> HIDE DEF after
<1>11. Follows(after, n, E, body, D)
  <2>1. \A i \in 0..n : after[i] = IF i = 0 THEN E ELSE Moved(after[i - 1], m, T[i - 1])
    BY <1>10 DEF Body
  <2> QED
    BY <1>6, <2>1 DEF Follows
<1>12. after[n] = g[n]
  BY <1>7, <1>11, LoopUnique
<1> QED
  BY <1>3, <1>7, <1>8, <1>12 DEF D, E, m

\* A resize keeps every node, in a table of twice the size.
LEMMA RehashGood ==
    ASSUME NEW T, NEW n, Good(T, n)
    PROVE  /\ Good(Rehash(T, n), 2 * n)
           /\ \A y \in Node : In(y, Rehash(T, n), 2 * n) <=> In(y, T, n)
<1> DEFINE m == 2 * n
<1>1. n \in Nat \ {0} /\ T \in Table(n) /\ m \in Nat \ {0}
  BY DEF Good
<1>2. PICK g : /\ g[0] = Empty(m)
               /\ \A i \in 1..n : g[i] = Moved(g[i - 1], m, T[i - 1])
               /\ Rehash(T, n) = g[n]
  BY <1>1, RehashSteps
<1> HIDE DEF m
<1> DEFINE Done(k) == /\ Good(g[k], m)
                      /\ \A y \in Node : In(y, g[k], m) <=> In(y, T, n) /\ Slot(y.key, n) < k
           bad == {k \in 0..n : ~ Done(k)}
<1>3. Done(0)
  <2>1. \A y \in Node : ~ (Slot(y.key, n) < 0)
    BY <1>1, SlotIn, NodeKey
  <2> QED
    BY <1>1, <1>2, <2>1, EmptyGood
<1>4. ASSUME NEW k \in 1..n, Done(k - 1) PROVE Done(k)
  <2> DEFINE chain == T[k - 1]
  <2>1. k - 1 \in 0..(n - 1) /\ chain \in Seq(Node)
    BY <1>1 DEF Table
  <2>2. /\ \A i \in 1..Len(chain) : Slot(chain[i].key, n) = k - 1
        /\ \A i, j \in 1..Len(chain) : chain[i].key = chain[j].key => i = j
    BY <2>1 DEF Good
  <2>3. ASSUME NEW y \in Node
        PROVE  (\E i \in 1..Len(chain) : chain[i] = y) <=> In(y, T, n) /\ Slot(y.key, n) = k - 1
    <3>1. Slot(y.key, n) = k - 1 => (In(y, T, n) <=> \E i \in 1..Len(chain) : chain[i] = y)
      BY DEF In
    <3> QED
      BY <2>2, <3>1
  <2> HIDE DEF chain
  <2>4. ASSUME NEW i \in 1..Len(chain) PROVE ~ HasKey(chain[i].key, g[k - 1], m)
    <3>1. chain[i] \in Node /\ chain[i].key \in Key /\ Slot(chain[i].key, n) = k - 1
      BY <2>1, <2>2, NodeKey
    <3>2. ASSUME NEW x \in Node, x.key = chain[i].key, In(x, g[k - 1], m) PROVE FALSE
      <4>1. Slot(x.key, n) < k - 1
        BY <1>4, <3>2
      <4> QED
        BY <2>1, <3>1, <3>2, <4>1
    <3> QED
      BY <1>4, <3>1, <3>2, KeyIn
  <2>5. g[k] = Moved(g[k - 1], m, chain)
    BY <1>2 DEF chain
  <2>6. /\ Good(g[k], m)
        /\ \A y \in Node : In(y, g[k], m)
                              <=> In(y, g[k - 1], m) \/ \E i \in 1..Len(chain) : chain[i] = y
    BY <1>4, <2>1, <2>2, <2>4, <2>5, MovedGood
  <2>7. ASSUME NEW y \in Node PROVE In(y, g[k], m) <=> In(y, T, n) /\ Slot(y.key, n) < k
    <3>1. Slot(y.key, n) \in Nat
      BY <1>1, SlotIn, NodeKey
    <3>2. Slot(y.key, n) < k <=> Slot(y.key, n) < k - 1 \/ Slot(y.key, n) = k - 1
      BY <3>1
    <3>3. In(y, g[k - 1], m) <=> In(y, T, n) /\ Slot(y.key, n) < k - 1
      BY <1>4
    <3> QED
      BY <2>3, <2>6, <3>2, <3>3
  <2> QED
    BY <2>6, <2>7
<1>5. ASSUME bad # {} PROVE FALSE
  <2>1. PICK p \in bad : \A k \in bad : p <= k
    <3>1. bad \in SUBSET Nat
      BY <1>1
    <3> HIDE DEF bad
    <3> QED
      BY <1>5, <3>1, Minimal
  <2>2. p \in 0..n /\ ~ Done(p)
    OBVIOUS
  <2> HIDE DEF Done
  <2>3. p \in 1..n
    BY <1>1, <1>3, <2>2
  <2>4. p - 1 \in 0..n /\ p - 1 \notin bad
    BY <1>1, <2>1, <2>3
  <2> QED
    BY <1>4, <2>2, <2>3, <2>4
<1>6. Done(n)
  <2>1. n \in 0..n
    BY <1>1
  <2> HIDE DEF Done
  <2> QED
    BY <1>5, <2>1
<1>7. \A y \in Node : Slot(y.key, n) < n
  BY <1>1, SlotIn, NodeKey
<1> QED
  BY <1>2, <1>6, <1>7 DEF m

----------------------------------------------------------------------------
(* What an operation makes of the nodes of a table.                        *)

NewNode(k, v) == [key |-> k, val |-> v]

LEMMA NewNodeIs ==
    ASSUME NEW k \in Key, NEW v \in Value
    PROVE  NewNode(k, v) \in Node /\ NewNode(k, v).key = k /\ NewNode(k, v).val = v
  BY DEF NewNode, Node

LEMMA NodeIs ==
    ASSUME NEW x \in Node, NEW y \in Node, x.key = y.key, x.val = y.val
    PROVE  x = y
  BY DEF Node

\* The chain c of T becomes s, with the nodes of which the keys belong there.
LEMMA ChainGood ==
    ASSUME NEW T, NEW n, Good(T, n), NEW c \in 0..(n - 1), NEW s \in Seq(Node),
           \A i \in 1..Len(s) : Slot(s[i].key, n) = c,
           \A i, j \in 1..Len(s) : s[i].key = s[j].key => i = j
    PROVE  /\ Good([T EXCEPT ![c] = s], n)
           /\ \A y \in Node : In(y, [T EXCEPT ![c] = s], n)
                 <=> IF Slot(y.key, n) = c THEN \E i \in 1..Len(s) : s[i] = y ELSE In(y, T, n)
<1> DEFINE U == [T EXCEPT ![c] = s]
<1>1. U \in Table(n) /\ U[c] = s /\ \A d \in 0..(n - 1) : d # c => U[d] = T[d]
  BY DEF Good, Table
<1> HIDE DEF U
<1>2. Good(U, n)
  BY <1>1 DEF Good
<1>3. ASSUME NEW y \in Node
      PROVE  In(y, U, n)
                <=> IF Slot(y.key, n) = c THEN \E i \in 1..Len(s) : s[i] = y ELSE In(y, T, n)
  <2>1. Slot(y.key, n) \in 0..(n - 1)
    BY SlotIn, NodeKey DEF Good
  <2>2. CASE Slot(y.key, n) # c
    BY <1>1, <2>1, <2>2 DEF In
  <2>3. CASE Slot(y.key, n) = c
    BY <1>1, <2>3 DEF In
  <2> QED
    BY <2>2, <2>3
<1> QED
  BY <1>2, <1>3 DEF U

Replaced(T, c, p, v) == [T EXCEPT ![c][p].val = v]

LEMMA ReplaceGood ==
    ASSUME NEW T, NEW n, Good(T, n), NEW k \in Key, NEW v \in Value,
           NEW p \in 1..Len(T[Slot(k, n)]), T[Slot(k, n)][p].key = k
    PROVE  /\ Good(Replaced(T, Slot(k, n), p, v), n)
           /\ \A y \in Node : In(y, Replaced(T, Slot(k, n), p, v), n)
                                 <=> (In(y, T, n) /\ y.key # k) \/ y = NewNode(k, v)
<1> DEFINE c == Slot(k, n)  t == T[c]
           s == [t EXCEPT ![p] = NewNode(k, v)]
           U == Replaced(T, c, p, v)
<1>1. c \in 0..(n - 1) /\ t \in Seq(Node)
  BY SlotIn DEF Good, Table
<1>2. /\ \A i \in 1..Len(t) : Slot(t[i].key, n) = c
      /\ \A i, j \in 1..Len(t) : t[i].key = t[j].key => i = j
      /\ \A y \in Node : c = Slot(y.key, n) => (In(y, T, n) <=> \E i \in 1..Len(t) : t[i] = y)
  BY <1>1 DEF Good, In
<1>3. t[p] \in Node /\ t[p].key = k /\ p \in 1..Len(t)
  BY <1>1
<1>4. [t[p] EXCEPT !.val = v] = NewNode(k, v)
  BY <1>3 DEF Node, NewNode
<1>5. U = [T EXCEPT ![c] = s]
  BY <1>4 DEF Replaced
<1> HIDE DEF t, U
<1>6. /\ s \in Seq(Node) /\ Len(s) = Len(t) /\ s[p] = NewNode(k, v)
      /\ \A i \in 1..Len(t) : i # p => s[i] = t[i]
  BY <1>1, <1>3, NewNodeIs
<1> HIDE DEF s
<1>7. \A i \in 1..Len(s) : s[i].key = t[i].key
  BY <1>3, <1>6, NewNodeIs
<1>8. /\ Good(U, n)
      /\ \A y \in Node : In(y, U, n)
            <=> IF Slot(y.key, n) = c THEN \E i \in 1..Len(s) : s[i] = y ELSE In(y, T, n)
  <2>1. /\ \A i \in 1..Len(s) : Slot(s[i].key, n) = c
        /\ \A i, j \in 1..Len(s) : s[i].key = s[j].key => i = j
    BY <1>2, <1>6, <1>7
  <2> QED
    BY <1>1, <1>5, <1>6, <2>1, ChainGood
<1>9. ASSUME NEW y \in Node
      PROVE  In(y, U, n) <=> (In(y, T, n) /\ y.key # k) \/ y = NewNode(k, v)
  <2>1. CASE Slot(y.key, n) # c
    <3>1. y.key # k /\ y # NewNode(k, v)
      BY <2>1, NewNodeIs DEF c
    <3> QED
      BY <1>8, <2>1, <3>1
  <2>2. CASE Slot(y.key, n) = c
    <3>1. In(y, U, n) <=> \E i \in 1..Len(s) : s[i] = y
      BY <1>8, <2>2
    <3>2. ASSUME NEW i \in 1..Len(s), s[i] = y, y # NewNode(k, v) PROVE In(y, T, n) /\ y.key # k
      <4>1. i # p /\ i \in 1..Len(t) /\ t[i] = y
        BY <1>6, <3>2
      <4> QED
        BY <1>2, <1>3, <2>2, <4>1
    <3>3. ASSUME In(y, T, n), y.key # k PROVE \E i \in 1..Len(s) : s[i] = y
      <4>1. PICK i \in 1..Len(t) : t[i] = y
        BY <1>2, <2>2, <3>3
      <4>2. i # p /\ i \in 1..Len(s) /\ s[i] = y
        BY <1>3, <1>6, <3>3, <4>1
      <4> QED
        BY <4>2
    <3>4. p \in 1..Len(s) /\ s[p] = NewNode(k, v)
      BY <1>3, <1>6
    <3> QED
      BY <3>1, <3>2, <3>3, <3>4
  <2> QED
    BY <2>1, <2>2
<1> QED
  BY <1>8, <1>9 DEF U

\* A sequence with an element taken out.
LEMMA TakenOut ==
    ASSUME NEW S, NEW t \in Seq(S), NEW p \in 1..Len(t)
    PROVE  /\ RemoveAt(t, p) \in Seq(S) /\ Len(RemoveAt(t, p)) = Len(t) - 1
           /\ \A i \in 1..(p - 1) : RemoveAt(t, p)[i] = t[i]
           /\ \A i \in p..(Len(t) - 1) : RemoveAt(t, p)[i] = t[i + 1]
<1> DEFINE a == SubSeq(t, 1, p - 1)  b == SubSeq(t, p + 1, Len(t))
<1>1. a \in Seq(S) /\ Len(a) = p - 1 /\ \A i \in 1..(p - 1) : a[i] = t[i]
  OBVIOUS
<1>2. b \in Seq(S) /\ Len(b) = Len(t) - p /\ \A i \in 1..(Len(t) - p) : b[i] = t[p + i]
  OBVIOUS
<1> HIDE DEF a, b
<1>3. RemoveAt(t, p) = a \o b
  BY DEF RemoveAt, a, b
<1>4. a \o b \in Seq(S) /\ Len(a \o b) = Len(t) - 1
  <2>0. a \in Seq(S) /\ b \in Seq(S)
    BY <1>1, <1>2
  <2>1. a \o b \in Seq(S) /\ Len(a \o b) = Len(a) + Len(b)
    BY <2>0
  <2>2. Len(t) \in Nat /\ p \in Nat
    OBVIOUS
  <2> QED
    BY <1>1, <1>2, <2>1, <2>2
<1>5. \A i \in 1..(p - 1) : (a \o b)[i] = t[i]
  BY <1>1, <1>2
<1>6. ASSUME NEW i \in p..(Len(t) - 1) PROVE (a \o b)[i] = t[i + 1]
  <2>1. i - (p - 1) \in 1..(Len(t) - p) /\ p + (i - (p - 1)) = i + 1
    OBVIOUS
  <2>2. (a \o b)[i] = b[i - (p - 1)]
    BY <1>1, <1>2
  <2> QED
    BY <1>2, <2>1, <2>2
<1> QED
  BY <1>3, <1>4, <1>5, <1>6

LEMMA RemoveGood ==
    ASSUME NEW T, NEW n, Good(T, n), NEW k \in Key,
           NEW p \in 1..Len(T[Slot(k, n)]), T[Slot(k, n)][p].key = k
    PROVE  LET U == [T EXCEPT ![Slot(k, n)] = RemoveAt(@, p)]
           IN /\ Good(U, n)
              /\ \A y \in Node : In(y, U, n) <=> In(y, T, n) /\ y.key # k
<1> DEFINE c == Slot(k, n)  t == T[c]  s == RemoveAt(t, p)  U == [T EXCEPT ![c] = s]
<1>1. c \in 0..(n - 1) /\ t \in Seq(Node)
  BY SlotIn DEF Good, Table
<1>2. /\ \A i \in 1..Len(t) : Slot(t[i].key, n) = c
      /\ \A i, j \in 1..Len(t) : t[i].key = t[j].key => i = j
      /\ \A y \in Node : c = Slot(y.key, n) => (In(y, T, n) <=> \E i \in 1..Len(t) : t[i] = y)
  BY <1>1 DEF Good, In
<1>3. t[p].key = k /\ p \in 1..Len(t)
  OBVIOUS
<1> HIDE DEF t
<1>4. /\ s \in Seq(Node) /\ Len(s) = Len(t) - 1
      /\ \A i \in 1..(p - 1) : s[i] = t[i]
      /\ \A i \in p..(Len(t) - 1) : s[i] = t[i + 1]
  BY <1>1, <1>3, TakenOut
<1>5. Len(t) \in Nat /\ p \in Nat
  BY <1>1, <1>3
<1> HIDE DEF s
\* Element i of what is left was at i, or at the place after.
<1>6. ASSUME NEW i \in 1..Len(s)
      PROVE  \/ i < p /\ i \in 1..Len(t) /\ s[i] = t[i]
             \/ i >= p /\ i + 1 \in 1..Len(t) /\ s[i] = t[i + 1]
  <2>1. CASE i < p
    <3>1. i \in 1..(p - 1) /\ i \in 1..Len(t)
      BY <1>4, <1>5, <2>1
    <3> QED
      BY <1>4, <2>1, <3>1
  <2>2. CASE i >= p
    <3>1. i \in p..(Len(t) - 1) /\ i + 1 \in 1..Len(t)
      BY <1>4, <1>5, <2>2
    <3> QED
      BY <1>4, <2>2, <3>1
  <2> QED
    BY <1>5, <2>1, <2>2
<1>7. ASSUME NEW i \in 1..Len(t), i # p PROVE \E j \in 1..Len(s) : s[j] = t[i]
  <2>1. CASE i < p
    <3>1. i \in 1..(p - 1) /\ i \in 1..Len(s)
      BY <1>3, <1>4, <1>5, <2>1
    <3> QED
      BY <1>4, <3>1
  <2>2. CASE i > p
    <3>1. i - 1 \in p..(Len(t) - 1) /\ i - 1 \in 1..Len(s) /\ (i - 1) + 1 = i
      BY <1>3, <1>4, <1>5, <2>2
    <3>2. s[i - 1] = t[i]
      BY <1>4, <3>1
    <3> QED
      BY <3>1, <3>2
  <2> QED
    BY <1>5, <1>7, <2>1, <2>2
<1>8. \A i \in 1..Len(s) : Slot(s[i].key, n) = c
  BY <1>2, <1>6
<1>9. ASSUME NEW i \in 1..Len(s), NEW j \in 1..Len(s), s[i].key = s[j].key PROVE i = j
  <2>1. CASE i < p /\ j < p
    BY <1>2, <1>6, <1>9, <2>1
  <2>2. CASE i >= p /\ j >= p
    <3>1. i + 1 \in 1..Len(t) /\ j + 1 \in 1..Len(t) /\ s[i] = t[i + 1] /\ s[j] = t[j + 1]
      BY <1>5, <1>6, <2>2
    <3>2. i + 1 = j + 1
      BY <1>2, <1>9, <3>1
    <3> QED
      BY <3>2
  <2>3. CASE i < p /\ j >= p
    <3>1. i \in 1..Len(t) /\ j + 1 \in 1..Len(t) /\ s[i] = t[i] /\ s[j] = t[j + 1]
      BY <1>5, <1>6, <2>3
    <3>2. i = j + 1
      BY <1>2, <1>9, <3>1
    <3> QED
      BY <1>5, <2>3, <3>2
  <2>4. CASE i >= p /\ j < p
    <3>1. i + 1 \in 1..Len(t) /\ j \in 1..Len(t) /\ s[i] = t[i + 1] /\ s[j] = t[j]
      BY <1>5, <1>6, <2>4
    <3>2. i + 1 = j
      BY <1>2, <1>9, <3>1
    <3> QED
      BY <1>5, <2>4, <3>2
  <2> QED
    BY <1>5, <2>1, <2>2, <2>3, <2>4
<1>10. /\ Good(U, n)
       /\ \A y \in Node : In(y, U, n)
             <=> IF Slot(y.key, n) = c THEN \E i \in 1..Len(s) : s[i] = y ELSE In(y, T, n)
  BY <1>1, <1>4, <1>8, <1>9, ChainGood
<1>11. ASSUME NEW y \in Node PROVE In(y, U, n) <=> In(y, T, n) /\ y.key # k
  <2>1. CASE Slot(y.key, n) # c
    <3>1. y.key # k
      BY <2>1 DEF c
    <3> QED
      BY <1>10, <2>1, <3>1
  <2>2. CASE Slot(y.key, n) = c
    <3>1. In(y, U, n) <=> \E i \in 1..Len(s) : s[i] = y
      BY <1>10, <2>2
    <3>2. ASSUME NEW i \in 1..Len(s), s[i] = y PROVE In(y, T, n) /\ y.key # k
      <4>1. PICK q \in 1..Len(t) : q # p /\ t[q] = y
        <5>1. CASE i < p /\ i \in 1..Len(t) /\ s[i] = t[i]
          BY <1>5, <3>2, <5>1
        <5>2. CASE i >= p /\ i + 1 \in 1..Len(t) /\ s[i] = t[i + 1]
          <6>1. i + 1 # p
            BY <1>5, <5>2
          <6> QED
            BY <3>2, <5>2, <6>1
        <5> QED
          BY <1>6, <5>1, <5>2
      <4> QED
        BY <1>2, <1>3, <2>2, <4>1
    <3>3. ASSUME In(y, T, n), y.key # k PROVE \E i \in 1..Len(s) : s[i] = y
      <4>1. PICK i \in 1..Len(t) : t[i] = y
        BY <1>2, <2>2, <3>3
      <4>2. i # p
        BY <1>3, <3>3, <4>1
      <4> QED
        BY <1>7, <4>1, <4>2
    <3> QED
      BY <3>1, <3>2, <3>3
  <2> QED
    BY <2>1, <2>2
<1> QED
  BY <1>10, <1>11 DEF s, t

----------------------------------------------------------------------------
(* The keys and the contents of a table.                                   *)

KeysOf(T, n) == {k \in Key : HasKey(k, T, n)}

ValueOf(k, T, n) == (CHOOSE x \in Node : x.key = k /\ In(x, T, n)).val
ContentsOf(T, n) == [k \in Key |-> IF HasKey(k, T, n) THEN ValueOf(k, T, n) ELSE NoValue]

LEMMA ContentsAre ==
    ASSUME NEW T, NEW n, Good(T, n), NEW k \in Key
    PROVE  /\ ~ HasKey(k, T, n) => ContentsOf(T, n)[k] = NoValue
           /\ HasKey(k, T, n) => ContentsOf(T, n)[k] \in Value
           /\ \A x \in Node : x.key = k /\ In(x, T, n) => ContentsOf(T, n)[k] = x.val
<1> DEFINE y == CHOOSE x \in Node : x.key = k /\ In(x, T, n)
<1>1. ASSUME HasKey(k, T, n) PROVE y \in Node /\ y.key = k /\ In(y, T, n)
  <2>1. \E x \in Node : x.key = k /\ In(x, T, n)
    BY <1>1, KeyIn
  <2> QED
    BY <2>1
<1>2. HasKey(k, T, n) => ContentsOf(T, n)[k] = y.val
  BY DEF ContentsOf, ValueOf
<1> HIDE DEF y
<1>3. HasKey(k, T, n) => ContentsOf(T, n)[k] \in Value
  BY <1>1, <1>2, NodeKey
<1>4. ASSUME NEW x \in Node, x.key = k, In(x, T, n) PROVE ContentsOf(T, n)[k] = x.val
  <2>1. HasKey(k, T, n)
    BY <1>4, KeyIn
  <2>2. x = y
    BY <1>1, <1>4, <2>1, OneOfKey
  <2> QED
    BY <1>2, <2>1, <2>2
<1>5. ~ HasKey(k, T, n) => ContentsOf(T, n)[k] = NoValue
  BY DEF ContentsOf
<1> QED
  BY <1>3, <1>4, <1>5

\* U is T with the value v for k; and T without k.
WithKey(U, m, T, n, k, v) ==
    \A y \in Node : In(y, U, m) <=> (In(y, T, n) /\ y.key # k) \/ y = NewNode(k, v)
WithoutKey(U, m, T, n, k) ==
    \A y \in Node : In(y, U, m) <=> In(y, T, n) /\ y.key # k

LEMMA OtherKeys ==
    ASSUME NEW T, NEW n, Good(T, n), NEW U, NEW m, Good(U, m), NEW k \in Key, NEW j \in Key,
           \A y \in Node : y.key = j => (In(y, U, m) <=> In(y, T, n))
    PROVE  /\ HasKey(j, U, m) <=> HasKey(j, T, n)
           /\ ContentsOf(U, m)[j] = ContentsOf(T, n)[j]
<1>1. HasKey(j, U, m) <=> HasKey(j, T, n)
  BY KeyIn
<1>2. CASE HasKey(j, T, n)
  <2>1. PICK x \in Node : x.key = j /\ In(x, T, n)
    BY <1>2, KeyIn
  <2> QED
    BY <1>1, <2>1, ContentsAre
<1>3. CASE ~ HasKey(j, T, n)
  BY <1>1, <1>3, ContentsAre
<1> QED
  BY <1>1, <1>2, <1>3

LEMMA WithKeyIs ==
    ASSUME NEW T, NEW n, Good(T, n), NEW U, NEW m, Good(U, m),
           NEW k \in Key, NEW v \in Value, WithKey(U, m, T, n, k, v)
    PROVE  /\ KeysOf(U, m) = KeysOf(T, n) \cup {k}
           /\ ContentsOf(U, m) = [ContentsOf(T, n) EXCEPT ![k] = v]
<1> DEFINE e == NewNode(k, v)
<1>1. e \in Node /\ e.key = k /\ e.val = v
  BY NewNodeIs
<1>2. In(e, U, m)
  BY <1>1 DEF WithKey
<1>3. HasKey(k, U, m) /\ ContentsOf(U, m)[k] = v
  BY <1>1, <1>2, KeyIn, ContentsAre
<1>4. ASSUME NEW j \in Key, j # k
      PROVE  /\ HasKey(j, U, m) <=> HasKey(j, T, n)
             /\ ContentsOf(U, m)[j] = ContentsOf(T, n)[j]
  <2>1. \A y \in Node : y.key = j => (In(y, U, m) <=> In(y, T, n))
    BY <1>1, <1>4 DEF WithKey
  <2> QED
    BY <2>1, OtherKeys
<1>5. KeysOf(U, m) = KeysOf(T, n) \cup {k}
  BY <1>3, <1>4 DEF KeysOf
<1>6. ContentsOf(U, m) = [ContentsOf(T, n) EXCEPT ![k] = v]
  <2>1. \A j \in Key : ContentsOf(U, m)[j] = IF j = k THEN v ELSE ContentsOf(T, n)[j]
    BY <1>3, <1>4
  <2> QED
    BY <2>1 DEF ContentsOf
<1> QED
  BY <1>5, <1>6

LEMMA WithoutKeyIs ==
    ASSUME NEW T, NEW n, Good(T, n), NEW U, NEW m, Good(U, m),
           NEW k \in Key, WithoutKey(U, m, T, n, k)
    PROVE  /\ KeysOf(U, m) = KeysOf(T, n) \ {k}
           /\ ContentsOf(U, m) = [ContentsOf(T, n) EXCEPT ![k] = NoValue]
<1>1. ~ HasKey(k, U, m)
  BY KeyIn DEF WithoutKey
<1>2. ContentsOf(U, m)[k] = NoValue
  BY <1>1, ContentsAre
<1>3. ASSUME NEW j \in Key, j # k
      PROVE  /\ HasKey(j, U, m) <=> HasKey(j, T, n)
             /\ ContentsOf(U, m)[j] = ContentsOf(T, n)[j]
  <2>1. \A y \in Node : y.key = j => (In(y, U, m) <=> In(y, T, n))
    BY <1>3 DEF WithoutKey
  <2> QED
    BY <2>1, OtherKeys
<1>4. KeysOf(U, m) = KeysOf(T, n) \ {k}
  BY <1>1, <1>3 DEF KeysOf
<1>5. ContentsOf(U, m) = [ContentsOf(T, n) EXCEPT ![k] = NoValue]
  <2>1. \A j \in Key : ContentsOf(U, m)[j] = IF j = k THEN NoValue ELSE ContentsOf(T, n)[j]
    BY <1>2, <1>3
  <2> QED
    BY <2>1 DEF ContentsOf
<1> QED
  BY <1>4, <1>5

----------------------------------------------------------------------------
(* The state.                                                              *)

Tidy == Good(chains, cap)

\* The walk of hm_put, hm_get and hm_remove stops at the node of the key.
LEMMA FirstIs ==
    ASSUME NEW S \in SUBSET Nat, S # {}
    PROVE  First(S) \in S /\ \A j \in S : First(S) <= j
<1>1. \E i \in S : \A j \in S : i <= j
  BY Minimal
<1> QED
  BY <1>1 DEF First

LEMMA PlacesAre ==
    ASSUME Tidy, NEW k \in Key
    PROVE  /\ ChainInd(k) = Slot(k, cap) /\ Slot(k, cap) \in 0..(cap - 1)
           /\ Places(k) = {} <=> ~ HasKey(k, chains, cap)
           /\ Places(k) # {} => /\ First(Places(k)) \in 1..Len(chains[Slot(k, cap)])
                                /\ chains[Slot(k, cap)][First(Places(k))].key = k
           /\ Places(k) # {} => /\ NodeOf(k) \in Node /\ NodeOf(k).key = k
                                /\ In(NodeOf(k), chains, cap)
<1> DEFINE c == Slot(k, cap)
<1>1. ChainInd(k) = c /\ c \in 0..(cap - 1) /\ chains[c] \in Seq(Node)
  BY SlotIn DEF Tidy, Good, Table, ChainInd
<1>2. Places(k) = {i \in 1..Len(chains[c]) : chains[c][i].key = k}
  BY <1>1 DEF Places
<1>3. Places(k) = {} <=> ~ HasKey(k, chains, cap)
  BY <1>2 DEF HasKey
<1>4. ASSUME Places(k) # {}
      PROVE  /\ First(Places(k)) \in 1..Len(chains[c])
             /\ chains[c][First(Places(k))].key = k
  <2>1. Places(k) \in SUBSET Nat
    BY <1>1, <1>2
  <2>2. First(Places(k)) \in Places(k)
    BY <1>4, <2>1, FirstIs
  <2> QED
    BY <1>2, <2>2
<1>5. ASSUME Places(k) # {}
      PROVE  NodeOf(k) \in Node /\ NodeOf(k).key = k /\ In(NodeOf(k), chains, cap)
  BY <1>1, <1>4, <1>5 DEF NodeOf, In
<1> QED
  BY <1>1, <1>3, <1>4, <1>5

\* The map that the table stands for.
LEMMA ContentsNow == Tidy => Contents = ContentsOf(chains, cap)
<1> SUFFICES ASSUME Tidy PROVE Contents = ContentsOf(chains, cap)
  OBVIOUS
<1>1. ASSUME NEW k \in Key
      PROVE  (IF Places(k) = {} THEN NoValue ELSE NodeOf(k).val) = ContentsOf(chains, cap)[k]
  BY PlacesAre, ContentsAre DEF Tidy
<1> QED
  BY <1>1 DEF Contents, ContentsOf

LEMMA ContentsNext == Tidy' => Contents' = ContentsOf(chains', cap')
<1>1. Tidy' => (Contents = ContentsOf(chains, cap))'
  BY ContentsNow, PTL
<1> QED
  BY <1>1

----------------------------------------------------------------------------
(* The table: through puts, resizes and removals it stays in order, and no *)
(* more than half full.                                                    *)

Counted ==
    /\ numKeys = Cardinality(KeysOf(chains, cap))
    /\ numKeys * HM_FILL_FACTOR <= cap

LEMMA KeysFinite == ASSUME NEW T, NEW n PROVE IsFiniteSet(KeysOf(T, n))
  BY FS_Subset, HashMapAssumption DEF KeysOf

LEMMA CountIsNat == Counted => numKeys \in Nat
  BY KeysFinite, FS_CardinalityType DEF Counted

LEMMA PutStep ==
    ASSUME Tidy, Counted, NEW k \in Key, NEW v \in Value, HmPut(k, v)
    PROVE  Tidy' /\ Counted' /\ WithKey(chains', cap', chains, cap, k, v)
<1> DEFINE x == NewNode(k, v)
<1>0. cap \in Nat \ {0} /\ numKeys \in Nat /\ x \in Node /\ x.key = k
  BY CountIsNat, NewNodeIs DEF Tidy, Good
<1>1. CASE Places(k) # {}
  <2> DEFINE p == First(Places(k))
  <2>1. /\ chains' = Replaced(chains, Slot(k, cap), p, v)
        /\ numKeys' = numKeys /\ cap' = cap
    BY <1>1, PlacesAre DEF HmPut, Replaced
  <2>2. p \in 1..Len(chains[Slot(k, cap)]) /\ chains[Slot(k, cap)][p].key = k
    BY <1>1, PlacesAre
  <2>3. HasKey(k, chains, cap)
    BY <1>1, PlacesAre
  <2> HIDE DEF p
  <2>4. /\ Good(chains', cap)
        /\ \A y \in Node : In(y, chains', cap) <=> (In(y, chains, cap) /\ y.key # k) \/ y = x
    BY <2>1, <2>2, ReplaceGood DEF Tidy
  <2>5. Tidy' /\ WithKey(chains', cap', chains, cap, k, v)
    BY <2>1, <2>4 DEF Tidy, WithKey
  <2>6. KeysOf(chains', cap') = KeysOf(chains, cap)
    <3>1. KeysOf(chains', cap') = KeysOf(chains, cap) \cup {k}
      BY <2>5, WithKeyIs DEF Tidy
    <3> QED
      BY <2>3, <3>1 DEF KeysOf
  <2> QED
    BY <2>1, <2>5, <2>6 DEF Counted
<1>2. CASE Places(k) = {}
  <2> DEFINE T == AtHead(chains, cap, x)
  <2>1. ~ HasKey(k, chains, cap)
    BY <1>2, PlacesAre
  <2>2. Good(T, cap) /\ \A y \in Node : In(y, T, cap) <=> In(y, chains, cap) \/ y = x
    BY <1>0, <2>1, AtHeadGood DEF Tidy
  <2>3. numKeys' = numKeys + 1 /\ CheckResize(T, numKeys + 1)
    BY <1>2 DEF HmPut, NewNode
  <2> HIDE DEF T
  <2>4. \A y \in Node : In(y, chains, cap) => y.key # k
    BY <2>1, KeyIn DEF Tidy
  <2>5. /\ Tidy' /\ cap' \in Nat
        /\ \A y \in Node : In(y, chains', cap') <=> In(y, T, cap)
        /\ (numKeys + 1) * HM_FILL_FACTOR <= cap'
    <3>1. CASE (numKeys + 1) * HM_FILL_FACTOR <= cap
      <4>1. chains' = T /\ cap' = cap
        BY <2>3, <3>1 DEF CheckResize
      <4> QED
        BY <1>0, <2>2, <3>1, <4>1 DEF Tidy
    <3>2. CASE ~ ((numKeys + 1) * HM_FILL_FACTOR <= cap)
      <4>1. chains' = Rehash(T, cap) /\ cap' = 2 * cap
        BY <2>3, <3>2 DEF CheckResize
      <4>2. /\ Good(Rehash(T, cap), 2 * cap)
            /\ \A y \in Node : In(y, Rehash(T, cap), 2 * cap) <=> In(y, T, cap)
        BY <2>2, RehashGood
      <4>3. (numKeys + 1) * 2 <= 2 * cap /\ 2 * cap \in Nat
        BY <1>0 DEF Counted, HM_FILL_FACTOR
      <4> QED
        BY <4>1, <4>2, <4>3 DEF Tidy, HM_FILL_FACTOR
    <3> QED
      BY <3>1, <3>2
  <2>6. WithKey(chains', cap', chains, cap, k, v)
    BY <2>2, <2>4, <2>5 DEF WithKey
  <2>7. KeysOf(chains', cap') = KeysOf(chains, cap) \cup {k}
    BY <2>5, <2>6, WithKeyIs DEF Tidy
  <2>8. k \notin KeysOf(chains, cap)
    BY <2>1 DEF KeysOf
  <2>9. Cardinality(KeysOf(chains, cap) \cup {k}) = Cardinality(KeysOf(chains, cap)) + 1
    BY <2>8, KeysFinite, FS_AddElement
  <2> QED
    BY <2>3, <2>5, <2>6, <2>7, <2>9 DEF Counted
<1> QED
  BY <1>1, <1>2

LEMMA RemoveStep ==
    ASSUME Tidy, Counted, NEW k \in Key, HmRemove(k)
    PROVE  Tidy' /\ Counted' /\ WithoutKey(chains', cap', chains, cap, k)
<1>0. cap \in Nat \ {0} /\ numKeys \in Nat /\ cap' = cap
  BY CountIsNat DEF Tidy, Good, HmRemove
<1>1. CASE Places(k) = {}
  <2>1. chains' = chains /\ numKeys' = numKeys
    BY <1>1 DEF HmRemove
  <2>2. \A y \in Node : In(y, chains, cap) => y.key # k
    BY <1>1, PlacesAre, KeyIn DEF Tidy
  <2> QED
    BY <1>0, <2>1, <2>2 DEF Tidy, Counted, WithoutKey
<1>2. CASE Places(k) # {}
  <2> DEFINE p == First(Places(k))
  <2>1. /\ chains' = [chains EXCEPT ![Slot(k, cap)] = RemoveAt(@, p)]
        /\ numKeys' = numKeys - 1
    BY <1>2, PlacesAre DEF HmRemove
  <2>2. p \in 1..Len(chains[Slot(k, cap)]) /\ chains[Slot(k, cap)][p].key = k
    BY <1>2, PlacesAre
  <2>3. HasKey(k, chains, cap)
    BY <1>2, PlacesAre
  <2> HIDE DEF p
  <2>4. /\ Good(chains', cap)
        /\ \A y \in Node : In(y, chains', cap) <=> In(y, chains, cap) /\ y.key # k
    BY <2>1, <2>2, RemoveGood DEF Tidy
  <2>5. Tidy' /\ WithoutKey(chains', cap', chains, cap, k)
    BY <1>0, <2>4 DEF Tidy, WithoutKey
  <2>6. KeysOf(chains', cap') = KeysOf(chains, cap) \ {k}
    BY <2>5, WithoutKeyIs DEF Tidy
  <2>7. k \in KeysOf(chains, cap)
    BY <2>3 DEF KeysOf
  <2>8. Cardinality(KeysOf(chains, cap) \ {k}) = Cardinality(KeysOf(chains, cap)) - 1
    BY <2>7, KeysFinite, FS_RemoveElement
  <2>9. Counted'
    <3>1. numKeys' = Cardinality(KeysOf(chains', cap'))
      BY <2>1, <2>6, <2>8 DEF Counted
    <3>2. numKeys' * 2 <= cap'
      BY <1>0, <2>1 DEF Counted, HM_FILL_FACTOR
    <3> QED
      BY <3>1, <3>2 DEF Counted, HM_FILL_FACTOR
  <2> QED
    BY <2>5, <2>9
<1> QED
  BY <1>1, <1>2

LEMMA NewTable ==
    /\ Good(Empty(InitialCap), InitialCap)
    /\ KeysOf(Empty(InitialCap), InitialCap) = {}
    /\ ContentsOf(Empty(InitialCap), InitialCap) = [k \in Key |-> NoValue]
<1>1. /\ InitialCap \in Nat \ {0} /\ Good(Empty(InitialCap), InitialCap)
      /\ \A y \in Node : ~ In(y, Empty(InitialCap), InitialCap)
  BY EmptyGood, HashMapAssumption
<1>2. \A k \in Key : ~ HasKey(k, Empty(InitialCap), InitialCap)
  BY <1>1, KeyIn
<1>3. \A k \in Key : ContentsOf(Empty(InitialCap), InitialCap)[k] = NoValue
  BY <1>1, <1>2, ContentsAre
<1> QED
  BY <1>1, <1>2, <1>3 DEF KeysOf, ContentsOf

LEMMA NewCounted ==
    ASSUME numKeys = 0, cap = InitialCap, chains = Empty(InitialCap)
    PROVE  Tidy /\ Counted
  BY NewTable, HashMapAssumption, FS_EmptySet DEF Tidy, Counted, HM_FILL_FACTOR

TableInv == Tidy /\ Counted

LEMMA InitTable == Init => TableInv
  BY NewCounted DEF Init, Empty, TableInv

LEMMA StepTable == TableInv /\ [Next]_vars => TableInv'
<1> SUFFICES ASSUME Tidy, Counted, [Next]_vars PROVE TableInv'
  BY DEF TableInv
<1>1. CASE UNCHANGED <<numKeys, cap, chains>>
  BY <1>1 DEF TableInv, Tidy, Counted
<1>2. CASE DeleteHashMap
  <2>1. numKeys' = 0 /\ cap' = InitialCap /\ chains' = Empty(InitialCap)
    BY <1>2 DEF DeleteHashMap, Empty
  <2> QED
    BY <2>1, NewTable, HashMapAssumption, FS_EmptySet DEF TableInv, Tidy, Counted, HM_FILL_FACTOR
<1>3. CASE HmResetIterator \/ HmNextKvp \/ HmExhausted
  BY <1>1, <1>3 DEF HmResetIterator, HmNextKvp, HmExhausted
<1>4. ASSUME NEW k \in Key, HmGet(k) PROVE TableInv'
  BY <1>1, <1>4 DEF HmGet
<1>5. ASSUME NEW k \in Key, HmRemove(k) PROVE TableInv'
  BY <1>5, RemoveStep DEF TableInv
<1>6. ASSUME NEW k \in Key, NEW v \in Value, HmPut(k, v) PROVE TableInv'
  BY <1>6, PutStep DEF TableInv
<1> QED
  BY <1>1, <1>2, <1>3, <1>4, <1>5, <1>6 DEF Next, vars

LEMMA TidyIsRightChain == Tidy => RightChain
<1> SUFFICES ASSUME Tidy, NEW c \in 0..(cap - 1), NEW i \in DOMAIN chains[c]
             PROVE  LET k == chains[c][i].key IN c = ChainInd(k) /\ Places(k) = {i}
  BY DEF RightChain
<1> DEFINE k == chains[c][i].key
<1>1. chains[c] \in Seq(Node) /\ i \in 1..Len(chains[c]) /\ DOMAIN chains[c] = 1..Len(chains[c])
  BY DEF Tidy, Good, Table
<1>2. c = ChainInd(k)
  BY <1>1 DEF Tidy, Good, ChainInd
<1>3. \A j \in 1..Len(chains[c]) : chains[c][j].key = k => j = i
  BY <1>1 DEF Tidy, Good
<1>4. Places(k) = {j \in 1..Len(chains[c]) : chains[c][j].key = k}
  BY <1>1, <1>2 DEF Places
<1> HIDE DEF k
<1>5. k = chains[c][i].key
  BY DEF k
<1>6. Places(k) = {i}
  BY <1>1, <1>3, <1>4, <1>5
<1> QED
  BY <1>2, <1>6 DEF k

LEMMA CountedIsLoad == Tidy /\ Counted => LoadBounded
<1> SUFFICES ASSUME Tidy, Counted PROVE LoadBounded
  OBVIOUS
<1>1. \A k \in Key : Places(k) # {} <=> HasKey(k, chains, cap)
  BY PlacesAre
<1>2. KeysOf(chains, cap) = {k \in Key : Places(k) # {}}
  BY <1>1 DEF KeysOf
<1> QED
  BY <1>2 DEF Counted, LoadBounded

\* Whatever was put and removed, and however often the table was doubled, a
\* node is in the chain its hash says and no other has its key: so a lookup of
\* hm_get finds what hm_put put.
THEOREM AlwaysRightChain == Spec => []RightChain
<1>1. TableInv => RightChain
  BY TidyIsRightChain DEF TableInv
<1> QED
  BY InitTable, StepTable, <1>1, PTL DEF Spec

\* num_keys counts the keys that can be found, and the table has at least
\* HM_FILL_FACTOR chains for each of them.
THEOREM AlwaysLoadBounded == Spec => []LoadBounded
<1>1. TableInv => LoadBounded
  BY CountedIsLoad DEF TableInv
<1> QED
  BY InitTable, StepTable, <1>1, PTL DEF Spec

----------------------------------------------------------------------------
(* The iterator: what it has visited is what is before it in the table.    *)

\* The keys before place p of chain c.
Before(c, p, T, n) ==
    {k \in KeysOf(T, n) : \/ Slot(k, n) < c
                          \/ Slot(k, n) = c /\ \E q \in 1..(p - 1) : T[c][q].key = k}

AtPlace(c, p, it, vis, T, n) ==
    /\ c \in 0..(n - 1) /\ p \in 1..Len(T[c])
    /\ T[c][p].key = it
    /\ vis = Before(c, p, T, n)

Visits(c, it, vis, T, n) ==
    /\ it = Nobody => vis = KeysOf(T, n)
    /\ it # Nobody => \E p \in 1..Len(T[c]) : AtPlace(c, p, it, vis, T, n)

IterTypes ==
    /\ iterChain \in Nat
    /\ iter \in Key \cup {Nobody}
    /\ visited \subseteq Key
    /\ out \subseteq Key \X Value

IterInv == IterTypes /\ (iterating => Visits(iterChain, iter, visited, chains, cap))

FlagOK == iterating \in BOOLEAN

\* A key is in the chain of its slot, at one place.
LEMMA KeyPlace ==
    ASSUME NEW T, NEW n, Good(T, n), NEW c \in 0..(n - 1), NEW p \in 1..Len(T[c])
    PROVE  /\ T[c][p] \in Node /\ T[c][p].key \in Key /\ T[c][p].val \in Value
           /\ T[c][p].key \in KeysOf(T, n) /\ Slot(T[c][p].key, n) = c
           /\ In(T[c][p], T, n)
           /\ \A q \in 1..Len(T[c]) : T[c][q].key = T[c][p].key => q = p
<1>1. T[c] \in Seq(Node)
  BY DEF Good, Table
<1>2. T[c][p] \in Node /\ Slot(T[c][p].key, n) = c
  BY <1>1 DEF Good
<1>3. HasKey(T[c][p].key, T, n) /\ In(T[c][p], T, n)
  BY <1>2 DEF HasKey, In
<1>4. \A q \in 1..Len(T[c]) : T[c][q].key = T[c][p].key => q = p
  BY DEF Good
<1> QED
  BY <1>2, <1>3, <1>4, NodeKey DEF KeysOf

\* From the last node of a chain the iterator goes to the next chain with a node.
LEMMA UpTo ==
    ASSUME NEW T, NEW n, Good(T, n), NEW c \in 0..(n - 1), NEW p \in 1..Len(T[c]),
           NEW it, NEW vis, AtPlace(c, p, it, vis, T, n)
    PROVE  /\ it \in Key /\ it \in KeysOf(T, n) /\ it \notin vis /\ vis \subseteq KeysOf(T, n)
           /\ p + 1 \in 1..Len(T[c]) => vis \cup {it} = Before(c, p + 1, T, n)
           /\ p = Len(T[c]) => vis \cup {it} = {k \in KeysOf(T, n) : Slot(k, n) <= c}
<1>1. /\ it \in Key /\ it \in KeysOf(T, n) /\ Slot(it, n) = c
      /\ \A q \in 1..Len(T[c]) : T[c][q].key = it => q = p
      /\ vis = Before(c, p, T, n) /\ it = T[c][p].key
  BY KeyPlace DEF AtPlace
<1>2. /\ T[c] \in Seq(Node) /\ Len(T[c]) \in Nat /\ n \in Nat
      /\ \A k \in Key : Slot(k, n) \in 0..(n - 1)
  BY SlotIn DEF Good, Table
<1>3. it \notin vis /\ vis \subseteq KeysOf(T, n)
  <2>1. \A q \in 1..(p - 1) : q \in 1..Len(T[c]) /\ q # p
    BY <1>2
  <2> QED
    BY <1>1, <2>1 DEF Before
<1>4. ASSUME p + 1 \in 1..Len(T[c]) PROVE vis \cup {it} = Before(c, p + 1, T, n)
  <2>1. \A q \in 1..((p + 1) - 1) : q = p \/ q \in 1..(p - 1)
    OBVIOUS
  <2>2. p \in 1..((p + 1) - 1) /\ \A q \in 1..(p - 1) : q \in 1..((p + 1) - 1)
    OBVIOUS
  <2>3. ASSUME NEW k \in KeysOf(T, n)
        PROVE  (\E q \in 1..((p + 1) - 1) : T[c][q].key = k)
                  <=> (\E q \in 1..(p - 1) : T[c][q].key = k) \/ k = it
    BY <1>1, <2>1, <2>2
  <2> QED
    BY <1>1, <2>3 DEF Before
<1>5. ASSUME p = Len(T[c]) PROVE vis \cup {it} = {k \in KeysOf(T, n) : Slot(k, n) <= c}
  <2>1. ASSUME NEW k \in KeysOf(T, n), Slot(k, n) <= c PROVE k \in vis \cup {it}
    <3>1. Slot(k, n) \in 0..(n - 1)
      BY <1>2 DEF KeysOf
    <3>2. CASE Slot(k, n) < c
      BY <1>1, <3>2 DEF Before
    <3>3. CASE Slot(k, n) = c
      <4>1. PICK q \in 1..Len(T[c]) : T[c][q].key = k
        BY <3>3 DEF KeysOf, HasKey
      <4>2. q = p \/ q \in 1..(p - 1)
        BY <1>2, <1>5
      <4> QED
        BY <1>1, <3>3, <4>1, <4>2 DEF Before
    <3> QED
      BY <2>1, <3>1, <3>2, <3>3
  <2>2. ASSUME NEW k \in vis \cup {it} PROVE k \in KeysOf(T, n) /\ Slot(k, n) <= c
    BY <1>1, <1>2 DEF Before, KeysOf
  <2> QED
    BY <2>1, <2>2
<1> QED
  BY <1>1, <1>3, <1>4, <1>5

\* The first chain with a node at or after c, for the iterator to go on from;
\* if there is none, no key is in those chains.
LEMMA NonEmptyIs ==
    ASSUME Tidy, NEW c \in Nat
    PROVE  /\ NonEmpty(c) = {} => \A k \in KeysOf(chains, cap) : Slot(k, cap) < c
           /\ NonEmpty(c) # {} =>
                 LET d == First(NonEmpty(c))
                 IN /\ d \in 0..(cap - 1) /\ d \in Nat /\ c <= d
                    /\ 1 \in 1..Len(chains[d])
                    /\ AtPlace(d, 1, chains[d][1].key,
                               {k \in KeysOf(chains, cap) : Slot(k, cap) < c}, chains, cap)
<1>1. /\ cap \in Nat \ {0}
      /\ \A d \in 0..(cap - 1) : chains[d] \in Seq(Node)
      /\ \A k \in Key : Slot(k, cap) \in 0..(cap - 1)
  BY SlotIn DEF Tidy, Good, Table
<1>2. \A d \in 0..(cap - 1) : chains[d] # <<>> <=> Len(chains[d]) >= 1
  BY <1>1
<1>3. ASSUME NEW k \in KeysOf(chains, cap) PROVE chains[Slot(k, cap)] # <<>>
  <2>1. PICK i \in 1..Len(chains[Slot(k, cap)]) : TRUE
    BY DEF KeysOf, HasKey
  <2> QED
    BY <1>1, <1>2, <2>1 DEF KeysOf
<1>4. ASSUME NonEmpty(c) = {}, NEW k \in KeysOf(chains, cap) PROVE Slot(k, cap) < c
  BY <1>1, <1>3, <1>4 DEF NonEmpty, KeysOf
<1>5. ASSUME NonEmpty(c) # {}
      PROVE  LET d == First(NonEmpty(c))
             IN /\ d \in 0..(cap - 1) /\ d \in Nat /\ c <= d
                /\ 1 \in 1..Len(chains[d])
                /\ AtPlace(d, 1, chains[d][1].key,
                           {k \in KeysOf(chains, cap) : Slot(k, cap) < c}, chains, cap)
  <2> DEFINE d == First(NonEmpty(c))
  <2>1. NonEmpty(c) \in SUBSET Nat
    BY <1>1 DEF NonEmpty
  <2>2. d \in NonEmpty(c) /\ \A j \in NonEmpty(c) : d <= j
    BY <1>5, <2>1, FirstIs
  <2> HIDE DEF d
  <2>3. d \in 0..(cap - 1) /\ d \in Nat /\ c <= d /\ chains[d] # <<>>
    BY <1>1, <2>2 DEF NonEmpty
  <2>4. 1 \in 1..Len(chains[d])
    BY <1>1, <1>2, <2>3
  <2>5. ASSUME NEW k \in KeysOf(chains, cap), Slot(k, cap) < d PROVE Slot(k, cap) < c
    <3>1. Slot(k, cap) \in 0..(cap - 1) /\ chains[Slot(k, cap)] # <<>>
      BY <1>1, <1>3 DEF KeysOf
    <3>2. Slot(k, cap) \notin NonEmpty(c)
      BY <1>1, <2>2, <2>3, <2>5, <3>1
    <3> QED
      BY <1>1, <3>1, <3>2 DEF NonEmpty
  <2>6. \A k \in KeysOf(chains, cap) : Slot(k, cap) < c => Slot(k, cap) < d
    <3>1. \A k \in KeysOf(chains, cap) : Slot(k, cap) \in Nat
      BY <1>1 DEF KeysOf
    <3> QED
      BY <2>3, <3>1
  <2>7. Before(d, 1, chains, cap) = {k \in KeysOf(chains, cap) : Slot(k, cap) < c}
    <3>1. ~ \E q \in 1..(1 - 1) : TRUE
      OBVIOUS
    <3>2. \A k \in KeysOf(chains, cap) : k \in Before(d, 1, chains, cap) <=> Slot(k, cap) < d
      BY <3>1 DEF Before
    <3>3. Before(d, 1, chains, cap) \subseteq KeysOf(chains, cap)
      BY DEF Before
    <3> QED
      BY <2>5, <2>6, <3>2, <3>3
  <2>8. AtPlace(d, 1, chains[d][1].key,
                {k \in KeysOf(chains, cap) : Slot(k, cap) < c}, chains, cap)
    BY <2>3, <2>4, <2>7 DEF AtPlace
  <2> QED
    BY <2>3, <2>4, <2>8 DEF d
<1> QED
  BY <1>4, <1>5

\* hm_reset_iterator.
LEMMA ResetStep ==
    ASSUME Tidy, IterTypes, HmResetIterator
    PROVE  IterTypes' /\ Visits(iterChain', iter', visited', chains', cap')
<1>1. visited' = {} /\ out' = {} /\ chains' = chains /\ cap' = cap
  BY DEF HmResetIterator
<1>2. \A k \in KeysOf(chains, cap) : ~ (Slot(k, cap) < 0)
  BY SlotIn DEF KeysOf, Tidy, Good
<1>3. CASE NonEmpty(0) = {}
  <2>1. iter' = Nobody /\ iterChain' = iterChain
    BY <1>3 DEF HmResetIterator
  <2>2. KeysOf(chains, cap) = {}
    BY <1>2, <1>3, NonEmptyIs
  <2> QED
    BY <1>1, <2>1, <2>2 DEF IterTypes, Visits
<1>4. CASE NonEmpty(0) # {}
  <2> DEFINE d == First(NonEmpty(0))
  <2>1. iterChain' = d /\ iter' = chains[d][1].key
    BY <1>4 DEF HmResetIterator
  <2>2. /\ d \in 0..(cap - 1) /\ d \in Nat /\ 1 \in 1..Len(chains[d])
        /\ AtPlace(d, 1, chains[d][1].key,
                   {k \in KeysOf(chains, cap) : Slot(k, cap) < 0}, chains, cap)
    BY <1>4, NonEmptyIs
  <2> HIDE DEF d
  <2>3. {k \in KeysOf(chains, cap) : Slot(k, cap) < 0} = {}
    BY <1>2
  <2>4. AtPlace(d, 1, chains[d][1].key, {}, chains, cap)
    BY <2>2, <2>3
  <2>5. chains[d][1].key \in Key /\ chains[d][1].key # Nobody
    BY <2>2, KeyPlace, HashMapAssumption DEF Tidy
  <2> QED
    BY <1>1, <2>1, <2>2, <2>4, <2>5 DEF IterTypes, Visits
<1> QED
  BY <1>3, <1>4

\* hm_next_kvp hands out a pair it had not, and goes to the next place.
LEMMA NextKvpStep ==
    ASSUME Tidy, IterInv, HmNextKvp
    PROVE  /\ IterTypes' /\ Visits(iterChain', iter', visited', chains', cap')
           /\ iter \in KeysOf(chains, cap) \ visited /\ visited' = visited \cup {iter}
           /\ out' = {<<iter, ContentsOf(chains, cap)[iter]>>}
<1>1. /\ iterating /\ iter # Nobody
      /\ visited' = visited \cup {iter} /\ chains' = chains /\ cap' = cap
  BY DEF HmNextKvp
<1>2. PICK p \in 1..Len(chains[iterChain]) : AtPlace(iterChain, p, iter, visited, chains, cap)
  BY <1>1 DEF IterInv, Visits
<1> DEFINE c == iterChain  chain == chains[c]
           place == CHOOSE i \in DOMAIN chain : chain[i].key = iter
           rest == NonEmpty(c + 1)
<1>3. /\ c \in 0..(cap - 1) /\ c \in Nat /\ chain \in Seq(Node) /\ DOMAIN chain = 1..Len(chain)
      /\ chain[p].key = iter /\ Len(chain) \in Nat /\ p \in 1..Len(chain)
  BY <1>2 DEF AtPlace, Tidy, Good, Table
<1>4. /\ chain[p] \in Node /\ chain[p].val \in Value /\ In(chain[p], chains, cap)
      /\ \A q \in 1..Len(chain) : chain[q].key = iter => q = p
  BY <1>3, KeyPlace DEF Tidy
<1>5. place = p
  BY <1>3, <1>4
<1>6. /\ out' = {<<iter, chain[place].val>>}
      /\ \/ place < Len(chain) /\ iter' = chain[place + 1].key /\ iterChain' = c
         \/ /\ place = Len(chain) /\ rest # {}
            /\ iterChain' = First(rest) /\ iter' = chains[First(rest)][1].key
         \/ place = Len(chain) /\ rest = {} /\ iterChain' = cap /\ iter' = Nobody
  BY DEF HmNextKvp
<1>7. /\ iter \in Key /\ iter \in KeysOf(chains, cap) /\ iter \notin visited
      /\ visited \subseteq KeysOf(chains, cap)
      /\ p + 1 \in 1..Len(chain) => visited \cup {iter} = Before(c, p + 1, chains, cap)
      /\ p = Len(chain) => visited \cup {iter} = {k \in KeysOf(chains, cap) : Slot(k, cap) <= c}
  BY <1>2, <1>3, UpTo DEF Tidy
<1> HIDE DEF place, c, chain
<1>8. out' = {<<iter, ContentsOf(chains, cap)[iter]>>} /\ out' \subseteq Key \X Value
  <2>1. ContentsOf(chains, cap)[iter] = chain[p].val
    BY <1>3, <1>4, <1>7, ContentsAre DEF Tidy
  <2> QED
    BY <1>4, <1>5, <1>6, <1>7, <2>1
<1>9. visited' \subseteq Key
  BY <1>1, <1>7 DEF KeysOf
<1>10. CASE place < Len(chain) /\ iter' = chain[place + 1].key /\ iterChain' = c
  <2>1. p + 1 \in 1..Len(chain) /\ iter' = chain[p + 1].key
    BY <1>3, <1>5, <1>10
  <2>2. iter' \in Key /\ iter' # Nobody
    BY <1>3, <2>1, KeyPlace, HashMapAssumption DEF Tidy, chain
  <2>3. AtPlace(c, p + 1, iter', visited', chains, cap)
    BY <1>1, <1>3, <1>7, <2>1 DEF AtPlace, chain
  <2> QED
    BY <1>1, <1>3, <1>7, <1>8, <1>9, <1>10, <2>1, <2>2, <2>3 DEF IterTypes, Visits, chain
<1>11. {k \in KeysOf(chains, cap) : Slot(k, cap) <= c}
          = {k \in KeysOf(chains, cap) : Slot(k, cap) < c + 1}
  BY <1>3, SlotIn DEF KeysOf, Tidy, Good
<1>12. CASE /\ place = Len(chain) /\ rest # {}
            /\ iterChain' = First(rest) /\ iter' = chains[First(rest)][1].key
  <2> DEFINE d == First(rest)
  <2>1. /\ d \in 0..(cap - 1) /\ d \in Nat /\ 1 \in 1..Len(chains[d])
        /\ AtPlace(d, 1, chains[d][1].key,
                   {k \in KeysOf(chains, cap) : Slot(k, cap) < c + 1}, chains, cap)
    <3>1. c + 1 \in Nat
      BY <1>3
    <3> QED
      BY <1>12, <3>1, NonEmptyIs
  <2> HIDE DEF d
  <2>2. visited' = {k \in KeysOf(chains, cap) : Slot(k, cap) < c + 1}
    BY <1>1, <1>5, <1>7, <1>11, <1>12
  <2>3. iterChain' = d /\ iter' = chains[d][1].key
    BY <1>12 DEF d
  <2>4. iter' \in Key /\ iter' # Nobody
    BY <2>1, <2>3, KeyPlace, HashMapAssumption DEF Tidy
  <2>5. AtPlace(d, 1, iter', visited', chains, cap)
    BY <2>1, <2>2, <2>3
  <2> QED
    BY <1>1, <1>7, <1>8, <1>9, <2>1, <2>3, <2>4, <2>5 DEF IterTypes, Visits
<1>13. CASE place = Len(chain) /\ rest = {} /\ iterChain' = cap /\ iter' = Nobody
  <2>1. \A k \in KeysOf(chains, cap) : Slot(k, cap) < c + 1
    <3>1. c + 1 \in Nat
      BY <1>3
    <3> QED
      BY <1>13, <3>1, NonEmptyIs
  <2>2. visited' = KeysOf(chains, cap)
    BY <1>1, <1>5, <1>7, <1>11, <1>13, <2>1
  <2>3. cap \in Nat
    BY DEF Tidy, Good
  <2> QED
    BY <1>1, <1>7, <1>8, <1>9, <1>13, <2>2, <2>3 DEF IterTypes, Visits
<1> QED
  BY <1>6, <1>10, <1>12, <1>13

\* What a lookup finds is what the map holds.
LEMMA FoundIs ==
    ASSUME Tidy, NEW k \in Key
    PROVE  /\ Found(k) = IF ContentsOf(chains, cap)[k] = NoValue THEN {}
                         ELSE {<<k, ContentsOf(chains, cap)[k]>>}
           /\ Found(k) \subseteq Key \X Value
<1>1. CASE Places(k) = {}
  <2>1. ContentsOf(chains, cap)[k] = NoValue
    BY <1>1, PlacesAre, ContentsAre DEF Tidy
  <2> QED
    BY <1>1, <2>1 DEF Found
<1>2. CASE Places(k) # {}
  <2>1. NodeOf(k) \in Node /\ NodeOf(k).key = k /\ In(NodeOf(k), chains, cap)
    BY <1>2, PlacesAre
  <2>2. ContentsOf(chains, cap)[k] = NodeOf(k).val /\ NodeOf(k).val \in Value
    BY <2>1, ContentsAre, NodeKey DEF Tidy
  <2>3. NodeOf(k).val # NoValue
    BY <2>2, HashMapAssumption
  <2> QED
    BY <1>2, <2>2, <2>3 DEF Found
<1> QED
  BY <1>1, <1>2

HmInv == TableInv /\ IterInv

LEMMA InitInv == Init => HmInv /\ FlagOK
<1> SUFFICES ASSUME Init PROVE HmInv /\ FlagOK
  OBVIOUS
<1>1. TableInv
  BY InitTable
<1>2. IterTypes /\ iterating = FALSE
  BY DEF Init, IterTypes
<1> QED
  BY <1>1, <1>2 DEF HmInv, IterInv, FlagOK

LEMMA StepFlag == FlagOK /\ [Next]_vars => FlagOK'
  BY DEF FlagOK, Next, vars, DeleteHashMap, HmResetIterator, HmNextKvp, HmExhausted, HmGet,
     HmRemove, HmPut

LEMMA StepInv == HmInv /\ [Next]_vars => HmInv'
<1> SUFFICES ASSUME Tidy, Counted, IterInv, [Next]_vars, TableInv' PROVE IterInv'
  BY StepTable DEF HmInv, TableInv
<1>1. CASE UNCHANGED vars
  BY <1>1 DEF vars, IterInv, IterTypes
<1>2. CASE DeleteHashMap
  <2>1. /\ iterChain' = 0 /\ iter' \in Key \cup {Nobody} /\ visited' = {} /\ out' = {}
        /\ iterating' = FALSE
    BY <1>2 DEF DeleteHashMap
  <2> QED
    BY <2>1 DEF IterInv, IterTypes
<1>3. CASE HmResetIterator
  BY <1>3, ResetStep DEF IterInv
<1>4. CASE HmNextKvp
  BY <1>4, NextKvpStep DEF IterInv
<1>5. CASE HmExhausted
  BY <1>5 DEF HmExhausted, IterInv, IterTypes
<1>6. ASSUME NEW k \in Key, HmGet(k) PROVE IterInv'
  <2>1. out' \subseteq Key \X Value
    BY <1>6, FoundIs DEF HmGet
  <2> QED
    BY <1>6, <2>1 DEF HmGet, IterInv, IterTypes
<1>7. ASSUME NEW k \in Key, HmRemove(k) PROVE IterInv'
  <2>1. out' \subseteq Key \X Value
    BY <1>7, FoundIs DEF HmRemove
  <2>2. iterating' = FALSE /\ visited' = {} /\ iterChain' = iterChain /\ iter' = iter
    BY <1>7 DEF HmRemove
  <2> QED
    BY <2>1, <2>2 DEF IterInv, IterTypes
<1>8. ASSUME NEW k \in Key, NEW v \in Value, HmPut(k, v) PROVE IterInv'
  <2>1. iterating' = FALSE /\ visited' = {} /\ out' = {} /\ iterChain' = iterChain /\ iter' = iter
    BY <1>8 DEF HmPut
  <2> QED
    BY <2>1 DEF IterInv, IterTypes
<1> QED
  BY <1>1, <1>2, <1>3, <1>4, <1>5, <1>6, <1>7, <1>8 DEF Next

\* The types of the table, of the iterator and of the pairs that are handed out.
THEOREM TypeCorrect == Spec => []TypeOK
<1>1. HmInv /\ FlagOK => TypeOK
  <2> SUFFICES ASSUME HmInv, FlagOK PROVE TypeOK
    OBVIOUS
  <2>1. numKeys \in Nat /\ cap \in Nat \ {0} /\ chains \in [0..(cap - 1) -> Seq(Node)]
    BY CountIsNat DEF HmInv, TableInv, Tidy, Good, Table
  <2>2. IterTypes /\ iterating \in BOOLEAN
    BY DEF HmInv, IterInv, FlagOK
  <2> QED
    BY <2>1, <2>2 DEF TypeOK, IterTypes
<1> QED
  BY InitInv, StepInv, StepFlag, <1>1, PTL DEF Spec

----------------------------------------------------------------------------
(* The refinement: each operation is that of MapADT.                       *)

\* The keys of the map are those that can be found.
LEMMA AdtKeys == ASSUME Tidy PROVE ADT!Keys = KeysOf(chains, cap)
<1>1. Contents = ContentsOf(chains, cap)
  BY ContentsNow
<1>2. ASSUME NEW k \in Key
      PROVE  ContentsOf(chains, cap)[k] # NoValue <=> HasKey(k, chains, cap)
  BY ContentsAre, HashMapAssumption DEF Tidy
<1> QED
  BY <1>1, <1>2 DEF ADT!Keys, KeysOf

LEMMA AdtFound == ASSUME Tidy, NEW k \in Key PROVE Found(k) = ADT!Found(k)
  BY ContentsNow, FoundIs DEF ADT!Found

LEMMA RefineInit == Init => ADT!Init
<1> SUFFICES ASSUME Init PROVE ADT!Init
  OBVIOUS
<1>1. Tidy
  BY InitTable DEF TableInv
<1>2. chains = Empty(InitialCap) /\ cap = InitialCap
  BY DEF Init, Empty
<1>3. Contents = [k \in Key |-> NoValue]
  BY <1>1, <1>2, ContentsNow, NewTable
<1> QED
  BY <1>3 DEF Init, ADT!Init

LEMMA RefineStep == HmInv /\ HmInv' /\ [Next]_vars => [ADT!Next]_ADT!vars
<1> SUFFICES ASSUME Tidy, Tidy', Counted, IterInv, [Next]_vars PROVE [ADT!Next]_ADT!vars
  BY DEF HmInv, TableInv
<1>0. Contents = ContentsOf(chains, cap) /\ Contents' = ContentsOf(chains', cap')
  BY ContentsNow, ContentsNext
<1>1. CASE UNCHANGED vars
  BY <1>0, <1>1 DEF vars, ADT!vars
<1>2. CASE DeleteHashMap
  <2>1. /\ chains' = Empty(InitialCap) /\ cap' = InitialCap
        /\ visited' = {} /\ iterating' = FALSE /\ out' = {}
    BY <1>2 DEF DeleteHashMap, Empty
  <2>2. Contents' = [k \in Key |-> NoValue]
    BY <1>0, <2>1, NewTable
  <2> QED
    BY <2>1, <2>2 DEF ADT!Renew, ADT!Modified, ADT!Next
<1>3. CASE HmResetIterator
  <2>1. Contents' = Contents /\ visited' = {} /\ iterating' = TRUE /\ out' = {}
    BY <1>0, <1>3 DEF HmResetIterator
  <2> QED
    BY <2>1 DEF ADT!ResetIterator, ADT!Next
<1>4. CASE HmNextKvp
  <2>1. /\ iterating /\ iterating' = iterating /\ chains' = chains /\ cap' = cap
    BY <1>4 DEF HmNextKvp
  <2>2. /\ iter \in ADT!Keys \ visited /\ visited' = visited \cup {iter}
        /\ out' = {<<iter, Contents[iter]>>}
    BY <1>0, <1>4, NextKvpStep, AdtKeys
  <2>3. out' = ADT!Found(iter)
    BY <2>2 DEF ADT!Found, ADT!Keys
  <2>4. Contents' = Contents
    BY <1>0, <2>1
  <2>5. ADT!NextKvp
    BY <2>1, <2>2, <2>3, <2>4 DEF ADT!NextKvp
  <2> QED
    BY <2>5 DEF ADT!Next
<1>5. CASE HmExhausted
  <2>1. /\ iterating /\ iterating' = iterating /\ visited' = visited /\ out' = {}
        /\ iter = Nobody /\ chains' = chains /\ cap' = cap
    BY <1>5 DEF HmExhausted
  <2>2. visited = ADT!Keys
    BY <2>1, AdtKeys DEF IterInv, Visits
  <2>3. Contents' = Contents
    BY <1>0, <2>1
  <2>4. ADT!NextKvp
    BY <2>1, <2>2, <2>3 DEF ADT!NextKvp
  <2> QED
    BY <2>4 DEF ADT!Next
<1>6. ASSUME NEW k \in Key, HmGet(k) PROVE ADT!Next
  <2>1. Contents' = Contents /\ visited' = visited /\ iterating' = iterating /\ out' = ADT!Found(k)
    BY <1>0, <1>6, AdtFound DEF HmGet
  <2>2. ADT!Get(k)
    BY <2>1 DEF ADT!Get
  <2> QED
    BY <2>2 DEF ADT!Next
<1>7. ASSUME NEW k \in Key, HmRemove(k) PROVE ADT!Next
  <2>1. iterating' = FALSE /\ visited' = {} /\ out' = ADT!Found(k)
    BY <1>7, AdtFound DEF HmRemove
  <2>2. Contents' = [Contents EXCEPT ![k] = NoValue]
    BY <1>0, <1>7, RemoveStep, WithoutKeyIs DEF Tidy
  <2>3. ADT!Remove(k)
    BY <2>1, <2>2 DEF ADT!Remove, ADT!Modified
  <2> QED
    BY <2>3 DEF ADT!Next
<1>8. ASSUME NEW k \in Key, NEW v \in Value, HmPut(k, v) PROVE ADT!Next
  <2>1. iterating' = FALSE /\ visited' = {} /\ out' = {}
    BY <1>8 DEF HmPut
  <2>2. Contents' = [Contents EXCEPT ![k] = v]
    BY <1>0, <1>8, PutStep, WithKeyIs DEF Tidy
  <2>3. ADT!Put(k, v)
    BY <2>1, <2>2 DEF ADT!Put, ADT!Modified
  <2> QED
    BY <2>3 DEF ADT!Next
<1> QED
  BY <1>1, <1>2, <1>3, <1>4, <1>5, <1>6, <1>7, <1>8 DEF Next

\* The hash map is a map: through collisions, resizes and removals every
\* operation of map.c:49-219 does what map.h promises, and the iterator returns
\* every pair once before it says that there are no more.
THEOREM HashMapIsAMap == Spec => Map
  BY InitInv, StepInv, RefineInit, RefineStep, PTL DEF Spec, Map, ADT!Spec

=============================================================================
