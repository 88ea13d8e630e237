------------------------- MODULE SharedStringProofs -------------------------
(***************************************************************************)
(* The reference counts of chutil/src/string.c are exact, no buffer is     *)
(* overrun, and strings that share a buffer behave as strings of their     *)
(* own.                                                                    *)
(***************************************************************************)
EXTENDS SharedString, TLAPS, FiniteSetTheorems, SequenceTheorems, WellFoundedInduction

----------------------------------------------------------------------------
(* Counting the strings that refer to an address. *)

\* How many strings refer to a, when f says what each refers to.
Refs(f, a) == Cardinality({s \in Handle : f[s] = a})

LEMMA RefsType ==
    ASSUME NEW f, NEW a
    PROVE  /\ Refs(f, a) \in Nat
           /\ Refs(f, a) = 0 <=> \A s \in Handle : f[s] # a
  <1> DEFINE S == {s \in Handle : f[s] = a}
  <1>1. IsFiniteSet(S)
    <2>1. S \in SUBSET Handle
      OBVIOUS
    <2> QED
      BY <2>1, FS_Subset, StringAssumption
  <1>2. Refs(f, a) = Cardinality(S) /\ (S = {} <=> \A s \in Handle : f[s] # a)
    BY DEF Refs
  <1> HIDE DEF S
  <1>3. Cardinality(S) \in Nat /\ (Cardinality(S) = 0 <=> S = {})
    BY <1>1, FS_CardinalityType, FS_EmptySet
  <1> QED
    BY <1>2, <1>3

\* Changing what s refers to takes one from the one and gives it to the other.
LEMMA Redirect ==
    ASSUME NEW f \in [Handle -> Addr \cup {Null}], NEW g \in [Handle -> Addr \cup {Null}],
           NEW s \in Handle, \A t \in Handle : t # s => g[t] = f[t], NEW a
    PROVE  /\ g[s] = a /\ f[s] # a => Refs(g, a) = Refs(f, a) + 1
           /\ g[s] # a /\ f[s] = a => Refs(g, a) = Refs(f, a) - 1
           /\ (g[s] = a <=> f[s] = a) => Refs(g, a) = Refs(f, a)
  <1> DEFINE rest == {t \in Handle : t # s /\ f[t] = a}
             S == {t \in Handle : f[t] = a}
             T == {t \in Handle : g[t] = a}
  <1>1. IsFiniteSet(rest) /\ s \notin rest
    <2>1. rest \in SUBSET Handle
      OBVIOUS
    <2> QED
      BY <2>1, FS_Subset, StringAssumption
  <1>2. /\ S = IF f[s] = a THEN rest \cup {s} ELSE rest
        /\ T = IF g[s] = a THEN rest \cup {s} ELSE rest
    OBVIOUS
  <1>3. Refs(f, a) = Cardinality(S) /\ Refs(g, a) = Cardinality(T)
    BY DEF Refs
  <1> HIDE DEF rest, S, T
  <1>4. Cardinality(rest) \in Nat /\ Cardinality(rest \cup {s}) = Cardinality(rest) + 1
    BY <1>1, FS_CardinalityType, FS_AddElement
  <1> QED
    BY <1>2, <1>3, <1>4

\* What is referred to once has only one string.
LEMMA OnlyOne ==
    ASSUME NEW f \in [Handle -> Addr \cup {Null}], NEW s \in Handle, NEW t \in Handle,
           f[s] \in Addr, f[t] = f[s], s # t
    PROVE  Refs(f, f[s]) > 1
  <1> DEFINE g == [f EXCEPT ![s] = Null]
  <1>1. /\ g \in [Handle -> Addr \cup {Null}]
        /\ \A u \in Handle : u # s => g[u] = f[u]
        /\ g[s] # f[s] /\ g[t] = f[s]
    BY StringAssumption
  <1> HIDE DEF g
  <1>2. Refs(g, f[s]) = Refs(f, f[s]) - 1
    BY <1>1, Redirect
  <1>3. Refs(g, f[s]) # 0 /\ Refs(g, f[s]) \in Nat /\ Refs(f, f[s]) \in Nat
    BY <1>1, RefsType
  <1> QED
    BY <1>2, <1>3

----------------------------------------------------------------------------
(* The inductive invariant. *)

IInv == TypeOK /\ RefCountExact /\ NoOverrun

\* What exact counts say of sharing: a string's address is not free, and is its
\* own when it is referred to once.
LEMMA Sharing ==
    ASSUME TypeOK, RefCountExact, NEW s \in Handle, Live(s)
    PROVE  /\ str[s] \in Addr
           /\ ref[str[s]] > 0 /\ ref[str[s]] \in Nat
           /\ kind[str[s]] # "free"
           /\ \A t \in Handle : ref[str[s]] = 1 /\ str[t] = str[s] => t = s
           /\ \A a \in Addr : kind[a] = "free" => \A t \in Handle : str[t] # a
  <1>1. str[s] \in Addr /\ str \in [Handle -> Addr \cup {Null}]
    BY DEF TypeOK, Live
  <1>2. \A a \in Addr : ref[a] = Refs(str, a) /\ (kind[a] = "free" <=> ref[a] = 0)
    BY DEF RefCountExact, Refs
  <1>3. ASSUME NEW a \in Addr
        PROVE  ref[a] \in Nat /\ (ref[a] = 0 <=> \A t \in Handle : str[t] # a)
    BY <1>2, RefsType
  <1>4. \A t \in Handle : str[t] = str[s] /\ t # s => ref[str[s]] > 1
    BY <1>1, <1>2, OnlyOne
  <1> QED
    BY <1>1, <1>2, <1>3, <1>4

LEMMA InitInv == Init => IInv
  <1> SUFFICES ASSUME Init
               PROVE  IInv
    OBVIOUS
  <1>1. TypeOK /\ NoOverrun
    BY DEF Init, TypeOK, NoOverrun
  <1>2. \A a \in Addr : Refs(str, a) = 0
    BY RefsType, StringAssumption DEF Init
  <1>3. RefCountExact
    BY <1>2 DEF Init, RefCountExact, Refs
  <1> QED
    BY <1>1, <1>3 DEF IInv

\* The counts stay exact when s is made to refer to b and they follow.
LEMMA Counting ==
    ASSUME TypeOK, RefCountExact, TypeOK',
           NEW s \in Handle, \A t \in Handle : t # s => str'[t] = str[t],
           \A a \in Addr : /\ str'[s] = a /\ str[s] # a => ref'[a] = ref[a] + 1
                           /\ str'[s] # a /\ str[s] = a => ref'[a] = ref[a] - 1
                           /\ (str'[s] = a <=> str[s] = a) => ref'[a] = ref[a]
    PROVE  \A a \in Addr : ref'[a] = Refs(str', a)
  <1>1. /\ str \in [Handle -> Addr \cup {Null}]
        /\ str' \in [Handle -> Addr \cup {Null}]
    BY DEF TypeOK
  <1> SUFFICES ASSUME NEW a \in Addr
               PROVE  ref'[a] = Refs(str', a)
    OBVIOUS
  <1>2. ref[a] = Refs(str, a)
    BY DEF RefCountExact, Refs
  <1>3. /\ str'[s] = a /\ str[s] # a => Refs(str', a) = Refs(str, a) + 1
        /\ str'[s] # a /\ str[s] = a => Refs(str', a) = Refs(str, a) - 1
        /\ (str'[s] = a <=> str[s] = a) => Refs(str', a) = Refs(str, a)
    BY <1>1, Redirect
  <1> QED
    BY <1>2, <1>3

\* A new buffer for a string that there was not.
LEMMA StepNew ==
    ASSUME IInv, NEW s \in Handle, NEW a \in Addr, NEW x \in Seq(Nat),
           ~ Live(s), str' = [str EXCEPT ![s] = a],
           \/ NewShared(a, x, 1)
           \/ NewStringFromLiteral(s, a, x)
    PROVE  IInv'
  <1>1. /\ str[s] = Null /\ Null \notin Addr /\ kind[a] = "free" /\ ref[a] = 0
        /\ ref' = [ref EXCEPT ![a] = 1] /\ chars' = [chars EXCEPT ![a] = x]
        /\ \/ kind' = [kind EXCEPT ![a] = "shared"] /\ cap' = [cap EXCEPT ![a] = Larger(1, Len(x) + 1)]
           \/ kind' = [kind EXCEPT ![a] = "literal"] /\ cap' = cap
    BY StringAssumption DEF IInv, Live, NewShared, NewStringFromLiteral, RefCountExact
  <1>2. Larger(1, Len(x) + 1) \in Nat /\ Len(x) < Larger(1, Len(x) + 1)
    BY DEF Larger
  <1>3. TypeOK'
    <2>1. /\ str' \in [Handle -> Addr \cup {Null}] /\ ref' \in [Addr -> Nat]
          /\ chars' \in [Addr -> Seq(Nat)]
          /\ kind' \in [Addr -> {"free", "shared", "literal"}]
      BY <1>1 DEF IInv, TypeOK
    <2>2. cap' \in [Addr -> Nat]
      BY <1>1, <1>2 DEF IInv, TypeOK
    <2> QED
      BY <2>1, <2>2 DEF TypeOK
  <1>4. \A c \in Addr : ref'[c] = Refs(str', c)
    <2>1. /\ str'[s] = a /\ \A t \in Handle : t # s => str'[t] = str[t]
          /\ ref'[a] = ref[a] + 1 /\ \A c \in Addr : c # a => ref'[c] = ref[c]
      BY <1>1 DEF IInv, TypeOK
    <2>2. \A c \in Addr : /\ str'[s] = c /\ str[s] # c => ref'[c] = ref[c] + 1
                          /\ str'[s] # c /\ str[s] = c => ref'[c] = ref[c] - 1
                          /\ (str'[s] = c <=> str[s] = c) => ref'[c] = ref[c]
      BY <1>1, <2>1
    <2> QED
      BY <1>3, <2>1, <2>2, Counting DEF IInv
  <1>5. RefCountExact'
    BY <1>1, <1>4 DEF IInv, TypeOK, RefCountExact, Refs
  <1>6. NoOverrun'
    BY <1>1, <1>2 DEF IInv, TypeOK, NoOverrun
  <1> QED
    BY <1>3, <1>5, <1>6 DEF IInv

LEMMA StepDelete ==
    ASSUME IInv, NEW s \in Handle, DeleteString(s)
    PROVE  IInv'
  <1> DEFINE a == str[s]
  <1>1. /\ a \in Addr /\ ref[a] > 0 /\ kind[a] # "free" /\ Null \notin Addr
        /\ str' = [str EXCEPT ![s] = Null] /\ ref' = [ref EXCEPT ![a] = @ - 1]
        /\ \/ /\ ref[a] = 1 /\ kind' = [kind EXCEPT ![a] = "free"]
              /\ chars' = [chars EXCEPT ![a] = <<>>] /\ cap' = [cap EXCEPT ![a] = 0]
           \/ ref[a] # 1 /\ UNCHANGED <<kind, chars, cap>>
    BY Sharing, StringAssumption DEF IInv, DeleteString, LastReference
  <1> HIDE DEF a
  <1>2. TypeOK'
    <2>1. str' \in [Handle -> Addr \cup {Null}] /\ ref' \in [Addr -> Nat]
      BY <1>1 DEF IInv, TypeOK
    <2>2. CASE UNCHANGED <<kind, chars, cap>>
      BY <2>1, <2>2 DEF IInv, TypeOK
    <2>3. CASE /\ kind' = [kind EXCEPT ![a] = "free"]
               /\ chars' = [chars EXCEPT ![a] = <<>>] /\ cap' = [cap EXCEPT ![a] = 0]
      <3> DEFINE e == <<>>
      <3>a. e \in Seq(Nat) /\ chars' = [chars EXCEPT ![a] = e]
        BY <2>3
      <3> HIDE DEF e
      <3>1. chars' \in [Addr -> Seq(Nat)]
        BY <3>a DEF IInv, TypeOK
      <3> QED
        BY <2>1, <2>3, <3>1 DEF IInv, TypeOK
    <2> QED
      BY <1>1, <2>2, <2>3
  <1>3. \A c \in Addr : ref'[c] = Refs(str', c)
    <2>1. /\ str'[s] = Null /\ \A t \in Handle : t # s => str'[t] = str[t]
          /\ ref'[a] = ref[a] - 1 /\ \A c \in Addr : c # a => ref'[c] = ref[c]
      BY <1>1 DEF IInv, TypeOK
    <2>2. \A c \in Addr : /\ str'[s] = c /\ str[s] # c => ref'[c] = ref[c] + 1
                          /\ str'[s] # c /\ str[s] = c => ref'[c] = ref[c] - 1
                          /\ (str'[s] = c <=> str[s] = c) => ref'[c] = ref[c]
      BY <1>1, <2>1 DEF a
    <2> QED
      BY <1>2, <2>1, <2>2, Counting DEF IInv
  <1>4. RefCountExact'
    BY <1>1, <1>3 DEF IInv, TypeOK, RefCountExact, Refs
  <1>5. NoOverrun'
    BY <1>1 DEF IInv, TypeOK, NoOverrun
  <1> QED
    BY <1>2, <1>4, <1>5 DEF IInv

LEMMA StepCopy ==
    ASSUME IInv, NEW s \in Handle, NEW t \in Handle, SCopy(s, t)
    PROVE  IInv'
  <1> DEFINE a == str[s]
  <1>1. /\ a \in Addr /\ ref[a] > 0 /\ kind[a] # "free" /\ Null \notin Addr
        /\ str[t] = Null /\ str' = [str EXCEPT ![t] = a] /\ ref' = [ref EXCEPT ![a] = @ + 1]
        /\ UNCHANGED <<kind, chars, cap>>
    BY Sharing, StringAssumption DEF IInv, SCopy, Live
  <1> HIDE DEF a
  <1>2. TypeOK'
    BY <1>1 DEF IInv, TypeOK
  <1>3. \A c \in Addr : ref'[c] = Refs(str', c)
    <2>1. /\ str'[t] = a /\ \A u \in Handle : u # t => str'[u] = str[u]
          /\ ref'[a] = ref[a] + 1 /\ \A c \in Addr : c # a => ref'[c] = ref[c]
      BY <1>1 DEF IInv, TypeOK
    <2>2. \A c \in Addr : /\ str'[t] = c /\ str[t] # c => ref'[c] = ref[c] + 1
                          /\ str'[t] # c /\ str[t] = c => ref'[c] = ref[c] - 1
                          /\ (str'[t] = c <=> str[t] = c) => ref'[c] = ref[c]
      BY <1>1, <2>1
    <2> QED
      BY <1>2, <2>1, <2>2, Counting DEF IInv
  <1>4. RefCountExact'
    BY <1>1, <1>3 DEF IInv, TypeOK, RefCountExact, Refs
  <1>5. NoOverrun'
    BY <1>1 DEF IInv, TypeOK, NoOverrun
  <1> QED
    BY <1>2, <1>4, <1>5 DEF IInv

\* A change that asks for room for the new characters and a NUL.
LEMMA StepModify ==
    ASSUME IInv, NEW s \in Handle, Live(s), NEW minCap \in Nat, NEW x \in Seq(Nat),
           Len(x) < minCap, PrepareModify(s, minCap, x)
    PROVE  IInv'
  <1> DEFINE old == str[s]
             need == Larger(minCap, Len(chars[old]) + 1)
  <1>1. /\ old \in Addr /\ ref[old] > 0 /\ ref[old] \in Nat /\ kind[old] # "free"
        /\ Null \notin Addr /\ Len(x) \in Nat
    BY Sharing, StringAssumption DEF IInv
  <1>2. need \in Nat /\ Len(x) < need
    BY <1>1 DEF Larger, IInv, TypeOK
  <1>3. CASE kind[old] = "shared" /\ ref[old] = 1
    <2>1. /\ chars' = [chars EXCEPT ![old] = x] /\ UNCHANGED <<str, kind, ref>>
          /\ cap' = [cap EXCEPT ![old] = IF @ >= need THEN @ ELSE Larger(2 * @, need)]
      BY <1>3 DEF PrepareModify
    <2> HIDE DEF old, need
    <2>2. cap'[old] \in Nat /\ Len(x) < cap'[old]
      BY <1>1, <1>2, <2>1 DEF Larger, IInv, TypeOK
    <2>3. TypeOK'
      BY <1>1, <2>1, <2>2 DEF IInv, TypeOK
    <2>4. RefCountExact'
      BY <2>1 DEF IInv, RefCountExact
    <2>5. NoOverrun'
      BY <1>1, <2>1, <2>2 DEF IInv, TypeOK, NoOverrun
    <2> QED
      BY <2>3, <2>4, <2>5 DEF IInv
  <1>4. CASE ~ (kind[old] = "shared" /\ ref[old] = 1)
    <2>1. PICK a \in Addr :
              /\ kind[a] = "free"
              /\ kind' = [kind EXCEPT ![a] = "shared",
                                      ![old] = IF LastReference(old) THEN "free" ELSE @]
              /\ ref' = [ref EXCEPT ![a] = 1, ![old] = @ - 1]
              /\ chars' = [chars EXCEPT ![a] = x,
                                        ![old] = IF LastReference(old) THEN <<>> ELSE @]
              /\ cap' = [cap EXCEPT ![a] = need,
                                    ![old] = IF LastReference(old) THEN 0 ELSE @]
              /\ str' = [str EXCEPT ![s] = a]
      BY <1>4 DEF PrepareModify
    <2> HIDE DEF need
    <2>2. a # old /\ ref[a] = 0
      BY <1>1, <2>1 DEF IInv, RefCountExact
    <2>3. TypeOK'
      <3>1. /\ str' \in [Handle -> Addr \cup {Null}]
            /\ kind' \in [Addr -> {"free", "shared", "literal"}]
        BY <1>1, <2>1 DEF IInv, TypeOK
      <3>2. ref' \in [Addr -> Nat]
        BY <1>1, <2>1, <2>2 DEF IInv, TypeOK
      <3>3. chars' \in [Addr -> Seq(Nat)]
        <4> DEFINE y == IF LastReference(old) THEN <<>> ELSE chars[old]
        <4>1. y \in Seq(Nat)
          BY <1>1 DEF IInv, TypeOK
        <4>2. chars' = [chars EXCEPT ![a] = x, ![old] = y]
          BY <1>1, <2>1, <2>2 DEF IInv, TypeOK
        <4> HIDE DEF y
        <4> QED
          BY <1>1, <4>1, <4>2 DEF IInv, TypeOK
      <3>4. cap' \in [Addr -> Nat]
        BY <1>1, <1>2, <2>1, <2>2 DEF IInv, TypeOK
      <3> QED
        BY <3>1, <3>2, <3>3, <3>4 DEF TypeOK
    <2>4. \A c \in Addr : ref'[c] = Refs(str', c)
      <3>1. /\ str'[s] = a /\ \A t \in Handle : t # s => str'[t] = str[t]
            /\ ref'[a] = ref[a] + 1 /\ ref'[old] = ref[old] - 1
            /\ \A c \in Addr : c \notin {a, old} => ref'[c] = ref[c]
        BY <1>1, <2>1, <2>2 DEF IInv, TypeOK
      <3> QED
        BY <1>1, <2>2, <2>3, <3>1, Counting DEF IInv
    <2>5. /\ kind'[a] = "shared" /\ ref'[a] = 1 /\ ref'[old] = ref[old] - 1
          /\ kind'[old] = IF ref[old] = 1 THEN "free" ELSE kind[old]
          /\ \A c \in Addr : c \notin {a, old} =>
                /\ kind'[c] = kind[c] /\ ref'[c] = ref[c]
                /\ chars'[c] = chars[c] /\ cap'[c] = cap[c]
          /\ chars'[a] = x /\ cap'[a] = need
          /\ ref[old] # 1 => chars'[old] = chars[old] /\ cap'[old] = cap[old]
      BY <1>1, <2>1, <2>2 DEF IInv, TypeOK, LastReference
    <2> HIDE DEF old
    <2>6. RefCountExact'
      <3>1. \A c \in Addr : kind'[c] = "free" <=> ref'[c] = 0
        <4> SUFFICES ASSUME NEW c \in Addr PROVE kind'[c] = "free" <=> ref'[c] = 0
          OBVIOUS
        <4>1. kind[c] = "free" <=> ref[c] = 0
          BY DEF IInv, RefCountExact
        <4> QED
          BY <1>1, <2>5, <4>1
      <3> QED
        BY <2>4, <3>1 DEF RefCountExact, Refs
    <2>7. NoOverrun'
      BY <1>1, <1>2, <2>5 DEF IInv, TypeOK, NoOverrun
    <2> QED
      BY <2>3, <2>6, <2>7 DEF IInv
  <1> QED
    BY <1>3, <1>4

----------------------------------------------------------------------------
(* The characters that the operations write. *)

\* A set of naturals has a least one: the form in which induction is used here.
LEMMA Minimal ==
    ASSUME NEW S \in SUBSET Nat, S # {}
    PROVE  \E m \in S : \A n \in S : m <= n
  <1> DEFINE R == OpToRel(<, Nat)
  <1>1. PICK m \in S : \A n \in S : ~ (<<n, m>> \in R)
    BY NatLessThanWellFounded, WFMin
  <1>2. \A n \in S : <<n, m>> \in R <=> n < m
    BY DEF OpToRel
  <1> HIDE DEF R
  <1>3. \A n \in S : ~ (n < m)
    BY <1>1, <1>2, Zenon
  <1> QED
    BY <1>3

LEMMA Texts ==
    ASSUME NEW x \in Text
    PROVE  x \in Seq(Nat)
  <1>1. x \in Seq(Nat \ {0}) /\ (Nat \ {0}) \subseteq Nat
    BY StringAssumption
  <1> QED
    BY <1>1, SeqMonotonic

\* What strlen and strcpy see of a buffer is all there is before the first NUL.
LEMMA CStrUpToNul ==
    ASSUME NEW x \in Seq(Nat)
    PROVE  /\ CStr(x) \in Seq(Nat)
           /\ \E n \in 0..Len(x) : /\ CStr(x) = SubSeq(x, 1, n)
                                   /\ Len(CStr(x)) = n
                                   /\ ADT!UpToNul(x, n)
  <1> DEFINE nuls == {i \in DOMAIN x : x[i] = 0}
  <1>1. Len(x) \in Nat /\ DOMAIN x = 1..Len(x) /\ \A i \in 1..Len(x) : x[i] \in Nat
    BY LenProperties, ElementOfSeq
  <1>2. CASE nuls = {}
    <2>1. CStr(x) = x /\ SubSeq(x, 1, Len(x)) = x
      BY <1>2, SubSeqFull DEF CStr
    <2>2. ADT!UpToNul(x, Len(x))
      BY <1>1, <1>2 DEF ADT!UpToNul
    <2>3. /\ Len(x) \in 0..Len(x) /\ CStr(x) \in Seq(Nat)
          /\ CStr(x) = SubSeq(x, 1, Len(x)) /\ Len(CStr(x)) = Len(x)
      BY <1>1, <2>1
    <2> HIDE DEF nuls
    <2> QED
      BY <2>2, <2>3, Zenon
  <1>3. CASE nuls # {}
    <2> DEFINE k == CHOOSE i \in nuls : \A j \in nuls : i <= j
    <2>1. nuls \in SUBSET Nat
      BY <1>1
    <2>2. k \in nuls /\ \A j \in nuls : k <= j
      <3> HIDE DEF nuls
      <3>1. \E i \in nuls : \A j \in nuls : i <= j
        BY <1>3, <2>1, Minimal
      <3> QED
        BY <3>1, Zenon
    <2>3. CStr(x) = SubSeq(x, 1, k - 1)
      BY <1>3 DEF CStr
    <2> HIDE DEF k
    <2>4. k \in 1..Len(x) /\ x[k] = 0 /\ \A j \in 1..Len(x) : x[j] = 0 => k <= j
      BY <1>1, <2>2
    <2> HIDE DEF nuls
    <2>5. k - 1 \in 0..Len(x) /\ ADT!UpToNul(x, k - 1)
      BY <1>1, <2>4 DEF ADT!UpToNul
    <2>6. /\ SubSeq(x, 1, k - 1) \in Seq(Nat)
          /\ Len(SubSeq(x, 1, k - 1)) = k - 1
      BY <1>1, <2>4, SubSeqProperties
    <2> QED
      BY <2>3, <2>5, <2>6
  <1> QED
    BY <1>2, <1>3

\* What s_substring copies is a part of the string.
LEMMA Parts ==
    ASSUME NEW x \in Seq(Nat), NEW start \in Nat, NEW end \in 0..Len(x)
    PROVE  LET y == IF end <= start THEN <<>> ELSE Part(x, start, end)
           IN /\ y \in Seq(Nat)
              /\ \E from, to \in 0..Len(x) : y = SubSeq(x, from + 1, to)
  <1>1. Len(x) \in Nat /\ \A i \in 1..Len(x) : x[i] \in Nat
    BY LenProperties, ElementOfSeq
  <1>2. CASE end <= start
    <2>1. SubSeq(x, 0 + 1, 0) = <<>> /\ 0 \in 0..Len(x) /\ <<>> \in Seq(Nat)
      BY <1>1, SubSeqEmpty
    <2> QED
      BY <1>2, <2>1
  <1>3. CASE ~ (end <= start)
    <2>1. 0 \in 0..Len(x) /\ end - start \in 0..Len(x) /\ 0 + 1 = 1
      BY <1>1, <1>3
    <2>2. SubSeq(x, 1, end - start) \in Seq(Nat)
      BY <1>1, <2>1, SubSeqProperties
    <2> QED
      BY <1>3, <2>1, <2>2 DEF Part
  <1> QED
    BY <1>2, <1>3

\* What s_append_char, s_append_string and s_set_char write.
LEMMA Written ==
    ASSUME NEW x \in Seq(Nat)
    PROVE  /\ Len(x) \in Nat
           /\ \A c \in Char : /\ Append(x, c) \in Seq(Nat)
                              /\ Len(Append(x, c)) = Len(x) + 1
           /\ \A y \in Seq(Nat) : /\ x \o y \in Seq(Nat)
                                  /\ Len(x \o y) = Len(x) + Len(y)
           /\ \A c \in Char, i \in Nat : i < Len(x) =>
                 /\ [x EXCEPT ![i + 1] = c] \in Seq(Nat)
                 /\ Len([x EXCEPT ![i + 1] = c]) = Len(x)
  <1>1. Len(x) \in Nat /\ Char \subseteq Nat
    BY StringAssumption, LenProperties
  <1>2. \A c \in Char : Append(x, c) \in Seq(Nat) /\ Len(Append(x, c)) = Len(x) + 1
    BY <1>1, AppendProperties
  <1>3. \A y \in Seq(Nat) : x \o y \in Seq(Nat) /\ Len(x \o y) = Len(x) + Len(y)
    BY ConcatProperties
  <1>4. ASSUME NEW c \in Char, NEW i \in Nat, i < Len(x)
        PROVE  /\ [x EXCEPT ![i + 1] = c] \in Seq(Nat)
               /\ Len([x EXCEPT ![i + 1] = c]) = Len(x)
    <2>1. i + 1 \in 1..Len(x) /\ c \in Nat
      BY <1>1, <1>4
    <2> QED
      BY <2>1, ExceptSeq
  <1> QED
    BY <1>1, <1>2, <1>3, <1>4

----------------------------------------------------------------------------
(* The invariant, and each operation as one on strings of their own. *)

LEMMA Vals ==
    ASSUME IInv
    PROVE  /\ ADT!Live = {s \in Handle : Live(s)}
           /\ \A s \in Handle : Val[s] = IF Live(s) THEN chars[str[s]] ELSE Gone
           /\ \A s \in Handle : Live(s) => Val[s] \in Seq(Nat) /\ Val[s] = chars[str[s]]
  <1>1. \A s \in Handle : Val[s] = IF Live(s) THEN chars[str[s]] ELSE Gone
    BY DEF Val
  <1>2. \A s \in Handle : Live(s) => chars[str[s]] \in Seq(Nat)
    BY DEF IInv, TypeOK, Live
  <1>3. Gone \notin Seq(Nat)
    <2>1. Gone[1] = -1 /\ Len(Gone) = 1
      BY DEF Gone
    <2>2. ASSUME Gone \in Seq(Nat)
          PROVE  FALSE
      BY <2>1, <2>2, ElementOfSeq
    <2> QED
      BY <2>2
  <1>4. \A s \in Handle : Live(s) <=> Val[s] # Gone
    BY <1>1, <1>2, <1>3
  <1>5. ADT!Live = {s \in Handle : Live(s)}
    BY <1>4 DEF ADT!Live
  <1> QED
    BY <1>1, <1>2, <1>5

\* A new string is seen through no other.
LEMMA NewVal ==
    ASSUME IInv, NEW s \in Handle, NEW a \in Addr, NEW x \in Seq(Nat),
           ~ Live(s), str' = [str EXCEPT ![s] = a],
           kind[a] = "free", chars' = [chars EXCEPT ![a] = x]
    PROVE  ADT!Make(s, x)
  <1>1. s \notin ADT!Live
    BY Vals
  <1>2. Null \notin Addr /\ \A t \in Handle : str[t] # a
    BY StringAssumption, RefsType DEF IInv, RefCountExact, Refs
  <1>3. ASSUME NEW t \in Handle
        PROVE  Val'[t] = IF t = s THEN x ELSE Val[t]
    <2>1. CASE t = s
      BY <1>2, <2>1 DEF Val, Live, IInv, TypeOK
    <2>2. CASE t # s
      BY <1>2, <2>2 DEF Val, Live, IInv, TypeOK
    <2> QED
      BY <2>1, <2>2
  <1>4. Val' = [t \in Handle |-> Val'[t]] /\ Val = [t \in Handle |-> Val[t]]
    BY DEF Val
  <1>5. Val' = [Val EXCEPT ![s] = x]
    BY <1>3, <1>4
  <1> QED
    BY <1>1, <1>5 DEF ADT!Make

\* delete_string ends one string and no other.
LEMMA DeleteVal ==
    ASSUME IInv, NEW s \in Handle, DeleteString(s)
    PROVE  ADT!Delete(s)
  <1>1. /\ Live(s) /\ Null \notin Addr /\ str' = [str EXCEPT ![s] = Null]
        /\ str[s] \in Addr
        /\ \A t \in Handle : ref[str[s]] = 1 /\ str[t] = str[s] => t = s
        /\ ref[str[s]] # 1 => chars' = chars
        /\ chars' = chars \/ chars' = [chars EXCEPT ![str[s]] = <<>>]
    BY Sharing, StringAssumption DEF IInv, DeleteString, LastReference
  <1>2. ASSUME NEW t \in Handle
        PROVE  Val'[t] = IF t = s THEN Gone ELSE Val[t]
    <2>1. CASE t = s
      BY <1>1, <2>1 DEF Val, Live, IInv, TypeOK
    <2>2. CASE t # s
      <3>1. Live(t)' = Live(t) /\ str'[t] = str[t]
        BY <1>1, <2>2 DEF Live, IInv, TypeOK
      <3>2. Live(t) => chars'[str[t]] = chars[str[t]]
        BY <1>1, <2>2 DEF Live, IInv, TypeOK
      <3> QED
        BY <2>2, <3>1, <3>2 DEF Val
    <2> QED
      BY <2>1, <2>2
  <1>3. Val' = [t \in Handle |-> Val'[t]] /\ Val = [t \in Handle |-> Val[t]]
    BY DEF Val
  <1>4. Val' = [Val EXCEPT ![s] = Gone]
    BY <1>2, <1>3
  <1> QED
    BY <1>1, <1>4, Vals DEF ADT!Delete

\* s_copy makes a string with the same characters.
LEMMA CopyVal ==
    ASSUME IInv, NEW s \in Handle, NEW t \in Handle, SCopy(s, t)
    PROVE  ADT!Make(t, Val[s]) /\ s \in ADT!Live
  <1>1. /\ Live(s) /\ ~ Live(t) /\ Null \notin Addr /\ str' = [str EXCEPT ![t] = str[s]]
        /\ chars' = chars /\ str[s] # Null
    BY StringAssumption DEF SCopy, Live
  <1>2. ASSUME NEW u \in Handle
        PROVE  Val'[u] = IF u = t THEN Val[s] ELSE Val[u]
    BY <1>1 DEF Val, Live, IInv, TypeOK
  <1>3. Val' = [u \in Handle |-> Val'[u]] /\ Val = [u \in Handle |-> Val[u]]
    BY DEF Val
  <1>4. Val' = [Val EXCEPT ![t] = Val[s]]
    BY <1>2, <1>3
  <1> QED
    BY <1>1, <1>4, Vals DEF ADT!Make

\* s_prepare_modify and the write after it change one string and no other.
LEMMA ModifyVal ==
    ASSUME IInv, NEW s \in Handle, Live(s), NEW minCap \in Nat, NEW x \in Seq(Nat),
           PrepareModify(s, minCap, x)
    PROVE  ADT!Change(s, x)
  <1> DEFINE old == str[s]
  <1>1. /\ old \in Addr /\ kind[old] # "free" /\ Null \notin Addr
        /\ \A t \in Handle : ref[old] = 1 /\ str[t] = old => t = s
        /\ \A a \in Addr : kind[a] = "free" => \A t \in Handle : str[t] # a
    BY Sharing, StringAssumption DEF IInv
  <1>2. ASSUME NEW t \in Handle
        PROVE  Val'[t] = IF t = s THEN x ELSE Val[t]
    <2>1. CASE kind[old] = "shared" /\ ref[old] = 1
      <3>1. chars' = [chars EXCEPT ![old] = x] /\ str' = str
        BY <2>1 DEF PrepareModify
      <3>2. Live(t) => chars'[str[t]] = IF t = s THEN x ELSE chars[str[t]]
        BY <1>1, <2>1, <3>1 DEF Live, IInv, TypeOK
      <3>3. Live(t)' = Live(t)
        BY <3>1 DEF Live
      <3> QED
        BY <3>1, <3>2, <3>3 DEF Val
    <2>2. CASE ~ (kind[old] = "shared" /\ ref[old] = 1)
      <3>1. PICK a \in Addr :
              /\ kind[a] = "free"
              /\ chars' = [chars EXCEPT ![a] = x,
                                        ![old] = IF LastReference(old) THEN <<>> ELSE @]
              /\ str' = [str EXCEPT ![s] = a]
        BY <2>2 DEF PrepareModify
      <3>2. a # old
        BY <1>1, <3>1
      <3>3. /\ chars'[a] = x
            /\ \A c \in Addr : c \notin {a, old} => chars'[c] = chars[c]
            /\ ref[old] # 1 => chars'[old] = chars[old]
        BY <1>1, <3>1, <3>2 DEF IInv, TypeOK, LastReference
      <3>4. CASE t = s
        BY <1>1, <3>1, <3>3, <3>4 DEF Val, Live, IInv, TypeOK
      <3>5. CASE t # s
        <4>1. Live(t)' = Live(t) /\ str'[t] = str[t]
          BY <3>1, <3>5 DEF Live, IInv, TypeOK
        <4>2. Live(t) => str[t] \in Addr /\ str[t] # a /\ (str[t] = old => ref[old] # 1)
          BY <1>1, <3>1, <3>5 DEF Live, IInv, TypeOK
        <4>3. Live(t) => chars'[str[t]] = chars[str[t]]
          BY <3>3, <4>2
        <4> QED
          BY <3>5, <4>1, <4>3 DEF Val
      <3> QED
        BY <3>4, <3>5
    <2> QED
      BY <2>1, <2>2
  <1>3. Val' = [t \in Handle |-> Val'[t]] /\ Val = [t \in Handle |-> Val[t]]
    BY DEF Val
  <1>4. Val' = [Val EXCEPT ![s] = x]
    BY <1>2, <1>3
  <1> QED
    BY <1>4, Vals DEF ADT!Change

\* Each operation keeps the invariant, and is one of the abstract ones.
LEMMA Step ==
    ASSUME IInv, Next
    PROVE  IInv' /\ ADT!Next
  <1>1. PICK s \in Handle :
          \/ DeleteString(s)
          \/ \E a \in Addr, x \in Text : NewString(s, a, x) \/ NewStringFromLiteral(s, a, x)
          \/ \E t \in Handle : SCopy(s, t) \/ SAppendString(s, t)
          \/ \E t \in Handle, a \in Addr, start \in Start, end \in 0..MaxLen :
                SSubstring(s, t, a, start, end)
          \/ \E c \in Char : SAppendChar(s, c)
          \/ \E c \in Char, i \in 0..(MaxLen - 1) : SSetChar(s, i, c)
    BY DEF Next
  <1> DEFINE v == chars[str[s]]
  <1>2. Live(s) => Val[s] = v /\ v \in Seq(Nat) /\ s \in ADT!Live
    BY Vals
  <1> HIDE DEF v
  \* Making t with the characters y, a part of those of s.
  <1>3. ASSUME NEW t \in Handle, Live(s), NEW y \in Seq(Nat), ADT!Make(t, y),
               \E from, to \in 0..Len(v) : y = SubSeq(v, from + 1, to)
        PROVE  ADT!Next
    <2>1. ADT!Copies(t)
      BY <1>2, <1>3 DEF ADT!Copies, ADT!Substring
    <2> QED
      BY <2>1 DEF ADT!Next
  <1>4. ASSUME DeleteString(s)
        PROVE  IInv' /\ ADT!Next
    BY <1>4, StepDelete, DeleteVal DEF ADT!Next
  <1>5. ASSUME NEW a \in Addr, NEW x \in Text, NewString(s, a, x) \/ NewStringFromLiteral(s, a, x)
        PROVE  IInv' /\ ADT!Next
    <2>1. x \in Seq(Nat)
      BY Texts
    <2>2. /\ ~ Live(s) /\ str' = [str EXCEPT ![s] = a] /\ kind[a] = "free"
          /\ chars' = [chars EXCEPT ![a] = x]
          /\ NewShared(a, x, 1) \/ NewStringFromLiteral(s, a, x)
      BY <1>5 DEF NewString, NewStringFromLiteral, NewShared
    <2>3. IInv'
      BY <2>1, <2>2, StepNew
    <2>4. ADT!Make(s, x)
      BY <2>1, <2>2, NewVal
    <2> QED
      BY <2>3, <2>4 DEF ADT!Next
  <1>6. ASSUME NEW t \in Handle, SCopy(s, t)
        PROVE  IInv' /\ ADT!Next
    <2>1. Live(s)
      BY <1>6 DEF SCopy
    <2>2. /\ Len(v) \in Nat /\ SubSeq(v, 0 + 1, Len(v)) = v
      BY <1>2, <2>1, LenProperties, SubSeqFull
    <2>3. ADT!Make(t, v)
      BY <1>2, <1>6, <2>1, CopyVal
    <2>4. \E from, to \in 0..Len(v) : v = SubSeq(v, from + 1, to)
      <3>1. 0 \in 0..Len(v) /\ Len(v) \in 0..Len(v)
        BY <2>2
      <3> QED
        BY <2>2, <3>1
    <2> QED
      BY <1>2, <1>3, <1>6, <2>1, <2>3, <2>4, StepCopy
  <1>7. ASSUME NEW t \in Handle, SAppendString(s, t)
        PROVE  IInv' /\ ADT!Next
    <2> DEFINE w == chars[str[t]]
               add == CStr(w)
    <2>1. /\ Live(s) /\ Live(t) /\ w \in Seq(Nat) /\ Val[t] = w /\ t \in ADT!Live
          /\ PrepareModify(s, Len(v) + Len(add) + 1, v \o add)
      BY <1>7, Vals DEF SAppendString, v
    <2>2. PICK n \in 0..Len(w) : add = SubSeq(w, 1, n) /\ Len(add) = n /\ ADT!UpToNul(w, n)
      BY <2>1, CStrUpToNul
    <2>3. add \in Seq(Nat)
      BY <2>1, CStrUpToNul
    <2>4. Len(w) \in Nat
      BY <2>1, LenProperties
    <2> HIDE DEF w, add
    <2>5. /\ v \o add \in Seq(Nat) /\ Len(v) \in Nat /\ Len(add) \in Nat
          /\ Len(v \o add) = Len(v) + Len(add)
      BY <1>2, <2>1, <2>2, <2>3, <2>4, Written
    <2>6. Len(v) + Len(add) + 1 \in Nat /\ Len(v \o add) < Len(v) + Len(add) + 1
      BY <2>5
    <2>7. IInv' /\ ADT!Change(s, v \o add)
      BY <2>1, <2>5, <2>6, StepModify, ModifyVal
    <2>8. ADT!AppendString(s)
      BY <1>2, <2>1, <2>2, <2>7 DEF ADT!AppendString
    <2> QED
      BY <1>2, <2>1, <2>7, <2>8 DEF ADT!Next
  <1>8. ASSUME NEW t \in Handle, NEW a \in Addr, NEW start \in Start, NEW end \in 0..MaxLen,
               SSubstring(s, t, a, start, end)
        PROVE  IInv' /\ ADT!Next
    <2> DEFINE y == IF end <= start THEN <<>> ELSE Part(v, start, end)
    <2>1. Live(s) /\ ~ Live(t) /\ end <= Len(v) /\ start \in Nat /\ end \in Nat
      BY <1>8, StringAssumption DEF SSubstring, v
    <2>2. CASE SCopy(s, t)
      BY <1>6, <2>2
    <2>3. CASE NewShared(a, y, 1) /\ str' = [str EXCEPT ![t] = a]
      <3>1. end \in 0..Len(v)
        BY <1>2, <2>1, LenProperties
      <3>2. y \in Seq(Nat) /\ \E from, to \in 0..Len(v) : y = SubSeq(v, from + 1, to)
        BY <1>2, <2>1, <3>1, Parts
      <3> HIDE DEF y
      <3>3. kind[a] = "free" /\ chars' = [chars EXCEPT ![a] = y]
        BY <2>3 DEF NewShared
      <3>4. IInv'
        BY <2>1, <2>3, <3>2, StepNew
      <3>5. ADT!Make(t, y)
        BY <2>1, <2>3, <3>2, <3>3, NewVal
      <3> QED
        BY <1>3, <2>1, <3>2, <3>4, <3>5
    <2> QED
      BY <1>8, <2>2, <2>3 DEF SSubstring, v
  <1>9. ASSUME NEW c \in Char, SAppendChar(s, c)
        PROVE  IInv' /\ ADT!Next
    <2>1. Live(s) /\ PrepareModify(s, Len(v) + 2, Append(v, c))
      BY <1>9 DEF SAppendChar, v
    <2>2. Append(v, c) \in Seq(Nat) /\ Len(v) \in Nat /\ Len(Append(v, c)) = Len(v) + 1
      BY <1>2, <2>1, Written
    <2>3. Len(v) + 2 \in Nat /\ Len(Append(v, c)) < Len(v) + 2
      BY <2>2
    <2>4. IInv' /\ ADT!Change(s, Append(v, c))
      BY <2>1, <2>2, <2>3, StepModify, ModifyVal
    <2>5. ADT!AppendChar(s)
      BY <1>2, <2>1, <2>4 DEF ADT!AppendChar
    <2> QED
      BY <1>2, <2>1, <2>4, <2>5 DEF ADT!Next
  <1>10. ASSUME NEW c \in Char, NEW i \in 0..(MaxLen - 1), SSetChar(s, i, c)
         PROVE  IInv' /\ ADT!Next
    <2> DEFINE y == [v EXCEPT ![i + 1] = c]
    <2>1. Live(s) /\ i < Len(v) /\ i \in Nat /\ PrepareModify(s, Len(v) + 1, y)
      BY <1>10, StringAssumption DEF SSetChar, v
    <2>2. y \in Seq(Nat) /\ Len(v) \in Nat /\ Len(y) = Len(v) /\ DOMAIN v = 1..Len(v)
      BY <1>2, <2>1, Written, LenProperties
    <2>3. i + 1 \in DOMAIN v
      BY <2>1, <2>2
    <2> HIDE DEF y
    <2>4. Len(v) + 1 \in Nat /\ Len(y) < Len(v) + 1
      BY <2>2
    <2>5. IInv' /\ ADT!Change(s, y)
      BY <2>1, <2>2, <2>4, StepModify, ModifyVal
    <2>6. ADT!SetChar(s)
      BY <1>2, <2>1, <2>3, <2>5 DEF ADT!SetChar, y
    <2> QED
      BY <1>2, <2>1, <2>5, <2>6 DEF ADT!Next
  <1> QED
    BY <1>1, <1>4, <1>5, <1>6, <1>7, <1>8, <1>9, <1>10

LEMMA Invariance == Spec => []IInv
  <1>1. IInv /\ [Next]_vars => IInv'
    <2>1. IInv /\ UNCHANGED vars => IInv'
      BY DEF vars, IInv, TypeOK, RefCountExact, NoOverrun
    <2> QED
      BY <2>1, Step
  <1> QED
    BY <1>1, InitInv, PTL DEF Spec

\* The references, buffers and characters have their types.
THEOREM TypeCorrect == Spec => []TypeOK
  <1>1. IInv => TypeOK
    BY DEF IInv
  <1> QED
    BY <1>1, Invariance, PTL

\* A reference count is the number of strings that refer to the buffer or
\* literal, and it is freed with the last of them: s_release_shared never frees
\* what another string still uses, and nothing is left behind (s_copy,
\* s_prepare_modify, delete_string), for any number of strings.
THEOREM CountsAreExact == Spec => []RefCountExact
  <1>1. IInv => RefCountExact
    BY DEF IInv
  <1> QED
    BY <1>1, Invariance, PTL

\* No operation writes past the end of a buffer, the NUL included.
THEOREM NeverOverrun == Spec => []NoOverrun
  <1>1. IInv => NoOverrun
    BY DEF IInv
  <1> QED
    BY <1>1, Invariance, PTL

\* Sharing is not seen: every operation does to one string what it would do to
\* a string of its own, and to the others nothing.
THEOREM SharingUnseen == Spec => Strings
  <1>1. Init => ADT!Init
    BY DEF Init, ADT!Init, Val, Live
  <1>2. IInv /\ [Next]_vars => [ADT!Next]_Val
    <2>1. UNCHANGED vars => UNCHANGED Val
      BY DEF vars, Val, Live
    <2> QED
      BY <2>1, Step
  <1> QED
    BY <1>1, <1>2, Invariance, PTL DEF Spec, Strings, ADT!Spec

=============================================================================
