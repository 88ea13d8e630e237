---------------------------- MODULE SharedString ----------------------------
(***************************************************************************)
(* chutil/src/string.c.  Several string_t may share one reference-counted  *)
(* buffer (shared_string_t) or literal (shared_literal_t); the first       *)
(* change through one of them gives it a buffer of its own.                *)
(*                                                                         *)
(* A character is a number; 0 is the NUL.                                  *)
(***************************************************************************)
EXTENDS Integers, Sequences, FiniteSets

CONSTANTS
    Handle,     \* the string_t structs the program can have
    Addr,       \* the addresses of shared_string_t and shared_literal_t
    Null,       \* the address in a string_t that does not exist
    Char,       \* the characters the program appends and sets
    Text,       \* the C strings it makes strings of; none contains a NUL
    Start,      \* the first indexes with which it takes substrings
    MaxLen      \* bound on the length of a string

Gone == <<-1>>  \* in the refinement: "no such string"

ASSUME StringAssumption ==
    /\ IsFiniteSet(Handle)
    /\ Null \notin Addr
    /\ Char \subseteq Nat
    /\ \A x \in Text : x \in Seq(Nat \ {0}) /\ Len(x) <= MaxLen
    /\ Start \subseteq Nat
    /\ MaxLen \in Nat

VARIABLES
    str,     \* s->ss or s->sl
    kind,    \* of an address: "free", "shared" or "literal"
    ref,     \* ref_count
    chars,   \* the len characters of buf or literal
    cap      \* ss->cap

vars == <<str, kind, ref, chars, cap>>

TypeOK ==
    /\ str \in [Handle -> Addr \cup {Null}]
    /\ kind \in [Addr -> {"free", "shared", "literal"}]
    /\ ref \in [Addr -> Nat]
    /\ chars \in [Addr -> Seq(Nat)]
    /\ cap \in [Addr -> Nat]

Init ==
    /\ str = [s \in Handle |-> Null]
    /\ kind = [a \in Addr |-> "free"]
    /\ ref = [a \in Addr |-> 0]
    /\ chars = [a \in Addr |-> <<>>]
    /\ cap = [a \in Addr |-> 0]

Live(s) == str[s] # Null
Larger(i, j) == IF i < j THEN j ELSE i

\* The characters that strlen, strcmp and strcpy see: those before a NUL.
CStr(x) ==
    LET nuls == {i \in DOMAIN x : x[i] = 0}
    IN IF nuls = {} THEN x
       ELSE SubSeq(x, 1, (CHOOSE i \in nuls : \A j \in nuls : i <= j) - 1)

\* new_shared_string: a buffer at a, with one reference, big enough for x.
NewShared(a, x, minCap) ==
    /\ kind[a] = "free"
    /\ kind' = [kind EXCEPT ![a] = "shared"]
    /\ ref' = [ref EXCEPT ![a] = 1]
    /\ chars' = [chars EXCEPT ![a] = x]
    /\ cap' = [cap EXCEPT ![a] = Larger(minCap, Len(x) + 1)]

----------------------------------------------------------------------------
\* new_string and new_string_from_cstr.
NewString(s, a, x) ==
    /\ ~ Live(s)
    /\ NewShared(a, x, 1)
    /\ str' = [str EXCEPT ![s] = a]

NewStringFromLiteral(s, a, x) ==
    /\ ~ Live(s)
    /\ kind[a] = "free"
    /\ kind' = [kind EXCEPT ![a] = "literal"]
    /\ ref' = [ref EXCEPT ![a] = 1]
    /\ chars' = [chars EXCEPT ![a] = x]
    /\ str' = [str EXCEPT ![s] = a]
    /\ UNCHANGED cap

\* s_release_shared: the last reference frees what it refers to, and the
\* characters there are lost.
LastReference(a) == ref[a] = 1

DeleteString(s) ==
    LET a == str[s]
    IN /\ Live(s)
       /\ ref' = [ref EXCEPT ![a] = @ - 1]
       /\ IF LastReference(a)
            THEN /\ kind' = [kind EXCEPT ![a] = "free"]
                 /\ chars' = [chars EXCEPT ![a] = <<>>]
                 /\ cap' = [cap EXCEPT ![a] = 0]
            ELSE UNCHANGED <<kind, chars, cap>>
       /\ str' = [str EXCEPT ![s] = Null]

\* Mutant: the copy is not counted.
SCopyUncounted(s, t) ==
    /\ Live(s) /\ ~ Live(t)
    /\ str' = [str EXCEPT ![t] = str[s]]
    /\ UNCHANGED <<kind, ref, chars, cap>>

\* s_copy: t is one more reference to what s refers to.
SCopy(s, t) ==
    /\ Live(s) /\ ~ Live(t)
    /\ str' = [str EXCEPT ![t] = str[s]]
    /\ ref' = [ref EXCEPT ![str[s]] = @ + 1]
    /\ UNCHANGED <<kind, chars, cap>>

\* What s_substring copies: end - start characters, from the beginning of the
\* string and not from start.
Part(x, start, end) == SubSeq(x, 1, end - start)

\* s_substring: end is cut off at the length; an empty part is a new string,
\* the whole of s a copy of it.
SSubstring(s, t, a, start, end) ==
    LET x == chars[str[s]]
    IN /\ Live(s) /\ ~ Live(t)
       /\ end <= Len(x)
       /\ IF start = 0 /\ end = Len(x) /\ end > 0
            THEN SCopy(s, t)
            ELSE /\ NewShared(a, IF end <= start THEN <<>> ELSE Part(x, start, end), 1)
                 /\ str' = [str EXCEPT ![t] = a]

\* Mutant: a shared buffer is written in place.
PrepareModifyShared(s, minCap, x) ==
    LET old  == str[s]
        need == Larger(minCap, Len(chars[old]) + 1)
    IN /\ kind[old] = "shared"
       /\ chars' = [chars EXCEPT ![old] = x]
       /\ cap' = [cap EXCEPT ![old] = IF @ >= need THEN @ ELSE Larger(2 * @, need)]
       /\ UNCHANGED <<str, kind, ref>>

\* Mutant: the old buffer is not let go of.
PrepareModifyKeeps(s, minCap, x) ==
    LET old  == str[s]
        need == Larger(minCap, Len(chars[old]) + 1)
    IN /\ kind[old] = "literal" \/ ref[old] > 1
       /\ \E a \in Addr :
             /\ kind[a] = "free"
             /\ kind' = [kind EXCEPT ![a] = "shared"]
             /\ ref' = [ref EXCEPT ![a] = 1]
             /\ chars' = [chars EXCEPT ![a] = x]
             /\ cap' = [cap EXCEPT ![a] = need]
             /\ str' = [str EXCEPT ![s] = a]

\* s_prepare_modify and the write that follows it, which makes x of s.  A
\* buffer with one reference is written in place, and grows if it must; else
\* s takes a new one and lets go of the old.
PrepareModify(s, minCap, x) ==
    LET old  == str[s]
        need == Larger(minCap, Len(chars[old]) + 1)
    IN IF kind[old] = "shared" /\ ref[old] = 1
         THEN /\ chars' = [chars EXCEPT ![old] = x]
              /\ cap' = [cap EXCEPT ![old] = IF @ >= need THEN @ ELSE Larger(2 * @, need)]
              /\ UNCHANGED <<str, kind, ref>>
         ELSE \E a \in Addr :
              /\ kind[a] = "free"
              /\ kind' = [kind EXCEPT ![a] = "shared",
                                      ![old] = IF LastReference(old) THEN "free" ELSE @]
              /\ ref' = [ref EXCEPT ![a] = 1, ![old] = @ - 1]
              /\ chars' = [chars EXCEPT ![a] = x,
                                        ![old] = IF LastReference(old) THEN <<>> ELSE @]
              /\ cap' = [cap EXCEPT ![a] = need,
                                    ![old] = IF LastReference(old) THEN 0 ELSE @]
              /\ str' = [str EXCEPT ![s] = a]

\* Mutant: no room is asked for the NUL.
SAppendCharTight(s, c) ==
    LET x == chars[str[s]]
    IN /\ Live(s) /\ Len(x) < MaxLen
       /\ PrepareModify(s, Len(x) + 1, Append(x, c))

SAppendChar(s, c) ==
    LET x == chars[str[s]]
    IN /\ Live(s) /\ Len(x) < MaxLen
       /\ PrepareModify(s, Len(x) + 2, Append(x, c))

\* s_append_string, which is s_append_cstr of the other string's characters.
\* With t = s and one reference the code reads the buffer it is writing; no
\* caller does that, and the model leaves it out.
SAppendString(s, t) ==
    LET x   == chars[str[s]]
        add == CStr(chars[str[t]])
    IN /\ Live(s) /\ Live(t) /\ s # t
       /\ Len(x) + Len(add) <= MaxLen
       /\ PrepareModify(s, Len(x) + Len(add) + 1, x \o add)

\* The index, from 0, is the caller's responsibility.
SSetChar(s, i, c) ==
    LET x == chars[str[s]]
    IN /\ Live(s) /\ i < Len(x)
       /\ PrepareModify(s, Len(x) + 1, [x EXCEPT ![i + 1] = c])

Next ==
    \E s \in Handle :
       \/ DeleteString(s)
       \/ \E a \in Addr, x \in Text : NewString(s, a, x) \/ NewStringFromLiteral(s, a, x)
       \/ \E t \in Handle : SCopy(s, t) \/ SAppendString(s, t)
       \/ \E t \in Handle, a \in Addr, start \in Start, end \in 0..MaxLen :
             SSubstring(s, t, a, start, end)
       \/ \E c \in Char : SAppendChar(s, c)
       \/ \E c \in Char, i \in 0..(MaxLen - 1) : SSetChar(s, i, c)

Spec == Init /\ [][Next]_vars

----------------------------------------------------------------------------
\* A reference count is the number of strings that refer there; what nobody
\* refers to is free, so that nothing leaks and nothing is freed twice or
\* while in use.
RefCountExact ==
    /\ \A a \in Addr : ref[a] = Cardinality({s \in Handle : str[s] = a})
    /\ \A a \in Addr : kind[a] = "free" <=> ref[a] = 0

\* Every buffer has room for its characters and the NUL after them: no
\* operation writes past the end, whatever was shared when it began.
NoOverrun == \A a \in Addr : kind[a] = "shared" => Len(chars[a]) < cap[a]

\* Strings that share a buffer behave as strings of their own.
Val == [s \in Handle |-> IF Live(s) THEN chars[str[s]] ELSE Gone]

ADT == INSTANCE StringADT WITH val <- Val

Strings == ADT!Spec

\* s_substring returns the characters from start up to end ("end is
\* exclusive", chutil/string.h:57).
SubstringFromStart ==
    \A s \in Handle : Live(s) =>
       \A start \in Start, end \in 0..Len(chars[str[s]]) :
          start < end =>
             Part(chars[str[s]], start, end) = SubSeq(chars[str[s]], start + 1, end)

============================================================================
