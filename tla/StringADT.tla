----------------------------- MODULE StringADT -----------------------------
(***************************************************************************)
(* What chutil/string.h promises of its strings: each string_t is a string *)
(* of its own.  A copy starts out equal and then has nothing to do with    *)
(* the original, and no operation on one string is seen through another.   *)
(***************************************************************************)
EXTENDS Integers, Sequences, FiniteSets

CONSTANTS Handle, Char, Text, Gone

VARIABLE val     \* of a string_t: its characters, or Gone when not allocated

Init == val = [s \in Handle |-> Gone]

Live == {s \in Handle : val[s] # Gone}

\* One of the constructors, s_copy or s_substring.
Make(s, v) ==
    /\ s \notin Live
    /\ val' = [val EXCEPT ![s] = v]

Delete(s) ==
    /\ s \in Live
    /\ val' = [val EXCEPT ![s] = Gone]

Change(s, v) ==
    /\ s \in Live
    /\ val' = [val EXCEPT ![s] = v]

\* The first n characters are all of v up to its first NUL, or to its end.
UpToNul(v, n) ==
    /\ \A i \in 1..n : v[i] # 0
    /\ n < Len(v) => v[n + 1] = 0

\* What one character more, another string, or a changed character makes of s.
\* Of the other string, what counts as a C string is appended.
AppendChar(s) == \E c \in Char : Change(s, Append(val[s], c))
AppendString(s) ==
    \E t \in Live : \E n \in 0..Len(val[t]) :
       UpToNul(val[t], n) /\ Change(s, val[s] \o SubSeq(val[t], 1, n))
SetChar(s) == \E i \in DOMAIN val[s], c \in Char : Change(s, [val[s] EXCEPT ![i] = c])

\* A part of s, from start up to but not including end.
Substring(s, start, end) == SubSeq(val[s], start + 1, end)

Copies(t) == \E s \in Live : \E start, end \in 0..Len(val[s]) :
                Make(t, Substring(s, start, end))

Next ==
    \E s \in Handle :
       \/ Delete(s) \/ Copies(s)
       \/ s \in Live /\ (AppendChar(s) \/ AppendString(s) \/ SetChar(s))
       \/ \E v \in Text : Make(s, v)

Spec == Init /\ [][Next]_val

============================================================================
