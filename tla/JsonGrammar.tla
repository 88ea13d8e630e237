---------------------------- MODULE JsonGrammar -----------------------------
(***************************************************************************)
(* The JSON grammar over tokens.  "[", "]", "{", "}", "," and ":" stand     *)
(* for themselves; StringToken and OtherToken are the JSON texts that are   *)
(* values without members, and any other token is in no value.  A blank may *)
(* come before and after each token.  The parser differs from the grammar   *)
(* in the tokens that are Lenient or Unread, and in nothing else.           *)
(***************************************************************************)
EXTENDS Integers, Sequences

CONSTANTS
    StringToken,
    OtherToken,
    Lenient,    \* no JSON, but strtod takes them for numbers
    Unread      \* JSON, but they have a \" or are longer than a number may be

\* s is a value, with these tokens for the values that are no strings and have no
\* members: derived[sort, i, j] says that the tokens i to j of s are one.
IsValue(s, others) ==
    LET derived[sort \in {"value", "elements", "pair", "pairs"}, i, j \in Nat] ==
            CASE sort = "value" ->
                   \/ i = j /\ s[i] \in StringToken \cup others
                   \/ /\ i < j /\ s[i] = "[" /\ s[j] = "]"
                      /\ j = i + 1 \/ derived["elements", i + 1, j - 1]
                   \/ /\ i < j /\ s[i] = "{" /\ s[j] = "}"
                      /\ j = i + 1 \/ derived["pairs", i + 1, j - 1]
              [] sort = "elements" ->
                   \/ derived["value", i, j]
                   \/ \E k \in i + 1..j - 1 :
                        /\ s[k] = ","
                        /\ derived["value", i, k - 1]
                        /\ derived["elements", k + 1, j]
              [] sort = "pair" ->
                   /\ i + 2 <= j
                   /\ s[i] \in StringToken
                   /\ s[i + 1] = ":"
                   /\ derived["value", i + 2, j]
              [] sort = "pairs" ->
                   \/ derived["pair", i, j]
                   \/ \E k \in i + 1..j - 1 :
                        /\ s[k] = ","
                        /\ derived["pair", i, k - 1]
                        /\ derived["pairs", k + 1, j]
    IN s # <<>> /\ derived["value", 1, Len(s)]

\* The lengths of the values that s begins with: one at most.
ValuePrefixes(s, others) == {n \in 1..Len(s) : IsValue(SubSeq(s, 1, n), others)}

============================================================================
