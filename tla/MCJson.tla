------------------------------- MODULE MCJson -------------------------------
(***************************************************************************)
(* Json with trees of up to five calls, and two kinds of foreign texts: all *)
(* rows of a few tokens, and single texts for what takes more of them.      *)
(***************************************************************************)
EXTENDS Json

CONSTANT TokenMax   \* bound on the rows of tokens

Punctuation == {"[", "]", "{", "}", ",", ":"}

MCSpelling ==
    [p \in Punctuation \cup {" "} |-> <<Ch[p]>>]
    @@ "a" :> Chars(<<"quote", "a", "quote">>)
    @@ "b" :> Chars(<<"quote", "b", "quote">>)
    @@ "e9" :> Chars(<<"quote", "\\", "u", "0", "0", "E", "9", "quote">>)
    @@ "nul" :> Chars(<<"quote", "\\", "u", "0", "0", "0", "0", "quote">>)
    @@ "escaped" :> Chars(<<"quote", "\\", "/", "\\", "\\", "\\", "n", "quote">>)
    @@ "badEscape" :> Chars(<<"quote", "\\", "a", "quote">>)
    @@ "badHex" :> Chars(<<"quote", "\\", "u", "0", "0", "l", "0", "quote">>)
    @@ "newLine" :> Chars(<<"quote", "\n", "quote">>)
    @@ "open" :> Chars(<<"quote", "a">>)
    @@ "true" :> True
    @@ "null" :> Null
    @@ "truf" :> Chars(<<"t", "r", "u", "f">>)
    @@ "-90" :> Chars(<<"-", "9", "0">>)
    @@ "0.9E-9" :> Chars(<<"0", ".", "9", "E", "-", "9">>)
    @@ "0009" :> Chars(<<"0", "0", "0", "9">>)
    @@ "+9" :> Chars(<<"+", "9">>)
    @@ "9." :> Chars(<<"9", ".">>)
    @@ ".9e9" :> Chars(<<".", "9", "e", "9">>)
    @@ "9-" :> Chars(<<"9", "-">>)
    @@ "9e" :> Chars(<<"9", "e">>)
    @@ "9.0.9" :> Chars(<<"9", ".", "0", ".", "9">>)
    @@ "long" :> [i \in 1..NumberWidth + 1 |-> Ch["9"]]
    @@ "empty" :> Chars(<<"quote", "quote">>)
    @@ "withQuote" :> Chars(<<"quote", "\\", "quote", "quote">>)

MCStringToken == {"a", "b", "e9", "nul", "escaped", "empty", "withQuote"}
MCOtherToken == {"true", "null", "-90", "0.9E-9", "long"}
MCLenient == {"0009", "+9", "9.", ".9e9"}
MCUnread == {"withQuote", "long"}

\* Two pairs, and the same in a list with other pairs to compare them with.
Pair(k, v) == <<k, ":", v>>
Object(p, q) == <<"{">> \o p \o <<",">> \o q \o <<"}">>
Texts ==
    {<<t>> : t \in DOMAIN MCSpelling}
    \cup {<<"[", t, "]">> : t \in DOMAIN MCSpelling}
    \cup {<<"[", "[", "a", "]", ",", "{", "a", ":", "[", t>> : t \in DOMAIN MCSpelling}
    \cup {Object(Pair("a", v), Pair(k, "[")) \o <<"]", "}">> : k \in {"a", "b"}, v \in {"e9", "true"}}
    \cup {<<"[">> \o Object(Pair("a", "true"), Pair(k, v)) \o <<",">>
          \o Object(Pair(l, w), Pair("a", "true")) \o <<"]">> :
             k, l \in {"b", "nul"}, v, w \in {"-90", "null"}}
    \cup {<<"[">> \o Object(Pair("nul", "true"), Pair(k, v)) \o <<",">>
          \o Object(Pair("empty", "true"), Pair(l, "null")) \o <<"]">> :
             k \in {"empty", "withQuote"}, l \in {"nul", "b"}, v \in {"9.", "null"}}
    \cup {<<"[", "{">> \o Pair("a", "true") \o <<"}", ",">>
          \o Object(Pair(k, "true"), Pair("b", "-90")) \o <<"]">> : k \in {"a", "nul"}}

Rows == BoundedSeq(Punctuation \cup {" ", "a", "true"}, TokenMax)
MCForeign == (Rows \cup Texts) \ {<<>>}

MCStrings == {Chars(<<"\n", "\\">>)}
MCKeys == {Chars(<<"a">>), Chars(<<"b">>)}
MCEscapable == {Chars(<<c>>) : c \in {"\\", "/", "bs", "\f", "\n", "\r", "\t", "quote"}}
\* With two digits written: -1.2e+02.
MCNumbers == {Decimal(3, -1, <<1, 2, 5>>)}
MCFollow == <<Ch[","]>>

\* Numbers of up to three digits on both sides of each border of "%g": what is
\* written is a number, and strtod reads the rounded one from it.
SmallNumbers ==
    {Canonical[Decimal(e, s, d)] :
        e \in -5..4 \cup {-11, 11, -100, 101}, s \in {1, -1}, d \in BoundedSeq({0, 1, 4, 5, 9}, 3)}

ASSUME NumbersReadBack ==
    \A n \in SmallNumbers :
        /\ {n, Rounded[n]} \subseteq Number
        /\ IsNumber[NumberText[n]]
        /\ Strtod[NumberText[n]] = Rounded[n]

============================================================================
