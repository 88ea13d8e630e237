----------------------------- MODULE JsonChars ------------------------------
(***************************************************************************)
(* The characters that json_helpers.c writes and parser.c reads, by their  *)
(* codes, and what a backslash makes of a letter.                          *)
(***************************************************************************)
EXTENDS Stream

CONSTANT NumberWidth    \* CHJSON_NUMBER_MAX_STR_WIDTH

ASSUME NumberAssumption == NumberWidth \in Nat \ {0}

\* C's character constants.
Ch == [name \in {"{", "}", "[", "]", ",", ":", "quote", "\\", "/", " ", "-", "+", ".", "bs", "\t",
                 "\n", "\f", "\r", "0", "9", "A", "E", "a", "b", "e", "f", "l", "n", "r", "s",
                 "t", "u"} |->
    CASE name = "{" -> 123 [] name = "}" -> 125 [] name = "[" -> 91 [] name = "]" -> 93
      [] name = "," -> 44 [] name = ":" -> 58 [] name = "quote" -> 34 [] name = "\\" -> 92
      [] name = "/" -> 47 [] name = " " -> 32 [] name = "-" -> 45 [] name = "+" -> 43
      [] name = "." -> 46 [] name = "bs" -> 8 [] name = "\t" -> 9 [] name = "\n" -> 10
      [] name = "\f" -> 12 [] name = "\r" -> 13 [] name = "0" -> 48 [] name = "9" -> 57
      [] name = "A" -> 65 [] name = "E" -> 69 [] name = "a" -> 97 [] name = "b" -> 98
      [] name = "e" -> 101 [] name = "f" -> 102 [] name = "l" -> 108 [] name = "n" -> 110
      [] name = "r" -> 114 [] name = "s" -> 115 [] name = "t" -> 116 [] name = "u" -> 117]

Chars(letters) == [i \in DOMAIN letters |-> Ch[letters[i]]]

True == Chars(<<"t", "r", "u", "e">>)
False == Chars(<<"f", "a", "l", "s", "e">>)
Null == Chars(<<"n", "u", "l", "l">>)

Digit == Ch["0"]..Ch["9"]
Control == 0..31

\* The letters of the control characters that have one.
Letter == [c \in {Ch["bs"], Ch["\f"], Ch["\n"], Ch["\r"], Ch["\t"]} |->
    CASE c = Ch["bs"] -> Ch["b"]
      [] c = Ch["\f"] -> Ch["f"]
      [] c = Ch["\n"] -> Ch["n"]
      [] c = Ch["\r"] -> Ch["r"]
      [] c = Ch["\t"] -> Ch["t"]]

============================================================================
