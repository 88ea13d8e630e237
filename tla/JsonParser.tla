----------------------------- MODULE JsonParser -----------------------------
(***************************************************************************)
(* chjson/src/parser.c: json_from_in_stream, with the recursion of its     *)
(* functions as a stack.  A frame is a call that owns something: an object *)
(* or list being filled, or the key of a pair whose value is being read.   *)
(*                                                                         *)
(* json_t and string_t blocks are those of JsonTree.                       *)
(***************************************************************************)
EXTENDS JsonTree, JsonNumbers, Utf8, SequencesExt, FiniteSetsExt

VARIABLES
    input,   \* what the in stream delivers
    at,      \* the position of its next character
    calls,   \* the stack; the innermost call is the last
    mode,    \* what the innermost call is about to do
    ret      \* what the last call returned: a parser_state_t and a json_t

parserVars == <<input, at, calls, mode, ret>>

Top == calls[Len(calls)]
Pushed(fn, own) == Append(calls, [fn |-> fn, own |-> own])
Popped == Front(calls)

ParserTypeOK ==
    /\ input \in Seq(Char)
    /\ at \in 1..Len(input) + 1
    /\ calls \in Seq([fn : {"object", "list", "pair"}, own : Addr])
    /\ mode \in {"idle", "value", "pair", "next", "return"}
    /\ ret \in [ps : {"SUCCESS", "SYNTAX_ERROR"}, json : Addr \cup {NULL_JSON, None}]

ParserInit ==
    /\ input = <<>>
    /\ at = 1
    /\ calls = <<>>
    /\ mode = "idle"
    /\ ret = [ps |-> "SUCCESS", json |-> None]

----------------------------------------------------------------------------
(* The lexical functions: each starts at a position and says where it stops. *)

Peek(p) == PeekChar(input, p)
Next1(p) == NextChar(input, p)

\* The first position from p on that holds none of these characters.
Past(p, chars) == Min({q \in p..Len(input) + 1 : Peek(q) \notin chars})

\* trim_ws.
Whitespace == {Ch[" "], Ch["\n"], Ch["\r"], Ch["\t"]}
Trim(p) == Past(p, Whitespace)

\* expect_cstr: it stops behind the first character that differs.
Expected(p, word) ==
    LET bad == {i \in DOMAIN word : Peek(p + i - 1) # word[i]}
    IN IF bad = {} THEN [ok |-> TRUE, at |-> p + Len(word)]
       ELSE [ok |-> FALSE, at |-> Next1(p + Min(bad) - 1)]

HexDigit(c) ==
    CASE c \in Digit -> c - Ch["0"]
      [] c \in Ch["a"]..Ch["f"] -> c - Ch["a"] + 10
      [] c \in Ch["A"]..Ch["A"] + 5 -> c - Ch["A"] + 10
      [] OTHER -> None

\* Mutant: a byte is not converted to a char.
SignedCharNot(byte) == byte

SignedChar(byte) == IF byte < 128 THEN byte ELSE byte - 256

\* expect_control_suffix, with the backslash read.
Escapes == [l \in {Ch["\\"], Ch["/"]} \cup {Letter[c] : c \in DOMAIN Letter} |->
               IF l \in {Ch["\\"], Ch["/"]} THEN l ELSE CHOOSE c \in DOMAIN Letter : Letter[c] = l]

ControlSuffix(p) ==
    LET dec == [i \in 1..4 |-> HexDigit(Peek(p + i))]
        bad == {i \in 1..4 : dec[i] = None}
    IN CASE Peek(p) \in DOMAIN Escapes ->
              [ok |-> TRUE, at |-> p + 1, val |-> <<Escapes[Peek(p)]>>]
         [] Peek(p) = Ch["u"] /\ bad = {} ->
              [ok |-> TRUE, at |-> p + 5,
               val |-> [i \in DOMAIN UnicodeToUtf8(UnicodeFromCstr(dec)) |->
                           SignedChar(UnicodeToUtf8(UnicodeFromCstr(dec))[i])]]
         [] Peek(p) = Ch["u"] /\ bad # {} ->
              [ok |-> FALSE, at |-> Next1(p + Min(bad)), val |-> <<>>]
         [] OTHER -> [ok |-> FALSE, at |-> Next1(p), val |-> <<>>]

\* _string_from_in_stream_no_trim: the string that begins at p.
StringFrom(p) ==
    LET Stop(ok, q) == [ok |-> ok, at |-> q, val |-> <<>>]
        Before(x, rest) == [rest EXCEPT !.val = x \o @]
        from[q \in 1..Len(input) + 1] ==
            LET c == Peek(q)
                Escaping(suffix) == IF suffix.ok THEN Before(suffix.val, from[suffix.at]) ELSE suffix
            IN CASE c = STREAM_EMPTY \/ c \in Control -> Stop(FALSE, Next1(q))
                 [] c = Ch["quote"] -> Stop(TRUE, q + 1)
                 [] c = Ch["\\"] -> Escaping(ControlSuffix(q + 1))
                 [] OTHER -> Before(<<c>>, from[q + 1])
    IN IF Peek(p) = Ch["quote"] THEN from[p + 1] ELSE Stop(FALSE, Next1(p))

NumberLike == Digit \cup {Ch["e"], Ch["E"], Ch["+"], Ch["-"], Ch["."]}

\* json_number_from_stream_no_trim: at most as many characters as fit in buf, and
\* strtod must take them all.
NumberFrom(p) ==
    LET q == Min({Past(p, NumberLike), p + NumberWidth})
        buf == SubSeq(input, p, q - 1)
    IN [ok |-> IsNumber[buf], at |-> q, val |-> buf]

----------------------------------------------------------------------------
(* The recursive functions. *)

Return(ps, json) ==
    /\ mode' = "return"
    /\ ret' = [ps |-> ps, json |-> json]
Fail == Return("SYNTAX_ERROR", None)

\* json_from_in_stream.
Begin(text) ==
    /\ mode = "idle"
    /\ input' = text
    /\ at' = Min({p \in 1..Len(text) + 1 : PeekChar(text, p) \notin Whitespace})
    /\ mode' = "value"
    /\ UNCHANGED <<heap, lost, calls, ret>>

\* json_from_in_stream_no_trim, when the stream is empty.
NoValue ==
    /\ mode = "value"
    /\ Peek(at) = STREAM_EMPTY
    /\ Fail
    /\ UNCHANGED <<heap, lost, input, at, calls>>

\* The same, for a word: json is the value it stands for.
Word(word, first) ==
    LET found == Expected(at, word)
    IN /\ mode = "value"
       /\ Peek(at) = word[1]
       /\ at' = found.at
       /\ IF ~ found.ok THEN Fail /\ UNCHANGED heap
          ELSE IF word = Null
          THEN Return("SUCCESS", NULL_JSON) /\ UNCHANGED heap
          ELSE /\ HasRoom(heap)
               /\ heap' = New(heap, first)
               /\ Return("SUCCESS", Fresh(heap))
       /\ UNCHANGED <<lost, input, calls>>

ParseWord ==
    \/ Word(True, JsonBoolean(1))
    \/ Word(False, JsonBoolean(0))
    \/ Word(Null, Free)

\* json_string_from_in_stream_no_trim: the builder is deleted on an error and
\* otherwise becomes the value's.
ParseString ==
    LET found == StringFrom(at)
        built == New(heap, String(found.val))
    IN /\ mode = "value"
       /\ Peek(at) = Ch["quote"]
       /\ at' = found.at
       /\ IF found.ok
          THEN /\ HasRoom(heap) /\ HasRoom(built)
               /\ heap' = New(built, JsonString(Fresh(heap)))
               /\ Return("SUCCESS", Fresh(built))
          ELSE Fail /\ UNCHANGED heap
       /\ UNCHANGED <<lost, input, calls>>

ParseNumber ==
    LET found == NumberFrom(at)
    IN /\ mode = "value"
       /\ Peek(at) \notin {STREAM_EMPTY, Ch["quote"], Ch["{"], Ch["["],
                           Ch["t"], Ch["f"], Ch["n"]}
       /\ at' = found.at
       /\ IF found.ok
          THEN /\ HasRoom(heap)
               /\ heap' = New(heap, JsonNumber(Strtod[found.val]))
               /\ Return("SUCCESS", Fresh(heap))
          ELSE Fail /\ UNCHANGED heap
       /\ UNCHANGED <<lost, input, calls>>

\* json_list_from_stream_no_trim and json_object_from_stream_no_trim, up to the
\* first element or pair, or to the end of an empty container.
Closing(fn) == IF fn = "list" THEN Ch["]"] ELSE Ch["}"]
\* Mutant: blanks behind the opening bracket are not skipped.
OpenUntrimmed(fn, opening, new, then) ==
    LET p == at + 1
    IN /\ mode = "value"
       /\ Peek(at) = opening
       /\ HasRoom(heap)
       /\ heap' = New(heap, new)
       /\ IF Peek(p) = Closing(fn)
          THEN /\ Return("SUCCESS", Fresh(heap))
               /\ at' = p + 1
               /\ UNCHANGED calls
          ELSE /\ IF Peek(p) = STREAM_EMPTY
                  THEN Fail
                  ELSE mode' = then /\ UNCHANGED ret
               /\ at' = p
               /\ calls' = Pushed(fn, Fresh(heap))
       /\ UNCHANGED <<lost, input>>

Open(fn, opening, new, then) ==
    LET p == Trim(at + 1)
    IN /\ mode = "value"
       /\ Peek(at) = opening
       /\ HasRoom(heap)
       /\ heap' = New(heap, new)
       /\ IF Peek(p) = Closing(fn)
          THEN /\ Return("SUCCESS", Fresh(heap))
               /\ at' = p + 1
               /\ UNCHANGED calls
          ELSE /\ IF Peek(p) = STREAM_EMPTY
                  THEN Fail
                  ELSE mode' = then /\ UNCHANGED ret
               /\ at' = p
               /\ calls' = Pushed(fn, Fresh(heap))
       /\ UNCHANGED <<lost, input>>

OpenList == Open("list", Ch["["], JsonList, "value")
OpenObject == Open("object", Ch["{"], JsonObject, "pair")

\* The value read for the list that is being filled.
PushElement ==
    /\ mode = "return"
    /\ calls # <<>>
    /\ Top.fn = "list"
    /\ ret.ps = "SUCCESS"
    /\ heap' = ListPush(heap, Top.own, ret.json)
    /\ mode' = "next"
    /\ UNCHANGED <<lost, input, at, calls, ret>>

\* json_kvp_from_stream_no_trim, up to its value.
ParseKey ==
    LET key == StringFrom(at)
        colon == Trim(key.at)
    IN /\ mode = "pair"
       /\ IF ~ key.ok
          THEN Fail /\ at' = key.at /\ UNCHANGED <<heap, calls>>
          ELSE IF Peek(colon) # Ch[":"]
          THEN Fail /\ at' = Next1(colon) /\ UNCHANGED <<heap, calls>>
          ELSE /\ HasRoom(heap)
               /\ heap' = New(heap, String(key.val))
               /\ calls' = Pushed("pair", Fresh(heap))
               /\ at' = Trim(colon + 1)
               /\ mode' = "value"
               /\ UNCHANGED ret
       /\ UNCHANGED <<lost, input>>

\* Mutant: the key is deleted when the map has it.
PutPairFreesKey ==
    LET object == calls[Len(calls) - 1].own
    IN /\ mode = "return"
       /\ calls # <<>>
       /\ Top.fn = "pair"
       /\ ret.ps = "SUCCESS"
       /\ heap' = DeleteString(HmPut(heap, object, Top.own, ret.json), Top.own)
       /\ lost' = lost \cup Overwritten(heap, object, Top.own)
       /\ calls' = Popped
       /\ mode' = "next"
       /\ UNCHANGED <<input, at, ret>>

\* The same, with its value: hm_put.
PutPair ==
    LET object == calls[Len(calls) - 1].own
    IN /\ mode = "return"
       /\ calls # <<>>
       /\ Top.fn = "pair"
       /\ ret.ps = "SUCCESS"
       /\ heap' = HmPut(heap, object, Top.own, ret.json)
       /\ lost' = lost \cup Overwritten(heap, object, Top.own)
       /\ calls' = Popped
       /\ mode' = "next"
       /\ UNCHANGED <<input, at, ret>>

\* Mutant: the end of the stream closes what is open.
NextOrCloseAtEnd ==
    LET p == Trim(at)
    IN /\ mode = "next"
       /\ CASE Peek(p) = Ch[","] ->
                 /\ mode' = IF Top.fn = "list" THEN "value" ELSE "pair"
                 /\ at' = Trim(p + 1)
                 /\ UNCHANGED <<calls, ret>>
            [] Peek(p) \in {Closing(Top.fn), STREAM_EMPTY} ->
                 /\ Return("SUCCESS", Top.own)
                 /\ at' = Next1(p)
                 /\ calls' = Popped
            [] OTHER ->
                 /\ Fail
                 /\ at' = Next1(p)
                 /\ UNCHANGED calls
       /\ UNCHANGED <<heap, lost, input>>

\* The loops of a list and of an object: a comma and one more, or the end.
NextOrClose ==
    LET p == Trim(at)
    IN /\ mode = "next"
       /\ CASE Peek(p) = Ch[","] ->
                 /\ mode' = IF Top.fn = "list" THEN "value" ELSE "pair"
                 /\ at' = Trim(p + 1)
                 /\ UNCHANGED <<calls, ret>>
            [] Peek(p) = Closing(Top.fn) ->
                 /\ Return("SUCCESS", Top.own)
                 /\ at' = p + 1
                 /\ calls' = Popped
            [] OTHER ->
                 /\ Fail
                 /\ at' = Next1(p)
                 /\ UNCHANGED calls
       /\ UNCHANGED <<heap, lost, input>>

\* Mutant: the key of a pair is not deleted.
PropagateKeepsKey ==
    /\ mode = "return"
    /\ calls # <<>>
    /\ ret.ps # "SUCCESS"
    /\ heap' = IF Top.fn = "pair" THEN heap ELSE DeleteJson(heap, Top.own)
    /\ calls' = Popped
    /\ UNCHANGED <<lost, input, at, mode, ret>>

\* Mutant: a list goes on behind an element that cannot be read.
PropagateRetries ==
    /\ mode = "return"
    /\ calls # <<>>
    /\ ret.ps # "SUCCESS"
    /\ IF Top.fn = "list"
       THEN mode' = "next" /\ UNCHANGED <<heap, calls>>
       ELSE /\ heap' = IF Top.fn = "pair" THEN DeleteString(heap, Top.own)
                       ELSE DeleteJson(heap, Top.own)
            /\ calls' = Popped
            /\ UNCHANGED mode
    /\ UNCHANGED <<lost, input, at, ret>>

\* An error goes up through every call, and each deletes what it owns.
Propagate ==
    /\ mode = "return"
    /\ calls # <<>>
    /\ ret.ps # "SUCCESS"
    /\ heap' = IF Top.fn = "pair" THEN DeleteString(heap, Top.own)
               ELSE DeleteJson(heap, Top.own)
    /\ calls' = Popped
    /\ UNCHANGED <<lost, input, at, mode, ret>>

ParserStep ==
    \/ NoValue
    \/ ParseWord
    \/ ParseString
    \/ ParseNumber
    \/ OpenList
    \/ OpenObject
    \/ PushElement
    \/ ParseKey
    \/ PutPair
    \/ NextOrClose
    \/ Propagate

\* json_from_in_stream has returned.
Parsed == mode = "return" /\ calls = <<>>

============================================================================
