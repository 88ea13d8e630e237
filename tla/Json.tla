-------------------------------- MODULE Json --------------------------------
(***************************************************************************)
(* A program that uses chjson: it builds a tree, writes it to a stream,    *)
(* reads it back from a stream, and deletes both; or it reads a text that   *)
(* comes from elsewhere.  The file may fail at any character, in writing    *)
(* and in reading.                                                          *)
(***************************************************************************)
EXTENDS JsonParser, JsonWriter, JsonGrammar

CONSTANTS
    Strings,    \* the strings it makes values of
    Keys,       \* the strings it makes keys of
    Numbers,    \* the numbers it makes values of
    MaxCalls,   \* bound on the calls that build the tree
    Foreign,    \* the texts from elsewhere, in tokens
    Spelling,   \* the characters of each token
    Follow      \* what comes behind the value in the stream

ASSUME TextAssumption ==
    /\ Strings \cup Keys \subseteq Seq(Char)
    /\ Numbers \subseteq Number
    /\ MaxCalls \in Nat
    /\ Foreign \subseteq Seq(DOMAIN Spelling)
    /\ \A t \in DOMAIN Spelling : Spelling[t] \in Seq(Char)
    /\ Follow \in Seq(Char)

VARIABLES
    work,       \* the values it has built and not yet put in another
    made,       \* the number of calls that built them
    phase,      \* "build", "write", "read" or "delete"
    source,     \* whose text it reads: Own, or the text
    root,       \* the value it wrote
    dest        \* the value it read

vars == <<heap, lost, parserVars, writerVars, work, made, phase, source, root, dest>>

Own == <<"own">>

TypeOK ==
    /\ HeapTypeOK
    /\ ParserTypeOK
    /\ WriterTypeOK
    /\ work \in Seq(Addr \cup {NULL_JSON})
    /\ made \in 0..MaxCalls
    /\ phase \in {"build", "write", "read", "delete"}
    /\ source \in Foreign \cup {Own}
    /\ {root, dest} \subseteq Addr \cup {NULL_JSON, None}

Init ==
    /\ HeapInit
    /\ ParserInit
    /\ WriterInit
    /\ work = <<>>
    /\ made = 0
    /\ phase = "build"
    /\ source = Own
    /\ root = None
    /\ dest = None

----------------------------------------------------------------------------
Build ==
    /\ phase = "build"
    /\ made < MaxCalls
    /\ made' = made + 1
    /\ UNCHANGED <<parserVars, writerVars, phase, source, root, dest>>

\* new_json_string_from_cstr.
NewJsonString ==
    /\ Build
    /\ \E x \in Strings :
         LET built == New(heap, String(x))
         IN /\ HasRoom(heap) /\ HasRoom(built)
            /\ heap' = New(built, JsonString(Fresh(heap)))
            /\ work' = Append(work, Fresh(built))
    /\ UNCHANGED lost

\* new_json_number, new_json_boolean, new_json_list and new_json_object.
NewJson ==
    /\ Build
    /\ HasRoom(heap)
    /\ \E block \in {JsonNumber(n) : n \in Numbers} \cup {JsonBoolean(1), JsonList, JsonObject} :
         heap' = New(heap, block)
    /\ work' = Append(work, Fresh(heap))
    /\ UNCHANGED lost

\* json_null.
NewJsonNull ==
    /\ Build
    /\ work' = Append(work, NULL_JSON)
    /\ UNCHANGED <<heap, lost>>

\* A turn of new_json_list_from_eles, or the program's own l_push.
PushWork ==
    /\ Build
    /\ Len(work) > 1
    /\ Type(heap, work[Len(work) - 1]) = "LIST"
    /\ heap' = ListPush(heap, work[Len(work) - 1], work[Len(work)])
    /\ work' = Front(work)
    /\ UNCHANGED lost

\* A turn of new_json_object_from_kvps, or the program's own hm_put, with a new
\* string for the key.
PutWork ==
    /\ Build
    /\ Len(work) > 1
    /\ LET object == work[Len(work) - 1]
       IN /\ Type(heap, object) = "OBJECT"
          /\ HasRoom(heap)
          /\ \E x \in Keys :
               LET keyed == New(heap, String(x))
               IN /\ heap' = HmPut(keyed, object, Fresh(heap), work[Len(work)])
                  /\ lost' = lost \cup Overwritten(keyed, object, Fresh(heap))
    /\ work' = Front(work)

Write ==
    /\ phase = "build"
    /\ Len(work) = 1
    /\ \E s \in BOOLEAN : StartWriting(work[1], s)
    /\ phase' = "write"
    /\ root' = work[1]
    /\ work' = <<>>
    /\ UNCHANGED <<parserVars, made, source, dest>>

Writing ==
    /\ phase = "write"
    /\ WriterStep
    /\ UNCHANGED <<parserVars, work, made, phase, source, root, dest>>

\* The stream delivers what was written, or as much as could be read of it.
ReadOwn ==
    /\ phase = "write"
    /\ Written
    /\ LET text == output \o Follow
       IN \E delivered \in IF failed = <<>> THEN Delivered(text) ELSE {text} :
            Begin(delivered)
    /\ phase' = "read"
    /\ UNCHANGED <<writerVars, work, made, source, root, dest>>

Spelled(tokens) == FlattenSeq([i \in DOMAIN tokens |-> Spelling[tokens[i]]])

ReadForeign ==
    /\ phase = "build"
    /\ made = 0
    /\ \E tokens \in Foreign :
         /\ Begin(Spelled(tokens))
         /\ source' = tokens
    /\ phase' = "read"
    /\ UNCHANGED <<writerVars, work, made, root, dest>>

Reading ==
    /\ phase = "read"
    /\ ParserStep
    /\ UNCHANGED <<writerVars, work, made, phase, source, root, dest>>

\* json_from_in_stream writes to dest if it succeeds; the program deletes the
\* streams.
EndReading ==
    /\ phase = "read"
    /\ Parsed
    /\ phase' = "delete"
    /\ dest' = ret.json
    /\ input' = <<>>
    /\ at' = 1
    /\ mode' = "idle"
    /\ ret' = [ps |-> "SUCCESS", json |-> None]
    /\ output' = <<>>
    /\ spaced' = FALSE
    /\ status' = "none"
    /\ failed' = <<>>
    /\ source' = Own
    /\ UNCHANGED <<heap, lost, calls, writers, pending, work, made, root>>

Delete ==
    /\ phase = "delete"
    /\ \/ root # None /\ heap' = DeleteJson(heap, root) /\ root' = None /\ UNCHANGED dest
       \/ dest # None /\ heap' = DeleteJson(heap, dest) /\ dest' = None /\ UNCHANGED root
    /\ UNCHANGED <<lost, parserVars, writerVars, work, made, phase, source>>

\* The end, and a program that has built more than it can put together.
Finished ==
    /\ \/ phase = "delete" /\ root = None /\ dest = None
       \/ phase = "build" /\ made = MaxCalls
    /\ UNCHANGED vars

Next ==
    \/ NewJsonString
    \/ NewJson
    \/ NewJsonNull
    \/ PushWork
    \/ PutWork
    \/ Write
    \/ Writing
    \/ ReadOwn
    \/ ReadForeign
    \/ Reading
    \/ EndReading
    \/ Delete
    \/ Finished

Spec == Init /\ [][Next]_vars

\* json_to_stream and json_from_in_stream, once called, go on until they return.
Running == Writing \/ Reading \/ EndReading
FairSpec == Spec /\ WF_vars(Running)

----------------------------------------------------------------------------
\* Every pointer: those that the program and the parser's calls hold, those that
\* hm_put overwrote, and those that other blocks hold.
Held ==
    (UNION {Pointer("work", 0, i, work[i]) : i \in DOMAIN work})
    \cup Pointer("root", 0, 0, root)
    \cup Pointer("dest", 0, 0, dest)
    \cup (UNION {Pointer("call", 0, i, calls[i].own) : i \in DOMAIN calls})
    \cup (IF mode = "return" THEN Pointer("ret", 0, 0, ret.json) ELSE {})
    \cup (UNION {Pointer("lost", 0, a, a) : a \in lost})
Pointers == Held \cup Inside(heap)

\* No block is owned twice and no pointer leads to a block that is freed, so
\* that delete_json frees every block once, on the error paths of the parser too
\* (json.h: "This object assumes ownership of all of its parts").
NoDangling ==
    LET all == Pointers
    IN \A p \in all :
          /\ heap[p.to] # Free
          /\ \A q \in all : q.to = p.to => q = p

\* A parse that fails, wherever it fails, leaves no block behind, and a tree that
\* is deleted neither: the only blocks without an owner are those for which
\* hm_put found the key in the map already.
NothingLost ==
    LET all == Pointers
    IN \A a \in Addr : heap[a] # Free => \E p \in all : p.to = a

\* What json_equals ought to be: the same values at the same keys and indexes.
Same(h, json1, json2) ==
    LET same[p \in ValuePairs] ==
            LET a == p[1]
                b == p[2]
                Text(s) == h[s].val
                KeyTexts(o) == {Text(s) : s \in ToSet(h[o].keys)}
            IN /\ Type(h, a) = Type(h, b)
               /\ CASE Type(h, a) = "OBJECT" ->
                         /\ KeyTexts(a) = KeyTexts(b)
                         /\ \A i \in DOMAIN h[a].keys, j \in DOMAIN h[b].keys :
                              Text(h[a].keys[i]) = Text(h[b].keys[j])
                                => same[<<h[a].kids[i], h[b].kids[j]>>]
                    [] Type(h, a) = "LIST" ->
                         /\ DOMAIN h[a].kids = DOMAIN h[b].kids
                         /\ \A i \in DOMAIN h[a].kids : same[<<h[a].kids[i], h[b].kids[i]>>]
                    [] Type(h, a) = "STRING" ->
                         CStr(Text(h[a].keys[1])) = CStr(Text(h[b].keys[1]))
                    [] Type(h, a) = "NULL" -> TRUE
                    [] OTHER -> h[a].val = h[b].val
    IN same[<<json1, json2>>]

\* json_equals finds two trees equal exactly if they are, whatever the order of
\* their keys, although hm_equals looks up the keys of one map only.  A tree
\* compared with itself is left out: there the two iterators of l_equals are one.
EqualsSame ==
    Parsed =>
        LET live == {a \in Addr : heap[a].type \in JsonType}
        IN \A a, b \in live \cup {NULL_JSON} :
             a # b => (JsonEquals(heap, a, b) <=> Same(heap, a, b))

\* Strings and keys that are written as they must be read: the parser does not
\* know \", and the writer neither escapes keys nor writes every control
\* character.
Plain(json) ==
    \A a \in Below(heap, json) :
        /\ heap[a].type = "STRING" =>
             ToSet(heap[heap[a].keys[1]].val) \cap ({Ch["quote"]} \cup (Control \ DOMAIN Letter)) = {}
        /\ heap[a].type = "OBJECT" => \A i \in DOMAIN heap[a].keys :
             ToSet(heap[heap[a].keys[i]].val) \cap ({Ch["quote"], Ch["\\"]} \cup Control) = {}

\* The parser has read the program's own text, all of it or less.
ReadAll == Parsed /\ source = Own /\ Len(input) >= Len(output)
ReadPart == Parsed /\ source = Own /\ Len(input) < Len(output)

\* The heap with the numbers of a tree as "%.15g" gives them.
AsWritten(json) ==
    LET below == Below(heap, json)
    IN [a \in Addr |-> IF a \in below /\ heap[a].type = "NUMBER"
                       THEN JsonNumber(Rounded[heap[a].val]) ELSE heap[a]]

\* What json_to_stream writes, spaced or not, json_from_in_stream reads: an equal
\* tree, but that its numbers are rounded to as many digits as json_to_stream
\* writes; the lookups find the same members in it, and the stream is left right
\* behind it.
ReadsBack ==
    ReadAll /\ failed = <<>> /\ Plain(root) =>
        LET h == AsWritten(root)
        IN /\ ret.ps = "SUCCESS"
           /\ Same(h, root, ret.json)
           /\ at = Len(output) + 1
           /\ Type(heap, root) = "LIST" =>
                \A i \in 0..Len(heap[root].kids) :
                   LET found == JsonLookupIndex(heap, ret.json, i)
                   IN IF i = Len(heap[root].kids) THEN found = None
                      ELSE Same(h, heap[root].kids[i + 1], found)
           /\ Type(heap, root) = "OBJECT" =>
                \A i \in DOMAIN heap[root].keys :
                   LET found == JsonLookupKey(heap, ret.json, heap[heap[root].keys[i]].val)
                   IN found # None /\ Same(h, heap[root].kids[i], found)

\* The end of a file and an error in reading it are the same to file_in_stream_t,
\* and yet a value of which a part is missing is never taken for a whole one;
\* but for a number, which has no last character.
NoHalfValue ==
    ReadPart /\ failed = <<>> /\ Plain(root) =>
        ret.ps # "SUCCESS" \/ Type(heap, root) = "NUMBER"

\* json_to_stream_helper ignores the errors of the calls for the members, and
\* json_to_stream may return STREAM_SUCCESS although characters are missing.  The
\* text then never passes for the value: it is read as another, or not at all; as
\* long as what comes behind it in the stream (Follow) closes no list or object
\* that lost its bracket.
LossShows ==
    ReadAll /\ failed # <<>> /\ status = "SUCCESS" /\ Plain(root) =>
        ret.ps # "SUCCESS" \/ ~ Same(AsWritten(root), root, ret.json)

\* The parser accepts every text that begins with a JSON value, blanks aside, but
\* for values with an Unread token; it accepts nothing but JSON values, except that
\* a Lenient token passes for a number (test/parser.c: "we'll let it slide for
\* now"); and it takes from the stream that value and no more, but for a number
\* that is too long and stands alone, of which it takes a part.
AcceptsJson ==
    Parsed /\ source # Own =>
        LET NotBlank(c) == c # Ch[" "]
            tokens == SelectSeq(source, LAMBDA t : t # " ")
            HasUnread(n) == \E i \in 1..n : tokens[i] \in Unread
            values == ValuePrefixes(tokens, OtherToken)
            accepted == ValuePrefixes(tokens, OtherToken \cup Lenient)
        IN /\ (\E n \in values : ~ HasUnread(n)) => ret.ps = "SUCCESS"
           /\ ret.ps = "SUCCESS" =>
                /\ accepted # {}
                /\ \A n \in accepted :
                     SelectSeq(SubSeq(input, 1, at - 1), NotBlank) = Spelled(SubSeq(tokens, 1, n))
                       \/ (n = 1 /\ HasUnread(n))

\* A string with any of the characters that parser.c lists under "Escape Chars"
\* is read back after the writer has escaped it.
EscapesRead ==
    ReadAll /\ failed = <<>> /\ Type(heap, root) = "STRING" =>
        ret.ps = "SUCCESS" /\ Same(heap, root, ret.json)

\* json_to_stream and json_from_in_stream return, on every tree and every text,
\* and whatever fails.
CallsReturn ==
    /\ phase = "write" ~> Written
    /\ phase = "read" ~> phase = "delete"

============================================================================
