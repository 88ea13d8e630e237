----------------------------- MODULE JsonWriter -----------------------------
(***************************************************************************)
(* chjson/src/json_helpers.c: json_to_stream, its recursion as a stack of  *)
(* the containers that are being written.  A step is one row of puts, which *)
(* ends early when a put to a file fails.                                   *)
(***************************************************************************)
EXTENDS JsonTree, JsonNumbers, SequencesExt, FiniteSetsExt

CONSTANT MaxFaults   \* bound on the puts that fail

ASSUME FaultAssumption == MaxFaults \in Nat

VARIABLES
    output,     \* what the out stream was given
    writers,    \* the stack: a container, and the members still to be written
    pending,    \* the value about to be written, or None
    spaced,     \* the argument of json_to_stream
    status,     \* what json_to_stream has returned
    failed      \* history: how deep each put that failed was

writerVars == <<output, writers, pending, spaced, status, failed>>

Last1 == writers[Len(writers)]
Tabs == Len(writers) - 1    \* of the container that is being written

WriterTypeOK ==
    /\ output \in Seq(Char)
    /\ writers \in Seq([json : Addr, left : SUBSET Nat])
    /\ pending \in Addr \cup {NULL_JSON, None}
    /\ spaced \in BOOLEAN
    /\ status \in {"none", "SUCCESS", "ERROR"}
    /\ failed \in Seq(Nat)

WriterInit ==
    /\ output = <<>>
    /\ writers = <<>>
    /\ pending = None
    /\ spaced = FALSE
    /\ status = "none"
    /\ failed = <<>>

----------------------------------------------------------------------------
\* Mutant: only the quote and the backslash are escaped.
EscapeRaw(c) == IF c \in {Ch["quote"], Ch["\\"]} THEN <<Ch["\\"], c>> ELSE <<c>>

\* escape_string_to_stream: a control character without a letter is dropped.
Escape(c) ==
    CASE c \in {Ch["quote"], Ch["\\"]} -> <<Ch["\\"], c>>
      [] c \in DOMAIN Letter -> <<Ch["\\"], Letter[c]>>
      [] c \in Control \ DOMAIN Letter -> <<>>
      [] OTHER -> <<c>>
EscapeString(x) == FlattenSeq([i \in DOMAIN CStr(x) |-> Escape(x[i])])

Quoted(x) == <<Ch["quote"]>> \o x \o <<Ch["quote"]>>

\* What json_to_stream_helper puts for a value without members.
LeafText(json) ==
    CASE Type(heap, json) = "STRING" -> Quoted(EscapeString(heap[heap[json].keys[1]].val))
      [] Type(heap, json) = "NUMBER" -> NumberText[heap[json].val]
      [] Type(heap, json) = "BOOLEAN" -> IF heap[json].val[1] = 1 THEN True ELSE False
      [] Type(heap, json) = "NULL" -> Null

\* With spaced: a new line, and TAB_OUT.
Indent(tabs) ==
    IF spaced THEN <<Ch["\n"]>> \o [i \in 1..2 * tabs |-> Ch[" "]] ELSE <<>>

\* What comes before a member: a comma, but for the first; in an object the key,
\* as it is.
MemberText(json, i, first) ==
    LET key == CStr(heap[heap[json].keys[i]].val)
    IN (IF first THEN <<>> ELSE <<Ch[","]>>)
       \o Indent(Tabs + 1)
       \o (IF heap[json].type = "LIST" THEN <<>>
           ELSE Quoted(key) \o <<Ch[":"]>> \o (IF spaced THEN <<Ch[" "]>> ELSE <<>>))

Opening(json) == IF heap[json].type = "LIST" THEN Ch["["] ELSE Ch["{"]
ClosingText(json) ==
    Indent(Tabs) \o <<IF heap[json].type = "LIST" THEN Ch["]"] ELSE Ch["}"]>>

\* A row of puts in the call that is depth deep, of which the first good succeed.
Put(chars, good, depth) ==
    /\ good < Len(chars) => Len(failed) < MaxFaults
    /\ output' = Puts(output, chars, good)
    /\ failed' = IF good < Len(chars) THEN Append(failed, depth) ELSE failed

\* A call returns; only the outermost one's status is looked at.
Returns(rest, ok) ==
    /\ writers' = rest
    /\ pending' = None
    /\ status' = IF rest # <<>> THEN status ELSE IF ok THEN "SUCCESS" ELSE "ERROR"

----------------------------------------------------------------------------
\* json_to_stream.
StartWriting(json, s) ==
    /\ status = "none"
    /\ pending = None
    /\ writers = <<>>
    /\ pending' = json
    /\ spaced' = s
    /\ UNCHANGED <<heap, lost, output, writers, status, failed>>

WriteLeaf ==
    /\ pending # None
    /\ Type(heap, pending) \notin {"OBJECT", "LIST"}
    /\ \E good \in 0..Len(LeafText(pending)) :
         /\ Put(LeafText(pending), good, Len(writers))
         /\ Returns(writers, good = Len(LeafText(pending)))
    /\ UNCHANGED <<heap, lost, spaced>>

WriteOpening ==
    /\ pending # None
    /\ Type(heap, pending) \in {"OBJECT", "LIST"}
    /\ \E good \in 0..1 :
         /\ Put(<<Opening(pending)>>, good, Len(writers))
         /\ IF good = 1
            THEN /\ writers' = Append(writers, [json |-> pending,
                                                left |-> DOMAIN heap[pending].kids])
                 /\ pending' = None
                 /\ UNCHANGED status
            ELSE Returns(writers, FALSE)
    /\ UNCHANGED <<heap, lost, spaced>>

\* The next turn of the loop, up to the call for the member: a list's members
\* in their order, a map's in any.
WriteMember ==
    /\ pending = None
    /\ writers # <<>>
    /\ LET json == Last1.json
           left == Last1.left
       IN \E i \in left :
            /\ heap[json].type = "LIST" => i = Min(left)
            /\ LET text == MemberText(json, i, left = DOMAIN heap[json].kids)
               IN \E good \in 0..Len(text) :
                    /\ Put(text, good, Tabs)
                    /\ IF good = Len(text)
                       THEN /\ writers' = [writers EXCEPT ![Len(writers)].left = @ \ {i}]
                            /\ pending' = heap[json].kids[i]
                            /\ UNCHANGED status
                       ELSE Returns(Front(writers), FALSE)
    /\ UNCHANGED <<heap, lost, spaced>>

\* Mutant: the closing bracket is put although what comes before it failed.
WriteClosingAnyway ==
    /\ pending = None
    /\ writers # <<>>
    /\ Last1.left = {}
    /\ LET text == ClosingText(Last1.json)
       IN \E good \in 0..Len(text) :
            /\ good < Len(text) => Len(failed) < MaxFaults
            /\ output' = output \o SubSeq(text, 1, good)
                         \o (IF good < Len(text) - 1 THEN <<text[Len(text)]>> ELSE <<>>)
            /\ failed' = IF good < Len(text) THEN Append(failed, Tabs) ELSE failed
            /\ Returns(Front(writers), good = Len(text))
    /\ UNCHANGED <<heap, lost, spaced>>

WriteClosing ==
    /\ pending = None
    /\ writers # <<>>
    /\ Last1.left = {}
    /\ LET text == ClosingText(Last1.json)
       IN \E good \in 0..Len(text) :
            /\ Put(text, good, Tabs)
            /\ Returns(Front(writers), good = Len(text))
    /\ UNCHANGED <<heap, lost, spaced>>

WriterStep ==
    \/ WriteLeaf
    \/ WriteOpening
    \/ WriteMember
    \/ WriteClosing

Written == status # "none"

============================================================================
