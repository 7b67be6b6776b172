---------------------------- MODULE NestedInput ----------------------------
(***************************************************************************)
(* How a decoder walks through nested objects and arrays: the cursor, its  *)
(* depth counter, the places where it is set back, looks ahead with a copy *)
(* of itself, or hands a raw value to a new decoder whose counter starts   *)
(* at zero.  Both decoders are here: the runtime of the generated code     *)
(* (protojsonxgen/runtime.go) and the table decoder with Any               *)
(* (unmarshal.go).  Input is a sequence of tokens.                         *)
(*                                                                         *)
(* The messages all have the same fields: a (the message itself), far (a   *)
(* message of another package) and any (an Any), in this order.  Node has  *)
(* generated code; Extended has generated methods that only forward to the *)
(* runtime, as the generator writes them for what it does not support;     *)
(* Plain and Any have none.  "aEscaped" is the key a written with an       *)
(* escape.  A definition marked "slip" is the one after it with a mistake. *)
(***************************************************************************)
EXTENDS Integers, Sequences, SequencesExt, FiniteSetsExt

CONSTANTS
  MaxDepth,      \* the recursion limit: 100 in the code
  Inputs,        \* what is read: the tokens, and the value they stand for
  Roots,         \* the calls that are made: <<"unmarshal" or "method", message>>
  Supported,     \* messages whose generated methods decode
  Forwarding     \* messages whose generated methods forward to the fallback

ASSUME InputAssumption ==
  /\ MaxDepth \in Nat
  /\ \A text \in Inputs : text.tokens \in Seq(STRING)
  /\ \A call \in Roots : call[1] \in {"unmarshal", "method"}

Fields == <<"a", "far", "any">>
Punctuation == {"{", "}", "[", "]", ",", ":"}
IsString(token) == token \notin Punctuation \cup {"null", "invalid", "end"}
Spelled(token) == IF token = "aEscaped" THEN "a" ELSE token
-----------------------------------------------------------------------------
VARIABLES
  tree,     \* the value the input stands for, or that there is none
  doc,      \* the input
  root,     \* the call that was made
  far,      \* the message that the field far holds
  registered, \* whether the package with the fallbacks is part of the program
  discard,  \* discardUnknown
  d,        \* the decoder at work: its position, depth and the end of its data
  stack,    \* the calls in progress, the innermost last
  status    \* "reading", "done" or "failed"

input == <<tree, doc, root, far, registered, discard>>
vars == <<input, d, stack, status>>

NewDecoder(from, to) == [off |-> from, depth |-> 0, limit |-> to]

\* A call: what it reads, the state of its loop, and the decoder it came from.
Calls(kind, message, decoder) ==
  [kind |-> kind, first |-> TRUE, field |-> 1, type |-> message, back |-> decoder]
Call(kind, decoder) == Calls(kind, "none", decoder)

Init ==
  /\ root \in Roots
  /\ discard \in BOOLEAN
  /\ \E text \in Inputs : tree = text.tree /\ doc = text.tokens
  \* Unmarshal and its registration are in one package, the methods in another.
  /\ registered \in (IF root[1] = "unmarshal" THEN {TRUE} ELSE BOOLEAN)
  /\ far \in (IF "far" \in Range(doc) THEN Supported \cup Forwarding ELSE Supported)
  /\ d = NewDecoder(0, Len(doc))
  /\ stack = <<Call("handed", d), Calls(root[1], root[2], d)>>
  /\ status = "reading"

Top == Last(stack)
Token(i) == IF i < d.limit THEN doc[i + 1] ELSE "end"
Here == Token(d.off)
Calling(kinds) == status = "reading" /\ Top.kind \in kinds

Fail == status' = "failed" /\ UNCHANGED <<d, stack>>
\* The top call becomes the calls given, with the decoder as it then is.
Become(calls, decoder) ==
  /\ stack' = Front(stack) \o calls
  /\ d' = decoder
  /\ UNCHANGED status
\* n tokens further, the counter changed by change.
Ahead(n, change) == [d EXCEPT !.off = @ + n, !.depth = @ + change]

RewoundDeeper(call) == [d EXCEPT !.off = call.back.off] \* slip: Reset without depth
Rewound(call) == [d EXCEPT !.off = call.back.off, !.depth = call.back.depth]
-----------------------------------------------------------------------------
(* Objects and arrays, one step for each call of the runtime *)

\* BeginObject and BeginArray, and their copies in the table decoder.
BeginUnlimited(brace, kind) == \* slip: the limit is never looked at
  IF Here # brace THEN Fail ELSE Become(<<Call(kind, d)>>, Ahead(1, 1))
Begin(brace, kind) ==
  IF Here # brace \/ d.depth + 1 > MaxDepth THEN Fail
  ELSE Become(<<Call(kind, d)>>, Ahead(1, 1))

\* NextObjectKey and the loops that do the same: where the key is, or 0.
KeyAt == IF Top.first THEN d.off ELSE IF Here = "," THEN d.off + 1 ELSE -1
HasKey == KeyAt # -1 /\ IsString(Token(KeyAt)) /\ Token(KeyAt + 1) = ":"
Key == Spelled(Token(KeyAt))
\* The value after the key is read by callee, then the loop goes on.
ReadMember(callee) ==
  LET after == [d EXCEPT !.off = KeyAt + 2]
  IN  Become(<<[Top EXCEPT !.first = FALSE], Call(callee, after)>>, after)
\* Any keeps no count for the brace of the object with its value.
Uncounted == {"look", "wrapped"}
EndObject == Become(<<>>, Ahead(1, IF Top.kind \in Uncounted THEN 0 ELSE -1))

\* What reads a field's value: the pass at work for a message of the package, a
\* decoder of its own for the other two, the table decoder for all of them.
FieldOf == [fast |-> "fastField", slow |-> "slowField", table |-> "tableField"]
CalleeOf(reader, field) ==
  CASE field = "a" -> FieldOf[reader]
    [] field = "far" -> IF reader = "table" THEN "tableField" ELSE "farField"
    [] field = "any" -> IF reader = "table" THEN "any" ELSE "anyField"
    [] OTHER -> "skip"
Known(field) == field \in Range(Fields)

\* A member of a message that is read by key.
Member(reader) ==
  IF HasKey /\ (Known(Key) \/ discard) THEN ReadMember(CalleeOf(reader, Key)) ELSE Fail
\* "@type" once its value is known: any string will do.
PassOverType ==
  IF IsString(Token(KeyAt + 2))
  THEN Become(<<[Top EXCEPT !.first = FALSE]>>, [d EXCEPT !.off = KeyAt + 3])
  ELSE Fail
-----------------------------------------------------------------------------
(* The start of a value *)
Nullable == {"fastField", "slowField", "tableField", "farField", "anyField", "any"}
ReadNull == Calling(Nullable) /\ Here = "null" /\ Become(<<>>, Ahead(1, 0))

StartsOf == [fast |-> {"fast", "fastField"}, slow |-> {"slow", "slowField"},
             table |-> {"table", "tableField"}, node |-> {"node"}]
LoopOf == [fast |-> "fastLoop", slow |-> "slowLoop", table |-> "tableLoop",
           node |-> "nodeLoop"]
BeginMessage(reader) ==
  /\ Calling(StartsOf[reader])
  /\ Top.kind \in Nullable => Here # "null"
  /\ Begin("{", LoopOf[reader])

\* Unmarshal: the method when the message has the mark ProtoJSONXFastPath, which
\* the generator writes for supported messages only, else the table.
EveryGenerated == Supported \cup Forwarding \* slip: the mark is always written
Marked == Supported
Unmarshal ==
  /\ Calling({"unmarshal"})
  /\ LET callee == IF Top.type \in Marked THEN "method"
                   ELSE IF Top.type = "Any" THEN "any" ELSE "table"
     IN  Become(<<Calls(callee, Top.type, d)>>, d)
\* UnmarshalWithOptions hands the same data back to Unmarshal.
Forward ==
  /\ Calling({"method"}) /\ Top.type \in Forwarding
  /\ IF registered THEN Become(<<Calls("unmarshal", Top.type, d)>>, d) ELSE Fail

\* PeekObjectFieldName at the start of a generated message: the first key
\* decides whether the fast pass is tried.
Peeked == Token(d.off + 1)
PeekLegal ==
  /\ Here = "{" /\ d.depth + 1 <= MaxDepth
  /\ Peeked = "}" \/ (IsString(Peeked) /\ Token(d.off + 2) = ":")
ReaderPeeked == IF Peeked = "}" \/ Spelled(Peeked) = Fields[1] THEN "fast" ELSE "slow"
PeekWithoutReset == \* slip: the decoder stays behind the key
  /\ Calling({"method"}) /\ Top.type \in Supported
  /\ IF PeekLegal THEN Become(<<Call(ReaderPeeked, d)>>, Ahead(3, 1)) ELSE Fail
Peek ==
  /\ Calling({"method"}) /\ Top.type \in Supported
  /\ IF PeekLegal THEN Become(<<Call(ReaderPeeked, d)>>, d) ELSE Fail

\* SkipValue
SkipUnlimited == \* slip: the skipped part has no limit of its own
  /\ Calling({"skip"})
  /\ CASE Here = "{" -> Become(<<Call("skipObject", d)>>, Ahead(1, 1))
       [] Here = "[" -> Become(<<Call("skipArray", d)>>, Ahead(1, 1))
       [] Here = "null" \/ IsString(Here) -> Become(<<>>, Ahead(1, 0))
       [] OTHER -> Fail
Skip ==
  /\ Calling({"skip"})
  /\ CASE Here = "{" -> Begin("{", "skipObject")
       [] Here = "[" -> Begin("[", "skipArray")
       [] Here = "null" \/ IsString(Here) -> Become(<<>>, Ahead(1, 0))
       [] OTHER -> Fail
-----------------------------------------------------------------------------
(* The loops over members and elements *)
EndMessage ==
  /\ Calling({"slowLoop", "tableLoop", "nodeLoop", "skipObject", "wrapped"})
  /\ Here = "}" /\ EndObject
MembersOf(kind) == Calling({kind}) /\ Here # "}"

SlowMember == MembersOf("slowLoop") /\ Member("slow")
TableMember == MembersOf("tableLoop") /\ Member("table")
SkipMember == MembersOf("skipObject") /\ (IF HasKey THEN ReadMember("skip") ELSE Fail)

\* NextArrayElement
SkipElement ==
  /\ Calling({"skipArray"})
  /\ CASE Here = "]" -> EndObject
       [] Here # "]" /\ KeyAt # -1 ->
            LET after == [d EXCEPT !.off = KeyAt]
            IN  Become(<<[Top EXCEPT !.first = FALSE], Call("skip", after)>>, after)
       [] OTHER -> Fail

\* MatchFast with the next field, byte by byte: an escape is no match.
Untried == Top.field <= Len(Fields)
FastField ==
  /\ Calling({"fastLoop"}) /\ Untried /\ Here # "}"
  /\ IF Here = "end" \/ KeyAt = -1 THEN Fail
     ELSE IF Token(KeyAt) # Fields[Top.field]
     THEN Become(<<[Top EXCEPT !.field = @ + 1]>>, d)
     ELSE IF Token(KeyAt + 1) # ":" THEN Fail
     ELSE LET after == [d EXCEPT !.off = KeyAt + 2]
          IN  Become(<<[Top EXCEPT !.first = FALSE, !.field = @ + 1],
                       Call(CalleeOf("fast", Fields[Top.field]), after)>>, after)
FastEnd == Calling({"fastLoop"}) /\ Here = "}" /\ EndObject

\* TryEndObject after the last field: the slow pass starts over.
Rewind ==
  /\ Calling({"fastLoop"}) /\ ~ Untried /\ Here # "}"
  /\ IF Here = "end" THEN Fail
     ELSE Become(<<Call("slow", Rewound(Top))>>, Rewound(Top))
-----------------------------------------------------------------------------
(* A raw value and the decoder it is handed to *)
RawOf == [farField |-> "farRaw", anyField |-> "anyRaw"]
HandedTo == [farRaw |-> far, anyRaw |-> "Any"]

\* UnmarshalField: ReadRawValue, then UnmarshalWithOptions, which calls Unmarshal
\* with the value as its data; Finish is at the end of all data.
ReadRaw ==
  /\ Calling(DOMAIN RawOf) /\ Here # "null"
  /\ Become(<<Call(RawOf[Top.kind], d), Call("skip", d)>>, d)
HandOver ==
  /\ Calling(DOMAIN HandedTo)
  /\ LET inner == NewDecoder(Top.back.off, d.off)
     IN  IF registered
         THEN Become(<<Call("handed", d), Calls("unmarshal", HandedTo[Top.kind], inner)>>,
                     inner)
         ELSE Fail
Finish ==
  /\ Calling({"handed"})
  /\ IF d.off # d.limit THEN Fail
     ELSE /\ stack' = Front(stack)
          /\ d' = Top.back
          /\ status' = IF Len(stack) = 1 THEN "done" ELSE status
-----------------------------------------------------------------------------
(* unmarshalAny *)

\* findTypeURL works on a copy of the decoder: back is the original.
Look ==
  /\ Calling({"any"}) /\ Here # "null"
  /\ IF Here = "{" THEN Become(<<Call("look", d)>>, Ahead(1, 0)) ELSE Fail
FindLastType == \* slip: a second "@type" replaces the first
  /\ MembersOf("look")
  /\ IF ~ HasKey THEN Fail
     ELSE IF Key # "@type" THEN ReadMember("skip")
     ELSE IF ~ IsString(Token(KeyAt + 2)) THEN Fail
     ELSE Become(<<[Top EXCEPT !.first = FALSE, !.type = Token(KeyAt + 2)]>>,
                 [d EXCEPT !.off = KeyAt + 3])
FindType ==
  /\ MembersOf("look")
  /\ IF ~ HasKey THEN Fail
     ELSE IF Key # "@type" THEN ReadMember("skip")
     ELSE IF Top.type # "none" \/ ~ IsString(Token(KeyAt + 2)) THEN Fail
     ELSE Become(<<[Top EXCEPT !.first = FALSE, !.type = Token(KeyAt + 2)]>>,
                 [d EXCEPT !.off = KeyAt + 3])

\* With the type the original decoder reads the object: as a message with a
\* "@type" among its fields, or as a well-known type under "value".
TypeFound ==
  /\ Calling({"look"}) /\ Here = "}"
  /\ LET original == Top.back IN
     CASE Top.type = "Node" -> Become(<<Call("node", original)>>, original)
       [] Top.type = "Any" ->
            Become(<<Call("wrapped", original)>>, [original EXCEPT !.off = @ + 1])
       [] Top.type = "none" /\ Top.first -> Become(<<>>, [original EXCEPT !.off = @ + 2])
       [] Top.type = "none" /\ ~ Top.first /\ discard ->
            Become(<<Call("skip", original)>>, original)
       [] OTHER -> Fail

NodeMember ==
  /\ MembersOf("nodeLoop")
  /\ IF HasKey /\ Key = "@type" THEN PassOverType ELSE Member("table")
WrappedMember ==
  /\ MembersOf("wrapped")
  /\ CASE HasKey /\ Key = "@type" -> PassOverType
       [] HasKey /\ Key = "value" -> ReadMember("any")
       [] HasKey /\ Key \notin {"@type", "value"} /\ discard -> ReadMember("skip")
       [] OTHER -> Fail

Next ==
  /\ \/ Unmarshal \/ Forward \/ Peek \/ ReadNull \/ Skip
     \/ \E reader \in DOMAIN StartsOf : BeginMessage(reader)
     \/ EndMessage \/ SlowMember \/ TableMember \/ SkipMember \/ SkipElement
     \/ FastField \/ FastEnd \/ Rewind
     \/ ReadRaw \/ HandOver \/ Finish
     \/ Look \/ FindType \/ TypeFound \/ NodeMember \/ WrappedMember
  /\ UNCHANGED input

Spec == Init /\ [][Next]_vars /\ WF_vars(Next)
-----------------------------------------------------------------------------
(* Properties *)
Counted == {"fastLoop", "slowLoop", "tableLoop", "nodeLoop", "skipObject", "skipArray"}
Open(kinds, from) == Cardinality({k \in from .. Len(stack) : stack[k].kind \in kinds})
Handed == {k \in DOMAIN stack : stack[k].kind = "handed"}

\* The counter of the decoder at work is the number of objects and arrays it
\* has open, after every return, rewind, lookahead and hand-over: when it were
\* more, siblings would use up the limit, when it were less, nothing would
\* stop the recursion.
CounterIsNesting ==
  status = "reading" => d.depth = Open(Counted, Max(Handed))

\* A value that is handed over gets a counter of its own, starting at zero, and
\* still the calls in progress, of all decoders together, stay within the limit,
\* since the value was skipped under the counter of the decoder before it.  (The
\* brace of an Any is not counted, hence the one more.)
RecursionBounded ==
  status = "reading" =>
    /\ d.off <= d.limit /\ d.depth <= MaxDepth
    /\ Open(Counted \cup Uncounted, 1) <= MaxDepth + 1

\* Decoding ends, whatever the input: a rewind happens once for an object, and
\* generated code, fallback and table do not call each other for ever.
EveryDecodeEnds == <>(status # "reading")
=============================================================================
