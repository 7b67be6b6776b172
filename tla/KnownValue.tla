----------------------------- MODULE KnownValue -----------------------------
(***************************************************************************)
(* The well-known types with a JSON form of their own: wrappers, Timestamp *)
(* and Duration ("Time"), Empty, FieldMask, Struct, ListValue and Value.   *)
(* unmarshalCustomWellKnown and the cases of unmarshalKnownField read them *)
(* into what the target holds; marshalFieldMask, writeStruct, writeValue   *)
(* and writeListValue write them.  Any is in NestedInput.                  *)
(*                                                                         *)
(* A value is read from a tree of JSON.  Only the paths of a FieldMask are *)
(* spelled out.  A definition marked "slip" is the one after it with a     *)
(* mistake.                                                                *)
(***************************************************************************)
EXTENDS Naturals, SequencesExt, FiniteSetsExt

CONSTANTS
  Keys,      \* keys of a Struct in ascending order
  Readings,  \* what is read: records of type, place, input and old value
  Writings   \* what is written and then read: type, place, message, old value

VARIABLES
  type,     \* the type of the value
  place,    \* "root", "field", "extension", "member" of a oneof or "item" of a list
  discard,  \* discardUnknown
  old,      \* what the place held
  message,  \* the message that was written, or Absent
  input,    \* the JSON
  target,   \* the value in its place
  stack,    \* the objects and arrays being read, the innermost last
  phase     \* "message", "unwritable", "start", "reading", "failed" or "read"

subject == <<type, place, discard, old, message>>
vars == <<subject, input, target, stack, phase>>

\* JSON: null, a scalar ("new" for one the type can hold, "other" for one that
\* only a Value can, "bad" for what is no JSON), the text of a mask, an object as
\* a sequence of <<key, value>>, an array.  Null and scalars are Values as well.
Null == <<"null">>
Scalar(s) == <<"scalar", s>>
Object(members) == <<"object", members>>
Array(items) == <<"array", items>>
MaskText(letters) == <<"text", letters>>
\* Messages.
Absent == <<"absent">>
Zero == <<"zero">>
Old == <<"old">>
Unset == <<"unset">>          \* a Value without a kind
Struct(f) == <<"struct", f>>
List(s) == <<"list", s>>
Paths(s) == <<"paths", s>>
NoMembers == [key \in {} |-> Null]

ZeroOf(t) ==
  CASE t = "Struct" -> Struct(NoMembers)
    [] t = "ListValue" -> List(<<>>)
    [] t = "FieldMask" -> Paths(<<>>)
    [] t = "Value" -> Unset
    [] OTHER -> Zero
-----------------------------------------------------------------------------
(* FieldMask: a letter is "a", "A", "1", "_", ".", "," or " " *)

\* A path is a proto name; its text has a capital for each underscore.
jsonSnakeCase(s) ==
  FlattenSeq([i \in DOMAIN s |-> IF s[i] = "A" THEN <<"_", "a">> ELSE <<s[i]>>])
jsonCamelCase(s) ==
  FlattenSeq([i \in DOMAIN s |->
    CASE s[i] = "_" -> <<>>
      [] s[i] = "a" /\ i > 1 /\ s[i - 1] = "_" -> <<"A">>
      [] OTHER -> <<s[i]>>])

\* strings.Split and strings.TrimSpace
Split(s, separator) ==
  FoldLeft(LAMBDA parts, c : IF c = separator THEN Append(parts, <<>>)
                             ELSE [parts EXCEPT ![Len(parts)] = Append(@, c)],
           <<<<>>>>, s)
Trim(s) ==
  LET marks == {i \in DOMAIN s : s[i] # " "}
  IN  IF marks = {} THEN <<>> ELSE SubSeq(s, Min(marks), Max(marks))
\* protoreflect.FullName.IsValid
IsValid(s) ==
  \A name \in ToSet(Split(s, ".")) :
    name # <<>> /\ name[1] # "1" /\ ToSet(name) \subseteq {"a", "A", "1", "_"}

Joined(texts) ==
  IF texts = <<>> THEN <<>>
  ELSE Tail(FlattenSeq([i \in DOMAIN texts |-> <<",">> \o texts[i]]))

\* The encoder converts a path there and back.
ReversibleUnchecked(s) == TRUE \* slip: the path is not converted back
Reversible(s) == s = jsonSnakeCase(jsonCamelCase(s))
-----------------------------------------------------------------------------
(* Writing *)
Ascending(f) == SelectSeq(Keys, LAMBDA key : key \in DOMAIN f)

RECURSIVE Writable(_)
Writable(m) ==
  CASE m[1] = "struct" -> \A key \in DOMAIN m[2] : Writable(m[2][key])
    [] m[1] = "list" -> \A i \in DOMAIN m[2] : Writable(m[2][i])
    [] m[1] = "paths" -> \A i \in DOMAIN m[2] : IsValid(m[2][i]) /\ Reversible(m[2][i])
    [] OTHER -> m # Unset

RECURSIVE Written(_)
Written(m) ==
  CASE m[1] = "struct" ->
         Object([i \in DOMAIN Ascending(m[2]) |->
                   <<Ascending(m[2])[i], Written(m[2][Ascending(m[2])[i]])>>])
    [] m[1] = "list" -> Array([i \in DOMAIN m[2] |-> Written(m[2][i])])
    [] m[1] = "paths" -> MaskText(Joined([i \in DOMAIN m[2] |-> jsonCamelCase(m[2][i])]))
    [] OTHER -> m

Write ==
  /\ phase = "message"
  /\ IF Writable(message)
     THEN input' = Written(message) /\ phase' = "start"
     ELSE phase' = "unwritable" /\ UNCHANGED input
  /\ UNCHANGED <<subject, target, stack>>
-----------------------------------------------------------------------------
(* The start of a value *)
Init ==
  /\ discard \in BOOLEAN
  /\ \/ \E r \in Readings :
          /\ type = r.type /\ place = r.place /\ input = r.input /\ old = r.old
          /\ message = Absent /\ phase = "start"
     \/ \E w \in Writings :
          /\ type = w.type /\ place = w.place /\ message = w.message /\ old = w.old
          /\ input = Null /\ phase = "message"
  /\ target = old
  /\ stack = <<>>

Same == UNCHANGED <<subject, input>>
Fail == phase' = "failed" /\ UNCHANGED <<target, stack>>
Finish(v) == phase' = "read" /\ target' = v /\ UNCHANGED stack
Starting(types) == phase = "start" /\ input # Null /\ type \in types

\* null: no value in a field, but a Value of its own where the table has a case
\* for it; outside of fields the zero of some types.
NullIsRead ==
  CASE place \in {"field", "member"} -> Finish(IF type = "Value" THEN Null ELSE Absent)
    [] place = "extension" -> Finish(Absent)
    [] place = "item" -> Fail
    [] place = "root" ->
         CASE type = "Value" -> Finish(Null)
           [] type \in {"Wrapper", "Time"} -> Finish(Zero)
           [] type = "Empty" -> Finish(target)
           [] OTHER -> Fail
ReadNull == phase = "start" /\ input = Null /\ NullIsRead /\ Same

\* What is decoded into: a new message in a oneof or list, and else what is there.
Place == IF place \in {"member", "item"} \/ target = Absent THEN ZeroOf(type) ELSE target

Frame(kind, rest, built) == [kind |-> kind, rest |-> rest, built |-> built]
Enter(kind, rest, built) ==
  /\ stack' = Append(stack, Frame(kind, rest, built))
  /\ phase' = "reading"
  /\ target' = Place

\* The target's map or list is cleared first.
ReadObjectKeeping == \* slip: the members of the old Struct stay
  /\ Starting({"Struct"})
  /\ IF input[1] = "object" THEN Enter("struct", input[2], Place[2]) ELSE Fail
  /\ Same
ReadObject ==
  /\ Starting({"Struct"})
  /\ IF input[1] = "object" THEN Enter("struct", input[2], NoMembers) ELSE Fail
  /\ Same
ReadArray ==
  /\ Starting({"ListValue"})
  /\ IF input[1] = "array" THEN Enter("list", input[2], <<>>) ELSE Fail
  /\ Same

\* Values, wrappers in either form, Empty, Timestamp and Duration.
ReadAnyValue ==
  /\ Starting({"Value"})
  /\ CASE input[1] = "object" -> Enter("struct", input[2], NoMembers)
       [] input[1] = "array" -> Enter("list", input[2], <<>>)
       [] input[1] = "scalar" -> IF input[2] = "bad" THEN Fail ELSE Finish(input)
  /\ Same
ReadPlain ==
  /\ Starting({"Wrapper", "Time", "Empty"})
  /\ CASE input[1] = "object" /\ type # "Time" -> Enter("members", input[2], <<>>)
       [] input = Scalar("new") /\ type # "Empty" -> Finish(input)
       [] OTHER -> Fail
  /\ Same

ReadMask ==
  /\ Starting({"FieldMask"})
  /\ IF input[1] # "text" THEN Fail
     ELSE LET texts == Split(Trim(input[2]), ",")
              paths == [i \in DOMAIN texts |-> jsonSnakeCase(texts[i])]
          IN  CASE Trim(input[2]) = <<>> -> Finish(Place) \* nothing is written
                [] Trim(input[2]) # <<>> /\ \E i \in DOMAIN texts :
                     "_" \in ToSet(texts[i]) \/ ~ IsValid(paths[i]) -> Fail
                [] OTHER -> Finish(Paths(paths))
  /\ Same
-----------------------------------------------------------------------------
(* Members and items *)
Top == Last(stack)
In(kinds) == phase = "reading" /\ Top.kind \in kinds
Value == IF Top.kind = "list" THEN Top.rest[1] ELSE Top.rest[1][2]

\* frame with value v in it: a later member with the same key replaces it.
With(frame, v) ==
  [frame EXCEPT
     !.built = IF frame.kind = "list" THEN Append(@, v)
               ELSE [k \in DOMAIN @ \cup {frame.rest[1][1]} |->
                       IF k = frame.rest[1][1] THEN v ELSE @[k]],
     !.rest = Tail(@)]

ReadLeaf ==
  /\ In({"struct", "list"}) /\ Top.rest # <<>>
  /\ Value[1] \in {"null", "scalar"}
  /\ IF Value = Scalar("bad") THEN Fail
     ELSE stack' = Append(Front(stack), With(Top, Value)) /\ UNCHANGED <<target, phase>>
  /\ Same
\* A Value's struct or list is a new message.
ReadNested ==
  /\ In({"struct", "list"}) /\ Top.rest # <<>>
  /\ \/ Value[1] = "object" /\ stack' = Append(stack, Frame("struct", Value[2], NoMembers))
     \/ Value[1] = "array" /\ stack' = Append(stack, Frame("list", Value[2], <<>>))
  /\ UNCHANGED <<target, phase>>
  /\ Same
End ==
  /\ In({"struct", "list"}) /\ Top.rest = <<>>
  /\ LET v == <<Top.kind, Top.built>>
         outer == Front(stack)
     IN  IF outer = <<>> THEN stack' = <<>> /\ target' = v /\ phase' = "read"
         ELSE /\ stack' = Append(Front(outer), With(Last(outer), v))
              /\ UNCHANGED <<target, phase>>
  /\ Same

\* The object form of a wrapper has "value", Empty has no field.
SkippedNever == FALSE \* slip: discardUnknown is not passed on
Skipped == discard /\ Value # Scalar("bad")
ReadMember ==
  /\ In({"members"}) /\ Top.rest # <<>>
  /\ LET rest == stack' = <<[Top EXCEPT !.rest = Tail(@)]>>
     IN  CASE Top.rest[1][1] = "value" /\ type = "Wrapper" ->
                IF Value = Scalar("new") THEN target' = Value /\ rest /\ UNCHANGED phase
                ELSE Fail
           [] OTHER -> IF Skipped THEN rest /\ UNCHANGED <<target, phase>> ELSE Fail
  /\ Same
EndMembers ==
  /\ In({"members"}) /\ Top.rest = <<>>
  /\ phase' = "read" /\ stack' = <<>>
  /\ UNCHANGED target
  /\ Same

Next ==
  \/ Write
  \/ ReadNull \/ ReadObject \/ ReadArray \/ ReadAnyValue \/ ReadPlain \/ ReadMask
  \/ ReadLeaf \/ ReadNested \/ End \/ ReadMember \/ EndMembers

Spec == Init /\ [][Next]_vars
-----------------------------------------------------------------------------
(* Properties *)
KeysOf(t) == {t[2][i][1] : i \in DOMAIN t[2]}
NoneTwice(t) == Cardinality(KeysOf(t)) = Len(t[2])
Member(t, key) == t[2][CHOOSE i \in DOMAIN t[2] : t[2][i][1] = key][2]

RECURSIVE IsValue(_)
IsValue(t) ==
  CASE t[1] = "object" -> NoneTwice(t) /\ \A key \in KeysOf(t) : IsValue(Member(t, key))
    [] t[1] = "array" -> \A i \in DOMAIN t[2] : IsValue(t[2][i])
    [] OTHER -> t = Null \/ t \in {Scalar("new"), Scalar("other")}
RECURSIVE ValueOf(_)
ValueOf(t) ==
  CASE t[1] = "object" -> Struct([key \in KeysOf(t) |-> ValueOf(Member(t, key))])
    [] t[1] = "array" -> List([i \in DOMAIN t[2] |-> ValueOf(t[2][i])])
    [] OTHER -> t

\* Which JSON is legal in the place, and what it stands for.
NullLegal ==
  CASE place = "item" -> type = "Value"
    [] place = "root" -> type \in {"Value", "Wrapper", "Time", "Empty"}
    [] OTHER -> TRUE
Legal ==
  CASE input = Null -> NullLegal
    [] input # Null /\ type \in {"Struct", "ListValue", "Value"} ->
         /\ IsValue(input)
         /\ type = "Struct" => input[1] = "object"
         /\ type = "ListValue" => input[1] = "array"
    [] input # Null /\ type = "FieldMask" ->
         /\ input[1] = "text"
         /\ Trim(input[2]) # <<>> =>
              \A text \in ToSet(Split(Trim(input[2]), ",")) :
                IsValid(text) /\ "_" \notin ToSet(text)
    [] OTHER ->
         \/ input = Scalar("new") /\ type # "Empty"
         \/ /\ input[1] = "object" /\ type # "Time" /\ NoneTwice(input)
            /\ \A key \in KeysOf(input) :
                 IF key = "value" /\ type = "Wrapper" THEN Member(input, key) = Scalar("new")
                 ELSE discard /\ Member(input, key) # Scalar("bad")
Meaning ==
  CASE input = Null -> IF type = "Value" THEN Null
                       ELSE IF place = "root" THEN ZeroOf(type) ELSE Absent
    [] input # Null /\ type \in {"Struct", "ListValue", "Value"} -> ValueOf(input)
    [] input # Null /\ type = "FieldMask" ->
         IF Trim(input[2]) = <<>> THEN Paths(<<>>)
         ELSE LET texts == Split(Trim(input[2]), ",")
              IN  Paths([i \in DOMAIN texts |-> jsonSnakeCase(texts[i])])
    [] OTHER -> IF input[1] = "object"
                THEN IF "value" \in KeysOf(input) /\ type = "Wrapper"
                     THEN Member(input, "value") ELSE Zero
                ELSE input

\* Whatever the place held, and in whichever of the places it is, a value that
\* is accepted is legal, and the place then holds what the input stands for; a
\* value is refused for a mistake in it only.
KnownIsInput ==
  /\ phase = "read" => Legal /\ target = Meaning
  /\ phase = "failed" => ~ Legal

\* Which messages have a text: every Value in it has a kind, and a path has no
\* capitals and just underscores before a letter.
RECURSIVE HasText(_)
HasText(m) ==
  CASE m[1] = "struct" -> \A key \in DOMAIN m[2] : HasText(m[2][key])
    [] m[1] = "list" -> \A i \in DOMAIN m[2] : HasText(m[2][i])
    [] m[1] = "paths" ->
         \A i \in DOMAIN m[2] : LET p == m[2][i] IN
           /\ IsValid(p) /\ "A" \notin ToSet(p)
           /\ \A k \in DOMAIN p : p[k] = "_" => k < Len(p) /\ p[k + 1] = "a"
    [] OTHER -> m # Unset

\* What the encoder writes the decoder reads as the same message, over whatever
\* was there; the encoder refuses just the messages that have no text, and what
\* was read has one.
KnownSurvives ==
  /\ phase = "unwritable" => ~ HasText(message)
  /\ message # Absent => phase # "failed" /\ (phase = "read" => target = message)
  /\ phase = "read" /\ target # Absent => HasText(target)
=============================================================================
