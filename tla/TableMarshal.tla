---------------------------- MODULE TableMarshal ----------------------------
(***************************************************************************)
(* MessageTable.marshalTo of marshal.go with everything below it: the      *)
(* fields of a message in table order, lists and maps, nested messages,    *)
(* oneofs and extensions by reflection, and Any, whose message is encoded  *)
(* into a second buffer that is appended without its braces.               *)
(*                                                                         *)
(* The recursion is a stack of frames, and a step writes one member or     *)
(* item.  A definition marked "slip" is the one after it with a mistake.   *)
(***************************************************************************)
EXTENDS MessageText, SequencesExt

CONSTANTS
  Fallback,  \* types whose table says useProtojson
  Roots,     \* the messages to encode
  Options    \* the MarshalOptions to encode them with

ASSUME OptionsAssumption ==
  Options \subseteq [EmitUnpopulated : BOOLEAN, UseProtoNames : BOOLEAN]
ASSUME RootsAssumption ==
  \A r \in Roots : r \in Values /\ r.is = "message"

VARIABLES
  root,    \* the message
  opts,    \* opts
  bufs,    \* the output buffers, the one in use last
  stack,   \* what is being written, the innermost last
  status   \* "writing", "done" or "failed"

vars == <<root, opts, bufs, stack, status>>

Top == Last(stack)
Written(tokens) == [bufs EXCEPT ![Len(bufs)] = @ \o tokens]
Comma(wrote) == IF wrote THEN <<Token(",")>> ELSE <<>>

\* Frames of marshalTo, of a list and of a map.
ObjectFrame(message, embedded) ==
  [kind |-> "object", message |-> message, next |-> 1, wrote |-> FALSE,
   embedded |-> embedded]
ListFrame(items) == [kind |-> "list", items |-> items, next |-> 1]
SortedKeys(entries) == Sorted(Present(entries))
MapFrame(entries) ==
  [kind |-> "map", entries |-> entries, keys |-> SortedKeys(entries), next |-> 1]

Init ==
  /\ root \in Roots
  /\ opts \in Options
  /\ bufs = <<<<Token("{")>>>>
  /\ stack = <<ObjectFrame(root, FALSE)>>
  /\ status = "writing"
-----------------------------------------------------------------------------
\* Extensions come after the fields, by number.
FieldCount(message) == Len(message.fields)
ExtNumbers(message) == Sorted(Present(message.exts))
MemberCount(message) == FieldCount(message) + Cardinality(Present(message.exts))
IsField(message, i) == i <= FieldCount(message)
FieldAt(message, i) == Types[message.type][i]
ExtAt(message, i) == ExtNumbers(message)[i - FieldCount(message)]
MemberValue(message, i) ==
  IF IsField(message, i) THEN message.fields[i] ELSE message.exts[ExtAt(message, i)]
FieldName(f) == NameOf(f, opts)
MemberKey(message, i) ==
  IF IsField(message, i) THEN Key(FieldName(FieldAt(message, i)))
  ELSE <<"ext", ExtAt(message, i)>>

\* The presence tests, one per case of the switch: plain and optional scalars,
\* bytes, repeated and map fields, messages, oneof members.
ScalarShown(v) == v.is # "zero" \/ opts.EmitUnpopulated
OptionalShownSet(v) == v.is = "set" \* slip: presence is taken for a value
OptionalShown(v) == v.is # "nil"
BytesShown(v) == v.is = "set" \/ opts.EmitUnpopulated
ListShown(v) == Len(v.items) > 0 \/ opts.EmitUnpopulated
MapShown(v) == Present(v.entries) # {} \/ opts.EmitUnpopulated
MessageShown(v) == v.is # "nil" \/ opts.EmitUnpopulated
OneofShown(v) == v.is # "nil"

Shown(shape, v) ==
  CASE shape = "scalar" -> ScalarShown(v)
    [] shape = "optional" -> OptionalShown(v)
    [] shape = "bytes" -> BytesShown(v)
    [] shape = "list" -> ListShown(v)
    [] shape = "map" -> MapShown(v)
    [] shape = "message" -> MessageShown(v)
    [] shape = "oneof" -> OneofShown(v)

\* What a leaf is written as: nil bytes are "", a nil message is null.
LeafToken(shape, v) ==
  CASE v.is = "nil" /\ shape = "bytes" -> Value("zero")
    [] v.is = "nil" /\ shape # "bytes" -> Value("null")
    [] OTHER -> Value(v.is)
-----------------------------------------------------------------------------
\* Writing value v after the tokens before, with the frame to return to.

WriteLeaf(v, shape, before, parent) ==
  /\ v.is \in Leaves \ {"invalid"}
  /\ bufs' = Written(before \o <<LeafToken(shape, v)>>)
  /\ stack' = Append(Front(stack), parent)
  /\ UNCHANGED status

FailLeafDropped(v, before) == \* slip: the error is not passed on
  /\ v.is = "invalid"
  /\ bufs' = Written(before)
  /\ stack' = Front(stack)
  /\ status' = IF Len(stack) = 1 THEN "done" ELSE status

\* validateTimestamp, validateDuration, a Value without a kind, a FieldMask
\* path that does not convert.
FailLeaf(v, before) ==
  /\ v.is = "invalid"
  /\ bufs' = Written(before)
  /\ status' = "failed"
  /\ UNCHANGED stack

EnterList(v, before, parent) ==
  /\ v.is = "list"
  /\ bufs' = Written(before \o <<Token("[")>>)
  /\ stack' = Append(Front(stack), parent) \o <<ListFrame(v.items)>>
  /\ UNCHANGED status

EnterMap(v, before, parent) ==
  /\ v.is = "map"
  /\ bufs' = Written(before \o <<Token("{")>>)
  /\ stack' = Append(Front(stack), parent) \o <<MapFrame(v.entries)>>
  /\ UNCHANGED status

\* A nested table, or protojson for a type that has none.
EnterMessage(v, before, parent) ==
  /\ v.is = "message"
  /\ v.type \notin Fallback
  /\ bufs' = Written(before \o <<Token("{")>>)
  /\ stack' = Append(Front(stack), parent) \o <<ObjectFrame(v, FALSE)>>
  /\ UNCHANGED status

ProtojsonMarshal(v) == Text(v, opts)

FallbackMessage(v, before, parent) ==
  /\ v.is = "message"
  /\ v.type \in Fallback
  /\ IF Encodable(v)
     THEN /\ bufs' = Written(before \o ProtojsonMarshal(v))
          /\ stack' = Append(Front(stack), parent)
          /\ UNCHANGED status
     ELSE /\ status' = "failed"
          /\ UNCHANGED <<bufs, stack>>

\* The members of an encoded object, after a comma when there are any.
Stripped(text) ==
  IF Len(text) > 2 THEN <<Token(",")>> \o SubSeq(text, 2, Len(text) - 1) ELSE <<>>

\* marshalAny: without a type only an empty Any has a text; a well-known type
\* goes under "value"; another message is written to a second buffer.
AnyType == <<Token("{"), Key("@type"), Value("url")>>
EnterAny(v, before, parent) ==
  LET payload == v.payload
      resumed == Append(Front(stack), parent)
  IN
  /\ v.is = "any"
  /\ \/ /\ payload.is = "nil"
        /\ bufs' = Written(before \o <<Token("{"), Token("}")>>)
        /\ stack' = resumed
        /\ UNCHANGED status
     \/ /\ payload.is = "empty"
        /\ bufs' = Written(before \o AnyType \o <<Token("}")>>)
        /\ stack' = resumed
        /\ UNCHANGED status
     \/ /\ payload.is = "known" /\ payload.value.is # "invalid"
        /\ bufs' = Written(before \o AnyType
                     \o <<Token(","), Key("value"), Value(payload.value.is), Token("}")>>)
        /\ stack' = resumed
        /\ UNCHANGED status
     \/ /\ payload.is = "message" /\ payload.type \notin Fallback
        /\ bufs' = Append(Written(before \o AnyType), <<Token("{")>>)
        /\ stack' = Append(resumed, ObjectFrame(payload, TRUE))
        /\ UNCHANGED status
     \/ /\ payload.is = "message" /\ payload.type \in Fallback /\ Encodable(payload)
        /\ bufs' = Written(before \o AnyType
                     \o Stripped(ProtojsonMarshal(payload)) \o <<Token("}")>>)
        /\ stack' = resumed
        /\ UNCHANGED status
     \/ /\ \/ payload.is \in {"untyped", "unresolved"}
           \/ payload.is = "known" /\ payload.value.is = "invalid"
           \/ payload.is = "message" /\ payload.type \in Fallback /\ ~ Encodable(payload)
        /\ status' = "failed"
        /\ UNCHANGED <<bufs, stack>>

WriteValue(v, shape, before, parent) ==
  \/ WriteLeaf(v, shape, before, parent)
  \/ FailLeaf(v, before)
  \/ EnterList(v, before, parent)
  \/ EnterMap(v, before, parent)
  \/ EnterMessage(v, before, parent)
  \/ FallbackMessage(v, before, parent)
  \/ EnterAny(v, before, parent)
-----------------------------------------------------------------------------
\* The next member of a message.
MemberShown ==
  IsField(Top.message, Top.next) =>
    Shown(FieldAt(Top.message, Top.next).shape, MemberValue(Top.message, Top.next))

In(kind) == status = "writing" /\ stack # <<>> /\ Top.kind = kind
InObject == In("object")
MoreMembers == InObject /\ Top.next <= MemberCount(Top.message)

SkipMemberWrote == \* slip: wroteAny is set for a field that is left out
  /\ MoreMembers
  /\ ~ MemberShown
  /\ stack' = Append(Front(stack), [Top EXCEPT !.next = @ + 1, !.wrote = TRUE])
  /\ UNCHANGED <<root, opts, bufs, status>>

SkipMember ==
  /\ MoreMembers
  /\ ~ MemberShown
  /\ stack' = Append(Front(stack), [Top EXCEPT !.next = @ + 1])
  /\ UNCHANGED <<root, opts, bufs, status>>

WriteMember ==
  /\ MoreMembers
  /\ MemberShown
  /\ LET m == Top.message
         i == Top.next
     IN  WriteValue(MemberValue(m, i),
                    IF IsField(m, i) THEN FieldAt(m, i).shape ELSE "message",
                    Comma(Top.wrote) \o <<MemberKey(m, i)>>,
                    [Top EXCEPT !.next = @ + 1, !.wrote = TRUE])
  /\ UNCHANGED <<root, opts>>

\* The closing brace; an embedded message then leaves its buffer.
EndObject ==
  /\ InObject
  /\ Top.next > MemberCount(Top.message)
  /\ stack' = Front(stack)
  /\ bufs' = IF ~ Top.embedded THEN Written(<<Token("}")>>)
             ELSE LET outer == Front(bufs)
                      text == Append(Last(bufs), Token("}"))
                  IN  [outer EXCEPT ![Len(outer)] =
                         @ \o Stripped(text) \o <<Token("}")>>]
  /\ status' = IF Len(stack) = 1 THEN "done" ELSE status
  /\ UNCHANGED <<root, opts>>

\* Items of a list; a nil message is null.
WriteItem ==
  /\ In("list")
  /\ Top.next <= Len(Top.items)
  /\ WriteValue(Top.items[Top.next], "message", Comma(Top.next > 1),
                [Top EXCEPT !.next = @ + 1])
  /\ UNCHANGED <<root, opts>>

EndList ==
  /\ In("list")
  /\ Top.next > Len(Top.items)
  /\ stack' = Front(stack)
  /\ bufs' = Written(<<Token("]")>>)
  /\ UNCHANGED <<root, opts, status>>

\* Entries of a map in the order of their keys.
WriteEntry ==
  /\ In("map")
  /\ Top.next <= Len(Top.keys)
  /\ LET k == Top.keys[Top.next]
     IN  WriteValue(Top.entries[k], "message", Comma(Top.next > 1) \o <<<<"entry", k>>>>,
                    [Top EXCEPT !.next = @ + 1])
  /\ UNCHANGED <<root, opts>>

EndMap ==
  /\ In("map")
  /\ Top.next > Len(Top.keys)
  /\ stack' = Front(stack)
  /\ bufs' = Written(<<Token("}")>>)
  /\ UNCHANGED <<root, opts, status>>

Next ==
  \/ SkipMember \/ WriteMember \/ EndObject
  \/ WriteItem \/ EndList
  \/ WriteEntry \/ EndMap

Spec == Init /\ [][Next]_vars
-----------------------------------------------------------------------------
(* Properties *)

\* The text is the one the message stands for: commas whatever is left out, a
\* nested buffer that comes back in its place, members in order.
OutputIsText == status = "done" => bufs = <<Text(root, opts)>>

\* An encode fails just for a message with a part that has no JSON form, at
\* whatever depth and through whatever lists, maps and Any it lies, and never
\* for one whose text it could write.
FailsOnlyOnInvalid ==
  /\ status = "failed" => ~ Encodable(root)
  /\ status = "done" => Encodable(root)
=============================================================================
