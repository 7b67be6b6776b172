----------------------------- MODULE MessageText -----------------------------
(***************************************************************************)
(* The JSON text of a message, by the protobuf JSON mapping: a populated   *)
(* field is a member, in descriptor order, extensions follow by number;    *)
(* an unpopulated one is a member when EmitUnpopulated asks for it and it  *)
(* does not track presence; maps are sorted; an Any shows its type, and    *)
(* then the members of its message, or the "value" of a well-known type.   *)
(*                                                                         *)
(* This is the reference for the encoders, without buffers, commas to keep *)
(* track of, or steps.                                                     *)
(***************************************************************************)
EXTENDS Integers, Sequences, FiniteSets

CONSTANTS
  Types,    \* for each message type the sequence of its fields
  Numbers,  \* the keys of maps and the numbers of extensions
  MaxDepth  \* bound of how deep messages nest

\* A value is a leaf ("nil", "zero", "set", "null", or "invalid": a leaf that
\* has no JSON form, as a Timestamp out of range), or has parts.
Leaf(is) == [is |-> is]
List(items) == [is |-> "list", items |-> items]
Map(entries) == [is |-> "map", entries |-> entries]
Message(type, fields, exts) ==
  [is |-> "message", type |-> type, fields |-> fields, exts |-> exts]
AnyOf(payload) == [is |-> "any", payload |-> payload]

Leaves == {"nil", "zero", "set", "null", "invalid"}
\* Shapes without presence: only zero or empty is unpopulated.
Implicit == {"scalar", "bytes", "list", "map"}
\* Shapes that EmitUnpopulated leaves out all the same.
Explicit == {"optional", "oneof"}
Shapes == Implicit \cup Explicit \cup {"message"}

Field(json, proto, shape) == [json |-> json, proto |-> proto, shape |-> shape]

\* What a field can hold, by its Go type: a string is never nil, bytes always
\* have a JSON form, a list is a slice.
Holds(shape, value) ==
  CASE shape = "scalar" -> value.is \in {"zero", "set", "invalid"}
    [] shape = "bytes" -> value.is \in {"nil", "zero", "set"}
    [] shape = "list" -> value.is = "list"
    [] shape = "map" -> value.is = "map"
    [] OTHER -> TRUE

\* Messages and other values with the given parts.  A map or an extension has no
\* nil value: nil is for numbers that are not there.  What a well-known type in an
\* Any has inside is not looked into.
WellTyped(message) ==
  LET fields == Types[message.type]
  IN  /\ Len(message.fields) = Len(fields)
      /\ \A i \in 1 .. Len(fields) : Holds(fields[i].shape, message.fields[i])
Messages(parts) ==
  {message \in [is : {"message"}, type : DOMAIN Types, fields : Seq(parts),
                exts : [Numbers -> parts]] : WellTyped(message)}
Payloads(parts) ==
  {Leaf(is) : is \in {"nil", "empty", "untyped", "unresolved"}}
  \cup [is : {"known"}, value : {Leaf(is) : is \in Leaves}]
  \cup Messages(parts)
Over(parts) ==
  {Leaf(is) : is \in Leaves}
  \cup [is : {"list"}, items : Seq(parts)]
  \cup [is : {"map"}, entries : [Numbers -> parts]]
  \cup Messages(parts)
  \cup [is : {"any"}, payload : Payloads(parts)]

\* The values of each depth.
Trees[depth \in Nat] == IF depth = 0 THEN {} ELSE Over(Trees[depth - 1])
Values == Trees[MaxDepth]

ASSUME TypesAssumption ==
  \A type \in DOMAIN Types :
    Types[type] \in Seq([json : STRING, proto : STRING, shape : Shapes])
ASSUME NumbersAssumption == Numbers \in SUBSET Nat /\ IsFiniteSet(Numbers)
ASSUME MaxDepthAssumption == MaxDepth \in Nat
-----------------------------------------------------------------------------
Present(values) == {n \in Numbers : values[n].is # "nil"}

Empty(value) ==
  \/ value.is \in {"nil", "zero"}
  \/ value.is = "list" /\ value.items = <<>>
  \/ value.is = "map" /\ Present(value.entries) = {}

Populated(shape, value) ==
  IF shape \in Implicit THEN ~ Empty(value) ELSE value.is # "nil"

Token(word) == <<word>>
Key(name) == <<"key", name>>
Value(is) == <<"value", is>>

\* Texts of members or items, those that are not empty, with commas between
\* them: the text from each of them on.
Continued(text) == IF text = <<>> THEN <<>> ELSE <<Token(",")>> \o text
JoinedFrom(texts) ==
  LET from[i \in 1 .. Len(texts) + 1] ==
        IF i > Len(texts) THEN <<>>
        ELSE IF texts[i] = <<>> THEN from[i + 1]
        ELSE texts[i] \o Continued(from[i + 1])
  IN  from
Joined(texts) == JoinedFrom(texts)[1]

\* The numbers of a finite set in their order.
Sorted(S) ==
  CHOOSE s \in [1 .. Cardinality(S) -> S] :
    \A i, j \in 1 .. Cardinality(S) : i < j => s[i] < s[j]

\* Values of fields that are not populated never fail.
MessageEncodable(message, encodable) ==
  /\ \A i \in DOMAIN message.fields : encodable[message.fields[i]]
  /\ \A n \in Present(message.exts) : encodable[message.exts[n]]
PayloadEncodable(payload, encodable) ==
  CASE payload.is = "message" -> MessageEncodable(payload, encodable)
    [] payload.is = "known" -> payload.value.is # "invalid"
    [] OTHER -> payload.is \in {"nil", "empty"}
PartsEncodable(value, encodable) ==
  CASE value.is = "invalid" -> FALSE
    [] value.is = "list" -> \A i \in DOMAIN value.items : encodable[value.items[i]]
    [] value.is = "map" -> \A k \in Present(value.entries) : encodable[value.entries[k]]
    [] value.is = "message" -> MessageEncodable(value, encodable)
    [] value.is = "any" -> PayloadEncodable(value.payload, encodable)
    [] OTHER -> TRUE
Encodable(value) ==
  LET encodable[v \in Values] == PartsEncodable(v, encodable) IN encodable[value]

\* The texts of the members of a message, empty for a member that is left out;
\* text has the texts of its parts.  An unpopulated field is written as zero,
\* empty or null.
NameOf(field, opts) == IF opts.UseProtoNames THEN field.proto ELSE field.json
Unset(shape, value, text) ==
  IF shape = "message" THEN <<Value("null")>>
  ELSE IF value.is = "nil" THEN <<Value("zero")>> ELSE text[value]
Member(field, value, opts, text) ==
  CASE Populated(field.shape, value) -> <<Key(NameOf(field, opts))>> \o text[value]
    [] ~ Populated(field.shape, value) /\ opts.EmitUnpopulated /\ field.shape \notin Explicit ->
         <<Key(NameOf(field, opts))>> \o Unset(field.shape, value, text)
    [] OTHER -> <<>>
Members(message, opts, text) ==
  LET fields == Types[message.type]
      numbers == Sorted(Present(message.exts))
  IN  [i \in 1 .. Len(fields) |-> Member(fields[i], message.fields[i], opts, text)]
      \o [i \in 1 .. Cardinality(Present(message.exts)) |->
            <<<<"ext", numbers[i]>>>> \o text[message.exts[numbers[i]]]]

\* The text of a value that is Encodable.
Enclosed(open, texts, close) == <<Token(open)>> \o Joined(texts) \o <<Token(close)>>
Items(value, text) ==
  [i \in 1 .. Len(value.items) |->
     IF value.items[i].is = "nil" THEN <<Value("null")>> ELSE text[value.items[i]]]
Entries(value, text) ==
  LET keys == Sorted(Present(value.entries))
  IN  [i \in 1 .. Cardinality(Present(value.entries)) |->
         <<<<"entry", keys[i]>>>> \o text[value.entries[keys[i]]]]
AnyMembers(payload, opts, text) ==
  LET type == <<Key("@type"), Value("url")>>
  IN  CASE payload.is = "nil" -> <<>>
        [] payload.is = "message" -> <<type>> \o Members(payload, opts, text)
        [] payload.is = "known" -> <<type, <<Key("value"), Value(payload.value.is)>>>>
        [] OTHER -> <<type>>
PartsText(value, opts, text) ==
  CASE value.is = "list" -> Enclosed("[", Items(value, text), "]")
    [] value.is = "map" -> Enclosed("{", Entries(value, text), "}")
    [] value.is = "message" -> Enclosed("{", Members(value, opts, text), "}")
    [] value.is = "any" -> Enclosed("{", AnyMembers(value.payload, opts, text), "}")
    [] OTHER -> <<Value(value.is)>>
Text(value, opts) ==
  LET text[v \in Values] == PartsText(v, opts, text) IN text[value]
=============================================================================
