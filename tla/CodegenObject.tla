--------------------------- MODULE CodegenObject ---------------------------
(***************************************************************************)
(* The code that cmd/protoc-gen-go-protojsonx/main.go generates for a      *)
(* message: marshalProtoJSONXTo, and UnmarshalProtoJSONXWithOptions with   *)
(* its two passes.  unmarshalProtoJSONXFast tries the fields in the order  *)
(* they are declared; at the first surprise the decoder is set back and    *)
(* unmarshalProtoJSONXFrom decodes the object again by key.  In the first  *)
(* pass a nested message has two passes of its own; in the second it is    *)
(* read by key at once.                                                    *)
(*                                                                         *)
(* The members of the input are revealed while the first pass reads them.  *)
(* MessageObject says what they mean.  A definition marked "slip" is the   *)
(* one after it with a mistake.                                            *)
(***************************************************************************)
EXTENDS Naturals, FiniteSets, SequencesExt

CONSTANTS
  Schema, Inner,   \* the fields of the message and of its nested messages
  Keys,            \* keys of the input
  Inputs,          \* tokens of the input
  InnerDocs,       \* contents of nested objects
  Sources,         \* "given": any input; "encoded": what the encoder wrote
  MaxDoc           \* bound on the members of a given input

Outer == INSTANCE MessageObject WITH Schema <- Schema, Exts <- {}
Nested == INSTANCE MessageObject WITH Schema <- Inner, Exts <- {}
SchemaOf(level) == IF level = 1 THEN Schema ELSE Inner

\* A nested message is read by the code for its type, a list item by item.
Containers == {"message", "list"}
ASSUME SchemasAssumption ==
  /\ \A s \in {Schema, Inner} :
       /\ s \in Seq([json : STRING, proto : STRING, kind : Outer!Kinds, oneof : Nat])
       /\ \A i \in DOMAIN s : s[i].oneof = 0 <=> s[i].kind \notin Outer!MemberKinds
       \* the generated switch has each name once
       /\ \A i, j \in DOMAIN s :
            i # j => {s[i].json, s[i].proto} \cap {s[j].json, s[j].proto} = {}
  /\ \A i \in DOMAIN Inner : Inner[i].kind \notin Containers

\* The members of an object, those of a nested one without contents of their own.
Members(contents) == [key : STRING, token : Outer!Tokens, inner : contents]
ASSUME InputAssumption ==
  /\ MaxDoc \in Nat
  /\ Sources \subseteq {"given", "encoded"}
  /\ Keys \subseteq STRING
  /\ Inputs \subseteq Outer!Tokens
  /\ \A inner \in InnerDocs : inner \in Seq(Members({<<>>}))

VARIABLES
  source,    \* where the input comes from
  message,   \* the message that was encoded, the empty one for a given input
  discard,   \* discardUnknown
  doc,       \* the members of the input, as far as they have been read
  closed,    \* whether the input ends there
  stack,     \* the objects being read, the innermost last
  status     \* "peek", "reading", "done" or "failed"

vars == <<source, message, discard, doc, closed, stack, status>>

Absent == <<"absent">>
Is(v) == <<v>>
Object(fields) == <<"object", fields>>
EmptyOf(schema) == [i \in DOMAIN schema |-> Absent]
Member(key, token, inner) == [key |-> key, token |-> token, inner |-> inner]
-----------------------------------------------------------------------------
(* marshalProtoJSONXTo *)
OptionalIsScalar(f, v) == v \notin {Absent, Is("default")} \* slip: *x is tested, not x
\* Zero scalars, nil pointers and messages, empty lists and empty bytes are left
\* out, bytes also where they have presence; the member that a oneof holds is
\* written whatever its value.
EmptyBytes(f, v) == f.kind = "bytes" /\ v = Is("default")
ShownIn(f, v) == v # Absent /\ ~ EmptyBytes(f, v)
Token(f, v) == CASE v = Is("nullValue") -> "null" [] v = Is("default") -> "default"
                 [] OTHER -> "value"

\* The fields that are shown, in the order of the schema.
Order(schema, fields) ==
  LET shown == {i \in DOMAIN schema : ShownIn(schema[i], fields[i])}
  IN  CHOOSE order \in [1 .. Cardinality(shown) -> shown] :
        \A k, l \in 1 .. Cardinality(shown) : k < l => order[k] < order[l]
Written(schema, fields, content) ==
  LET order == Order(schema, fields)
  IN  [k \in DOMAIN order |-> LET i == order[k] IN
         Member(schema[i].json, Token(schema[i], fields[i]), content[i])]

\* A nested message is written by the code for its type.
Content(v) ==
  IF v[1] = "object" THEN Written(Inner, v[2], [i \in DOMAIN Inner |-> <<>>]) ELSE <<>>
Encoded(fields) == Written(Schema, fields, [i \in DOMAIN Schema |-> Content(fields[i])])

\* The messages there are to encode, with the nested ones among objects.
ValuesOf(f, objects) ==
  CASE f.kind = "message" -> {Absent} \cup objects
    [] f.kind \in {"plain", "enum", "list"} -> {Absent, Is("value")}
    [] f.kind = "memberNull" -> {Absent, Is("nullValue")}
    [] f.kind = "value" -> {Absent, Is("nullValue"), Is("value")}
    [] OTHER -> {Absent, Is("default"), Is("value")}
MessagesOf(schema, objects) ==
  {m \in [DOMAIN schema -> UNION {ValuesOf(schema[i], objects) : i \in DOMAIN schema}] :
     /\ \A i \in DOMAIN schema : m[i] \in ValuesOf(schema[i], objects)
     /\ \A i, j \in DOMAIN schema :
          i # j /\ schema[i].oneof = schema[j].oneof /\ schema[i].oneof # 0 =>
            Absent \in {m[i], m[j]}}
Encodable == MessagesOf(Schema, {Object(m) : m \in MessagesOf(Inner, {})})
-----------------------------------------------------------------------------
(* UnmarshalProtoJSONXWithOptions *)
Frame(level, pass) ==
  [level |-> level, pass |-> pass, pos |-> 0, field |-> 1,
   fields |-> EmptyOf(SchemaOf(level)), seen |-> {}, oneofs |-> {}]

Init ==
  /\ discard \in BOOLEAN
  /\ source \in Sources
  /\ message \in (IF source = "encoded" THEN Encodable ELSE {EmptyOf(Schema)})
  /\ doc = IF source = "encoded" THEN Encoded(message) ELSE <<>>
  /\ closed = (source = "encoded")
  /\ stack = <<Frame(1, "fast")>>
  /\ status = "peek"

Top == Last(stack)
Input == IF Top.level = 1 THEN doc ELSE doc[stack[1].pos + 1].inner
AtEnd == Top.pos >= Len(Input)
Here == Input[Top.pos + 1]
Known == ~ AtEnd \/ Top.level = 2 \/ closed

\* The tokens a value of the field can be: names only of an enum, contents only
\* of a container.
Sensible(i, token, inner) ==
  LET kind == IF i = 0 THEN "none" ELSE Schema[i].kind IN
  /\ token = "unknownEnum" => kind \in {"enum", "pointerEnum", "memberEnum"}
  /\ token = "default" => kind \notin Containers
  /\ inner # <<>> => kind \in Containers /\ token = "value"

Reveal ==
  /\ status \in {"peek", "reading"}
  /\ ~ Known
  /\ \/ /\ Len(doc) < MaxDoc
        /\ \E key \in Keys, token \in Inputs, inner \in InnerDocs :
             /\ Sensible(Outer!FieldOf([key |-> key]), token, inner)
             /\ doc' = Append(doc, Member(key, token, inner))
        /\ UNCHANGED closed
     \/ /\ closed' = TRUE
        /\ UNCHANGED doc
  /\ UNCHANGED <<source, message, discard, stack, status>>

Fail == status' = "failed" /\ UNCHANGED stack
Continue(frames) == stack' = frames /\ UNCHANGED status
WithTop(frame) == Append(Front(stack), frame)
Same == UNCHANGED <<source, message, discard, doc, closed>>

\* The first key decides whether the fast pass is tried at all.
Peek ==
  /\ status = "peek" /\ Known
  /\ stack' = <<Frame(1, IF AtEnd \/ Here.key = Schema[1].json THEN "fast" ELSE "slow")>>
  /\ status' = "reading"
  /\ Same
-----------------------------------------------------------------------------
(* One value: generateFieldUnmarshalFast, generateFieldUnmarshal *)
Field(i) == SchemaOf(Top.level)[i]
OneofOf(i) == Field(i).oneof
NullIsValue(i) == Field(i).kind \in {"value", "memberNull"}
Stored(i, v) ==
  [j \in DOMAIN Top.fields |->
     CASE j = i -> v
       [] j # i /\ OneofOf(i) # 0 /\ OneofOf(j) = OneofOf(i) -> Absent
       [] OTHER -> Top.fields[j]]
After(i, v) == \* the frame when the value is stored
  [Top EXCEPT !.pos = @ + 1, !.field = i + 1, !.seen = @ \cup {i},
              !.fields = Stored(i, v),
              !.oneofs = IF OneofOf(i) = 0 THEN @ ELSE @ \cup {OneofOf(i)}]

\* null: the zero value, or a value of its own; a member that holds is cleared.
StoreNull(i) ==
  /\ Here.token = "null"
  /\ IF NullIsValue(i)
     THEN IF OneofOf(i) \in Top.oneofs THEN Fail
          ELSE Continue(WithTop(After(i, Is("nullValue"))))
     ELSE Continue(WithTop([Top EXCEPT !.pos = @ + 1, !.field = i + 1,
                                       !.seen = @ \cup {i}, !.fields[i] = Absent]))

\* A name that the enum does not have leaves the variable that is then stored
\* at zero: nothing for a plain field, a value for an optional one or a member.
UnknownEnum(i) == IF Field(i).kind = "enum" THEN Absent ELSE Is("default")
Meant(i) ==
  CASE Here.token = "unknownEnum" -> UnknownEnum(i)
    [] Here.token = "default" /\ Field(i).kind \in {"plain", "enum"} -> Absent
    [] OTHER -> Is(Here.token)

StoreScalarUnchecked(i) == \* slip: seenOneofs is not looked at
  /\ Here.token \notin {"null", "malformed"}
  /\ Field(i).kind \notin Containers
  /\ Here.token = "unknownEnum" => discard
  /\ Continue(WithTop(After(i, Meant(i))))

StoreScalar(i) ==
  /\ Here.token # "null"
  /\ Field(i).kind \notin Containers
  /\ IF \/ OneofOf(i) # 0 /\ OneofOf(i) \in Top.oneofs
        \/ Here.token = "malformed"
        \/ Here.token = "unknownEnum" /\ ~ discard
     THEN Fail
     ELSE Continue(WithTop(After(i, Meant(i))))

\* An item of a list of messages that is null is refused, also for a Value.
StoreList(i) ==
  /\ Here.token # "null"
  /\ Field(i).kind = "list"
  /\ IF Here.token # "value" \/ \E k \in DOMAIN Here.inner : Here.inner[k].token = "null"
     THEN Fail
     ELSE Continue(WithTop(After(i, Is("value"))))

\* The fast pass tries the fast pass of the nested message, the slow its slow.
EnterMessage(i) ==
  /\ Here.token # "null"
  /\ Field(i).kind = "message"
  /\ IF Here.token # "value" THEN Fail
     ELSE Continue(Append(WithTop([Top EXCEPT !.field = i]), Frame(2, Top.pass)))

Store(i) == StoreNull(i) \/ StoreScalar(i) \/ StoreList(i) \/ EnterMessage(i)
-----------------------------------------------------------------------------
\* The end of an object: of the input, or of a nested message, which the outer
\* one stores.
Leave ==
  IF Top.level = 1
  THEN status' = "done" /\ UNCHANGED stack
  ELSE LET inner == Object(Top.fields)
           outer == stack[1]
           i == outer.field
       IN  Continue(<<[outer EXCEPT !.pos = @ + 1, !.field = i + 1, !.seen = @ \cup {i},
                                    !.fields[i] = inner]>>)

Reading(pass) == status = "reading" /\ Top.pass = pass /\ Known
Untried == Top.field <= Len(SchemaOf(Top.level))
Matches == ~ AtEnd /\ Here.key = Field(Top.field).json

\* MatchFast: 1, 0 and -1.
FastField == Reading("fast") /\ Untried /\ Matches /\ Store(Top.field) /\ Same
FastEnd == Reading("fast") /\ Untried /\ AtEnd /\ Leave /\ Same
FastMiss ==
  /\ Reading("fast") /\ Untried /\ ~ AtEnd /\ ~ Matches
  /\ Continue(WithTop([Top EXCEPT !.field = @ + 1]))
  /\ Same

\* TryEndObject after the last field, then Reset and the slow pass.
FastDone == Reading("fast") /\ ~ Untried /\ AtEnd /\ Leave /\ Same

RewindKeepingOneofs == \* slip: the second pass goes on with the first one's marks
  /\ Reading("fast") /\ ~ Untried /\ ~ AtEnd
  /\ Continue(WithTop([Frame(Top.level, "slow") EXCEPT !.oneofs = Top.oneofs]))
  /\ Same

Rewind ==
  /\ Reading("fast") /\ ~ Untried /\ ~ AtEnd
  /\ Continue(WithTop(Frame(Top.level, "slow")))
  /\ Same

\* unmarshalProtoJSONXFrom: the switch on the key, by either name.
Case(key) ==
  {i \in DOMAIN SchemaOf(Top.level) : key \in {Field(i).json, Field(i).proto}}
SlowField ==
  /\ Reading("slow") /\ ~ AtEnd
  /\ \E i \in Case(Here.key) : IF i \in Top.seen THEN Fail ELSE Store(i)
  /\ Same
SlowUnknown ==
  /\ Reading("slow") /\ ~ AtEnd /\ Case(Here.key) = {}
  /\ IF discard /\ Here.token # "malformed"
     THEN Continue(WithTop([Top EXCEPT !.pos = @ + 1])) ELSE Fail
  /\ Same
SlowEnd == Reading("slow") /\ AtEnd /\ Leave /\ Same

Next ==
  \/ Reveal \/ Peek
  \/ FastField \/ FastEnd \/ FastMiss \/ FastDone \/ Rewind
  \/ SlowField \/ SlowUnknown \/ SlowEnd

Spec == Init /\ [][Next]_vars
-----------------------------------------------------------------------------
(* Properties *)

Plain(d) == [i \in DOMAIN d |-> [key |-> d[i].key, token |-> d[i].token]]
MessageFields == {i \in DOMAIN Schema : Schema[i].kind = "message"}
Objects == {i \in DOMAIN doc : Outer!FieldOf(doc[i]) \in MessageFields
                               /\ doc[i].token = "value"}
Legal ==
  /\ Outer!Legal(Plain(doc), discard)
  /\ \A i \in Objects : Nested!Legal(Plain(doc[i].inner), discard)
Meaning ==
  [i \in DOMAIN Schema |->
     LET of == {k \in Objects : Outer!FieldOf(doc[k]) = i} IN
     IF of # {} THEN Object([j \in DOMAIN Inner |->
                       Is(Nested!Meaning(Plain(doc[CHOOSE k \in of : TRUE].inner))[j])])
     ELSE Is(Outer!Meaning(Plain(doc))[i])]

\* Whatever the first pass did before it gave up, inside or outside a nested
\* message, a decoded message is the one the document stands for and the
\* document is legal.
DecodesMeaning ==
  status = "done" => Legal /\ stack[1].fields = Meaning

\* A document is refused for a mistake of its own, never for its order, for
\* the names it uses or for what the first pass saw.
RefusesOnlyIllegal == status = "failed" => ~ Legal

\* A message without its empty bytes, those of nested messages included.
Without(schema, fields) ==
  [i \in DOMAIN schema |-> IF EmptyBytes(schema[i], fields[i]) THEN Absent ELSE fields[i]]
Kept(fields) ==
  [i \in DOMAIN Schema |->
     IF fields[i][1] = "object" THEN Object(Without(Inner, fields[i][2]))
     ELSE Without(Schema, fields)[i]]

\* What the generated encoder writes the generated decoder reads back, and it
\* never needs the second pass for it.  Empty bytes are all that does not return:
\* every other zero with presence, null and member of a oneof does.
ReadsOwnOutput ==
  source = "encoded" =>
    /\ status # "failed"
    /\ status = "done" => stack[1].fields = Kept(message)
    /\ status # "peek" /\ doc # <<>> /\ doc[1].key = Schema[1].json =>
         \A k \in DOMAIN stack : stack[k].pass = "fast"

\* Every message comes back from the generated code as it was encoded, with the
\* presence of all its fields.
KeepsPresence == source = "encoded" /\ status = "done" => stack[1].fields = message
=============================================================================
