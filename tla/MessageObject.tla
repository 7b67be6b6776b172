--------------------------- MODULE MessageObject ---------------------------
(***************************************************************************)
(* What one JSON object means for a message of a given schema: which       *)
(* sequences of members are accepted, and what message an accepted one     *)
(* stands for.  This is the promise that the table decoder of unmarshal.go *)
(* makes (docs/codegen-plugin.md makes the same one for generated code):   *)
(* duplicate fields and conflicting oneof members are rejected, null       *)
(* clears, unknown names are discarded only on request, and the result     *)
(* depends on the document alone.                                          *)
(*                                                                         *)
(* Nothing here is a step of the program: order, caches and the state of   *)
(* the target are what the decoders add.                                   *)
(***************************************************************************)
EXTENDS Naturals, Sequences

CONSTANTS
  Schema,  \* the fields in descriptor order: json and proto name, kind, oneof
  Exts     \* keys "[name]" of the registered extensions

Fields == DOMAIN Schema
Kind(f) == Schema[f].kind
Names(f) == {Schema[f].json, Schema[f].proto}
OneofOf(f) == Schema[f].oneof

\* Storage shapes of fieldInstruction.  "pointer" is an optional scalar,
\* "value" a google.protobuf.Value, a "member" belongs to a oneof.
MemberKinds == {"member", "memberEnum", "memberNull"}
EnumKinds == {"enum", "pointerEnum", "memberEnum"}
PresenceKinds == {"pointer", "pointerEnum", "bytes", "value"} \cup MemberKinds
NullIsValue == {"value", "memberNull"}
Kinds == {"plain", "enum", "message", "list"} \cup PresenceKinds

\* protoc sees to it that JSON names are unique and that proto names are, but
\* one field's JSON name may be the proto name of another.
ASSUME SchemaAssumption ==
  /\ Schema \in Seq([json : STRING, proto : STRING, kind : Kinds, oneof : Nat])
  /\ Exts \subseteq STRING
  /\ \A f, g \in Fields : f # g => /\ Schema[f].json # Schema[g].json
                                   /\ Schema[f].proto # Schema[g].proto
  /\ \A f \in Fields : OneofOf(f) = 0 <=> Kind(f) \notin MemberKinds

\* The content of a JSON value, as far as a field tells it apart: "default" is
\* 0, "", false or empty, "unknownEnum" a name the enum does not have.
Tokens == {"null", "default", "value", "unknownEnum", "malformed"}

\* The content of a field.  A field without presence is never "default": that
\* is "absent".  "old" is what an earlier use of the message left there.
Values == {"absent", "default", "value", "nullValue", "old"}
Messages == {m \in [Fields -> Values] :
               \A f, g \in Fields : f # g /\ OneofOf(f) = OneofOf(g) /\ OneofOf(f) # 0
                                      => "absent" \in {m[f], m[g]}}

\* The field a key names, 0 for none.  A JSON name has precedence over a proto
\* name.
Owner ==
  [key \in UNION {Names(f) : f \in Fields} |->
     IF \E f \in Fields : Schema[f].json = key
     THEN CHOOSE f \in Fields : Schema[f].json = key
     ELSE CHOOSE f \in Fields : Schema[f].proto = key]
FieldOf(member) ==
  IF member.key \in DOMAIN Owner \ Exts THEN Owner[member.key] ELSE 0

\* The value a token gives a field.
Denotes(f, token) ==
  CASE token = "null" -> IF Kind(f) \in NullIsValue THEN "nullValue" ELSE "absent"
    [] token = "default" -> IF Kind(f) \in PresenceKinds THEN "default" ELSE "absent"
    [] token = "value" -> "value"
    [] OTHER -> "absent"

\* The oneof a member of the object gives a value, 0 for none.
Occupied(member) ==
  LET f == FieldOf(member)
  IN  IF f # 0 /\ (member.token # "null" \/ Kind(f) \in NullIsValue)
      THEN OneofOf(f) ELSE 0

\* No field twice, no oneof twice, no extension twice.
NoneTwice(doc) ==
  \A i, j \in DOMAIN doc : i # j =>
    /\ FieldOf(doc[i]) # 0 => FieldOf(doc[i]) # FieldOf(doc[j])
    /\ Occupied(doc[i]) # 0 => Occupied(doc[i]) # Occupied(doc[j])
    /\ doc[i].key \in Exts => doc[i].key # doc[j].key

\* Names are known and values readable, up to what is discarded.
Readable(doc, discard) ==
  \A i \in DOMAIN doc :
    LET known == doc[i].key \in Exts \/ FieldOf(doc[i]) # 0
    IN  /\ discard \/ (known /\ doc[i].token # "unknownEnum")
        /\ doc[i].token # "malformed"

Legal(doc, discard) == NoneTwice(doc) /\ Readable(doc, discard)

\* The message of a legal document.
Meaning(doc) ==
  [f \in Fields |->
     IF \E i \in DOMAIN doc : FieldOf(doc[i]) = f
     THEN Denotes(f, doc[CHOOSE i \in DOMAIN doc : FieldOf(doc[i]) = f].token)
     ELSE "absent"]

ExtMeaning(doc) ==
  [x \in Exts |->
     IF \E i \in DOMAIN doc : doc[i].key = x
     THEN LET token == doc[CHOOSE i \in DOMAIN doc : doc[i].key = x].token
          IN  IF token \in {"default", "value"} THEN token ELSE "absent"
     ELSE "absent"]
=============================================================================
