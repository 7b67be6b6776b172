------------------------------ MODULE RoundTrip ------------------------------
(***************************************************************************)
(* The two halves of the table path on one message: what TableMarshal      *)
(* writes is read by TableUnmarshal into a target that holds something     *)
(* else.  The halves agree on presence, names and null only by convention: *)
(* they share the field table and nothing else.                            *)
(***************************************************************************)
EXTENDS TableMarshal

CONSTANTS
  Schema,   \* the fields, as MessageObject describes them
  Widths,   \* widths of the decoder's masks
  Targets,  \* contents of the message before the decode
  ReadBack  \* types whose messages are read back, the flat ones

VARIABLES
  width, discard, phase, target, exts, seen, seenOneofs, seenExts, nextIdx, doc

decoderVars == <<width, discard, phase, target, exts, seen, seenOneofs, seenExts,
                 nextIdx, doc>>

\* The message as MessageObject writes it, from the encoder's leaves.
Kind(f) == Schema[f].kind
ContentOf(f, leaf) ==
  CASE leaf = "nil" -> "absent"
    [] leaf = "zero" -> IF Kind(f) \in {"plain", "enum"} THEN "absent" ELSE "default"
    [] leaf = "set" -> "value"
    [] leaf = "null" -> "nullValue"
Content(m) == [f \in DOMAIN Schema |-> ContentOf(f, m.fields[f].is)]

\* What the two halves call a field that holds one token: its shape for the
\* encoder, by its kind for the decoder, and the leaves it can hold.
ShapeOf(kind) ==
  CASE kind \in {"plain", "enum"} -> "scalar"
    [] kind \in {"pointer", "pointerEnum", "bytes"} -> "optional"
    [] kind = "value" -> "message"
    [] OTHER -> "oneof"
LeavesOf(kind) ==
  CASE kind \in {"plain", "enum"} -> {"zero", "set"}
    [] kind = "value" -> {"nil", "null", "zero", "set"}
    [] kind = "memberNull" -> {"nil", "null"}
    [] OTHER -> {"nil", "zero", "set"}
FlatType ==
  [f \in DOMAIN Schema |-> Field(Schema[f].json, Schema[f].proto, ShapeOf(Kind(f)))]
Flat(m) ==
  /\ \A f \in DOMAIN Schema : m.fields[f].is \in LeavesOf(Kind(f))
  /\ \A f, g \in DOMAIN Schema :
       f # g /\ Schema[f].oneof = Schema[g].oneof /\ Schema[f].oneof # 0
         => "nil" \in {m.fields[f].is, m.fields[g].is}
  /\ Present(m.exts) = {}

ASSUME ReadBackAssumption ==
  /\ \A f \in DOMAIN Schema : Kind(f) \notin {"message", "list"}
  /\ \A type \in ReadBack : type \in DOMAIN Types /\ Types[type] = FlatType
  /\ \A r \in Roots : r.type \in ReadBack => Flat(r)

\* The members of a text without nesting, as the decoder's tokens.
TokenOf(is) == CASE is = "zero" -> "default" [] is = "set" -> "value" [] is = "null" -> "null"
Sent ==
  LET text == bufs[1]
  IN  [i \in 1 .. Len(text) \div 3 |->
         [key |-> text[3 * i - 1][2], token |-> TokenOf(text[3 * i][2])]]

Decoder == INSTANCE TableUnmarshal WITH
  Exts <- {}, ExtTargets <- {<<>>},
  Keys <- UNION {{Schema[f].json, Schema[f].proto} : f \in DOMAIN Schema},
  Inputs <- {"null", "default", "value"},
  MaxDoc <- Len(Schema)

ASSUME DecoderAssumption ==
  /\ Decoder!SchemaAssumption /\ Decoder!DecodeAssumption /\ Decoder!OneofAssumption

\* For a message that is not read back there is one state of the decoder.
BothInit ==
  /\ Init /\ Decoder!Init
  /\ root.type \notin ReadBack =>
       /\ ~ discard
       /\ <<width, target>> = CHOOSE x \in Widths \X Targets : TRUE

Encode == Next /\ UNCHANGED decoderVars

DecodeMember ==
  LET member == Sent[Len(doc) + 1]
  IN  /\ Len(doc) < Len(Sent)
      /\ \/ Decoder!ReadField(member.key, member.token)
         \/ Decoder!RejectField(member.key, member.token)
         \/ Decoder!ReadUnknown(member.key, member.token)

Decode ==
  /\ status = "done" /\ root.type \in ReadBack
  /\ \/ Decoder!Begin
     \/ DecodeMember
     \/ Len(doc) = Len(Sent) /\ Decoder!EndObject
  /\ UNCHANGED vars

BothNext == Encode \/ Decode
BothSpec == BothInit /\ [][BothNext]_<<vars, decoderVars>>
-----------------------------------------------------------------------------
(* Properties *)

\* An unset Value that EmitUnpopulated writes as null is read as a null Value.
Reread(m) ==
  [f \in DOMAIN Schema |->
     IF Kind(f) = "value" /\ opts.EmitUnpopulated /\ Content(m)[f] = "absent"
     THEN "nullValue" ELSE Content(m)[f]]

\* The decoder accepts what the encoder writes, with either spelling of the
\* names, and the target becomes the message: explicit presence of a zero, a
\* oneof member that is zero or null, and what was absent all survive
\* (assertProtojsonParity of protojsonx_spec_test.go does it for single messages).
RoundTrips ==
  /\ phase # "failed"
  /\ phase = "done" => target = Reread(root)
=============================================================================
