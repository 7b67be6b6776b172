--------------------------- MODULE TableUnmarshal ---------------------------
(***************************************************************************)
(* MessageTable.unmarshalFrom of unmarshal.go: one JSON object is decoded  *)
(* into a message that may hold anything from an earlier use.  A key is    *)
(* tried at the position after the last matched field and then looked up   *)
(* in the field map; duplicates are found with a bit mask, or with a map   *)
(* when the message has more fields than the mask has bits; what the       *)
(* document does not mention is cleared at the end (mask) or at the start  *)
(* (map).                                                                  *)
(*                                                                         *)
(* The members are read one by one and recorded in `doc`, so the decoder   *)
(* can be compared with MessageObject.  Left out: syntax errors between    *)
(* members, which end the decode with an error whatever was read, the      *)
(* recursion into nested messages, which runs the same code on another     *)
(* target, and repeated extensions.                                        *)
(*                                                                         *)
(* A definition marked "slip" is not the code: it is the definition after  *)
(* it with a plausible mistake, kept to show that a property notices.      *)
(***************************************************************************)
EXTENDS MessageObject, FiniteSets

CONSTANTS
  Widths,     \* widths of the seen mask and of the oneof mask (64 in the code)
  Keys,       \* the keys a document may use, known or not
  Inputs,     \* the tokens a document may use
  Targets,    \* contents of the message before the decode
  ExtTargets, \* contents of its extensions before the decode
  MaxDoc      \* bound on the members of a document

ASSUME DecodeAssumption ==
  /\ Widths \subseteq Nat \ {0}
  /\ Exts \subseteq Keys /\ Keys \subseteq STRING
  /\ Inputs \subseteq Tokens
  /\ Targets \subseteq Messages
  /\ ExtTargets \subseteq [Exts -> Values]
  /\ MaxDoc \in Nat

\* Descriptors number the oneofs of a message one after the other, those of
\* optional fields last.
ASSUME OneofAssumption ==
  \E n \in 0 .. Len(Schema) : {OneofOf(f) : f \in Fields} \ {0} = 1 .. n

VARIABLES
  width,      \* the width of the masks
  discard,    \* opts.DiscardUnknown
  phase,      \* "start", "reading", "done" or "failed"
  target,     \* the fields of the message
  exts,       \* the extension fields of the message
  seen,       \* seen: field indices marked in the mask, or in the map
  seenOneofs, \* seenOneofs: oneofs marked in the tracker
  seenExts,   \* seenExts
  nextIdx,    \* nextIdx, counted from 1
  doc         \* the members read so far

options == <<width, discard>>
vars == <<width, discard, phase, target, exts, seen, seenOneofs, seenExts,
          nextIdx, doc>>

WideLate == Len(Schema) > width + 1 \* slip: the threshold is one too high

\* len(table.fields) > 64
Wide == Len(Schema) > width

\* 1 << i of a mask: past the width no bit is left.
Bit(i) == IF i <= width THEN {i} ELSE {}
AllSeen == IF Len(Schema) < width THEN Fields ELSE 1 .. width
FieldMark(f) == IF Wide THEN {f} ELSE Bit(f)

\* The code counts the oneofs of optional fields too; more of them only means
\* that the slice is taken, which has room for every oneof.
OneofCount == Cardinality({OneofOf(f) : f \in Fields} \ {0})
OneofMark(o) == IF OneofCount > width THEN {o} ELSE Bit(o)

\* fieldMap: a later field overwrites an earlier one of the same name.
FieldMap ==
  [key \in UNION {Names(f) : f \in Fields} |->
     CHOOSE f \in Fields :
       key \in Names(f) /\ \A g \in Fields : key \in Names(g) => g <= f]

Hinted(key) == ~ Wide /\ nextIdx \in Fields /\ key \in Names(nextIdx)
Instruction(key) ==
  CASE Hinted(key) -> nextIdx
    [] ~ Hinted(key) /\ key \in DOMAIN FieldMap -> FieldMap[key]
    [] OTHER -> 0

WithSiblings(f, v) == [target EXCEPT ![f] = v] \* slip: the oneof keeps its others

\* The message with field f set to v, through protobuf reflection for a member
\* of a oneof: the other members lose their value.
With(f, v) ==
  [g \in Fields |-> CASE g = f -> v
                      [] g # f /\ OneofOf(f) # 0 /\ OneofOf(g) = OneofOf(f) -> "absent"
                      [] OTHER -> target[g]]
Cleared(f) == [target EXCEPT ![f] = "absent"]

\* isZero compares the length of a bytes field, so it takes present but empty
\* bytes for zero.
IsZero == \A f \in Fields :
  target[f] = "absent" \/ (Kind(f) = "bytes" /\ target[f] = "default")

Init ==
  /\ width \in Widths
  /\ discard \in BOOLEAN
  /\ phase = "start"
  /\ target \in Targets
  /\ exts \in ExtTargets
  /\ seen = {} /\ seenOneofs = {} /\ seenExts = {}
  /\ nextIdx = 1
  /\ doc = <<>>
-----------------------------------------------------------------------------
\* The wide path clears the message before it reads anything.
Begin ==
  /\ phase = "start"
  /\ phase' = "reading"
  /\ target' = IF Wide /\ ~ IsZero THEN [f \in Fields |-> "absent"] ELSE target
  /\ UNCHANGED <<options, exts, seen, seenOneofs, seenExts, nextIdx, doc>>

\* The next member of the object.
Read(key, token) ==
  /\ phase = "reading"
  /\ Len(doc) < MaxDoc
  /\ doc' = Append(doc, [key |-> key, token |-> token])

\* A registered extension, unmarshalExtensionField.
ReadExtension(key, token) ==
  /\ Read(key, token)
  /\ key \in Exts
  /\ ~ Hinted(key)
  /\ seenExts' = seenExts \cup {key}
  /\ \/ /\ key \notin seenExts
        /\ token \in {"null", "default", "value"}
        /\ exts' = [exts EXCEPT ![key] = IF token = "null" THEN "absent" ELSE token]
        /\ UNCHANGED phase
     \/ /\ key \notin seenExts
        /\ token = "unknownEnum" /\ discard
        /\ UNCHANGED <<exts, phase>>
     \/ /\ \/ key \in seenExts
           \/ token = "malformed"
           \/ token = "unknownEnum" /\ ~ discard
        /\ phase' = "failed"
        /\ UNCHANGED exts
  /\ UNCHANGED <<options, target, seen, seenOneofs, nextIdx>>

ReadUnknownUnread(key, token) == \* slip: a discarded value is not even parsed
  /\ Read(key, token)
  /\ key \notin Exts
  /\ Instruction(key) = 0
  /\ phase' = IF discard THEN "reading" ELSE "failed"
  /\ UNCHANGED <<options, target, exts, seen, seenOneofs, seenExts, nextIdx>>

\* A key that no field has: skipValue still checks the syntax of the value.
ReadUnknown(key, token) ==
  /\ Read(key, token)
  /\ key \notin Exts
  /\ Instruction(key) = 0
  /\ phase' = IF discard /\ token # "malformed" THEN "reading" ELSE "failed"
  /\ UNCHANGED <<options, target, exts, seen, seenOneofs, seenExts, nextIdx>>

TakesOneofAlways(f, token) == Kind(f) \in MemberKinds \* slip: null takes it too

\* A member that is null leaves its oneof free, unless null is its value.
TakesOneof(f, token) ==
  /\ Kind(f) \in MemberKinds
  /\ token # "null" \/ Kind(f) \in NullIsValue

OneofTaken(f, token) ==
  TakesOneof(f, token) /\ OneofMark(OneofOf(f)) \cap seenOneofs # {}

\* unmarshalKnownField: null, a value, an unknown enum name, an error.
StoreNull(f) ==
  IF Kind(f) \in NullIsValue THEN With(f, "nullValue") ELSE Cleared(f)
StoreValue(f, token) == With(f, Denotes(f, token))
StoreDiscardedKept(f) == \* slip: the allocated pointer is left behind
  IF Kind(f) = "pointerEnum" THEN With(f, "default") ELSE target
StoreDiscarded(f) == IF Kind(f) = "pointerEnum" THEN Cleared(f) ELSE target
StoreBroken(f) ==
  CASE Kind(f) = "pointer" -> With(f, "default")
    [] Kind(f) = "pointerEnum" -> Cleared(f)
    [] Kind(f) = "value" /\ target[f] = "absent" -> With(f, "default")
    [] OTHER -> target

ReadField(key, token) ==
  LET f == Instruction(key) IN
  /\ Read(key, token)
  /\ key \in Exts => Hinted(key)
  /\ f # 0
  /\ token = "unknownEnum" => Kind(f) \in EnumKinds
  /\ nextIdx' = f + 1
  /\ ~ OneofTaken(f, token)
  /\ FieldMark(f) \cap seen = {}
  /\ seenOneofs' = IF TakesOneof(f, token)
                   THEN seenOneofs \cup OneofMark(OneofOf(f)) ELSE seenOneofs
  /\ seen' = seen \cup FieldMark(f)
  /\ \/ /\ token = "null" /\ target' = StoreNull(f)
        /\ UNCHANGED phase
     \/ /\ token \in {"default", "value"} /\ target' = StoreValue(f, token)
        /\ UNCHANGED phase
     \/ /\ token = "unknownEnum" /\ target' = StoreDiscarded(f)
        /\ phase' = IF discard THEN "reading" ELSE "failed"
     \/ /\ token = "malformed" /\ target' = StoreBroken(f)
        /\ phase' = "failed"
  /\ UNCHANGED <<options, exts, seenExts>>

\* The oneof is looked at before the field, and marked before the field fails.
RejectField(key, token) ==
  LET f == Instruction(key) IN
  /\ Read(key, token)
  /\ key \in Exts => Hinted(key)
  /\ f # 0
  /\ token = "unknownEnum" => Kind(f) \in EnumKinds
  /\ nextIdx' = f + 1
  /\ \/ OneofTaken(f, token) /\ UNCHANGED seenOneofs
     \/ /\ ~ OneofTaken(f, token)
        /\ FieldMark(f) \cap seen # {}
        /\ seenOneofs' = IF TakesOneof(f, token)
                         THEN seenOneofs \cup OneofMark(OneofOf(f)) ELSE seenOneofs
  /\ phase' = "failed"
  /\ UNCHANGED <<options, target, exts, seen, seenExts>>

ClearMissingOneof == \* slip: members of a taken oneof are not told apart
  [f \in Fields |->
     IF Bit(f) \cap seen # {} \/ OneofOf(f) # 0 THEN target[f] ELSE "absent"]

\* clearMissing: fields that were not seen, but for the members of a oneof of
\* which one was.
ClearMissing ==
  [f \in Fields |->
     IF \/ Bit(f) \cap seen # {}
        \/ OneofOf(f) # 0 /\ OneofMark(OneofOf(f)) \cap seenOneofs # {}
     THEN target[f] ELSE "absent"]

EndObject ==
  /\ phase = "reading"
  /\ phase' = "done"
  /\ target' = IF ~ Wide /\ seen # AllSeen THEN ClearMissing ELSE target
  /\ UNCHANGED <<options, exts, seen, seenOneofs, seenExts, nextIdx, doc>>

Next ==
  \/ Begin
  \/ \E key \in Keys, token \in Inputs :
       \/ ReadExtension(key, token) \/ ReadUnknown(key, token)
       \/ ReadField(key, token) \/ RejectField(key, token)
  \/ EndObject

Spec == Init /\ [][Next]_vars
-----------------------------------------------------------------------------
(* Properties *)

TypeOK ==
  /\ width \in Widths
  /\ discard \in BOOLEAN
  /\ phase \in {"start", "reading", "done", "failed"}
  /\ target \in Messages
  /\ exts \in [Exts -> Values]
  /\ seen \subseteq Fields
  /\ seenOneofs \subseteq {OneofOf(f) : f \in Fields} \ {0}
  /\ seenExts \subseteq Exts
  /\ nextIdx \in 1 .. Len(Schema) + 1
  /\ doc \in Seq([key : Keys, token : Inputs])
  /\ Len(doc) <= MaxDoc

\* A document the decoder accepts has no field and no oneof twice, whatever
\* mixture of hints, camelCase and snake_case names, nulls and mask widths it
\* was read with (unmarshal.go:1171-1185, 1220-1236).
AcceptedIsLegal == phase = "done" => Legal(doc, discard)

\* The decoder does not reject a legal document: null members leave their oneof
\* free, and no bit is mistaken for another.
RejectedIsIllegal == phase = "failed" => ~ Legal(doc, discard)

\* "A successful decode consumes the entire input [...] and clears omitted
\* fields on reused target messages" (unmarshal.go:785-787): the message is the
\* one the document stands for, whatever the target held before and in
\* whatever order the members came.
ResultIsDocument ==
  phase = "done" => target = Meaning(doc) /\ exts = ExtMeaning(doc)
=============================================================================
