-------------------------- MODULE MCTableUnmarshal --------------------------
(***************************************************************************)
(* Instances of TableUnmarshal: a message whose oneofs and optional fields *)
(* meet, the shapes that discarding touches, and a pair of fields whose    *)
(* json_name options swap their names.                                     *)
(***************************************************************************)
EXTENDS TableUnmarshal

F(json, proto, kind, oneof) ==
  [json |-> json, proto |-> proto, kind |-> kind, oneof |-> oneof]

MixedSchema == <<
  F("fullName", "full_name", "plain", 0),
  F("role", "role", "enum", 0),
  F("note", "note", "member", 1),
  F("anything", "anything", "memberNull", 1),
  F("color", "color", "memberEnum", 2),
  F("level", "level", "pointerEnum", 0) >>
MixedKeys == UNION {{MixedSchema[f].json, MixedSchema[f].proto} : f \in 1 .. 6}
               \cup {"other", "[pkg.ext]"}

SwapSchema == <<F("b", "a", "plain", 0), F("a", "b", "plain", 0)>>
SwapKeys == {"a", "b"}

StaleSchema == <<F("role", "role", "enum", 0), F("blob", "blob", "bytes", 0)>>
StaleKeys == {"role", "blob"}
StaleExtKeys == StaleKeys \cup {"[pkg.ext]"}

NoExts == {}
OneExt == {"[pkg.ext]"}
NoExtTargets == {[x \in Exts |-> "absent"]}
AnyExtTargets == [Exts -> {"absent", "old"}]
FreshTargets == {[f \in Fields |-> "absent"]}
\* Targets that hold something in every field but those of enums
\* that a discarded name leaves alone (DecodeStale.cfg shows what becomes of
\* them).
MixedTargets ==
  {[f \in Fields |-> IF Kind(f) \in {"enum", "memberEnum"} \/ f = g THEN "absent" ELSE "old"] :
     g \in {3, 4}}
ReusedTargets == {m \in Messages : \A f \in Fields : m[f] \in {"absent", "old"}}
EmptyBytesTargets == {[f \in Fields |-> IF Kind(f) = "bytes" THEN "default" ELSE "absent"]}

AllTokens == Tokens
PlainTokens == Tokens \ {"unknownEnum"}
=============================================================================
