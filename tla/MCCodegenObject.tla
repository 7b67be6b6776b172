-------------------------- MODULE MCCodegenObject --------------------------
(* A message with a nested one, a oneof that null can fill, and two names *)
(* for its first field; the shapes that discarding and null items touch.   *)
(* The nested message is one of proto2, whose bytes fields have presence.  *)
EXTENDS CodegenObject

F(json, proto, kind, oneof) ==
  [json |-> json, proto |-> proto, kind |-> kind, oneof |-> oneof]

MixedSchema == <<
  F("id", "id_number", "plain", 0),
  F("child", "child", "message", 0),
  F("note", "note", "member", 1),
  F("anything", "anything", "memberNull", 1),
  F("age", "age", "pointer", 0) >>
MixedKeys == {"id", "id_number", "child", "note", "anything", "other"}
ChildSchema == <<
  F("name", "full_name", "bytes", 0),
  F("left", "left", "member", 1),
  F("right", "right", "member", 1) >>

M(key, token) == Member(key, token, <<>>)
ChildDocs == {
  <<>>,
  <<M("name", "value"), M("right", "value")>>,
  <<M("right", "default"), M("full_name", "value")>>,
  <<M("left", "value"), M("right", "value")>>,
  <<M("left", "null"), M("right", "value")>>,
  <<M("name", "default")>>,
  <<M("name", "value"), M("full_name", "null")>>,
  <<M("name", "value"), M("other", "value")>> }
MixedTokens == {"null", "default", "value", "malformed"}
Both == {"given", "encoded"}

EnumSchema == <<
  F("role", "role", "enum", 0),
  F("level", "level", "pointerEnum", 0),
  F("color", "color", "memberEnum", 1) >>
EnumKeys == {"role", "level", "color"}
NoDocs == {<<>>}

BytesSchema == <<F("data", "data", "bytes", 0), F("child", "child", "message", 0)>>
BytesKeys == {"data", "child"}
FromEncoder == {"encoded"}

ListSchema == <<F("values", "values", "list", 0), F("id", "id", "plain", 0)>>
ListKeys == {"values", "id"}
ItemDocs == {<<>>, <<M("", "value")>>, <<M("", "null")>>, <<M("", "value"), M("", "null")>>}
AllTokens == MixedTokens \cup {"unknownEnum"}
Given == {"given"}
=============================================================================
