----------------------------- MODULE MCRoundTrip -----------------------------
(***************************************************************************)
(* An instance of RoundTrip: messages that nest through fields, lists,     *)
(* maps, oneofs, extensions and Any, with parts that have no JSON form;    *)
(* and a flat message with one field of every kind, which is read back.    *)
(***************************************************************************)
EXTENDS RoundTrip

InnerType == <<Field("noteText", "note_text", "scalar"), Field("age", "age", "optional")>>
OuterType == <<
  Field("blob", "blob", "bytes"),
  Field("tags", "tags", "list"),
  Field("labels", "labels", "map"),
  Field("inner", "inner", "message"),
  Field("choice", "choice", "oneof") >>
MCFallback == {"Slow"}

None == [n \in Numbers |-> Leaf("nil")]
Inners(t) == {Message(t, <<Leaf(a), Leaf(b)>>, None) :
              a \in {"zero", "set"}, b \in {"nil", "zero"}}
Plain == Message("Inner", <<Leaf("set"), Leaf("nil")>>, None)
Bare(t) == Message(t, <<Leaf("zero"), Leaf("nil")>>, None)
AnyPayloads ==
  {Leaf("nil"), Leaf("empty"), Leaf("untyped"), Leaf("unresolved"), Bare("Inner"),
   Plain, Bare("Slow"), Message("Slow", <<Leaf("set"), Leaf("zero")>>, None)}
  \cup {[is |-> "known", value |-> Leaf(v)] : v \in {"set", "invalid"}}
Anys == {AnyOf(p) : p \in AnyPayloads}
Broken == Message("Inner", <<Leaf("zero"), Leaf("invalid")>>, None)
BrokenSlow == Message("Slow", <<Leaf("set"), Leaf("invalid")>>, None)

\* The values of each field of Outer.
Blobs == {Leaf("nil"), Leaf("zero"), Leaf("set")}
Tags == {List(<<>>), List(<<Leaf("set")>>), List(<<Leaf("nil"), Plain>>),
         List(<<AnyOf(Plain), Leaf("invalid")>>), List(<<Bare("Slow"), Bare("Inner")>>)}
Labels == {Map(None), Map([None EXCEPT ![2] = Leaf("set"), ![3] = Leaf("set")]),
           Map([None EXCEPT ![1] = AnyOf(Plain), ![3] = Broken])}
InnerValues == {Leaf("nil"), Leaf("invalid"), Plain, Bare("Slow"), BrokenSlow} \cup Anys
ChoiceValues == {Leaf("nil"), Leaf("zero"), Leaf("null"), Bare("Inner"),
            AnyOf(AnyOf(Plain).payload)}
Extra == List(<<AnyOf(Bare("Inner")), Plain>>)
Extensions == {None, [None EXCEPT ![1] = Leaf("set"), ![2] = Extra]}

Outers == {Message("Outer", <<b, t, l, i, c>>, e) :
             b \in Blobs, t \in Tags, l \in Labels, i \in InnerValues, c \in ChoiceValues,
             e \in Extensions}
\* An Any around an Any's message: a third buffer.
Nested == {o \in Outers : /\ o.fields[1].is = "nil" /\ o.exts = None
                          /\ o.fields[5].is = "nil"}
Deep == {Message("Outer", <<Leaf("nil"), List(<<>>), Map(None),
                            AnyOf(m), Leaf("nil")>>, None) : m \in Nested}
-----------------------------------------------------------------------------
F(json, proto, kind, oneof) ==
  [json |-> json, proto |-> proto, kind |-> kind, oneof |-> oneof]
MCSchema == <<
  F("fullName", "full_name", "plain", 0),
  F("level", "level", "pointerEnum", 0),
  F("blobData", "blob_data", "bytes", 0),
  F("extra", "extra", "value", 0),
  F("title", "title", "member", 1),
  F("nothing", "nothing", "memberNull", 1) >>

FlatRoots ==
  {Message("Flat", [f \in 1 .. 6 |-> Leaf(m[f])], None) :
     m \in {m \in [1 .. 6 -> Leaves] :
              /\ \A f \in 1 .. 6 : m[f] \in LeavesOf(MCSchema[f].kind)
              /\ "nil" \in {m[5], m[6]}}}
OldTargets == {[f \in 1 .. 6 |-> IF f = o THEN "absent" ELSE "old"] : o \in {5, 6}}
-----------------------------------------------------------------------------
MCTypes ==
  [Inner |-> InnerType, Outer |-> OuterType, Slow |-> InnerType, Flat |-> FlatType]
FlatOnly == {"Flat"}
AllRoots == Inners("Inner") \cup Outers \cup Deep \cup FlatRoots

AllOptions == [EmitUnpopulated : BOOLEAN, UseProtoNames : BOOLEAN]
=============================================================================
