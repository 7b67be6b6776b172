---------------------------- MODULE NestedValue ----------------------------
(***************************************************************************)
(* What the input of NestedInput means, and the verdict it deserves.  A    *)
(* value is a tree.                                                        *)
(***************************************************************************)
EXTENDS NestedInput

Null == <<"null">>
Text(name) == <<"text", name>>
Array(values) == <<"array", values>>
Object(members) == <<"object", members>> \* of <<key, value>>
NoTree == <<"none">>

RECURSIVE Tokens(_)
Tokens(t) ==
  LET Separated(s) == IF s = <<>> THEN <<>> ELSE Tail(FlattenSeq(s)) IN
  CASE t[1] = "null" -> <<"null">>
    [] t[1] = "text" -> <<t[2]>>
    [] t[1] = "array" ->
         <<"[">> \o Separated([i \in DOMAIN t[2] |-> <<",">> \o Tokens(t[2][i])])
                 \o <<"]">>
    [] t[1] = "object" ->
         <<"{">> \o Separated([i \in DOMAIN t[2] |->
                                 <<",", t[2][i][1], ":">> \o Tokens(t[2][i][2])])
                 \o <<"}">>

Members(t) == {t[2][i] : i \in DOMAIN t[2]}

\* How many objects and arrays are open at the deepest point.
RECURSIVE Nesting(_)
Nesting(t) ==
  CASE t[1] = "array" ->
         1 + Max({0} \cup {Nesting(t[2][i]) : i \in DOMAIN t[2]})
    [] t[1] = "object" -> 1 + Max({0} \cup {Nesting(m[2]) : m \in Members(t)})
    [] OTHER -> 0

\* Whether the value is one of the type; keys a message does not have may be
\* there when they are discarded.
TypeNames(t) == {i \in DOMAIN t[2] : t[2][i][1] = "@type"}
RECURSIVE Fits(_, _, _)
Fits(t, type, discarding) ==
  LET MemberFits(m) ==
        CASE Spelled(m[1]) \in {"a", "far"} -> m[2] = Null \/ Fits(m[2], "Node", discarding)
          [] m[1] = "any" -> Fits(m[2], "Any", discarding)
          [] OTHER -> discarding
      Contents == {m \in Members(t) : m[1] # "@type"}
      TypeName == t[2][CHOOSE i \in TypeNames(t) : TRUE][2]
  IN  CASE type = "Node" -> t[1] = "object" /\ \A m \in Members(t) : MemberFits(m)
        [] type = "Any" /\ t[1] # "object" -> t = Null
        [] type = "Any" /\ t[1] = "object" ->
             IF TypeNames(t) = {} THEN t[2] = <<>> \/ discarding
             ELSE /\ Cardinality(TypeNames(t)) = 1
                  /\ \/ TypeName = Text("Node") /\ \A m \in Contents : MemberFits(m)
                     \/ /\ TypeName = Text("Any")
                        /\ \A m \in Contents :
                             IF m[1] = "value" THEN Fits(m[2], "Any", discarding) ELSE discarding
-----------------------------------------------------------------------------
(* Properties *)

\* What is accepted is a JSON value, to its last token, that fits the type and
\* is nested no deeper than the limit; an Any that is not handed over may be
\* one deeper.
Allowance == IF root[2] \in Supported THEN 0 ELSE 1
RootFits == Fits(tree, IF root[2] = "Any" THEN "Any" ELSE "Node", discard)
AcceptedIsLegal ==
  status = "done" =>
    /\ tree # NoTree
    /\ RootFits
    /\ Nesting(tree) <= MaxDepth + Allowance

\* What is refused is broken, or does not fit, or is nested too deep; not for the
\* order of members, an escape in a key, a rewind, or an "@type" at the end.  (A
\* program without the fallbacks refuses what only they can decode.)
NeedsFallback == root[2] \in Forwarding \/ Range(doc) \cap {"far", "any"} # {}
RefusedIsIllegal ==
  status = "failed" =>
    \/ tree = NoTree
    \/ ~ RootFits
    \/ Nesting(tree) > MaxDepth
    \/ ~ registered /\ NeedsFallback

\* The verdict is that of the value, for each way of decoding it.
JustTheLegal == AcceptedIsLegal /\ RefusedIsIllegal
=============================================================================
