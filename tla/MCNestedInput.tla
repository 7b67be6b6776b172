--------------------------- MODULE MCNestedInput ---------------------------
(***************************************************************************)
(* The values for NestedInput: three layers of context around a leaf, so   *)
(* that objects are nested up to twice as deep as the limit, and the same  *)
(* inputs with a token missing, wrong or too many.                         *)
(***************************************************************************)
EXTENDS NestedValue

Leaves == {Object(<<>>), Null}

\* A value around another one.
Around(t) ==
  {Object(<<<<key, t>>>>) : key \in {"a", "far", "any", "value"}}
  \cup {Array(<<t>>),
        \* the order of the fields makes the fast pass give up before or after t
        Object(<<<<"far", Null>>, <<"a", t>>>>),
        Object(<<<<"a", t>>, <<"far", Null>>>>),
        \* an Any with a message, its type first or last
        Object(<<<<"@type", Text("Node")>>, <<"a", t>>>>),
        Object(<<<<"any", t>>, <<"@type", Text("Node")>>>>),
        \* an Any with a well-known type
        Object(<<<<"value", t>>, <<"@type", Text("Any")>>>>)}
\* The same and a few more, for the outermost layer only.
Outermost(t) ==
  Around(t)
  \cup {Object(<<<<"aEscaped", t>>>>),
        Object(<<<<"any", t>>, <<"a", Null>>>>),
        \* a type that is unknown, and one that is there twice
        Object(<<<<"@type", Text("Other")>>, <<"a", t>>>>),
        Object(<<<<"@type", Text("Any")>>, <<"value", t>>, <<"@type", Text("Any")>>>>)}

AroundAll(trees) == UNION {Around(t) : t \in trees}
Shallow == Leaves \cup UNION {Outermost(t) : t \in Leaves}
Deep ==
  Shallow \cup UNION {Outermost(t) : t \in AroundAll(Leaves) \cup AroundAll(AroundAll(Leaves))}

\* One token dropped that a value cannot do without, a literal misspelled, and
\* a token after the end.
Broken(tokens) ==
  {RemoveAt(tokens, i) : i \in {j \in DOMAIN tokens : tokens[j] \in Punctuation}}
  \cup {[tokens EXCEPT ![i] = "invalid"] : i \in {j \in DOMAIN tokens : tokens[j] = "null"}}
  \cup {Append(tokens, "null")}
MCBroken == UNION {Broken(Tokens(t)) : t \in Shallow \cup AroundAll(AroundAll({Null}))}
MCInputs ==
  {[tree |-> t, tokens |-> Tokens(t)] : t \in Deep}
  \cup {[tree |-> NoTree, tokens |-> tokens] : tokens \in MCBroken}

MCRoots ==
  ({"unmarshal"} \X {"Node", "Plain", "Any"}) \cup ({"method"} \X {"Node", "Extended"})
=============================================================================
