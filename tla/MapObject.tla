----------------------------- MODULE MapObject -----------------------------
(***************************************************************************)
(* A map field: the object it is read from and the object it is written    *)
(* as, in the four ways the code has.  Generated code reads a map of       *)
(* strings in place ("strings") and every other map with ReadMap           *)
(* ("generic"); the table decoder has TypeMapStringString                  *)
(* ("tableStrings") and unmarshalMap ("table").                            *)
(*                                                                         *)
(* Go's maps are iterated in any order, and a key may share its bytes with *)
(* the input.  A definition marked "slip" is the one after it with a       *)
(* mistake.                                                                *)
(***************************************************************************)
EXTENDS Naturals, SequencesExt, FiniteSetsExt

CONSTANTS
  KeyKinds,     \* of "string", "bool" and "int"
  ValueKinds,   \* of "string", "enum", "nullEnum", "message" and "value"
  Texts,        \* the texts of keys in the input, for each kind of key
  Ascending,    \* the keys of each kind in ascending order
  Reusing,      \* the ways of reading after which the caller reuses the input
  MaxMembers    \* bound on the members of an object

Generated == {"strings", "generic"}
ForStrings == {"strings", "tableStrings"}
Ways == Generated \cup {"tableStrings", "table"}
Tokens == {"value", "null", "unknownEnum", "malformed"}

VARIABLES
  way,        \* how the map is read and written
  keyKind, valueKind,
  discard,    \* discardUnknown
  doc,        \* the members read so far: <<text of the key, token>>
  entries,    \* the map: records of a key, its value and whose bytes the key has
  reused,     \* whether the caller has put other bytes into the input
  text,       \* the members written: <<key, token>>
  status      \* "target", "reading", "failed", "done" or "written"

field == <<way, keyKind, valueKind, discard>>
vars == <<field, doc, entries, reused, text, status>>

Entry(key, value, shared) == [key |-> key, value |-> value, shared |-> shared]
Stale(kind) == Entry(Ascending[kind][1], "value", FALSE)
Refused == "refused"
-----------------------------------------------------------------------------
(* Keys: spellings of one key, and what parses them *)
KeyOf(kind, spelling) ==
  CASE kind = "string" -> IF spelling = "aEscaped" THEN "a" ELSE spelling
    [] kind = "bool" -> IF spelling \in {"true", "false"} THEN spelling ELSE Refused
    [] kind = "int" -> CASE spelling = "01" -> "1"
                         [] spelling \in {"1", "2", "10"} -> spelling
                         [] OTHER -> Refused
ParseBool(spelling) == \* of strconv
  CASE spelling \in {"true", "1"} -> "true"
    [] spelling \in {"false", "0"} -> "false"
    [] OTHER -> Refused
ParseKey(spelling) ==
  IF way = "generic" /\ keyKind = "bool" THEN ParseBool(spelling)
  ELSE KeyOf(keyKind, spelling)

\* Every key has its place in the order, also one that only ParseBool takes.
ASSUME MapAssumption ==
  /\ KeyKinds \subseteq {"string", "bool", "int"}
  /\ Reusing \subseteq Ways
  /\ MaxMembers \in Nat
  /\ \A kind \in KeyKinds \cup {"string"} : Ascending[kind] \in Seq(STRING)
  /\ \A kind \in KeyKinds \cup {"string"} : \A spelling \in Texts[kind] :
       ({KeyOf(kind, spelling)} \cup IF kind = "bool" THEN {ParseBool(spelling)} ELSE {})
         \subseteq ToSet(Ascending[kind]) \cup {Refused}

\* Whether the key stored has the bytes of the input: NextObjectKey gives them
\* out unless there was an escape; the table decoder makes a string of its own.
SharedEverywhere(spelling) == \* slip: unsafeString in the table decoder too
  keyKind = "string" /\ spelling \notin {"", "aEscaped"}
Shared(spelling) ==
  way \in Generated /\ keyKind = "string" /\ spelling \notin {"", "aEscaped"}
-----------------------------------------------------------------------------
(* Reading *)
Init ==
  /\ way \in Ways
  /\ keyKind \in (IF way \in ForStrings THEN {"string"} ELSE KeyKinds)
  /\ valueKind \in (IF way \in ForStrings THEN {"string"} ELSE ValueKinds)
  /\ discard \in BOOLEAN
  /\ entries \in {{}, {Stale(keyKind)}}
  /\ doc = <<>> /\ text = <<>>
  /\ reused = FALSE
  /\ status = "target"

\* A new map, or the old one cleared.
BeginKeeping == \* slip: the target's map is taken as it is
  /\ status = "target"
  /\ status' = "reading"
  /\ UNCHANGED <<field, doc, entries, reused, text>>
Begin ==
  /\ status = "target"
  /\ entries' = {}
  /\ status' = "reading"
  /\ UNCHANGED <<field, doc, reused, text>>

HasKey(key) == \E e \in entries : e.key = key
Put(key, value, spelling) == entries' = entries \cup {Entry(key, value, Shared(spelling))}
Fail == status' = "failed" /\ UNCHANGED entries

\* The value, when its key is new.
ReadValue(key, spelling, token) ==
  \/ token = "value" /\ Put(key, "value", spelling) /\ UNCHANGED status
  \* null is a value of google.protobuf.Value only
  \/ token = "null" /\ valueKind = "value" /\ Put(key, "null", spelling) /\ UNCHANGED status
  \/ token = "null" /\ valueKind # "value" /\ Fail
  \* ErrIgnoredMapEntry, errUnknownEnum: the entry is left out
  \/ token = "unknownEnum" /\ discard /\ UNCHANGED <<entries, status>>
  \/ token = "unknownEnum" /\ ~ discard /\ Fail
  \/ token = "malformed" /\ Fail

ReadMemberByText(spelling, token) == \* slip: spellings are compared, not keys
  /\ status = "reading"
  /\ IF \/ ParseKey(spelling) = Refused
        \/ \E i \in DOMAIN doc : doc[i][1] = spelling
     THEN Fail
     ELSE ReadValue(ParseKey(spelling), spelling, token)
  /\ doc' = Append(doc, <<spelling, token>>)
  /\ UNCHANGED <<field, reused, text>>
ReadMember(spelling, token) ==
  /\ status = "reading"
  /\ IF ParseKey(spelling) = Refused \/ HasKey(ParseKey(spelling)) THEN Fail
     ELSE ReadValue(ParseKey(spelling), spelling, token)
  /\ doc' = Append(doc, <<spelling, token>>)
  /\ UNCHANGED <<field, reused, text>>

End ==
  /\ status = "reading"
  /\ status' = "done"
  /\ UNCHANGED <<field, doc, entries, reused, text>>

\* The caller has the input back and uses it for something else.
Reuse ==
  /\ status = "done" /\ ~ reused
  /\ way \in Reusing
  /\ reused' = TRUE
  /\ UNCHANGED <<field, doc, entries, text, status>>
-----------------------------------------------------------------------------
(* Writing: StringMap, WriteMap and marshalMap *)
TextRank(key) == \* slip: numbers are compared as texts
  IF key = "10" THEN 1 ELSE 2 * (CHOOSE i \in DOMAIN Ascending[keyKind] :
                                   Ascending[keyKind][i] = key)
Rank(key) == CHOOSE i \in DOMAIN Ascending[keyKind] : Ascending[keyKind][i] = key
Before(e, f) == Rank(e.key) < Rank(f.key)
\* The permutation of s that slices.Sort and SortFunc leave.
Sorted(s) ==
  CHOOSE t \in {[i \in DOMAIN s |-> s[p[i]]] : p \in SetToSeqs(DOMAIN s)} :
    \A i, j \in DOMAIN s : i < j => ~ Before(t[j], t[i])
\* range over the map, then sort: inOrder is what the range gave.
Written(inOrder) ==
  LET sorted == Sorted(inOrder)
      token(e) == IF valueKind = "nullEnum" THEN "null" ELSE e.value
  IN  [i \in DOMAIN sorted |-> <<sorted[i].key, token(sorted[i])>>]
Write ==
  /\ status = "done" /\ ~ reused
  /\ \E inOrder \in SetToSeqs(entries) : text' = Written(inOrder)
  /\ status' = "written"
  /\ UNCHANGED <<field, doc, entries, reused>>

\* Only an enum has names, and an object of strings no other tokens than these.
Sensible(token) == token = "unknownEnum" => valueKind \in {"enum", "nullEnum"}

Next ==
  \/ Begin
  \/ /\ Len(doc) < MaxMembers
     /\ \E spelling \in Texts[keyKind], token \in Tokens :
          Sensible(token) /\ ReadMember(spelling, token)
  \/ End
  \/ Reuse
  \/ Write

Spec == Init /\ [][Next]_vars
-----------------------------------------------------------------------------
(* Properties *)
Key(i) == KeyOf(keyKind, doc[i][1])
Dropped(i) == doc[i][2] = "unknownEnum"
TokenLegal(token) ==
  CASE token = "null" -> valueKind \in {"value", "nullEnum"}
    [] token = "unknownEnum" -> discard
    [] OTHER -> token = "value"
Legal ==
  /\ \A i \in DOMAIN doc : Key(i) # Refused /\ TokenLegal(doc[i][2])
  /\ \A i, j \in DOMAIN doc : i < j /\ Key(i) = Key(j) => Dropped(i)
Meaning == {<<Key(i), doc[i][2]>> : i \in {k \in DOMAIN doc : ~ Dropped(k)}}

\* The content of the map as a reader of the message finds it.
Content ==
  {<<IF e.shared /\ reused THEN "other bytes" ELSE e.key, e.value>> : e \in entries}

\* A map that was read has an entry for each member, no other, and nothing of
\* what the target held; keys that are spelled differently and are one key
\* are refused.
MapIsDocument ==
  status \in {"done", "written"} /\ ~ reused => Legal /\ Content = Meaning

\* An object is refused for a mistake in it, not for what the target held or
\* for an entry that was left out.
RefusedIsIllegal == status = "failed" => ~ Legal

\* The message keeps its content when the caller uses the input's bytes again.
KeysAreOwned == status = "done" => Content = Meaning

\* Whatever the order in which Go gives the entries, the text has each of them
\* once, in ascending order of the keys.
OutputIsOrdered ==
  status = "written" =>
    /\ ToSet(text) = Meaning /\ Len(text) = Cardinality(Meaning)
    /\ \A i, j \in DOMAIN text : i < j =>
         \E p, q \in DOMAIN Ascending[keyKind] :
           p < q /\ Ascending[keyKind][p] = text[i][1] /\ Ascending[keyKind][q] = text[j][1]

\* What is written for an entry the decoder of the field reads.
OutputIsReadable ==
  status = "written" => \A i \in DOMAIN text : text[i][2] = "null" => valueKind = "value"
=============================================================================
