------------------------ MODULE CodegenObjectProofs ------------------------
(***************************************************************************)
(* Proofs about CodegenObject, for any schemas, inputs and messages: the   *)
(* two passes of a generated decoder read what the document says, refuse   *)
(* mistakes only, and read back what the generated encoder wrote.          *)
(***************************************************************************)
EXTENDS CodegenObject, SequenceTheorems, FiniteSetTheorems, TLAPS

Levels == {1, 2}

\* What a member of an object is at level 1, that of the message, and at level
\* 2, that of a nested one: its field, the oneof it gives a value, and the value.
FieldIn(level, m) == IF level = 1 THEN Outer!FieldOf(m) ELSE Nested!FieldOf(m)
OccupiedIn(level, m) == IF level = 1 THEN Outer!Occupied(m) ELSE Nested!Occupied(m)
IsObject(m) == Outer!FieldOf(m) \in MessageFields /\ m.token = "value"
ValueIn(level, i, m) ==
  IF level = 2 THEN Is(Nested!Denotes(i, m.token))
  ELSE IF IsObject(m)
  THEN Object([j \in DOMAIN Inner |-> Is(Nested!Meaning(Plain(m.inner))[j])])
  ELSE Is(Outer!Denotes(i, m.token))

\* No mistake, alone and together with another.
GoodIn(dis, level, m) ==
  /\ m.token # "malformed"
  /\ dis \/ (FieldIn(level, m) # 0 /\ m.token # "unknownEnum")
  /\ level = 1 /\ IsObject(m) => Nested!Legal(Plain(m.inner), dis)
ApartIn(level, m, n) ==
  /\ FieldIn(level, m) # 0 => FieldIn(level, m) # FieldIn(level, n)
  /\ OccupiedIn(level, m) # 0 => OccupiedIn(level, m) # OccupiedIn(level, n)
LegalIn(dis, level, in) ==
  /\ \A k \in DOMAIN in : GoodIn(dis, level, in[k])
  /\ \A k, l \in DOMAIN in : k # l => ApartIn(level, in[k], in[l])

\* A member that leaves a value which it does not denote, when it is discarded.
StrayHere(level, m) ==
  m.token = "unknownEnum" /\ FieldIn(level, m) # 0
    /\ SchemaOf(level)[FieldIn(level, m)].kind # "enum"
Stray(level, m) ==
  \/ StrayHere(level, m)
  \/ level = 1 /\ IsObject(m) /\ \E k \in DOMAIN m.inner : StrayHere(2, m.inner[k])

Flat == {Is(v) : v \in {"absent", "nullValue", "default", "value"}}
Contents(level) ==
  IF level = 1 THEN Flat \cup {Object(f) : f \in [DOMAIN Inner -> Flat]} ELSE Flat
Frames(level) ==
  [level : {level}, pass : {"fast", "slow"}, pos : Nat, field : Nat,
   fields : [DOMAIN SchemaOf(level) -> Contents(level)],
   seen : SUBSET Nat, oneofs : SUBSET Nat]

\* What a frame fr knows of the members of in that it has read.
Read(dis, level, in, fr) ==
  /\ fr \in Frames(level)
  /\ fr.pos <= Len(in)
  /\ \A k \in 1 .. fr.pos : GoodIn(dis, level, in[k])
  /\ \A k, l \in 1 .. fr.pos : k # l => ApartIn(level, in[k], in[l])
  /\ fr.seen = {FieldIn(level, in[k]) : k \in 1 .. fr.pos} \ {0}
  /\ fr.oneofs = {OccupiedIn(level, in[k]) : k \in 1 .. fr.pos} \ {0}
  /\ \A k \in 1 .. fr.pos :
       LET i == FieldIn(level, in[k])
       IN  i # 0 /\ ~ Stray(level, in[k]) => fr.fields[i] = ValueIn(level, i, in[k])
  /\ \A i \in DOMAIN SchemaOf(level) \ fr.seen : fr.fields[i] = Absent
  /\ fr.pass = "fast" => /\ fr.field \in 1 .. Len(SchemaOf(level)) + 1
                         /\ \A i \in fr.seen : i < fr.field

\* Frame b reads the object that frame a has come to.
Inside(dis, in, a, b) ==
  /\ a.pos < Len(in)
  /\ IsObject(in[a.pos + 1])
  /\ FieldIn(1, in[a.pos + 1]) = a.field
  /\ a.field \notin a.seen
  /\ Read(dis, 2, in[a.pos + 1].inner, b)

Standing(dis, in, s) ==
  /\ \/ s = <<s[1]>>
     \/ s = <<s[1], s[2]>> /\ Inside(dis, in, s[1], s[2])
  /\ Read(dis, 1, in, s[1])

Inputs2 == Seq(Members({<<>>}))
SensibleMember(m) == Sensible(Outer!FieldOf(m), m.token, m.inner)
HasNullItem(m) ==
  /\ Outer!FieldOf(m) # 0 /\ Schema[Outer!FieldOf(m)].kind = "list"
  /\ \E k \in DOMAIN m.inner : m.inner[k].token = "null"

Types ==
  /\ source \in Sources
  /\ discard \in BOOLEAN
  /\ closed \in BOOLEAN
  /\ status \in {"peek", "reading", "done", "failed"}
  /\ doc \in Seq(Members(Inputs2))
  /\ \A k \in DOMAIN doc : SensibleMember(doc[k])

Verdict ==
  /\ status = "peek" => stack = <<Frame(1, "fast")>>
  /\ status = "done" => stack = <<stack[1]>> /\ closed /\ stack[1].pos = Len(doc)
  /\ status = "failed" => \/ ~ LegalIn(discard, 1, doc)
                          \/ \E k \in DOMAIN doc : HasNullItem(doc[k])

IInv == Types /\ Standing(discard, doc, stack) /\ Verdict

\* A frame of the fast pass has no field before its own ahead, and in a document
\* that begins with the first field all frames are of the fast pass.
Ahead(level, in, fr) ==
  fr.pass = "fast" => \A k \in DOMAIN in : k > fr.pos => FieldIn(level, in[k]) >= fr.field
OwnStack(in, s, fast) ==
  /\ Ahead(1, in, s[1])
  /\ Len(s) = 2 => Ahead(2, in[s[1].pos + 1].inner, s[2])
  /\ fast => \A k \in DOMAIN s : s[k].pass = "fast"
FirstIsFirst == doc # <<>> /\ doc[1].key = Schema[1].json
OwnInv ==
  source = "encoded" =>
    /\ message \in Encodable /\ doc = Encoded(message) /\ closed
    /\ OwnStack(doc, stack, status # "peek" /\ FirstIsFirst)

\* With unknown names discarded, there is none for an optional enum or a member
\* of a oneof; and no list has a null item.
NoStrayNames == discard => \A k \in DOMAIN doc : ~ Stray(1, doc[k])
NoNullItems == \A k \in DOMAIN doc : ~ HasNullItem(doc[k])
-----------------------------------------------------------------------------
(* Fields and members *)

LEMMA SchemaFacts ==
  ASSUME NEW level \in Levels
  PROVE  LET S == SchemaOf(level)
         IN  /\ Len(S) \in Nat /\ DOMAIN S = 1 .. Len(S)
             /\ \A i \in DOMAIN S :
                  /\ S[i].kind \in Outer!Kinds
                  /\ S[i].oneof \in Nat
                  /\ S[i].oneof = 0 <=> S[i].kind \notin Outer!MemberKinds
             /\ \A i, j \in DOMAIN S : i # j =>
                  {S[i].json, S[i].proto} \cap {S[j].json, S[j].proto} = {}
  <1> DEFINE S == SchemaOf(level)
             R == [json : STRING, proto : STRING, kind : Outer!Kinds, oneof : Nat]
  <1>1. S \in {Schema, Inner}
    BY DEF SchemaOf
  <1>2. /\ S \in Seq(R)
        /\ \A i \in DOMAIN S : S[i].oneof = 0 <=> S[i].kind \notin Outer!MemberKinds
        /\ \A i, j \in DOMAIN S :
             i # j => {S[i].json, S[i].proto} \cap {S[j].json, S[j].proto} = {}
    BY <1>1, SchemasAssumption
  <1> HIDE DEF S
  <1>3. Len(S) \in Nat /\ DOMAIN S = 1 .. Len(S)
    BY <1>2, LenProperties
  <1>4. \A i \in 1 .. Len(S) : S[i] \in R
    BY <1>2, ElementOfSeq
  <1> QED BY <1>2, <1>3, <1>4 DEF S

\* A key names at most one field.
LEMMA OuterField ==
  ASSUME NEW m
  PROVE  /\ Outer!FieldOf(m) \in {0} \cup DOMAIN Schema
         /\ \A i \in DOMAIN Schema :
              m.key \in {Schema[i].json, Schema[i].proto} <=> Outer!FieldOf(m) = i
  <1> DEFINE key == m.key
             Named(i) == key \in {Schema[i].json, Schema[i].proto}
  <1>1. /\ 0 \notin DOMAIN Schema
        /\ \A i, j \in DOMAIN Schema : i # j =>
             {Schema[i].json, Schema[i].proto} \cap {Schema[j].json, Schema[j].proto} = {}
    BY SchemaFacts DEF Levels, SchemaOf
  <1>2. \A i, j \in DOMAIN Schema : Named(i) /\ Named(j) => i = j
    BY <1>1
  <1>3. DOMAIN Outer!Owner = UNION {{Schema[i].json, Schema[i].proto} : i \in DOMAIN Schema}
    BY DEF Outer!Owner, Outer!Names, Outer!Fields
  <1>4. CASE \E i \in DOMAIN Schema : Named(i)
    <2>1. PICK i \in DOMAIN Schema : Named(i)
      BY <1>4
    <2>2. key \in DOMAIN Outer!Owner
      BY <1>3, <2>1
    <2>3. Outer!Owner[key] = i
      BY <1>2, <2>1, <2>2 DEF Outer!Owner, Outer!Names, Outer!Fields
    <2>4. Outer!FieldOf(m) = i
      BY <2>2, <2>3 DEF Outer!FieldOf
    <2> QED BY <1>1, <1>2, <2>1, <2>4
  <1>5. CASE ~ \E i \in DOMAIN Schema : Named(i)
    <2>1. key \notin DOMAIN Outer!Owner
      BY <1>3, <1>5
    <2>2. Outer!FieldOf(m) = 0
      BY <2>1 DEF Outer!FieldOf
    <2> QED BY <1>1, <1>5, <2>2
  <1> QED BY <1>4, <1>5

LEMMA NestedField ==
  ASSUME NEW m
  PROVE  /\ Nested!FieldOf(m) \in {0} \cup DOMAIN Inner
         /\ \A i \in DOMAIN Inner :
              m.key \in {Inner[i].json, Inner[i].proto} <=> Nested!FieldOf(m) = i
  <1> DEFINE key == m.key
             Named(i) == key \in {Inner[i].json, Inner[i].proto}
  <1>1. /\ 0 \notin DOMAIN Inner
        /\ \A i, j \in DOMAIN Inner : i # j =>
             {Inner[i].json, Inner[i].proto} \cap {Inner[j].json, Inner[j].proto} = {}
    BY SchemaFacts DEF Levels, SchemaOf
  <1>2. \A i, j \in DOMAIN Inner : Named(i) /\ Named(j) => i = j
    BY <1>1
  <1>3. DOMAIN Nested!Owner = UNION {{Inner[i].json, Inner[i].proto} : i \in DOMAIN Inner}
    BY DEF Nested!Owner, Nested!Names, Nested!Fields
  <1>4. CASE \E i \in DOMAIN Inner : Named(i)
    <2>1. PICK i \in DOMAIN Inner : Named(i)
      BY <1>4
    <2>2. key \in DOMAIN Nested!Owner
      BY <1>3, <2>1
    <2>3. Nested!Owner[key] = i
      BY <1>2, <2>1, <2>2 DEF Nested!Owner, Nested!Names, Nested!Fields
    <2>4. Nested!FieldOf(m) = i
      BY <2>2, <2>3 DEF Nested!FieldOf
    <2> QED BY <1>1, <1>2, <2>1, <2>4
  <1>5. CASE ~ \E i \in DOMAIN Inner : Named(i)
    <2>1. key \notin DOMAIN Nested!Owner
      BY <1>3, <1>5
    <2>2. Nested!FieldOf(m) = 0
      BY <2>1 DEF Nested!FieldOf
    <2> QED BY <1>1, <1>5, <2>2
  <1> QED BY <1>4, <1>5

LEMMA FieldFacts ==
  ASSUME NEW level \in Levels, NEW m
  PROVE  /\ FieldIn(level, m) \in 0 .. Len(SchemaOf(level))
         /\ FieldIn(level, m) # 0 => FieldIn(level, m) \in DOMAIN SchemaOf(level)
         /\ \A i \in DOMAIN SchemaOf(level) :
              m.key \in {SchemaOf(level)[i].json, SchemaOf(level)[i].proto}
                <=> FieldIn(level, m) = i
  <1>1. DOMAIN SchemaOf(level) = 1 .. Len(SchemaOf(level)) /\ Len(SchemaOf(level)) \in Nat
    BY SchemaFacts
  <1>2. CASE level = 1
    BY <1>1, <1>2, OuterField DEF FieldIn, SchemaOf
  <1>3. CASE level = 2
    BY <1>1, <1>3, NestedField DEF FieldIn, SchemaOf
  <1> QED BY <1>2, <1>3 DEF Levels

\* A member gives a value to the oneof of its field, if any.
LEMMA OccupiedFacts ==
  ASSUME NEW level \in Levels, NEW m
  PROVE  LET i == FieldIn(level, m)
             S == SchemaOf(level)
         IN  /\ i = 0 => OccupiedIn(level, m) = 0
             /\ i # 0 => OccupiedIn(level, m) \in {0, S[i].oneof}
             /\ i # 0 /\ (m.token # "null" \/ S[i].kind \in Outer!NullIsValue)
                  => OccupiedIn(level, m) = S[i].oneof
             /\ i # 0 /\ m.token = "null" /\ S[i].kind \notin Outer!NullIsValue
                  => OccupiedIn(level, m) = 0
  <1>1. CASE level = 1
    BY <1>1 DEF OccupiedIn, FieldIn, SchemaOf, Outer!Occupied, Outer!Kind, Outer!OneofOf
  <1>2. CASE level = 2
    BY <1>2 DEF OccupiedIn, FieldIn, SchemaOf, Nested!Occupied, Nested!Kind, Nested!OneofOf,
                Nested!NullIsValue, Outer!NullIsValue
  <1> QED BY <1>1, <1>2 DEF Levels

\* The value of a member that is no object.
LEMMA ValueFacts ==
  ASSUME NEW level \in Levels, NEW m, NEW i \in DOMAIN SchemaOf(level),
         ~ (level = 1 /\ IsObject(m))
  PROVE  LET kind == SchemaOf(level)[i].kind
         IN  ValueIn(level, i, m) =
               CASE m.token = "null" ->
                      IF kind \in Outer!NullIsValue THEN Is("nullValue") ELSE Absent
                 [] m.token = "default" ->
                      IF kind \in Outer!PresenceKinds THEN Is("default") ELSE Absent
                 [] m.token = "value" -> Is("value")
                 [] OTHER -> Absent
  <1>1. CASE level = 1
    BY <1>1 DEF ValueIn, SchemaOf, Outer!Denotes, Outer!Kind, Is, Absent
  <1>2. CASE level = 2
    BY <1>2 DEF ValueIn, SchemaOf, Nested!Denotes, Nested!Kind, Is, Absent,
                Nested!NullIsValue, Outer!NullIsValue, Nested!PresenceKinds,
                Outer!PresenceKinds, Nested!MemberKinds, Outer!MemberKinds
  <1> QED BY <1>1, <1>2 DEF Levels
-----------------------------------------------------------------------------
(* Documents *)

LEMMA NestedLegal ==
  ASSUME NEW dis, NEW in
  PROVE  Nested!Legal(Plain(in), dis) <=> LegalIn(dis, 2, in)
  <1> DEFINE p == Plain(in)
  <1>1. /\ DOMAIN p = DOMAIN in
        /\ \A k \in DOMAIN in : p[k].key = in[k].key /\ p[k].token = in[k].token
    BY DEF Plain
  <1>2. \A k \in DOMAIN in : /\ Nested!FieldOf(p[k]) = FieldIn(2, in[k])
                             /\ Nested!Occupied(p[k]) = OccupiedIn(2, in[k])
    BY <1>1 DEF FieldIn, OccupiedIn, Nested!FieldOf, Nested!Occupied
  <1> HIDE DEF p
  <1>3. Nested!NoneTwice(p) <=>
          \A k, l \in DOMAIN in : k # l => ApartIn(2, in[k], in[l])
    BY <1>1, <1>2 DEF Nested!NoneTwice, ApartIn
  <1>4. Nested!Readable(p, dis) <=> \A k \in DOMAIN in : GoodIn(dis, 2, in[k])
    BY <1>1, <1>2 DEF Nested!Readable, GoodIn
  <1> QED BY <1>3, <1>4 DEF Nested!Legal, LegalIn, p

LEMMA OuterLegal ==
  Legal <=> LegalIn(discard, 1, doc)
  <1> DEFINE p == Plain(doc)
  <1>1. /\ DOMAIN p = DOMAIN doc
        /\ \A k \in DOMAIN doc : p[k].key = doc[k].key /\ p[k].token = doc[k].token
    BY DEF Plain
  <1>2. \A k \in DOMAIN doc : /\ Outer!FieldOf(p[k]) = FieldIn(1, doc[k])
                              /\ Outer!Occupied(p[k]) = OccupiedIn(1, doc[k])
    BY <1>1 DEF FieldIn, OccupiedIn, Outer!FieldOf, Outer!Occupied
  <1>3. Objects = {k \in DOMAIN doc : IsObject(doc[k])}
    BY DEF Objects, IsObject
  <1> HIDE DEF p
  <1>4. Outer!NoneTwice(p) <=>
          \A k, l \in DOMAIN doc : k # l => ApartIn(1, doc[k], doc[l])
    BY <1>1, <1>2 DEF Outer!NoneTwice, ApartIn
  <1>5. Outer!Readable(p, discard) /\ (\A k \in Objects : Nested!Legal(Plain(doc[k].inner), discard))
          <=> \A k \in DOMAIN doc : GoodIn(discard, 1, doc[k])
    BY <1>1, <1>2, <1>3 DEF Outer!Readable, GoodIn
  <1> QED BY <1>4, <1>5 DEF Outer!Legal, Legal, LegalIn, p
-----------------------------------------------------------------------------
(* One frame *)

LEMMA FreshRead ==
  ASSUME NEW level \in Levels, NEW pass \in {"fast", "slow"}, NEW dis,
         NEW in, Len(in) \in Nat
  PROVE  Read(dis, level, in, Frame(level, pass))
  <1> DEFINE fr == Frame(level, pass)
  <1>1. /\ fr.pos = 0 /\ fr.field = 1 /\ fr.seen = {} /\ fr.oneofs = {}
        /\ \A i \in DOMAIN SchemaOf(level) : fr.fields[i] = Absent
    BY DEF Frame, EmptyOf
  <1>2. fr \in Frames(level)
    <2>1. Absent \in Contents(level)
      BY DEF Absent, Contents, Flat, Is
    <2>2. EmptyOf(SchemaOf(level)) \in [DOMAIN SchemaOf(level) -> Contents(level)]
      BY <2>1 DEF EmptyOf
    <2> QED BY <2>2 DEF Frames, Frame
  <1>3. Len(SchemaOf(level)) \in Nat
    BY SchemaFacts
  <1> HIDE DEF fr
  <1>4. fr.pos <= Len(in) /\ 1 .. fr.pos = {}
    BY <1>1
  <1> QED BY <1>1, <1>2, <1>3, <1>4 DEF Read, fr

\* The next member is read and its field marked.
LEMMA Advances ==
  ASSUME NEW level \in Levels, NEW dis, NEW in, NEW fr, NEW new \in Frames(level),
         Read(dis, level, in, fr), Len(in) \in Nat, fr.pos < Len(in),
         NEW m, m = in[fr.pos + 1],
         NEW i, i = FieldIn(level, m),
         GoodIn(dis, level, m),
         i \notin fr.seen,
         OccupiedIn(level, m) \notin fr.oneofs,
         new.pos = fr.pos + 1,
         new.seen = fr.seen \cup ({i} \ {0}),
         new.oneofs = fr.oneofs \cup ({OccupiedIn(level, m)} \ {0}),
         \A j \in DOMAIN SchemaOf(level) : j # i => new.fields[j] = fr.fields[j],
         i # 0 /\ ~ Stray(level, m) => new.fields[i] = ValueIn(level, i, m),
         new.pass = "fast" => /\ new.field \in 1 .. Len(SchemaOf(level)) + 1
                              /\ \A j \in new.seen : j < new.field
  PROVE  Read(dis, level, in, new)
  <1> DEFINE n == fr.pos
  <1>1. n \in Nat /\ new.pos = n + 1 /\ n + 1 <= Len(in)
    BY DEF Read, Frames
  <1>2. 1 .. n + 1 = (1 .. n) \cup {n + 1} /\ n + 1 \notin 1 .. n
    BY <1>1
  <1>3. \A k \in 1 .. n : /\ FieldIn(level, in[k]) # 0 => FieldIn(level, in[k]) \in fr.seen
                          /\ OccupiedIn(level, in[k]) # 0 =>
                               OccupiedIn(level, in[k]) \in fr.oneofs
    BY DEF Read
  <1>4. \A k \in 1 .. n + 1 : GoodIn(dis, level, in[k])
    BY <1>2 DEF Read
  <1>5. \A k, l \in 1 .. n + 1 : k # l => ApartIn(level, in[k], in[l])
    <2> SUFFICES ASSUME NEW k \in 1 .. n + 1, NEW l \in 1 .. n + 1, k # l
                 PROVE  ApartIn(level, in[k], in[l])
      OBVIOUS
    <2>1. CASE k \in 1 .. n /\ l \in 1 .. n
      BY <2>1 DEF Read
    <2>2. CASE k = n + 1 /\ l \in 1 .. n
      BY <2>2, <1>3 DEF ApartIn
    <2>3. CASE l = n + 1 /\ k \in 1 .. n
      BY <2>3, <1>3 DEF ApartIn
    <2> QED BY <1>2, <2>1, <2>2, <2>3
  <1>6. new.seen = {FieldIn(level, in[k]) : k \in 1 .. n + 1} \ {0}
    <2>1. fr.seen = {FieldIn(level, in[k]) : k \in 1 .. n} \ {0}
      BY DEF Read
    <2>2. {FieldIn(level, in[k]) : k \in 1 .. n + 1}
            = {FieldIn(level, in[k]) : k \in 1 .. n} \cup {i}
      BY <1>2
    <2> QED BY <2>1, <2>2
  <1>7. new.oneofs = {OccupiedIn(level, in[k]) : k \in 1 .. n + 1} \ {0}
    <2>1. fr.oneofs = {OccupiedIn(level, in[k]) : k \in 1 .. n} \ {0}
      BY DEF Read
    <2>2. {OccupiedIn(level, in[k]) : k \in 1 .. n + 1}
            = {OccupiedIn(level, in[k]) : k \in 1 .. n} \cup {OccupiedIn(level, m)}
      BY <1>2
    <2> QED BY <2>1, <2>2
  <1>8. \A k \in 1 .. n + 1 :
          FieldIn(level, in[k]) # 0 /\ ~ Stray(level, in[k]) =>
            new.fields[FieldIn(level, in[k])] = ValueIn(level, FieldIn(level, in[k]), in[k])
    <2> SUFFICES ASSUME NEW k \in 1 .. n + 1,
                        FieldIn(level, in[k]) # 0, ~ Stray(level, in[k])
                 PROVE  new.fields[FieldIn(level, in[k])]
                          = ValueIn(level, FieldIn(level, in[k]), in[k])
      OBVIOUS
    <2>1. CASE k = n + 1
      BY <2>1
    <2>2. CASE k \in 1 .. n
      <3>1. FieldIn(level, in[k]) \in DOMAIN SchemaOf(level)
        BY FieldFacts
      <3>2. FieldIn(level, in[k]) # i
        BY <1>3, <2>2
      <3> QED BY <2>2, <3>1, <3>2 DEF Read
    <2> QED BY <1>2, <2>1, <2>2
  <1>9. \A j \in DOMAIN SchemaOf(level) \ new.seen : new.fields[j] = Absent
    <2>1. 0 \notin DOMAIN SchemaOf(level)
      BY SchemaFacts
    <2>2. \A j \in DOMAIN SchemaOf(level) \ new.seen : j # i /\ j \notin fr.seen
      BY <2>1
    <2> QED BY <2>2 DEF Read
  <1> QED BY <1>1, <1>4, <1>5, <1>6, <1>7, <1>8, <1>9 DEF Read

\* A next member that is a mistake, alone or after the others.
LEMMA Misstep ==
  ASSUME NEW level \in Levels, NEW dis, NEW in, NEW fr,
         Read(dis, level, in, fr), in \in Seq(Members(Inputs2)) \cup Inputs2,
         fr.pos < Len(in), NEW m, m = in[fr.pos + 1],
         \/ ~ GoodIn(dis, level, m)
         \/ FieldIn(level, m) \in fr.seen
         \/ OccupiedIn(level, m) \in fr.oneofs
  PROVE  ~ LegalIn(dis, level, in)
  <1> DEFINE n == fr.pos
  <1>1. Len(in) \in Nat /\ DOMAIN in = 1 .. Len(in)
    BY LenProperties DEF Inputs2
  <1>2. n \in Nat /\ n + 1 \in DOMAIN in /\ 1 .. n \subseteq DOMAIN in /\ n + 1 \notin 1 .. n
    BY <1>1 DEF Read, Frames
  <1>3. CASE ~ GoodIn(dis, level, m)
    BY <1>2, <1>3 DEF LegalIn
  <1>4. CASE FieldIn(level, m) \in fr.seen
    <2>1. PICK k \in 1 .. n : FieldIn(level, m) = FieldIn(level, in[k])
      BY <1>4 DEF Read
    <2>2. FieldIn(level, m) # 0
      BY <1>4 DEF Read
    <2>3. ~ ApartIn(level, m, in[k])
      BY <2>1, <2>2 DEF ApartIn
    <2> QED BY <1>2, <2>3 DEF LegalIn
  <1>5. CASE OccupiedIn(level, m) \in fr.oneofs
    <2>1. PICK k \in 1 .. n : OccupiedIn(level, m) = OccupiedIn(level, in[k])
      BY <1>5 DEF Read
    <2>2. OccupiedIn(level, m) # 0
      BY <1>5 DEF Read
    <2>3. ~ ApartIn(level, m, in[k])
      BY <2>1, <2>2 DEF ApartIn
    <2> QED BY <1>2, <2>3 DEF LegalIn
  <1> QED BY <1>3, <1>4, <1>5

\* The other members of a oneof that nothing has occupied are absent.
LEMMA Unoccupied ==
  ASSUME NEW level \in Levels, NEW dis, NEW in, NEW fr, Read(dis, level, in, fr),
         NEW j \in DOMAIN SchemaOf(level),
         SchemaOf(level)[j].oneof # 0, SchemaOf(level)[j].oneof \notin fr.oneofs
  PROVE  fr.fields[j] = Absent
  <1>1. CASE j \notin fr.seen
    BY <1>1 DEF Read
  <1>2. CASE j \in fr.seen
    <2>1. PICK k \in 1 .. fr.pos : FieldIn(level, in[k]) = j
      BY <1>2 DEF Read
    <2>2. j # 0
      BY SchemaFacts
    <2>3. OccupiedIn(level, in[k]) = 0 \/ OccupiedIn(level, in[k]) \in fr.oneofs
      BY <2>1 DEF Read
    <2>4. in[k].token = "null" /\ SchemaOf(level)[j].kind \notin Outer!NullIsValue
      BY <2>1, <2>2, <2>3, OccupiedFacts
    <2>5. ~ IsObject(in[k]) /\ ~ Stray(level, in[k])
      BY <2>4 DEF IsObject, Stray, StrayHere
    <2>6. fr.fields[j] = ValueIn(level, j, in[k])
      BY <2>1, <2>2, <2>5 DEF Read
    <2>7. ValueIn(level, j, in[k]) = Absent
      BY <2>4, <2>5, ValueFacts
    <2> QED BY <2>6, <2>7
  <1> QED BY <1>1, <1>2
-----------------------------------------------------------------------------
(* The object being read *)

LEMMA FrontOfPair ==
  ASSUME NEW a, NEW b
  PROVE  Front(<<a, b>>) = <<a>>
  <1> DEFINE s == <<a, b>>
  <1>1. s \in Seq({a, b}) /\ Len(s) = 2 /\ \A k \in 1 .. 1 : s[k] \in {a, b} /\ s[1] = a
    OBVIOUS
  <1> HIDE DEF s
  <1>2. /\ SubSeq(s, 1, 1) \in Seq({a, b})
        /\ Len(SubSeq(s, 1, 1)) = 1
        /\ SubSeq(s, 1, 1)[1] = a
    BY <1>1, SubSeqProperties
  <1>3. <<a>> \in Seq({a, b}) /\ Len(<<a>>) = 1 /\ <<a>>[1] = a
    OBVIOUS
  <1>4. \A k \in 1 .. 1 : SubSeq(s, 1, 1)[k] = <<a>>[k]
    BY <1>2, <1>3
  <1>5. SubSeq(s, 1, 1) = <<a>>
    BY <1>2, <1>3, <1>4, SeqEqual
  <1>6. Front(s) = SubSeq(s, 1, 1)
    BY <1>1 DEF Front
  <1> QED BY <1>5, <1>6 DEF s

LEMMA PairOfAppend ==
  ASSUME NEW a, NEW f
  PROVE  Append(<<a>>, f) = <<a, f>>
  <1> DEFINE s == <<a>>
             t == <<a, f>>
             u == Append(s, f)
  <1>1. /\ s \in Seq({a, f}) /\ Len(s) = 1 /\ s[1] = a
        /\ t \in Seq({a, f}) /\ Len(t) = 2 /\ t[1] = a /\ t[2] = f
    OBVIOUS
  <1> HIDE DEF s, t
  <1>2. u \in Seq({a, f}) /\ Len(u) = 2 /\ u[1] = a /\ u[2] = f
    <2>0. f \in {a, f}
      OBVIOUS
    <2> DEFINE S == {a, f}
    <2> HIDE DEF S
    <2>1. /\ u \in Seq(S)
          /\ Len(u) = Len(s) + 1
          /\ \A i \in 1 .. Len(s) : u[i] = s[i]
          /\ u[Len(s) + 1] = f
      <3>1. s \in Seq(S) /\ f \in S
        BY <1>1, <2>0 DEF S
      <3> QED BY <3>1, AppendProperties
    <2> HIDE DEF u
    <2> QED BY <1>1, <2>1 DEF S
  <1> HIDE DEF u
  <1>3. \A k \in 1 .. 2 : u[k] = t[k]
    BY <1>1, <1>2
  <1>4. u = t
    BY <1>1, <1>2, <1>3, SeqEqual
  <1> QED BY <1>4 DEF s, t, u

\* The open objects are a message, or a message and a nested one.
LEMMA TopFacts ==
  ASSUME Standing(discard, doc, stack)
  PROVE  \/ \E a : /\ stack = <<a>> /\ Len(stack) = 1 /\ Top = a /\ Top.level = 1 /\ Input = doc
                   /\ Read(discard, 1, doc, a)
                   /\ \A f : WithTop(f) = <<f>>
         \/ \E a, b : /\ stack = <<a, b>> /\ Len(stack) = 2 /\ Top = b /\ Top.level = 2
                      /\ Input = doc[a.pos + 1].inner
                      /\ Read(discard, 1, doc, a) /\ Inside(discard, doc, a, b)
                      /\ \A f : WithTop(f) = <<a, f>>
  <1>1. CASE stack = <<stack[1]>>
    <2>1. PICK a : a = stack[1]
      OBVIOUS
    <2>2. stack = <<a>> /\ Read(discard, 1, doc, a)
      BY <1>1, <2>1 DEF Standing
    <2>3. Len(stack) = 1 /\ Top = a
      BY <2>2 DEF Top, Last
    <2>4. Top.level = 1
      BY <2>2, <2>3 DEF Read, Frames
    <2>5. \A f : WithTop(f) = <<f>>
      <3>1. Front(stack) = << >>
        BY <2>2, <2>3 DEF Front
      <3> QED BY <3>1 DEF WithTop
    <2> QED BY <2>2, <2>3, <2>4, <2>5 DEF Input
  <1>2. CASE stack = <<stack[1], stack[2]>> /\ Inside(discard, doc, stack[1], stack[2])
    <2>1. PICK a, b : a = stack[1] /\ b = stack[2]
      OBVIOUS
    <2>2. stack = <<a, b>> /\ Read(discard, 1, doc, a) /\ Inside(discard, doc, a, b)
      BY <1>2, <2>1 DEF Standing
    <2>3. Len(stack) = 2 /\ Top = b /\ stack[1] = a
      BY <2>2 DEF Top, Last
    <2>4. Top.level = 2
      BY <2>2, <2>3 DEF Inside, Read, Frames
    <2>5. ASSUME NEW f PROVE WithTop(f) = <<a, f>>
      <3>1. WithTop(f) = Append(<<a>>, f)
        BY <2>2, FrontOfPair DEF WithTop
      <3> QED BY <3>1, PairOfAppend
    <2> QED BY <2>2, <2>3, <2>4, <2>5 DEF Input
  <1> QED BY <1>1, <1>2 DEF Standing

\* What it consists of.
LEMMA InputFacts ==
  ASSUME Types, Standing(discard, doc, stack)
  PROVE  /\ Top.level \in Levels
         /\ Input \in Seq(Members(Inputs2)) \cup Inputs2
         /\ Len(Input) \in Nat
         /\ Read(discard, Top.level, Input, Top)
         /\ Top \in Frames(Top.level) /\ Top.pos \in Nat
         /\ AtEnd <=> Top.pos = Len(Input)
         /\ \A k \in 1 .. Len(Input) :
              /\ Input[k].token \in Outer!Tokens
              /\ Top.level = 1 => /\ Input = doc
                                  /\ Input[k].inner \in Inputs2
                                  /\ SensibleMember(Input[k])
  <1>1. doc \in Seq(Members(Inputs2)) /\ Len(doc) \in Nat
    BY LenProperties DEF Types
  <1>2. \A k \in 1 .. Len(doc) : /\ doc[k].inner \in Inputs2
                                 /\ doc[k].token \in Outer!Tokens
                                 /\ SensibleMember(doc[k])
    <2>1. \A k \in 1 .. Len(doc) : doc[k] \in Members(Inputs2)
      BY <1>1, ElementOfSeq
    <2>2. DOMAIN doc = 1 .. Len(doc)
      BY <1>1, LenProperties
    <2> QED BY <2>1, <2>2 DEF Members, Types
  <1>3. CASE \E a : stack = <<a>> /\ Top = a /\ Top.level = 1 /\ Input = doc
                    /\ Read(discard, 1, doc, a)
    <2>1. Top.level = 1 /\ Input = doc /\ Read(discard, 1, doc, Top)
      BY <1>3
    <2>2. Top \in Frames(1) /\ Top.pos \in Nat /\ Top.pos <= Len(doc)
      BY <2>1 DEF Read, Frames
    <2> QED BY <1>1, <1>2, <2>1, <2>2 DEF AtEnd, Levels
  <1>4. CASE \E a, b : /\ stack = <<a, b>> /\ Top = b /\ Top.level = 2
                       /\ Input = doc[a.pos + 1].inner
                       /\ Read(discard, 1, doc, a) /\ Inside(discard, doc, a, b)
    <2>1. PICK a, b : /\ Top = b /\ Top.level = 2 /\ Input = doc[a.pos + 1].inner
                      /\ Read(discard, 1, doc, a) /\ Inside(discard, doc, a, b)
      BY <1>4
    <2>2. a.pos + 1 \in 1 .. Len(doc)
      BY <1>1, <2>1 DEF Inside, Read, Frames
    <2>3. Input \in Inputs2
      BY <1>2, <2>1, <2>2
    <2>4. Read(discard, 2, Input, Top)
      BY <2>1 DEF Inside
    <2>5. Top \in Frames(2) /\ Top.pos \in Nat /\ Top.pos <= Len(Input)
      BY <2>4 DEF Read, Frames
    <2>6. Len(Input) \in Nat /\ \A k \in 1 .. Len(Input) : Input[k].token \in Outer!Tokens
      <3>1. Input \in Seq(Members({<<>>}))
        BY <2>3 DEF Inputs2
      <3>2. Len(Input) \in Nat
        BY <3>1, LenProperties
      <3>3. \A k \in 1 .. Len(Input) : Input[k] \in Members({<<>>})
        BY <3>1, ElementOfSeq
      <3> QED BY <3>2, <3>3 DEF Members
    <2> QED BY <2>1, <2>3, <2>4, <2>5, <2>6 DEF AtEnd, Levels
  <1> QED BY <1>3, <1>4, TopFacts

\* A mistake in a nested object is one of the document.
LEMMA MistakeInside ==
  ASSUME Types, Standing(discard, doc, stack), ~ LegalIn(discard, Top.level, Input)
  PROVE  ~ LegalIn(discard, 1, doc)
  <1>1. CASE Top.level = 1
    BY <1>1, TopFacts
  <1>2. CASE Top.level # 1
    <2>1. PICK a, b : /\ Top.level = 2 /\ Input = doc[a.pos + 1].inner
                      /\ Read(discard, 1, doc, a) /\ Inside(discard, doc, a, b)
      BY <1>2, TopFacts
    <2>2. a.pos + 1 \in DOMAIN doc
      BY <2>1, LenProperties DEF Inside, Read, Frames, Types
    <2>3. IsObject(doc[a.pos + 1])
      BY <2>1 DEF Inside
    <2>4. ~ Nested!Legal(Plain(doc[a.pos + 1].inner), discard)
      BY <2>1, NestedLegal
    <2>5. ~ GoodIn(discard, 1, doc[a.pos + 1])
      BY <2>3, <2>4 DEF GoodIn
    <2> QED BY <2>2, <2>5 DEF LegalIn
  <1> QED BY <1>1, <1>2

\* The frame that reads it is replaced.
LEMMA ReadsOn ==
  ASSUME Types, Standing(discard, doc, stack), NEW new,
         Read(discard, Top.level, Input, new)
  PROVE  Standing(discard, doc, WithTop(new))
  <1>1. CASE \E a : Top.level = 1 /\ Input = doc /\ \A f : WithTop(f) = <<f>>
    <2>1. WithTop(new) = <<new>> /\ Read(discard, 1, doc, new)
      BY <1>1
    <2>2. <<new>>[1] = new
      OBVIOUS
    <2> QED BY <2>1, <2>2 DEF Standing
  <1>2. CASE \E a, b : /\ Top.level = 2 /\ Input = doc[a.pos + 1].inner
                       /\ Read(discard, 1, doc, a) /\ Inside(discard, doc, a, b)
                       /\ \A f : WithTop(f) = <<a, f>>
    <2>1. PICK a, b : /\ Top.level = 2 /\ Input = doc[a.pos + 1].inner
                      /\ Read(discard, 1, doc, a) /\ Inside(discard, doc, a, b)
                      /\ \A f : WithTop(f) = <<a, f>>
      BY <1>2
    <2>2. WithTop(new) = <<a, new>> /\ Inside(discard, doc, a, new)
      BY <2>1 DEF Inside
    <2>3. <<a, new>>[1] = a /\ <<a, new>>[2] = new
      OBVIOUS
    <2> QED BY <2>1, <2>2, <2>3 DEF Standing
  <1> QED BY <1>1, <1>2, TopFacts
-----------------------------------------------------------------------------
(* Values that are stored *)

\* The next member of the object, when there is one.
LEMMA HereFacts ==
  ASSUME Types, Standing(discard, doc, stack), ~ AtEnd
  PROVE  /\ Top.pos < Len(Input)
         /\ Here = Input[Top.pos + 1]
         /\ Here.token \in Outer!Tokens
         /\ Top.level = 1 => /\ Top.pos + 1 \in DOMAIN doc
                             /\ Here = doc[Top.pos + 1]
                             /\ Here.inner \in Inputs2
                             /\ SensibleMember(Here)
  <1>1. /\ Read(discard, Top.level, Input, Top) /\ Len(Input) \in Nat /\ Top.pos \in Nat
        /\ \A k \in 1 .. Len(Input) :
             /\ Input[k].token \in Outer!Tokens
             /\ Top.level = 1 => /\ Input = doc
                                 /\ Input[k].inner \in Inputs2
                                 /\ SensibleMember(Input[k])
    BY InputFacts
  <1>2. Top.pos < Len(Input)
    BY <1>1 DEF Read, AtEnd
  <1>3. Top.pos + 1 \in 1 .. Len(Input)
    BY <1>1, <1>2
  <1>4. DOMAIN doc = 1 .. Len(doc)
    BY LenProperties DEF Types
  <1> QED BY <1>1, <1>2, <1>3, <1>4 DEF Here

\* The next member is a mistake of the document.
LEMMA HereIsMistake ==
  ASSUME Types, Standing(discard, doc, stack), ~ AtEnd,
         \/ ~ GoodIn(discard, Top.level, Here)
         \/ FieldIn(Top.level, Here) \in Top.seen
         \/ OccupiedIn(Top.level, Here) \in Top.oneofs
  PROVE  ~ LegalIn(discard, 1, doc)
  <1>1. /\ Top.level \in Levels /\ Read(discard, Top.level, Input, Top)
        /\ Input \in Seq(Members(Inputs2)) \cup Inputs2
    BY InputFacts
  <1>2. Top.pos < Len(Input) /\ Here = Input[Top.pos + 1]
    BY HereFacts
  <1>3. ~ LegalIn(discard, Top.level, Input)
    BY <1>1, <1>2, Misstep
  <1> QED BY <1>3, MistakeInside

\* A member that has a field of its own, next in the fast pass.
Fits(i) ==
  /\ ~ AtEnd
  /\ i \in DOMAIN SchemaOf(Top.level)
  /\ i = FieldIn(Top.level, Here)
  /\ i \notin Top.seen
  /\ Top.pass = "fast" => i = Top.field

\* The frame that has a value for it.
LEMMA NewReads ==
  ASSUME Types, Standing(discard, doc, stack), NEW i, Fits(i),
         NEW new \in Frames(Top.level),
         GoodIn(discard, Top.level, Here),
         OccupiedIn(Top.level, Here) \notin Top.oneofs,
         new.pos = Top.pos + 1, new.pass = Top.pass, new.field = i + 1,
         new.seen = Top.seen \cup {i},
         new.oneofs = Top.oneofs \cup ({OccupiedIn(Top.level, Here)} \ {0}),
         \A j \in DOMAIN SchemaOf(Top.level) : j # i => new.fields[j] = Top.fields[j],
         ~ Stray(Top.level, Here) => new.fields[i] = ValueIn(Top.level, i, Here)
  PROVE  Standing(discard, doc, WithTop(new))
  <1>1. /\ Top.level \in Levels /\ Read(discard, Top.level, Input, Top)
        /\ Len(Input) \in Nat
    BY InputFacts
  <1>2. Top.pos < Len(Input) /\ Here = Input[Top.pos + 1]
    BY HereFacts DEF Fits
  <1>3. /\ Len(SchemaOf(Top.level)) \in Nat
        /\ DOMAIN SchemaOf(Top.level) = 1 .. Len(SchemaOf(Top.level))
    BY <1>1, SchemaFacts
  <1>4. i \in 1 .. Len(SchemaOf(Top.level)) /\ {i} \ {0} = {i}
    BY <1>3 DEF Fits
  <1>5. new.pass = "fast" => /\ new.field \in 1 .. Len(SchemaOf(Top.level)) + 1
                             /\ \A j \in new.seen : j < new.field
    <2> SUFFICES ASSUME new.pass = "fast"
                 PROVE  /\ new.field \in 1 .. Len(SchemaOf(Top.level)) + 1
                        /\ \A j \in new.seen : j < new.field
      OBVIOUS
    <2>1. new.field = i + 1
      OBVIOUS
    <2>2. \A j \in Top.seen : j < i /\ j \in Nat
      BY <1>1 DEF Fits, Read, Frames
    <2>3. \A j \in new.seen : j \in Top.seen \/ j = i
      OBVIOUS
    <2> QED BY <1>3, <1>4, <2>1, <2>2, <2>3
  <1>6. i = FieldIn(Top.level, Here) /\ i \notin Top.seen
    BY DEF Fits
  <1>7. Read(discard, Top.level, Input, new)
    <2> DEFINE m == Here
               level == Top.level
               in == Input
               fr == Top
    <2>1. /\ level \in Levels /\ Read(discard, level, in, fr) /\ Len(in) \in Nat
          /\ fr.pos < Len(in) /\ m = in[fr.pos + 1] /\ i = FieldIn(level, m)
          /\ GoodIn(discard, level, m) /\ i \notin fr.seen
          /\ OccupiedIn(level, m) \notin fr.oneofs
          /\ new \in Frames(level) /\ new.pos = fr.pos + 1
          /\ new.seen = fr.seen \cup ({i} \ {0})
          /\ new.oneofs = fr.oneofs \cup ({OccupiedIn(level, m)} \ {0})
          /\ \A j \in DOMAIN SchemaOf(level) : j # i => new.fields[j] = fr.fields[j]
          /\ i # 0 /\ ~ Stray(level, m) => new.fields[i] = ValueIn(level, i, m)
          /\ new.pass = "fast" => /\ new.field \in 1 .. Len(SchemaOf(level)) + 1
                                  /\ \A j \in new.seen : j < new.field
      BY <1>1, <1>2, <1>4, <1>5, <1>6
    <2> HIDE DEF m, level, in, fr
    <2>2. Read(discard, level, in, new)
      BY <2>1, Advances
    <2> QED BY <2>2 DEF level, in
  <1> QED BY <1>7, ReadsOn

LEMMA FrameUpdated ==
  ASSUME NEW level, NEW t \in Frames(level), NEW pos \in Nat, NEW field \in Nat,
         NEW seen \in SUBSET Nat, NEW oneofs \in SUBSET Nat,
         NEW fields \in [DOMAIN SchemaOf(level) -> Contents(level)]
  PROVE  [t EXCEPT !.pos = pos, !.field = field, !.seen = seen, !.fields = fields,
                   !.oneofs = oneofs] \in Frames(level)
  <1> DEFINE F == [DOMAIN SchemaOf(level) -> Contents(level)]
  <1> HIDE DEF F
  <1> QED BY DEF Frames, F

\* What the code stores with After.
LEMMA AfterReads ==
  ASSUME Types, Standing(discard, doc, stack), NEW i, Fits(i),
         NEW v \in Contents(Top.level),
         GoodIn(discard, Top.level, Here),
         OccupiedIn(Top.level, Here) = OneofOf(i),
         OneofOf(i) \notin Top.oneofs,
         ~ Stray(Top.level, Here) => v = ValueIn(Top.level, i, Here)
  PROVE  Standing(discard, doc, WithTop(After(i, v)))
  <1> DEFINE new == After(i, v)
             S == SchemaOf(Top.level)
  <1>1. /\ Top.level \in Levels /\ Read(discard, Top.level, Input, Top)
        /\ Top \in Frames(Top.level)
    BY InputFacts
  <1>2. i \in DOMAIN S /\ DOMAIN S = 1 .. Len(S) /\ Len(S) \in Nat
        /\ \A j \in DOMAIN S : S[j].oneof \in Nat
    BY <1>1, SchemaFacts DEF Fits
  <1>3. DOMAIN Top.fields = DOMAIN S /\ \A j \in DOMAIN S : Top.fields[j] \in Contents(Top.level)
    BY <1>1 DEF Frames
  <1>4. \A j \in DOMAIN S : j # i => Stored(i, v)[j] = Top.fields[j]
    <2> SUFFICES ASSUME NEW j \in DOMAIN S, j # i PROVE Stored(i, v)[j] = Top.fields[j]
      OBVIOUS
    <2>1. CASE OneofOf(i) # 0 /\ OneofOf(j) = OneofOf(i)
      <3>1. S[j].oneof # 0 /\ S[j].oneof \notin Top.oneofs
        BY <2>1 DEF OneofOf, Field
      <3>2. Top.fields[j] = Absent
        BY <1>1, <3>1, Unoccupied
      <3>3. Stored(i, v)[j] = Absent
        BY <1>3, <2>1 DEF Stored
      <3> QED BY <3>2, <3>3
    <2>2. CASE ~ (OneofOf(i) # 0 /\ OneofOf(j) = OneofOf(i))
      BY <1>3, <2>2 DEF Stored
    <2> QED BY <2>1, <2>2
  <1>5. Stored(i, v)[i] = v
    BY <1>2, <1>3 DEF Stored
  <1>6. Stored(i, v) \in [DOMAIN S -> Contents(Top.level)]
    <2>1. \A j \in DOMAIN S : Stored(i, v)[j] \in Contents(Top.level)
      BY <1>3, <1>4, <1>5
    <2>2. Stored(i, v) = [j \in DOMAIN S |-> Stored(i, v)[j]]
      BY <1>3 DEF Stored
    <2> HIDE DEF S
    <2> QED BY <2>1, <2>2
  <1>7. OneofOf(i) \in Nat
    BY <1>2 DEF OneofOf, Field
  <1>8. /\ new.pos = Top.pos + 1 /\ new.pass = Top.pass /\ new.field = i + 1
        /\ new.seen = Top.seen \cup {i}
        /\ new.oneofs = Top.oneofs \cup ({OneofOf(i)} \ {0})
        /\ new.fields = Stored(i, v)
    BY <1>1 DEF After, Frames
  <1>9. new \in Frames(Top.level)
    <2>1. i \in Nat
      BY <1>2
    <2>2. /\ Top.level \in {Top.level} /\ Top.pass \in {"fast", "slow"} /\ Top.pos + 1 \in Nat
          /\ i + 1 \in Nat /\ Top.seen \cup {i} \in SUBSET Nat
          /\ Top.oneofs \in SUBSET Nat /\ Top.oneofs \cup {OneofOf(i)} \in SUBSET Nat
      BY <1>1, <1>7, <2>1 DEF Frames
    <2>3. new = [Top EXCEPT !.pos = Top.pos + 1, !.field = i + 1, !.seen = Top.seen \cup {i},
                            !.fields = Stored(i, v),
                            !.oneofs = IF OneofOf(i) = 0 THEN Top.oneofs
                                       ELSE Top.oneofs \cup {OneofOf(i)}]
      BY DEF After
    <2> HIDE DEF new
    <2> QED BY <1>1, <1>6, <2>2, <2>3, FrameUpdated DEF S
  <1> HIDE DEF new
  <1> QED BY <1>4, <1>5, <1>8, <1>9, NewReads DEF new
-----------------------------------------------------------------------------
(* The outcome of one value *)

\* Of a value for field i the decoder makes a mistake of the document, or it
\* goes on reading it.
Refused ==
  /\ status' = "failed" /\ stack' = stack
  /\ ~ LegalIn(discard, 1, doc) \/ \E k \in DOMAIN doc : HasNullItem(doc[k])
GoesOn == status' = status /\ Standing(discard, doc, stack')

\* The member belongs to a known field.
LEMMA FitsFacts ==
  ASSUME Types, Standing(discard, doc, stack), NEW i, Fits(i)
  PROVE  /\ Top.level \in Levels /\ i # 0
         /\ Field(i).kind \in Outer!Kinds
         /\ OneofOf(i) = 0 <=> Field(i).kind \notin Outer!MemberKinds
         /\ OneofOf(i) = SchemaOf(Top.level)[i].oneof
         /\ 0 \notin Top.oneofs
         /\ Here.token \in Outer!Tokens
         /\ Top.level = 2 => Field(i).kind \notin Containers
         /\ IsObject(Here) /\ Top.level = 1 => Field(i).kind = "message" /\ Here.token = "value"
         /\ Top.level = 1 => /\ Outer!FieldOf(Here) = i /\ Field(i) = Schema[i]
                             /\ i \in DOMAIN Schema
         /\ Here.token # "null" \/ NullIsValue(i) => OccupiedIn(Top.level, Here) = OneofOf(i)
         /\ Here.token = "null" /\ ~ NullIsValue(i) => OccupiedIn(Top.level, Here) = 0
  <1>1. Top.level \in Levels /\ Read(discard, Top.level, Input, Top)
    BY InputFacts
  <1>2. i \in DOMAIN SchemaOf(Top.level) /\ i = FieldIn(Top.level, Here)
    BY DEF Fits
  <1>3. /\ i # 0
        /\ SchemaOf(Top.level)[i].kind \in Outer!Kinds
        /\ SchemaOf(Top.level)[i].oneof = 0
             <=> SchemaOf(Top.level)[i].kind \notin Outer!MemberKinds
    BY <1>1, <1>2, SchemaFacts
  <1>4. Here.token \in Outer!Tokens
    BY HereFacts DEF Fits
  <1>5. 0 \notin Top.oneofs
    BY <1>1 DEF Read
  <1>6. Top.level = 2 => Field(i).kind \notin Containers
    BY <1>2, SchemasAssumption DEF Field, SchemaOf
  <1>7. Top.level = 1 => Outer!FieldOf(Here) = i /\ Field(i) = Schema[i] /\ i \in DOMAIN Schema
    BY <1>2 DEF FieldIn, Field, SchemaOf
  <1>8. IsObject(Here) /\ Top.level = 1 => Field(i).kind = "message" /\ Here.token = "value"
    BY <1>7 DEF IsObject, MessageFields
  <1>9. /\ Here.token # "null" \/ NullIsValue(i) => OccupiedIn(Top.level, Here) = OneofOf(i)
        /\ Here.token = "null" /\ ~ NullIsValue(i) => OccupiedIn(Top.level, Here) = 0
    BY <1>1, <1>2, <1>3, OccupiedFacts DEF OneofOf, Field, NullIsValue, Outer!NullIsValue
  <1> QED BY <1>1, <1>3, <1>4, <1>5, <1>6, <1>7, <1>8, <1>9 DEF OneofOf, Field

\* A value that is no object is right when it is read and known.
LEMMA FlatIsGood ==
  ASSUME Types, Standing(discard, doc, stack), NEW i, Fits(i),
         Here.token # "malformed", Here.token = "unknownEnum" => discard,
         Top.level = 1 => ~ IsObject(Here)
  PROVE  GoodIn(discard, Top.level, Here)
  <1>1. FieldIn(Top.level, Here) # 0
    BY FitsFacts DEF Fits
  <1>2. discard \in BOOLEAN
    BY DEF Types
  <1> QED BY <1>1, <1>2 DEF GoodIn

LEMMA FlatContents ==
  ASSUME NEW level, NEW v \in {"absent", "nullValue", "default", "value"}
  PROVE  Is(v) \in Contents(level) /\ Absent \in Contents(level)
  BY DEF Contents, Flat, Absent, Is

LEMMA StoreNullReads ==
  ASSUME Types, Standing(discard, doc, stack), NEW i, Fits(i), StoreNull(i)
  PROVE  Refused \/ GoesOn
  <1>1. Here.token = "null"
    BY DEF StoreNull
  <1>2. /\ Top.level \in Levels /\ Read(discard, Top.level, Input, Top)
        /\ Top \in Frames(Top.level)
    BY InputFacts
  <1>3. Top.level = 1 => ~ IsObject(Here)
    BY <1>1 DEF IsObject
  <1>4. GoodIn(discard, Top.level, Here)
    BY <1>1, <1>3, FlatIsGood
  <1>5. i \in DOMAIN SchemaOf(Top.level) /\ ~ AtEnd
    BY DEF Fits
  <1>6. ValueIn(Top.level, i, Here)
          = IF SchemaOf(Top.level)[i].kind \in Outer!NullIsValue THEN Is("nullValue") ELSE Absent
    BY <1>1, <1>2, <1>3, <1>5, ValueFacts
  <1>7. NullIsValue(i) <=> SchemaOf(Top.level)[i].kind \in Outer!NullIsValue
    BY DEF NullIsValue, Outer!NullIsValue, Field
  <1>8. CASE NullIsValue(i) /\ OneofOf(i) \in Top.oneofs
    <2>1. Fail
      BY <1>1, <1>8 DEF StoreNull
    <2>2. OccupiedIn(Top.level, Here) = OneofOf(i)
      BY <1>8, FitsFacts
    <2>3. ~ LegalIn(discard, 1, doc)
      BY <1>5, <1>8, <2>2, HereIsMistake
    <2> QED BY <2>1, <2>3 DEF Fail, Refused
  <1>9. CASE NullIsValue(i) /\ OneofOf(i) \notin Top.oneofs
    <2>1. Continue(WithTop(After(i, Is("nullValue"))))
      BY <1>1, <1>9 DEF StoreNull
    <2>2. OccupiedIn(Top.level, Here) = OneofOf(i)
      BY <1>9, FitsFacts
    <2>3. Is("nullValue") \in Contents(Top.level)
      BY FlatContents
    <2>4. Standing(discard, doc, WithTop(After(i, Is("nullValue"))))
      BY <1>4, <1>6, <1>7, <1>9, <2>2, <2>3, AfterReads
    <2> QED BY <2>1, <2>4 DEF Continue, GoesOn
  <1>10. CASE ~ NullIsValue(i)
    <2> DEFINE new == [Top EXCEPT !.pos = @ + 1, !.field = i + 1,
                                  !.seen = @ \cup {i}, !.fields[i] = Absent]
               fields == [Top.fields EXCEPT ![i] = Absent]
    <2>1. Continue(WithTop(new))
      BY <1>1, <1>10 DEF StoreNull
    <2>2. /\ OccupiedIn(Top.level, Here) = 0 /\ 0 \notin Top.oneofs
      BY <1>1, <1>10, FitsFacts
    <2>3. /\ i \in Nat /\ Top.pos \in Nat /\ Top.seen \in SUBSET Nat
          /\ Top.oneofs \in SUBSET Nat
          /\ Top.fields \in [DOMAIN SchemaOf(Top.level) -> Contents(Top.level)]
      BY <1>2, <1>5, SchemaFacts DEF Frames
    <2>4. Absent \in Contents(Top.level)
      BY FlatContents
    <2>5. /\ fields \in [DOMAIN SchemaOf(Top.level) -> Contents(Top.level)]
          /\ fields[i] = Absent
          /\ \A j \in DOMAIN SchemaOf(Top.level) : j # i => fields[j] = Top.fields[j]
      BY <1>5, <2>3, <2>4
    <2>6. /\ new.pos = Top.pos + 1 /\ new.pass = Top.pass /\ new.field = i + 1
          /\ new.seen = Top.seen \cup {i} /\ new.oneofs = Top.oneofs /\ new.fields = fields
      BY <1>2 DEF Frames
    <2>7. new = [Top EXCEPT !.pos = Top.pos + 1, !.field = i + 1, !.seen = Top.seen \cup {i},
                            !.fields = fields, !.oneofs = Top.oneofs]
      BY <1>2 DEF Frames
    <2> HIDE DEF new, fields
    <2>8. new \in Frames(Top.level)
      <3>1. /\ Top \in Frames(Top.level) /\ Top.pos + 1 \in Nat /\ i + 1 \in Nat
            /\ Top.seen \cup {i} \in SUBSET Nat /\ Top.oneofs \in SUBSET Nat
            /\ fields \in [DOMAIN SchemaOf(Top.level) -> Contents(Top.level)]
        BY <1>2, <2>3, <2>5
      <3> QED BY <2>7, <3>1, FrameUpdated
    <2>9. new.oneofs = Top.oneofs \cup ({OccupiedIn(Top.level, Here)} \ {0})
      BY <2>2, <2>6
    <2>10. new.fields[i] = ValueIn(Top.level, i, Here)
      BY <1>6, <1>7, <1>10, <2>5, <2>6
    <2>11. Standing(discard, doc, WithTop(new))
      BY <1>4, <2>2, <2>5, <2>6, <2>8, <2>9, <2>10, NewReads
    <2> QED BY <2>1, <2>11 DEF Continue, GoesOn
  <1> QED BY <1>8, <1>9, <1>10

LEMMA StoreScalarReads ==
  ASSUME Types, Standing(discard, doc, stack), NEW i, Fits(i), StoreScalar(i)
  PROVE  Refused \/ GoesOn
  <1>1. Here.token # "null" /\ Field(i).kind \notin Containers
    BY DEF StoreScalar
  <1>2. /\ Top.level \in Levels /\ Here.token \in Outer!Tokens
        /\ Field(i).kind \in Outer!Kinds
        /\ OccupiedIn(Top.level, Here) = OneofOf(i) /\ 0 \notin Top.oneofs
    BY <1>1, FitsFacts
  <1>3. Top.level = 1 => ~ IsObject(Here)
    BY <1>1, FitsFacts DEF Containers
  <1>4. i \in DOMAIN SchemaOf(Top.level) /\ ~ AtEnd /\ i = FieldIn(Top.level, Here) /\ i # 0
    BY FitsFacts DEF Fits
  <1> DEFINE Wrong == \/ OneofOf(i) # 0 /\ OneofOf(i) \in Top.oneofs
                      \/ Here.token = "malformed"
                      \/ Here.token = "unknownEnum" /\ ~ discard
  <1>5. CASE Wrong
    <2>1. Fail
      BY <1>5 DEF StoreScalar
    <2>2. \/ ~ GoodIn(discard, Top.level, Here)
          \/ OccupiedIn(Top.level, Here) \in Top.oneofs
      BY <1>2, <1>5 DEF GoodIn
    <2>3. ~ LegalIn(discard, 1, doc)
      BY <1>4, <2>2, HereIsMistake
    <2> QED BY <2>1, <2>3 DEF Fail, Refused
  <1>6. CASE ~ Wrong
    <2>1. Continue(WithTop(After(i, Meant(i))))
      BY <1>6 DEF StoreScalar
    <2>2. GoodIn(discard, Top.level, Here)
      BY <1>3, <1>6, FlatIsGood
    <2>3. OneofOf(i) \notin Top.oneofs
      BY <1>2, <1>6
    <2>4. Here.token \in {"default", "value", "unknownEnum"}
      BY <1>1, <1>2, <1>6 DEF Outer!Tokens
    <2>5. Meant(i) \in Contents(Top.level)
      BY <2>4, FlatContents DEF Meant, UnknownEnum
    <2>6. ~ Stray(Top.level, Here) => Meant(i) = ValueIn(Top.level, i, Here)
      <3> DEFINE kind == SchemaOf(Top.level)[i].kind
      <3>1. kind = Field(i).kind
        BY DEF Field
      <3>2. kind \notin {"message", "list"} /\ kind \in Outer!Kinds
        BY <1>1, <1>2, <3>1 DEF Containers
      <3>3. ValueIn(Top.level, i, Here) =
              CASE Here.token = "default" ->
                     IF kind \in Outer!PresenceKinds THEN Is("default") ELSE Absent
                [] Here.token = "value" -> Is("value")
                [] OTHER -> Absent
        BY <1>2, <1>3, <1>4, <2>4, ValueFacts
      <3> HIDE DEF kind
      <3>4. CASE Here.token = "value"
        BY <3>3, <3>4 DEF Meant
      <3>5. CASE Here.token = "default"
        <4>1. kind \in Outer!PresenceKinds <=> kind \notin {"plain", "enum"}
          BY <3>2 DEF Outer!Kinds, Outer!PresenceKinds, Outer!MemberKinds
        <4> QED BY <3>1, <3>3, <3>5, <4>1 DEF Meant
      <3>6. CASE Here.token = "unknownEnum"
        <4>1. ~ Stray(Top.level, Here) => kind = "enum"
          BY <1>4, <3>6 DEF Stray, StrayHere, kind
        <4> QED BY <3>1, <3>3, <3>6, <4>1 DEF Meant, UnknownEnum
      <3> QED BY <2>4, <3>4, <3>5, <3>6
    <2>7. Standing(discard, doc, WithTop(After(i, Meant(i))))
      BY <1>2, <2>2, <2>3, <2>5, <2>6, AfterReads
    <2> QED BY <2>1, <2>7 DEF Continue, GoesOn
  <1> QED BY <1>5, <1>6

LEMMA StoreListReads ==
  ASSUME Types, Standing(discard, doc, stack), NEW i, Fits(i), StoreList(i)
  PROVE  Refused \/ GoesOn
  <1>1. Here.token # "null" /\ Field(i).kind = "list"
    BY DEF StoreList
  <1>2. /\ Top.level = 1 /\ Here.token \in Outer!Tokens
        /\ OneofOf(i) = 0 /\ 0 \notin Top.oneofs
        /\ OccupiedIn(Top.level, Here) = OneofOf(i)
        /\ Outer!FieldOf(Here) = i /\ i # 0 /\ i \in DOMAIN Schema /\ Schema[i].kind = "list"
    BY <1>1, FitsFacts DEF Containers, Levels, Outer!MemberKinds
  <1>3. ~ IsObject(Here)
    BY <1>1, FitsFacts, <1>2
  <1>4. /\ i \in DOMAIN SchemaOf(Top.level) /\ ~ AtEnd /\ Top.pos + 1 \in DOMAIN doc
        /\ Here = doc[Top.pos + 1] /\ SensibleMember(Here)
    BY <1>2, HereFacts DEF Fits
  <1>5. CASE Here.token # "value"
    <2>1. Fail
      BY <1>5 DEF StoreList
    <2>2. Here.token = "malformed"
      BY <1>1, <1>2, <1>4, <1>5 DEF SensibleMember, Sensible, Containers, Outer!Tokens
    <2>3. ~ GoodIn(discard, Top.level, Here)
      BY <2>2 DEF GoodIn
    <2>4. ~ LegalIn(discard, 1, doc)
      BY <1>4, <2>3, HereIsMistake
    <2> QED BY <2>1, <2>4 DEF Fail, Refused
  <1>6. CASE \E k \in DOMAIN Here.inner : Here.inner[k].token = "null"
    <2>1. Fail
      BY <1>6 DEF StoreList
    <2>2. HasNullItem(doc[Top.pos + 1])
      BY <1>2, <1>4, <1>6 DEF HasNullItem
    <2> QED BY <1>4, <2>1, <2>2 DEF Fail, Refused
  <1>7. CASE Here.token = "value" /\ ~ \E k \in DOMAIN Here.inner : Here.inner[k].token = "null"
    <2>1. Continue(WithTop(After(i, Is("value"))))
      BY <1>7 DEF StoreList
    <2>2. GoodIn(discard, Top.level, Here)
      BY <1>3, <1>7, FlatIsGood
    <2>3. Is("value") \in Contents(Top.level)
      BY FlatContents
    <2>4. ValueIn(Top.level, i, Here) = Is("value")
      BY <1>2, <1>3, <1>4, <1>7, ValueFacts DEF Levels
    <2>5. Standing(discard, doc, WithTop(After(i, Is("value"))))
      BY <1>2, <2>2, <2>3, <2>4, AfterReads
    <2> QED BY <2>1, <2>5 DEF Continue, GoesOn
  <1> QED BY <1>5, <1>6, <1>7

LEMMA EnterMessageReads ==
  ASSUME Types, Standing(discard, doc, stack), NEW i, Fits(i), EnterMessage(i)
  PROVE  Refused \/ GoesOn
  <1>1. Here.token # "null" /\ Field(i).kind = "message"
    BY DEF EnterMessage
  <1>2. /\ Top.level = 1 /\ Here.token \in Outer!Tokens
        /\ Outer!FieldOf(Here) = i /\ i # 0 /\ i \in DOMAIN Schema /\ Schema[i].kind = "message"
    BY <1>1, FitsFacts DEF Containers, Levels
  <1>3. /\ ~ AtEnd /\ i \notin Top.seen /\ i = FieldIn(Top.level, Here)
        /\ Top.pass = "fast" => i = Top.field
    BY DEF Fits
  <1>4. /\ Top.pos + 1 \in DOMAIN doc /\ Here = doc[Top.pos + 1] /\ SensibleMember(Here)
        /\ Here.inner \in Inputs2 /\ Top.pos < Len(Input)
    BY <1>2, <1>3, HereFacts
  <1>5. CASE Here.token # "value"
    <2>1. Fail
      BY <1>1, <1>5 DEF EnterMessage
    <2>2. Here.token = "malformed"
      BY <1>1, <1>2, <1>4, <1>5 DEF SensibleMember, Sensible, Containers, Outer!Tokens
    <2>3. ~ GoodIn(discard, Top.level, Here)
      BY <2>2 DEF GoodIn
    <2>4. ~ LegalIn(discard, 1, doc)
      BY <1>3, <2>3, HereIsMistake
    <2> QED BY <2>1, <2>4 DEF Fail, Refused
  <1>6. CASE Here.token = "value"
    <2> DEFINE a == [Top EXCEPT !.field = i]
               b == Frame(2, Top.pass)
    <2>1. Continue(Append(WithTop(a), b))
      BY <1>1, <1>6 DEF EnterMessage
    <2>2. /\ Input = doc /\ Read(discard, 1, doc, Top)
          /\ \A f : WithTop(f) = <<f>>
      BY <1>2, TopFacts
    <2>3. Append(WithTop(a), b) = <<a, b>>
      BY <2>2, PairOfAppend
    <2>4. IsObject(Here)
      BY <1>2, <1>6 DEF IsObject, MessageFields
    <2>5. /\ Top \in Frames(1) /\ i \in Nat /\ Top.pass \in {"fast", "slow"}
      <3>1. i \in Nat
        BY <1>2, SchemaFacts DEF Levels, SchemaOf
      <3> QED BY <2>2, <3>1 DEF Read, Frames
    <2>6. /\ a \in Frames(1) /\ a.pos = Top.pos /\ a.pass = Top.pass /\ a.field = i
          /\ a.fields = Top.fields /\ a.seen = Top.seen /\ a.oneofs = Top.oneofs
      BY <2>5 DEF Frames
    <2>7. Read(discard, 1, doc, a)
      <3>1. a.pass = "fast" => a.field = Top.field
        BY <1>3, <2>6
      <3> HIDE DEF a
      <3> QED BY <2>2, <2>6, <3>1 DEF Read
    <2>8. Read(discard, 2, Here.inner, b)
      <3>1. Len(Here.inner) \in Nat
        BY <1>4, LenProperties DEF Inputs2
      <3> QED BY <2>5, <3>1, FreshRead DEF Levels
    <2> HIDE DEF a, b
    <2>9. Inside(discard, doc, a, b)
      BY <1>2, <1>3, <1>4, <2>2, <2>4, <2>6, <2>8 DEF Inside
    <2>10. Standing(discard, doc, <<a, b>>)
      <3>1. <<a, b>>[1] = a /\ <<a, b>>[2] = b
        OBVIOUS
      <3> QED BY <2>7, <2>9, <3>1 DEF Standing
    <2> QED BY <2>1, <2>3, <2>10 DEF Continue, GoesOn
  <1> QED BY <1>5, <1>6

LEMMA StoreReads ==
  ASSUME Types, Standing(discard, doc, stack), NEW i, Fits(i), Store(i)
  PROVE  Refused \/ GoesOn
  BY StoreNullReads, StoreScalarReads, StoreListReads, EnterMessageReads DEF Store
-----------------------------------------------------------------------------
(* The end of an object *)

\* What has been read to its end is legal.
LEMMA ReadToEnd ==
  ASSUME NEW dis, NEW level, NEW in, NEW fr, Read(dis, level, in, fr),
         fr.pos = Len(in), DOMAIN in = 1 .. Len(in)
  PROVE  LegalIn(dis, level, in)
  BY DEF Read, LegalIn

\* A nested message has the content that its object means.
LEMMA NestedMeaning ==
  ASSUME NEW dis, NEW in, in \in Inputs2, NEW fr, Read(dis, 2, in, fr), fr.pos = Len(in),
         \A k \in DOMAIN in : ~ Stray(2, in[k])
  PROVE  fr.fields = [j \in DOMAIN Inner |-> Is(Nested!Meaning(Plain(in))[j])]
  <1> DEFINE p == Plain(in)
  <1>1. DOMAIN in = 1 .. Len(in)
    BY LenProperties DEF Inputs2
  <1>2. /\ DOMAIN p = DOMAIN in
        /\ \A k \in DOMAIN in : p[k].key = in[k].key /\ p[k].token = in[k].token
    BY DEF Plain
  <1>3. \A k \in DOMAIN in : Nested!FieldOf(p[k]) = FieldIn(2, in[k])
    BY <1>2 DEF FieldIn, Nested!FieldOf
  <1>4. fr.fields \in [DOMAIN Inner -> Contents(2)]
    BY DEF Read, Frames, SchemaOf
  <1> HIDE DEF p
  <1>5. ASSUME NEW j \in DOMAIN Inner
        PROVE  fr.fields[j] = Is(Nested!Meaning(p)[j])
    <2>1. j # 0
      BY SchemaFacts DEF Levels, SchemaOf
    <2>2. CASE \E k \in DOMAIN in : FieldIn(2, in[k]) = j
      <3> DEFINE c == CHOOSE k \in DOMAIN p : Nested!FieldOf(p[k]) = j
      <3>1. \E k \in DOMAIN p : Nested!FieldOf(p[k]) = j
        BY <1>2, <1>3, <2>2
      <3>2. c \in DOMAIN in /\ FieldIn(2, in[c]) = j
        BY <1>2, <1>3, <3>1
      <3>3. Nested!Meaning(p)[j] = Nested!Denotes(j, p[c].token)
        BY <3>1 DEF Nested!Meaning, Nested!Fields
      <3> HIDE DEF c
      <3>4. fr.fields[j] = ValueIn(2, j, in[c])
        BY <1>1, <2>1, <3>2 DEF Read
      <3> QED BY <1>2, <3>2, <3>3, <3>4 DEF ValueIn
    <2>3. CASE ~ \E k \in DOMAIN in : FieldIn(2, in[k]) = j
      <3>1. ~ \E k \in DOMAIN p : Nested!FieldOf(p[k]) = j
        BY <1>2, <1>3, <2>3
      <3>2. Nested!Meaning(p)[j] = "absent"
        BY <3>1 DEF Nested!Meaning, Nested!Fields
      <3>3. j \notin fr.seen
        BY <1>1, <2>3 DEF Read
      <3>4. fr.fields[j] = Absent
        BY <3>3 DEF Read, SchemaOf
      <3> QED BY <3>2, <3>4 DEF Absent, Is
    <2> QED BY <2>2, <2>3
  <1> QED BY <1>4, <1>5 DEF p

\* The outer object goes on with the nested message stored.
LEMMA OuterReads ==
  ASSUME Types, NEW a, NEW b, Read(discard, 1, doc, a), Inside(discard, doc, a, b),
         b.pos = Len(doc[a.pos + 1].inner)
  PROVE  Read(discard, 1, doc,
              [a EXCEPT !.pos = @ + 1, !.field = a.field + 1, !.seen = @ \cup {a.field},
                        !.fields[a.field] = Object(b.fields)])
  <1> DEFINE m == doc[a.pos + 1]
             i == a.field
             fields == [a.fields EXCEPT ![a.field] = Object(b.fields)]
             new == [a EXCEPT !.pos = @ + 1, !.field = a.field + 1, !.seen = @ \cup {a.field},
                              !.fields[a.field] = Object(b.fields)]
  <1>1. /\ a \in Frames(1) /\ b \in Frames(2) /\ a.pos \in Nat
        /\ a.pos < Len(doc) /\ IsObject(m) /\ FieldIn(1, m) = i /\ i \notin a.seen
        /\ Read(discard, 2, m.inner, b)
    BY DEF Inside, Read, Frames
  <1>2. /\ DOMAIN doc = 1 .. Len(doc) /\ Len(doc) \in Nat /\ a.pos + 1 \in 1 .. Len(doc)
        /\ m \in Members(Inputs2) /\ m.inner \in Inputs2
    <2>1. doc \in Seq(Members(Inputs2))
      BY DEF Types
    <2>2. DOMAIN doc = 1 .. Len(doc) /\ Len(doc) \in Nat
      BY <2>1, LenProperties
    <2>3. a.pos + 1 \in 1 .. Len(doc)
      BY <1>1, <2>2
    <2>4. m \in Members(Inputs2)
      BY <2>1, <2>3, ElementOfSeq
    <2> QED BY <2>2, <2>3, <2>4 DEF Members
  <1>3. /\ i \in DOMAIN Schema /\ Schema[i].kind = "message" /\ m.token = "value"
        /\ Outer!FieldOf(m) = i
    BY <1>1 DEF IsObject, MessageFields, FieldIn
  <1>4. /\ DOMAIN Schema = 1 .. Len(Schema) /\ Len(Schema) \in Nat /\ i \in Nat /\ i # 0
        /\ Schema[i].oneof = 0
    BY <1>3, SchemaFacts DEF Levels, SchemaOf, Outer!MemberKinds
  <1>5. OccupiedIn(1, m) = 0
    <2>1. OccupiedIn(1, m) \in {0, Schema[i].oneof}
      BY <1>1, <1>4, OccupiedFacts DEF Levels, SchemaOf
    <2> QED BY <1>4, <2>1
  <1>6. 0 \notin a.oneofs
    BY DEF Read
  <1>7. GoodIn(discard, 1, m)
    <2>1. DOMAIN m.inner = 1 .. Len(m.inner)
      BY <1>2, LenProperties DEF Inputs2
    <2>2. LegalIn(discard, 2, m.inner)
      BY <1>1, <2>1, ReadToEnd
    <2>3. Nested!Legal(Plain(m.inner), discard)
      BY <2>2, NestedLegal
    <2> QED BY <1>1, <1>3, <1>4, <2>3 DEF GoodIn
  <1>8. b.fields \in [DOMAIN Inner -> Flat]
    BY <1>1 DEF Frames, SchemaOf, Contents
  <1>9. ~ Stray(1, m) => Object(b.fields) = ValueIn(1, i, m)
    <2> SUFFICES ASSUME ~ Stray(1, m) PROVE Object(b.fields) = ValueIn(1, i, m)
      OBVIOUS
    <2>1. \A k \in DOMAIN m.inner : ~ Stray(2, m.inner[k])
      BY <1>1 DEF Stray
    <2>2. b.fields = [j \in DOMAIN Inner |-> Is(Nested!Meaning(Plain(m.inner))[j])]
      BY <1>1, <1>2, <2>1, NestedMeaning
    <2> QED BY <1>1, <2>2 DEF ValueIn
  <1>10. /\ a.fields \in [DOMAIN SchemaOf(1) -> Contents(1)]
         /\ a.pos + 1 \in Nat /\ i + 1 \in Nat /\ a.seen \cup {i} \in SUBSET Nat
         /\ a.oneofs \in SUBSET Nat /\ i \in DOMAIN SchemaOf(1)
    BY <1>1, <1>3, <1>4 DEF Frames, SchemaOf
  <1>11. Object(b.fields) \in Contents(1)
    BY <1>8 DEF Contents
  <1>12. /\ fields \in [DOMAIN SchemaOf(1) -> Contents(1)]
         /\ fields[i] = Object(b.fields)
         /\ \A j \in DOMAIN SchemaOf(1) : j # i => fields[j] = a.fields[j]
    BY <1>10, <1>11
  <1>13. /\ new.pos = a.pos + 1 /\ new.pass = a.pass /\ new.field = i + 1
         /\ new.seen = a.seen \cup {i} /\ new.oneofs = a.oneofs /\ new.fields = fields
    BY <1>1 DEF Frames
  <1>14. new = [a EXCEPT !.pos = a.pos + 1, !.field = i + 1, !.seen = a.seen \cup {i},
                         !.fields = fields, !.oneofs = a.oneofs]
    BY <1>1 DEF Frames
  <1> HIDE DEF fields
  <1>15. new \in Frames(1)
    <2> HIDE DEF new, i
    <2> QED BY <1>1, <1>10, <1>12, <1>14, FrameUpdated
  <1>16. new.pass = "fast" => /\ new.field \in 1 .. Len(SchemaOf(1)) + 1
                              /\ \A j \in new.seen : j < new.field
    <2>1. a.pass = "fast" => \A j \in a.seen : j < i /\ j \in Nat
      BY <1>1 DEF Read, Frames
    <2>2. new.field \in 1 .. Len(SchemaOf(1)) + 1
      BY <1>3, <1>4, <1>13 DEF SchemaOf
    <2>3. \A j \in new.seen : j \in a.seen \/ j = i
      BY <1>13
    <2> HIDE DEF new, i
    <2> QED BY <1>4, <1>13, <2>1, <2>2, <2>3
  <1>17. /\ new.seen = a.seen \cup ({i} \ {0})
         /\ new.oneofs = a.oneofs \cup ({OccupiedIn(1, m)} \ {0})
         /\ OccupiedIn(1, m) \notin a.oneofs
    BY <1>4, <1>5, <1>6, <1>13
  <1>18. /\ i = FieldIn(1, m) /\ m = doc[a.pos + 1] /\ 1 \in Levels
         /\ \A j \in DOMAIN SchemaOf(1) : j # i => new.fields[j] = a.fields[j]
         /\ i # 0 /\ ~ Stray(1, m) => new.fields[i] = ValueIn(1, i, m)
    BY <1>1, <1>9, <1>12, <1>13 DEF Levels
  <1> HIDE DEF new, i, m
  <1>19. Read(discard, 1, doc, new)
    BY <1>1, <1>2, <1>7, <1>13, <1>15, <1>16, <1>17, <1>18, Advances
  <1> QED BY <1>19 DEF new

LEMMA LeaveReads ==
  ASSUME Types, Standing(discard, doc, stack), Known, AtEnd, Leave
  PROVE  \/ /\ status' = "done" /\ stack' = stack
            /\ stack = <<stack[1]>> /\ closed /\ stack[1].pos = Len(doc)
         \/ GoesOn
  <1>1. Top.pos = Len(Input)
    BY InputFacts
  <1>2. CASE \E a : stack = <<a>> /\ Top = a /\ Top.level = 1 /\ Input = doc
    <2>1. PICK a : stack = <<a>> /\ Top = a /\ Top.level = 1 /\ Input = doc
      BY <1>2
    <2>2. stack[1] = a /\ stack = <<stack[1]>>
      BY <2>1
    <2>3. closed
      BY <2>1 DEF Known
    <2>4. status' = "done" /\ stack' = stack
      BY <2>1 DEF Leave
    <2> QED BY <1>1, <2>1, <2>2, <2>3, <2>4
  <1>3. CASE \E a, b : /\ stack = <<a, b>> /\ Top = b /\ Top.level = 2
                       /\ Input = doc[a.pos + 1].inner
                       /\ Read(discard, 1, doc, a) /\ Inside(discard, doc, a, b)
    <2>1. PICK a, b : /\ stack = <<a, b>> /\ Top = b /\ Top.level = 2
                      /\ Input = doc[a.pos + 1].inner
                      /\ Read(discard, 1, doc, a) /\ Inside(discard, doc, a, b)
      BY <1>3
    <2> DEFINE new == [a EXCEPT !.pos = @ + 1, !.field = a.field + 1,
                                !.seen = @ \cup {a.field},
                                !.fields[a.field] = Object(b.fields)]
    <2>2. stack[1] = a
      BY <2>1
    <2>3. stack' = <<new>> /\ status' = status
      BY <2>1, <2>2 DEF Leave, Continue
    <2>4. Read(discard, 1, doc, new)
      BY <1>1, <2>1, OuterReads
    <2> HIDE DEF new
    <2>5. <<new>>[1] = new
      OBVIOUS
    <2>6. Standing(discard, doc, <<new>>)
      BY <2>4, <2>5 DEF Standing
    <2> QED BY <2>3, <2>6 DEF GoesOn
  <1> QED BY <1>2, <1>3, TopFacts
-----------------------------------------------------------------------------
(* Steps *)

\* A step that fails with a mistake, or reads on, keeps the invariant.
LEMMA OutcomeKeeps ==
  ASSUME IInv, status = "reading", Same, Refused \/ GoesOn
  PROVE  IInv'
  <1>1. /\ source' = source /\ discard' = discard /\ doc' = doc /\ closed' = closed
    BY DEF Same
  <1>2. CASE Refused
    <2>1. Types'
      BY <1>1, <1>2 DEF IInv, Types, Refused
    <2>2. Standing(discard', doc', stack')
      BY <1>1, <1>2 DEF IInv, Refused
    <2>3. Verdict'
      BY <1>1, <1>2 DEF Verdict, Refused
    <2> QED BY <2>1, <2>2, <2>3 DEF IInv
  <1>3. CASE GoesOn
    <2>1. Types'
      BY <1>1, <1>3 DEF IInv, Types, GoesOn
    <2>2. Standing(discard', doc', stack')
      BY <1>1, <1>3 DEF GoesOn
    <2>3. Verdict'
      BY <1>3 DEF Verdict, GoesOn
    <2> QED BY <2>1, <2>2, <2>3 DEF IInv
  <1> QED BY <1>2, <1>3

LEMMA LeaveKeeps ==
  ASSUME IInv, status = "reading", Same, Known, AtEnd, Leave
  PROVE  IInv'
  <1>1. CASE GoesOn
    BY <1>1, OutcomeKeeps
  <1>2. CASE /\ status' = "done" /\ stack' = stack
             /\ stack = <<stack[1]>> /\ closed /\ stack[1].pos = Len(doc)
    <2>1. /\ source' = source /\ discard' = discard /\ doc' = doc /\ closed' = closed
      BY DEF Same
    <2>2. Types'
      BY <1>2, <2>1 DEF IInv, Types
    <2>3. Standing(discard', doc', stack')
      BY <1>2, <2>1 DEF IInv
    <2>4. Verdict'
      BY <1>2, <2>1 DEF Verdict
    <2> QED BY <2>2, <2>3, <2>4 DEF IInv
  <1> QED BY <1>1, <1>2, LeaveReads DEF IInv

\* The document grows when all of it has been read, and by a sensible member.
LEMMA RevealKeeps ==
  ASSUME IInv, Reveal
  PROVE  IInv'
  <1>1. /\ source' = source /\ discard' = discard /\ stack' = stack /\ status' = status
        /\ status \in {"peek", "reading"} /\ ~ Known
    BY DEF Reveal
  <1>2. CASE closed' = TRUE /\ doc' = doc
    <2>1. Types'
      BY <1>1, <1>2 DEF IInv, Types
    <2>2. Standing(discard', doc', stack')
      BY <1>1, <1>2 DEF IInv
    <2>3. Verdict'
      BY <1>1, <1>2 DEF IInv, Verdict
    <2> QED BY <2>1, <2>2, <2>3 DEF IInv
  <1>3. CASE /\ \E key \in Keys, token \in Inputs, inner \in InnerDocs :
                  /\ Sensible(Outer!FieldOf([key |-> key]), token, inner)
                  /\ doc' = Append(doc, Member(key, token, inner))
             /\ closed' = closed
    <2>1. PICK key \in Keys, token \in Inputs, inner \in InnerDocs :
                  /\ Sensible(Outer!FieldOf([key |-> key]), token, inner)
                  /\ doc' = Append(doc, Member(key, token, inner))
      BY <1>3
    <2> DEFINE m == Member(key, token, inner)
    <2>2. m \in Members(Inputs2) /\ SensibleMember(m)
      <3>1. /\ key \in STRING /\ token \in Outer!Tokens /\ inner \in Inputs2
        BY InputAssumption DEF Inputs2
      <3>2. Outer!FieldOf(m) = Outer!FieldOf([key |-> key])
        BY DEF Member, Outer!FieldOf
      <3> QED BY <2>1, <3>1, <3>2 DEF Members, Member, SensibleMember
    <2> HIDE DEF m
    <2>3. /\ doc \in Seq(Members(Inputs2)) /\ Len(doc) \in Nat /\ DOMAIN doc = 1 .. Len(doc)
          /\ \A k \in DOMAIN doc : SensibleMember(doc[k])
      BY LenProperties DEF IInv, Types
    <2>4. /\ doc' \in Seq(Members(Inputs2)) /\ Len(doc') = Len(doc) + 1
          /\ \A k \in 1 .. Len(doc) : doc'[k] = doc[k]
          /\ doc'[Len(doc) + 1] = m
      <3>1. doc' = Append(doc, m)
        BY <2>1 DEF m
      <3> QED BY <2>2, <2>3, <3>1, AppendProperties
    <2>5. DOMAIN doc' = 1 .. Len(doc) + 1
      BY <2>4, LenProperties
    <2>6. \A k \in DOMAIN doc' : SensibleMember(doc'[k])
      BY <2>2, <2>3, <2>4, <2>5
    <2>7. Types'
      <3>1. source' \in Sources /\ discard' \in BOOLEAN /\ closed' \in BOOLEAN
            /\ status' \in {"peek", "reading", "done", "failed"}
        BY <1>1, <1>3 DEF IInv, Types
      <3> QED BY <2>4, <2>6, <3>1 DEF Types
    <2>8. Standing(discard', doc', stack')
      <3>1. PICK a : stack = <<a>> /\ Top.level = 1 /\ Read(discard, 1, doc, a)
        BY <1>1, TopFacts DEF IInv, Known
      <3>2. \A k \in 1 .. a.pos : doc'[k] = doc[k]
        BY <2>3, <2>4, <3>1 DEF Read, Frames
      <3>3. a.pos <= Len(doc')
        BY <2>3, <2>4, <3>1 DEF Read, Frames
      <3>4. Read(discard, 1, doc', a)
        BY <3>1, <3>2, <3>3 DEF Read
      <3>5. stack' = <<a>> /\ stack'[1] = a
        BY <1>1, <3>1
      <3> QED BY <1>1, <3>4, <3>5 DEF Standing
    <2>9. Verdict'
      BY <1>1 DEF IInv, Verdict
    <2> QED BY <2>7, <2>8, <2>9 DEF IInv
  <1> QED BY <1>2, <1>3 DEF Reveal

\* A fresh frame takes the place of the one that reads.
LEMMA FreshReads ==
  ASSUME Types, Standing(discard, doc, stack), NEW pass \in {"fast", "slow"}
  PROVE  Standing(discard, doc, WithTop(Frame(Top.level, pass)))
  <1>1. Top.level \in Levels /\ Len(Input) \in Nat
    BY InputFacts
  <1>2. Read(discard, Top.level, Input, Frame(Top.level, pass))
    BY <1>1, FreshRead
  <1> QED BY <1>2, ReadsOn

LEMMA PeekKeeps ==
  ASSUME IInv, Peek
  PROVE  IInv'
  <1>1. /\ source' = source /\ discard' = discard /\ doc' = doc /\ closed' = closed
        /\ status' = "reading"
    BY DEF Peek, Same
  <1>2. PICK pass \in {"fast", "slow"} : stack' = <<Frame(1, pass)>>
    BY DEF Peek
  <1>3. Len(doc) \in Nat
    BY LenProperties DEF IInv, Types
  <1>4. Read(discard, 1, doc, Frame(1, pass))
    BY <1>3, FreshRead DEF Levels
  <1>5. <<Frame(1, pass)>>[1] = Frame(1, pass)
    OBVIOUS
  <1>6. Standing(discard', doc', stack')
    BY <1>1, <1>2, <1>4, <1>5 DEF Standing
  <1>7. Types'
    BY <1>1 DEF IInv, Types
  <1>8. Verdict'
    BY <1>1 DEF Verdict
  <1> QED BY <1>6, <1>7, <1>8 DEF IInv

\* In the fast pass the field in turn has not been read.
LEMMA FastFits ==
  ASSUME Types, Standing(discard, doc, stack), Top.pass = "fast", Untried, Matches
  PROVE  Fits(Top.field)
  <1>1. Top.level \in Levels /\ Read(discard, Top.level, Input, Top)
    BY InputFacts
  <1>2. Top.field \in DOMAIN SchemaOf(Top.level)
    BY <1>1, SchemaFacts DEF Read, Untried
  <1>3. FieldIn(Top.level, Here) = Top.field
    BY <1>1, <1>2, FieldFacts DEF Matches, Field
  <1>4. Top.field \notin Top.seen
    <2>1. \A j \in Top.seen : j < Top.field /\ j \in Nat
      BY <1>1 DEF Read, Frames
    <2> QED BY <2>1
  <1> QED BY <1>2, <1>3, <1>4 DEF Fits, Matches

LEMMA FastMissReads ==
  ASSUME Types, Standing(discard, doc, stack), Top.pass = "fast", Untried
  PROVE  Standing(discard, doc, WithTop([Top EXCEPT !.field = @ + 1]))
  <1> DEFINE new == [Top EXCEPT !.field = @ + 1]
  <1>1. Top.level \in Levels /\ Read(discard, Top.level, Input, Top) /\ Top \in Frames(Top.level)
    BY InputFacts
  <1>2. /\ new \in Frames(Top.level) /\ new.pos = Top.pos /\ new.field = Top.field + 1
        /\ new.fields = Top.fields /\ new.seen = Top.seen /\ new.oneofs = Top.oneofs
    BY <1>1 DEF Frames
  <1>3. /\ new.field \in 1 .. Len(SchemaOf(Top.level)) + 1
        /\ \A j \in new.seen : j < new.field
    <2>1. Len(SchemaOf(Top.level)) \in Nat
      BY <1>1, SchemaFacts
    <2>2. /\ Top.field \in 1 .. Len(SchemaOf(Top.level)) + 1
          /\ \A j \in Top.seen : j < Top.field /\ j \in Nat
      BY <1>1 DEF Read, Frames
    <2> HIDE DEF new
    <2> QED BY <1>2, <2>1, <2>2 DEF Untried
  <1> HIDE DEF new
  <1>4. Read(discard, Top.level, Input, new)
    BY <1>1, <1>2, <1>3 DEF Read
  <1> QED BY <1>4, ReadsOn DEF new

LEMMA SlowUnknownReads ==
  ASSUME Types, Standing(discard, doc, stack), SlowUnknown
  PROVE  Refused \/ GoesOn
  <1>1. /\ Top.pass = "slow" /\ ~ AtEnd /\ Case(Here.key) = {}
    BY DEF SlowUnknown, Reading
  <1>2. /\ Top.level \in Levels /\ Read(discard, Top.level, Input, Top)
        /\ Top \in Frames(Top.level) /\ Len(Input) \in Nat
    BY InputFacts
  <1>3. FieldIn(Top.level, Here) = 0
    BY <1>1, <1>2, FieldFacts DEF Case, Field
  <1>4. CASE discard /\ Here.token # "malformed"
    <2> DEFINE new == [Top EXCEPT !.pos = @ + 1]
    <2>1. Continue(WithTop(new))
      BY <1>4 DEF SlowUnknown
    <2>2. /\ new \in Frames(Top.level) /\ new.pos = Top.pos + 1 /\ new.pass = "slow"
          /\ new.fields = Top.fields /\ new.seen = Top.seen /\ new.oneofs = Top.oneofs
      BY <1>1, <1>2 DEF Frames
    <2>3. OccupiedIn(Top.level, Here) = 0
      BY <1>2, <1>3, OccupiedFacts
    <2>4. 0 \notin Top.seen /\ 0 \notin Top.oneofs
      BY <1>2 DEF Read
    <2>5. Top.level = 1 => ~ IsObject(Here)
      <3>1. 0 \notin DOMAIN Schema
        BY SchemaFacts DEF Levels, SchemaOf
      <3> QED BY <1>3, <3>1 DEF IsObject, FieldIn, MessageFields
    <2>6. GoodIn(discard, Top.level, Here)
      BY <1>4, <2>5 DEF GoodIn
    <2>7. Top.pos < Len(Input) /\ Here = Input[Top.pos + 1]
      BY <1>1, HereFacts
    <2> HIDE DEF new
    <2>8. Read(discard, Top.level, Input, new)
      <3> DEFINE m == Here
                 level == Top.level
                 in == Input
                 fr == Top
                 i == 0
      <3>1. /\ level \in Levels /\ Read(discard, level, in, fr) /\ Len(in) \in Nat
            /\ fr.pos < Len(in) /\ m = in[fr.pos + 1] /\ i = FieldIn(level, m)
            /\ GoodIn(discard, level, m) /\ i \notin fr.seen
            /\ OccupiedIn(level, m) \notin fr.oneofs
            /\ new \in Frames(level) /\ new.pos = fr.pos + 1
            /\ new.seen = fr.seen \cup ({i} \ {0})
            /\ new.oneofs = fr.oneofs \cup ({OccupiedIn(level, m)} \ {0})
            /\ \A j \in DOMAIN SchemaOf(level) : j # i => new.fields[j] = fr.fields[j]
            /\ i # 0 /\ ~ Stray(level, m) => new.fields[i] = ValueIn(level, i, m)
            /\ new.pass # "fast"
        BY <1>2, <1>3, <2>2, <2>3, <2>4, <2>6, <2>7
      <3> HIDE DEF m, level, in, fr, i
      <3>2. Read(discard, level, in, new)
        BY <3>1, Advances
      <3> QED BY <3>2 DEF level, in
    <2>9. Standing(discard, doc, WithTop(new))
      BY <2>8, ReadsOn
    <2> QED BY <2>1, <2>9 DEF Continue, GoesOn
  <1>5. CASE ~ (discard /\ Here.token # "malformed")
    <2>1. Fail
      BY <1>5 DEF SlowUnknown
    <2>2. ~ GoodIn(discard, Top.level, Here)
      BY <1>3, <1>5 DEF GoodIn
    <2>3. ~ LegalIn(discard, 1, doc)
      BY <1>1, <2>2, HereIsMistake
    <2> QED BY <2>1, <2>3 DEF Fail, Refused
  <1> QED BY <1>4, <1>5

LEMMA SlowFieldReads ==
  ASSUME Types, Standing(discard, doc, stack), SlowField
  PROVE  Refused \/ GoesOn
  <1>1. /\ Top.pass = "slow" /\ ~ AtEnd
    BY DEF SlowField, Reading
  <1>2. PICK i \in Case(Here.key) : IF i \in Top.seen THEN Fail ELSE Store(i)
    BY DEF SlowField
  <1>3. Top.level \in Levels
    BY InputFacts
  <1>4. i \in DOMAIN SchemaOf(Top.level) /\ FieldIn(Top.level, Here) = i
    BY <1>2, <1>3, FieldFacts DEF Case, Field
  <1>5. CASE i \in Top.seen
    <2>1. ~ LegalIn(discard, 1, doc)
      BY <1>1, <1>4, <1>5, HereIsMistake
    <2> QED BY <1>2, <1>5, <2>1 DEF Fail, Refused
  <1>6. CASE i \notin Top.seen
    <2>1. Fits(i)
      BY <1>1, <1>4, <1>6 DEF Fits
    <2> QED BY <1>2, <1>6, <2>1, StoreReads
  <1> QED BY <1>5, <1>6

LEMMA NextIInv ==
  IInv /\ [Next]_vars => IInv'
  <1> SUFFICES ASSUME IInv, [Next]_vars PROVE IInv'
    OBVIOUS
  <1>0. Types /\ Standing(discard, doc, stack)
    BY DEF IInv
  <1>1. CASE Reveal
    BY <1>1, RevealKeeps
  <1>2. CASE Peek
    BY <1>2, PeekKeeps
  <1>3. CASE FastField
    <2>1. Top.pass = "fast" /\ Untried /\ Matches /\ Store(Top.field) /\ Same /\ status = "reading"
      BY <1>3 DEF FastField, Reading
    <2>2. Refused \/ GoesOn
      BY <1>0, <2>1, FastFits, StoreReads
    <2> QED BY <2>1, <2>2, OutcomeKeeps
  <1>4. CASE FastEnd
    BY <1>4, LeaveKeeps DEF FastEnd, Reading
  <1>5. CASE FastMiss
    <2>1. /\ Top.pass = "fast" /\ Untried /\ status = "reading" /\ Same
          /\ Continue(WithTop([Top EXCEPT !.field = @ + 1]))
      BY <1>5 DEF FastMiss, Reading
    <2>2. GoesOn
      BY <1>0, <2>1, FastMissReads DEF Continue, GoesOn
    <2> QED BY <2>1, <2>2, OutcomeKeeps
  <1>6. CASE FastDone
    BY <1>6, LeaveKeeps DEF FastDone, Reading
  <1>7. CASE Rewind
    <2>1. /\ status = "reading" /\ Same /\ Continue(WithTop(Frame(Top.level, "slow")))
      BY <1>7 DEF Rewind, Reading
    <2>2. GoesOn
      BY <1>0, <2>1, FreshReads DEF Continue, GoesOn
    <2> QED BY <2>1, <2>2, OutcomeKeeps
  <1>8. CASE SlowField
    <2>1. status = "reading" /\ Same
      BY <1>8 DEF SlowField, Reading
    <2> QED BY <1>0, <1>8, <2>1, SlowFieldReads, OutcomeKeeps
  <1>9. CASE SlowUnknown
    <2>1. status = "reading" /\ Same
      BY <1>9 DEF SlowUnknown, Reading
    <2> QED BY <1>0, <1>9, <2>1, SlowUnknownReads, OutcomeKeeps
  <1>10. CASE SlowEnd
    BY <1>10, LeaveKeeps DEF SlowEnd, Reading
  <1>11. CASE UNCHANGED vars
    <2>1. /\ source' = source /\ discard' = discard /\ doc' = doc /\ closed' = closed
          /\ stack' = stack /\ status' = status
      BY <1>11 DEF vars
    <2>2. Types' /\ Standing(discard', doc', stack') /\ Verdict'
      BY <2>1 DEF IInv, Types, Verdict
    <2> QED BY <2>2 DEF IInv
  <1> QED BY <1>1, <1>2, <1>3, <1>4, <1>5, <1>6, <1>7, <1>8, <1>9, <1>10, <1>11 DEF Next
-----------------------------------------------------------------------------
(* What the encoder writes *)

\* Finitely many numbers have an ascending order: a number goes to how many of
\* them are not above it.
LEMMA AscendingExists ==
  ASSUME NEW S, S \in SUBSET Nat, IsFiniteSet(S)
  PROVE  \E o \in [1 .. Cardinality(S) -> S] :
           \A k, l \in 1 .. Cardinality(S) : k < l => o[k] < o[l]
  <1> DEFINE n == Cardinality(S)
             below(i) == {j \in S : j <= i}
             place == [i \in S |-> Cardinality(below(i))]
  <1>1. n \in Nat /\ IsFiniteSet(1 .. n) /\ Cardinality(1 .. n) = n
    <2>1. n \in Nat
      BY FS_CardinalityType
    <2> HIDE DEF n
    <2> QED BY <2>1, FS_Interval
  <1>2. ASSUME NEW i \in S
        PROVE  IsFiniteSet(below(i)) /\ Cardinality(below(i)) \in 1 .. n
    <2>1. below(i) \in SUBSET S /\ i \in below(i)
      OBVIOUS
    <2> HIDE DEF below
    <2>2. IsFiniteSet(below(i)) /\ Cardinality(below(i)) <= n
      BY <2>1, FS_Subset
    <2>3. Cardinality(below(i)) \in Nat /\ Cardinality(below(i)) # 0
      BY <2>1, <2>2, FS_CardinalityType, FS_EmptySet
    <2> QED BY <1>1, <2>2, <2>3
  <1>3. ASSUME NEW i \in S, NEW j \in S, i < j
        PROVE  place[i] < place[j]
    <2>0. i \in Nat /\ j \in Nat /\ \A x \in S : x \in Nat
      OBVIOUS
    <2>1. below(i) \in SUBSET below(j)
      <3>1. \A x \in S : x <= i => x <= j
        BY <1>3, <2>0
      <3> QED BY <3>1
    <2>2. j \in below(j) /\ j \notin below(i)
      BY <1>3, <2>0
    <2>3. Cardinality(below(i)) \in 1 .. n /\ Cardinality(below(j)) \in 1 .. n
      BY <1>2
    <2>4. IsFiniteSet(below(j))
      BY <1>2
    <2>5. place[i] = Cardinality(below(i)) /\ place[j] = Cardinality(below(j))
      OBVIOUS
    <2> HIDE DEF below, place, n
    <2>6. /\ Cardinality(below(i)) <= Cardinality(below(j))
          /\ Cardinality(below(j)) = Cardinality(below(i)) => below(j) = below(i)
      BY <2>1, <2>4, FS_Subset
    <2> QED BY <1>1, <2>2, <2>3, <2>5, <2>6
  <1>4. place \in [S -> 1 .. n]
    BY <1>2
  <1> HIDE DEF below, place, n
  <1>5. ASSUME NEW i \in S, NEW j \in S, place[i] = place[j]
        PROVE  i = j
    <2>1. place[i] \in Nat /\ place[j] \in Nat
      BY <1>1, <1>4
    <2>2. ~ (i < j) /\ ~ (j < i)
      BY <1>3, <1>5, <2>1
    <2> QED BY <2>2
  <1>6. \A k \in 1 .. n : \E i \in S : place[i] = k
    <2>1. place \in Injection(S, 1 .. n)
      BY <1>4, <1>5 DEF Injection, IsInjective
    <2>2. Cardinality(S) = Cardinality(1 .. n)
      BY <1>1 DEF n
    <2>3. place \in Surjection(S, 1 .. n)
      BY <1>1, <2>1, <2>2, FS_Injection
    <2> QED BY <2>3 DEF Surjection
  <1> DEFINE o == [k \in 1 .. n |-> CHOOSE i \in S : place[i] = k]
  <1>7. \A k \in 1 .. n : o[k] \in S /\ place[o[k]] = k
    BY <1>6
  <1>8. o \in [1 .. n -> S]
    BY <1>7
  <1> HIDE DEF o
  <1>9. ASSUME NEW k \in 1 .. n, NEW l \in 1 .. n, k < l
        PROVE  o[k] < o[l]
    <2>1. o[k] \in S /\ o[l] \in S /\ place[o[k]] = k /\ place[o[l]] = l
      BY <1>7
    <2>2. /\ o[k] \in Nat /\ o[l] \in Nat
          /\ k \in Nat /\ l \in Nat
      <3>1. \A x \in S : x \in Nat
        OBVIOUS
      <3>2. k \in Nat /\ l \in Nat
        BY <1>1
      <3> QED BY <2>1, <3>1, <3>2
    <2>3. ~ (o[l] < o[k])
      <3>1. SUFFICES ASSUME o[l] < o[k] PROVE FALSE
        OBVIOUS
      <3>2. l < k
        BY <1>3, <2>1, <3>1
      <3> QED BY <1>9, <2>2, <3>2
    <2>4. o[k] # o[l]
      BY <1>9, <2>1, <2>2
    <2> QED BY <2>2, <2>3, <2>4
  <1> QED BY <1>8, <1>9 DEF n

\* The fields that are shown, each once and in the order of the schema.
ShownOf(schema, fields) == {i \in DOMAIN schema : ShownIn(schema[i], fields[i])}
LEMMA OrderFacts ==
  ASSUME NEW schema, Len(schema) \in Nat, DOMAIN schema = 1 .. Len(schema), NEW fields
  PROVE  LET o == Order(schema, fields)
             n == Cardinality(ShownOf(schema, fields))
         IN  /\ n \in Nat /\ DOMAIN o = 1 .. n
             /\ o \in [1 .. n -> ShownOf(schema, fields)]
             /\ \A k, l \in 1 .. n : k < l => o[k] < o[l]
             /\ \A k, l \in 1 .. n : k # l => o[k] # o[l]
             /\ \A i \in ShownOf(schema, fields) : \E k \in 1 .. n : o[k] = i
  <1> DEFINE o == Order(schema, fields)
             S == ShownOf(schema, fields)
             n == Cardinality(S)
  <1>1. S \in SUBSET (1 .. Len(schema)) /\ S \in SUBSET Nat
    BY DEF ShownOf
  <1>2. o = CHOOSE order \in [1 .. n -> S] : \A k, l \in 1 .. n : k < l => order[k] < order[l]
    BY DEF Order, ShownOf
  <1> HIDE DEF S, o
  <1>3. IsFiniteSet(S)
    <2>1. IsFiniteSet(1 .. Len(schema))
      BY FS_Interval
    <2> QED BY <1>1, <2>1, FS_Subset
  <1>4. n \in Nat /\ IsFiniteSet(1 .. n) /\ Cardinality(1 .. n) = n
    <2>1. n \in Nat
      BY <1>3, FS_CardinalityType
    <2> HIDE DEF n
    <2>2. IsFiniteSet(1 .. n) /\ Cardinality(1 .. n) = IF 1 > n THEN 0 ELSE n - 1 + 1
      BY <2>1, FS_Interval
    <2> QED BY <2>1, <2>2
  <1>5. \E order \in [1 .. n -> S] : \A k, l \in 1 .. n : k < l => order[k] < order[l]
    BY <1>1, <1>3, AscendingExists
  <1> HIDE DEF n
  <1>6. o \in [1 .. n -> S] /\ \A k, l \in 1 .. n : k < l => o[k] < o[l]
    BY <1>2, <1>5
  <1>7. \A k, l \in 1 .. n : k # l => o[k] # o[l]
    <2> SUFFICES ASSUME NEW k \in 1 .. n, NEW l \in 1 .. n, k # l PROVE o[k] # o[l]
      OBVIOUS
    <2>1. k < l \/ l < k
      BY <1>4
    <2>2. o[k] \in Nat /\ o[l] \in Nat
      BY <1>1, <1>6
    <2> QED BY <1>6, <2>1, <2>2
  <1>8. \A i \in S : \E k \in 1 .. n : o[k] = i
    <2>1. o \in Injection(1 .. n, S)
      BY <1>6, <1>7 DEF Injection, IsInjective
    <2>2. Cardinality(1 .. n) = Cardinality(S)
      BY <1>4 DEF n
    <2>3. o \in Surjection(1 .. n, S)
      BY <1>3, <1>4, <2>1, <2>2, FS_Injection
    <2> QED BY <2>3 DEF Surjection
  <1> QED BY <1>4, <1>6, <1>7, <1>8 DEF o, S, n

\* Each member that is written is one of the fields, with its value.
LEMMA WrittenFacts ==
  ASSUME NEW level \in Levels, NEW fields, NEW content
  PROVE  LET schema == SchemaOf(level)
             w == Written(schema, fields, content)
             o == Order(schema, fields)
         IN  /\ DOMAIN w = 1 .. Len(w) /\ Len(w) \in Nat /\ DOMAIN o = DOMAIN w
             /\ \A k \in DOMAIN w :
                  /\ o[k] \in DOMAIN schema /\ fields[o[k]] # Absent
                  /\ ShownIn(schema[o[k]], fields[o[k]])
                  /\ FieldIn(level, w[k]) = o[k]
                  /\ w[k] = Member(schema[o[k]].json, Token(schema[o[k]], fields[o[k]]),
                                   content[o[k]])
             /\ \A k, l \in DOMAIN w : k < l => o[k] < o[l]
             /\ \A k, l \in DOMAIN w : k # l => o[k] # o[l]
             /\ \A i \in DOMAIN schema :
                  ShownIn(schema[i], fields[i]) => \E k \in DOMAIN w : o[k] = i
  <1> DEFINE schema == SchemaOf(level)
             w == Written(schema, fields, content)
             o == Order(schema, fields)
             S == ShownOf(schema, fields)
             n == Cardinality(S)
  <1>1. Len(schema) \in Nat /\ DOMAIN schema = 1 .. Len(schema)
    BY SchemaFacts
  <1> HIDE DEF schema
  <1>2. /\ n \in Nat /\ DOMAIN o = 1 .. n
        /\ o \in [1 .. n -> S]
        /\ \A k, l \in 1 .. n : k < l => o[k] < o[l]
        /\ \A k, l \in 1 .. n : k # l => o[k] # o[l]
        /\ \A i \in S : \E k \in 1 .. n : o[k] = i
    BY <1>1, OrderFacts
  <1>3. /\ S = {i \in DOMAIN schema : ShownIn(schema[i], fields[i])}
        /\ \A i \in S : fields[i] # Absent
    BY DEF ShownOf, ShownIn
  <1>4. w = [k \in DOMAIN o |-> Member(schema[o[k]].json, Token(schema[o[k]], fields[o[k]]),
                                       content[o[k]])]
    BY DEF Written
  <1> HIDE DEF w, o, S, n
  <1>5. DOMAIN w = 1 .. n
    BY <1>2, <1>4
  <1>6. Len(w) = n
    BY <1>2, <1>5
  <1>7. \A k \in 1 .. n :
          /\ o[k] \in DOMAIN schema /\ fields[o[k]] # Absent
          /\ ShownIn(schema[o[k]], fields[o[k]])
          /\ w[k] = Member(schema[o[k]].json, Token(schema[o[k]], fields[o[k]]), content[o[k]])
    BY <1>2, <1>3, <1>4
  <1>8. ASSUME NEW k \in 1 .. n PROVE FieldIn(level, w[k]) = o[k]
    <2>1. w[k].key = schema[o[k]].json
      <3>1. w[k] = Member(schema[o[k]].json, Token(schema[o[k]], fields[o[k]]), content[o[k]])
        BY <1>7
      <3> QED BY <3>1 DEF Member
    <2>2. o[k] \in DOMAIN SchemaOf(level) /\ w[k].key = SchemaOf(level)[o[k]].json
      BY <1>7, <2>1 DEF schema
    <2> QED BY <2>2, FieldFacts
  <1>9. \A i \in DOMAIN schema :
          ShownIn(schema[i], fields[i]) => \E k \in 1 .. n : o[k] = i
    BY <1>2, <1>3
  <1> QED BY <1>2, <1>5, <1>6, <1>7, <1>8, <1>9 DEF schema, w, o

\* The values there are to encode, and the tokens that they are written as.
LEMMA ShownValues ==
  ASSUME NEW f, f.kind \in Outer!Kinds, NEW objects,
         NEW v \in ValuesOf(f, objects), v # Absent
  PROVE  \/ f.kind = "message" /\ v \in objects
         \/ v = Is("nullValue") /\ f.kind \in Outer!NullIsValue /\ Token(f, v) = "null"
         \/ /\ v = Is("default") /\ f.kind \in Outer!PresenceKinds
            /\ f.kind \notin Outer!NullIsValue /\ Token(f, v) = "default"
         \/ v = Is("value") /\ f.kind # "message" /\ Token(f, v) = "value"
  <1>1. Is("nullValue") # Is("default") /\ Is("value") # Is("default")
        /\ Is("nullValue") # Is("value")
    BY DEF Is
  <1>2. /\ Token(f, Is("nullValue")) = "null" /\ Token(f, Is("default")) = "default"
        /\ Token(f, Is("value")) = "value"
    BY <1>1 DEF Token
  <1>3. CASE f.kind = "message"
    BY <1>3 DEF ValuesOf
  <1>4. CASE f.kind \in {"plain", "enum", "list"}
    BY <1>2, <1>4 DEF ValuesOf
  <1>5. CASE f.kind = "memberNull"
    BY <1>2, <1>5 DEF ValuesOf, Outer!NullIsValue
  <1>6. CASE f.kind = "value"
    BY <1>2, <1>6 DEF ValuesOf, Outer!NullIsValue
  <1>7. CASE f.kind \in {"pointer", "pointerEnum", "bytes", "member", "memberEnum"}
    BY <1>2, <1>7 DEF ValuesOf, Outer!NullIsValue, Outer!PresenceKinds, Outer!MemberKinds
  <1> QED BY <1>3, <1>4, <1>5, <1>6, <1>7
          DEF Outer!Kinds, Outer!PresenceKinds, Outer!MemberKinds

\* The token means the value again.
LEMMA TokenMeans ==
  ASSUME NEW level \in Levels, NEW objects, NEW i \in DOMAIN SchemaOf(level),
         NEW v \in ValuesOf(SchemaOf(level)[i], objects), v # Absent,
         SchemaOf(level)[i].kind # "message",
         NEW m, m.token = Token(SchemaOf(level)[i], v), ~ (level = 1 /\ IsObject(m))
  PROVE  ValueIn(level, i, m) = v
  <1> DEFINE kind == SchemaOf(level)[i].kind
  <1>1. kind \in Outer!Kinds
    BY SchemaFacts
  <1>2. ValueIn(level, i, m) =
          CASE m.token = "null" ->
                 IF kind \in Outer!NullIsValue THEN Is("nullValue") ELSE Absent
            [] m.token = "default" ->
                 IF kind \in Outer!PresenceKinds THEN Is("default") ELSE Absent
            [] m.token = "value" -> Is("value")
            [] OTHER -> Absent
    BY ValueFacts
  <1>3. \/ v = Is("nullValue") /\ kind \in Outer!NullIsValue /\ m.token = "null"
        \/ v = Is("default") /\ kind \in Outer!PresenceKinds /\ m.token = "default"
        \/ v = Is("value") /\ m.token = "value"
    BY <1>1, ShownValues
  <1> HIDE DEF kind
  <1> QED BY <1>2, <1>3

\* Messages to encode hold values for their fields, and one member of a oneof.
LEMMA MessageFacts ==
  ASSUME NEW schema, NEW objects, NEW fields \in MessagesOf(schema, objects)
  PROVE  /\ DOMAIN fields = DOMAIN schema
         /\ fields = [i \in DOMAIN schema |-> fields[i]]
         /\ \A i \in DOMAIN schema : fields[i] \in ValuesOf(schema[i], objects)
         /\ \A i, j \in DOMAIN schema :
              i # j /\ schema[i].oneof = schema[j].oneof /\ schema[i].oneof # 0 =>
                Absent \in {fields[i], fields[j]}
  <1> DEFINE V == UNION {ValuesOf(schema[i], objects) : i \in DOMAIN schema}
  <1>1. /\ fields \in [DOMAIN schema -> V]
        /\ \A i \in DOMAIN schema : fields[i] \in ValuesOf(schema[i], objects)
        /\ \A i, j \in DOMAIN schema :
              i # j /\ schema[i].oneof = schema[j].oneof /\ schema[i].oneof # 0 =>
                Absent \in {fields[i], fields[j]}
    BY DEF MessagesOf
  <1> HIDE DEF V
  <1> QED BY <1>1

\* What is written is legal if the nested objects in it are.
LEMMA WrittenLegal ==
  ASSUME NEW level \in Levels, NEW dis, NEW objects, NEW content,
         NEW fields \in MessagesOf(SchemaOf(level), objects),
         level = 1 => \A i \in DOMAIN Schema :
           Schema[i].kind = "message" => Nested!Legal(Plain(content[i]), dis)
  PROVE  LegalIn(dis, level, Written(SchemaOf(level), fields, content))
  <1> DEFINE schema == SchemaOf(level)
             w == Written(schema, fields, content)
             o == Order(schema, fields)
  <1>1. \A k \in DOMAIN w :
          /\ o[k] \in DOMAIN schema /\ fields[o[k]] # Absent
          /\ FieldIn(level, w[k]) = o[k]
          /\ w[k] = Member(schema[o[k]].json, Token(schema[o[k]], fields[o[k]]), content[o[k]])
    BY WrittenFacts
  <1>2. \A k, l \in DOMAIN w : k # l => o[k] # o[l]
    BY WrittenFacts
  <1>3. \A i, j \in DOMAIN schema :
          i # j /\ schema[i].oneof = schema[j].oneof /\ schema[i].oneof # 0 =>
            Absent \in {fields[i], fields[j]}
    BY MessageFacts
  <1>4. 0 \notin DOMAIN schema
    BY SchemaFacts
  <1> HIDE DEF w, o
  <1>5. ASSUME NEW k \in DOMAIN w PROVE GoodIn(dis, level, w[k])
    <2>1. w[k].token \in {"null", "default", "value"} /\ w[k].inner = content[o[k]]
      BY <1>1 DEF Member, Token
    <2>2. FieldIn(level, w[k]) # 0
      BY <1>1, <1>4
    <2>3. level = 1 /\ IsObject(w[k]) => Nested!Legal(Plain(w[k].inner), dis)
      BY <1>1, <2>1 DEF IsObject, MessageFields, FieldIn
    <2> QED BY <2>1, <2>2, <2>3 DEF GoodIn
  <1>6. ASSUME NEW k \in DOMAIN w, NEW l \in DOMAIN w, k # l
        PROVE  ApartIn(level, w[k], w[l])
    <2>1. FieldIn(level, w[k]) # FieldIn(level, w[l])
      BY <1>1, <1>2, <1>6
    <2>2. /\ OccupiedIn(level, w[k]) \in {0, schema[o[k]].oneof}
          /\ OccupiedIn(level, w[l]) \in {0, schema[o[l]].oneof}
      BY <1>1, <1>4, OccupiedFacts
    <2>3. ~ (schema[o[k]].oneof = schema[o[l]].oneof /\ schema[o[k]].oneof # 0)
      BY <1>1, <1>2, <1>3, <1>6
    <2> QED BY <2>1, <2>2, <2>3 DEF ApartIn
  <1> QED BY <1>5, <1>6 DEF LegalIn, w

\* What is shown is kept, and what is not is absent.
LEMMA WithoutFacts ==
  ASSUME NEW schema, NEW fields
  PROVE  /\ DOMAIN Without(schema, fields) = DOMAIN schema
         /\ Without(schema, fields) = [i \in DOMAIN schema |-> Without(schema, fields)[i]]
         /\ \A i \in DOMAIN schema :
              Without(schema, fields)[i] =
                IF ShownIn(schema[i], fields[i]) THEN fields[i] ELSE Absent
  <1>1. Without(schema, fields) =
          [i \in DOMAIN schema |-> IF EmptyBytes(schema[i], fields[i]) THEN Absent ELSE fields[i]]
    BY DEF Without
  <1>2. \A i \in DOMAIN schema :
          (IF EmptyBytes(schema[i], fields[i]) THEN Absent ELSE fields[i])
            = IF ShownIn(schema[i], fields[i]) THEN fields[i] ELSE Absent
    BY DEF ShownIn
  <1> QED BY <1>1, <1>2

\* A nested message that is written means itself without its empty bytes.
LEMMA WrittenMeans ==
  ASSUME NEW m \in MessagesOf(Inner, {}), NEW content
  PROVE  Without(Inner, m) = [j \in DOMAIN Inner |->
                Is(Nested!Meaning(Plain(Written(Inner, m, content)))[j])]
  <1> DEFINE w == Written(Inner, m, content)
             o == Order(Inner, m)
             p == Plain(w)
  <1>1. Inner = SchemaOf(2) /\ 2 \in Levels
    BY DEF SchemaOf, Levels
  <1>2. /\ \A k \in DOMAIN w :
             /\ o[k] \in DOMAIN Inner /\ ShownIn(Inner[o[k]], m[o[k]])
             /\ FieldIn(2, w[k]) = o[k]
             /\ w[k] = Member(Inner[o[k]].json, Token(Inner[o[k]], m[o[k]]), content[o[k]])
        /\ \A i \in DOMAIN Inner :
             ShownIn(Inner[i], m[i]) => \E k \in DOMAIN w : o[k] = i
    BY <1>1, WrittenFacts
  <1>3. /\ Without(Inner, m) = [j \in DOMAIN Inner |-> Without(Inner, m)[j]]
        /\ \A j \in DOMAIN Inner : m[j] \in ValuesOf(Inner[j], {})
    BY MessageFacts, WithoutFacts
  <1> HIDE DEF w, o
  <1>4. /\ DOMAIN p = DOMAIN w
        /\ \A k \in DOMAIN w : p[k].key = w[k].key /\ p[k].token = w[k].token
    BY DEF Plain
  <1>5. \A k \in DOMAIN w : Nested!FieldOf(p[k]) = o[k]
    BY <1>2, <1>4 DEF FieldIn, Nested!FieldOf
  <1> HIDE DEF p
  <1>6. ASSUME NEW j \in DOMAIN Inner PROVE Without(Inner, m)[j] = Is(Nested!Meaning(p)[j])
    <2>1. CASE ShownIn(Inner[j], m[j])
      <3> DEFINE c == CHOOSE k \in DOMAIN p : Nested!FieldOf(p[k]) = j
      <3>1. \E k \in DOMAIN p : Nested!FieldOf(p[k]) = j
        BY <1>2, <1>4, <1>5, <2>1
      <3>2. c \in DOMAIN w /\ o[c] = j
        BY <1>4, <1>5, <3>1
      <3>3. Nested!Meaning(p)[j] = Nested!Denotes(j, p[c].token)
        BY <3>1 DEF Nested!Meaning, Nested!Fields
      <3> HIDE DEF c
      <3>4. w[c].token = Token(Inner[j], m[j])
        BY <1>2, <3>2 DEF Member
      <3>5. Inner[j].kind # "message"
        BY SchemasAssumption DEF Containers
      <3>6. ValueIn(2, j, w[c]) = m[j]
        <4>1. m[j] # Absent
          BY <2>1 DEF ShownIn
        <4> QED BY <1>1, <1>3, <3>4, <3>5, <4>1, TokenMeans
      <3>7. Without(Inner, m)[j] = m[j]
        BY <2>1, WithoutFacts
      <3> QED BY <1>4, <3>2, <3>3, <3>6, <3>7 DEF ValueIn
    <2>2. CASE ~ ShownIn(Inner[j], m[j])
      <3>1. ~ \E k \in DOMAIN p : Nested!FieldOf(p[k]) = j
        BY <1>2, <1>4, <1>5, <2>2
      <3>2. Nested!Meaning(p)[j] = "absent"
        BY <3>1 DEF Nested!Meaning, Nested!Fields
      <3>3. Without(Inner, m)[j] = Absent
        BY <2>2, WithoutFacts
      <3> QED BY <3>2, <3>3 DEF Absent, Is
    <2> QED BY <2>1, <2>2
  <1> HIDE DEF p
  <1> QED BY <1>3, <1>6 DEF p, w

\* What is kept of a field of the message, by what it holds.
LEMMA KeptFacts ==
  ASSUME NEW m, NEW i \in DOMAIN Schema
  PROVE  /\ Kept(m) = [j \in DOMAIN Schema |-> Kept(m)[j]]
         /\ \A n : m[i] = Object(n) => Kept(m)[i] = Object(Without(Inner, n))
         /\ m[i] \in {Absent, Is("nullValue"), Is("default"), Is("value")} =>
              Kept(m)[i] = IF ShownIn(Schema[i], m[i]) THEN m[i] ELSE Absent
  <1>1. Kept(m) = [j \in DOMAIN Schema |->
                     IF m[j][1] = "object" THEN Object(Without(Inner, m[j][2]))
                     ELSE Without(Schema, m)[j]]
    BY DEF Kept
  <1>2. Kept(m)[i] = IF m[i][1] = "object" THEN Object(Without(Inner, m[i][2]))
                     ELSE Without(Schema, m)[i]
    BY <1>1
  <1>3. Kept(m) = [j \in DOMAIN Schema |-> Kept(m)[j]]
    BY <1>1
  <1>4. ASSUME NEW n, m[i] = Object(n) PROVE Kept(m)[i] = Object(Without(Inner, n))
    <2>1. m[i][1] = "object" /\ m[i][2] = n
      BY <1>4 DEF Object
    <2> QED BY <1>2, <2>1
  <1>5. ASSUME m[i] \in {Absent, Is("nullValue"), Is("default"), Is("value")}
        PROVE  Kept(m)[i] = IF ShownIn(Schema[i], m[i]) THEN m[i] ELSE Absent
    <2>1. m[i][1] # "object"
      BY <1>5 DEF Absent, Is
    <2> QED BY <1>2, <2>1, WithoutFacts
  <1> QED BY <1>3, <1>4, <1>5

LEMMA WrittenSeq ==
  ASSUME NEW level \in Levels, NEW fields, NEW contents, NEW content,
         \A i \in DOMAIN SchemaOf(level) : content[i] \in contents
  PROVE  Written(SchemaOf(level), fields, content) \in Seq(Members(contents))
  <1> DEFINE schema == SchemaOf(level)
             w == Written(schema, fields, content)
             o == Order(schema, fields)
  <1>1. /\ DOMAIN w = 1 .. Len(w) /\ Len(w) \in Nat
        /\ \A k \in DOMAIN w :
             /\ o[k] \in DOMAIN schema
             /\ w[k] = Member(schema[o[k]].json, Token(schema[o[k]], fields[o[k]]),
                              content[o[k]])
    BY WrittenFacts
  <1>2. \A i \in DOMAIN schema : schema[i].json \in STRING
    <2> DEFINE R == [json : STRING, proto : STRING, kind : Outer!Kinds, oneof : Nat]
    <2>1. schema \in Seq(R) /\ DOMAIN schema = 1 .. Len(schema)
      BY SchemasAssumption, SchemaFacts DEF SchemaOf
    <2> HIDE DEF schema
    <2>2. \A i \in 1 .. Len(schema) : schema[i] \in R
      BY <2>1, ElementOfSeq
    <2> QED BY <2>1, <2>2
  <1>3. \E order : w = [k \in DOMAIN order |->
                          Member(schema[order[k]].json,
                                 Token(schema[order[k]], fields[order[k]]), content[order[k]])]
    BY DEF Written
  <1> HIDE DEF w, o
  <1>4. \A k \in DOMAIN w : w[k] \in Members(contents)
    BY <1>1, <1>2 DEF Members, Member, Token, Outer!Tokens
  <1>5. w = [k \in DOMAIN w |-> w[k]]
    BY <1>3
  <1>6. w \in [1 .. Len(w) -> Members(contents)]
    BY <1>1, <1>4, <1>5
  <1>7. w \in Seq(Members(contents))
    BY <1>1, <1>6, SeqDef
  <1> QED BY <1>7 DEF w

InnerObjects == {Object(m) : m \in MessagesOf(Inner, {})}
NoContent == [i \in DOMAIN Inner |-> <<>>]

\* Only a nested message has contents of its own.
LEMMA ContentFacts ==
  ASSUME NEW i \in DOMAIN Schema, NEW v \in ValuesOf(Schema[i], InnerObjects)
  PROVE  /\ Content(v) \in Inputs2
         /\ Schema[i].kind # "message" \/ v = Absent => Content(v) = <<>>
         /\ Schema[i].kind = "message" /\ v # Absent =>
              \E m \in MessagesOf(Inner, {}) :
                v = Object(m) /\ Content(v) = Written(Inner, m, NoContent)
         /\ \A dis : Nested!Legal(Plain(Content(v)), dis)
  <1>1. Schema[i].kind \in Outer!Kinds
    BY SchemaFacts DEF Levels, SchemaOf
  <1>2. Inner = SchemaOf(2) /\ 2 \in Levels
    BY DEF SchemaOf, Levels
  <1>3. CASE v = Absent \/ Schema[i].kind # "message"
    <2>1. v \in {Absent, Is("nullValue"), Is("default"), Is("value")}
      BY <1>1, <1>3, ShownValues
    <2>2. v[1] # "object"
      BY <2>1 DEF Absent, Is
    <2>3. Content(v) = <<>>
      BY <2>2 DEF Content
    <2>4. <<>> \in Inputs2
      BY EmptySeq DEF Inputs2
    <2>5. \A dis : Nested!Legal(Plain(<<>>), dis)
      <3>1. DOMAIN Plain(<<>>) = {}
        BY DEF Plain
      <3> QED BY <3>1 DEF Nested!Legal, Nested!NoneTwice, Nested!Readable
    <2>6. v # Absent => Schema[i].kind # "message"
      BY <1>3
    <2> QED BY <2>3, <2>4, <2>5, <2>6
  <1>4. CASE v # Absent /\ Schema[i].kind = "message"
    <2>1. v \in InnerObjects
      BY <1>4 DEF ValuesOf
    <2>2. PICK m \in MessagesOf(Inner, {}) : v = Object(m)
      BY <2>1 DEF InnerObjects
    <2>3. v[1] = "object" /\ v[2] = m
      BY <2>2 DEF Object
    <2>4. Content(v) = Written(Inner, m, NoContent)
      BY <2>3 DEF Content, NoContent
    <2>5. \A j \in DOMAIN Inner : NoContent[j] \in {<<>>}
      BY DEF NoContent
    <2>6. Written(Inner, m, NoContent) \in Inputs2
      BY <1>2, <2>5, WrittenSeq DEF Inputs2
    <2>7. ASSUME NEW dis PROVE Nested!Legal(Plain(Written(Inner, m, NoContent)), dis)
      <3>1. LegalIn(dis, 2, Written(Inner, m, NoContent))
        BY <1>2, WrittenLegal
      <3> QED BY <3>1, NestedLegal
    <2> QED BY <1>4, <2>2, <2>4, <2>6, <2>7
  <1> QED BY <1>3, <1>4

\* The members are in the order of the schema, under their JSON names.
InOrder(level, in) ==
  /\ \A k \in DOMAIN in : /\ FieldIn(level, in[k]) \in DOMAIN SchemaOf(level)
                          /\ in[k].key = SchemaOf(level)[FieldIn(level, in[k])].json
  /\ \A k, l \in DOMAIN in : k < l => FieldIn(level, in[k]) < FieldIn(level, in[l])

LEMMA WrittenInOrder ==
  ASSUME NEW level \in Levels, NEW fields, NEW content
  PROVE  InOrder(level, Written(SchemaOf(level), fields, content))
  <1> DEFINE w == Written(SchemaOf(level), fields, content)
             o == Order(SchemaOf(level), fields)
  <1>1. /\ \A k \in DOMAIN w :
             /\ o[k] \in DOMAIN SchemaOf(level) /\ FieldIn(level, w[k]) = o[k]
             /\ w[k] = Member(SchemaOf(level)[o[k]].json,
                              Token(SchemaOf(level)[o[k]], fields[o[k]]), content[o[k]])
        /\ \A k, l \in DOMAIN w : k < l => o[k] < o[l]
    BY WrittenFacts
  <1> HIDE DEF w, o
  <1> QED BY <1>1 DEF InOrder, Member, w

\* What the encoder writes for a message.
LEMMA EncodedFacts ==
  ASSUME NEW m \in Encodable
  PROVE  LET d == Encoded(m)
         IN  /\ d \in Seq(Members(Inputs2))
             /\ \A k \in DOMAIN d : SensibleMember(d[k]) /\ ~ HasNullItem(d[k]) /\ ~ Stray(1, d[k])
             /\ \A dis : LegalIn(dis, 1, d)
             /\ InOrder(1, d)
             /\ \A k \in DOMAIN d : IsObject(d[k]) => InOrder(2, d[k].inner)
             /\ \A k \in DOMAIN d : LET i == FieldIn(1, d[k])
                                    IN  Kept(m)[i] = ValueIn(1, i, d[k])
             /\ \A i \in DOMAIN Schema :
                  Kept(m)[i] # Absent => \E k \in DOMAIN d : FieldIn(1, d[k]) = i
  <1> DEFINE content == [i \in DOMAIN Schema |-> Content(m[i])]
             d == Encoded(m)
             o == Order(Schema, m)
  <1>1. Schema = SchemaOf(1) /\ 1 \in Levels
    BY DEF SchemaOf, Levels
  <1>2. m \in MessagesOf(Schema, InnerObjects)
    BY DEF Encodable, InnerObjects
  <1>3. \A i \in DOMAIN Schema : m[i] \in ValuesOf(Schema[i], InnerObjects)
    BY <1>2, MessageFacts
  <1>4. \A i \in DOMAIN Schema : content[i] = Content(m[i])
    OBVIOUS
  <1>5. d = Written(Schema, m, content)
    BY DEF Encoded
  <1> HIDE DEF content, d, o
  <1>6. /\ DOMAIN d = 1 .. Len(d)
        /\ \A k \in DOMAIN d :
             /\ o[k] \in DOMAIN Schema /\ m[o[k]] # Absent /\ FieldIn(1, d[k]) = o[k]
             /\ ShownIn(Schema[o[k]], m[o[k]])
             /\ d[k] = Member(Schema[o[k]].json, Token(Schema[o[k]], m[o[k]]), content[o[k]])
        /\ \A i \in DOMAIN Schema :
             ShownIn(Schema[i], m[i]) => \E k \in DOMAIN d : o[k] = i
    BY <1>1, <1>5, WrittenFacts DEF o
  <1>7. d \in Seq(Members(Inputs2))
    <2>1. \A i \in DOMAIN Schema : content[i] \in Inputs2
      BY <1>3, <1>4, ContentFacts
    <2> QED BY <1>1, <1>5, <2>1, WrittenSeq
  <1>8. ASSUME NEW dis PROVE LegalIn(dis, 1, d)
    <2>1. \A i \in DOMAIN Schema : Nested!Legal(Plain(content[i]), dis)
      BY <1>3, <1>4, ContentFacts
    <2> QED BY <1>1, <1>2, <1>5, <2>1, WrittenLegal
  <1>9. InOrder(1, d)
    BY <1>1, <1>5, WrittenInOrder
  <1>10. ASSUME NEW k \in DOMAIN d
         PROVE  LET i == o[k]
                IN  /\ i \in DOMAIN Schema /\ FieldIn(1, d[k]) = i /\ Outer!FieldOf(d[k]) = i
                    /\ d[k].token = Token(Schema[i], m[i])
                    /\ d[k].token \in {"null", "default", "value"}
                    /\ d[k].inner = Content(m[i])
                    /\ m[i] \in ValuesOf(Schema[i], InnerObjects) /\ m[i] # Absent
                    /\ IsObject(d[k]) => Schema[i].kind = "message" /\ d[k].token = "value"
    <2>1. /\ o[k] \in DOMAIN Schema /\ m[o[k]] # Absent /\ FieldIn(1, d[k]) = o[k]
          /\ d[k] = Member(Schema[o[k]].json, Token(Schema[o[k]], m[o[k]]), content[o[k]])
      BY <1>6
    <2>2. Outer!FieldOf(d[k]) = o[k]
      BY <2>1 DEF FieldIn
    <2>3. /\ d[k].token = Token(Schema[o[k]], m[o[k]]) /\ d[k].inner = Content(m[o[k]])
          /\ d[k].token \in {"null", "default", "value"}
      BY <1>4, <2>1 DEF Member, Token
    <2>4. IsObject(d[k]) => Schema[o[k]].kind = "message" /\ d[k].token = "value"
      BY <2>2 DEF IsObject, MessageFields
    <2> QED BY <1>3, <2>1, <2>2, <2>3, <2>4
  <1>11. ASSUME NEW k \in DOMAIN d, Schema[o[k]].kind = "message"
         PROVE  \E n \in MessagesOf(Inner, {}) :
                  /\ m[o[k]] = Object(n) /\ d[k].inner = Written(Inner, n, NoContent)
                  /\ d[k].token = "value"
    <2>1. PICK n \in MessagesOf(Inner, {}) :
            m[o[k]] = Object(n) /\ Content(m[o[k]]) = Written(Inner, n, NoContent)
      BY <1>10, <1>11, ContentFacts
    <2>2. Token(Schema[o[k]], Object(n)) = "value"
      BY DEF Token, Object, Is
    <2> QED BY <1>10, <2>1, <2>2
  <1>12. ASSUME NEW k \in DOMAIN d, IsObject(d[k]) PROVE InOrder(2, d[k].inner)
    <2>1. PICK n : d[k].inner = Written(Inner, n, NoContent)
      BY <1>10, <1>11, <1>12
    <2>2. Inner = SchemaOf(2) /\ 2 \in Levels
      BY DEF SchemaOf, Levels
    <2> QED BY <2>1, <2>2, WrittenInOrder
  <1>13. ASSUME NEW k \in DOMAIN d PROVE Kept(m)[o[k]] = ValueIn(1, o[k], d[k])
    <2>1. CASE Schema[o[k]].kind = "message"
      <3>1. PICK n \in MessagesOf(Inner, {}) :
              /\ m[o[k]] = Object(n) /\ d[k].inner = Written(Inner, n, NoContent)
              /\ d[k].token = "value"
        BY <1>11, <2>1
      <3>2. IsObject(d[k])
        BY <1>10, <2>1, <3>1 DEF IsObject, MessageFields
      <3>3. Without(Inner, n) = [j \in DOMAIN Inner |-> Is(Nested!Meaning(Plain(d[k].inner))[j])]
        BY <3>1, WrittenMeans
      <3>4. Kept(m)[o[k]] = Object(Without(Inner, n))
        BY <1>10, <3>1, KeptFacts
      <3> QED BY <3>2, <3>3, <3>4 DEF ValueIn
    <2>2. CASE Schema[o[k]].kind # "message"
      <3>1. ~ IsObject(d[k])
        BY <1>10, <2>2
      <3>2. m[o[k]] = ValueIn(1, o[k], d[k])
        BY <1>1, <1>10, <2>2, <3>1, TokenMeans
      <3>3. Schema[o[k]].kind \in Outer!Kinds
        BY <1>1, <1>10, SchemaFacts
      <3>4. m[o[k]] \in {Absent, Is("nullValue"), Is("default"), Is("value")}
        BY <1>10, <2>2, <3>3, ShownValues
      <3>5. Kept(m)[o[k]] = m[o[k]]
        BY <1>6, <1>10, <3>4, KeptFacts
      <3> QED BY <3>2, <3>5
    <2> QED BY <2>1, <2>2
  <1>14. ASSUME NEW k \in DOMAIN d PROVE SensibleMember(d[k])
    <2>1. o[k] # 0
      BY <1>1, <1>10, SchemaFacts
    <2>2. Schema[o[k]].kind \in Outer!Kinds
      BY <1>1, <1>10, SchemaFacts
    <2>3. d[k].token = "default" => Schema[o[k]].kind \notin Containers
      <3>1. d[k].token = "default" => Schema[o[k]].kind \in Outer!PresenceKinds
        BY <1>10, <1>11, <2>2, ShownValues
      <3> QED BY <3>1 DEF Containers, Outer!PresenceKinds, Outer!MemberKinds
    <2>4. d[k].inner # <<>> => Schema[o[k]].kind = "message"
      BY <1>10, ContentFacts
    <2>5. d[k].inner # <<>> => Schema[o[k]].kind \in Containers /\ d[k].token = "value"
      BY <1>11, <2>4 DEF Containers
    <2>6. d[k].token # "unknownEnum"
      BY <1>10
    <2> QED BY <1>10, <2>1, <2>3, <2>5, <2>6 DEF SensibleMember, Sensible
  <1>15. ASSUME NEW k \in DOMAIN d PROVE ~ HasNullItem(d[k])
    <2>1. Schema[o[k]].kind = "list" => d[k].inner = <<>>
      BY <1>10, ContentFacts
    <2> QED BY <1>10, <2>1 DEF HasNullItem
  <1>16. ASSUME NEW k \in DOMAIN d PROVE ~ Stray(1, d[k])
    <2>1. ~ StrayHere(1, d[k])
      BY <1>10 DEF StrayHere
    <2>2. ASSUME IsObject(d[k]) PROVE \A l \in DOMAIN d[k].inner : ~ StrayHere(2, d[k].inner[l])
      <3>1. PICK n : d[k].inner = Written(Inner, n, NoContent)
        BY <1>10, <1>11, <2>2
      <3>2. Inner = SchemaOf(2) /\ 2 \in Levels
        BY DEF SchemaOf, Levels
      <3> DEFINE w == Written(Inner, n, NoContent)
      <3>3. \A l \in DOMAIN w : \E key, f, v, c : w[l] = Member(key, Token(f, v), c)
        BY <3>2, WrittenFacts
      <3> HIDE DEF w
      <3>4. \A l \in DOMAIN w : w[l].token # "unknownEnum"
        BY <3>3 DEF Member, Token
      <3> QED BY <3>1, <3>4 DEF StrayHere, w
    <2> QED BY <2>1, <2>2 DEF Stray
  <1>17. ASSUME NEW i \in DOMAIN Schema, Kept(m)[i] # Absent
         PROVE  \E k \in DOMAIN d : o[k] = i
    <2>1. Schema[i].kind \in Outer!Kinds
      BY <1>1, SchemaFacts
    <2>2. m[i] \in InnerObjects
            \/ m[i] \in {Absent, Is("nullValue"), Is("default"), Is("value")}
      BY <1>3, <2>1, ShownValues
    <2>3. CASE m[i] \in InnerObjects
      <3>1. m[i] # Absent /\ ~ EmptyBytes(Schema[i], m[i])
        BY <2>3 DEF InnerObjects, Object, Absent, Is, EmptyBytes
      <3> QED BY <1>6, <3>1 DEF ShownIn
    <2>4. CASE m[i] \in {Absent, Is("nullValue"), Is("default"), Is("value")}
      <3>1. ShownIn(Schema[i], m[i])
        BY <1>17, <2>4, KeptFacts
      <3> QED BY <1>6, <3>1
    <2> QED BY <2>2, <2>3, <2>4
  <1> QED BY <1>6, <1>7, <1>8, <1>9, <1>10, <1>12, <1>13, <1>14, <1>15, <1>16, <1>17 DEF d
-----------------------------------------------------------------------------
(* Decoding *)

LEMMA InitIInv ==
  Init => IInv
  <1> SUFFICES ASSUME Init PROVE IInv
    OBVIOUS
  <1>1. /\ source \in Sources /\ discard \in BOOLEAN /\ closed \in BOOLEAN
        /\ status = "peek" /\ stack = <<Frame(1, "fast")>>
    BY DEF Init
  <1>2. doc \in Seq(Members(Inputs2)) /\ \A k \in DOMAIN doc : SensibleMember(doc[k])
    <2>1. CASE source = "encoded"
      <3>1. message \in Encodable /\ doc = Encoded(message)
        BY <2>1 DEF Init
      <3> QED BY <3>1, EncodedFacts
    <2>2. CASE source # "encoded"
      <3>1. doc = <<>>
        BY <2>2 DEF Init
      <3>2. DOMAIN doc = {}
        BY <3>1
      <3> QED BY <3>1, <3>2, EmptySeq
    <2> QED BY <2>1, <2>2
  <1>3. Types
    BY <1>1, <1>2 DEF Types
  <1>4. Read(discard, 1, doc, Frame(1, "fast"))
    <2>1. Len(doc) \in Nat
      BY <1>2, LenProperties
    <2> QED BY <2>1, FreshRead DEF Levels
  <1>5. Standing(discard, doc, stack)
    <2>1. <<Frame(1, "fast")>>[1] = Frame(1, "fast")
      OBVIOUS
    <2> QED BY <1>1, <1>4, <2>1 DEF Standing
  <1>6. Verdict
    BY <1>1 DEF Verdict
  <1> QED BY <1>3, <1>5, <1>6 DEF IInv

\* With unknown names refused there is none in what has been read.
LEMMA GoodIsNoStray ==
  ASSUME Types, ~ discard, NEW k \in DOMAIN doc, GoodIn(discard, 1, doc[k])
  PROVE  ~ Stray(1, doc[k])
  <1> DEFINE m == doc[k]
  <1>1. m.token # "unknownEnum"
    BY DEF GoodIn
  <1>2. ASSUME IsObject(m) PROVE \A l \in DOMAIN m.inner : ~ StrayHere(2, m.inner[l])
    <2>1. Nested!Legal(Plain(m.inner), discard)
      BY <1>2 DEF GoodIn
    <2>2. LegalIn(discard, 2, m.inner)
      BY <2>1, NestedLegal
    <2>3. \A l \in DOMAIN m.inner : m.inner[l].token # "unknownEnum"
      BY <2>2 DEF LegalIn, GoodIn
    <2> QED BY <2>3 DEF StrayHere
  <1> QED BY <1>1, <1>2 DEF Stray, StrayHere

\* A message that is done has the content that the document means.
LEMMA DoneIsMeaning ==
  ASSUME Types, NEW a, Read(discard, 1, doc, a), a.pos = Len(doc),
         \A k \in DOMAIN doc : ~ Stray(1, doc[k])
  PROVE  a.fields = Meaning
  <1> DEFINE p == Plain(doc)
             of(i) == {k \in Objects : Outer!FieldOf(doc[k]) = i}
             Value(i) == IF of(i) # {}
                         THEN Object([j \in DOMAIN Inner |->
                                Is(Nested!Meaning(Plain(doc[CHOOSE k \in of(i) : TRUE].inner))[j])])
                         ELSE Is(Outer!Meaning(p)[i])
  <1>1. DOMAIN doc = 1 .. Len(doc)
    BY LenProperties DEF Types
  <1>2. /\ DOMAIN p = DOMAIN doc
        /\ \A k \in DOMAIN doc : p[k].key = doc[k].key /\ p[k].token = doc[k].token
    BY DEF Plain
  <1>3. \A k \in DOMAIN doc : Outer!FieldOf(p[k]) = FieldIn(1, doc[k])
    BY <1>2 DEF FieldIn, Outer!FieldOf
  <1>4. a.fields \in [DOMAIN Schema -> Contents(1)]
    BY DEF Read, Frames, SchemaOf
  <1>5. \A k, l \in DOMAIN doc : k # l => ApartIn(1, doc[k], doc[l])
    BY <1>1 DEF Read
  <1>6. ASSUME NEW i \in DOMAIN Schema PROVE a.fields[i] = Value(i)
    <2>1. i # 0
      BY SchemaFacts DEF Levels, SchemaOf
    <2>2. \A k \in DOMAIN doc : FieldIn(1, doc[k]) = i => a.fields[i] = ValueIn(1, i, doc[k])
      BY <1>1, <2>1 DEF Read
    <2>3. \A k \in of(i) : k \in DOMAIN doc /\ FieldIn(1, doc[k]) = i /\ IsObject(doc[k])
      BY DEF Objects, IsObject, FieldIn
    <2>4. CASE of(i) # {}
      <3> DEFINE c == CHOOSE k \in of(i) : TRUE
      <3>1. c \in of(i)
        BY <2>4
      <3> HIDE DEF c, of
      <3>2. a.fields[i] = ValueIn(1, i, doc[c]) /\ IsObject(doc[c])
        BY <2>2, <2>3, <3>1
      <3>3. ValueIn(1, i, doc[c])
              = Object([j \in DOMAIN Inner |-> Is(Nested!Meaning(Plain(doc[c].inner))[j])])
        BY <3>2 DEF ValueIn
      <3> QED BY <2>4, <3>2, <3>3 DEF c
    <2>5. CASE of(i) = {} /\ \E k \in DOMAIN doc : FieldIn(1, doc[k]) = i
      <3> DEFINE c == CHOOSE k \in DOMAIN p : Outer!FieldOf(p[k]) = i
      <3>1. \E k \in DOMAIN p : Outer!FieldOf(p[k]) = i
        BY <1>2, <1>3, <2>5
      <3>2. c \in DOMAIN doc /\ FieldIn(1, doc[c]) = i
        BY <1>2, <1>3, <3>1
      <3>3. Outer!Meaning(p)[i] = Outer!Denotes(i, p[c].token)
        BY <3>1 DEF Outer!Meaning, Outer!Fields
      <3>4. ~ IsObject(doc[c])
        BY <2>5, <3>2 DEF Objects, IsObject, FieldIn
      <3> HIDE DEF c, p, of
      <3>5. a.fields[i] = Is(Outer!Denotes(i, doc[c].token))
        <4>1. a.fields[i] = ValueIn(1, i, doc[c])
          BY <2>2, <3>2
        <4>2. ValueIn(1, i, doc[c]) = Is(Outer!Denotes(i, doc[c].token))
          BY <3>4 DEF ValueIn
        <4> QED BY <4>1, <4>2
      <3> QED BY <1>2, <2>5, <3>2, <3>3, <3>5
    <2>6. CASE ~ \E k \in DOMAIN doc : FieldIn(1, doc[k]) = i
      <3>1. ~ \E k \in DOMAIN p : Outer!FieldOf(p[k]) = i
        BY <1>2, <1>3, <2>6
      <3>2. Outer!Meaning(p)[i] = "absent"
        BY <3>1 DEF Outer!Meaning, Outer!Fields
      <3>3. of(i) = {}
        BY <2>3, <2>6
      <3>4. i \notin a.seen
        BY <1>1, <2>6 DEF Read
      <3>5. a.fields[i] = Absent
        BY <3>4 DEF Read, SchemaOf
      <3> HIDE DEF p, of
      <3> QED BY <3>2, <3>3, <3>5 DEF Absent, Is
    <2> QED BY <2>4, <2>5, <2>6
  <1>7. Meaning = [i \in DOMAIN Schema |-> Value(i)]
    BY DEF Meaning
  <1> HIDE DEF Value, of, p
  <1> QED BY <1>4, <1>6, <1>7

\* A document that is accepted is legal, and the message is the one it means,
\* whichever passes read it: unless an unknown name is discarded that would have
\* been the value of an optional enum or of a member of a oneof.
LEMMA DoneIsRight ==
  IInv => /\ status = "done" => Legal
          /\ NoStrayNames => DecodesMeaning
  <1> SUFFICES ASSUME IInv, status = "done"
               PROVE  Legal /\ (NoStrayNames => stack[1].fields = Meaning)
    BY DEF DecodesMeaning
  <1>1. stack[1].pos = Len(doc) /\ Read(discard, 1, doc, stack[1]) /\ Types
    BY DEF IInv, Verdict, Standing
  <1>2. DOMAIN doc = 1 .. Len(doc)
    BY <1>1, LenProperties DEF Types
  <1>3. LegalIn(discard, 1, doc)
    BY <1>1, <1>2, ReadToEnd
  <1>4. Legal
    BY <1>3, OuterLegal
  <1>5. ASSUME NoStrayNames PROVE \A k \in DOMAIN doc : ~ Stray(1, doc[k])
    <2>1. CASE discard
      BY <1>5, <2>1 DEF NoStrayNames
    <2>2. CASE ~ discard
      <3>1. \A k \in DOMAIN doc : GoodIn(discard, 1, doc[k])
        BY <1>3 DEF LegalIn
      <3> QED BY <1>1, <2>2, <3>1, GoodIsNoStray
    <2> QED BY <2>1, <2>2
  <1> QED BY <1>1, <1>4, <1>5, DoneIsMeaning

THEOREM DecodesTheObject ==
  Spec => [](/\ status = "done" => Legal
             /\ NoStrayNames => DecodesMeaning)
  <1>1. Spec => []IInv
    BY InitIInv, NextIInv, PTL DEF Spec
  <1> QED BY <1>1, DoneIsRight, PTL

\* A document without null items in its lists is refused for a mistake in it only.
LEMMA FailedIsIllegal ==
  IInv => (NoNullItems => RefusesOnlyIllegal)
  BY OuterLegal DEF IInv, Verdict, NoNullItems, RefusesOnlyIllegal

THEOREM RefusesMistakesOnly ==
  Spec => [](NoNullItems => RefusesOnlyIllegal)
  <1>1. Spec => []IInv
    BY InitIInv, NextIInv, PTL DEF Spec
  <1> QED BY <1>1, FailedIsIllegal, PTL
-----------------------------------------------------------------------------
(* Reading what was written *)

LEMMA OneFrame ==
  ASSUME NEW in, NEW a, NEW fast
  PROVE  OwnStack(in, <<a>>, fast) <=> Ahead(1, in, a) /\ (fast => a.pass = "fast")
  <1> DEFINE s == <<a>>
  <1>1. s[1] = a /\ Len(s) = 1 /\ DOMAIN s = {1}
    OBVIOUS
  <1> HIDE DEF s
  <1>2. OwnStack(in, s, fast) <=> Ahead(1, in, a) /\ (fast => a.pass = "fast")
    BY <1>1 DEF OwnStack
  <1> QED BY <1>2 DEF s

LEMMA TwoFrames ==
  ASSUME NEW in, NEW a, NEW b, NEW fast
  PROVE  OwnStack(in, <<a, b>>, fast) <=>
           /\ Ahead(1, in, a) /\ Ahead(2, in[a.pos + 1].inner, b)
           /\ fast => a.pass = "fast" /\ b.pass = "fast"
  <1> DEFINE s == <<a, b>>
  <1>1. s[1] = a /\ s[2] = b /\ Len(s) = 2 /\ DOMAIN s = {1, 2}
    OBVIOUS
  <1> HIDE DEF s
  <1>2. OwnStack(in, s, fast) <=>
           /\ Ahead(1, in, a) /\ Ahead(2, in[a.pos + 1].inner, b)
           /\ fast => a.pass = "fast" /\ b.pass = "fast"
    BY <1>1 DEF OwnStack
  <1> QED BY <1>2 DEF s

\* All of the fields are ahead of a fresh frame, and those after the one that
\* has been read.
LEMMA FreshAhead ==
  ASSUME NEW level \in Levels, NEW in, InOrder(level, in), NEW pass
  PROVE  Ahead(level, in, Frame(level, pass))
  <1>1. Frame(level, pass).field = 1
    BY DEF Frame
  <1>2. \A k \in DOMAIN in : FieldIn(level, in[k]) >= 1
    BY SchemaFacts DEF InOrder
  <1> QED BY <1>1, <1>2 DEF Ahead

LEMMA NextAhead ==
  ASSUME NEW level \in Levels, NEW in, InOrder(level, in), DOMAIN in = 1 .. Len(in),
         NEW n \in Nat, n < Len(in), Len(in) \in Nat,
         NEW new, new.pos = n + 1, new.field = FieldIn(level, in[n + 1]) + 1
  PROVE  Ahead(level, in, new)
  <1>1. DOMAIN SchemaOf(level) = 1 .. Len(SchemaOf(level)) /\ Len(SchemaOf(level)) \in Nat
    BY SchemaFacts
  <1>2. \A k \in DOMAIN in : FieldIn(level, in[k]) \in Nat
    BY <1>1 DEF InOrder
  <1>3. n + 1 \in DOMAIN in
    OBVIOUS
  <1>4. \A k \in DOMAIN in : k > n + 1 => FieldIn(level, in[k]) > FieldIn(level, in[n + 1])
    BY <1>2, <1>3 DEF InOrder
  <1> QED BY <1>2, <1>3, <1>4 DEF Ahead

\* The open objects of a document that was written.
Own == IInv /\ OwnInv /\ source = "encoded"

LEMMA OwnFacts ==
  ASSUME Own
  PROVE  /\ Types /\ Standing(discard, doc, stack)
         /\ message \in Encodable /\ doc = Encoded(message) /\ closed
         /\ InOrder(1, doc) /\ DOMAIN doc = 1 .. Len(doc) /\ Len(doc) \in Nat
         /\ \A k \in DOMAIN doc : IsObject(doc[k]) => InOrder(2, doc[k].inner)
         /\ OwnStack(doc, stack, status # "peek" /\ FirstIsFirst)
  <1>1. /\ Types /\ Standing(discard, doc, stack)
        /\ message \in Encodable /\ doc = Encoded(message) /\ closed
        /\ OwnStack(doc, stack, status # "peek" /\ FirstIsFirst)
    BY DEF Own, IInv, OwnInv
  <1>2. InOrder(1, doc) /\ \A k \in DOMAIN doc : IsObject(doc[k]) => InOrder(2, doc[k].inner)
    BY <1>1, EncodedFacts
  <1>3. DOMAIN doc = 1 .. Len(doc) /\ Len(doc) \in Nat
    BY <1>1, LenProperties DEF Types
  <1> QED BY <1>1, <1>2, <1>3

LEMMA OwnTop ==
  ASSUME Own
  PROVE  /\ Top.level \in Levels /\ Top \in Frames(Top.level) /\ Top.pos \in Nat
         /\ InOrder(Top.level, Input) /\ DOMAIN Input = 1 .. Len(Input) /\ Len(Input) \in Nat
         /\ Ahead(Top.level, Input, Top)
         /\ status # "peek" /\ FirstIsFirst => Top.pass = "fast"
         /\ AtEnd <=> Top.pos = Len(Input)
         /\ Top.pos <= Len(Input)
  <1>1. /\ Top.level \in Levels /\ Top \in Frames(Top.level) /\ Top.pos \in Nat
        /\ Read(discard, Top.level, Input, Top)
        /\ Input \in Seq(Members(Inputs2)) \cup Inputs2 /\ (AtEnd <=> Top.pos = Len(Input))
    BY OwnFacts, InputFacts
  <1>2. DOMAIN Input = 1 .. Len(Input) /\ Len(Input) \in Nat
    BY <1>1, LenProperties DEF Inputs2
  <1>3. Top.pos <= Len(Input)
    BY <1>1 DEF Read
  <1>4. CASE \E a : stack = <<a>> /\ Top = a /\ Top.level = 1 /\ Input = doc
    <2>1. PICK a : stack = <<a>> /\ Top = a /\ Top.level = 1 /\ Input = doc
      BY <1>4
    <2>2. Ahead(1, doc, a) /\ (status # "peek" /\ FirstIsFirst => a.pass = "fast")
      BY <2>1, OwnFacts, OneFrame
    <2> QED BY <1>1, <1>2, <1>3, <2>1, <2>2, OwnFacts
  <1>5. CASE \E a, b : /\ stack = <<a, b>> /\ Top = b /\ Top.level = 2
                       /\ Input = doc[a.pos + 1].inner
                       /\ Read(discard, 1, doc, a) /\ Inside(discard, doc, a, b)
    <2>1. PICK a, b : /\ stack = <<a, b>> /\ Top = b /\ Top.level = 2
                      /\ Input = doc[a.pos + 1].inner
                      /\ Read(discard, 1, doc, a) /\ Inside(discard, doc, a, b)
      BY <1>5
    <2>2. Ahead(2, Input, b) /\ (status # "peek" /\ FirstIsFirst => b.pass = "fast")
      BY <2>1, OwnFacts, TwoFrames
    <2>3. a.pos + 1 \in DOMAIN doc /\ IsObject(doc[a.pos + 1])
      BY <2>1, OwnFacts DEF Inside, Read, Frames
    <2>4. InOrder(2, Input)
      BY <2>1, <2>3, OwnFacts
    <2> QED BY <1>1, <1>2, <1>3, <2>1, <2>2, <2>4
  <1> QED BY <1>4, <1>5, OwnFacts, TopFacts

\* A frame that replaces the innermost one, of the same pass.
LEMMA OwnReplaced ==
  ASSUME Own, NEW new, Ahead(Top.level, Input, new), new.pass = Top.pass
  PROVE  OwnStack(doc, WithTop(new), status # "peek" /\ FirstIsFirst)
  <1>1. CASE \E a : /\ stack = <<a>> /\ Top = a /\ Top.level = 1 /\ Input = doc
                    /\ \A f : WithTop(f) = <<f>>
    <2>1. PICK a : /\ stack = <<a>> /\ Top = a /\ Top.level = 1 /\ Input = doc
                   /\ \A f : WithTop(f) = <<f>>
      BY <1>1
    <2>2. status # "peek" /\ FirstIsFirst => new.pass = "fast"
      BY OwnTop
    <2> QED BY <2>1, <2>2, OneFrame
  <1>2. CASE \E a, b : /\ stack = <<a, b>> /\ Top = b /\ Top.level = 2
                       /\ Input = doc[a.pos + 1].inner
                       /\ \A f : WithTop(f) = <<a, f>>
    <2>1. PICK a, b : /\ stack = <<a, b>> /\ Top = b /\ Top.level = 2
                      /\ Input = doc[a.pos + 1].inner
                      /\ \A f : WithTop(f) = <<a, f>>
      BY <1>2
    <2>2. status # "peek" /\ FirstIsFirst => new.pass = "fast"
      BY OwnTop
    <2>3. Ahead(1, doc, a) /\ (status # "peek" /\ FirstIsFirst => a.pass = "fast")
      BY <2>1, OwnFacts, TwoFrames
    <2> QED BY <2>1, <2>2, <2>3, TwoFrames
  <1> QED BY <1>1, <1>2, OwnFacts, TopFacts

\* The next member has been read into its field.
LEMMA OwnAdvances ==
  ASSUME Own, NEW i, Fits(i), NEW new,
         new.pos = Top.pos + 1, new.field = i + 1, new.pass = Top.pass
  PROVE  OwnStack(doc, WithTop(new), status # "peek" /\ FirstIsFirst)
  <1>1. Top.pos < Len(Input)
    BY OwnTop DEF Fits
  <1>2. Here = Input[Top.pos + 1] /\ i = FieldIn(Top.level, Here)
    BY DEF Here, Fits
  <1>3. Ahead(Top.level, Input, new)
    <2> DEFINE level == Top.level
               in == Input
               n == Top.pos
    <2>1. /\ level \in Levels /\ InOrder(level, in) /\ DOMAIN in = 1 .. Len(in)
          /\ n \in Nat /\ n < Len(in) /\ Len(in) \in Nat /\ new.pos = n + 1
          /\ new.field = FieldIn(level, in[n + 1]) + 1
      BY <1>1, <1>2, OwnTop
    <2> HIDE DEF level, in, n
    <2>2. Ahead(level, in, new)
      BY <2>1, NextAhead
    <2> QED BY <2>2 DEF level, in
  <1> QED BY <1>3, OwnReplaced

\* What a value does to the stack.
LEMMA OwnStore ==
  ASSUME Own, NEW i, Fits(i), Store(i)
  PROVE  OwnStack(doc, stack', status # "peek" /\ FirstIsFirst) /\ status' \in {status, "failed"}
  <1>1. Top \in Frames(Top.level)
    BY OwnTop
  <1>2. CASE Fail
    BY <1>2, OwnFacts DEF Fail
  <1>3. ASSUME NEW v, Continue(WithTop(After(i, v)))
        PROVE  /\ OwnStack(doc, stack', status # "peek" /\ FirstIsFirst)
               /\ status' \in {status, "failed"}
    <2> DEFINE new == After(i, v)
    <2>1. new.pos = Top.pos + 1 /\ new.field = i + 1 /\ new.pass = Top.pass
      BY <1>1 DEF After, Frames
    <2>2. stack' = WithTop(new) /\ status' = status
      BY <1>3 DEF Continue
    <2> HIDE DEF new
    <2> QED BY <2>1, <2>2, OwnAdvances
  <1>4. CASE Continue(WithTop([Top EXCEPT !.pos = @ + 1, !.field = i + 1,
                                          !.seen = @ \cup {i}, !.fields[i] = Absent]))
    <2> DEFINE new == [Top EXCEPT !.pos = @ + 1, !.field = i + 1,
                                  !.seen = @ \cup {i}, !.fields[i] = Absent]
    <2>1. new.pos = Top.pos + 1 /\ new.field = i + 1 /\ new.pass = Top.pass
      BY <1>1 DEF Frames
    <2>2. stack' = WithTop(new) /\ status' = status
      BY <1>4 DEF Continue
    <2> HIDE DEF new
    <2> QED BY <2>1, <2>2, OwnAdvances
  <1>5. CASE /\ Continue(Append(WithTop([Top EXCEPT !.field = i]), Frame(2, Top.pass)))
             /\ Field(i).kind = "message" /\ Here.token = "value"
    <2> DEFINE a == [Top EXCEPT !.field = i]
               b == Frame(2, Top.pass)
    <2>1. Top.level = 1
      BY <1>5, OwnFacts, FitsFacts DEF Containers, Levels
    <2>2. Input = doc /\ \A f : WithTop(f) = <<f>>
      BY <2>1, OwnFacts, TopFacts
    <2>3. a.pos = Top.pos /\ a.field = i /\ a.pass = Top.pass
      BY <1>1 DEF Frames
    <2>4. b.pass = Top.pass
      BY DEF Frame
    <2>5. stack' = <<a, b>> /\ status' = status
      BY <1>5, <2>2, PairOfAppend DEF Continue
    <2>6. Outer!FieldOf(Here) = i /\ i \in DOMAIN Schema /\ Schema[i].kind = "message"
      BY <1>5, <2>1, OwnFacts, FitsFacts
    <2>7. IsObject(Here)
      BY <1>5, <2>6 DEF IsObject, MessageFields
    <2>8. Top.pos + 1 \in DOMAIN doc /\ Here = doc[Top.pos + 1]
      BY <2>1, OwnFacts, HereFacts DEF Fits
    <2>9. InOrder(2, Here.inner)
      BY <2>7, <2>8, OwnFacts
    <2>10. Ahead(2, Here.inner, b)
      BY <2>9, FreshAhead DEF Levels
    <2>11. Ahead(1, doc, a)
      <3>1. Top.pass = "fast" => i = Top.field
        BY DEF Fits
      <3>2. Ahead(1, doc, Top)
        BY <2>1, <2>2, OwnTop
      <3> HIDE DEF a
      <3> QED BY <2>3, <3>1, <3>2 DEF Ahead
    <2>12. status # "peek" /\ FirstIsFirst => Top.pass = "fast"
      BY OwnTop
    <2> HIDE DEF a, b
    <2> QED BY <2>3, <2>4, <2>5, <2>8, <2>10, <2>11, <2>12, TwoFrames
  <1>6. CASE StoreNull(i)
    BY <1>2, <1>3, <1>4, <1>6 DEF StoreNull
  <1>7. CASE StoreScalar(i)
    BY <1>2, <1>3, <1>7 DEF StoreScalar
  <1>8. CASE StoreList(i)
    BY <1>2, <1>3, <1>8 DEF StoreList
  <1>9. CASE EnterMessage(i)
    BY <1>2, <1>5, <1>9 DEF EnterMessage
  <1> QED BY <1>6, <1>7, <1>8, <1>9 DEF Store

LEMMA OwnLeave ==
  ASSUME Own, AtEnd, Leave
  PROVE  OwnStack(doc, stack', status # "peek" /\ FirstIsFirst) /\ status' \in {status, "done"}
  <1>1. CASE Top.level = 1
    <2>1. stack' = stack /\ status' = "done"
      BY <1>1 DEF Leave
    <2> QED BY <2>1, OwnFacts
  <1>2. CASE Top.level = 2
    <2>1. PICK a, b : /\ stack = <<a, b>> /\ Top = b
                      /\ Read(discard, 1, doc, a) /\ Inside(discard, doc, a, b)
      BY <1>2, OwnFacts, TopFacts
    <2> DEFINE new == [a EXCEPT !.pos = @ + 1, !.field = a.field + 1,
                                !.seen = @ \cup {a.field},
                                !.fields[a.field] = Object(b.fields)]
    <2>2. stack[1] = a
      BY <2>1
    <2>3. stack' = <<new>> /\ status' = status
      BY <1>2, <2>1, <2>2 DEF Leave, Continue
    <2>4. /\ a \in Frames(1) /\ a.pos \in Nat /\ a.pos < Len(doc)
          /\ FieldIn(1, doc[a.pos + 1]) = a.field
      BY <2>1 DEF Inside, Read, Frames
    <2>5. new.pos = a.pos + 1 /\ new.field = a.field + 1 /\ new.pass = a.pass
      BY <2>4 DEF Frames
    <2> HIDE DEF new
    <2>6. Ahead(1, doc, new)
      <3>1. 1 \in Levels /\ new.field = FieldIn(1, doc[a.pos + 1]) + 1
        BY <2>4, <2>5 DEF Levels
      <3> QED BY <2>4, <2>5, <3>1, OwnFacts, NextAhead
    <2>7. status # "peek" /\ FirstIsFirst => a.pass = "fast"
      BY <2>1, OwnFacts, TwoFrames
    <2> QED BY <2>3, <2>5, <2>6, <2>7, OneFrame
  <1> QED BY <1>1, <1>2, OwnTop DEF Levels

\* The fields that the fast pass gives up on are not in the rest of the object.
LEMMA OwnMiss ==
  ASSUME Own, Top.pass = "fast", ~ AtEnd, ~ Matches, Untried
  PROVE  Ahead(Top.level, Input, [Top EXCEPT !.field = @ + 1])
  <1> DEFINE new == [Top EXCEPT !.field = @ + 1]
             F(k) == FieldIn(Top.level, Input[k])
  <1>1. /\ Top.level \in Levels /\ Top \in Frames(Top.level) /\ Top.pos \in Nat
        /\ InOrder(Top.level, Input) /\ DOMAIN Input = 1 .. Len(Input) /\ Len(Input) \in Nat
        /\ Ahead(Top.level, Input, Top) /\ Top.pos < Len(Input)
    BY OwnTop
  <1>2. new.pos = Top.pos /\ new.field = Top.field + 1 /\ Top.field \in Nat
    BY <1>1 DEF Frames
  <1>3. /\ \A k \in DOMAIN Input : F(k) \in Nat /\ (k > Top.pos => F(k) >= Top.field)
        /\ \A k, l \in DOMAIN Input : k < l => F(k) < F(l)
    <2>1. \A k \in DOMAIN Input : F(k) \in Nat
      BY <1>1, SchemaFacts DEF InOrder
    <2> QED BY <1>1, <2>1 DEF InOrder, Ahead
  <1>4. Top.pos + 1 \in DOMAIN Input
    BY <1>1
  <1>5. F(Top.pos + 1) # Top.field
    <2>1. Input[Top.pos + 1].key = SchemaOf(Top.level)[F(Top.pos + 1)].json
      BY <1>1, <1>4 DEF InOrder
    <2> QED BY <2>1 DEF Matches, Here, Field
  <1>6. \A k \in DOMAIN Input : k > Top.pos => F(k) >= Top.field + 1
    <2> SUFFICES ASSUME NEW k \in DOMAIN Input, k > Top.pos PROVE F(k) >= Top.field + 1
      OBVIOUS
    <2>1. F(Top.pos + 1) \in Nat /\ F(Top.pos + 1) >= Top.field
      BY <1>1, <1>3, <1>4
    <2>2. k \in Nat /\ F(k) \in Nat
      BY <1>1, <1>3
    <2>3. k = Top.pos + 1 \/ k > Top.pos + 1
      BY <1>1, <2>2
    <2>4. k > Top.pos + 1 => F(Top.pos + 1) < F(k)
      BY <1>3, <1>4
    <2> HIDE DEF F
    <2> QED BY <1>2, <1>5, <2>1, <2>2, <2>3, <2>4
  <1> HIDE DEF new
  <1> QED BY <1>2, <1>6 DEF Ahead, new

\* The fast pass has no surprise to give up at.
LEMMA OwnNeverRewinds ==
  ASSUME Own, Top.pass = "fast", ~ AtEnd, ~ Untried
  PROVE  FALSE
  <1>1. /\ Top.level \in Levels /\ Top \in Frames(Top.level) /\ Top.pos \in Nat
        /\ InOrder(Top.level, Input) /\ DOMAIN Input = 1 .. Len(Input) /\ Len(Input) \in Nat
        /\ Ahead(Top.level, Input, Top) /\ Top.pos < Len(Input)
    BY OwnTop
  <1>2. Top.pos + 1 \in DOMAIN Input /\ Top.pos + 1 > Top.pos
    BY <1>1
  <1>3. FieldIn(Top.level, Input[Top.pos + 1]) >= Top.field
    BY <1>1, <1>2 DEF Ahead
  <1>4. FieldIn(Top.level, Input[Top.pos + 1]) \in DOMAIN SchemaOf(Top.level)
    BY <1>1, <1>2 DEF InOrder
  <1>5. /\ DOMAIN SchemaOf(Top.level) = 1 .. Len(SchemaOf(Top.level))
        /\ Len(SchemaOf(Top.level)) \in Nat
    BY <1>1, SchemaFacts
  <1>6. Top.field \in Nat
    BY <1>1 DEF Frames
  <1> QED BY <1>3, <1>4, <1>5, <1>6 DEF Untried

LEMMA OwnPeek ==
  ASSUME Own, Peek
  PROVE  OwnStack(doc, stack', FirstIsFirst)
  <1> DEFINE pass == IF AtEnd \/ Here.key = Schema[1].json THEN "fast" ELSE "slow"
  <1>1. stack' = <<Frame(1, pass)>> /\ status = "peek"
    BY DEF Peek
  <1>2. stack = <<Frame(1, "fast")>>
    BY <1>1 DEF Own, IInv, Verdict
  <1>3. Top = Frame(1, "fast") /\ Top.level = 1 /\ Top.pos = 0
    BY <1>2 DEF Top, Last, Frame
  <1>4. Input = doc
    BY <1>3 DEF Input
  <1>5. FirstIsFirst => Here.key = Schema[1].json
    BY <1>3, <1>4 DEF Here, FirstIsFirst
  <1>6. FirstIsFirst => pass = "fast"
    BY <1>5
  <1>7. Frame(1, pass).pass = pass
    BY DEF Frame
  <1> HIDE DEF pass
  <1>8. Ahead(1, doc, Frame(1, pass))
    BY OwnFacts, FreshAhead DEF Levels
  <1> QED BY <1>1, <1>6, <1>7, <1>8, OneFrame

LEMMA InitOwn ==
  Init => OwnInv
  <1> SUFFICES ASSUME Init, source = "encoded" PROVE OwnInv
    BY DEF OwnInv
  <1>1. /\ message \in Encodable /\ doc = Encoded(message) /\ closed
        /\ stack = <<Frame(1, "fast")>> /\ status = "peek"
    BY DEF Init
  <1>2. InOrder(1, doc)
    BY <1>1, EncodedFacts
  <1>3. Ahead(1, doc, Frame(1, "fast"))
    BY <1>2, FreshAhead DEF Levels
  <1>4. OwnStack(doc, stack, status # "peek" /\ FirstIsFirst)
    BY <1>1, <1>3, OneFrame
  <1> QED BY <1>1, <1>4 DEF OwnInv

LEMMA NextOwn ==
  IInv /\ OwnInv /\ [Next]_vars => OwnInv'
  <1> SUFFICES ASSUME IInv, OwnInv, [Next]_vars, source' = "encoded" PROVE OwnInv'
    BY DEF OwnInv
  <1>1. source' = source /\ message' = message
    BY DEF Next, Reveal, Peek, FastField, FastEnd, FastMiss, FastDone, Rewind, SlowField,
           SlowUnknown, SlowEnd, Same, vars
  <1>2. Own
    BY <1>1 DEF Own
  <1>3. message \in Encodable /\ doc = Encoded(message) /\ closed
    BY <1>2, OwnFacts
  <1>4. ~ Reveal
    BY <1>3 DEF Reveal, Known
  <1>5. ASSUME Same, status # "peek", status' # "peek",
               OwnStack(doc, stack', status # "peek" /\ FirstIsFirst)
        PROVE  OwnInv'
    <2>1. doc' = doc /\ closed' = closed
      BY <1>5 DEF Same
    <2>2. FirstIsFirst' <=> FirstIsFirst
      BY <2>1 DEF FirstIsFirst
    <2>3. (status # "peek" /\ FirstIsFirst) <=> (status' # "peek" /\ FirstIsFirst')
      BY <1>5, <2>2
    <2>4. OwnStack(doc', stack', status' # "peek" /\ FirstIsFirst')
      BY <1>5, <2>1, <2>3 DEF OwnStack
    <2> QED BY <1>1, <1>3, <2>1, <2>4 DEF OwnInv
  <1>6. CASE Peek
    <2>1. OwnStack(doc, stack', FirstIsFirst)
      BY <1>2, <1>6, OwnPeek
    <2>2. doc' = doc /\ closed' = closed /\ status' = "reading"
      BY <1>6 DEF Peek, Same
    <2>3. FirstIsFirst' <=> FirstIsFirst
      BY <2>2 DEF FirstIsFirst
    <2>4. OwnStack(doc', stack', status' # "peek" /\ FirstIsFirst')
      BY <2>1, <2>2, <2>3 DEF OwnStack
    <2> QED BY <1>1, <1>3, <2>2, <2>4 DEF OwnInv
  <1>7. CASE FastField
    <2>1. /\ Top.pass = "fast" /\ Untried /\ Matches /\ Store(Top.field) /\ Same
          /\ status = "reading"
      BY <1>7 DEF FastField, Reading
    <2>2. Fits(Top.field)
      BY <1>2, <2>1, OwnFacts, FastFits
    <2> QED BY <1>2, <1>5, <2>1, <2>2, OwnStore
  <1>8. CASE FastEnd \/ FastDone \/ SlowEnd
    <2>1. status = "reading" /\ AtEnd /\ Leave /\ Same
      BY <1>8 DEF FastEnd, FastDone, SlowEnd, Reading
    <2> QED BY <1>2, <1>5, <2>1, OwnLeave
  <1>9. CASE FastMiss
    <2> DEFINE new == [Top EXCEPT !.field = @ + 1]
    <2>1. /\ Top.pass = "fast" /\ Untried /\ ~ AtEnd /\ ~ Matches /\ Same /\ status = "reading"
          /\ stack' = WithTop(new) /\ status' = status
      BY <1>9 DEF FastMiss, Reading, Continue
    <2>2. Ahead(Top.level, Input, new)
      BY <1>2, <2>1, OwnMiss
    <2>3. new.pass = Top.pass
      BY <1>2, OwnTop DEF Frames
    <2> HIDE DEF new
    <2>4. OwnStack(doc, stack', status # "peek" /\ FirstIsFirst)
      BY <1>2, <2>1, <2>2, <2>3, OwnReplaced
    <2> QED BY <1>5, <2>1, <2>4
  <1>10. CASE Rewind
    BY <1>2, <1>10, OwnNeverRewinds DEF Rewind, Reading
  <1>11. CASE SlowField
    <2>1. Top.pass = "slow" /\ ~ AtEnd /\ Same /\ status = "reading"
      BY <1>11 DEF SlowField, Reading
    <2>2. PICK i \in Case(Here.key) : IF i \in Top.seen THEN Fail ELSE Store(i)
      BY <1>11 DEF SlowField
    <2>3. CASE i \in Top.seen
      <3>1. stack' = stack /\ status' = "failed"
        BY <2>2, <2>3 DEF Fail
      <3> QED BY <1>2, <1>5, <2>1, <3>1, OwnFacts
    <2>4. CASE i \notin Top.seen
      <3>1. i \in DOMAIN SchemaOf(Top.level) /\ FieldIn(Top.level, Here) = i
        BY <1>2, <2>2, OwnTop, FieldFacts DEF Case, Field
      <3>2. Fits(i)
        BY <2>1, <2>4, <3>1 DEF Fits
      <3> QED BY <1>2, <1>5, <2>1, <2>2, <2>4, <3>2, OwnStore
    <2> QED BY <2>3, <2>4
  <1>12. CASE SlowUnknown
    <2>1. Top.pass = "slow" /\ ~ AtEnd /\ Same /\ status = "reading"
      BY <1>12 DEF SlowUnknown, Reading
    <2>2. CASE Fail
      <3>1. stack' = stack /\ status' = "failed"
        BY <2>2 DEF Fail
      <3> QED BY <1>2, <1>5, <2>1, <3>1, OwnFacts
    <2>3. CASE Continue(WithTop([Top EXCEPT !.pos = @ + 1]))
      <3> DEFINE new == [Top EXCEPT !.pos = @ + 1]
      <3>1. stack' = WithTop(new) /\ status' = status
        BY <2>3 DEF Continue
      <3>2. new.pass = "slow"
        BY <1>2, <2>1, OwnTop DEF Frames
      <3> HIDE DEF new
      <3>3. Ahead(Top.level, Input, new)
        BY <3>2 DEF Ahead
      <3>4. OwnStack(doc, stack', status # "peek" /\ FirstIsFirst)
        BY <1>2, <2>1, <3>1, <3>2, <3>3, OwnReplaced
      <3> QED BY <1>5, <2>1, <3>1, <3>4
    <2> QED BY <1>12, <2>2, <2>3 DEF SlowUnknown
  <1>13. CASE UNCHANGED vars
    <2>1. doc' = doc /\ closed' = closed /\ stack' = stack /\ status' = status
      BY <1>13 DEF vars
    <2>2. OwnStack(doc', stack', status' # "peek" /\ FirstIsFirst')
      BY <1>2, <2>1, OwnFacts DEF FirstIsFirst, OwnStack
    <2> QED BY <1>1, <1>3, <2>1, <2>2 DEF OwnInv
  <1> QED BY <1>4, <1>6, <1>7, <1>8, <1>9, <1>10, <1>11, <1>12, <1>13 DEF Next

LEMMA OwnIsReadBack ==
  IInv /\ OwnInv => ReadsOwnOutput
  <1> SUFFICES ASSUME IInv, OwnInv, source = "encoded" PROVE ReadsOwnOutput
    BY DEF ReadsOwnOutput
  <1>1. Own
    BY DEF Own
  <1>2. /\ message \in Encodable /\ doc = Encoded(message) /\ DOMAIN doc = 1 .. Len(doc)
        /\ Types /\ OwnStack(doc, stack, status # "peek" /\ FirstIsFirst)
    BY <1>1, OwnFacts
  <1>3. /\ LegalIn(discard, 1, doc)
        /\ \A k \in DOMAIN doc : ~ HasNullItem(doc[k]) /\ ~ Stray(1, doc[k])
        /\ InOrder(1, doc)
        /\ \A k \in DOMAIN doc : Kept(message)[FieldIn(1, doc[k])]
                                   = ValueIn(1, FieldIn(1, doc[k]), doc[k])
        /\ \A i \in DOMAIN Schema :
             Kept(message)[i] # Absent => \E k \in DOMAIN doc : FieldIn(1, doc[k]) = i
    BY <1>2, EncodedFacts
  <1>4. status # "failed"
    BY <1>3 DEF IInv, Verdict
  <1>5. ASSUME status = "done" PROVE stack[1].fields = Kept(message)
    <2>1. stack[1].pos = Len(doc) /\ Read(discard, 1, doc, stack[1])
      BY <1>5 DEF IInv, Verdict, Standing
    <2>2. PICK a : a = stack[1]
      OBVIOUS
    <2>3. a.pos = Len(doc) /\ Read(discard, 1, doc, a)
      BY <2>1, <2>2
    <2>4. a.fields \in [DOMAIN Schema -> Contents(1)]
      BY <2>3 DEF Read, Frames, SchemaOf
    <2> DEFINE kept == Kept(message)
    <2>5. kept = [i \in DOMAIN Schema |-> kept[i]]
      BY DEF Kept
    <2> HIDE DEF kept
    <2>6. ASSUME NEW i \in DOMAIN Schema PROVE a.fields[i] = kept[i]
      <3>1. i # 0
        BY SchemaFacts DEF Levels, SchemaOf
      <3>2. CASE \E k \in DOMAIN doc : FieldIn(1, doc[k]) = i
        <4>1. PICK k \in DOMAIN doc : FieldIn(1, doc[k]) = i
          BY <3>2
        <4>2. a.fields[i] = ValueIn(1, i, doc[k])
          BY <1>2, <1>3, <2>3, <3>1, <4>1 DEF Read
        <4> QED BY <1>3, <4>1, <4>2 DEF kept
      <3>3. CASE \A k \in DOMAIN doc : FieldIn(1, doc[k]) # i
        <4>1. \A k \in 1 .. Len(doc) : FieldIn(1, doc[k]) # i
          BY <1>2, <3>3
        <4>2. i \notin a.seen
          BY <2>3, <4>1 DEF Read
        <4>3. a.fields[i] = Absent
          BY <2>3, <4>2 DEF Read, SchemaOf
        <4>4. kept[i] = Absent
          BY <1>3, <3>3 DEF kept
        <4> QED BY <4>3, <4>4
      <3> QED BY <3>2, <3>3
    <2> QED BY <2>2, <2>4, <2>5, <2>6 DEF kept
  <1>6. status # "peek" /\ doc # <<>> /\ doc[1].key = Schema[1].json =>
          \A k \in DOMAIN stack : stack[k].pass = "fast"
    BY <1>2 DEF OwnStack, FirstIsFirst
  <1> QED BY <1>4, <1>5, <1>6 DEF ReadsOwnOutput

\* No field of bytes is present and empty, in the message and in those it holds.
NoEmptyBytes ==
  \A i \in DOMAIN Schema :
    /\ ~ EmptyBytes(Schema[i], message[i])
    /\ \A n \in MessagesOf(Inner, {}) :
         message[i] = Object(n) => \A j \in DOMAIN Inner : ~ EmptyBytes(Inner[j], n[j])

LEMMA WithoutNone ==
  ASSUME NEW schema, NEW objects, NEW fields \in MessagesOf(schema, objects),
         \A i \in DOMAIN schema : ~ EmptyBytes(schema[i], fields[i])
  PROVE  Without(schema, fields) = fields
  <1>1. fields = [i \in DOMAIN schema |-> fields[i]]
    BY MessageFacts
  <1> QED BY <1>1 DEF Without

LEMMA KeptWhole ==
  ASSUME message \in Encodable, NoEmptyBytes
  PROVE  Kept(message) = message
  <1>1. message \in MessagesOf(Schema, InnerObjects)
    BY DEF Encodable, InnerObjects
  <1>2. /\ message = [i \in DOMAIN Schema |-> message[i]]
        /\ \A i \in DOMAIN Schema : message[i] \in ValuesOf(Schema[i], InnerObjects)
    BY <1>1, MessageFacts
  <1>3. ASSUME NEW i \in DOMAIN Schema PROVE Kept(message)[i] = message[i]
    <2>1. Schema[i].kind \in Outer!Kinds
      BY SchemaFacts DEF Levels, SchemaOf
    <2>2. message[i] \in InnerObjects
            \/ message[i] \in {Absent, Is("nullValue"), Is("default"), Is("value")}
      BY <1>2, <2>1, ShownValues
    <2>3. CASE message[i] \in InnerObjects
      <3>1. PICK n \in MessagesOf(Inner, {}) : message[i] = Object(n)
        BY <2>3 DEF InnerObjects
      <3>2. Without(Inner, n) = n
        BY <3>1, WithoutNone DEF NoEmptyBytes
      <3> QED BY <3>1, <3>2, KeptFacts
    <2>4. CASE message[i] \in {Absent, Is("nullValue"), Is("default"), Is("value")}
      <3>1. ~ EmptyBytes(Schema[i], message[i])
        BY DEF NoEmptyBytes
      <3> QED BY <2>4, <3>1, KeptFacts DEF ShownIn
    <2> QED BY <2>2, <2>3, <2>4
  <1>4. Kept(message) = [i \in DOMAIN Schema |-> Kept(message)[i]]
    BY DEF Kept
  <1> QED BY <1>2, <1>3, <1>4

LEMMA OwnKeepsPresence ==
  IInv /\ OwnInv => (NoEmptyBytes => KeepsPresence)
  <1> SUFFICES ASSUME IInv, OwnInv, NoEmptyBytes, source = "encoded", status = "done"
               PROVE  stack[1].fields = message
    BY DEF KeepsPresence
  <1>1. message \in Encodable
    BY DEF OwnInv
  <1>2. stack[1].fields = Kept(message)
    BY OwnIsReadBack DEF ReadsOwnOutput
  <1> QED BY <1>1, <1>2, KeptWhole

\* The generated decoder reads what the generated encoder wrote, whatever the
\* message, and the first pass is enough for it when the first field is there.
\* Nothing but empty bytes is lost, and without any the message is the same.
THEOREM ReadsItsOwnOutput ==
  Spec => [](ReadsOwnOutput /\ (NoEmptyBytes => KeepsPresence))
  <1>1. Spec => []IInv
    BY InitIInv, NextIInv, PTL DEF Spec
  <1>2. Spec => []OwnInv
    BY <1>1, InitOwn, NextOwn, PTL DEF Spec
  <1> QED BY <1>1, <1>2, OwnIsReadBack, OwnKeepsPresence, PTL
=============================================================================
