------------------------ MODULE TableUnmarshalProofs ------------------------
(***************************************************************************)
(* Proofs about TableUnmarshal, for any schema, mask width, target and     *)
(* document.                                                               *)
(***************************************************************************)
EXTENDS TableUnmarshal, SequenceTheorems, FiniteSetTheorems, TLAPS

Member == [key : Keys, token : Inputs]
AMember(key, token) == [key |-> key, token |-> token]

\* A key names one field or one extension.  DecodeSwappedNames.cfg shows what
\* becomes of a schema without it.
NamesApart ==
  /\ \A f, g \in Fields : f # g => Names(f) \cap Names(g) = {}
  /\ \A f \in Fields : Names(f) \cap Exts = {}

\* Fields that a discarded enum name leaves as they are: those of enums, and
\* the members of a oneof that has one.
LeftAlone(f) ==
  \E e \in Fields : /\ Kind(e) \in {"enum", "memberEnum"}
                    /\ e = f \/ (OneofOf(e) # 0 /\ OneofOf(e) = OneofOf(f))

\* The target holds nothing that a decode leaves behind.  DecodeStale.cfg with
\* either set of targets and DecodeStaleExtension.cfg are the cases it excludes.
NothingStale ==
  /\ \A e \in ExtTargets, x \in Exts : e[x] = "absent"
  /\ "unknownEnum" \in Inputs =>
       \A m \in Targets, f \in Fields : LeftAlone(f) => m[f] = "absent"
  /\ (\E w \in Widths : Len(Schema) > w) =>
       \A m \in Targets, f \in Fields : Kind(f) = "bytes" => m[f] # "default"

\* What has been read, by the meaning of the document.
FieldsRead(d) == {FieldOf(d[i]) : i \in DOMAIN d} \ {0}
OneofsRead(d) == {Occupied(d[i]) : i \in DOMAIN d} \ {0}
ExtsRead(d) == {d[i].key : i \in DOMAIN d} \cap Exts

StartInv == phase = "start" => doc = <<>>

\* The marks say what was read.
MarksInv ==
  phase # "failed" =>
    /\ seen = FieldsRead(doc)
    /\ seenOneofs = OneofsRead(doc)
    /\ seenExts = ExtsRead(doc)

\* The decoder fails at the first mistake, and at nothing else.
JudgedInv ==
  /\ phase # "failed" => Legal(doc, discard)
  /\ phase = "failed" => ~ Legal(doc, discard)

ExtDenotes(token) == IF token \in {"default", "value"} THEN token ELSE "absent"

\* What was read is in the message, and what the end of the object will not
\* clear is clear.
ReadInv ==
  /\ \A i \in DOMAIN doc :
       /\ FieldOf(doc[i]) # 0 =>
            target[FieldOf(doc[i])] = Denotes(FieldOf(doc[i]), doc[i].token)
       /\ doc[i].key \in Exts => exts[doc[i].key] = ExtDenotes(doc[i].token)
  /\ \A f \in Fields \ FieldsRead(doc) :
       \/ Wide
       \/ OneofOf(f) \in OneofsRead(doc)
       \/ "unknownEnum" \in Inputs /\ LeftAlone(f)
       => target[f] = "absent"
  /\ \A x \in Exts \ ExtsRead(doc) : exts[x] = "absent"

ContentInv ==
  /\ phase = "start" => target \in Targets /\ exts \in ExtTargets
  /\ phase = "reading" => ReadInv
  /\ phase = "done" => target = Meaning(doc) /\ exts = ExtMeaning(doc)

JudgeInv == TypeOK /\ StartInv /\ MarksInv /\ JudgedInv
ResultInv == JudgeInv /\ ContentInv
-----------------------------------------------------------------------------
(* Fields and their marks *)

LEMMA SchemaFacts ==
  /\ Len(Schema) \in Nat
  /\ Fields = 1 .. Len(Schema)
  /\ 0 \notin Fields
  /\ \A f \in Fields : OneofOf(f) \in Nat /\ (OneofOf(f) = 0 <=> Kind(f) \notin MemberKinds)
<1>1. Len(Schema) \in Nat /\ DOMAIN Schema = 1 .. Len(Schema)
  BY SchemaAssumption, LenProperties
<1>2. \A f \in 1 .. Len(Schema) :
         Schema[f] \in [json : STRING, proto : STRING, kind : Kinds, oneof : Nat]
  BY SchemaAssumption, ElementOfSeq
<1>3. \A f \in 1 .. Len(Schema) : OneofOf(f) \in Nat
  BY <1>2 DEF OneofOf
<1> QED BY <1>1, <1>3, SchemaAssumption DEF Fields

\* No bit is lost: a field has a mark of its own, and all fields are seen when
\* each is marked.
LEMMA FieldMarks ==
  ASSUME width \in Nat
  PROVE  /\ \A f \in Fields : FieldMark(f) = {f}
         /\ ~ Wide => \A f \in Fields : Bit(f) = {f}
         /\ ~ Wide => AllSeen = Fields
<1>1. ~ Wide => \A f \in Fields : Bit(f) = {f}
  BY SchemaFacts DEF Wide, Bit
<1>2. ~ Wide => AllSeen = Fields
  BY SchemaFacts DEF Wide, AllSeen
<1> QED BY <1>1, <1>2 DEF FieldMark

\* So has a oneof.
LEMMA OneofMarks ==
  ASSUME width \in Nat, NEW f \in Fields, OneofOf(f) # 0
  PROVE  OneofMark(OneofOf(f)) = {OneofOf(f)}
<1>1. PICK n \in 0 .. Len(Schema) : {OneofOf(g) : g \in Fields} \ {0} = 1 .. n
  BY OneofAssumption
<1>2. n \in Nat BY <1>1, SchemaFacts
<1>3. Cardinality(1 .. n) = n BY <1>2, FS_Interval
<1>4. OneofCount = n BY <1>1, <1>3 DEF OneofCount
<1>5. OneofOf(f) \in 1 .. n BY <1>1
<1> QED BY <1>2, <1>4, <1>5 DEF OneofMark, Bit
-----------------------------------------------------------------------------
(* Keys and the fields they name *)

LEMMA NamedField ==
  ASSUME NamesApart, NEW m, NEW f \in Fields, m.key \in Names(f)
  PROVE  /\ m.key \in DOMAIN FieldMap /\ FieldMap[m.key] = f
         /\ m.key \notin Exts
         /\ FieldOf(m) = f
<1> DEFINE k == m.key
<1>1. k \notin Exts /\ \A g \in Fields : k \in Names(g) => g = f
  BY DEF NamesApart
<1>2. k \in DOMAIN FieldMap /\ FieldMap[k] = f
  <2>1. k \in UNION {Names(g) : g \in Fields} OBVIOUS
  <2>2. FieldMap[k] = CHOOSE g \in Fields :
                        k \in Names(g) /\ \A h \in Fields : k \in Names(h) => h <= g
    BY <2>1 DEF FieldMap
  <2>3. f <= f BY SchemaFacts
  <2>4. \E g \in Fields : k \in Names(g) /\ \A h \in Fields : k \in Names(h) => h <= g
    BY <1>1, <2>3
  <2> QED BY <1>1, <2>1, <2>2, <2>4 DEF FieldMap
<1>3. k \in DOMAIN Owner /\ Owner[k] = f
  <2>1. k \in UNION {Names(g) : g \in Fields} OBVIOUS
  <2>2. Owner[k] = IF \E g \in Fields : Schema[g].json = k
                   THEN CHOOSE g \in Fields : Schema[g].json = k
                   ELSE CHOOSE g \in Fields : Schema[g].proto = k
    BY <2>1 DEF Owner
  <2>3. \A g \in Fields : Schema[g].json = k \/ Schema[g].proto = k => g = f
    BY <1>1 DEF Names
  <2>4. Schema[f].json = k \/ Schema[f].proto = k BY DEF Names
  <2>5. CASE \E g \in Fields : Schema[g].json = k
    BY <2>2, <2>3, <2>5, <2>1 DEF Owner
  <2>6. CASE ~ \E g \in Fields : Schema[g].json = k
    BY <2>2, <2>3, <2>4, <2>6, <2>1 DEF Owner
  <2> QED BY <2>5, <2>6
<1> QED BY <1>1, <1>2, <1>3 DEF FieldOf

LEMMA UnnamedKey ==
  ASSUME NEW m, m.key \notin UNION {Names(f) : f \in Fields}
  PROVE  /\ m.key \notin DOMAIN FieldMap
         /\ ~ Hinted(m.key)
         /\ FieldOf(m) = 0
  BY DEF FieldMap, Hinted, FieldOf, Owner

LEMMA MemberFacts ==
  ASSUME NamesApart, NEW m
  PROVE  /\ FieldOf(m) \in Fields \cup {0}
         /\ m.key \in Exts => FieldOf(m) = 0 /\ ~ Hinted(m.key)
         /\ Instruction(m.key) = FieldOf(m)
         /\ FieldOf(m) # 0 => m.key \notin Exts
<1>1. CASE \E f \in Fields : m.key \in Names(f)
  <2>1. PICK f \in Fields : m.key \in Names(f) BY <1>1
  <2>2. /\ m.key \in DOMAIN FieldMap /\ FieldMap[m.key] = f
        /\ m.key \notin Exts /\ FieldOf(m) = f
    BY <2>1, NamedField
  <2>3. Hinted(m.key) => nextIdx = f
    BY <2>1 DEF Hinted, NamesApart
  <2> QED BY <2>2, <2>3 DEF Instruction
<1>2. CASE ~ \E f \in Fields : m.key \in Names(f)
  BY <1>2, UnnamedKey DEF Instruction
<1> QED BY <1>1, <1>2
-----------------------------------------------------------------------------
(* A document with one more member *)

ReadableMember(m, d) ==
  /\ d \/ ((m.key \in Exts \/ FieldOf(m) # 0) /\ m.token # "unknownEnum")
  /\ m.token # "malformed"

\* Member m is no mistake after those of ms.
Follows(ms, m, d) ==
  /\ FieldOf(m) \notin FieldsRead(ms)
  /\ Occupied(m) \notin OneofsRead(ms)
  /\ m.key \notin ExtsRead(ms)
  /\ ReadableMember(m, d)

LEMMA AppendFacts ==
  ASSUME NEW S, NEW ms \in Seq(S), NEW m \in S
  PROVE  /\ Append(ms, m) \in Seq(S)
         /\ Len(ms) \in Nat /\ Len(Append(ms, m)) = Len(ms) + 1
         /\ DOMAIN ms = 1 .. Len(ms)
         /\ DOMAIN Append(ms, m) = DOMAIN ms \cup {Len(ms) + 1}
         /\ Len(ms) + 1 \notin DOMAIN ms
         /\ Append(ms, m)[Len(ms) + 1] = m
         /\ \A i \in DOMAIN ms : Append(ms, m)[i] = ms[i]
<1>1. /\ Append(ms, m) \in Seq(S)
      /\ Len(Append(ms, m)) = Len(ms) + 1
      /\ \A i \in 1 .. Len(ms) : Append(ms, m)[i] = ms[i]
      /\ Append(ms, m)[Len(ms) + 1] = m
  BY AppendProperties
<1>2. Len(ms) \in Nat /\ DOMAIN ms = 1 .. Len(ms) BY LenProperties
<1>3. DOMAIN Append(ms, m) = 1 .. Len(ms) + 1 BY <1>1, LenProperties
<1> QED BY <1>1, <1>2, <1>3

LEMMA ReadAppend ==
  ASSUME NEW S, NEW ms \in Seq(S), NEW m \in S
  PROVE  /\ FieldsRead(Append(ms, m)) = FieldsRead(ms) \cup ({FieldOf(m)} \ {0})
         /\ OneofsRead(Append(ms, m)) = OneofsRead(ms) \cup ({Occupied(m)} \ {0})
         /\ ExtsRead(Append(ms, m)) = ExtsRead(ms) \cup ({m.key} \cap Exts)
<1> DEFINE ns == Append(ms, m)
<1>1. /\ DOMAIN ns = DOMAIN ms \cup {Len(ms) + 1}
      /\ ns[Len(ms) + 1] = m
      /\ \A i \in DOMAIN ms : ns[i] = ms[i]
  BY AppendFacts
<1> HIDE DEF ns
<1>2. FieldsRead(ns) = FieldsRead(ms) \cup ({FieldOf(m)} \ {0}) BY <1>1 DEF FieldsRead
<1>3. OneofsRead(ns) = OneofsRead(ms) \cup ({Occupied(m)} \ {0}) BY <1>1 DEF OneofsRead
<1>4. ExtsRead(ns) = ExtsRead(ms) \cup ({m.key} \cap Exts) BY <1>1 DEF ExtsRead
<1> QED BY <1>2, <1>3, <1>4 DEF ns

\* A legal document stays legal exactly when what follows is no mistake.
LEMMA LegalAppend ==
  ASSUME NEW S, NEW ms \in Seq(S), NEW m \in S, NEW d
  PROVE  Legal(Append(ms, m), d) <=> Legal(ms, d) /\ Follows(ms, m, d)
<1> DEFINE ns == Append(ms, m)
           n == Len(ms) + 1
<1>1. /\ DOMAIN ns = DOMAIN ms \cup {n} /\ n \notin DOMAIN ms
      /\ ns[n] = m
      /\ \A i \in DOMAIN ms : ns[i] = ms[i]
  BY AppendFacts
<1> HIDE DEF ns, n
<1>2. Readable(ns, d) <=> Readable(ms, d) /\ ReadableMember(m, d)
  BY <1>1 DEF Readable, ReadableMember
<1>3. NoneTwice(ns) => NoneTwice(ms)
  BY <1>1 DEF NoneTwice
<1>4. NoneTwice(ns) => /\ FieldOf(m) \notin FieldsRead(ms)
                       /\ Occupied(m) \notin OneofsRead(ms)
                       /\ m.key \notin ExtsRead(ms)
  <2> SUFFICES ASSUME NoneTwice(ns), NEW i \in DOMAIN ms
               PROVE  /\ FieldOf(ms[i]) # 0 => FieldOf(ms[i]) # FieldOf(m)
                      /\ Occupied(ms[i]) # 0 => Occupied(ms[i]) # Occupied(m)
                      /\ ms[i].key \in Exts => ms[i].key # m.key
    BY DEF FieldsRead, OneofsRead, ExtsRead
  <2> QED BY <1>1 DEF NoneTwice
<1>5. ASSUME NoneTwice(ms), FieldOf(m) \notin FieldsRead(ms),
             Occupied(m) \notin OneofsRead(ms), m.key \notin ExtsRead(ms),
             NEW i \in DOMAIN ns, NEW j \in DOMAIN ns, i # j
      PROVE  /\ FieldOf(ns[i]) # 0 => FieldOf(ns[i]) # FieldOf(ns[j])
             /\ Occupied(ns[i]) # 0 => Occupied(ns[i]) # Occupied(ns[j])
             /\ ns[i].key \in Exts => ns[i].key # ns[j].key
  <2>1. \A k \in DOMAIN ms : /\ FieldOf(ms[k]) = FieldOf(m) => FieldOf(m) = 0
                             /\ Occupied(ms[k]) = Occupied(m) => Occupied(m) = 0
                             /\ ms[k].key = m.key => m.key \notin Exts
    BY <1>5 DEF FieldsRead, OneofsRead, ExtsRead
  <2>2. CASE i \in DOMAIN ms /\ j \in DOMAIN ms
    BY <1>1, <1>5, <2>2 DEF NoneTwice
  <2>3. CASE i = n /\ j \in DOMAIN ms
    BY <1>1, <2>1, <2>3
  <2>4. CASE i \in DOMAIN ms /\ j = n
    BY <1>1, <2>1, <2>4
  <2> QED BY <1>1, <1>5, <2>2, <2>3, <2>4
<1>6. NoneTwice(ms) /\ FieldOf(m) \notin FieldsRead(ms)
        /\ Occupied(m) \notin OneofsRead(ms) /\ m.key \notin ExtsRead(ms) => NoneTwice(ns)
  BY <1>5 DEF NoneTwice
<1> QED BY <1>2, <1>3, <1>4, <1>6 DEF Legal, Follows, ns
-----------------------------------------------------------------------------
(* Types *)

LEMMA WithValue ==
  ASSUME NEW f \in Fields, NEW v
  PROVE  /\ With(f, v)[f] = v
         /\ \A g \in Fields : g # f =>
              With(f, v)[g] = IF OneofOf(f) # 0 /\ OneofOf(g) = OneofOf(f)
                              THEN "absent" ELSE target[g]
  BY DEF With

LEMMA WithIsMessage ==
  ASSUME target \in Messages, NEW f \in Fields, NEW v \in Values
  PROVE  With(f, v) \in Messages
<1>1. target \in [Fields -> Values] BY DEF Messages
<1>2. "absent" \in Values BY DEF Values
<1>3. With(f, v) \in [Fields -> Values]
  <2>1. \A g \in Fields : With(f, v)[g] \in Values
    BY <1>1, <1>2, WithValue
  <2>2. With(f, v) = [g \in Fields |-> With(f, v)[g]] BY DEF With
  <2> QED BY <2>1, <2>2
<1>4. ASSUME NEW g \in Fields, NEW h \in Fields,
             g # h, OneofOf(g) = OneofOf(h), OneofOf(h) # 0
      PROVE  "absent" \in {With(f, v)[g], With(f, v)[h]}
  <2>1. "absent" \in {target[g], target[h]} BY <1>4 DEF Messages
  <2>2. CASE g = f BY <1>4, <2>2, WithValue
  <2>3. CASE h = f BY <1>4, <2>3, WithValue
  <2>4. CASE g # f /\ h # f BY <1>4, <2>1, <2>4, WithValue
  <2> QED BY <2>2, <2>3, <2>4
<1> QED BY <1>3, <1>4 DEF Messages

\* Clearing fields of a message leaves a message.
LEMMA ClearedIsMessage ==
  ASSUME target \in Messages, NEW m, m = [f \in Fields |-> m[f]],
         \A f \in Fields : m[f] \in {target[f], "absent"}
  PROVE  m \in Messages
<1>1. target \in [Fields -> Values] /\ "absent" \in Values BY DEF Messages, Values
<1>2. m \in [Fields -> Values] BY <1>1
<1>3. ASSUME NEW g \in Fields, NEW h \in Fields,
             g # h, OneofOf(g) = OneofOf(h), OneofOf(h) # 0
      PROVE  "absent" \in {m[g], m[h]}
  <2>1. "absent" \in {target[g], target[h]} BY <1>3 DEF Messages
  <2> QED BY <2>1
<1> QED BY <1>2, <1>3 DEF Messages

LEMMA TargetForms ==
  ASSUME target \in Messages, NEW f \in Fields
  PROVE  /\ StoreNull(f) \in Messages
         /\ \A token \in Tokens : StoreValue(f, token) \in Messages
         /\ StoreDiscarded(f) \in Messages
         /\ StoreBroken(f) \in Messages
         /\ ClearMissing \in Messages
         /\ [g \in Fields |-> "absent"] \in Messages
<1>1. target \in [Fields -> Values] BY DEF Messages
<1>2. Cleared(f) \in Messages
  <2>1. Cleared(f) = [g \in Fields |-> IF g = f THEN "absent" ELSE target[g]]
    BY <1>1 DEF Cleared
  <2> DEFINE m == Cleared(f)
  <2>2. m = [g \in Fields |-> m[g]] BY <2>1
  <2>3. \A g \in Fields : m[g] \in {target[g], "absent"} BY <2>1
  <2> HIDE DEF m
  <2>4. m \in Messages BY <2>2, <2>3, ClearedIsMessage
  <2> QED BY <2>4 DEF m
<1>3. ClearMissing \in Messages
  <2> DEFINE m == ClearMissing
  <2>1. m = [g \in Fields |-> m[g]] BY DEF ClearMissing
  <2>2. \A g \in Fields : m[g] \in {target[g], "absent"} BY DEF ClearMissing
  <2> HIDE DEF m
  <2>3. m \in Messages BY <2>1, <2>2, ClearedIsMessage
  <2> QED BY <2>3 DEF m
<1>4. [g \in Fields |-> "absent"] \in Messages
  <2> DEFINE m == [g \in Fields |-> "absent"]
  <2>1. m = [g \in Fields |-> m[g]] OBVIOUS
  <2>2. \A g \in Fields : m[g] \in {target[g], "absent"} OBVIOUS
  <2> HIDE DEF m
  <2>3. m \in Messages BY <2>1, <2>2, ClearedIsMessage
  <2> QED BY <2>3 DEF m
<1>5. StoreNull(f) \in Messages
  BY <1>2, WithIsMessage DEF StoreNull, Values
<1>6. ASSUME NEW token \in Tokens
      PROVE  StoreValue(f, token) \in Messages
  <2>1. Denotes(f, token) \in Values BY DEF Denotes, Values, Tokens
  <2> QED BY <2>1, WithIsMessage DEF StoreValue
<1>7. StoreDiscarded(f) \in Messages BY <1>2 DEF StoreDiscarded
<1>8. StoreBroken(f) \in Messages
  <2>1. With(f, "default") \in Messages BY WithIsMessage DEF Values
  <2> QED BY <1>2, <2>1 DEF StoreBroken
<1> QED BY <1>3, <1>4, <1>5, <1>6, <1>7, <1>8
\* Two fields at most share a name, so the field map has the later of them.
LEMMA InstructionIsField ==
  ASSUME NEW key
  PROVE  Instruction(key) \in Fields \cup {0}
<1>1. CASE Hinted(key)
  BY <1>1 DEF Instruction, Hinted
<1>2. CASE ~ Hinted(key) /\ key \in DOMAIN FieldMap
  <2>1. PICK f \in Fields : key \in Names(f) BY <1>2 DEF FieldMap
  <2>2. FieldMap[key] = CHOOSE g \in Fields :
                          key \in Names(g) /\ \A h \in Fields : key \in Names(h) => h <= g
    BY <2>1 DEF FieldMap
  <2>3. Fields \subseteq Nat BY SchemaFacts
  <2>4. PICK g \in Fields : \A h \in Fields : key \in Names(h) => h = f \/ h = g
    <3>1. CASE Schema[f].json = key
      <4>1. \A h \in Fields : Schema[h].json = key => h = f
        BY <3>1, SchemaAssumption
      <4>2. CASE \E g \in Fields : Schema[g].proto = key
        <5>1. PICK g \in Fields : Schema[g].proto = key BY <4>2
        <5>2. \A h \in Fields : Schema[h].proto = key => h = g
          BY <5>1, SchemaAssumption
        <5> QED BY <4>1, <5>2 DEF Names
      <4> QED BY <4>1, <4>2 DEF Names
    <3>2. CASE Schema[f].json # key
      <4>1. Schema[f].proto = key BY <2>1, <3>2 DEF Names
      <4>2. \A h \in Fields : Schema[h].proto = key => h = f
        BY <4>1, SchemaAssumption
      <4>3. CASE \E g \in Fields : Schema[g].json = key
        <5>1. PICK g \in Fields : Schema[g].json = key BY <4>3
        <5>2. \A h \in Fields : Schema[h].json = key => h = g
          BY <5>1, SchemaAssumption
        <5> QED BY <4>2, <5>2 DEF Names
      <4> QED BY <4>2, <4>3 DEF Names
    <3> QED BY <3>1, <3>2
  <2>5. \E l \in Fields : key \in Names(l) /\ \A h \in Fields : key \in Names(h) => h <= l
    <3>1. CASE key \in Names(g) /\ f <= g BY <2>3, <2>4, <3>1
    <3>2. CASE ~ (key \in Names(g) /\ f <= g) BY <2>1, <2>3, <2>4, <3>2
    <3> QED BY <3>1, <3>2
  <2> QED BY <1>2, <2>2, <2>5 DEF Instruction
<1> QED BY <1>1, <1>2 DEF Instruction

LEMMA MarkTypes ==
  ASSUME NEW f \in Fields
  PROVE  /\ FieldMark(f) \subseteq Fields
         /\ \A token : TakesOneof(f, token) =>
              OneofMark(OneofOf(f)) \subseteq {OneofOf(g) : g \in Fields} \ {0}
<1>1. FieldMark(f) \subseteq {f} BY DEF FieldMark, Bit
<1>2. OneofMark(OneofOf(f)) \subseteq {OneofOf(f)} BY DEF OneofMark, Bit
<1>3. \A token : TakesOneof(f, token) => OneofOf(f) # 0
  BY SchemaFacts DEF TakesOneof
<1> QED BY <1>1, <1>2, <1>3

LEMMA ReadTypes ==
  ASSUME TypeOK, NEW key \in Keys, NEW token \in Inputs, Read(key, token)
  PROVE  /\ doc' \in Seq(Member) /\ Len(doc') <= MaxDoc
         /\ AMember(key, token) \in Member /\ doc \in Seq(Member)
         /\ doc' = Append(doc, AMember(key, token))
         /\ phase = "reading"
<1>1. doc \in Seq(Member) BY DEF TypeOK, Member
<1>2. AMember(key, token) \in Member BY DEF Member, AMember
<1>3. doc' = Append(doc, AMember(key, token)) BY DEF Read, AMember
<1>4. doc' \in Seq(Member) /\ Len(doc') = Len(doc) + 1 /\ Len(doc) \in Nat
  BY <1>1, <1>2, <1>3, AppendFacts
<1>5. Len(doc) < MaxDoc /\ MaxDoc \in Nat BY DecodeAssumption DEF Read
<1> QED BY <1>1, <1>2, <1>3, <1>4, <1>5 DEF Read

LEMMA InitTypes == Init => TypeOK
<1> SUFFICES ASSUME Init PROVE TypeOK OBVIOUS
<1>1. target \in Messages /\ exts \in [Exts -> Values]
  BY DecodeAssumption DEF Init
<1>2. nextIdx \in 1 .. Len(Schema) + 1 BY SchemaFacts DEF Init
<1>3. doc \in Seq([key : Keys, token : Inputs]) /\ Len(doc) <= MaxDoc
  BY EmptySeq, DecodeAssumption DEF Init
<1> QED BY <1>1, <1>2, <1>3 DEF Init, TypeOK

LEMMA NextTypes == TypeOK /\ [Next]_vars => TypeOK'
<1> SUFFICES ASSUME TypeOK, [Next]_vars PROVE TypeOK' OBVIOUS
<1> USE DEF options
<1>1. CASE Begin
  <2>1. target' \in Messages
    <3>1. CASE Fields = {} 
      <4>1. target' = target \/ target' = [f \in Fields |-> "absent"] BY <1>1 DEF Begin
      <4>2. target \in Messages /\ target \in [Fields -> Values] BY DEF TypeOK, Messages
      <4>3. [f \in Fields |-> "absent"] = target BY <3>1, <4>2
      <4> QED BY <4>1, <4>2, <4>3
    <3>2. CASE Fields # {}
      <4>1. [f \in Fields |-> "absent"] \in Messages BY <3>2, TargetForms DEF TypeOK
      <4> QED BY <1>1, <4>1 DEF Begin, TypeOK
    <3> QED BY <3>1, <3>2
  <2> QED BY <1>1, <2>1 DEF Begin, TypeOK
<1>2. ASSUME NEW key \in Keys, NEW token \in Inputs, ReadExtension(key, token)
      PROVE  TypeOK'
  <2>1. doc' \in Seq(Member) /\ Len(doc') <= MaxDoc BY <1>2, ReadTypes DEF ReadExtension
  <2>2. key \in Exts /\ exts \in [Exts -> Values] BY <1>2 DEF ReadExtension, TypeOK
  <2>3. exts' \in [Exts -> Values]
    <3>1. \A v \in Values : [exts EXCEPT ![key] = v] \in [Exts -> Values] BY <2>2
    <3>2. token \in {"null", "default", "value"} =>
            (IF token = "null" THEN "absent" ELSE token) \in Values
      BY DEF Values
    <3> QED BY <1>2, <2>2, <3>1, <3>2 DEF ReadExtension
  <2>4. phase' \in {"reading", "failed"} BY <1>2 DEF ReadExtension, Read
  <2>5. seenExts' \subseteq Exts BY <1>2, <2>2 DEF ReadExtension, TypeOK
  <2> QED BY <1>2, <2>1, <2>3, <2>4, <2>5 DEF ReadExtension, TypeOK, Member
<1>3. ASSUME NEW key \in Keys, NEW token \in Inputs, ReadUnknown(key, token)
      PROVE  TypeOK'
  <2>1. doc' \in Seq(Member) /\ Len(doc') <= MaxDoc BY <1>3, ReadTypes DEF ReadUnknown
  <2> QED BY <1>3, <2>1 DEF ReadUnknown, TypeOK, Member
<1>4. ASSUME NEW key \in Keys, NEW token \in Inputs, ReadField(key, token)
      PROVE  TypeOK'
  <2> DEFINE f == Instruction(key)
  <2>1. doc' \in Seq(Member) /\ Len(doc') <= MaxDoc BY <1>4, ReadTypes DEF ReadField
  <2>2. f \in Fields BY <1>4, InstructionIsField DEF ReadField
  <2>3. nextIdx' \in 1 .. Len(Schema) + 1 
    <3>1. nextIdx' = f + 1 BY <1>4 DEF ReadField
    <3> QED BY <2>2, <3>1, SchemaFacts
  <2>4. target' \in Messages
    <3>1. target \in Messages /\ token \in Tokens BY DecodeAssumption DEF TypeOK
    <3>2. \/ target' = StoreNull(f) 
          \/ target' = StoreValue(f, token)
          \/ target' = StoreDiscarded(f)
          \/ target' = StoreBroken(f)
      BY <1>4 DEF ReadField
    <3> QED BY <2>2, <3>1, <3>2, TargetForms
  <2>5. phase' \in {"reading", "failed"} BY <1>4 DEF ReadField, Read
  <2>6. seen' \subseteq Fields /\ seenOneofs' \subseteq {OneofOf(g) : g \in Fields} \ {0}
    BY <1>4, <2>2, MarkTypes DEF ReadField, TypeOK
  <2> HIDE DEF f
  <2> QED BY <1>4, <2>1, <2>3, <2>4, <2>5, <2>6 DEF ReadField, TypeOK, Member
<1>5. ASSUME NEW key \in Keys, NEW token \in Inputs, RejectField(key, token)
      PROVE  TypeOK'
  <2> DEFINE f == Instruction(key)
  <2>1. doc' \in Seq(Member) /\ Len(doc') <= MaxDoc BY <1>5, ReadTypes DEF RejectField
  <2>2. f \in Fields BY <1>5, InstructionIsField DEF RejectField
  <2>3. nextIdx' \in 1 .. Len(Schema) + 1 
    <3>1. nextIdx' = f + 1 BY <1>5 DEF RejectField
    <3> QED BY <2>2, <3>1, SchemaFacts
  <2>4. seenOneofs' \subseteq {OneofOf(g) : g \in Fields} \ {0}
    BY <1>5, <2>2, MarkTypes DEF RejectField, TypeOK
  <2> HIDE DEF f
  <2> QED BY <1>5, <2>1, <2>3, <2>4 DEF RejectField, TypeOK, Member
<1>6. CASE EndObject
  <2>1. target' \in Messages
    <3>1. target \in Messages BY DEF TypeOK
    <3>2. CASE Fields = {} 
      <4>1. target \in [Fields -> Values] BY DEF TypeOK, Messages
      <4>2. ClearMissing = target BY <3>2, <4>1 DEF ClearMissing
      <4> QED BY <1>6, <3>1, <4>2 DEF EndObject
    <3>3. CASE Fields # {}
      BY <1>6, <3>1, <3>3, TargetForms DEF EndObject
    <3> QED BY <3>2, <3>3
  <2> QED BY <1>6, <2>1 DEF EndObject, TypeOK
<1>7. CASE UNCHANGED vars
  BY <1>7 DEF vars, TypeOK
<1> QED BY <1>1, <1>2, <1>3, <1>4, <1>5, <1>6, <1>7 DEF Next

\* The decoder keeps its types, whatever the schema, the target and the width:
\* in particular the target never has two members of one oneof.
THEOREM DecoderTypes == Spec => []TypeOK
  BY InitTypes, NextTypes, PTL DEF Spec
-----------------------------------------------------------------------------
(* Which documents are accepted *)

\* A member m was read after ms: a mistake ends the decode, and what is not one
\* is marked.
MarksMember(m) ==
  /\ doc' = Append(doc, m)
  /\ UNCHANGED options
  /\ phase = "reading" /\ phase' \in {"reading", "failed"}
  /\ phase' = "failed" <=> ~ Follows(doc, m, discard)
  /\ phase' = "reading" =>
       /\ seen' = seen \cup ({FieldOf(m)} \ {0})
       /\ seenOneofs' = seenOneofs \cup ({Occupied(m)} \ {0})
       /\ seenExts' = seenExts \cup ({m.key} \cap Exts)

\* Zero is no field, no oneof and no key that was read.
LEMMA ZeroNotRead ==
  \A ms : 0 \notin FieldsRead(ms) /\ 0 \notin OneofsRead(ms)
  BY DEF FieldsRead, OneofsRead

LEMMA ExtensionMarks ==
  ASSUME JudgeInv, NamesApart, NEW key \in Keys, NEW token \in Inputs,
         ReadExtension(key, token)
  PROVE  MarksMember(AMember(key, token))
<1> DEFINE m == AMember(key, token)
<1>1. m.key = key /\ m.token = token BY DEF AMember
<1>2. key \in Exts /\ FieldOf(m) = 0
  BY <1>1, MemberFacts DEF ReadExtension
<1>3. Occupied(m) = 0 BY <1>2 DEF Occupied
<1>4. phase = "reading" /\ doc' = Append(doc, m)
  BY ReadTypes DEF JudgeInv, ReadExtension
<1>5. seenExts = ExtsRead(doc) BY <1>4 DEF JudgeInv, MarksInv
<1>6. token \in Tokens BY DecodeAssumption
<1>7. Follows(doc, m, discard) <=>
        /\ key \notin seenExts
        /\ discard \/ token # "unknownEnum"
        /\ token # "malformed"
  BY <1>1, <1>2, <1>3, <1>5, ZeroNotRead DEF Follows, ReadableMember
<1>8. phase' = IF /\ key \notin seenExts
                  /\ discard \/ token # "unknownEnum"
                  /\ token # "malformed"
               THEN "reading" ELSE "failed"
  BY <1>4, <1>6 DEF ReadExtension, Tokens
<1> HIDE DEF m
<1> QED BY <1>1, <1>2, <1>3, <1>4, <1>7, <1>8 DEF MarksMember, ReadExtension, m

LEMMA UnknownMarks ==
  ASSUME JudgeInv, NamesApart, NEW key \in Keys, NEW token \in Inputs,
         ReadUnknown(key, token)
  PROVE  MarksMember(AMember(key, token))
<1> DEFINE m == AMember(key, token)
<1>1. m.key = key /\ m.token = token BY DEF AMember
<1>2. key \notin Exts /\ FieldOf(m) = 0
  BY <1>1, MemberFacts DEF ReadUnknown
<1>3. Occupied(m) = 0 BY <1>2 DEF Occupied
<1>4. phase = "reading" /\ doc' = Append(doc, m)
  BY ReadTypes DEF JudgeInv, ReadUnknown
<1>5. key \notin ExtsRead(doc) BY <1>2 DEF ExtsRead
<1>6. Follows(doc, m, discard) <=> discard /\ token # "malformed"
  BY <1>1, <1>2, <1>3, <1>5, ZeroNotRead DEF Follows, ReadableMember
<1> HIDE DEF m
<1> QED BY <1>1, <1>2, <1>3, <1>4, <1>6 DEF MarksMember, ReadUnknown, m

\* What the two actions on a field have in common.
LEMMA FieldMemberFacts ==
  ASSUME JudgeInv, NamesApart, NEW key \in Keys, NEW token \in Inputs,
         ReadField(key, token) \/ RejectField(key, token)
  PROVE  LET m == AMember(key, token)
             f == Instruction(key)
         IN  /\ m.key = key /\ m.token = token /\ key \notin Exts
             /\ FieldOf(m) = f /\ f \in Fields /\ f # 0
             /\ Occupied(m) = IF TakesOneof(f, token) THEN OneofOf(f) ELSE 0
             /\ TakesOneof(f, token) => OneofOf(f) # 0 /\ OneofMark(OneofOf(f)) = {OneofOf(f)}
             /\ FieldMark(f) = {f}
             /\ phase = "reading" /\ doc' = Append(doc, m)
             /\ seen = FieldsRead(doc) /\ seenOneofs = OneofsRead(doc)
             /\ token \in Tokens
<1> DEFINE m == AMember(key, token)
           f == Instruction(key)
<1>1. m.key = key /\ m.token = token BY DEF AMember
<1>2. f # 0 /\ (key \in Exts => Hinted(key)) BY DEF ReadField, RejectField
<1>3. FieldOf(m) = f /\ f \in Fields /\ key \notin Exts
  BY <1>1, <1>2, MemberFacts
<1>4. TakesOneof(f, token) <=>
        OneofOf(f) # 0 /\ (token # "null" \/ Kind(f) \in NullIsValue)
  BY <1>3, SchemaFacts DEF TakesOneof
<1>5. Occupied(m) = IF TakesOneof(f, token) THEN OneofOf(f) ELSE 0
  BY <1>1, <1>2, <1>3, <1>4 DEF Occupied
<1>6. width \in Nat BY DecodeAssumption DEF JudgeInv, TypeOK
<1>7. FieldMark(f) = {f} BY <1>3, <1>6, FieldMarks
<1>8. OneofOf(f) # 0 => OneofMark(OneofOf(f)) = {OneofOf(f)} BY <1>3, <1>6, OneofMarks
<1>9. phase = "reading" /\ doc' = Append(doc, m)
  BY ReadTypes DEF JudgeInv, ReadField, RejectField
<1>10. seen = FieldsRead(doc) /\ seenOneofs = OneofsRead(doc)
  BY <1>9 DEF JudgeInv, MarksInv
<1>11. token \in Tokens BY DecodeAssumption
<1> HIDE DEF m, f
<1> QED BY <1>1, <1>2, <1>3, <1>4, <1>5, <1>7, <1>8, <1>9, <1>10, <1>11 DEF m, f

\* A field is rejected for its own mark or for that of its oneof.
LEMMA FieldFollows ==
  ASSUME JudgeInv, NamesApart, NEW key \in Keys, NEW token \in Inputs,
         ReadField(key, token) \/ RejectField(key, token)
  PROVE  Follows(doc, AMember(key, token), discard) <=>
           /\ ~ OneofTaken(Instruction(key), token)
           /\ FieldMark(Instruction(key)) \cap seen = {}
           /\ discard \/ token # "unknownEnum"
           /\ token # "malformed"
<1> DEFINE m == AMember(key, token)
           f == Instruction(key)
<1>1. /\ m.key = key /\ m.token = token /\ key \notin Exts
      /\ FieldOf(m) = f /\ f \in Fields /\ f # 0
      /\ Occupied(m) = IF TakesOneof(f, token) THEN OneofOf(f) ELSE 0
      /\ TakesOneof(f, token) => OneofMark(OneofOf(f)) = {OneofOf(f)}
      /\ FieldMark(f) = {f}
      /\ seen = FieldsRead(doc) /\ seenOneofs = OneofsRead(doc)
  BY FieldMemberFacts
<1> HIDE DEF m, f
<1>2. OneofTaken(f, token) <=> Occupied(m) \in OneofsRead(doc)
  BY <1>1, ZeroNotRead DEF OneofTaken
<1>3. FieldMark(f) \cap seen = {} <=> FieldOf(m) \notin FieldsRead(doc)
  BY <1>1
<1>4. m.key \notin ExtsRead(doc) BY <1>1 DEF ExtsRead
<1> QED BY <1>1, <1>2, <1>3, <1>4 DEF Follows, ReadableMember, m, f

LEMMA FieldMarksMember ==
  ASSUME JudgeInv, NamesApart, NEW key \in Keys, NEW token \in Inputs,
         ReadField(key, token)
  PROVE  MarksMember(AMember(key, token))
<1> DEFINE m == AMember(key, token)
           f == Instruction(key)
<1>1. /\ m.key = key /\ m.token = token /\ key \notin Exts
      /\ FieldOf(m) = f /\ f # 0
      /\ Occupied(m) = IF TakesOneof(f, token) THEN OneofOf(f) ELSE 0
      /\ TakesOneof(f, token) => OneofOf(f) # 0 /\ OneofMark(OneofOf(f)) = {OneofOf(f)}
      /\ FieldMark(f) = {f}
      /\ phase = "reading" /\ doc' = Append(doc, m)
      /\ token \in Tokens
  BY FieldMemberFacts
<1>2. Follows(doc, m, discard) <=>
           /\ ~ OneofTaken(f, token)
           /\ FieldMark(f) \cap seen = {}
           /\ discard \/ token # "unknownEnum"
           /\ token # "malformed"
  BY FieldFollows
<1>3. /\ ~ OneofTaken(f, token) /\ FieldMark(f) \cap seen = {}
      /\ seenOneofs' = IF TakesOneof(f, token)
                       THEN seenOneofs \cup OneofMark(OneofOf(f)) ELSE seenOneofs
      /\ seen' = seen \cup FieldMark(f)
      /\ UNCHANGED <<options, seenExts>>
  BY DEF ReadField
<1>4. phase' = IF (discard \/ token # "unknownEnum") /\ token # "malformed"
               THEN "reading" ELSE "failed"
  BY <1>1 DEF ReadField, Tokens
<1>5. /\ seen' = seen \cup ({FieldOf(m)} \ {0})
      /\ seenOneofs' = seenOneofs \cup ({Occupied(m)} \ {0})
      /\ seenExts' = seenExts \cup ({m.key} \cap Exts)
  <2> HIDE DEF m, f
  <2> QED BY <1>1, <1>3
<1> HIDE DEF m, f
<1> QED BY <1>1, <1>2, <1>3, <1>4, <1>5 DEF MarksMember, m

LEMMA RejectMarks ==
  ASSUME JudgeInv, NamesApart, NEW key \in Keys, NEW token \in Inputs,
         RejectField(key, token)
  PROVE  MarksMember(AMember(key, token))
<1>1. phase = "reading" /\ doc' = Append(doc, AMember(key, token))
  BY FieldMemberFacts
<1>2. ~ Follows(doc, AMember(key, token), discard)
  BY FieldFollows DEF RejectField
<1> QED BY <1>1, <1>2 DEF MarksMember, RejectField

LEMMA InitJudge == Init => JudgeInv
<1> SUFFICES ASSUME Init PROVE JudgeInv OBVIOUS
<1>1. doc = <<>> /\ DOMAIN doc = {} BY DEF Init
<1>2. StartInv BY <1>1 DEF StartInv
<1>3. MarksInv BY <1>1 DEF Init, MarksInv, FieldsRead, OneofsRead, ExtsRead
<1>4. Legal(doc, discard) BY <1>1 DEF Legal, NoneTwice, Readable
<1> QED BY <1>2, <1>3, <1>4, InitTypes DEF JudgeInv, JudgedInv, Init

LEMMA MemberJudge ==
  ASSUME JudgeInv, TypeOK', NEW m \in Member, MarksMember(m)
  PROVE  JudgeInv'
<1>1. doc \in Seq(Member) BY DEF JudgeInv, TypeOK, Member
<1>2. /\ FieldsRead(doc') = FieldsRead(doc) \cup ({FieldOf(m)} \ {0})
      /\ OneofsRead(doc') = OneofsRead(doc) \cup ({Occupied(m)} \ {0})
      /\ ExtsRead(doc') = ExtsRead(doc) \cup ({m.key} \cap Exts)
  BY <1>1, ReadAppend DEF MarksMember
<1>3. Legal(doc', discard) <=> Legal(doc, discard) /\ Follows(doc, m, discard)
  BY <1>1, LegalAppend DEF MarksMember
<1>4. MarksInv'
  BY <1>2 DEF JudgeInv, MarksInv, MarksMember
<1>5. JudgedInv'
  BY <1>3 DEF JudgeInv, JudgedInv, MarksMember, options
<1>6. StartInv' BY DEF StartInv, MarksMember
<1> QED BY <1>4, <1>5, <1>6 DEF JudgeInv

LEMMA NextJudge == NamesApart /\ JudgeInv /\ [Next]_vars => JudgeInv'
<1> SUFFICES ASSUME NamesApart, JudgeInv, [Next]_vars PROVE JudgeInv' OBVIOUS
<1>1. TypeOK' BY NextTypes DEF JudgeInv
<1>2. CASE Begin \/ EndObject \/ UNCHANGED vars
  <2>1. UNCHANGED <<discard, seen, seenOneofs, seenExts, doc>>
    BY <1>2 DEF Begin, EndObject, vars, options
  <2>2. (phase' = "failed" <=> phase = "failed") /\ (phase' = "start" => phase = "start")
    BY <1>2 DEF Begin, EndObject, vars
  <2>3. StartInv' BY <2>1, <2>2 DEF JudgeInv, StartInv
  <2>4. MarksInv' BY <2>1, <2>2 DEF JudgeInv, MarksInv
  <2>5. JudgedInv' BY <2>1, <2>2 DEF JudgeInv, JudgedInv
  <2> QED BY <1>1, <2>3, <2>4, <2>5 DEF JudgeInv
<1>3. ASSUME NEW key \in Keys, NEW token \in Inputs,
             \/ ReadExtension(key, token) \/ ReadUnknown(key, token)
             \/ ReadField(key, token) \/ RejectField(key, token)
      PROVE  JudgeInv'
  <2>1. MarksMember(AMember(key, token))
    BY <1>3, ExtensionMarks, UnknownMarks, FieldMarksMember, RejectMarks
  <2>2. AMember(key, token) \in Member BY DEF AMember, Member
  <2> QED BY <1>1, <2>1, <2>2, MemberJudge
<1> QED BY <1>2, <1>3 DEF Next

\* An accepted document has no mistake: no field, oneof or extension twice, no
\* unknown name that is not discarded.
THEOREM AcceptsOnlyLegal ==
  ASSUME NamesApart
  PROVE  Spec => []AcceptedIsLegal
<1>1. JudgeInv => AcceptedIsLegal BY DEF JudgeInv, JudgedInv, AcceptedIsLegal
<1> QED BY <1>1, InitJudge, NextJudge, PTL DEF Spec

\* A rejected one has a mistake.
THEOREM RejectsOnlyIllegal ==
  ASSUME NamesApart
  PROVE  Spec => []RejectedIsIllegal
<1>1. JudgeInv => RejectedIsIllegal BY DEF JudgeInv, JudgedInv, RejectedIsIllegal
<1> QED BY <1>1, InitJudge, NextJudge, PTL DEF Spec
-----------------------------------------------------------------------------
(* What message an accepted document leaves *)

\* In a legal document the member of a field is the only one.
LEMMA MeaningAt ==
  ASSUME NEW ms, NoneTwice(ms), NEW f \in Fields
  PROVE  /\ f \notin FieldsRead(ms) => Meaning(ms)[f] = "absent"
         /\ \A i \in DOMAIN ms :
              FieldOf(ms[i]) = f => Meaning(ms)[f] = Denotes(f, ms[i].token)
<1>1. f # 0 BY SchemaFacts
<1>2. Meaning(ms)[f] = IF \E i \in DOMAIN ms : FieldOf(ms[i]) = f
                       THEN Denotes(f, ms[CHOOSE i \in DOMAIN ms : FieldOf(ms[i]) = f].token)
                       ELSE "absent"
  BY DEF Meaning
<1>3. \A i, j \in DOMAIN ms : FieldOf(ms[i]) = f /\ FieldOf(ms[j]) = f => i = j
  BY <1>1 DEF NoneTwice
<1>4. ASSUME NEW i \in DOMAIN ms, FieldOf(ms[i]) = f
      PROVE  Meaning(ms)[f] = Denotes(f, ms[i].token)
  <2>1. (CHOOSE j \in DOMAIN ms : FieldOf(ms[j]) = f) = i BY <1>3, <1>4
  <2> QED BY <1>2, <1>4, <2>1
<1>5. f \notin FieldsRead(ms) => Meaning(ms)[f] = "absent"
  BY <1>1, <1>2 DEF FieldsRead
<1> QED BY <1>4, <1>5

LEMMA ExtMeaningAt ==
  ASSUME NEW ms, NoneTwice(ms), NEW x \in Exts
  PROVE  /\ x \notin ExtsRead(ms) => ExtMeaning(ms)[x] = "absent"
         /\ \A i \in DOMAIN ms :
              ms[i].key = x => ExtMeaning(ms)[x] = ExtDenotes(ms[i].token)
<1>1. ExtMeaning(ms)[x] = IF \E i \in DOMAIN ms : ms[i].key = x
                          THEN ExtDenotes(ms[CHOOSE i \in DOMAIN ms : ms[i].key = x].token)
                          ELSE "absent"
  BY DEF ExtMeaning, ExtDenotes
<1>2. \A i, j \in DOMAIN ms : ms[i].key = x /\ ms[j].key = x => i = j
  BY DEF NoneTwice
<1>3. ASSUME NEW i \in DOMAIN ms, ms[i].key = x
      PROVE  ExtMeaning(ms)[x] = ExtDenotes(ms[i].token)
  <2>1. (CHOOSE j \in DOMAIN ms : ms[j].key = x) = i BY <1>2, <1>3
  <2> QED BY <1>1, <1>3, <2>1
<1>4. x \notin ExtsRead(ms) => ExtMeaning(ms)[x] = "absent"
  BY <1>1 DEF ExtsRead
<1> QED BY <1>3, <1>4

\* What a member of field f that is no mistake does to the message.
Stores(f, m) ==
  /\ target'[f] = Denotes(f, m.token)
  /\ \A g \in Fields \ {f} :
       target'[g] = IF Occupied(m) # 0 /\ OneofOf(g) = Occupied(m)
                    THEN "absent" ELSE target[g]

\* When a member takes a oneof, its siblings that were read were null.
LEMMA SiblingsAreNull ==
  ASSUME ReadInv, NEW m, Follows(doc, m, discard), Occupied(m) # 0,
         NEW i \in DOMAIN doc, FieldOf(doc[i]) \in Fields,
         OneofOf(FieldOf(doc[i])) = Occupied(m)
  PROVE  /\ Denotes(FieldOf(doc[i]), doc[i].token) = "absent"
         /\ target[FieldOf(doc[i])] = "absent"
<1> DEFINE g == FieldOf(doc[i])
<1>1. g # 0 BY SchemaFacts
<1>2. Occupied(doc[i]) # Occupied(m) BY DEF Follows, OneofsRead
<1>3. doc[i].token = "null" /\ Kind(g) \notin NullIsValue
  BY <1>1, <1>2 DEF Occupied
<1>4. Denotes(g, doc[i].token) = "absent" BY <1>3 DEF Denotes
<1> QED BY <1>1, <1>4 DEF ReadInv

LEMMA FieldStores ==
  ASSUME JudgeInv, ReadInv, NamesApart, NEW key \in Keys, NEW token \in Inputs,
         ReadField(key, token), phase' = "reading"
  PROVE  Stores(Instruction(key), AMember(key, token))
<1> DEFINE m == AMember(key, token)
           f == Instruction(key)
<1>1. /\ m.key = key /\ m.token = token
      /\ FieldOf(m) = f /\ f \in Fields /\ f # 0
      /\ Occupied(m) = IF TakesOneof(f, token) THEN OneofOf(f) ELSE 0
      /\ token \in Tokens
  BY FieldMemberFacts
<1>2. Follows(doc, m, discard) 
  BY FieldMarksMember DEF MarksMember
<1>3. target \in [Fields -> Values] BY DEF JudgeInv, TypeOK, Messages
<1>4. OneofOf(f) = 0 <=> Kind(f) \notin MemberKinds BY <1>1, SchemaFacts
<1>5. CASE token = "null"
  <2>1. target' = StoreNull(f) BY <1>5 DEF ReadField
  <2>2. CASE Kind(f) \in NullIsValue
    <3>1. target' = With(f, "nullValue") BY <2>1, <2>2 DEF StoreNull
    <3>2. Denotes(f, token) = "nullValue" BY <1>5, <2>2 DEF Denotes
    <3>3. Occupied(m) = OneofOf(f) BY <1>1, <1>4, <2>2 DEF TakesOneof
    <3> HIDE DEF m, f
    <3> QED BY <1>1, <3>1, <3>2, <3>3, WithValue DEF Stores, m, f
  <2>3. CASE Kind(f) \notin NullIsValue
    <3>1. target' = [target EXCEPT ![f] = "absent"]
      BY <2>1, <2>3 DEF StoreNull, Cleared
    <3>2. Denotes(f, token) = "absent" BY <1>5, <2>3 DEF Denotes
    <3>3. Occupied(m) = 0 BY <1>1, <1>5, <2>3 DEF TakesOneof
    <3> HIDE DEF m, f
    <3> QED BY <1>1, <1>3, <3>1, <3>2, <3>3 DEF Stores, m, f
  <2> QED BY <2>2, <2>3
<1>6. CASE token \in {"default", "value"}
  <2>1. target' = With(f, Denotes(f, token)) BY <1>6 DEF ReadField, StoreValue
  <2>2. Occupied(m) = OneofOf(f) BY <1>1, <1>4, <1>6 DEF TakesOneof
  <2> HIDE DEF m, f
  <2> QED BY <1>1, <2>1, <2>2, WithValue DEF Stores, m, f
<1>7. CASE token = "unknownEnum"
  <2>1. target' = StoreDiscarded(f) /\ Kind(f) \in EnumKinds
    BY <1>7 DEF ReadField
  <2>2. Denotes(f, token) = "absent" BY <1>7 DEF Denotes
  <2>3. CASE Kind(f) = "pointerEnum"
    <3>1. target' = [target EXCEPT ![f] = "absent"]
      BY <2>1, <2>3 DEF StoreDiscarded, Cleared
    <3>2. Occupied(m) = 0 BY <1>1, <2>3 DEF TakesOneof, MemberKinds
    <3> HIDE DEF m, f
    <3> QED BY <1>1, <1>3, <2>2, <3>1, <3>2 DEF Stores, m, f
  <2>4. CASE Kind(f) \in {"enum", "memberEnum"}
    <3>1. target' = target BY <2>1, <2>4 DEF StoreDiscarded
    <3>2. f \notin FieldsRead(doc) BY <1>1, <1>2 DEF Follows
    <3>3. LeftAlone(f) /\ \A g \in Fields : OneofOf(f) # 0 /\ OneofOf(g) = OneofOf(f) => LeftAlone(g)
      BY <1>1, <2>4 DEF LeftAlone
    <3>4. \A g \in Fields \ FieldsRead(doc) : LeftAlone(g) => target[g] = "absent"
      BY <1>7 DEF ReadInv
    <3>5. target[f] = "absent" BY <1>1, <3>2, <3>3, <3>4
    <3>6. ASSUME NEW g \in Fields, Occupied(m) # 0, OneofOf(g) = Occupied(m)
          PROVE  target[g] = "absent"
      <4>1. CASE g \in FieldsRead(doc)
        <5>1. PICK i \in DOMAIN doc : FieldOf(doc[i]) = g BY <4>1 DEF FieldsRead
        <5> HIDE DEF m
        <5> QED BY <1>2, <3>6, <5>1, SiblingsAreNull
      <4>2. CASE g \notin FieldsRead(doc)
        BY <1>1, <3>3, <3>4, <3>6, <4>2
      <4> QED BY <4>1, <4>2
    <3> HIDE DEF m, f
    <3> QED BY <1>1, <2>2, <3>1, <3>5, <3>6 DEF Stores, m, f
  <2> QED BY <2>1, <2>3, <2>4 DEF EnumKinds
<1>8. token # "malformed" BY DEF ReadField
<1> QED BY <1>1, <1>5, <1>6, <1>7, <1>8 DEF Tokens

\* Reading a member that is no mistake.
LEMMA MemberReadInv ==
  ASSUME JudgeInv, ReadInv, NEW m \in Member, MarksMember(m), Follows(doc, m, discard),
         FieldOf(m) \in Fields \cup {0}, FieldOf(m) # 0 => m.key \notin Exts,
         IF FieldOf(m) # 0 THEN Stores(FieldOf(m), m) ELSE target' = target,
         m.key \in Exts => exts'[m.key] = ExtDenotes(m.token),
         \A x \in Exts : x # m.key => exts'[x] = exts[x]
  PROVE  ReadInv'
<1> DEFINE n == Len(doc) + 1
           f == FieldOf(m)
<1>1. /\ DOMAIN doc' = DOMAIN doc \cup {n} 
      /\ doc'[n] = m
      /\ \A i \in DOMAIN doc : doc'[i] = doc[i]
  <2>1. doc \in Seq(Member) BY DEF JudgeInv, TypeOK, Member
  <2> QED BY <2>1, AppendFacts DEF MarksMember
<1>2. /\ FieldsRead(doc') = FieldsRead(doc) \cup ({f} \ {0})
      /\ OneofsRead(doc') = OneofsRead(doc) \cup ({Occupied(m)} \ {0})
      /\ ExtsRead(doc') = ExtsRead(doc) \cup ({m.key} \cap Exts)
  <2>1. doc \in Seq(Member) BY DEF JudgeInv, TypeOK, Member
  <2> QED BY <2>1, ReadAppend DEF MarksMember
<1>3. f = 0 => Occupied(m) = 0 BY DEF Occupied
<1>4. Wide' <=> Wide BY DEF MarksMember, options, Wide
<1>5. f \notin FieldsRead(doc) /\ m.key \notin ExtsRead(doc) BY DEF Follows
<1>6. \A g \in Fields \ {f} :
        target'[g] = IF Occupied(m) # 0 /\ OneofOf(g) = Occupied(m)
                     THEN "absent" ELSE target[g]
  BY <1>3 DEF Stores
<1>7. ASSUME NEW i \in DOMAIN doc', FieldOf(doc'[i]) # 0
      PROVE  target'[FieldOf(doc'[i])] = Denotes(FieldOf(doc'[i]), doc'[i].token)
  <2>1. CASE i = n BY <1>1, <1>7, <2>1 DEF Stores
  <2>2. CASE i \in DOMAIN doc
    <3> DEFINE g == FieldOf(doc[i])
    <3>1. doc'[i] = doc[i] /\ g # 0 BY <1>1, <1>7, <2>2
    <3>2. g \in FieldsRead(doc) /\ g # f BY <1>5, <2>2, <3>1 DEF FieldsRead
    <3>3. target[g] = Denotes(g, doc[i].token) BY <2>2, <3>1 DEF ReadInv
    <3>4. g \in Fields
      <4>1. seen = FieldsRead(doc) /\ seen \subseteq Fields
        BY DEF JudgeInv, MarksInv, MarksMember, TypeOK
      <4> QED BY <3>2, <4>1
    <3>5. CASE Occupied(m) # 0 /\ OneofOf(g) = Occupied(m)
      <4>1. Denotes(g, doc[i].token) = "absent"
        BY <2>2, <3>4, <3>5, SiblingsAreNull
      <4> QED BY <1>6, <3>1, <3>2, <3>4, <3>5, <4>1
    <3>6. CASE ~ (Occupied(m) # 0 /\ OneofOf(g) = Occupied(m))
      BY <1>6, <3>1, <3>2, <3>3, <3>4, <3>6
    <3> QED BY <3>5, <3>6
  <2> QED BY <1>1, <2>1, <2>2
<1>8. ASSUME NEW i \in DOMAIN doc', doc'[i].key \in Exts
      PROVE  exts'[doc'[i].key] = ExtDenotes(doc'[i].token)
  <2>1. CASE i = n BY <1>1, <1>8, <2>1
  <2>2. CASE i \in DOMAIN doc
    <3>1. doc'[i] = doc[i] /\ doc[i].key \in ExtsRead(doc)
      BY <1>1, <1>8, <2>2 DEF ExtsRead
    <3>2. exts[doc[i].key] = ExtDenotes(doc[i].token)
      BY <1>8, <2>2, <3>1 DEF ReadInv
    <3> QED BY <1>5, <1>8, <3>1, <3>2
  <2> QED BY <1>1, <2>1, <2>2
<1>9. ASSUME NEW g \in Fields \ FieldsRead(doc'),
             \/ Wide
             \/ OneofOf(g) \in OneofsRead(doc')
             \/ "unknownEnum" \in Inputs /\ LeftAlone(g)
      PROVE  target'[g] = "absent"
  <2>1. g # f /\ g \notin FieldsRead(doc)
    <3>1. g # 0 BY SchemaFacts
    <3> QED BY <1>2, <3>1
  <2>2. CASE Occupied(m) # 0 /\ OneofOf(g) = Occupied(m) BY <1>6, <2>1, <2>2
  <2>3. CASE ~ (Occupied(m) # 0 /\ OneofOf(g) = Occupied(m))
    <3>1. target[g] = "absent" BY <1>2, <1>9, <2>1, <2>3 DEF ReadInv
    <3> QED BY <1>6, <2>1, <2>3, <3>1
  <2> QED BY <2>2, <2>3
<1>10. \A x \in Exts \ ExtsRead(doc') : exts'[x] = "absent"
  BY <1>2 DEF ReadInv
<1> HIDE DEF n, f
<1> QED BY <1>4, <1>7, <1>8, <1>9, <1>10 DEF ReadInv
\* The four actions on a member keep ContentInv.
LEMMA MemberContent ==
  ASSUME NamesApart, ResultInv, NEW key \in Keys, NEW token \in Inputs,
         \/ ReadExtension(key, token) \/ ReadUnknown(key, token)
         \/ ReadField(key, token) \/ RejectField(key, token)
  PROVE  ContentInv'
<1> DEFINE m == AMember(key, token)
<1>1. m.key = key /\ m.token = token /\ m \in Member
  BY DEF AMember, Member
<1>2. MarksMember(m)
  BY ExtensionMarks, UnknownMarks, FieldMarksMember, RejectMarks DEF ResultInv
<1>3. phase = "reading" /\ phase' \in {"reading", "failed"} BY <1>2 DEF MarksMember
<1>4. ReadInv BY <1>3 DEF ResultInv, ContentInv
<1>5. /\ FieldOf(m) \in Fields \cup {0}
      /\ FieldOf(m) # 0 => m.key \notin Exts
      /\ Instruction(key) = FieldOf(m)
  BY <1>1, MemberFacts
<1>6. CASE phase' = "failed" BY <1>6 DEF ContentInv
<1>7. CASE phase' = "reading"
  <2>1. Follows(doc, m, discard) BY <1>2, <1>7 DEF MarksMember
  <2>2. IF FieldOf(m) # 0 THEN Stores(FieldOf(m), m) ELSE target' = target
    <3>1. CASE ReadField(key, token)
      BY <1>4, <1>5, <1>7, <3>1, FieldStores DEF ResultInv, ReadField
    <3>2. CASE ReadExtension(key, token)
      <4>1. key \in Exts /\ target' = target BY <3>2 DEF ReadExtension
      <4> QED BY <1>1, <1>5, <4>1
    <3>3. CASE ReadUnknown(key, token)
      BY <1>5, <3>3 DEF ReadUnknown
    <3>4. CASE RejectField(key, token)
      BY <1>7, <3>4 DEF RejectField
    <3> QED BY <3>1, <3>2, <3>3, <3>4
  <2>3. /\ m.key \in Exts => exts'[m.key] = ExtDenotes(m.token)
        /\ \A x \in Exts : x # m.key => exts'[x] = exts[x]
    <3>1. CASE ReadExtension(key, token)
      <4>1. exts \in [Exts -> Values] /\ key \in Exts
        BY <3>1 DEF ResultInv, JudgeInv, TypeOK, ReadExtension
      <4>2. key \notin ExtsRead(doc) BY <1>1, <2>1 DEF Follows
      <4>3. exts[key] = "absent" BY <1>4, <4>1, <4>2 DEF ReadInv
      <4>4. CASE token \in {"null", "default", "value"} /\ exts' = [exts EXCEPT ![key] = IF token = "null" THEN "absent" ELSE token]
        BY <1>1, <4>1, <4>4 DEF ExtDenotes
      <4>5. CASE token = "unknownEnum" /\ exts' = exts
        BY <1>1, <4>3, <4>5 DEF ExtDenotes
      <4> HIDE DEF m
      <4> QED BY <1>7, <3>1, <4>4, <4>5 DEF ReadExtension
    <3>2. CASE ~ ReadExtension(key, token)
      <4>1. exts' = exts BY <3>2 DEF ReadUnknown, ReadField, RejectField
      <4>2. key \notin Exts
        <5>1. CASE ReadUnknown(key, token) BY <5>1 DEF ReadUnknown
        <5>2. CASE ReadField(key, token) \/ RejectField(key, token)
          BY <5>2, FieldMemberFacts DEF ResultInv
        <5> QED BY <3>2, <5>1, <5>2
      <4> QED BY <1>1, <4>1, <4>2
    <3> QED BY <3>1, <3>2
  <2> HIDE DEF m
  <2>4. ReadInv'
    BY <1>1, <1>2, <1>4, <1>5, <2>1, <2>2, <2>3, MemberReadInv DEF ResultInv
  <2> QED BY <1>7, <2>4 DEF ContentInv
<1> QED BY <1>3, <1>6, <1>7

\* The message of the target is out of the way when the first member is read.
LEMMA BeginContent ==
  ASSUME NothingStale, ResultInv, Begin
  PROVE  ContentInv'
<1>1. /\ target \in Targets /\ exts \in ExtTargets /\ exts' = exts
      /\ doc' = <<>> /\ (Wide' <=> Wide)
  BY DEF ResultInv, ContentInv, JudgeInv, StartInv, Begin, options, Wide
<1>2. target' = target \/ target' = [f \in Fields |-> "absent"]
  BY DEF Begin
<1>3. DOMAIN doc' = {} BY <1>1
<1>4. FieldsRead(doc') = {} /\ OneofsRead(doc') = {} /\ ExtsRead(doc') = {}
  BY <1>3 DEF FieldsRead, OneofsRead, ExtsRead
<1>5. \A x \in Exts : exts'[x] = "absent" BY <1>1 DEF NothingStale
<1>6. ASSUME NEW f \in Fields, "unknownEnum" \in Inputs, LeftAlone(f)
      PROVE  target'[f] = "absent"
  BY <1>1, <1>2, <1>6 DEF NothingStale
<1>7. ASSUME NEW f \in Fields, Wide
      PROVE  target'[f] = "absent"
  <2>1. CASE ~ IsZero BY <1>7, <2>1 DEF Begin
  <2>2. CASE IsZero
    <3>1. width \in Widths BY DEF ResultInv, JudgeInv, TypeOK
    <3>2. Kind(f) = "bytes" => target[f] # "default"
      BY <1>1, <1>7, <3>1 DEF NothingStale, Wide
    <3>3. target[f] = "absent" BY <2>2, <3>2 DEF IsZero
    <3> QED BY <1>2, <3>3
  <2> QED BY <2>1, <2>2
<1>8. ReadInv'
  BY <1>1, <1>3, <1>4, <1>5, <1>6, <1>7 DEF ReadInv
<1> QED BY <1>8 DEF ContentInv, Begin

\* The end of the object clears what was not read, and nothing else.
LEMMA EndContent ==
  ASSUME ResultInv, EndObject
  PROVE  ContentInv'
<1>1. /\ ReadInv /\ NoneTwice(doc) /\ seen = FieldsRead(doc) 
      /\ seenOneofs = OneofsRead(doc)
      /\ doc' = doc /\ exts' = exts /\ phase' = "done"
  BY DEF EndObject, ResultInv, ContentInv, JudgeInv, JudgedInv, MarksInv, Legal
<1>2. /\ target \in [Fields -> Values] /\ exts \in [Exts -> Values]
      /\ width \in Nat /\ seen \subseteq Fields
  BY DecodeAssumption DEF ResultInv, JudgeInv, TypeOK, Messages
<1>3. ASSUME NEW f \in Fields, f \in FieldsRead(doc)
      PROVE  target[f] = Meaning(doc)[f]
  <2>1. PICK i \in DOMAIN doc : FieldOf(doc[i]) = f /\ f # 0
    BY <1>3 DEF FieldsRead
  <2>2. Meaning(doc)[f] = Denotes(f, doc[i].token) BY <1>1, <2>1, MeaningAt
  <2> QED BY <1>1, <2>1, <2>2 DEF ReadInv
<1>4. \A f \in Fields \ FieldsRead(doc) : Meaning(doc)[f] = "absent"
  BY <1>1, MeaningAt
<1>5. target' = [f \in Fields |-> target'[f]]
  BY <1>2 DEF EndObject, ClearMissing
<1>6. ASSUME NEW f \in Fields
      PROVE  target'[f] = Meaning(doc)[f]
  <2>1. CASE Wide
    <3>1. target' = target BY <2>1 DEF EndObject
    <3>2. CASE f \in FieldsRead(doc) BY <1>3, <3>1, <3>2
    <3>3. CASE f \notin FieldsRead(doc)
      BY <1>1, <1>4, <2>1, <3>1, <3>3 DEF ReadInv
    <3> QED BY <3>2, <3>3
  <2>2. CASE ~ Wide /\ seen = AllSeen
    <3>1. target' = target /\ f \in FieldsRead(doc)
      BY <1>1, <1>2, <2>2, FieldMarks DEF EndObject
    <3> QED BY <1>3, <3>1
  <2>3. CASE ~ Wide /\ seen # AllSeen
    <3>1. target' = ClearMissing BY <2>3 DEF EndObject
    <3>2. Bit(f) = {f} BY <1>2, <2>3, FieldMarks
    <3>3. OneofOf(f) # 0 => OneofMark(OneofOf(f)) = {OneofOf(f)}
      BY <1>2, OneofMarks
    <3>4. target'[f] = IF f \in FieldsRead(doc) \/ (OneofOf(f) # 0 /\ OneofOf(f) \in OneofsRead(doc))
                       THEN target[f] ELSE "absent"
      BY <1>1, <3>1, <3>2, <3>3 DEF ClearMissing
    <3>5. CASE f \in FieldsRead(doc) BY <1>3, <3>4, <3>5
    <3>6. CASE f \notin FieldsRead(doc)
      BY <1>1, <1>4, <3>4, <3>6 DEF ReadInv
    <3> QED BY <3>5, <3>6
  <2> QED BY <2>1, <2>2, <2>3
<1>7. target' = Meaning(doc)
  <2>1. Meaning(doc) = [f \in Fields |-> Meaning(doc)[f]] BY DEF Meaning
  <2> QED BY <1>5, <1>6, <2>1
<1>8. ASSUME NEW x \in Exts
      PROVE  exts[x] = ExtMeaning(doc)[x]
  <2>1. CASE x \in ExtsRead(doc)
    <3>1. PICK i \in DOMAIN doc : doc[i].key = x BY <2>1 DEF ExtsRead
    <3>2. ExtMeaning(doc)[x] = ExtDenotes(doc[i].token) BY <1>1, <3>1, ExtMeaningAt
    <3> QED BY <1>1, <3>1, <3>2 DEF ReadInv
  <2>2. CASE x \notin ExtsRead(doc)
    BY <1>1, <2>2, ExtMeaningAt DEF ReadInv
  <2> QED BY <2>1, <2>2
<1>9. exts = ExtMeaning(doc)
  <2>1. ExtMeaning(doc) = [x \in Exts |-> ExtMeaning(doc)[x]] BY DEF ExtMeaning
  <2> QED BY <1>2, <1>8, <2>1
<1> QED BY <1>1, <1>7, <1>9 DEF ContentInv

LEMMA InitResult == Init => ResultInv
  BY InitJudge DEF Init, ResultInv, ContentInv

LEMMA NextResult == NamesApart /\ NothingStale /\ ResultInv /\ [Next]_vars => ResultInv'
<1> SUFFICES ASSUME NamesApart, NothingStale, ResultInv, [Next]_vars
             PROVE  ContentInv'
  BY NextJudge DEF ResultInv
<1>1. CASE UNCHANGED vars
  <2>1. UNCHANGED <<width, phase, target, exts, doc>> BY <1>1 DEF vars
  <2>2. (Wide' <=> Wide) BY <2>1 DEF Wide
  <2>3. ReadInv => ReadInv' BY <2>1, <2>2 DEF ReadInv
  <2> QED BY <2>1, <2>3 DEF ResultInv, ContentInv
<1> QED BY <1>1, BeginContent, MemberContent, EndContent DEF Next

\* The message is the one the document stands for, whatever it held before and
\* in whatever order the members came.
THEOREM DecodesTheDocument ==
  ASSUME NamesApart, NothingStale
  PROVE  Spec => []ResultIsDocument
<1>1. ResultInv => ResultIsDocument BY DEF ResultInv, ContentInv, ResultIsDocument
<1> QED BY <1>1, InitResult, NextResult, PTL DEF Spec
=============================================================================
