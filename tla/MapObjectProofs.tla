-------------------------- MODULE MapObjectProofs --------------------------
(***************************************************************************)
(* Proofs about MapObject, for any keys, spellings and bounds.             *)
(***************************************************************************)
EXTENDS MapObject, SequenceTheorems, FiniteSetTheorems, TLAPS

\* strconv.ParseBool takes no text that is not a key.  MapBoolKeys.cfg is the
\* case it excludes.
KeysAgree == "bool" \in KeyKinds =>
  \A spelling \in Texts["bool"] : ParseBool(spelling) = KeyOf("bool", spelling)

\* MapNullEnum.cfg is the case this excludes ...
NoNullEnum == "nullEnum" \notin ValueKinds

\* ... and MapSharedKeys.cfg the case that this does: whoever gets keys with the
\* bytes of the input does not use it again.
InputIsKept == Reusing \cap Generated = {}

Types ==
  /\ way \in Ways
  /\ keyKind \in KeyKinds \cup {"string"}
  /\ valueKind \in ValueKinds \cup {"string"}
  /\ discard \in BOOLEAN
  /\ doc \in Seq(Texts[keyKind] \X Tokens)
  /\ IsFiniteSet(entries)
  /\ status \in {"target", "reading", "failed", "done", "written"}

Live == {i \in DOMAIN doc : ~ Dropped(i)}
Entered == {Entry(Key(i), doc[i][2], Shared(doc[i][1])) : i \in Live}

StartInv == status = "target" => doc = <<>>
ReuseInv == reused => status = "done" /\ way \in Reusing

\* The map has the entries of the members that were not dropped.
EntriesInv ==
  status \in {"reading", "done", "written"} => Legal /\ entries = Entered

IInv == Types /\ StartInv /\ ReuseInv /\ EntriesInv
-----------------------------------------------------------------------------
(* A document with one more member *)

LEMMA ParsesKeys ==
  ASSUME KeysAgree, Types, NEW spelling \in Texts[keyKind]
  PROVE  ParseKey(spelling) = KeyOf(keyKind, spelling)
<1>1. keyKind = "bool" => "bool" \in KeyKinds BY DEF Types
<1> QED BY <1>1 DEF ParseKey, KeysAgree

\* A member whose key is spelling and whose value is token was read.
Grown(spelling, token) ==
  /\ doc' = Append(doc, <<spelling, token>>)
  /\ UNCHANGED field

LEMMA GrownFacts ==
  ASSUME Types, NEW spelling \in Texts[keyKind], NEW token \in Tokens,
         Grown(spelling, token)
  PROVE  LET n == Len(doc) + 1
         IN  /\ doc' \in Seq(Texts[keyKind] \X Tokens)
             /\ n \in Nat /\ DOMAIN doc = 1 .. Len(doc) /\ Len(doc) \in Nat
             /\ n \notin DOMAIN doc /\ DOMAIN doc' = DOMAIN doc \cup {n}
             /\ doc'[n] = <<spelling, token>>
             /\ \A i \in DOMAIN doc : doc'[i] = doc[i]
<1> DEFINE S == Texts[keyKind] \X Tokens
           m == <<spelling, token>>
<1>1. doc \in Seq(S) /\ m \in S BY DEF Types
<1> HIDE DEF S, m
<1>2. /\ Append(doc, m) \in Seq(S)
      /\ Len(Append(doc, m)) = Len(doc) + 1
      /\ \A i \in 1 .. Len(doc) : Append(doc, m)[i] = doc[i]
      /\ Append(doc, m)[Len(doc) + 1] = m
  BY <1>1, AppendProperties
<1>3. Len(doc) \in Nat /\ DOMAIN doc = 1 .. Len(doc) BY <1>1, LenProperties
<1>4. DOMAIN Append(doc, m) = 1 .. Len(doc) + 1 BY <1>2, LenProperties
<1>5. doc' = Append(doc, m) BY DEF Grown, m
<1> QED BY <1>2, <1>3, <1>4, <1>5 DEF S, m

LEMMA GrownMembers ==
  ASSUME Types, NEW spelling \in Texts[keyKind], NEW token \in Tokens,
         Grown(spelling, token), NEW n, n = Len(doc) + 1
  PROVE  /\ \A i \in DOMAIN doc : Key(i)' = Key(i) /\ (Dropped(i)' <=> Dropped(i))
         /\ Key(n)' = KeyOf(keyKind, spelling)
         /\ Dropped(n)' <=> token = "unknownEnum"
<1>1. /\ doc'[n] = <<spelling, token>>
      /\ \A i \in DOMAIN doc : doc'[i] = doc[i]
  BY GrownFacts
<1>2. UNCHANGED keyKind BY DEF Grown, field
<1> QED BY <1>1, <1>2 DEF Key, Dropped

\* A legal document stays legal exactly when the new key is one, its earlier
\* members were dropped, and the value may be there.
LEMMA GrownLegal ==
  ASSUME Types, NEW spelling \in Texts[keyKind], NEW token \in Tokens,
         Grown(spelling, token)
  PROVE  Legal' <=> /\ Legal
                    /\ KeyOf(keyKind, spelling) # Refused
                    /\ TokenLegal(token)
                    /\ \A i \in DOMAIN doc :
                         Key(i) = KeyOf(keyKind, spelling) => Dropped(i)
<1>0. PICK n : n = Len(doc) + 1 OBVIOUS
<1> DEFINE k == KeyOf(keyKind, spelling)
<1>1. /\ n \in Nat /\ DOMAIN doc = 1 .. Len(doc) /\ Len(doc) \in Nat
      /\ n \notin DOMAIN doc /\ DOMAIN doc' = DOMAIN doc \cup {n}
      /\ doc'[n] = <<spelling, token>>
      /\ \A i \in DOMAIN doc : doc'[i] = doc[i]
  BY <1>0, GrownFacts
<1>2. /\ \A i \in DOMAIN doc : Key(i)' = Key(i) /\ (Dropped(i)' <=> Dropped(i))
      /\ Key(n)' = k
  BY <1>0, GrownMembers
<1>3. \A t : TokenLegal(t)' <=> TokenLegal(t)
  BY DEF Grown, field, TokenLegal
<1>4. \A i \in DOMAIN doc : i < n BY <1>0, <1>1
<1>5. \A i \in DOMAIN doc' : ~ (n < i) BY <1>0, <1>1
<1> HIDE DEF k
<1>6. (\A i \in DOMAIN doc : Key(i) # Refused /\ TokenLegal(doc[i][2]))' <=>
        /\ \A i \in DOMAIN doc : Key(i) # Refused /\ TokenLegal(doc[i][2])
        /\ k # Refused /\ TokenLegal(token)
  <2>1. \A i \in DOMAIN doc : TokenLegal(doc[i][2])' <=> TokenLegal(doc[i][2])
    BY <1>1, <1>3 DEF TokenLegal
  <2>2. TokenLegal(doc[n][2])' <=> TokenLegal(token)
    BY <1>1, <1>3 DEF TokenLegal
  <2> QED BY <1>1, <1>2, <2>1, <2>2
<1>7. (\A i, j \in DOMAIN doc : i < j /\ Key(i) = Key(j) => Dropped(i))' <=>
        /\ \A i, j \in DOMAIN doc : i < j /\ Key(i) = Key(j) => Dropped(i)
        /\ \A i \in DOMAIN doc : Key(i) = k => Dropped(i)
  <2>1. ~ (n < n) BY <1>1
  <2> QED BY <1>1, <1>2, <1>4, <1>5, <2>1
<1> QED BY <1>6, <1>7 DEF Legal, k
LEMMA GrownEntries ==
  ASSUME Types, NEW spelling \in Texts[keyKind], NEW token \in Tokens,
         Grown(spelling, token)
  PROVE  /\ token = "unknownEnum" => Entered' = Entered
         /\ token # "unknownEnum" =>
              Entered' = Entered \cup
                {Entry(KeyOf(keyKind, spelling), token, Shared(spelling))}
<1>0. PICK n : n = Len(doc) + 1 OBVIOUS
<1>1. /\ n \notin DOMAIN doc /\ DOMAIN doc' = DOMAIN doc \cup {n}
      /\ doc'[n] = <<spelling, token>>
      /\ \A i \in DOMAIN doc : doc'[i] = doc[i]
  BY <1>0, GrownFacts
<1>2. /\ \A i \in DOMAIN doc : Key(i)' = Key(i) /\ (Dropped(i)' <=> Dropped(i))
      /\ Key(n)' = KeyOf(keyKind, spelling)
      /\ Dropped(n)' <=> token = "unknownEnum"
  BY <1>0, GrownMembers
<1>3. Live' = IF token = "unknownEnum" THEN Live ELSE Live \cup {n}
  BY <1>1, <1>2 DEF Live
<1>4. \A t : Shared(t)' <=> Shared(t) BY DEF Grown, field, Shared
<1>5. \A i \in Live : Entry(Key(i), doc[i][2], Shared(doc[i][1]))' =
                       Entry(Key(i), doc[i][2], Shared(doc[i][1]))
  <2> SUFFICES ASSUME NEW i \in Live
               PROVE  Entry(Key(i), doc[i][2], Shared(doc[i][1]))' =
                       Entry(Key(i), doc[i][2], Shared(doc[i][1]))
    OBVIOUS
  <2>1. i \in DOMAIN doc BY DEF Live
  <2>2. doc'[i] = doc[i] /\ Key(i)' = Key(i) BY <1>1, <1>2, <2>1
  <2>3. Shared(doc[i][1])' = Shared(doc[i][1]) BY <2>2 DEF Grown, field, Shared
  <2> QED BY <2>2, <2>3 DEF Entry
<1>6. Entry(Key(n), doc[n][2], Shared(doc[n][1]))' =
        Entry(KeyOf(keyKind, spelling), token, Shared(spelling))
  <2>1. doc'[n][1] = spelling /\ doc'[n][2] = token BY <1>1
  <2>2. Shared(doc[n][1])' = Shared(spelling) BY <2>1 DEF Grown, field, Shared
  <2> QED BY <1>2, <2>1, <2>2 DEF Entry
<1> QED BY <1>3, <1>5, <1>6 DEF Entered

\* The entries and the members they come from.
LEMMA EntryOfMember ==
  /\ \A e \in Entered : \E i \in Live :
       e.key = Key(i) /\ e.value = doc[i][2] /\ (e.shared = Shared(doc[i][1]))
  /\ \A i \in Live : \E e \in Entered : e.key = Key(i) /\ e.value = doc[i][2]
<1>1. \A k, v, s : Entry(k, v, s).key = k /\ Entry(k, v, s).value = v /\ Entry(k, v, s).shared = s
  BY DEF Entry
<1>2. ASSUME NEW i \in Live
      PROVE  Entry(Key(i), doc[i][2], Shared(doc[i][1])) \in Entered
  BY <1>2 DEF Entered
<1>3. \A e \in Entered : \E i \in Live : e = Entry(Key(i), doc[i][2], Shared(doc[i][1]))
  BY DEF Entered
<1>4. ASSUME NEW e \in Entered
      PROVE  \E i \in Live :
               e.key = Key(i) /\ e.value = doc[i][2] /\ (e.shared = Shared(doc[i][1]))
  <2>1. PICK i \in Live : e = Entry(Key(i), doc[i][2], Shared(doc[i][1])) BY <1>3
  <2>2. e.key = Key(i) /\ e.value = doc[i][2] BY <1>1, <2>1
  <2>3. e.shared = Shared(doc[i][1])
    <3>1. PICK s : s = Shared(doc[i][1]) OBVIOUS
    <3>2. e = Entry(Key(i), doc[i][2], s) BY <2>1, <3>1
    <3>3. e.shared = s BY <1>1, <3>2
    <3> QED BY <3>1, <3>3
  <2> QED BY <2>2, <2>3, Zenon
<1>5. ASSUME NEW i \in Live
      PROVE  \E e \in Entered : e.key = Key(i) /\ e.value = doc[i][2]
  BY <1>1, <1>2
<1> QED BY <1>4, <1>5, Zenon

\* A key is in the map when a member with it was not dropped.
LEMMA HasKeyIs ==
  ASSUME entries = Entered, NEW key
  PROVE  HasKey(key) <=> \E i \in DOMAIN doc : Key(i) = key /\ ~ Dropped(i)
  BY EntryOfMember DEF HasKey, Live
-----------------------------------------------------------------------------
(* Types *)

LEMMA InitIInv == Init => IInv
<1> SUFFICES ASSUME Init PROVE IInv OBVIOUS
<1>1. IsFiniteSet(entries)
  <2>1. entries = {} \/ entries = {Stale(keyKind)} BY DEF Init
  <2> QED BY <2>1, FS_EmptySet, FS_Singleton
<1>2. doc \in Seq(Texts[keyKind] \X Tokens) BY EmptySeq DEF Init
<1>3. /\ way \in Ways /\ keyKind \in KeyKinds \cup {"string"}
      /\ valueKind \in ValueKinds \cup {"string"} /\ discard \in BOOLEAN
  BY DEF Init
<1>4. status = "target" /\ ~ reused /\ doc = <<>> BY DEF Init
<1> QED BY <1>1, <1>2, <1>3, <1>4 DEF IInv, Types, StartInv, ReuseInv, EntriesInv

LEMMA MemberGrows ==
  ASSUME NEW spelling, NEW token, ReadMember(spelling, token)
  PROVE  Grown(spelling, token)
  BY DEF Grown, ReadMember

LEMMA NextTypes == Types /\ [Next]_vars => Types'
<1> SUFFICES ASSUME Types, [Next]_vars PROVE Types' OBVIOUS
<1>1. CASE Begin
  BY <1>1, FS_EmptySet DEF Begin, field, Types
<1>2. ASSUME NEW spelling \in Texts[keyKind], NEW token \in Tokens,
             ReadMember(spelling, token)
      PROVE  Types'
  <2>1. Grown(spelling, token) BY <1>2, MemberGrows
  <2>2. doc' \in Seq(Texts[keyKind] \X Tokens) BY <2>1, GrownFacts
  <2>3. UNCHANGED field BY <1>2 DEF ReadMember
  <2>4. \A x : IsFiniteSet(entries \cup {x}) BY FS_AddElement DEF Types
  <2>5. IsFiniteSet(entries') /\ status' \in {"reading", "failed"}
    BY <1>2, <2>4 DEF ReadMember, ReadValue, Put, Fail, Types
  <2> QED BY <2>2, <2>3, <2>5 DEF Types, field
<1>3. CASE End BY <1>3 DEF End, field, Types
<1>4. CASE Reuse BY <1>4 DEF Reuse, field, Types
<1>5. CASE Write BY <1>5 DEF Write, field, Types
<1>6. CASE UNCHANGED vars BY <1>6 DEF vars, field, Types
<1> QED BY <1>1, <1>2, <1>3, <1>4, <1>5, <1>6 DEF Next
-----------------------------------------------------------------------------
(* What the map holds *)

\* Nothing but the members read decides what is legal and entered.
LEMMA SameDocument ==
  ASSUME UNCHANGED <<field, doc>>
  PROVE  /\ Legal' <=> Legal
         /\ Entered' = Entered
<1>1. UNCHANGED <<way, keyKind, valueKind, discard, doc>> BY DEF field
<1>2. Live' = Live BY <1>1 DEF Live, Dropped
<1>3. \A i : Key(i)' = Key(i) BY <1>1 DEF Key
<1>4. \A t : Shared(t)' <=> Shared(t) BY <1>1 DEF Shared
<1>5. Entered' = Entered 
  BY <1>1 DEF Entered, Live, Dropped, Key, Shared
<1>6. Legal' <=> Legal BY <1>1 DEF Legal, Key, TokenLegal, Dropped
<1> QED BY <1>5, <1>6

LEMMA EmptyDocument ==
  ASSUME doc = <<>>
  PROVE  Legal /\ Entered = {}
<1>1. DOMAIN doc = {} OBVIOUS
<1> QED BY <1>1 DEF Legal, Entered, Live

LEMMA MemberIInv ==
  ASSUME KeysAgree, IInv, NEW spelling \in Texts[keyKind], NEW token \in Tokens,
         ReadMember(spelling, token)
  PROVE  StartInv' /\ ReuseInv' /\ EntriesInv'
<1> DEFINE k == KeyOf(keyKind, spelling)
<1>1. /\ status = "reading" /\ status' \in {"reading", "failed"} /\ reused' = reused
      /\ ~ reused
  BY DEF ReadMember, ReadValue, Fail, IInv, ReuseInv
<1>2. Grown(spelling, token) BY MemberGrows
<1>3. Types /\ Legal /\ entries = Entered BY <1>1 DEF IInv, EntriesInv
<1>4. StartInv' /\ ReuseInv' BY <1>1 DEF StartInv, ReuseInv
<1>5. ParseKey(spelling) = k BY <1>3, ParsesKeys
<1>6. EntriesInv'
  <2> SUFFICES ASSUME status' = "reading" PROVE Legal' /\ entries' = Entered'
    BY <1>1 DEF EntriesInv
  <2>1. k # Refused /\ ~ HasKey(k) /\ ReadValue(k, spelling, token)
    BY <1>5 DEF ReadMember, Fail
  <2>2. \A i \in DOMAIN doc : Key(i) = k => Dropped(i)
    BY <1>3, <2>1, HasKeyIs
  <2>3. TokenLegal(token)
    BY <2>1 DEF ReadValue, Fail, TokenLegal
  <2>4. Legal' BY <1>2, <1>3, <2>1, <2>2, <2>3, GrownLegal
  <2>5. entries' = IF token = "unknownEnum" THEN entries
                   ELSE entries \cup {Entry(k, token, Shared(spelling))}
    BY <2>1 DEF ReadValue, Fail, Put
  <2> QED BY <1>2, <1>3, <2>4, <2>5, GrownEntries
<1> QED BY <1>4, <1>6

LEMMA NextIInv == KeysAgree /\ IInv /\ [Next]_vars => IInv'
<1> SUFFICES ASSUME KeysAgree, IInv, [Next]_vars
             PROVE  StartInv' /\ ReuseInv' /\ EntriesInv'
  BY NextTypes DEF IInv
<1> USE DEF IInv, StartInv, ReuseInv, EntriesInv
<1>1. CASE Begin
  <2>1. doc' = <<>> BY <1>1 DEF Begin
  <2>2. Legal' /\ Entered' = {} 
    <3>1. Legal /\ Entered = {} BY <1>1, EmptyDocument DEF Begin
    <3> QED BY <1>1, <3>1, SameDocument DEF Begin
  <2> QED BY <1>1, <2>1, <2>2 DEF Begin
<1>2. ASSUME NEW spelling \in Texts[keyKind], NEW token \in Tokens,
             ReadMember(spelling, token)
      PROVE  StartInv' /\ ReuseInv' /\ EntriesInv'
  BY <1>2, MemberIInv
<1>3. CASE End
  <2>1. (Legal' <=> Legal) /\ Entered' = Entered BY <1>3, SameDocument DEF End
  <2> QED BY <1>3, <2>1 DEF End
<1>4. CASE Reuse
  <2>1. (Legal' <=> Legal) /\ Entered' = Entered BY <1>4, SameDocument DEF Reuse
  <2> QED BY <1>4, <2>1 DEF Reuse, field
<1>5. CASE Write
  <2>1. (Legal' <=> Legal) /\ Entered' = Entered BY <1>5, SameDocument DEF Write
  <2> QED BY <1>5, <2>1 DEF Write
<1>6. CASE UNCHANGED vars
  <2>1. (Legal' <=> Legal) /\ Entered' = Entered BY <1>6, SameDocument DEF vars
  <2> QED BY <1>6, <2>1 DEF vars, field
<1> QED BY <1>1, <1>2, <1>3, <1>4, <1>5, <1>6 DEF Next

\* The entries, without whose bytes the keys have, are what the document means.
LEMMA EntriesMean ==
  ASSUME entries = Entered
  PROVE  {<<e.key, e.value>> : e \in entries} = Meaning
<1>1. Meaning = {<<Key(i), doc[i][2]>> : i \in Live} BY DEF Meaning, Live
<1>2. ASSUME NEW e \in Entered PROVE <<e.key, e.value>> \in Meaning
  <2>1. PICK i \in Live : e.key = Key(i) /\ e.value = doc[i][2] BY EntryOfMember
  <2> QED BY <1>1, <2>1
<1>3. ASSUME NEW i \in Live
      PROVE  <<Key(i), doc[i][2]>> \in {<<e.key, e.value>> : e \in Entered}
  <2>1. PICK e \in Entered : e.key = Key(i) /\ e.value = doc[i][2] BY EntryOfMember
  <2> QED BY <2>1
<1> QED BY <1>1, <1>2, <1>3

\* A map that was read has an entry for each member that was not dropped, no
\* other, and nothing of what the target held.
THEOREM MapHoldsDocument ==
  ASSUME KeysAgree
  PROVE  Spec => []MapIsDocument
<1>1. IInv => MapIsDocument
  <2> SUFFICES ASSUME IInv, status \in {"done", "written"}, ~ reused
               PROVE  Legal /\ Content = Meaning
    BY DEF MapIsDocument
  <2>1. Legal /\ entries = Entered BY DEF IInv, EntriesInv
  <2>2. Content = {<<e.key, e.value>> : e \in entries} BY DEF Content
  <2> QED BY <2>1, <2>2, EntriesMean
<1> QED BY <1>1, InitIInv, NextIInv, PTL DEF Spec

\* The content survives that the caller writes over the input, for the ways
\* that copy their keys.
THEOREM KeysSurviveReuse ==
  ASSUME KeysAgree, InputIsKept
  PROVE  Spec => []KeysAreOwned
<1>1. IInv => KeysAreOwned
  <2> SUFFICES ASSUME IInv, status = "done"
               PROVE  Content = Meaning
    BY DEF KeysAreOwned
  <2>1. entries = Entered BY DEF IInv, EntriesInv
  <2>2. reused => way \notin Generated BY DEF IInv, ReuseInv, InputIsKept
  <2>3. reused => \A e \in entries : ~ e.shared
    <3>1. reused => \A t : ~ Shared(t) BY <2>2 DEF Shared
    <3> QED BY <2>1, <3>1, EntryOfMember, Zenon
  <2>4. Content = {<<e.key, e.value>> : e \in entries} BY <2>3 DEF Content
  <2> QED BY <2>1, <2>4, EntriesMean
<1> QED BY <1>1, InitIInv, NextIInv, PTL DEF Spec

LEMMA NextRefused ==
  KeysAgree /\ NoNullEnum /\ IInv /\ RefusedIsIllegal /\ [Next]_vars => RefusedIsIllegal'
<1> SUFFICES ASSUME KeysAgree, NoNullEnum, IInv, RefusedIsIllegal, [Next]_vars,
                    status' = "failed"
             PROVE  ~ Legal'
  BY DEF RefusedIsIllegal
<1>1. ASSUME NEW spelling \in Texts[keyKind], NEW token \in Tokens,
             ReadMember(spelling, token)
      PROVE  ~ Legal'
  <2> DEFINE k == KeyOf(keyKind, spelling)
  <2>1. Types /\ Legal /\ entries = Entered
    BY <1>1 DEF ReadMember, IInv, EntriesInv
  <2>2. Grown(spelling, token) BY <1>1, MemberGrows
  <2>3. ParseKey(spelling) = k BY <2>1, ParsesKeys
  <2>4. valueKind # "nullEnum" BY <2>1 DEF Types, NoNullEnum
  <2>5. CASE k = Refused BY <2>1, <2>2, <2>5, GrownLegal
  <2>6. CASE HasKey(k)
    <3>1. \E i \in DOMAIN doc : Key(i) = k /\ ~ Dropped(i)
      BY <2>1, <2>6, HasKeyIs
    <3> QED BY <2>1, <2>2, <3>1, GrownLegal
  <2>7. CASE k # Refused /\ ~ HasKey(k)
    <3>1. ReadValue(k, spelling, token) BY <1>1, <2>3, <2>7 DEF ReadMember
    <3>2. status = "reading" BY <1>1 DEF ReadMember
    <3>3. ~ TokenLegal(token)
      BY <2>4, <3>1, <3>2 DEF ReadValue, Put, TokenLegal
    <3> QED BY <2>1, <2>2, <3>3, GrownLegal
  <2> QED BY <2>5, <2>6, <2>7
<1>2. CASE UNCHANGED vars
  BY <1>2, SameDocument DEF vars, RefusedIsIllegal
<1> QED BY <1>1, <1>2 DEF Next, Begin, End, Reuse, Write

\* An object is refused for a mistake in it only.
THEOREM RefusesOnlyIllegal ==
  ASSUME KeysAgree, NoNullEnum
  PROVE  Spec => []RefusedIsIllegal
<1>1. Init => RefusedIsIllegal BY DEF Init, RefusedIsIllegal
<1> QED BY <1>1, InitIInv, NextIInv, NextRefused, PTL DEF Spec
-----------------------------------------------------------------------------
(* The order of the output *)

\* Different ranks have an ascending order: an index goes to the number of those
\* that do not come after it.
LEMMA AscendingOrder ==
  ASSUME NEW n \in Nat, NEW r \in [1 .. n -> Nat],
         \A i, j \in 1 .. n : r[i] = r[j] => i = j
  PROVE  \E p \in SetToSeqs(1 .. n) :
           \A i, j \in 1 .. n : i < j => r[p[i]] < r[p[j]]
<1> DEFINE below(i) == {j \in 1 .. n : r[j] <= r[i]}
           place == [i \in 1 .. n |-> Cardinality(below(i))]
<1>1. IsFiniteSet(1 .. n) /\ Cardinality(1 .. n) = n BY FS_Interval
<1>2. \A i \in 1 .. n : r[i] \in Nat OBVIOUS
<1>3. ASSUME NEW i \in 1 .. n
      PROVE  /\ IsFiniteSet(below(i))
             /\ Cardinality(below(i)) \in 1 .. n
  <2>1. below(i) \in SUBSET (1 .. n) /\ i \in below(i) BY <1>2
  <2> HIDE DEF below
  <2>2. IsFiniteSet(below(i)) /\ Cardinality(below(i)) <= n BY <1>1, <2>1, FS_Subset
  <2>3. Cardinality(below(i)) \in Nat /\ Cardinality(below(i)) # 0
    BY <2>1, <2>2, FS_CardinalityType, FS_EmptySet
  <2> QED BY <2>2, <2>3
<1>4. ASSUME NEW i \in 1 .. n, NEW j \in 1 .. n, r[i] < r[j]
      PROVE  place[i] < place[j]
  <2>1. below(i) \in SUBSET below(j) BY <1>2, <1>4
  <2>2. j \in below(j) /\ j \notin below(i) BY <1>2, <1>4
  <2>3. Cardinality(below(i)) \in 1 .. n /\ Cardinality(below(j)) \in 1 .. n BY <1>3
  <2>4. IsFiniteSet(below(j)) BY <1>3
  <2>5. place[i] = Cardinality(below(i)) /\ place[j] = Cardinality(below(j)) OBVIOUS
  <2> HIDE DEF below, place
  <2>6. /\ Cardinality(below(i)) <= Cardinality(below(j))
        /\ Cardinality(below(j)) = Cardinality(below(i)) => below(j) = below(i)
    BY <2>1, <2>4, FS_Subset
  <2> QED BY <2>2, <2>3, <2>5, <2>6
<1>5. place \in [1 .. n -> 1 .. n] BY <1>3
<1> HIDE DEF below, place
<1>6. ASSUME NEW i \in 1 .. n, NEW j \in 1 .. n, place[i] = place[j]
      PROVE  i = j
  <2>1. ~ (r[i] < r[j]) /\ ~ (r[j] < r[i])
    <3>1. place[i] \in 1 .. n /\ place[j] \in 1 .. n BY <1>5
    <3> QED BY <1>4, <1>6, <3>1
  <2>2. r[i] = r[j] BY <1>2, <2>1
  <2> QED BY <2>2
<1>7. \A k \in 1 .. n : \E i \in 1 .. n : place[i] = k
  <2>1. place \in Injection(1 .. n, 1 .. n) BY <1>5, <1>6 DEF Injection, IsInjective
  <2>2. place \in Surjection(1 .. n, 1 .. n) BY <1>1, <2>1, FS_Injection
  <2> QED BY <2>2 DEF Surjection
<1> DEFINE p == [k \in 1 .. n |-> CHOOSE i \in 1 .. n : place[i] = k]
<1>8. \A k \in 1 .. n : p[k] \in 1 .. n /\ place[p[k]] = k BY <1>7
<1>9. p \in [1 .. n -> 1 .. n] BY <1>8
<1> HIDE DEF p
<1>10. \A i, j \in 1 .. n : i # j => p[i] # p[j] BY <1>8
<1>11. p \in SetToSeqs(1 .. n) BY <1>1, <1>9, <1>10 DEF SetToSeqs
<1>12. ASSUME NEW i \in 1 .. n, NEW j \in 1 .. n, i < j
       PROVE  r[p[i]] < r[p[j]]
  <2>1. p[i] \in 1 .. n /\ p[j] \in 1 .. n /\ place[p[i]] = i /\ place[p[j]] = j
    BY <1>8
  <2>2. p[i] # p[j] BY <1>10, <1>12
  <2>3. r[p[i]] # r[p[j]] BY <2>1, <2>2
  <2>4. ~ (r[p[j]] < r[p[i]])
    <3>1. SUFFICES ASSUME r[p[j]] < r[p[i]] PROVE FALSE OBVIOUS
    <3>2. j < i BY <1>4, <2>1, <3>1
    <3> QED BY <1>12, <3>2
  <2> QED BY <1>2, <2>1, <2>3, <2>4
<1> QED BY <1>11, <1>12

\* A sequence that has each member of a finite set once has all of them.
LEMMA AllInOrder ==
  ASSUME NEW S, IsFiniteSet(S), NEW s \in SetToSeqs(S)
  PROVE  /\ Cardinality(S) \in Nat /\ DOMAIN s = 1 .. Cardinality(S)
         /\ s \in [1 .. Cardinality(S) -> S]
         /\ \A i, j \in DOMAIN s : s[i] = s[j] => i = j
         /\ \A x \in S : \E i \in DOMAIN s : s[i] = x
<1> DEFINE n == Cardinality(S)
<1>1. n \in Nat BY FS_CardinalityType
<1>2. /\ s \in [1 .. n -> S] /\ DOMAIN s = 1 .. n
      /\ \A i, j \in 1 .. n : s[i] = s[j] => i = j
  BY DEF SetToSeqs
<1>3. IsFiniteSet(1 .. n) /\ Cardinality(1 .. n) = n BY <1>1, FS_Interval
<1>4. s \in Injection(1 .. n, S) BY <1>2 DEF Injection, IsInjective
<1>5. s \in Surjection(1 .. n, S) BY <1>3, <1>4, FS_Injection
<1>6. \A x \in S : \E i \in 1 .. n : s[i] = x BY <1>5 DEF Surjection
<1> QED BY <1>1, <1>2, <1>6

\* The keys of the map are known to the order and differ.
LEMMA EntryKeys ==
  ASSUME Types, Legal, entries = Entered
  PROVE  /\ \A e \in entries : e.key \in ToSet(Ascending[keyKind])
         /\ \A e, f \in entries : e.key = f.key => e = f
<1>1. ASSUME NEW i \in Live
      PROVE  /\ i \in DOMAIN doc /\ i \in Nat
             /\ Key(i) \in ToSet(Ascending[keyKind])
  <2>1. i \in DOMAIN doc BY DEF Live
  <2>2. doc[i] \in Texts[keyKind] \X Tokens /\ i \in Nat
    <3> DEFINE S == Texts[keyKind] \X Tokens
    <3>1. doc \in Seq(S) BY DEF Types
    <3> HIDE DEF S
    <3>2. DOMAIN doc = 1 .. Len(doc) /\ Len(doc) \in Nat BY <3>1, LenProperties
    <3>3. doc[i] \in S BY <2>1, <3>1, <3>2, ElementOfSeq
    <3> QED BY <2>1, <3>2, <3>3 DEF S
  <2>3. doc[i][1] \in Texts[keyKind] BY <2>2
  <2>4. Key(i) # Refused BY <2>1 DEF Legal
  <2>5. Key(i) \in ToSet(Ascending[keyKind]) \cup {Refused}
    BY <2>3, MapAssumption DEF Key, Types
  <2> QED BY <2>1, <2>2, <2>4, <2>5
<1>2. \A i, j \in Live : Key(i) = Key(j) => i = j
  <2> SUFFICES ASSUME NEW i \in Live, NEW j \in Live, Key(i) = Key(j), i # j PROVE FALSE
    OBVIOUS
  <2>1. i < j \/ j < i BY <1>1
  <2> QED BY <1>1, <2>1 DEF Legal, Live
<1>3. \A e \in entries : \E i \in Live : e = Entry(Key(i), doc[i][2], Shared(doc[i][1]))
  BY DEF Entered
<1>4. \A k, v, s : Entry(k, v, s).key = k BY DEF Entry
<1>5. ASSUME NEW e \in entries PROVE e.key \in ToSet(Ascending[keyKind])
  BY <1>1, <1>3, <1>4
<1>6. ASSUME NEW e \in entries, NEW f \in entries, e.key = f.key PROVE e = f
  <2>1. PICK i \in Live : e = Entry(Key(i), doc[i][2], Shared(doc[i][1])) BY <1>3
  <2>2. PICK j \in Live : f = Entry(Key(j), doc[j][2], Shared(doc[j][1])) BY <1>3
  <2>3. e.key = Key(i) /\ f.key = Key(j) BY <1>4, <2>1, <2>2
  <2>4. i = j BY <1>2, <1>6, <2>3
  <2> QED BY <2>1, <2>2, <2>4
<1> QED BY <1>5, <1>6
\* What Written gives for entries in any order.
LEMMA WrittenFacts ==
  ASSUME NoNullEnum, Types, Legal, entries = Entered, NEW inOrder \in SetToSeqs(entries)
  PROVE  LET n == Cardinality(entries)
             w == Written(inOrder)
         IN  /\ n \in Nat /\ DOMAIN w = 1 .. n /\ w = [i \in 1 .. n |-> w[i]]
             /\ \A i \in 1 .. n : \E e \in entries : w[i] = <<e.key, e.value>>
             /\ \A e \in entries : \E i \in 1 .. n : w[i] = <<e.key, e.value>>
             /\ \A i, j \in 1 .. n : i < j => Rank(w[i][1]) < Rank(w[j][1])
             /\ \A i \in 1 .. n : /\ Rank(w[i][1]) \in DOMAIN Ascending[keyKind]
                                  /\ Ascending[keyKind][Rank(w[i][1])] = w[i][1]
<1> DEFINE n == Cardinality(entries)
           w == Written(inOrder)
           sorted == Sorted(inOrder)
           ranks == DOMAIN Ascending[keyKind]
<1>1. /\ n \in Nat /\ DOMAIN inOrder = 1 .. n
      /\ inOrder \in [1 .. n -> entries]
      /\ \A i, j \in 1 .. n : inOrder[i] = inOrder[j] => i = j
      /\ \A e \in entries : \E i \in 1 .. n : inOrder[i] = e
  BY AllInOrder DEF Types
<1>2. ranks \subseteq Nat
  <2>1. Ascending[keyKind] \in Seq(STRING) BY MapAssumption DEF Types
  <2>2. ranks = 1 .. Len(Ascending[keyKind]) /\ Len(Ascending[keyKind]) \in Nat
    BY <2>1, LenProperties
  <2> QED BY <2>2
<1>3. \A e \in entries : Rank(e.key) \in ranks /\ Ascending[keyKind][Rank(e.key)] = e.key
  BY EntryKeys DEF Rank, ToSet
<1>4. \A e, f \in entries : Rank(e.key) = Rank(f.key) => e = f
  BY <1>3, EntryKeys
<1> DEFINE r == [i \in 1 .. n |-> Rank(inOrder[i].key)]
<1>5. PICK p \in SetToSeqs(1 .. n) : \A i, j \in 1 .. n : i < j => r[p[i]] < r[p[j]]
  <2>1. r \in [1 .. n -> Nat] BY <1>1, <1>2, <1>3
  <2>2. \A i, j \in 1 .. n : r[i] = r[j] => i = j BY <1>1, <1>4
  <2> HIDE DEF r, n
  <2> QED BY <1>1, <2>1, <2>2, AscendingOrder
<1> DEFINE Shuffles == {[i \in 1 .. n |-> inOrder[q[i]]] : q \in SetToSeqs(1 .. n)}
           InOrder(t) == \A i, j \in 1 .. n : i < j => ~ Before(t[j], t[i])
<1>6. sorted = CHOOSE t \in Shuffles : InOrder(t) BY <1>1 DEF Sorted
<1>7. \A q \in SetToSeqs(1 .. n) :
        /\ q \in [1 .. n -> 1 .. n]
        /\ \A i, j \in 1 .. n : q[i] = q[j] => i = j
        /\ \A k \in 1 .. n : \E i \in 1 .. n : q[i] = k
  <2>1. n \in Nat BY <1>1
  <2> HIDE DEF n, Shuffles, r
  <2>2. IsFiniteSet(1 .. n) /\ Cardinality(1 .. n) = n BY <2>1, FS_Interval
  <2> SUFFICES ASSUME NEW q \in SetToSeqs(1 .. n)
               PROVE  /\ q \in [1 .. n -> 1 .. n]
                      /\ \A i, j \in 1 .. n : q[i] = q[j] => i = j
                      /\ \A k \in 1 .. n : \E i \in 1 .. n : q[i] = k
    OBVIOUS
  <2> DEFINE S == 1 .. n
  <2>3. IsFiniteSet(S) /\ q \in SetToSeqs(S) BY <2>2
  <2> HIDE DEF S
  <2>4. /\ DOMAIN q = 1 .. Cardinality(S)
        /\ q \in [1 .. Cardinality(S) -> S]
        /\ \A i, j \in DOMAIN q : q[i] = q[j] => i = j
        /\ \A x \in S : \E i \in DOMAIN q : q[i] = x
    BY <2>3, AllInOrder
  <2>5. Cardinality(S) = n /\ S = 1 .. n BY <2>2 DEF S
  <2> QED BY <2>4, <2>5
<1>8. \E t \in Shuffles : InOrder(t)
  <2> DEFINE t == [i \in 1 .. n |-> inOrder[p[i]]]
  <2>1. t \in Shuffles OBVIOUS
  <2>2. ASSUME NEW i \in 1 .. n, NEW j \in 1 .. n, i < j
        PROVE  ~ Before(t[j], t[i])
    <3>1. p \in [1 .. n -> 1 .. n] BY <1>5, <1>7
    <3>4. p[i] \in 1 .. n /\ p[j] \in 1 .. n BY <3>1
    <3>2. r[p[i]] < r[p[j]] BY <1>5, <2>2
    <3>3. /\ Rank(t[i].key) = r[p[i]] /\ Rank(t[j].key) = r[p[j]]
          /\ r[p[i]] \in Nat /\ r[p[j]] \in Nat
      BY <1>1, <1>2, <1>3, <3>4
    <3> HIDE DEF t, r
    <3> QED BY <3>2, <3>3 DEF Before
  <2> QED BY <2>1, <2>2
<1>9. sorted \in Shuffles /\ InOrder(sorted)
  <2> HIDE DEF Shuffles, InOrder, sorted
  <2> QED BY <1>6, <1>8
<1>10. PICK q \in SetToSeqs(1 .. n) : sorted = [i \in 1 .. n |-> inOrder[q[i]]]
  BY <1>9
<1> HIDE DEF Shuffles, r
<1>11. /\ DOMAIN sorted = 1 .. n
       /\ \A i \in 1 .. n : sorted[i] \in entries
       /\ \A i, j \in 1 .. n : sorted[i] = sorted[j] => i = j
       /\ \A e \in entries : \E i \in 1 .. n : sorted[i] = e
  <2>0. /\ q \in [1 .. n -> 1 .. n]
        /\ \A i, j \in 1 .. n : q[i] = q[j] => i = j
        /\ \A k \in 1 .. n : \E i \in 1 .. n : q[i] = k
    BY <1>7
  <2> HIDE DEF sorted, n
  <2>1. \A i \in 1 .. n : q[i] \in 1 .. n /\ sorted[i] = inOrder[q[i]] BY <1>10, <2>0
  <2>2. DOMAIN sorted = 1 .. n BY <1>10
  <2>3. \A i \in 1 .. n : sorted[i] \in entries BY <1>1, <2>1
  <2>4. \A i, j \in 1 .. n : sorted[i] = sorted[j] => i = j
    BY <1>1, <2>0, <2>1
  <2>5. ASSUME NEW e \in entries PROVE \E i \in 1 .. n : sorted[i] = e
    <3>1. PICK k \in 1 .. n : inOrder[k] = e BY <1>1
    <3>2. PICK i \in 1 .. n : q[i] = k BY <2>0
    <3> QED BY <2>1, <3>1, <3>2
  <2> QED BY <2>2, <2>3, <2>4, <2>5
<1>12. w = [i \in 1 .. n |-> <<sorted[i].key, sorted[i].value>>]
  <2>1. valueKind # "nullEnum" BY DEF Types, NoNullEnum
  <2> HIDE DEF sorted
  <2> QED BY <1>11, <2>1 DEF Written, sorted
<1>13. ASSUME NEW i \in 1 .. n, NEW j \in 1 .. n, i < j
       PROVE  Rank(sorted[i].key) < Rank(sorted[j].key)
  <2>1. sorted[i] \in entries /\ sorted[j] \in entries /\ sorted[i] # sorted[j]
    BY <1>1, <1>11, <1>13
  <2>2. ~ (Rank(sorted[j].key) < Rank(sorted[i].key)) BY <1>9, <1>13 DEF Before
  <2>3. Rank(sorted[i].key) # Rank(sorted[j].key) BY <1>4, <2>1
  <2>4. Rank(sorted[i].key) \in Nat /\ Rank(sorted[j].key) \in Nat BY <1>2, <1>3, <2>1
  <2> QED BY <2>2, <2>3, <2>4
<1> HIDE DEF sorted, w, n
<1>14. \A i \in 1 .. n : w[i] = <<sorted[i].key, sorted[i].value>> /\ w[i][1] = sorted[i].key
  BY <1>12
<1>15. DOMAIN w = 1 .. n /\ w = [i \in 1 .. n |-> w[i]] BY <1>12
<1>16. \A e \in entries : \E i \in 1 .. n : w[i] = <<e.key, e.value>> BY <1>11, <1>14
<1>17. \A i \in 1 .. n : \E e \in entries : w[i] = <<e.key, e.value>> BY <1>11, <1>14
<1>18. \A i \in 1 .. n : /\ Rank(w[i][1]) \in ranks
                         /\ Ascending[keyKind][Rank(w[i][1])] = w[i][1]
  BY <1>3, <1>11, <1>14
<1>19. \A i, j \in 1 .. n : i < j => Rank(w[i][1]) < Rank(w[j][1])
  BY <1>13, <1>14
<1> QED BY <1>1, <1>15, <1>16, <1>17, <1>18, <1>19 DEF w, n

LEMMA WriteOrders ==
  ASSUME NoNullEnum, IInv, Write
  PROVE  OutputIsOrdered'
<1>1. Types /\ Legal /\ entries = Entered BY DEF Write, IInv, EntriesInv
<1>2. PICK inOrder \in SetToSeqs(entries) : text' = Written(inOrder) BY DEF Write
<1> DEFINE n == Cardinality(entries)
<1>3. /\ n \in Nat /\ DOMAIN text' = 1 .. n /\ text' = [i \in 1 .. n |-> text'[i]]
      /\ \A i \in 1 .. n : \E e \in entries : text'[i] = <<e.key, e.value>>
      /\ \A e \in entries : \E i \in 1 .. n : text'[i] = <<e.key, e.value>>
      /\ \A i, j \in 1 .. n : i < j => Rank(text'[i][1]) < Rank(text'[j][1])
      /\ \A i \in 1 .. n : /\ Rank(text'[i][1]) \in DOMAIN Ascending[keyKind]
                           /\ Ascending[keyKind][Rank(text'[i][1])] = text'[i][1]
  <2> DEFINE w == Written(inOrder)
  <2>1. /\ n \in Nat /\ DOMAIN w = 1 .. n /\ w = [i \in 1 .. n |-> w[i]]
        /\ \A i \in 1 .. n : \E e \in entries : w[i] = <<e.key, e.value>>
        /\ \A e \in entries : \E i \in 1 .. n : w[i] = <<e.key, e.value>>
        /\ \A i, j \in 1 .. n : i < j => Rank(w[i][1]) < Rank(w[j][1])
        /\ \A i \in 1 .. n : /\ Rank(w[i][1]) \in DOMAIN Ascending[keyKind]
                             /\ Ascending[keyKind][Rank(w[i][1])] = w[i][1]
    BY <1>1, WrittenFacts
  <2> HIDE DEF w, n
  <2>2. text' = w BY <1>2 DEF w
  <2> QED BY <2>1, <2>2
<1> HIDE DEF n
<1>0. n \in Nat /\ DOMAIN text' = 1 .. n BY <1>3
<1>4. {<<e.key, e.value>> : e \in entries} = Meaning BY <1>1, EntriesMean
<1>5. Meaning' = Meaning /\ keyKind' = keyKind
  <2>1. UNCHANGED <<field, doc>> BY DEF Write
  <2> QED BY <2>1 DEF field, Meaning, Key, Dropped
<1>9. /\ \A i \in 1 .. n : text'[i] \in Meaning
      /\ \A x \in Meaning : \E i \in 1 .. n : text'[i] = x
  <2>1. \A x \in Meaning : \E e \in entries : x = <<e.key, e.value>> BY <1>4
  <2>2. \A e \in entries : <<e.key, e.value>> \in Meaning BY <1>4
  <2>3. \A i \in 1 .. n : \E e \in entries : text'[i] = <<e.key, e.value>> BY <1>3
  <2>4. \A e \in entries : \E i \in 1 .. n : text'[i] = <<e.key, e.value>> BY <1>3
  <2>5. \A i \in 1 .. n : text'[i] \in Meaning BY <2>2, <2>3
  <2>6. ASSUME NEW x \in Meaning PROVE \E i \in 1 .. n : text'[i] = x
    <3>1. PICK e \in entries : x = <<e.key, e.value>> BY <2>1
    <3> QED BY <2>4, <3>1
  <2> QED BY <2>5, <2>6
<1>6. ToSet(text') = Meaning BY <1>0, <1>9 DEF ToSet
<1>7. Len(text') = n 
  <2>1. text' \in Seq(Meaning)
    <3>1. \A i \in 1 .. n : text'[i] \in Meaning BY <1>9
    <3>2. text' \in [1 .. n -> Meaning] BY <1>3, <3>1
    <3> QED BY <1>3, <3>2
  <2>2. DOMAIN text' = 1 .. Len(text') /\ Len(text') \in Nat BY <2>1, LenProperties
  <2> QED BY <1>3, <2>2
<1>8. Cardinality(Meaning) = n
  <2>1. text' \in [1 .. n -> Meaning]
    <3>1. \A i \in 1 .. n : text'[i] \in Meaning BY <1>9
    <3> QED BY <1>3, <3>1
  <2>2. \A i, j \in 1 .. n : text'[i] = text'[j] => i = j
    <3> SUFFICES ASSUME NEW i \in 1 .. n, NEW j \in 1 .. n, text'[i] = text'[j], i # j
                 PROVE FALSE
      OBVIOUS
    <3>1. i < j \/ j < i BY <1>3
    <3>2. Rank(text'[i][1]) \in Nat
      <4>1. Ascending[keyKind] \in Seq(STRING) BY <1>1, MapAssumption DEF Types
      <4>2. /\ DOMAIN Ascending[keyKind] = 1 .. Len(Ascending[keyKind])
            /\ Len(Ascending[keyKind]) \in Nat
        BY <4>1, LenProperties
      <4>3. Rank(text'[i][1]) \in DOMAIN Ascending[keyKind] BY <1>3
      <4> QED BY <4>2, <4>3
    <3>3. Rank(text'[i][1]) < Rank(text'[i][1]) BY <1>3, <3>1
    <3> QED BY <3>2, <3>3
  <2>3. \A x \in Meaning : \E i \in 1 .. n : text'[i] = x BY <1>9
  <2>4. text' \in Bijection(1 .. n, Meaning)
    BY <2>1, <2>2, <2>3 DEF Bijection, Injection, IsInjective, Surjection
  <2>5. ExistsBijection(1 .. n, Meaning) BY <2>4 DEF ExistsBijection
  <2>6. IsFiniteSet(1 .. n) /\ Cardinality(1 .. n) = n BY <1>0, FS_Interval
  <2> QED BY <2>5, <2>6, FS_Bijection
<1> QED BY <1>3, <1>5, <1>6, <1>7, <1>8 DEF OutputIsOrdered

\* The text has each entry once, in ascending order of the keys, whatever order
\* the map is iterated in.
THEOREM WritesInOrder ==
  ASSUME KeysAgree, NoNullEnum
  PROVE  Spec => []OutputIsOrdered
<1>1. Init => OutputIsOrdered BY DEF Init, OutputIsOrdered
<1>2. IInv /\ OutputIsOrdered /\ [Next]_vars => OutputIsOrdered'
  <2> SUFFICES ASSUME IInv, OutputIsOrdered, [Next]_vars PROVE OutputIsOrdered'
    OBVIOUS
  <2>1. CASE Write BY <2>1, WriteOrders
  <2>2. CASE UNCHANGED vars
    <3>1. UNCHANGED <<keyKind, doc, text, status>> BY <2>2 DEF vars, field
    <3>2. Meaning' = Meaning BY <3>1 DEF Meaning, Key, Dropped
    <3> QED BY <3>1, <3>2 DEF OutputIsOrdered
  <2>3. CASE status' # "written" BY <2>3 DEF OutputIsOrdered
  <2>4. [Next]_vars => Write \/ UNCHANGED vars \/ status' # "written"
    BY DEF Next, Begin, ReadMember, ReadValue, Put, Fail, End, Reuse
  <2> QED BY <2>1, <2>2, <2>3, <2>4
<1> QED BY <1>1, <1>2, InitIInv, NextIInv, PTL DEF Spec
=============================================================================
