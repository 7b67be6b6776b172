-------------------------- MODULE NestedInputProofs --------------------------
(***************************************************************************)
(* Proofs about NestedInput, for any limit and any input: the counter is   *)
(* the nesting, and the calls of all decoders together stay within the     *)
(* limit.                                                                  *)
(***************************************************************************)
EXTENDS NestedInput, SequenceTheorems, FiniteSetTheorems,
        WellFoundedInduction, TLAPS

\* How often f has a value of K from position a to position n.
Count(f, K, a, n) == Cardinality({k \in a .. n : f[k] \in K})

\* How many objects and arrays are open behind the first i tokens.
Opening == {"{", "["}
Closing == {"}", "]"}
Level(i) == Count(doc, Opening, 1, i) - Count(doc, Closing, 1, i)

Kinds == {"handed", "unmarshal", "method", "table", "fast", "slow", "node",
          "fastField", "slowField", "tableField", "farField", "anyField", "any",
          "skip", "fastLoop", "slowLoop", "tableLoop", "nodeLoop", "skipObject",
          "skipArray", "look", "wrapped", "farRaw", "anyRaw"}
Skipping == {"skip", "skipObject", "skipArray"}
Opened == Counted \cup Uncounted

KindsOf(s) == [k \in 1 .. Len(s) |-> s[k].kind]

\* Of the first n calls: the last one that began a decoder of its own, what that
\* decoder counts, what all decoders have open, and where the data ends.
Base(f, n) == Max({k \in 1 .. n : f[k] = "handed"})
Nest(f, n) == Count(f, Counted, Base(f, n), n)
Total(f, n) == Count(f, Opened, 1, n)
Limit(s, n) == LET h == Base(KindsOf(s), n) IN IF h = 1 THEN Len(doc) ELSE s[h].back.off

\* A decoder that stands where n calls are in progress.
Decoder == [off : Nat, depth : Nat, limit : Nat]
Stands(dec, s, n) ==
  /\ dec.depth = Nest(KindsOf(s), n)
  /\ dec.depth <= MaxDepth
  /\ Level(dec.off) = Total(KindsOf(s), n)
  /\ dec.limit = Limit(s, n)
  /\ dec.off <= dec.limit
  /\ dec.limit <= Len(doc)

\* No more is open, up to token e, than the limit allows for all decoders.
Bounded(e) == \A i \in 0 .. e : Level(i) <= MaxDepth + 1

Names == Supported \cup Forwarding \cup {call[2] : call \in Roots}
         \cup Range(doc) \cup {"none", "end", "Any"}
CallType == [kind : Kinds, first : BOOLEAN, field : 1 .. 4, type : Names, back : Decoder]

Types ==
  /\ doc \in Seq(STRING)
  /\ far \in Names
  /\ status \in {"reading", "done", "failed"}
  /\ d \in Decoder
  /\ stack \in Seq(CallType)

\* The bottom of the stack, and where each call began.
BackOK(s) ==
  /\ Len(s) > 0
  /\ s[1].kind = "handed"
  /\ \A k \in 2 .. Len(s) : Stands(s[k].back, s, k - 1)

\* Calls began in the order of the input, except that a handed value begins
\* with its end.
OrderOK(s, dec) ==
  \A k \in 1 .. Len(s) : s[k].kind # "handed" =>
    /\ \A l \in k .. Len(s) : s[k].back.off <= s[l].back.off
    /\ s[k].back.off <= dec.off

\* What was handed over was seen to its end before.
HandedOK(s) ==
  \A k \in 2 .. Len(s) : s[k].kind = "handed" => Bounded(s[k].back.off)

\* The object of an Any is looked through by skipping.
LookOK(s, dec) ==
  \A k \in 1 .. Len(s) : s[k].kind = "look" =>
    /\ \A l \in k + 1 .. Len(s) : s[l].kind \in Skipping
    /\ doc[s[k].back.off + 1] \in Opening
    /\ s[k].first => k = Len(s) /\ dec.off = s[k].back.off + 1

\* When it is read, it was seen to its end, which is still ahead.
WrappedOK(s, dec) ==
  \A k \in 2 .. Len(s) : s[k].kind = "wrapped" =>
    \E e \in 0 .. Len(doc) :
      /\ Level(e) < Total(KindsOf(s), k)
      /\ dec.off < e
      /\ Bounded(e)

\* The calls s in progress, and dec the decoder at work.
Reading(s, dec) ==
  /\ BackOK(s)
  /\ Stands(dec, s, Len(s))
  /\ Bounded(dec.off)
  /\ OrderOK(s, dec) /\ HandedOK(s) /\ LookOK(s, dec) /\ WrappedOK(s, dec)

IInv == Types /\ (status = "reading" => Reading(stack, d))
-----------------------------------------------------------------------------
(* Counting *)

LEMMA CountType ==
  ASSUME NEW f, NEW K, NEW a \in Nat, NEW n \in Nat
  PROVE  /\ Count(f, K, a, n) \in Nat
         /\ IsFiniteSet({k \in a .. n : f[k] \in K})
         /\ n < a => Count(f, K, a, n) = 0
  <1> DEFINE S == {k \in a .. n : f[k] \in K}
  <1>1. IsFiniteSet(a .. n)
    BY FS_Interval
  <1>2. IsFiniteSet(S)
    BY <1>1, FS_Subset
  <1>3. Cardinality(S) \in Nat
    BY <1>2, FS_CardinalityType
  <1>4. n < a => S = {}
    OBVIOUS
  <1>5. n < a => Cardinality(S) = 0
    BY <1>4, FS_EmptySet
  <1> QED BY <1>2, <1>3, <1>5 DEF Count

LEMMA CountNext ==
  ASSUME NEW f, NEW K, NEW a \in Nat, NEW n \in Nat, a <= n + 1
  PROVE  Count(f, K, a, n + 1)
           = Count(f, K, a, n) + (IF f[n + 1] \in K THEN 1 ELSE 0)
  <1> DEFINE S == {k \in a .. n : f[k] \in K}
             T == {k \in a .. n + 1 : f[k] \in K}
  <1>1. IsFiniteSet(S) /\ Cardinality(S) \in Nat
    BY CountType DEF Count
  <1>2. n + 1 \notin S
    OBVIOUS
  <1>3. CASE f[n + 1] \in K
    <2>1. T = S \cup {n + 1}
      BY <1>3
    <2> HIDE DEF S, T
    <2>2. Cardinality(T) = Cardinality(S) + 1
      BY <1>1, <1>2, <2>1, FS_AddElement
    <2> QED BY <1>3, <2>2 DEF Count, S, T
  <1>4. CASE f[n + 1] \notin K
    <2>1. T = S
      BY <1>4
    <2> QED BY <1>1, <1>4, <2>1 DEF Count
  <1> QED BY <1>3, <1>4

LEMMA CountSame ==
  ASSUME NEW f, NEW g, NEW K, NEW a \in Nat, NEW n \in Nat,
         \A k \in a .. n : f[k] = g[k]
  PROVE  Count(f, K, a, n) = Count(g, K, a, n)
  <1>1. {k \in a .. n : f[k] \in K} = {k \in a .. n : g[k] \in K}
    OBVIOUS
  <1> QED BY <1>1 DEF Count

LEMMA CountFlat ==
  ASSUME NEW f, NEW K, NEW a \in Nat, NEW i \in Nat, NEW j \in Nat, i <= j,
         \A k \in i + 1 .. j : f[k] \notin K
  PROVE  Count(f, K, a, j) = Count(f, K, a, i)
  <1>1. {k \in a .. j : f[k] \in K} = {k \in a .. i : f[k] \in K}
    OBVIOUS
  <1> QED BY <1>1 DEF Count

LEMMA CountMore ==
  ASSUME NEW f, NEW K, NEW a \in Nat, NEW i \in Nat, NEW j \in Nat, i <= j
  PROVE  Count(f, K, a, i) <= Count(f, K, a, j)
  <1> DEFINE S == {k \in a .. i : f[k] \in K}
             T == {k \in a .. j : f[k] \in K}
  <1>1. IsFiniteSet(T)
    BY CountType
  <1>2. S \subseteq T
    OBVIOUS
  <1> HIDE DEF S, T
  <1>3. Cardinality(S) <= Cardinality(T)
    BY <1>1, <1>2, FS_Subset
  <1> QED BY <1>3 DEF Count, S, T

\* What is open is what the decoders count and the objects Any looks at.
LEMMA CountOpened ==
  ASSUME NEW f, NEW n \in Nat
  PROVE  Total(f, n) = Count(f, Counted, 1, n) + Count(f, Uncounted, 1, n)
  <1> DEFINE S == {k \in 1 .. n : f[k] \in Counted}
             T == {k \in 1 .. n : f[k] \in Uncounted}
             U == {k \in 1 .. n : f[k] \in Opened}
  <1>1. IsFiniteSet(S) /\ IsFiniteSet(T)
    BY CountType
  <1>2. U = S \cup T
    BY DEF Opened
  <1>3. S \cap T = {}
    BY DEF Counted, Uncounted
  <1>4. Cardinality(S) = Count(f, Counted, 1, n) /\ Cardinality(T) = Count(f, Uncounted, 1, n)
        /\ Cardinality(U) = Total(f, n)
    BY DEF Count, Total
  <1>5. Cardinality(S) \in Nat /\ Cardinality(T) \in Nat
    BY <1>1, FS_CardinalityType
  <1> HIDE DEF S, T, U
  <1>6. Cardinality(S \cup T) = Cardinality(S) + Cardinality(T) - Cardinality(S \cap T)
    BY <1>1, FS_Union
  <1>7. Cardinality(S \cap T) = 0
    BY <1>3, FS_EmptySet
  <1> QED BY <1>2, <1>4, <1>5, <1>6, <1>7
-----------------------------------------------------------------------------
(* The last call that began a decoder *)

LEMMA LastHanded ==
  ASSUME NEW f, NEW n \in Nat \ {0}, f[1] = "handed"
  PROVE  \E h \in 1 .. n : f[h] = "handed" /\ \A k \in h + 1 .. n : f[k] # "handed"
  <1> DEFINE T == {j \in Nat : n - j \in 1 .. n /\ f[n - j] = "handed"}
  <1>1. T \subseteq Nat /\ n - 1 \in T
    OBVIOUS
  <1>2. T # {}
    BY <1>1
  <1>3. PICK j \in T : \A y \in T : ~ (<<y, j>> \in OpToRel(<, Nat))
    BY <1>1, <1>2, WFMin, NatLessThanWellFounded
  <1>4. \A y \in T : ~ (y < j)
    BY <1>1, <1>3 DEF OpToRel
  <1>5. n - j \in 1 .. n /\ f[n - j] = "handed"
    OBVIOUS
  <1>6. ASSUME NEW k \in n - j + 1 .. n, f[k] = "handed"
        PROVE  FALSE
    <2>1. n - k \in Nat /\ n - (n - k) = k /\ n - k < j /\ k \in 1 .. n
      BY <1>5
    <2>2. n - k \in T
      BY <2>1, <1>6
    <2> QED BY <1>4, <2>1, <2>2
  <1> QED BY <1>5, <1>6

LEMMA BaseIs ==
  ASSUME NEW f, NEW n \in Nat \ {0}, NEW h \in 1 .. n, f[h] = "handed",
         \A k \in h + 1 .. n : f[k] # "handed"
  PROVE  Base(f, n) = h
  <1> DEFINE S == {k \in 1 .. n : f[k] = "handed"}
  <1>1. h \in S /\ \A k \in S : h >= k
    OBVIOUS
  <1>2. \A x \in S : (\A k \in S : x >= k) => x = h
    OBVIOUS
  <1>3. Max(S) = h
    BY <1>1, <1>2 DEF Max
  <1> QED BY <1>3 DEF Base

LEMMA BaseFacts ==
  ASSUME NEW f, NEW n \in Nat \ {0}, f[1] = "handed"
  PROVE  /\ Base(f, n) \in 1 .. n
         /\ f[Base(f, n)] = "handed"
         /\ \A k \in Base(f, n) + 1 .. n : f[k] # "handed"
         /\ f[n + 1] # "handed" => Base(f, n + 1) = Base(f, n)
         /\ f[n + 1] = "handed" => Base(f, n + 1) = n + 1
  <1>1. PICK h \in 1 .. n : f[h] = "handed" /\ \A k \in h + 1 .. n : f[k] # "handed"
    BY LastHanded
  <1>2. Base(f, n) = h
    BY <1>1, BaseIs
  <1>3. n + 1 \in Nat \ {0} /\ h \in 1 .. n + 1 /\ n + 1 \in 1 .. n + 1
    OBVIOUS
  <1>4. ASSUME f[n + 1] # "handed"
        PROVE  Base(f, n + 1) = h
    <2>1. \A k \in h + 1 .. n + 1 : f[k] # "handed"
      BY <1>1, <1>4
    <2> QED BY <1>1, <1>3, <2>1, BaseIs
  <1>5. ASSUME f[n + 1] = "handed"
        PROVE  Base(f, n + 1) = n + 1
    BY <1>3, <1>5, BaseIs
  <1> QED BY <1>1, <1>2, <1>4, <1>5

\* What a call adds to the count of its decoder and of all.
LEMMA NestNext ==
  ASSUME NEW f, NEW n \in Nat \ {0}, f[1] = "handed"
  PROVE  /\ Nest(f, n) \in Nat /\ Total(f, n) \in Nat
         /\ f[n + 1] # "handed" =>
              Nest(f, n + 1) = Nest(f, n) + (IF f[n + 1] \in Counted THEN 1 ELSE 0)
         /\ f[n + 1] = "handed" => Nest(f, n + 1) = 0
         /\ Total(f, n + 1) = Total(f, n) + (IF f[n + 1] \in Opened THEN 1 ELSE 0)
  <1>1. Base(f, n) \in 1 .. n /\ n + 1 \in Nat /\ 1 <= n + 1
    BY BaseFacts
  <1>2. Base(f, n) \in Nat /\ Base(f, n) <= n + 1
    BY <1>1
  <1>3. Nest(f, n) \in Nat /\ Total(f, n) \in Nat
    BY <1>2, CountType DEF Nest, Total
  <1>4. f[n + 1] # "handed" =>
          Nest(f, n + 1) = Nest(f, n) + (IF f[n + 1] \in Counted THEN 1 ELSE 0)
    BY <1>2, BaseFacts, CountNext DEF Nest
  <1>5. ASSUME f[n + 1] = "handed"
        PROVE  Nest(f, n + 1) = 0
    <2>1. Base(f, n + 1) = n + 1
      BY <1>5, BaseFacts
    <2>2. Count(f, Counted, n + 1, n) = 0
      <3>1. n \in Nat /\ n + 1 \in Nat /\ n < n + 1
        OBVIOUS
      <3> QED BY <3>1, CountType
    <2>3. Count(f, Counted, n + 1, n + 1) = 0
      BY <1>1, <1>5, <2>2, CountNext DEF Counted
    <2> QED BY <2>1, <2>3 DEF Nest
  <1>6. Total(f, n + 1) = Total(f, n) + (IF f[n + 1] \in Opened THEN 1 ELSE 0)
    BY <1>1, CountNext DEF Total
  <1> QED BY <1>3, <1>4, <1>5, <1>6
-----------------------------------------------------------------------------
(* Levels of the input *)

LEMMA LevelStep ==
  ASSUME NEW i \in Nat
  PROVE  /\ Level(i) \in Int
         /\ doc[i + 1] \in Opening => Level(i + 1) = Level(i) + 1
         /\ doc[i + 1] \in Closing => Level(i + 1) = Level(i) - 1
  <1>1. /\ Count(doc, Opening, 1, i) \in Nat
        /\ Count(doc, Closing, 1, i) \in Nat
    BY CountType
  <1>2. Count(doc, Opening, 1, i + 1)
          = Count(doc, Opening, 1, i) + (IF doc[i + 1] \in Opening THEN 1 ELSE 0)
    BY CountNext
  <1>3. Count(doc, Closing, 1, i + 1)
          = Count(doc, Closing, 1, i) + (IF doc[i + 1] \in Closing THEN 1 ELSE 0)
    BY CountNext
  <1>4. doc[i + 1] \in Opening => doc[i + 1] \notin Closing
    BY DEF Opening, Closing
  <1> QED BY <1>1, <1>2, <1>3, <1>4 DEF Level

LEMMA LevelFlat ==
  ASSUME NEW i \in Nat, NEW j \in Nat, i <= j,
         \A k \in i .. j - 1 : doc[k + 1] \notin Opening \cup Closing
  PROVE  \A k \in i .. j : Level(k) = Level(i)
  <1> SUFFICES ASSUME NEW k \in i .. j
               PROVE  Level(k) = Level(i)
    OBVIOUS
  <1>1. \A l \in i + 1 .. k : doc[l] \notin Opening /\ doc[l] \notin Closing
    <2> SUFFICES ASSUME NEW l \in i + 1 .. k
                 PROVE  doc[l] \notin Opening \cup Closing
      OBVIOUS
    <2>1. l - 1 \in i .. j - 1 /\ l = (l - 1) + 1
      OBVIOUS
    <2> QED BY <2>1
  <1>2. k \in Nat /\ i <= k
    OBVIOUS
  <1>3. /\ Count(doc, Opening, 1, k) = Count(doc, Opening, 1, i)
        /\ Count(doc, Closing, 1, k) = Count(doc, Closing, 1, i)
    BY <1>1, <1>2, CountFlat
  <1> QED BY <1>3 DEF Level
-----------------------------------------------------------------------------
(* Where a decoder stands *)

\* The first n calls of t are those of s, but for how far their loops have come.
Same(s, t, n) ==
  /\ n <= Len(s) /\ n <= Len(t)
  /\ \A k \in 1 .. n : /\ t[k].kind = s[k].kind
                       /\ t[k].back = s[k].back
                       /\ t[k].first => s[k].first

LEMMA SameCounts ==
  ASSUME NEW s, NEW t, NEW n \in Nat \ {0}, Len(s) \in Nat, Len(t) \in Nat,
         Same(s, t, n), s[1].kind = "handed"
  PROVE  /\ Nest(KindsOf(t), n) = Nest(KindsOf(s), n)
         /\ Total(KindsOf(t), n) = Total(KindsOf(s), n)
         /\ Limit(t, n) = Limit(s, n)
         /\ \A dec : Stands(dec, s, n) => Stands(dec, t, n)
  <1> DEFINE f == KindsOf(s)
             g == KindsOf(t)
  <1>1. \A k \in 1 .. n : f[k] = g[k]
    BY DEF Same, KindsOf
  <1>2. f[1] = "handed"
    BY DEF Same, KindsOf
  <1>3. Base(f, n) = Base(g, n)
    <2>1. {k \in 1 .. n : f[k] = "handed"} = {k \in 1 .. n : g[k] = "handed"}
      BY <1>1
    <2> QED BY <2>1 DEF Base
  <1> HIDE DEF f, g
  <1>4. Base(f, n) \in 1 .. n
    BY <1>2, BaseFacts
  <1>5. Total(g, n) = Total(f, n)
    BY <1>1, CountSame DEF Total
  <1>6. Nest(g, n) = Nest(f, n)
    <2>1. Base(f, n) \in Nat /\ \A k \in Base(f, n) .. n : f[k] = g[k]
      BY <1>1, <1>4
    <2>2. Count(g, Counted, Base(f, n), n) = Count(f, Counted, Base(f, n), n)
      BY <2>1, CountSame
    <2> QED BY <1>3, <2>2 DEF Nest
  <1>7. Limit(t, n) = Limit(s, n)
    BY <1>3, <1>4 DEF Limit, Same, f, g
  <1> QED BY <1>5, <1>6, <1>7 DEF Stands, f, g

\* Standing one call deeper, whatever the call.
LEMMA StandsDeeper ==
  ASSUME NEW s, NEW n \in Nat \ {0}, Len(s) \in Nat, n + 1 <= Len(s),
         s[1].kind = "handed", s[n + 1].kind # "handed"
  PROVE  /\ Nest(KindsOf(s), n) \in Nat /\ Total(KindsOf(s), n) \in Nat
         /\ Nest(KindsOf(s), n + 1)
              = Nest(KindsOf(s), n) + (IF s[n + 1].kind \in Counted THEN 1 ELSE 0)
         /\ Total(KindsOf(s), n + 1)
              = Total(KindsOf(s), n) + (IF s[n + 1].kind \in Opened THEN 1 ELSE 0)
         /\ Limit(s, n + 1) = Limit(s, n)
  <1> DEFINE f == KindsOf(s)
  <1>1. f[1] = "handed" /\ f[n + 1] = s[n + 1].kind
    BY DEF KindsOf
  <1>2. Limit(s, n + 1) = Limit(s, n)
    <2>1. f[n + 1] # "handed"
      BY <1>1
    <2> HIDE DEF f
    <2>2. Base(f, n + 1) = Base(f, n)
      BY <1>1, <2>1, BaseFacts
    <2> QED BY <2>2 DEF Limit, f
  <1> HIDE DEF f
  <1>3. f[n + 1] # "handed"
    BY <1>1
  <1>4. /\ Nest(f, n) \in Nat /\ Total(f, n) \in Nat
        /\ Nest(f, n + 1) = Nest(f, n) + (IF f[n + 1] \in Counted THEN 1 ELSE 0)
        /\ Total(f, n + 1) = Total(f, n) + (IF f[n + 1] \in Opened THEN 1 ELSE 0)
    BY <1>1, <1>3, NestNext
  <1> QED BY <1>1, <1>2, <1>4 DEF f

\* A call that neither counts nor opens anything changes nothing.
LEMMA StandsFlat ==
  ASSUME NEW s, NEW n \in Nat \ {0}, Len(s) \in Nat, n + 1 <= Len(s),
         s[1].kind = "handed", s[n + 1].kind \notin Opened \cup {"handed"}, NEW dec
  PROVE  Stands(dec, s, n) <=> Stands(dec, s, n + 1)
  <1>1. s[n + 1].kind # "handed" /\ s[n + 1].kind \notin Counted
        /\ s[n + 1].kind \notin Opened
    BY DEF Opened
  <1>2. /\ Nest(KindsOf(s), n + 1) = Nest(KindsOf(s), n)
        /\ Total(KindsOf(s), n + 1) = Total(KindsOf(s), n)
        /\ Limit(s, n + 1) = Limit(s, n)
    BY <1>1, StandsDeeper
  <1> QED BY <1>2 DEF Stands

\* A new decoder, begun on a value that ends where the one before stands.
LEMMA StandsHanded ==
  ASSUME NEW s, NEW n \in Nat \ {0}, Len(s) \in Nat, n + 1 <= Len(s),
         s[1].kind = "handed", s[n + 1].kind = "handed"
  PROVE  /\ Nest(KindsOf(s), n + 1) = 0
         /\ Total(KindsOf(s), n + 1) = Total(KindsOf(s), n)
         /\ Limit(s, n + 1) = s[n + 1].back.off
  <1> DEFINE f == KindsOf(s)
  <1>1. f[1] = "handed" /\ f[n + 1] = "handed"
    BY DEF KindsOf
  <1> HIDE DEF f
  <1>2. f[n + 1] \notin Opened
    BY <1>1 DEF Opened, Counted, Uncounted
  <1>3. Total(f, n) \in Nat /\ Nest(f, n + 1) = 0
        /\ Total(f, n + 1) = Total(f, n) + (IF f[n + 1] \in Opened THEN 1 ELSE 0)
    BY <1>1, NestNext
  <1>4. Base(f, n + 1) = n + 1
    BY <1>1, BaseFacts
  <1> QED BY <1>2, <1>3, <1>4 DEF Limit, f

\* No call closes what another one opened.
LEMMA TotalMore ==
  ASSUME NEW s, NEW k \in Nat, NEW n \in Nat, k <= n
  PROVE  /\ Total(KindsOf(s), k) \in Nat /\ Total(KindsOf(s), n) \in Nat
         /\ Total(KindsOf(s), k) <= Total(KindsOf(s), n)
  <1> DEFINE f == KindsOf(s)
  <1> HIDE DEF f
  <1>1. Total(f, k) \in Nat /\ Total(f, n) \in Nat /\ Total(f, k) <= Total(f, n)
    BY CountType, CountMore DEF Total
  <1> QED BY <1>1 DEF f
-----------------------------------------------------------------------------
(* Steps *)

\* The calls after a step that replaces the top call.
LEMMA Replaced ==
  ASSUME stack \in Seq(CallType), Len(stack) > 0, NEW calls \in Seq(CallType)
  PROVE  /\ Front(stack) \o calls \in Seq(CallType)
         /\ Len(Front(stack) \o calls) = Len(stack) - 1 + Len(calls)
         /\ \A k \in 1 .. Len(stack) - 1 : (Front(stack) \o calls)[k] = stack[k]
         /\ \A k \in 1 .. Len(calls) :
              (Front(stack) \o calls)[Len(stack) - 1 + k] = calls[k]
  <1> DEFINE n == Len(stack)
  <1>1. n \in Nat \ {0}
    BY LenProperties
  <1>2. /\ Front(stack) \in Seq(CallType)
        /\ Len(Front(stack)) = n - 1
        /\ \A k \in 1 .. n - 1 : Front(stack)[k] = stack[k]
    <2> DEFINE front == SubSeq(stack, 1, n - 1)
    <2>1. n - 1 \in Int /\ 1 \in Int /\ \A k \in 1 .. n - 1 : stack[k] \in CallType
      BY <1>1, ElementOfSeq
    <2>2. /\ front \in Seq(CallType)
          /\ Len(front) = IF 1 <= n - 1 THEN n - 1 - 1 + 1 ELSE 0
          /\ \A k \in 1 .. n - 1 - 1 + 1 : front[k] = stack[1 + k - 1]
      BY <2>1, SubSeqProperties
    <2>3. Front(stack) = front
      BY DEF Front
    <2> HIDE DEF front, n
    <2>4. Len(front) = n - 1 /\ \A k \in 1 .. n - 1 : front[k] = stack[k]
      BY <1>1, <2>2
    <2> QED BY <2>2, <2>3, <2>4
  <1>3. Len(calls) \in Nat
    BY LenProperties
  <1> DEFINE t == Front(stack) \o calls
  <1>4. t \in Seq(CallType) /\ Len(t) = Len(Front(stack)) + Len(calls)
    BY <1>2, ConcatProperties
  <1>5. \A k \in 1 .. Len(t) : t[k] = IF k <= Len(Front(stack)) THEN Front(stack)[k]
                                     ELSE calls[k - Len(Front(stack))]
    BY <1>2, ConcatProperties
  <1>6. Len(t) = n - 1 + Len(calls)
    BY <1>2, <1>4
  <1> HIDE DEF t, n
  <1>7. \A k \in 1 .. n - 1 : t[k] = stack[k]
    <2> SUFFICES ASSUME NEW k \in 1 .. n - 1
                 PROVE  t[k] = stack[k]
      OBVIOUS
    <2>1. k \in 1 .. Len(t) /\ k <= Len(Front(stack))
      BY <1>1, <1>2, <1>3, <1>6
    <2> QED BY <1>2, <1>5, <2>1
  <1>8. ASSUME NEW k \in 1 .. Len(calls)
        PROVE  t[n - 1 + k] = calls[k]
    <2>1. n - 1 + k \in 1 .. Len(t) /\ ~ (n - 1 + k <= n - 1) /\ n - 1 + k - (n - 1) = k
      BY <1>1, <1>3, <1>6
    <2> QED BY <1>2, <1>5, <2>1
  <1> QED BY <1>4, <1>6, <1>7, <1>8 DEF t, n

\* A call does what is asked of it: the first p calls are kept, those that are
\* new stand where they should, and the decoder does not leave what was opened
\* by the calls that are kept.
LEMMA Kept ==
  ASSUME Types, Reading(stack, d),
         NEW t \in Seq(CallType), NEW e \in Decoder, NEW p \in Nat \ {0},
         Same(stack, t, p), Len(stack) - 1 <= p, p <= Len(t),
         Stands(e, t, Len(t)), Bounded(e.off), Top.back.off <= e.off,
         \A i \in d.off + 1 .. e.off : Level(i) >= Total(KindsOf(stack), p),
         \A k \in p + 1 .. Len(t) :
            /\ Stands(t[k].back, t, k - 1)
            /\ Top.back.off <= t[k].back.off
            /\ t[k].kind = "handed" => Bounded(t[k].back.off)
            /\ t[k].kind # "handed" => /\ t[k].back.off <= e.off
                                       /\ \A l \in k .. Len(t) :
                                            t[k].back.off <= t[l].back.off
            /\ t[k].kind = "look" => /\ k = Len(t)
                                     /\ doc[t[k].back.off + 1] \in Opening
                                     /\ e.off = t[k].back.off + 1
            /\ t[k].kind = "wrapped" => \E z \in 0 .. Len(doc) :
                                          /\ Level(z) < Total(KindsOf(t), k)
                                          /\ e.off < z
                                          /\ Bounded(z)
            /\ Top.kind \in Skipping => t[k].kind \in Skipping
            /\ Top.kind = "look" /\ p = Len(stack) => t[k].kind \in Skipping,
         Top.kind = "look" /\ p = Len(stack) => ~ t[p].first
  PROVE  Reading(t, e)
  <1> DEFINE n == Len(stack)
  <1>1. n \in Nat \ {0} /\ Len(t) \in Nat \ {0} /\ p <= n /\ Top = stack[n]
    BY LenProperties DEF Reading, BackOK, Types, Same, Last, Top
  <1>2. /\ \A k \in 1 .. n : stack[k] \in CallType
        /\ \A k \in 1 .. Len(t) : t[k] \in CallType
    BY ElementOfSeq DEF Types
  <1>3. /\ \A k \in 1 .. n : stack[k].back.off \in Nat
        /\ \A k \in 1 .. Len(t) : t[k].back.off \in Nat
        /\ e.off \in Nat /\ d.off \in Nat
    BY <1>2 DEF CallType, Decoder, Types
  <1>4. stack[1].kind = "handed"
    BY DEF Reading, BackOK
  <1>5. \A k \in 1 .. p : /\ k \in 1 .. n /\ k \in 1 .. Len(t)
                          /\ t[k].kind = stack[k].kind
                          /\ t[k].back = stack[k].back
                          /\ t[k].first => stack[k].first
    BY <1>1 DEF Same
  <1>6. BackOK(t)
    <2>1. ASSUME NEW k \in 2 .. Len(t), k <= p
          PROVE  Stands(t[k].back, t, k - 1)
      <3>1. k - 1 \in Nat \ {0} /\ k \in 2 .. n /\ k \in 1 .. p
        BY <1>1, <2>1
      <3>2. Same(stack, t, k - 1)
        BY <3>1, <1>1 DEF Same
      <3>3. Stands(stack[k].back, stack, k - 1)
        BY <3>1 DEF Reading, BackOK
      <3>4. Stands(stack[k].back, t, k - 1)
        BY <3>1, <3>2, <3>3, <1>1, <1>4, SameCounts
      <3> QED BY <3>1, <3>4, <1>5
    <2>2. \A k \in 2 .. Len(t) : k <= p \/ k \in p + 1 .. Len(t)
      BY <1>1
    <2>3. t[1].kind = "handed"
      BY <1>4, <1>5
    <2> QED BY <1>1, <2>1, <2>2, <2>3 DEF BackOK
  <1>7. OrderOK(t, e)
    <2> SUFFICES ASSUME NEW k \in 1 .. Len(t), t[k].kind # "handed"
                 PROVE  /\ \A l \in k .. Len(t) : t[k].back.off <= t[l].back.off
                        /\ t[k].back.off <= e.off
      BY DEF OrderOK
    <2>1. CASE k > p
      BY <2>1, <1>1
    <2>2. CASE k <= p
      <3>1. k \in 1 .. p /\ k \in 1 .. n /\ n \in k .. n
        BY <2>2, <1>1
      <3>2. stack[k].kind # "handed" /\ t[k].back = stack[k].back
        BY <3>1, <1>5
      <3>3. \A l \in k .. n : stack[k].back.off <= stack[l].back.off
        BY <3>1, <3>2 DEF Reading, OrderOK
      <3>4. stack[k].back.off <= Top.back.off /\ Top.back.off \in Nat
        BY <3>1, <3>3, <1>1, <1>3
      <3>5. t[k].back.off = stack[k].back.off /\ stack[k].back.off \in Nat
        BY <3>1, <3>2, <1>3
      <3>6. ASSUME NEW l \in k .. Len(t)
            PROVE  t[k].back.off <= t[l].back.off
        <4>1. CASE l <= p
          <5>1. l \in 1 .. p /\ l \in k .. n
            BY <3>1, <4>1, <1>1
          <5>2. t[l].back = stack[l].back
            BY <5>1, <1>5
          <5> QED BY <3>3, <3>5, <5>1, <5>2
        <4>2. CASE l > p
          <5>1. l \in p + 1 .. Len(t) /\ l \in 1 .. Len(t)
            BY <4>2, <1>1
          <5>2. Top.back.off <= t[l].back.off /\ t[l].back.off \in Nat
            BY <5>1, <1>3
          <5> QED BY <3>4, <3>5, <5>2
        <4> QED BY <4>1, <4>2, <1>1
      <3>7. Top.back.off <= e.off /\ e.off \in Nat
        BY <1>3
      <3>8. t[k].back.off <= e.off
        BY <3>4, <3>5, <3>7
      <3> QED BY <3>6, <3>8
    <2> QED BY <2>1, <2>2, <1>1
  <1>8. HandedOK(t)
    <2> SUFFICES ASSUME NEW k \in 2 .. Len(t), t[k].kind = "handed"
                 PROVE  Bounded(t[k].back.off)
      BY DEF HandedOK
    <2>1. CASE k <= p
      <3>1. k \in 1 .. p /\ k \in 2 .. n
        BY <2>1, <1>1
      <3> QED BY <3>1, <1>5 DEF Reading, HandedOK
    <2>2. CASE k > p
      BY <2>2, <1>1
    <2> QED BY <2>1, <2>2, <1>1
  <1>9. LookOK(t, e)
    <2> SUFFICES ASSUME NEW k \in 1 .. Len(t), t[k].kind = "look"
                 PROVE  /\ \A l \in k + 1 .. Len(t) : t[l].kind \in Skipping
                        /\ doc[t[k].back.off + 1] \in Opening
                        /\ t[k].first => k = Len(t) /\ e.off = t[k].back.off + 1
      BY DEF LookOK
    <2>1. CASE k > p
      <3>1. k \in p + 1 .. Len(t)
        BY <2>1, <1>1
      <3> QED BY <3>1, <1>1
    <2>2. CASE k <= p
      <3>1. k \in 1 .. p /\ k \in 1 .. n /\ stack[k].kind = "look"
            /\ t[k].back = stack[k].back /\ (t[k].first => stack[k].first)
        BY <2>2, <1>1, <1>5
      <3>2. /\ \A l \in k + 1 .. n : stack[l].kind \in Skipping
            /\ doc[stack[k].back.off + 1] \in Opening
            /\ stack[k].first => k = n
        BY <3>1 DEF Reading, LookOK
      <3>3. ASSUME NEW l \in k + 1 .. Len(t)
            PROVE  t[l].kind \in Skipping
        <4>1. CASE l <= p
          BY <3>1, <3>2, <4>1, <1>1, <1>5
        <4>2. CASE l > p
          <5>1. l \in p + 1 .. Len(t)
            BY <4>2, <1>1
          <5>2. CASE k = n
            BY <5>1, <5>2, <3>1, <1>1
          <5>3. CASE k < n
            <6>1. Top.kind \in Skipping
              BY <5>3, <3>2, <1>1
            <6> QED BY <5>1, <6>1
          <5> QED BY <5>2, <5>3, <3>1, <1>1
        <4> QED BY <4>1, <4>2, <1>1
      <3>4. ~ t[k].first
        <4>1. ASSUME t[k].first
              PROVE  FALSE
          <5>1. k = n /\ p = n
            BY <4>1, <3>1, <3>2, <1>1
          <5> QED BY <5>1, <4>1, <3>1, <1>1
        <4> QED BY <4>1
      <3> QED BY <3>1, <3>2, <3>3, <3>4
    <2> QED BY <2>1, <2>2, <1>1
  <1>10. WrappedOK(t, e)
    <2> SUFFICES ASSUME NEW k \in 2 .. Len(t), t[k].kind = "wrapped"
                 PROVE  \E z \in 0 .. Len(doc) : /\ Level(z) < Total(KindsOf(t), k)
                                                /\ e.off < z
                                                /\ Bounded(z)
      BY DEF WrappedOK
    <2>1. CASE k <= p
      <3>1. k \in 1 .. p /\ k \in 2 .. n /\ stack[k].kind = "wrapped"
        BY <2>1, <1>1, <1>5
      <3>2. PICK z \in 0 .. Len(doc) : /\ Level(z) < Total(KindsOf(stack), k)
                                      /\ d.off < z
                                      /\ Bounded(z)
        BY <3>1 DEF Reading, WrappedOK
      <3>3. Total(KindsOf(stack), k) = Total(KindsOf(t), k)
        <4>1. k \in Nat \ {0} /\ Same(stack, t, k)
          BY <3>1, <1>1 DEF Same
        <4> QED BY <4>1, <1>1, <1>4, SameCounts
      <3>4. /\ Total(KindsOf(stack), k) \in Nat /\ Total(KindsOf(stack), p) \in Nat
            /\ Total(KindsOf(stack), k) <= Total(KindsOf(stack), p)
        BY <3>1, <1>1, TotalMore
      <3>5. z \in Nat /\ Level(z) \in Int
        BY LevelStep, LenProperties DEF Types
      <3>6. z \notin d.off + 1 .. e.off
        BY <3>2, <3>4, <3>5
      <3>7. e.off < z
        BY <3>2, <3>5, <3>6, <1>3
      <3> QED BY <3>2, <3>3, <3>7
    <2>2. CASE k > p
      BY <2>2, <1>1
    <2> QED BY <2>1, <2>2, <1>1
  <1> QED BY <1>6, <1>7, <1>8, <1>9, <1>10 DEF Reading

\* The top call, and where the decoder stands in it.
LEMMA AtTop ==
  ASSUME Types, Reading(stack, d)
  PROVE  /\ Len(stack) \in Nat \ {0}
         /\ Top = stack[Len(stack)] /\ Top \in CallType /\ Top.back \in Decoder
         /\ stack \in Seq(CallType) /\ Len(stack) > 0
         /\ stack[1].kind = "handed"
         /\ Len(stack) > 1 => /\ Len(stack) - 1 \in Nat \ {0}
                             /\ Len(stack) - 1 + 1 = Len(stack)
                             /\ Stands(Top.back, stack, Len(stack) - 1)
         /\ Top.kind # "handed" => Len(stack) > 1 /\ Top.back.off <= d.off
         /\ Top.kind # "handed" => Top.back.limit = d.limit
         /\ Top.kind \notin Opened \cup {"handed"} => Stands(d, stack, Len(stack) - 1)
  <1>1. Len(stack) \in Nat \ {0} /\ Top = stack[Len(stack)] /\ stack[1].kind = "handed"
    BY LenProperties DEF Reading, BackOK, Types, Last, Top
  <1>2. Top \in CallType
    BY <1>1, ElementOfSeq DEF Types
  <1>3. Top.back \in Decoder
    BY <1>2 DEF CallType
  <1>4. ASSUME Len(stack) > 1
        PROVE  /\ Len(stack) - 1 \in Nat \ {0}
               /\ Len(stack) - 1 + 1 = Len(stack)
               /\ Stands(Top.back, stack, Len(stack) - 1)
    <2>1. Len(stack) \in 2 .. Len(stack)
      BY <1>1, <1>4
    <2> QED BY <1>1, <1>4, <2>1 DEF Reading, BackOK
  <1>5. ASSUME Top.kind # "handed"
        PROVE  Len(stack) > 1 /\ Top.back.off <= d.off
    <2>1. Len(stack) # 1
      BY <1>1, <1>5
    <2>2. Len(stack) \in 1 .. Len(stack)
      BY <1>1
    <2> QED BY <1>1, <1>5, <2>1, <2>2 DEF Reading, OrderOK
  <1>6. ASSUME Top.kind # "handed"
        PROVE  Top.back.limit = d.limit
    <2> DEFINE n == Len(stack) - 1
    <2>1. n \in Nat \ {0} /\ Stands(Top.back, stack, n) /\ n + 1 = Len(stack)
      BY <1>4, <1>5, <1>6
    <2>2. Stands(d, stack, n + 1)
      BY <2>1 DEF Reading
    <2> HIDE DEF n
    <2>3. stack[n + 1].kind # "handed" /\ Len(stack) \in Nat /\ n + 1 <= Len(stack)
      BY <1>1, <1>6, <2>1
    <2>4. Limit(stack, n + 1) = Limit(stack, n)
      BY <1>1, <2>1, <2>3, StandsDeeper
    <2> QED BY <2>1, <2>2, <2>4 DEF Stands
  <1>7. ASSUME Top.kind \notin Opened \cup {"handed"}
        PROVE  Stands(d, stack, Len(stack) - 1)
    <2> DEFINE n == Len(stack) - 1
    <2>1. n \in Nat \ {0} /\ n + 1 = Len(stack)
      BY <1>4, <1>5, <1>7
    <2>2. Stands(d, stack, n + 1)
      BY <2>1 DEF Reading
    <2> HIDE DEF n
    <2>3. stack[n + 1].kind \notin Opened \cup {"handed"} /\ Len(stack) \in Nat
          /\ n + 1 <= Len(stack)
      BY <1>1, <1>7, <2>1
    <2>4. Stands(d, stack, n)
      BY <1>1, <2>1, <2>2, <2>3, StandsFlat
    <2> QED BY <2>4 DEF n
  <1>8. stack \in Seq(CallType) /\ Len(stack) > 0
    BY <1>1 DEF Types
  <1> QED BY <1>1, <1>2, <1>3, <1>4, <1>5, <1>6, <1>7, <1>8

\* Tokens that open and close nothing are passed over.
LEMMA Walked ==
  ASSUME Types, Reading(stack, d), NEW j \in Nat, d.off <= j, j <= d.limit,
         \A k \in d.off .. j - 1 : doc[k + 1] \notin Opening \cup Closing
  PROVE  /\ [d EXCEPT !.off = j] \in Decoder
         /\ Stands([d EXCEPT !.off = j], stack, Len(stack))
         /\ Bounded(j)
         /\ \A i \in d.off .. j : Level(i) = Level(d.off)
  <1>1. d \in Decoder /\ d.off \in Nat
    BY DEF Types, Decoder
  <1>2. \A i \in d.off .. j : Level(i) = Level(d.off)
    BY <1>1, LevelFlat
  <1>3. Level(j) = Level(d.off)
    BY <1>1, <1>2
  <1> DEFINE e == [d EXCEPT !.off = j]
  <1>4. e \in Decoder /\ e.off = j /\ e.depth = d.depth /\ e.limit = d.limit
    BY <1>1 DEF Decoder
  <1>5. Stands(d, stack, Len(stack)) /\ Bounded(d.off)
    BY DEF Reading
  <1> HIDE DEF e
  <1>6. Stands(e, stack, Len(stack))
    BY <1>3, <1>4, <1>5 DEF Stands
  <1>7. Bounded(j)
    <2> SUFFICES ASSUME NEW i \in 0 .. j
                 PROVE  Level(i) <= MaxDepth + 1
      BY DEF Bounded
    <2>1. CASE i \in 0 .. d.off
      BY <1>5, <2>1 DEF Bounded
    <2>2. CASE i \in d.off .. j
      <3>1. Level(i) = Level(d.off) /\ d.off \in 0 .. d.off
        BY <1>1, <1>2, <2>2
      <3> QED BY <1>5, <3>1 DEF Bounded
    <2> QED BY <1>1, <2>1, <2>2
  <1> QED BY <1>2, <1>4, <1>6, <1>7 DEF e

\* The top call returns.
LEMMA Pops ==
  ASSUME Types, Reading(stack, d), Len(stack) > 1,
         NEW e \in Decoder, Stands(e, stack, Len(stack) - 1), Bounded(e.off),
         Top.back.off <= e.off,
         \A i \in d.off + 1 .. e.off : Level(i) >= Level(e.off)
  PROVE  /\ Front(stack) \o << >> \in Seq(CallType)
         /\ Front(stack) \o << >> = Front(stack)
         /\ Reading(Front(stack) \o << >>, e)
  <1> DEFINE p == Len(stack) - 1
             t == Front(stack) \o << >>
  <1>1. /\ p \in Nat \ {0} /\ p + 1 = Len(stack) /\ stack[1].kind = "handed"
        /\ Len(stack) \in Nat
    BY AtTop
  <1>2. << >> \in Seq(CallType) /\ Len(<< >>) = 0
    BY EmptySeq
  <1>3. stack \in Seq(CallType) /\ Len(stack) > 0
    BY AtTop
  <1>4. t \in Seq(CallType) /\ Len(t) = p /\ \A k \in 1 .. p : t[k] = stack[k]
    <2>1. Len(t) = p + Len(<< >>)
      BY <1>2, <1>3, Replaced
    <2>2. t \in Seq(CallType) /\ \A k \in 1 .. p : t[k] = stack[k]
      BY <1>2, <1>3, Replaced
    <2> HIDE DEF p, t
    <2>3. Len(t) = p
      BY <1>1, <1>2, <2>1
    <2> QED BY <2>2, <2>3
  <1>5. Front(stack) \in Seq(CallType)
    BY <1>1, <1>3, ElementOfSeq, SubSeqProperties DEF Front
  <1>6. t = Front(stack)
    BY <1>5, ConcatEmptySeq
  <1>7. Stands(e, stack, p)
    OBVIOUS
  <1> HIDE DEF t, p
  <1>8. Same(stack, t, p)
    BY <1>1, <1>4 DEF Same
  <1>9. Stands(e, t, Len(t))
    BY <1>1, <1>4, <1>7, <1>8, SameCounts
  <1>10. Level(e.off) = Total(KindsOf(stack), p)
    BY <1>7 DEF Stands
  <1>11. Reading(t, e)
    <2>1. \A k \in p + 1 .. Len(t) : FALSE
      BY <1>1, <1>4
    <2>2. p # Len(stack) /\ Len(stack) - 1 <= p /\ p <= Len(t)
      BY <1>1, <1>4
    <2> QED BY <1>1, <1>4, <1>8, <1>9, <1>10, <2>1, <2>2, Kept
  <1> QED BY <1>4, <1>6, <1>11 DEF t

\* The top call becomes another one.
LEMMA Swaps ==
  ASSUME Types, Reading(stack, d), Top.kind # "handed",
         NEW c \in CallType, NEW e \in Decoder, c.kind # "handed",
         Stands(c.back, stack, Len(stack) - 1),
         e.depth = c.back.depth + (IF c.kind \in Counted THEN 1 ELSE 0),
         Level(e.off) = Level(c.back.off) + (IF c.kind \in Opened THEN 1 ELSE 0),
         e.limit = c.back.limit, e.depth <= MaxDepth, e.off <= e.limit, Bounded(e.off),
         Top.back.off <= c.back.off, c.back.off <= e.off,
         \A i \in d.off + 1 .. e.off : Level(i) >= Level(c.back.off),
         c.kind = "look" => /\ doc[c.back.off + 1] \in Opening
                            /\ e.off = c.back.off + 1,
         c.kind = "wrapped" => \E z \in 0 .. Len(doc) : /\ Level(z) < Level(e.off)
                                                       /\ e.off < z
                                                       /\ Bounded(z),
         Top.kind \in Skipping => c.kind \in Skipping
  PROVE  /\ Front(stack) \o <<c>> \in Seq(CallType)
         /\ Reading(Front(stack) \o <<c>>, e)
  <1> DEFINE p == Len(stack) - 1
             t == Front(stack) \o <<c>>
  <1>1. /\ p \in Nat \ {0} /\ p + 1 = Len(stack) /\ stack[1].kind = "handed"
        /\ Len(stack) \in Nat
    BY AtTop
  <1>2. <<c>> \in Seq(CallType) /\ Len(<<c>>) = 1 /\ <<c>>[1] = c
    OBVIOUS
  <1>3. stack \in Seq(CallType) /\ Len(stack) > 0
    BY AtTop
  <1>4. /\ t \in Seq(CallType) /\ Len(t) = p + 1 /\ t[p + 1] = c
        /\ \A k \in 1 .. p : t[k] = stack[k]
    <2>1. Len(t) = p + Len(<<c>>)
      BY <1>2, <1>3, Replaced
    <2>2. t \in Seq(CallType) /\ \A k \in 1 .. p : t[k] = stack[k]
      BY <1>2, <1>3, Replaced
    <2>3. 1 \in 1 .. Len(<<c>>)
      BY <1>2
    <2>4. t[p + 1] = <<c>>[1]
      BY <1>2, <1>3, <2>3, Replaced
    <2> HIDE DEF p, t
    <2> QED BY <1>1, <1>2, <2>1, <2>2, <2>4
  <1>5. Stands(c.back, stack, p)
    OBVIOUS
  <1> HIDE DEF t, p
  <1>6. Same(stack, t, p)
    BY <1>1, <1>4 DEF Same
  <1>7. Stands(c.back, t, p) /\ Total(KindsOf(t), p) = Total(KindsOf(stack), p)
    BY <1>1, <1>4, <1>5, <1>6, SameCounts
  <1>8. t[1].kind = "handed"
    BY <1>1, <1>4
  <1>9. Stands(e, t, p + 1)
    <2>1. /\ Nest(KindsOf(t), p + 1)
               = Nest(KindsOf(t), p) + (IF c.kind \in Counted THEN 1 ELSE 0)
          /\ Total(KindsOf(t), p + 1)
               = Total(KindsOf(t), p) + (IF c.kind \in Opened THEN 1 ELSE 0)
          /\ Limit(t, p + 1) = Limit(t, p)
      <3>1. Len(t) \in Nat /\ p + 1 <= Len(t) /\ t[p + 1].kind # "handed"
        BY <1>1, <1>4
      <3> QED BY <1>1, <1>4, <1>8, <3>1, StandsDeeper
    <2> QED BY <1>7, <2>1 DEF Stands
  <1>10. Level(c.back.off) = Total(KindsOf(stack), p)
         /\ Level(e.off) = Total(KindsOf(t), p + 1)
    BY <1>5, <1>9 DEF Stands
  <1>11. Top.back.off <= e.off
    <2>1. Top.back.off \in Nat /\ c.back.off \in Nat /\ e.off \in Nat
      BY AtTop DEF CallType, Decoder
    <2> QED BY <2>1
  <1>12. ASSUME NEW k \in p + 1 .. Len(t)
         PROVE  /\ k = p + 1 /\ t[k] = c /\ k = Len(t) /\ k - 1 = p
                /\ \A l \in k .. Len(t) : t[k].back.off <= t[l].back.off
    <2>1. c.back.off \in Nat
      BY DEF CallType, Decoder
    <2>2. k = p + 1 /\ k = Len(t) /\ k - 1 = p /\ \A l \in k .. Len(t) : l = k
      BY <1>1, <1>4
    <2> QED BY <1>4, <2>1, <2>2
  <1>13. p # Len(stack) /\ Len(stack) - 1 <= p /\ p <= Len(t)
    BY <1>1, <1>4
  <1>14. \A i \in d.off + 1 .. e.off : Level(i) >= Total(KindsOf(stack), p)
    BY <1>10
  <1>15. Stands(e, t, Len(t))
    BY <1>4, <1>9
  <1>16. \A k \in p + 1 .. Len(t) : t[k].kind = "wrapped" =>
           \E z \in 0 .. Len(doc) : /\ Level(z) < Total(KindsOf(t), k)
                                   /\ e.off < z
                                   /\ Bounded(z)
    BY <1>10, <1>12
  <1>17. Reading(t, e)
    BY <1>1, <1>4, <1>6, <1>7, <1>11, <1>12, <1>13, <1>14, <1>15, <1>16, Kept
  <1> QED BY <1>4, <1>17 DEF t

\* The top call goes on with its loop.
LEMMA Stays ==
  ASSUME Types, Reading(stack, d), Top.kind # "handed",
         NEW u \in CallType, u.kind = Top.kind, u.back = Top.back, u.first => Top.first,
         Top.kind = "look" => ~ u.first,
         NEW j \in Nat, d.off <= j, j <= d.limit,
         \A k \in d.off .. j - 1 : doc[k + 1] \notin Opening \cup Closing
  PROVE  /\ Front(stack) \o <<u>> \in Seq(CallType)
         /\ [d EXCEPT !.off = j] \in Decoder
         /\ Reading(Front(stack) \o <<u>>, [d EXCEPT !.off = j])
  <1> DEFINE p == Len(stack)
             t == Front(stack) \o <<u>>
             e == [d EXCEPT !.off = j]
  <1>1. /\ p \in Nat \ {0} /\ stack[1].kind = "handed" /\ stack[p] = Top /\ d.off \in Nat
        /\ p - 1 \in Nat /\ p - 1 + 1 = p
    BY AtTop DEF Types, Decoder
  <1>2. <<u>> \in Seq(CallType) /\ Len(<<u>>) = 1 /\ <<u>>[1] = u
    OBVIOUS
  <1>3. stack \in Seq(CallType) /\ Len(stack) > 0
    BY AtTop
  <1>4. /\ t \in Seq(CallType) /\ Len(t) = p /\ t[p] = u
        /\ \A k \in 1 .. p - 1 : t[k] = stack[k]
    <2>1. Len(t) = p - 1 + Len(<<u>>)
      BY <1>2, <1>3, Replaced
    <2>2. t \in Seq(CallType) /\ \A k \in 1 .. p - 1 : t[k] = stack[k]
      BY <1>2, <1>3, Replaced
    <2>3. 1 \in 1 .. Len(<<u>>)
      BY <1>2
    <2>4. t[p - 1 + 1] = <<u>>[1]
      BY <1>2, <1>3, <2>3, Replaced
    <2> HIDE DEF p, t
    <2> QED BY <1>1, <1>2, <2>1, <2>2, <2>4
  <1>5. /\ e \in Decoder /\ e.off = j
        /\ Stands(e, stack, p)
        /\ Bounded(j)
        /\ \A i \in d.off .. j : Level(i) = Level(d.off)
    BY Walked DEF Types, Decoder
  <1>6. Level(d.off) = Total(KindsOf(stack), p)
    BY DEF Reading, Stands
  <1>7. Level(d.off) \in Int
    BY <1>1, LevelStep
  <1>8. Top.back.off <= j
    BY <1>1, AtTop DEF Decoder
  <1>9. p = Len(stack)
    OBVIOUS
  <1> HIDE DEF t, p, e
  <1>10. Same(stack, t, p)
    <2> SUFFICES ASSUME NEW k \in 1 .. p
                 PROVE  /\ t[k].kind = stack[k].kind
                        /\ t[k].back = stack[k].back
                        /\ t[k].first => stack[k].first
      BY <1>1, <1>4, <1>9 DEF Same
    <2>1. CASE k = p
      <3>1. t[k] = u /\ stack[k] = Top
        BY <1>1, <1>4, <2>1
      <3> QED BY <3>1, Zenon
    <2>2. CASE k # p
      BY <1>1, <1>4, <2>2
    <2> QED BY <2>1, <2>2
  <1>11. Stands(e, t, Len(t))
    <2>1. Stands(e, t, p)
      BY <1>1, <1>4, <1>5, <1>9, <1>10, SameCounts
    <2> QED BY <1>4, <2>1
  <1>12. \A k \in p + 1 .. Len(t) : FALSE
    BY <1>1, <1>4
  <1>13. \A i \in d.off + 1 .. e.off : Level(i) >= Total(KindsOf(stack), p)
    BY <1>1, <1>5, <1>6, <1>7
  <1>14. p <= Len(t) /\ Len(stack) - 1 <= p
    BY <1>1, <1>4, <1>9
  <1>15. Reading(t, e)
    BY <1>1, <1>4, <1>5, <1>8, <1>10, <1>11, <1>12, <1>13, <1>14, Kept
  <1> QED BY <1>4, <1>5, <1>15 DEF t, e

\* The top call goes on with its loop when the value ahead is read.
LEMMA Pushes ==
  ASSUME Types, Reading(stack, d), Top.kind # "handed",
         NEW u \in CallType, u.kind = Top.kind, u.back = Top.back, ~ u.first,
         NEW j \in Nat, d.off <= j, j <= d.limit,
         \A k \in d.off .. j - 1 : doc[k + 1] \notin Opening \cup Closing,
         NEW c \in CallType, c.kind \notin Opened \cup {"handed"},
         c.back = [d EXCEPT !.off = j],
         Top.kind \in Skipping \cup {"look"} => c.kind \in Skipping
  PROVE  /\ Front(stack) \o <<u, c>> \in Seq(CallType)
         /\ [d EXCEPT !.off = j] \in Decoder
         /\ Reading(Front(stack) \o <<u, c>>, [d EXCEPT !.off = j])
  <1> DEFINE p == Len(stack)
             t == Front(stack) \o <<u, c>>
             e == [d EXCEPT !.off = j]
  <1>1. /\ p \in Nat \ {0} /\ stack[1].kind = "handed" /\ stack[p] = Top /\ d.off \in Nat
        /\ p - 1 \in Nat /\ p - 1 + 1 = p /\ p - 1 + 2 = p + 1
    BY AtTop DEF Types, Decoder
  <1>2. /\ <<u, c>> \in Seq(CallType) /\ Len(<<u, c>>) = 2
        /\ <<u, c>>[1] = u /\ <<u, c>>[2] = c
    OBVIOUS
  <1>3. stack \in Seq(CallType) /\ Len(stack) > 0
    BY AtTop
  <1>4. /\ t \in Seq(CallType) /\ Len(t) = p + 1 /\ t[p] = u /\ t[p + 1] = c
        /\ \A k \in 1 .. p - 1 : t[k] = stack[k]
    <2>1. Len(t) = p - 1 + Len(<<u, c>>)
      BY <1>2, <1>3, Replaced
    <2>2. t \in Seq(CallType) /\ \A k \in 1 .. p - 1 : t[k] = stack[k]
      BY <1>2, <1>3, Replaced
    <2>3. 1 \in 1 .. Len(<<u, c>>) /\ 2 \in 1 .. Len(<<u, c>>)
      BY <1>2
    <2>4. t[p - 1 + 1] = <<u, c>>[1] /\ t[p - 1 + 2] = <<u, c>>[2]
      BY <1>2, <1>3, <2>3, Replaced
    <2> HIDE DEF p, t
    <2> QED BY <1>1, <1>2, <2>1, <2>2, <2>4
  <1>5. /\ e \in Decoder /\ e.off = j
        /\ Stands(e, stack, p)
        /\ Bounded(j)
        /\ \A i \in d.off .. j : Level(i) = Level(d.off)
    BY Walked DEF Types, Decoder
  <1>6. Level(d.off) = Total(KindsOf(stack), p)
    BY DEF Reading, Stands
  <1>7. Level(d.off) \in Int
    BY <1>1, LevelStep
  <1>8. Top.back.off <= j
    BY <1>1, AtTop DEF Decoder
  <1>9. p = Len(stack) /\ c.back = e
    OBVIOUS
  <1> HIDE DEF t, p, e
  <1>10. Same(stack, t, p)
    <2>1. \A k \in 1 .. p : k \in 1 .. p - 1 \/ k = p
      BY <1>1
    <2> QED BY <1>1, <1>4, <1>9, <2>1 DEF Same
  <1>11. Stands(e, t, p)
    BY <1>1, <1>4, <1>5, <1>9, <1>10, SameCounts
  <1>12. Stands(e, t, Len(t))
    <2>1. t[1].kind = "handed"
      <3>1. 1 \in 1 .. p
        BY <1>1
      <3> QED BY <1>1, <1>10, <3>1 DEF Same
    <2>2. Stands(e, t, p + 1)
      <3>1. Len(t) \in Nat /\ p + 1 <= Len(t) /\ t[p + 1].kind \notin Opened \cup {"handed"}
        BY <1>1, <1>4
      <3> QED BY <1>1, <1>11, <2>1, <3>1, StandsFlat
    <2> QED BY <1>4, <2>2
  <1>13. ASSUME NEW k \in p + 1 .. Len(t)
         PROVE  /\ k = p + 1 /\ t[k] = c /\ k - 1 = p
                /\ \A l \in k .. Len(t) : t[k].back.off <= t[l].back.off
    <2>1. e.off \in Nat
      BY <1>5
    <2>2. k = p + 1 /\ k = Len(t) /\ k - 1 = p /\ \A l \in k .. Len(t) : l = k
      BY <1>1, <1>4
    <2> QED BY <1>4, <1>9, <2>1, <2>2
  <1>14. \A i \in d.off + 1 .. e.off : Level(i) >= Total(KindsOf(stack), p)
    BY <1>1, <1>5, <1>6, <1>7
  <1>15. p <= Len(t) /\ Len(stack) - 1 <= p
    BY <1>1, <1>4, <1>9
  <1>16. c.kind # "look" /\ c.kind # "wrapped"
    BY DEF Opened, Uncounted
  <1>17. ASSUME NEW k \in p + 1 .. Len(t)
         PROVE  /\ Stands(t[k].back, t, k - 1)
                /\ Top.back.off <= t[k].back.off
                /\ t[k].kind \notin {"handed", "look", "wrapped"}
                /\ t[k].back.off <= e.off
                /\ \A l \in k .. Len(t) : t[k].back.off <= t[l].back.off
                /\ Top.kind \in Skipping => t[k].kind \in Skipping
                /\ Top.kind = "look" => t[k].kind \in Skipping
    BY <1>5, <1>8, <1>9, <1>11, <1>13, <1>16
  <1>18. ~ t[p].first
    BY <1>4
  <1>19. Reading(t, e)
    BY <1>1, <1>4, <1>5, <1>8, <1>10, <1>12, <1>14, <1>15, <1>17, <1>18, Kept
  <1> QED BY <1>4, <1>5, <1>19 DEF t, e

\* There is room for one more object or array: its counter allows it when the
\* value was not handed over and is not that of an Any, and else it was seen
\* before.
LEMMA Roomy ==
  ASSUME Types, Reading(stack, d), d.off < d.limit, doc[d.off + 1] \in Opening,
         Top.kind \notin Opened \cup {"handed"},
         Top.kind \in Skipping => d.depth + 1 <= MaxDepth
  PROVE  Bounded(d.off + 1) /\ Level(d.off + 1) = Level(d.off) + 1
  <1> DEFINE n == Len(stack)
             f == KindsOf(stack)
  <1>1. n \in Nat \ {0} /\ Top = stack[n] /\ stack[1].kind = "handed"
    BY AtTop
  <1>2. d.off \in Nat /\ d.limit \in Nat /\ d.depth \in Nat /\ Len(doc) \in Nat
    BY LenProperties DEF Types, Decoder
  <1>3. MaxDepth \in Nat
    BY InputAssumption
  <1>4. /\ d.depth = Nest(f, n) /\ d.depth <= MaxDepth /\ Level(d.off) = Total(f, n)
        /\ d.limit = Limit(stack, n)
    BY DEF Reading, Stands
  <1>5. f[1] = "handed" /\ f[n] = Top.kind /\ \A k \in 1 .. n : f[k] = stack[k].kind
    BY <1>1 DEF KindsOf
  <1>6. Level(d.off + 1) = Level(d.off) + 1 /\ Level(d.off) \in Int
    BY <1>2, LevelStep
  <1>7. ASSUME NEW z \in Nat, d.off < z, Bounded(z)
        PROVE  Bounded(d.off + 1)
    BY <1>2, <1>7 DEF Bounded
  <1>8. CASE \E k \in 2 .. n : f[k] = "wrapped"
    <2>1. PICK k \in 2 .. n : stack[k].kind = "wrapped"
      BY <1>5, <1>8
    <2>2. PICK z \in 0 .. Len(doc) : d.off < z /\ Bounded(z)
      BY <2>1 DEF Reading, WrappedOK
    <2>3. z \in Nat
      BY <1>2
    <2> QED BY <1>6, <1>7, <2>2, <2>3
  <1>9. CASE Base(f, n) # 1
    <2>1. Base(f, n) \in 1 .. n /\ f[Base(f, n)] = "handed"
      <3> HIDE DEF f, n
      <3> QED BY <1>1, <1>5, BaseFacts
    <2>2. PICK h \in 2 .. n : h = Base(f, n) /\ stack[h].kind = "handed"
      BY <1>1, <1>5, <1>9, <2>1
    <2>3. d.limit = stack[h].back.off
      BY <1>4, <2>2 DEF Limit
    <2>4. Bounded(d.limit)
      BY <2>2, <2>3 DEF Reading, HandedOK
    <2> QED BY <1>2, <1>6, <1>7, <2>4
  <1>10. CASE Base(f, n) = 1 /\ ~ \E k \in 2 .. n : f[k] = "wrapped"
    <2>1. Total(f, n) = Count(f, Counted, 1, n) + Count(f, Uncounted, 1, n)
      <3> HIDE DEF f, n
      <3> QED BY <1>1, CountOpened
    <2>2. Count(f, Counted, 1, n) = d.depth
      BY <1>4, <1>10 DEF Nest
    <2>3. Total(f, n) <= MaxDepth
      <3>1. CASE \E k \in 1 .. n : f[k] = "look"
        <4>1. PICK k \in 1 .. n : stack[k].kind = "look"
          BY <1>5, <3>1
        <4>2. \A l \in k + 1 .. n : stack[l].kind \in Skipping
          BY <4>1 DEF Reading, LookOK
        <4>3. Top.kind # "look" /\ k # n
          BY <1>1, <4>1 DEF Opened, Uncounted
        <4>4. Top.kind \in Skipping
          BY <1>1, <4>2, <4>3
        <4>5. ASSUME NEW l \in 1 .. n, stack[l].kind = "look"
              PROVE  l = k
          <5>1. \A i \in l + 1 .. n : stack[i].kind \in Skipping
            BY <4>5 DEF Reading, LookOK
          <5>2. "look" \notin Skipping
            BY DEF Skipping
          <5> QED BY <1>1, <4>1, <4>2, <4>5, <5>1, <5>2
        <4>6. {l \in 1 .. n : f[l] \in Uncounted} = {k}
          <5>1. ASSUME NEW l \in 1 .. n, f[l] \in Uncounted
                PROVE  l = k
            <6>1. f[l] = "look" \/ f[l] = "wrapped"
              BY <5>1 DEF Uncounted
            <6>2. f[l] # "wrapped"
              BY <1>1, <1>5, <1>10
            <6> QED BY <1>5, <4>5, <6>1, <6>2
          <5>2. f[k] \in Uncounted
            BY <1>5, <4>1 DEF Uncounted
          <5> HIDE DEF f, n
          <5> QED BY <5>1, <5>2
        <4>7. Count(f, Uncounted, 1, n) = 1
          BY <4>6, FS_Singleton DEF Count
        <4> HIDE DEF f, n
        <4> QED BY <1>2, <1>3, <2>1, <2>2, <4>4, <4>7
      <3>2. CASE ~ \E k \in 1 .. n : f[k] = "look"
        <4>1. {l \in 1 .. n : f[l] \in Uncounted} = {}
          <5> SUFFICES ASSUME NEW l \in 1 .. n, f[l] \in Uncounted
                       PROVE  FALSE
            OBVIOUS
          <5>1. f[l] = "look" \/ f[l] = "wrapped"
            BY DEF Uncounted
          <5>2. f[l] # "wrapped"
            BY <1>1, <1>5, <1>10
          <5> QED BY <3>2, <5>1, <5>2
        <4>2. Count(f, Uncounted, 1, n) = 0
          BY <4>1, FS_EmptySet DEF Count
        <4> HIDE DEF f, n
        <4> QED BY <1>2, <1>3, <1>4, <2>1, <2>2, <4>2
      <3> QED BY <3>1, <3>2
    <2> HIDE DEF f, n
    <2>4. Level(d.off + 1) <= MaxDepth + 1
      BY <1>3, <1>4, <1>6, <2>3
    <2>5. Bounded(d.off)
      BY DEF Reading
    <2>6. \A i \in 0 .. d.off + 1 : i \in 0 .. d.off \/ i = d.off + 1
      BY <1>2
    <2> QED BY <1>6, <2>4, <2>5, <2>6 DEF Bounded
  <1> QED BY <1>6, <1>8, <1>9, <1>10
-----------------------------------------------------------------------------
(* What the actions have in common *)

LEMMA CallIs ==
  ASSUME NEW kind \in Kinds, NEW message \in Names, NEW decoder \in Decoder
  PROVE  /\ Calls(kind, message, decoder) \in CallType
         /\ Calls(kind, message, decoder).kind = kind
         /\ Calls(kind, message, decoder).back = decoder
         /\ Call(kind, decoder) \in CallType
         /\ Call(kind, decoder).kind = kind
         /\ Call(kind, decoder).back = decoder
  <1>1. "none" \in Names
    BY DEF Names
  <1> HIDE DEF Names
  <1> QED BY <1>1 DEF Calls, Call, CallType

\* The input stays what it is, so what holds of the new calls and the new
\* decoder holds after the step.
LEMMA Becomes ==
  ASSUME Types, status = "reading", UNCHANGED input,
         NEW calls, NEW e \in Decoder, Become(calls, e),
         Front(stack) \o calls \in Seq(CallType),
         Reading(Front(stack) \o calls, e)
  PROVE  IInv'
  <1>1. doc' = doc /\ far' = far
    BY DEF input
  <1>2. stack' = Front(stack) \o calls /\ d' = e /\ status' = status
    BY DEF Become
  <1>3. Names' = Names
    BY <1>1 DEF Names
  <1>4. CallType' = CallType
    BY <1>3 DEF CallType
  <1>5. Types'
    BY <1>1, <1>2, <1>3, <1>4 DEF Types
  <1>6. Reading(stack', d')
    <2> DEFINE t == Front(stack) \o calls
    <2>1. stack' = t /\ d' = e
      BY <1>2
    <2>2. Reading(t, e)
      BY Zenon
    <2> HIDE DEF t
    <2> QED BY <2>1, <2>2, Zenon
  <1>7. Reading(stack, d)'
    BY <1>1, <1>6 DEF Reading, BackOK, OrderOK, HandedOK, LookOK, WrappedOK, Stands,
                      Bounded, Level, Limit
  <1> QED BY <1>5, <1>7 DEF IInv

LEMMA Fails ==
  ASSUME Types, Fail, UNCHANGED input
  PROVE  IInv'
  <1>1. doc' = doc /\ far' = far
    BY DEF input
  <1>2. stack' = stack /\ d' = d /\ status' = "failed"
    BY DEF Fail
  <1>3. Names' = Names
    BY <1>1 DEF Names
  <1>4. CallType' = CallType
    BY <1>3 DEF CallType
  <1>5. Types'
    BY <1>1, <1>2, <1>3, <1>4 DEF Types
  <1> QED BY <1>2, <1>5 DEF IInv

\* Tokens that open and close nothing.
LEMMA PlainTokens ==
  /\ \A token : IsString(token) => token # "end" /\ token \notin Opening \cup Closing
  /\ \A token \in {",", ":", "null"} : token # "end" /\ token \notin Opening \cup Closing
  /\ \A token \in Opening \cup Closing : token # "end"
  /\ \A token \in Opening : token \notin Closing
  BY Zenon DEF IsString, Punctuation, Opening, Closing

LEMMA MovedIs ==
  ASSUME d \in Decoder, NEW n \in Int
  PROVE  [d EXCEPT !.off = n] = [off |-> n, depth |-> d.depth, limit |-> d.limit]
  <1>1. d = [off |-> d.off, depth |-> d.depth, limit |-> d.limit]
    BY DEF Decoder
  <1> QED BY <1>1

LEMMA AheadIs ==
  ASSUME d \in Decoder, NEW n \in Int, NEW change \in Int
  PROVE  Ahead(n, change)
           = [off |-> d.off + n, depth |-> d.depth + change, limit |-> d.limit]
  <1> DEFINE e == [d EXCEPT !.off = @ + n]
  <1>1. e = [off |-> d.off + n, depth |-> d.depth, limit |-> d.limit]
    BY DEF Decoder
  <1>2. Ahead(n, change) = [e EXCEPT !.depth = @ + change]
    BY DEF Ahead
  <1> HIDE DEF e
  <1>3. [e EXCEPT !.depth = @ + change]
          = [off |-> e.off, depth |-> e.depth + change, limit |-> e.limit]
    BY <1>1
  <1> QED BY <1>1, <1>2, <1>3

LEMMA TokenIs ==
  ASSUME NEW i \in Nat, Token(i) # "end"
  PROVE  i < d.limit /\ Token(i) = doc[i + 1]
  BY DEF Token

\* The key and the colon lie ahead.
LEMMA KeyIs ==
  ASSUME Types, HasKey
  PROVE  /\ KeyAt \in Nat /\ d.off <= KeyAt /\ KeyAt + 2 <= d.limit
         /\ \A k \in d.off .. KeyAt + 1 : doc[k + 1] \notin Opening \cup Closing
  <1>1. d.off \in Nat /\ d.limit \in Nat
    BY DEF Types, Decoder
  <1>2. KeyAt # -1 /\ IsString(Token(KeyAt)) /\ Token(KeyAt + 1) = ":"
    BY DEF HasKey
  <1>3. KeyAt = d.off \/ (Here = "," /\ KeyAt = d.off + 1)
    BY <1>2, Zenon DEF KeyAt
  <1>3a. KeyAt = d.off \/ KeyAt = d.off + 1
    BY <1>3, Zenon
  <1>4. KeyAt \in Nat /\ d.off <= KeyAt
    BY <1>1, <1>3a
  <1>5. Token(KeyAt) # "end" /\ Token(KeyAt) \notin Opening \cup Closing
    BY <1>2, PlainTokens
  <1>6. Token(KeyAt + 1) # "end" /\ Token(KeyAt + 1) \notin Opening \cup Closing
    BY <1>2, PlainTokens
  <1>7. KeyAt = d.off + 1 => /\ Token(d.off) # "end"
                            /\ Token(d.off) \notin Opening \cup Closing
    <2>1. KeyAt = d.off + 1 => KeyAt # d.off
      BY <1>1
    <2>2. KeyAt = d.off + 1 => Token(d.off) = ","
      BY <1>3, <2>1, Zenon DEF Here
    <2> QED BY <2>2, PlainTokens
  <1> DEFINE key == KeyAt
  <1>8. \A k \in d.off .. key + 1 : k = key \/ k = key + 1 \/ (key = d.off + 1 /\ k = d.off)
    BY <1>1, <1>3a, <1>4
  <1>9. \A k \in d.off .. key + 1 : Token(k) # "end" /\ Token(k) \notin Opening \cup Closing
    BY <1>5, <1>6, <1>7, <1>8
  <1>10. \A k \in d.off .. key + 1 : k \in Nat
    BY <1>1
  <1>11. \A k \in d.off .. key + 1 : doc[k + 1] \notin Opening \cup Closing
    BY <1>9, <1>10, TokenIs
  <1>12. key + 1 < d.limit
    BY <1>4, <1>6, TokenIs
  <1> HIDE DEF key
  <1>13. key \in Nat /\ d.off <= key
    BY <1>4 DEF key
  <1>14. key + 2 <= d.limit
    BY <1>1, <1>12, <1>13
  <1> QED BY <1>4, <1>11, <1>14 DEF key

\* A value of one token was read.
LEMMA Returns ==
  ASSUME Types, Reading(stack, d), status = "reading", UNCHANGED input,
         Top.kind \notin Opened \cup {"handed"},
         Here # "end", Here \notin Opening \cup Closing,
         Become(<< >>, Ahead(1, 0))
  PROVE  IInv'
  <1>1. d \in Decoder /\ d.off \in Nat /\ d.depth \in Nat /\ d.limit \in Nat
    BY DEF Types, Decoder
  <1>2. d.off < d.limit /\ doc[d.off + 1] \notin Opening \cup Closing
    BY <1>1, TokenIs DEF Here
  <1> DEFINE j == d.off + 1
             e == [d EXCEPT !.off = j]
             n == Len(stack) - 1
  <1>3. j \in Nat /\ d.off <= j /\ j <= d.limit
        /\ \A k \in d.off .. j - 1 : doc[k + 1] \notin Opening \cup Closing
    BY <1>1, <1>2
  <1>4. Ahead(1, 0) = e
    <2>1. d.depth + 0 = d.depth
      BY <1>1
    <2>2. Ahead(1, 0) = [off |-> d.off + 1, depth |-> d.depth + 0, limit |-> d.limit]
      BY <1>1, AheadIs
    <2>3. [d EXCEPT !.off = d.off + 1]
            = [off |-> d.off + 1, depth |-> d.depth, limit |-> d.limit]
      BY <1>1, <1>3, MovedIs
    <2> QED BY <2>1, <2>2, <2>3
  <1>5. e \in Decoder /\ e.off = j
    BY <1>1, <1>3 DEF Decoder
  <1>6. /\ Stands(e, stack, Len(stack)) /\ Bounded(j)
        /\ \A i \in d.off .. j : Level(i) = Level(d.off)
    <2> HIDE DEF j
    <2> QED BY <1>3, Walked
  <1>7. /\ n \in Nat \ {0} /\ n + 1 = Len(stack) /\ Len(stack) > 1 /\ Len(stack) \in Nat
        /\ stack[1].kind = "handed" /\ stack[n + 1].kind \notin Opened \cup {"handed"}
        /\ Top.back.off <= d.off /\ Top.back.off \in Nat
    BY AtTop DEF Decoder
  <1> HIDE DEF e, n, j
  <1>8. Stands(e, stack, n)
    BY <1>6, <1>7, StandsFlat
  <1>9. Top.back.off <= e.off /\ Bounded(e.off)
        /\ \A i \in d.off + 1 .. e.off : Level(i) >= Level(e.off)
    <2>1. Level(d.off) \in Int
      BY <1>1, LevelStep
    <2>2. Level(j) = Level(d.off) /\ Top.back.off <= j
      BY <1>1, <1>3, <1>6, <1>7
    <2>3. \A i \in d.off + 1 .. j : i \in d.off .. j
      BY <1>1
    <2> QED BY <1>5, <1>6, <2>1, <2>2, <2>3
  <1>10. Len(stack) - 1 = n
    BY DEF n
  <1>11. /\ Front(stack) \o << >> \in Seq(CallType)
         /\ Reading(Front(stack) \o << >>, e)
    BY <1>5, <1>7, <1>8, <1>9, <1>10, Pops
  <1> QED BY <1>4, <1>5, <1>11, Becomes

\* The end of an object or array was read.
LEMMA Closes ==
  ASSUME Types, Reading(stack, d), status = "reading", UNCHANGED input,
         Top.kind \in Opened, Here \in Closing, EndObject
  PROVE  IInv'
  <1>1. d \in Decoder /\ d.off \in Nat /\ d.depth \in Nat /\ d.limit \in Nat
    BY DEF Types, Decoder
  <1>2. d.off < d.limit /\ doc[d.off + 1] \in Closing
    BY <1>1, TokenIs, PlainTokens DEF Here
  <1> DEFINE n == Len(stack) - 1
             e == Ahead(1, IF Top.kind \in Uncounted THEN 0 ELSE -1)
  <1>3. Top.kind # "handed"
    BY DEF Opened, Counted, Uncounted
  <1>4. /\ n \in Nat \ {0} /\ n + 1 = Len(stack) /\ Len(stack) > 1 /\ Len(stack) \in Nat
        /\ stack[1].kind = "handed" /\ stack[n + 1] = Top
        /\ Top.back.off <= d.off /\ Top.back.off \in Nat
    BY <1>3, AtTop DEF Decoder
  <1>5. Stands(d, stack, n + 1) /\ Bounded(d.off)
    BY <1>4 DEF Reading
  <1>6. Level(d.off + 1) = Level(d.off) - 1 /\ Level(d.off) \in Int
    BY <1>1, <1>2, LevelStep
  <1>7. Top.kind \in Uncounted <=> Top.kind \notin Counted
    BY DEF Opened, Counted, Uncounted
  <1> HIDE DEF n
  <1>8. /\ Nest(KindsOf(stack), n) \in Nat /\ Total(KindsOf(stack), n) \in Nat
        /\ Nest(KindsOf(stack), n + 1)
             = Nest(KindsOf(stack), n) + (IF Top.kind \in Counted THEN 1 ELSE 0)
        /\ Total(KindsOf(stack), n + 1) = Total(KindsOf(stack), n) + 1
        /\ Limit(stack, n + 1) = Limit(stack, n)
    <2>1. n + 1 <= Len(stack) /\ stack[n + 1].kind # "handed"
      BY <1>3, <1>4
    <2> QED BY <1>4, <2>1, StandsDeeper
  <1>9. e = [off |-> d.off + 1, depth |-> Nest(KindsOf(stack), n), limit |-> d.limit]
    <2> DEFINE change == IF Top.kind \in Uncounted THEN 0 ELSE -1
    <2>1. change \in Int /\ d.depth = Nest(KindsOf(stack), n + 1)
      BY <1>5 DEF Stands
    <2>2. d.depth + change = Nest(KindsOf(stack), n)
      BY <1>1, <1>7, <1>8, <2>1
    <2>3. d \in Decoder /\ change \in Int /\ 1 \in Int
      BY <1>1
    <2> HIDE DEF change
    <2>4. Ahead(1, change)
            = [off |-> d.off + 1, depth |-> d.depth + change, limit |-> d.limit]
      BY <2>3, AheadIs
    <2> QED BY <2>2, <2>4 DEF change
  <1>10. /\ e \in Decoder /\ e.off = d.off + 1 /\ e.limit = d.limit
         /\ e.depth = Nest(KindsOf(stack), n)
    BY <1>1, <1>8, <1>9 DEF Decoder
  <1> HIDE DEF e
  <1>11. Stands(e, stack, n)
    <2>1. e.off <= e.limit
      BY <1>1, <1>2, <1>10
    <2>2. MaxDepth \in Nat /\ d.depth <= MaxDepth
      BY <1>5, InputAssumption DEF Stands
    <2>3. e.depth <= MaxDepth
      BY <1>5, <1>8, <1>10, <2>2 DEF Stands
    <2> QED BY <1>5, <1>6, <1>8, <1>10, <2>1, <2>3 DEF Stands
  <1>12. Bounded(e.off)
    <2>1. \A i \in 0 .. e.off : i \in 0 .. d.off \/ i = d.off + 1
      BY <1>1, <1>10
    <2>2. d.off \in 0 .. d.off /\ MaxDepth \in Nat
      BY <1>1, InputAssumption
    <2>3. Level(d.off + 1) <= MaxDepth + 1
      BY <1>5, <1>6, <2>2 DEF Bounded
    <2> QED BY <1>5, <2>1, <2>3 DEF Bounded
  <1>13. Top.back.off <= e.off /\ \A i \in d.off + 1 .. e.off : Level(i) >= Level(e.off)
    <2>1. \A i \in d.off + 1 .. e.off : i = e.off
      BY <1>1, <1>10
    <2>2. Level(e.off) \in Int
      BY <1>6, <1>10
    <2> QED BY <1>1, <1>4, <1>10, <2>1, <2>2
  <1>14. Len(stack) - 1 = n
    BY DEF n
  <1>15. /\ Front(stack) \o << >> \in Seq(CallType)
         /\ Reading(Front(stack) \o << >>, e)
    BY <1>4, <1>10, <1>11, <1>12, <1>13, <1>14, Pops
  <1>16. Become(<< >>, e)
    BY DEF EndObject, e
  <1> QED BY <1>10, <1>15, <1>16, Becomes

\* The start of an object or array was read, counted or not.
LEMMA Opens ==
  ASSUME Types, Reading(stack, d), status = "reading", UNCHANGED input,
         Top.kind \notin Opened \cup {"handed"}, Here \in Opening,
         Top.kind \in Skipping => d.depth + 1 <= MaxDepth,
         NEW kind \in Counted \cup {"look"},
         Top.kind \in Skipping => kind \in Skipping,
         NEW change, change = (IF kind = "look" THEN 0 ELSE 1), d.depth + change <= MaxDepth,
         Become(<<Call(kind, d)>>, Ahead(1, change))
  PROVE  IInv'
  <1>1. d \in Decoder /\ d.off \in Nat /\ d.depth \in Nat /\ d.limit \in Nat
    BY DEF Types, Decoder
  <1>2. d.off < d.limit /\ doc[d.off + 1] \in Opening
    BY <1>1, TokenIs, PlainTokens DEF Here
  <1>3. Bounded(d.off + 1) /\ Level(d.off + 1) = Level(d.off) + 1
    BY <1>2, Roomy
  <1>4. Level(d.off) \in Int
    BY <1>1, LevelStep
  <1> DEFINE c == Call(kind, d)
             e == Ahead(1, change)
  <1>5. kind \in Kinds /\ kind \in Opened /\ kind \notin {"handed", "wrapped"}
        /\ (kind \in Counted <=> kind # "look") /\ "none" \in Names
    BY DEF Kinds, Opened, Counted, Uncounted, Names
  <1>6. c \in CallType /\ c.kind = kind /\ c.back = d
    BY <1>1, <1>5, CallIs
  <1>7. change \in Int /\ d.depth + change \in Nat
    BY <1>1
  <1>8. e = [off |-> d.off + 1, depth |-> d.depth + change, limit |-> d.limit]
    <2>1. d \in Decoder /\ 1 \in Int /\ change \in Int
      BY <1>1, <1>7
    <2> QED BY <2>1, AheadIs
  <1>9. Become(<<c>>, e)
    OBVIOUS
  <1> HIDE DEF c, e
  <1>10. /\ e \in Decoder /\ e.off = d.off + 1 /\ e.limit = d.limit
         /\ e.depth = d.depth + change
    BY <1>1, <1>7, <1>8 DEF Decoder
  <1>11. /\ Top.kind # "handed" /\ Top.back.off <= d.off
         /\ Stands(d, stack, Len(stack) - 1)
    BY AtTop
  <1>12. /\ e.depth = c.back.depth + (IF c.kind \in Counted THEN 1 ELSE 0)
         /\ Level(e.off) = Level(c.back.off) + (IF c.kind \in Opened THEN 1 ELSE 0)
         /\ e.limit = c.back.limit /\ e.depth <= MaxDepth /\ e.off <= e.limit
         /\ Bounded(e.off)
    BY <1>1, <1>2, <1>3, <1>5, <1>6, <1>10
  <1>13. /\ Top.back.off <= c.back.off /\ c.back.off <= e.off
         /\ \A i \in d.off + 1 .. e.off : Level(i) >= Level(c.back.off)
         /\ c.kind = "look" => /\ doc[c.back.off + 1] \in Opening
                               /\ e.off = c.back.off + 1
    <2>1. \A i \in d.off + 1 .. e.off : i = d.off + 1
      BY <1>1, <1>10
    <2> QED BY <1>1, <1>2, <1>3, <1>4, <1>6, <1>10, <1>11, <2>1
  <1>14. /\ Front(stack) \o <<c>> \in Seq(CallType)
         /\ Reading(Front(stack) \o <<c>>, e)
    BY <1>5, <1>6, <1>10, <1>11, <1>12, <1>13, Swaps
  <1> QED BY <1>9, <1>10, <1>14, Becomes

LEMMA Begins ==
  ASSUME Types, Reading(stack, d), status = "reading", UNCHANGED input,
         Top.kind \notin Opened \cup {"handed"},
         NEW brace \in Opening, NEW kind \in Counted,
         Top.kind \in Skipping => kind \in Skipping,
         Begin(brace, kind)
  PROVE  IInv'
  <1>1. Fail \/ (Here = brace /\ ~ (d.depth + 1 > MaxDepth)
                /\ Become(<<Call(kind, d)>>, Ahead(1, 1)))
    BY Zenon DEF Begin
  <1>2. CASE Fail
    BY <1>2, Fails
  <1>3. CASE Here = brace /\ ~ (d.depth + 1 > MaxDepth)
             /\ Become(<<Call(kind, d)>>, Ahead(1, 1))
    <2>1. d.depth + 1 <= MaxDepth
      BY <1>3, InputAssumption DEF Types, Decoder
    <2>2. Here \in Opening
      BY <1>3
    <2>3. kind # "look" /\ kind \in Counted \cup {"look"}
      BY DEF Counted
    <2> QED BY <1>3, <2>1, <2>2, <2>3, Opens
  <1> QED BY <1>1, <1>2, <1>3

\* The loop goes on when the value at j is read.
LEMMA Calls1 ==
  ASSUME Types, Reading(stack, d), status = "reading", UNCHANGED input,
         Top.kind # "handed",
         NEW u \in CallType, u.kind = Top.kind, u.back = Top.back, ~ u.first,
         NEW j \in Nat, d.off <= j, j <= d.limit,
         \A k \in d.off .. j - 1 : doc[k + 1] \notin Opening \cup Closing,
         NEW callee \in Kinds \ (Opened \cup {"handed"}),
         Top.kind \in Skipping \cup {"look"} => callee \in Skipping,
         Become(<<u, Call(callee, [d EXCEPT !.off = j])>>, [d EXCEPT !.off = j])
  PROVE  IInv'
  <1> DEFINE e == [d EXCEPT !.off = j]
             c == Call(callee, e)
  <1>1. e \in Decoder
    BY DEF Types, Decoder
  <1>2. c \in CallType /\ c.kind = callee /\ c.back = e
    <2> HIDE DEF e
    <2>1. "none" \in Names
      BY DEF Names
    <2> QED BY <1>1, <2>1, CallIs
  <1>3. c.kind \notin Opened \cup {"handed"} /\ c.back = [d EXCEPT !.off = j]
        /\ (Top.kind \in Skipping \cup {"look"} => c.kind \in Skipping)
    BY <1>2
  <1>4. Become(<<u, c>>, e)
    OBVIOUS
  <1> HIDE DEF c
  <1>5. /\ Front(stack) \o <<u, c>> \in Seq(CallType)
        /\ Reading(Front(stack) \o <<u, c>>, e)
    BY <1>2, <1>3, Pushes
  <1> HIDE DEF e
  <1> QED BY <1>1, <1>4, <1>5, Becomes

\* The loop goes on at j.
LEMMA Loops ==
  ASSUME Types, Reading(stack, d), status = "reading", UNCHANGED input,
         Top.kind # "handed",
         NEW u \in CallType, u.kind = Top.kind, u.back = Top.back, u.first => Top.first,
         Top.kind = "look" => ~ u.first,
         NEW j \in Nat, d.off <= j, j <= d.limit,
         \A k \in d.off .. j - 1 : doc[k + 1] \notin Opening \cup Closing,
         Become(<<u>>, [d EXCEPT !.off = j])
  PROVE  IInv'
  <1> DEFINE e == [d EXCEPT !.off = j]
  <1>1. /\ Front(stack) \o <<u>> \in Seq(CallType) /\ e \in Decoder
        /\ Reading(Front(stack) \o <<u>>, e)
    BY Stays
  <1>2. Become(<<u>>, e)
    OBVIOUS
  <1> HIDE DEF e
  <1> QED BY <1>1, <1>2, Becomes

\* The top call once its loop has begun.
LEMMA BegunIs ==
  ASSUME Types, Reading(stack, d)
  PROVE  /\ [Top EXCEPT !.first = FALSE] \in CallType
         /\ [Top EXCEPT !.first = FALSE].kind = Top.kind
         /\ [Top EXCEPT !.first = FALSE].back = Top.back
         /\ [Top EXCEPT !.first = FALSE].first = FALSE
  <1>1. Top \in CallType
    BY AtTop
  <1> QED BY <1>1 DEF CallType

LEMMA ReadsMember ==
  ASSUME Types, Reading(stack, d), status = "reading", UNCHANGED input,
         Top.kind # "handed", HasKey,
         NEW callee \in Kinds \ (Opened \cup {"handed"}),
         Top.kind \in Skipping \cup {"look"} => callee \in Skipping,
         ReadMember(callee)
  PROVE  IInv'
  <1> DEFINE j == KeyAt + 2
             u == [Top EXCEPT !.first = FALSE]
  <1>1. /\ KeyAt \in Nat /\ d.off <= KeyAt /\ KeyAt + 2 <= d.limit
        /\ \A k \in d.off .. KeyAt + 1 : doc[k + 1] \notin Opening \cup Closing
    BY KeyIs
  <1>2. d.off \in Nat
    BY DEF Types, Decoder
  <1>3. j \in Nat /\ d.off <= j /\ j <= d.limit /\ j - 1 = KeyAt + 1
    BY <1>1, <1>2
  <1>4. \A k \in d.off .. j - 1 : doc[k + 1] \notin Opening \cup Closing
    BY <1>1, <1>3
  <1>5. u \in CallType /\ u.kind = Top.kind /\ u.back = Top.back /\ ~ u.first
    BY BegunIs
  <1>6. Become(<<u, Call(callee, [d EXCEPT !.off = j])>>, [d EXCEPT !.off = j])
    BY DEF ReadMember
  <1> HIDE DEF j, u
  <1> QED BY <1>3, <1>4, <1>5, <1>6, Calls1

\* Nothing is read before another call is made.
LEMMA Turns ==
  ASSUME Types, Reading(stack, d), status = "reading", UNCHANGED input,
         Top.kind \notin Opened \cup {"handed"},
         NEW kind \in Kinds \ (Opened \cup {"handed"}),
         Top.kind \in Skipping => kind \in Skipping,
         NEW message \in Names,
         Become(<<Calls(kind, message, d)>>, d)
  PROVE  IInv'
  <1> DEFINE c == Calls(kind, message, d)
  <1>1. d \in Decoder /\ d.off \in Nat /\ d.depth \in Nat /\ d.limit \in Nat
    BY DEF Types, Decoder
  <1>2. c \in CallType /\ c.kind = kind /\ c.back = d
    BY <1>1, CallIs
  <1>3. Become(<<c>>, d)
    OBVIOUS
  <1> HIDE DEF c
  <1>4. Top.kind # "handed" /\ Stands(d, stack, Len(stack) - 1) /\ Top.back.off <= d.off
    BY AtTop
  <1>5. c.kind \notin Opened \cup {"handed"} /\ c.kind \notin Counted
        /\ c.kind \notin {"look", "wrapped"}
    BY <1>2 DEF Opened, Uncounted
  <1>6. /\ d.depth <= MaxDepth /\ d.off <= d.limit /\ Bounded(d.off)
        /\ Level(d.off) \in Int
    BY <1>1, LevelStep DEF Reading, Stands
  <1>7. \A i \in d.off + 1 .. d.off : FALSE
    BY <1>1
  <1>8. /\ d.depth = c.back.depth + (IF c.kind \in Counted THEN 1 ELSE 0)
        /\ Level(d.off) = Level(c.back.off) + (IF c.kind \in Opened THEN 1 ELSE 0)
        /\ d.limit = c.back.limit
        /\ Stands(c.back, stack, Len(stack) - 1)
        /\ Top.back.off <= c.back.off /\ c.back.off <= d.off
        /\ Top.kind \in Skipping => c.kind \in Skipping
    BY <1>1, <1>2, <1>4, <1>5, <1>6
  <1>9. /\ Front(stack) \o <<c>> \in Seq(CallType)
        /\ Reading(Front(stack) \o <<c>>, d)
    BY <1>1, <1>2, <1>4, <1>5, <1>6, <1>7, <1>8, Swaps
  <1> QED BY <1>1, <1>3, <1>9, Becomes
-----------------------------------------------------------------------------
(* The actions *)

LEMMA StepUnmarshal ==
  ASSUME Types, Reading(stack, d), UNCHANGED input, Unmarshal
  PROVE  IInv'
  <1>1. status = "reading" /\ Top.kind = "unmarshal"
    BY DEF Unmarshal, Calling
  <1>2. PICK callee \in {"method", "any", "table"} :
          Become(<<Calls(callee, Top.type, d)>>, d)
    BY Zenon DEF Unmarshal
  <1>3. callee \in Kinds \ (Opened \cup {"handed"})
    BY DEF Kinds, Opened, Counted, Uncounted
  <1>4. Top.kind \notin Opened \cup {"handed"} /\ Top.kind \notin Skipping
    BY <1>1 DEF Opened, Counted, Uncounted, Skipping
  <1>5. Top.type \in Names
    BY AtTop DEF CallType
  <1> QED BY <1>1, <1>2, <1>3, <1>4, <1>5, Turns

LEMMA StepForward ==
  ASSUME Types, Reading(stack, d), UNCHANGED input, Forward
  PROVE  IInv'
  <1>1. status = "reading" /\ Top.kind = "method"
        /\ (Fail \/ Become(<<Calls("unmarshal", Top.type, d)>>, d))
    BY Zenon DEF Forward, Calling
  <1>2. "unmarshal" \in Kinds \ (Opened \cup {"handed"})
    BY DEF Kinds, Opened, Counted, Uncounted
  <1>3. Top.kind \notin Opened \cup {"handed"} /\ Top.kind \notin Skipping
    BY <1>1 DEF Opened, Counted, Uncounted, Skipping
  <1>4. Top.type \in Names
    BY AtTop DEF CallType
  <1>5. CASE Fail
    BY <1>5, Fails
  <1>6. CASE Become(<<Calls("unmarshal", Top.type, d)>>, d)
    BY <1>1, <1>2, <1>3, <1>4, <1>6, Turns
  <1> QED BY <1>1, <1>5, <1>6

LEMMA StepPeek ==
  ASSUME Types, Reading(stack, d), UNCHANGED input, Peek
  PROVE  IInv'
  <1>1. status = "reading" /\ Top.kind = "method"
    BY DEF Peek, Calling
  <1>2. ReaderPeeked \in {"fast", "slow"}
    BY Zenon DEF ReaderPeeked
  <1>3. Fail \/ Become(<<Call(ReaderPeeked, d)>>, d)
    BY Zenon DEF Peek
  <1>4. ReaderPeeked \in Kinds \ (Opened \cup {"handed"}) /\ "none" \in Names
    BY <1>2 DEF Kinds, Opened, Counted, Uncounted, Names
  <1>5. Top.kind \notin Opened \cup {"handed"} /\ Top.kind \notin Skipping
    BY <1>1 DEF Opened, Counted, Uncounted, Skipping
  <1>6. CASE Fail
    BY <1>6, Fails
  <1>7. CASE Become(<<Call(ReaderPeeked, d)>>, d)
    <2>1. Become(<<Calls(ReaderPeeked, "none", d)>>, d)
      BY <1>7 DEF Call
    <2> QED BY <1>1, <1>4, <1>5, <2>1, Turns
  <1> QED BY <1>3, <1>6, <1>7

LEMMA StepReadNull ==
  ASSUME Types, Reading(stack, d), UNCHANGED input, ReadNull
  PROVE  IInv'
  <1>1. status = "reading" /\ Top.kind \in Nullable /\ Here = "null"
        /\ Become(<< >>, Ahead(1, 0))
    BY DEF ReadNull, Calling
  <1>2. Top.kind \notin Opened \cup {"handed"}
    BY <1>1 DEF Nullable, Opened, Counted, Uncounted
  <1>3. Here # "end" /\ Here \notin Opening \cup Closing
    BY <1>1, PlainTokens
  <1> QED BY <1>1, <1>2, <1>3, Returns

LEMMA StepSkip ==
  ASSUME Types, Reading(stack, d), UNCHANGED input, Skip
  PROVE  IInv'
  <1>1. status = "reading" /\ Top.kind = "skip"
    BY DEF Skip, Calling
  <1>2. Top.kind \notin Opened \cup {"handed"} /\ Top.kind \in Skipping
        /\ {"skipObject", "skipArray"} \subseteq Counted \cap Skipping
    BY <1>1 DEF Opened, Counted, Uncounted, Skipping
  <1>3. \/ \E brace \in Opening, kind \in {"skipObject", "skipArray"} : Begin(brace, kind)
        \/ (Here = "null" \/ IsString(Here)) /\ Become(<< >>, Ahead(1, 0))
        \/ Fail
    BY Zenon DEF Skip, Opening
  <1>4. ASSUME NEW brace \in Opening, NEW kind \in {"skipObject", "skipArray"},
               Begin(brace, kind)
        PROVE  IInv'
    <2>1. kind \in Counted /\ kind \in Skipping
      BY <1>2
    <2> QED BY <1>1, <1>2, <1>4, <2>1, Begins
  <1>5. CASE (Here = "null" \/ IsString(Here)) /\ Become(<< >>, Ahead(1, 0))
    <2>1. Here # "end" /\ Here \notin Opening \cup Closing
      BY <1>5, PlainTokens
    <2> QED BY <1>1, <1>2, <1>5, <2>1, Returns
  <1>6. CASE Fail
    BY <1>6, Fails
  <1> QED BY <1>3, <1>4, <1>5, <1>6

LEMMA StepBeginMessage ==
  ASSUME Types, Reading(stack, d), UNCHANGED input,
         NEW reader \in DOMAIN StartsOf, BeginMessage(reader)
  PROVE  IInv'
  <1>1. reader \in {"fast", "slow", "table", "node"}
    BY DEF StartsOf
  <1>2. status = "reading" /\ Top.kind \in StartsOf[reader]
    BY DEF BeginMessage, Calling
  <1>3. PICK brace \in Opening : Begin(brace, LoopOf[reader])
    BY Zenon DEF BeginMessage, Opening
  <1>4. LoopOf[reader] \in Counted
    BY <1>1 DEF LoopOf, Counted
  <1>5. Top.kind \in {"fast", "fastField", "slow", "slowField", "table", "tableField", "node"}
    BY <1>1, <1>2 DEF StartsOf
  <1>6. Top.kind \notin Opened \cup {"handed"} /\ Top.kind \notin Skipping
    BY <1>5 DEF Opened, Counted, Uncounted, Skipping
  <1> QED BY <1>2, <1>3, <1>4, <1>6, Begins

LEMMA StepEndMessage ==
  ASSUME Types, Reading(stack, d), UNCHANGED input, EndMessage \/ FastEnd
  PROVE  IInv'
  <1>1. status = "reading" /\ EndObject /\ Here \in Closing
        /\ Top.kind \in {"slowLoop", "tableLoop", "nodeLoop", "skipObject", "wrapped",
                         "fastLoop"}
    BY Zenon DEF EndMessage, FastEnd, Calling, Closing
  <1>2. Top.kind \in Opened
    BY <1>1 DEF Opened, Counted, Uncounted
  <1> QED BY <1>1, <1>2, Closes

Callees == {"fastField", "slowField", "tableField", "farField", "anyField", "any", "skip"}

LEMMA CalleeIs ==
  ASSUME NEW reader \in {"fast", "slow", "table"}, NEW field
  PROVE  /\ CalleeOf(reader, field) \in Callees
         /\ Callees \subseteq Kinds \ (Opened \cup {"handed"})
  <1>1. Callees \subseteq Kinds \ (Opened \cup {"handed"})
    BY DEF Callees, Kinds, Opened, Counted, Uncounted
  <1>2. FieldOf[reader] \in {"fastField", "slowField", "tableField"}
    BY DEF FieldOf
  <1>3. CalleeOf(reader, field) \in Callees
    BY <1>2 DEF CalleeOf, Callees
  <1> QED BY <1>1, <1>3

LEMMA ReadsField ==
  ASSUME Types, Reading(stack, d), status = "reading", UNCHANGED input,
         Top.kind \in Opened \ (Skipping \cup {"look"}),
         NEW reader \in {"fast", "slow", "table"}, Member(reader)
  PROVE  IInv'
  <1>1. (HasKey /\ ReadMember(CalleeOf(reader, Key))) \/ Fail
    BY Zenon DEF Member
  <1>2. CalleeOf(reader, Key) \in Kinds \ (Opened \cup {"handed"})
    BY CalleeIs
  <1>3. Top.kind \notin Skipping \cup {"look"} /\ Top.kind # "handed"
    BY DEF Opened, Counted, Uncounted
  <1>4. CASE Fail
    BY <1>4, Fails
  <1>5. CASE HasKey /\ ReadMember(CalleeOf(reader, Key))
    <2> DEFINE callee == CalleeOf(reader, Key)
    <2>1. callee \in Kinds \ (Opened \cup {"handed"}) /\ ReadMember(callee)
      BY <1>2, <1>5
    <2> HIDE DEF callee
    <2> QED BY <1>3, <1>5, <2>1, ReadsMember
  <1> QED BY <1>1, <1>4, <1>5

LEMMA StepMember ==
  ASSUME Types, Reading(stack, d), UNCHANGED input, SlowMember \/ TableMember
  PROVE  IInv'
  <1>1. /\ status = "reading" /\ Top.kind \in {"slowLoop", "tableLoop"}
        /\ \E reader \in {"fast", "slow", "table"} : Member(reader)
    BY Zenon DEF SlowMember, TableMember, MembersOf, Calling
  <1>2. Top.kind \in Opened \ (Skipping \cup {"look"})
    BY <1>1 DEF Opened, Counted, Skipping
  <1> QED BY <1>1, <1>2, ReadsField

LEMMA StepSkipMember ==
  ASSUME Types, Reading(stack, d), UNCHANGED input, SkipMember
  PROVE  IInv'
  <1>1. /\ status = "reading" /\ Top.kind = "skipObject"
        /\ (Fail \/ (HasKey /\ ReadMember("skip")))
    BY Zenon DEF SkipMember, MembersOf, Calling
  <1>2. Top.kind # "handed" /\ "skip" \in Kinds \ (Opened \cup {"handed"})
        /\ "skip" \in Skipping
    BY <1>1 DEF Kinds, Opened, Counted, Uncounted, Skipping
  <1>3. CASE Fail
    BY <1>3, Fails
  <1>4. CASE HasKey /\ ReadMember("skip")
    BY <1>1, <1>2, <1>4, ReadsMember
  <1> QED BY <1>1, <1>3, <1>4

\* Where the next element of an array is, and that nothing opens before.
LEMMA ElementIs ==
  ASSUME Types, Reading(stack, d), KeyAt # -1
  PROVE  /\ KeyAt \in Nat /\ d.off <= KeyAt /\ KeyAt <= d.limit
         /\ \A k \in d.off .. KeyAt - 1 : doc[k + 1] \notin Opening \cup Closing
  <1>1. d.off \in Nat /\ d.limit \in Nat /\ d.off <= d.limit
    BY DEF Types, Decoder, Reading, Stands
  <1>2. KeyAt = d.off \/ (Token(d.off) = "," /\ KeyAt = d.off + 1)
    BY Zenon DEF KeyAt, Here
  <1>3. Token(d.off) = "," => d.off < d.limit /\ doc[d.off + 1] \notin Opening \cup Closing
    BY <1>1, PlainTokens, TokenIs
  <1>4. KeyAt = d.off \/ (KeyAt = d.off + 1 /\ d.off < d.limit
                         /\ doc[d.off + 1] \notin Opening \cup Closing)
    BY <1>2, <1>3, Zenon
  <1> DEFINE j == KeyAt
  <1>5. j = d.off \/ (j = d.off + 1 /\ d.off < d.limit
                     /\ doc[d.off + 1] \notin Opening \cup Closing)
    BY <1>4
  <1> HIDE DEF j
  <1>6. /\ j \in Nat /\ d.off <= j /\ j <= d.limit
        /\ \A k \in d.off .. j - 1 : doc[k + 1] \notin Opening \cup Closing
    BY <1>1, <1>5
  <1> QED BY <1>6 DEF j

LEMMA StepSkipElement ==
  ASSUME Types, Reading(stack, d), UNCHANGED input, SkipElement
  PROVE  IInv'
  <1> DEFINE j == KeyAt
             u == [Top EXCEPT !.first = FALSE]
             Element == KeyAt # -1 /\ Become(<<u, Call("skip", [d EXCEPT !.off = j])>>,
                                             [d EXCEPT !.off = j])
  <1>1. /\ status = "reading" /\ Top.kind = "skipArray"
        /\ (Here \in Closing /\ EndObject) \/ Element \/ Fail
    BY Zenon DEF SkipElement, Calling, Closing
  <1>2. /\ Top.kind # "handed" /\ Top.kind \in Opened
        /\ "skip" \in Kinds \ (Opened \cup {"handed"}) /\ "skip" \in Skipping
    BY <1>1 DEF Kinds, Opened, Counted, Uncounted, Skipping
  <1>3. CASE Here \in Closing /\ EndObject
    BY <1>1, <1>2, <1>3, Closes
  <1>4. CASE Element
    <2>1. /\ j \in Nat /\ d.off <= j /\ j <= d.limit
          /\ \A k \in d.off .. j - 1 : doc[k + 1] \notin Opening \cup Closing
      BY <1>4, ElementIs
    <2>2. u \in CallType /\ u.kind = Top.kind /\ u.back = Top.back /\ ~ u.first
      BY BegunIs
    <2>3. Become(<<u, Call("skip", [d EXCEPT !.off = j])>>, [d EXCEPT !.off = j])
      BY <1>4
    <2> HIDE DEF j, u
    <2> QED BY <1>1, <1>2, <2>1, <2>2, <2>3, Calls1
  <1>5. CASE Fail
    BY <1>5, Fails
  <1> HIDE DEF Element
  <1> QED BY <1>1, <1>3, <1>4, <1>5

LEMMA StepFastField ==
  ASSUME Types, Reading(stack, d), UNCHANGED input, FastField
  PROVE  IInv'
  <1> DEFINE passed == [Top EXCEPT !.field = @ + 1]
             begun == [Top EXCEPT !.first = FALSE, !.field = @ + 1]
             callee == CalleeOf("fast", Fields[Top.field])
             j == KeyAt + 2
             Found == /\ KeyAt # -1 /\ Token(KeyAt) = Fields[Top.field]
                      /\ Token(KeyAt + 1) = ":"
                      /\ Become(<<begun, Call(callee, [d EXCEPT !.off = j])>>,
                                [d EXCEPT !.off = j])
  <1>1. status = "reading" /\ Top.kind = "fastLoop" /\ Top.field <= Len(Fields)
    BY Zenon DEF FastField, Calling, Untried
  <1>2. Fail \/ Become(<<passed>>, d) \/ Found
    BY Zenon DEF FastField
  <1>3. Top \in CallType /\ d \in Decoder
    BY AtTop DEF Types
  <1>4. Top.field \in 1 .. 3 /\ Fields[Top.field] \in {"a", "far", "any"}
    BY <1>1, <1>3 DEF CallType, Fields
  <1>5. /\ passed \in CallType /\ passed.kind = Top.kind /\ passed.back = Top.back
        /\ passed.first = Top.first
    BY <1>3, <1>4 DEF CallType
  <1>6. /\ begun \in CallType /\ begun.kind = Top.kind /\ begun.back = Top.back
        /\ begun.first = FALSE
    <2> DEFINE first == [Top EXCEPT !.first = FALSE]
    <2>1. first \in CallType /\ first.kind = Top.kind /\ first.back = Top.back
          /\ first.first = FALSE /\ first.field = Top.field
      BY <1>3 DEF CallType
    <2>2. begun = [first EXCEPT !.field = @ + 1]
      OBVIOUS
    <2> HIDE DEF first, begun
    <2>3. /\ [first EXCEPT !.field = @ + 1] \in CallType
          /\ [first EXCEPT !.field = @ + 1].kind = first.kind
          /\ [first EXCEPT !.field = @ + 1].back = first.back
          /\ [first EXCEPT !.field = @ + 1].first = first.first
      BY <1>4, <2>1 DEF CallType
    <2> QED BY <2>1, <2>2, <2>3
  <1>7. Top.kind \notin Skipping \cup {"look"} /\ Top.kind # "handed"
    BY <1>1 DEF Skipping
  <1>8. CASE Fail
    BY <1>8, Fails
  <1>9. CASE Become(<<passed>>, d)
    <2> DEFINE i == d.off
    <2>1. i \in Nat /\ d.off <= i /\ i <= d.limit /\ \A k \in d.off .. i - 1 : FALSE
      BY <1>3 DEF Decoder, Reading, Stands
    <2>2. [d EXCEPT !.off = i] = d
      BY <1>3 DEF Decoder
    <2>3. Become(<<passed>>, [d EXCEPT !.off = i])
      BY <1>9, <2>2
    <2> HIDE DEF passed, i
    <2> QED BY <1>1, <1>5, <1>7, <2>1, <2>3, Loops
  <1>10. CASE Found
    <2>1. IsString(Fields[Top.field])
      BY <1>4, Zenon DEF IsString, Punctuation
    <2>2. HasKey
      BY <1>10, <2>1, Zenon DEF HasKey
    <2>3. /\ KeyAt \in Nat /\ d.off <= KeyAt /\ KeyAt + 2 <= d.limit
          /\ \A k \in d.off .. KeyAt + 1 : doc[k + 1] \notin Opening \cup Closing
      BY <2>2, KeyIs
    <2>4. j \in Nat /\ d.off <= j /\ j <= d.limit /\ j - 1 = KeyAt + 1
      BY <1>3, <2>3 DEF Decoder
    <2>5. \A k \in d.off .. j - 1 : doc[k + 1] \notin Opening \cup Closing
      BY <2>3, <2>4
    <2>6. callee \in Kinds \ (Opened \cup {"handed"})
      BY CalleeIs
    <2>7. Become(<<begun, Call(callee, [d EXCEPT !.off = j])>>, [d EXCEPT !.off = j])
      BY <1>10
    <2> HIDE DEF begun, callee, j
    <2> QED BY <1>1, <1>6, <1>7, <2>4, <2>5, <2>6, <2>7, Calls1
  <1> HIDE DEF passed, Found
  <1> QED BY <1>2, <1>8, <1>9, <1>10

\* The decoder goes back to where it stood before another call is made.
LEMMA GoesBack ==
  ASSUME Types, Reading(stack, d), status = "reading", UNCHANGED input,
         Top.kind \notin Skipping \cup {"handed"},
         NEW kind \in Kinds \ (Opened \cup {"handed"}),
         Become(<<Call(kind, Top.back)>>, Top.back)
  PROVE  IInv'
  <1> DEFINE e == Top.back
             c == Call(kind, e)
  <1>1. e \in Decoder /\ e.off \in Nat /\ e.depth \in Nat /\ e.limit \in Nat /\ d.off \in Nat
    BY AtTop DEF Types, Decoder
  <1>2. Stands(e, stack, Len(stack) - 1) /\ e.off <= d.off
    BY AtTop
  <1>3. c \in CallType /\ c.kind = kind /\ c.back = e
    <2> HIDE DEF e
    <2>1. "none" \in Names
      BY DEF Names
    <2> QED BY <1>1, <2>1, CallIs
  <1>4. c.kind \notin Opened \cup {"handed"} /\ c.kind \notin Counted
        /\ c.kind \notin {"look", "wrapped"}
    BY <1>3 DEF Opened, Uncounted
  <1>5. Become(<<c>>, e)
    OBVIOUS
  <1>6. Top.back = e
    OBVIOUS
  <1> HIDE DEF c, e
  <1>7. Bounded(e.off)
    <2>1. \A i \in 0 .. e.off : i \in 0 .. d.off
      BY <1>1, <1>2
    <2> QED BY <2>1 DEF Bounded, Reading
  <1>8. /\ e.depth = c.back.depth + (IF c.kind \in Counted THEN 1 ELSE 0)
        /\ Level(e.off) = Level(c.back.off) + (IF c.kind \in Opened THEN 1 ELSE 0)
        /\ e.limit = c.back.limit /\ e.depth <= MaxDepth /\ e.off <= e.limit
        /\ Stands(c.back, stack, Len(stack) - 1)
        /\ Top.back.off <= c.back.off /\ c.back.off <= e.off
    <2>1. Level(e.off) \in Int
      BY <1>1, LevelStep
    <2> QED BY <1>1, <1>2, <1>3, <1>4, <1>6, <2>1 DEF Stands
  <1>9. \A i \in d.off + 1 .. e.off : FALSE
    BY <1>1, <1>2
  <1>10. /\ Front(stack) \o <<c>> \in Seq(CallType)
         /\ Reading(Front(stack) \o <<c>>, e)
    BY <1>1, <1>3, <1>4, <1>7, <1>8, <1>9, Swaps
  <1> QED BY <1>1, <1>5, <1>10, Becomes

LEMMA StepRewind ==
  ASSUME Types, Reading(stack, d), UNCHANGED input, Rewind
  PROVE  IInv'
  <1>1. /\ status = "reading" /\ Top.kind = "fastLoop"
        /\ Fail \/ Become(<<Call("slow", Rewound(Top))>>, Rewound(Top))
    BY Zenon DEF Rewind, Calling
  <1>2. Top.kind \notin Skipping \cup {"handed"}
        /\ "slow" \in Kinds \ (Opened \cup {"handed"})
    BY <1>1 DEF Kinds, Opened, Counted, Uncounted, Skipping
  <1>3. Rewound(Top) = Top.back
    <2>1. Top.back.limit = d.limit /\ Top.back \in Decoder /\ d \in Decoder
      BY <1>2, AtTop DEF Types
    <2> QED BY <2>1 DEF Rewound, Decoder
  <1>4. CASE Fail
    BY <1>4, Fails
  <1>5. CASE Become(<<Call("slow", Rewound(Top))>>, Rewound(Top))
    <2>1. Become(<<Call("slow", Top.back)>>, Top.back)
      BY <1>3, <1>5
    <2> QED BY <1>1, <1>2, <2>1, GoesBack
  <1> QED BY <1>1, <1>4, <1>5

\* A string after a key, the name of the type, is passed over.
LEMMA PassesType ==
  ASSUME Types, Reading(stack, d), status = "reading", UNCHANGED input,
         Top.kind # "handed", HasKey, IsString(Token(KeyAt + 2)),
         NEW u \in CallType, u.kind = Top.kind, u.back = Top.back, ~ u.first,
         Become(<<u>>, [d EXCEPT !.off = KeyAt + 3])
  PROVE  IInv'
  <1> DEFINE j == KeyAt + 3
  <1>1. /\ KeyAt \in Nat /\ d.off <= KeyAt /\ KeyAt + 2 <= d.limit
        /\ \A k \in d.off .. KeyAt + 1 : doc[k + 1] \notin Opening \cup Closing
    BY KeyIs
  <1>2. KeyAt + 2 \in Nat /\ d.off \in Nat /\ d.limit \in Nat
    BY <1>1 DEF Types, Decoder
  <1>3. Token(KeyAt + 2) # "end" /\ Token(KeyAt + 2) \notin Opening \cup Closing
    BY PlainTokens
  <1>4. KeyAt + 2 < d.limit /\ Token(KeyAt + 2) = doc[KeyAt + 2 + 1]
    BY <1>2, <1>3, TokenIs
  <1> DEFINE key == KeyAt
  <1>5. j = key + 3 /\ key \in Nat /\ d.off <= key /\ key + 2 < d.limit
        /\ doc[key + 2 + 1] \notin Opening \cup Closing
        /\ \A k \in d.off .. key + 1 : doc[k + 1] \notin Opening \cup Closing
    BY <1>1, <1>3, <1>4
  <1>6. Become(<<u>>, [d EXCEPT !.off = j])
    OBVIOUS
  <1> HIDE DEF key, j
  <1>7. j \in Nat /\ d.off <= j /\ j <= d.limit
    BY <1>2, <1>5
  <1>8. \A k \in d.off .. j - 1 : doc[k + 1] \notin Opening \cup Closing
    <2>1. \A k \in d.off .. j - 1 : k \in d.off .. key + 1 \/ k = key + 2
      BY <1>2, <1>5
    <2> QED BY <1>5, <2>1
  <1> QED BY <1>6, <1>7, <1>8, Loops

LEMMA StepNodeMember ==
  ASSUME Types, Reading(stack, d), UNCHANGED input, NodeMember
  PROVE  IInv'
  <1> DEFINE u == [Top EXCEPT !.first = FALSE]
             Passed == HasKey /\ IsString(Token(KeyAt + 2))
                       /\ Become(<<u>>, [d EXCEPT !.off = KeyAt + 3])
  <1>1. /\ status = "reading" /\ Top.kind = "nodeLoop"
        /\ Passed \/ Fail \/ Member("table")
    BY Zenon DEF NodeMember, MembersOf, Calling, PassOverType
  <1>2. Top.kind \in Opened \ (Skipping \cup {"look"}) /\ Top.kind # "handed"
    BY <1>1 DEF Opened, Counted, Skipping
  <1>3. CASE Passed
    <2>1. u \in CallType /\ u.kind = Top.kind /\ u.back = Top.back /\ ~ u.first
      BY BegunIs
    <2> HIDE DEF u
    <2> QED BY <1>1, <1>2, <1>3, <2>1, PassesType
  <1>4. CASE Fail
    BY <1>4, Fails
  <1>5. CASE Member("table")
    BY <1>1, <1>2, <1>5, ReadsField
  <1> HIDE DEF Passed
  <1> QED BY <1>1, <1>3, <1>4, <1>5

LEMMA StepWrappedMember ==
  ASSUME Types, Reading(stack, d), UNCHANGED input, WrappedMember
  PROVE  IInv'
  <1> DEFINE u == [Top EXCEPT !.first = FALSE]
             Passed == HasKey /\ IsString(Token(KeyAt + 2))
                       /\ Become(<<u>>, [d EXCEPT !.off = KeyAt + 3])
  <1>1. /\ status = "reading" /\ Top.kind = "wrapped"
        /\ \/ Passed \/ Fail
           \/ HasKey /\ \E callee \in {"any", "skip"} : ReadMember(callee)
    BY Zenon DEF WrappedMember, MembersOf, Calling, PassOverType
  <1>2. Top.kind \notin Skipping \cup {"look"} /\ Top.kind # "handed"
        /\ {"any", "skip"} \subseteq Kinds \ (Opened \cup {"handed"})
    BY <1>1 DEF Kinds, Opened, Counted, Uncounted, Skipping
  <1>3. CASE Passed
    <2>1. u \in CallType /\ u.kind = Top.kind /\ u.back = Top.back /\ ~ u.first
      BY BegunIs
    <2> HIDE DEF u
    <2> QED BY <1>1, <1>2, <1>3, <2>1, PassesType
  <1>4. CASE Fail
    BY <1>4, Fails
  <1>5. CASE HasKey /\ \E callee \in {"any", "skip"} : ReadMember(callee)
    <2>1. PICK callee \in {"any", "skip"} : ReadMember(callee)
      BY <1>5
    <2>2. callee \in Kinds \ (Opened \cup {"handed"})
      BY <1>2
    <2> QED BY <1>1, <1>2, <1>5, <2>1, <2>2, ReadsMember
  <1> HIDE DEF Passed
  <1> QED BY <1>1, <1>3, <1>4, <1>5

LEMMA StepFindType ==
  ASSUME Types, Reading(stack, d), UNCHANGED input, FindType
  PROVE  IInv'
  <1> DEFINE type == Token(KeyAt + 2)
             u == [Top EXCEPT !.first = FALSE, !.type = type]
             Found == HasKey /\ IsString(Token(KeyAt + 2))
                      /\ Become(<<u>>, [d EXCEPT !.off = KeyAt + 3])
  <1>1. /\ status = "reading" /\ Top.kind = "look"
        /\ Found \/ Fail \/ (HasKey /\ ReadMember("skip"))
    BY Zenon DEF FindType, MembersOf, Calling
  <1>2. Top.kind # "handed" /\ "skip" \in Kinds \ (Opened \cup {"handed"})
        /\ "skip" \in Skipping
    BY <1>1 DEF Kinds, Opened, Counted, Uncounted, Skipping
  <1>3. CASE Found
    <2>1. type \in Names
      <3>1. KeyAt \in Nat /\ d.off \in Nat /\ d.limit \in Nat /\ d.limit <= Len(doc)
        BY <1>3, KeyIs DEF Types, Decoder, Reading, Stands
      <3>2. type # "end"
        BY <1>3, PlainTokens
      <3>3. KeyAt + 2 < d.limit /\ type = doc[KeyAt + 2 + 1]
        BY <3>1, <3>2, TokenIs
      <3>4. KeyAt + 2 + 1 \in 1 .. Len(doc) /\ doc \in Seq(STRING)
        BY <3>1, <3>3, LenProperties DEF Types
      <3>5. doc[KeyAt + 2 + 1] \in Range(doc)
        BY <3>4 DEF Range
      <3> QED BY <3>3, <3>5 DEF Names
    <2> DEFINE first == [Top EXCEPT !.first = FALSE]
    <2>2. first \in CallType /\ first.kind = Top.kind /\ first.back = Top.back
          /\ first.first = FALSE
      BY BegunIs
    <2>3. u = [first EXCEPT !.type = type]
      OBVIOUS
    <2> HIDE DEF type, first
    <2>4. /\ [first EXCEPT !.type = type] \in CallType
          /\ [first EXCEPT !.type = type].kind = first.kind
          /\ [first EXCEPT !.type = type].back = first.back
          /\ [first EXCEPT !.type = type].first = first.first
      BY <2>1, <2>2 DEF CallType
    <2>5. u \in CallType /\ u.kind = Top.kind /\ u.back = Top.back /\ ~ u.first
      BY <2>2, <2>3, <2>4
    <2> HIDE DEF u
    <2> QED BY <1>1, <1>2, <1>3, <2>5, PassesType
  <1>4. CASE Fail
    BY <1>4, Fails
  <1>5. CASE HasKey /\ ReadMember("skip")
    BY <1>1, <1>2, <1>5, ReadsMember
  <1> HIDE DEF Found
  <1> QED BY <1>1, <1>3, <1>4, <1>5

LEMMA StepLook ==
  ASSUME Types, Reading(stack, d), UNCHANGED input, Look
  PROVE  IInv'
  <1>1. /\ status = "reading" /\ Top.kind = "any"
        /\ Fail \/ (Here \in Opening /\ Become(<<Call("look", d)>>, Ahead(1, 0)))
    BY Zenon DEF Look, Calling, Opening
  <1>2. Top.kind \notin Opened \cup {"handed"} /\ Top.kind \notin Skipping
    BY <1>1 DEF Opened, Counted, Uncounted, Skipping
  <1>3. CASE Fail
    BY <1>3, Fails
  <1>4. CASE Here \in Opening /\ Become(<<Call("look", d)>>, Ahead(1, 0))
    <2>1. d.depth + 0 <= MaxDepth
      BY DEF Types, Decoder, Reading, Stands
    <2>2. "look" \in Counted \cup {"look"}
      OBVIOUS
    <2> QED BY <1>1, <1>2, <1>4, <2>1, <2>2, Opens
  <1> QED BY <1>1, <1>3, <1>4

LEMMA StepTypeFound ==
  ASSUME Types, Reading(stack, d), UNCHANGED input, TypeFound
  PROVE  IInv'
  <1> DEFINE original == Top.back
             inside == [original EXCEPT !.off = @ + 1]
             after == [original EXCEPT !.off = @ + 2]
             n == Len(stack)
  <1>1. /\ status = "reading" /\ Top.kind = "look" /\ Here \in Closing
        /\ \/ \E kind \in {"node", "skip"} : Become(<<Call(kind, original)>>, original)
           \/ Become(<<Call("wrapped", original)>>, inside)
           \/ Top.first /\ Become(<< >>, after)
           \/ Fail
    BY Zenon DEF TypeFound, Calling, Closing
  <1>2. /\ Top.kind \notin Skipping \cup {"handed"} /\ Top.kind \in Opened
        /\ Top.kind \notin Counted
        /\ {"node", "skip"} \subseteq Kinds \ (Opened \cup {"handed"})
        /\ "wrapped" \in Kinds \cap Opened /\ "wrapped" \notin Counted
    BY <1>1 DEF Kinds, Opened, Counted, Uncounted, Skipping
  <1>3. /\ n \in Nat \ {0} /\ n - 1 \in Nat \ {0} /\ n - 1 + 1 = n /\ stack[n] = Top
        /\ stack[1].kind = "handed" /\ n > 1
        /\ original \in Decoder /\ Stands(original, stack, n - 1)
        /\ original.off <= d.off /\ original.limit = d.limit
    BY <1>2, AtTop
  <1>4. /\ d \in Decoder /\ d.off \in Nat /\ d.limit \in Nat /\ d.depth \in Nat
        /\ original.off \in Nat /\ original.depth \in Nat /\ original.limit \in Nat
        /\ Len(doc) \in Nat
    BY <1>3, LenProperties DEF Types, Decoder
  <1>5. /\ doc[original.off + 1] \in Opening
        /\ Top.first => d.off = original.off + 1
    BY <1>1, <1>3 DEF Reading, LookOK
  <1>6. d.off < d.limit /\ doc[d.off + 1] \in Closing
    BY <1>1, <1>4, TokenIs, PlainTokens DEF Here
  <1>7. original.off # d.off
    BY <1>5, <1>6, PlainTokens
  <1>8. original.off + 1 <= d.off
    BY <1>3, <1>4, <1>7
  <1>9. /\ Level(original.off + 1) = Level(original.off) + 1
        /\ Level(d.off + 1) = Level(d.off) - 1
        /\ Level(original.off) \in Int /\ Level(d.off) \in Int
    BY <1>4, <1>5, <1>6, LevelStep
  <1>10. /\ Level(d.off) = Level(original.off) + 1
         /\ Total(KindsOf(stack), n - 1) \in Nat
         /\ Level(original.off) = Total(KindsOf(stack), n - 1)
    <2>1. Level(d.off) = Total(KindsOf(stack), n) /\ d.limit <= Len(doc)
      BY DEF Reading, Stands
    <2> DEFINE m == n - 1
    <2>2. m \in Nat \ {0} /\ m + 1 = n /\ n <= Len(stack) /\ Len(stack) \in Nat
          /\ stack[m + 1].kind # "handed" /\ stack[m + 1].kind \in Opened
      BY <1>2, <1>3
    <2> HIDE DEF m, n
    <2>3. Total(KindsOf(stack), m + 1) = Total(KindsOf(stack), m) + 1
          /\ Total(KindsOf(stack), m) \in Nat
      BY <1>3, <2>2, StandsDeeper
    <2>4. Level(original.off) = Total(KindsOf(stack), m)
      BY <1>3 DEF Stands, m
    <2> QED BY <2>1, <2>2, <2>3, <2>4 DEF m
  <1>11. Bounded(d.off) /\ d.limit <= Len(doc) /\ MaxDepth \in Nat
    BY InputAssumption DEF Reading, Stands
  <1>12. Level(d.off) <= MaxDepth + 1
    <2>1. d.off \in 0 .. d.off
      BY <1>4
    <2> QED BY <1>11, <2>1 DEF Bounded
  <1>13. Bounded(d.off + 1)
    <2>1. \A i \in 0 .. d.off + 1 : i \in 0 .. d.off \/ i = d.off + 1
      BY <1>4
    <2>2. Level(d.off + 1) <= MaxDepth + 1
      BY <1>9, <1>11, <1>12
    <2> QED BY <1>11, <2>1, <2>2 DEF Bounded
  <1>14. CASE \E kind \in {"node", "skip"} : Become(<<Call(kind, original)>>, original)
    <2>1. PICK kind \in {"node", "skip"} : Become(<<Call(kind, original)>>, original)
      BY <1>14
    <2>2. kind \in Kinds \ (Opened \cup {"handed"})
      BY <1>2
    <2> QED BY <1>1, <1>2, <2>1, <2>2, GoesBack
  <1>15. CASE Become(<<Call("wrapped", original)>>, inside)
    <2> DEFINE c == Call("wrapped", original)
               e == inside
    <2>1. c \in CallType /\ c.kind = "wrapped" /\ c.back = original
      <3>1. "none" \in Names /\ "wrapped" \in Kinds
        BY DEF Names, Kinds
      <3> QED BY <1>3, <3>1, CallIs
    <2>2. /\ e \in Decoder /\ e.off = original.off + 1 /\ e.depth = original.depth
          /\ e.limit = original.limit
      BY <1>3 DEF Decoder
    <2>3. Become(<<c>>, e)
      BY <1>15
    <2> HIDE DEF c, e
    <2>4. Bounded(e.off)
      <3>1. \A i \in 0 .. e.off : i \in 0 .. d.off
        BY <1>4, <1>8, <2>2
      <3> QED BY <1>11, <3>1 DEF Bounded
    <2>5. /\ e.depth = c.back.depth + (IF c.kind \in Counted THEN 1 ELSE 0)
          /\ Level(e.off) = Level(c.back.off) + (IF c.kind \in Opened THEN 1 ELSE 0)
          /\ e.limit = c.back.limit /\ e.off <= e.limit
          /\ Top.back.off <= c.back.off /\ c.back.off <= e.off
      <3>1. c.kind \in Opened /\ c.kind \notin Counted
        BY <1>2, <2>1
      <3>2. e.depth = c.back.depth + (IF c.kind \in Counted THEN 1 ELSE 0)
        BY <1>4, <2>1, <2>2, <3>1
      <3>3. Level(e.off) = Level(c.back.off) + (IF c.kind \in Opened THEN 1 ELSE 0)
        BY <1>9, <2>1, <2>2, <3>1
      <3> HIDE DEF original
      <3>4. Top.back = original
        BY DEF original
      <3>5. e.limit = c.back.limit /\ e.off <= e.limit
        BY <1>3, <1>4, <1>6, <1>8, <2>1, <2>2
      <3>6. Top.back.off <= c.back.off /\ c.back.off <= e.off
        BY <1>4, <2>1, <2>2, <3>4
      <3> QED BY <3>2, <3>3, <3>5, <3>6
    <2>6. e.depth <= MaxDepth
      BY <1>3, <2>2 DEF Stands
    <2>7. \A i \in d.off + 1 .. e.off : FALSE
      BY <1>4, <1>8, <2>2
    <2>8. \E z \in 0 .. Len(doc) : Level(z) < Level(e.off) /\ e.off < z /\ Bounded(z)
      <3>1. d.off + 1 \in 0 .. Len(doc)
        BY <1>4, <1>6, <1>11
      <3>2. Level(d.off + 1) < Level(e.off) /\ e.off < d.off + 1
        <4> HIDE DEF original
        <4> QED BY <1>4, <1>8, <1>9, <1>10, <2>2
      <3> QED BY <1>13, <3>1, <3>2
    <2>9. Stands(c.back, stack, Len(stack) - 1) /\ c.kind \notin {"handed", "look"}
          /\ Top.kind # "handed" /\ Top.kind \notin Skipping
      BY <1>2, <1>3, <2>1
    <2>10. /\ Front(stack) \o <<c>> \in Seq(CallType)
           /\ Reading(Front(stack) \o <<c>>, e)
      BY <2>1, <2>2, <2>4, <2>5, <2>6, <2>7, <2>8, <2>9, Swaps
    <2> QED BY <1>1, <2>2, <2>3, <2>10, Becomes
  <1>16. CASE Top.first /\ Become(<< >>, after)
    <2> DEFINE e == after
    <2>1. /\ e \in Decoder /\ e.off = original.off + 2 /\ e.depth = original.depth
          /\ e.limit = original.limit
      BY <1>3 DEF Decoder
    <2>2. d.off = original.off + 1
      BY <1>5, <1>16
    <2>3. Become(<< >>, e)
      BY <1>16
    <2>4. e.off = d.off + 1 /\ e.off <= e.limit /\ Top.back.off <= e.off
      <3>1. Top.back = original
        OBVIOUS
      <3> HIDE DEF e, original
      <3>2. e.off = d.off + 1
        BY <1>4, <2>1, <2>2
      <3>3. e.off <= e.limit
        BY <1>3, <1>4, <1>6, <2>1, <3>2
      <3> QED BY <1>4, <2>1, <3>1, <3>2, <3>3
    <2> HIDE DEF e
    <2>5. Level(e.off) = Level(original.off)
      BY <1>9, <1>10, <2>4
    <2>6. Stands(e, stack, n - 1)
      BY <1>3, <2>1, <2>4, <2>5 DEF Stands
    <2>7. Bounded(e.off)
      BY <1>13, <2>4
    <2>8. \A i \in d.off + 1 .. e.off : Level(i) >= Level(e.off)
      <3>1. \A i \in d.off + 1 .. e.off : i = e.off
        BY <1>4, <2>4
      <3> QED BY <1>9, <2>5, <3>1
    <2>9. /\ Front(stack) \o << >> \in Seq(CallType)
          /\ Reading(Front(stack) \o << >>, e)
      BY <1>3, <2>1, <2>4, <2>6, <2>7, <2>8, Pops
    <2> QED BY <1>1, <2>1, <2>3, <2>9, Becomes
  <1>17. CASE Fail
    BY <1>17, Fails
  <1> HIDE DEF original, inside, after
  <1> QED BY <1>1, <1>14, <1>15, <1>16, <1>17

\* The top call becomes two: what reads the value, or the end of a decoder's
\* data, below a call that begins where e is.
LEMMA SwapsTwo ==
  ASSUME Types, Reading(stack, d), status = "reading", UNCHANGED input,
         Top.kind \notin Skipping \cup Opened \cup {"handed"},
         NEW b \in CallType, NEW c \in CallType, NEW e \in Decoder,
         b.kind \notin Opened, c.kind \notin Opened \cup {"handed"},
         b.back = d, c.back = e, Top.back.off <= e.off, Bounded(e.off), e.off <= d.off,
         b.kind = "handed" => /\ e.depth = 0 /\ e.limit = d.off
                              /\ Level(e.off) = Level(d.off),
         b.kind # "handed" => e = d,
         Become(<<b, c>>, e)
  PROVE  IInv'
  <1> DEFINE p == Len(stack) - 1
             t == Front(stack) \o <<b, c>>
  <1>1. /\ p \in Nat \ {0} /\ p + 1 = Len(stack) /\ stack[1].kind = "handed"
        /\ Len(stack) \in Nat /\ Stands(d, stack, p) /\ Top.back.off <= d.off
        /\ Top.back.off \in Nat /\ e.off \in Nat /\ d.off \in Nat
    BY AtTop DEF Types, Decoder
  <1>2. /\ <<b, c>> \in Seq(CallType) /\ Len(<<b, c>>) = 2
        /\ <<b, c>>[1] = b /\ <<b, c>>[2] = c
    OBVIOUS
  <1>3. stack \in Seq(CallType) /\ Len(stack) > 0
    BY AtTop
  <1>4. /\ t \in Seq(CallType) /\ Len(t) = p + 2 /\ t[p + 1] = b /\ t[p + 2] = c
        /\ \A k \in 1 .. p : t[k] = stack[k]
    <2>1. Len(t) = p + Len(<<b, c>>)
      BY <1>2, <1>3, Replaced
    <2>2. t \in Seq(CallType) /\ \A k \in 1 .. p : t[k] = stack[k]
      BY <1>2, <1>3, Replaced
    <2>3. 1 \in 1 .. Len(<<b, c>>) /\ 2 \in 1 .. Len(<<b, c>>)
      BY <1>2
    <2>4. t[p + 1] = <<b, c>>[1] /\ t[p + 2] = <<b, c>>[2]
      BY <1>2, <1>3, <2>3, Replaced
    <2> HIDE DEF p, t
    <2> QED BY <1>1, <1>2, <2>1, <2>2, <2>4
  <1>5. Len(stack) - 1 = p /\ Become(<<b, c>>, e)
    OBVIOUS
  <1> HIDE DEF t, p
  <1>6. Same(stack, t, p) /\ t[1].kind = "handed"
    BY <1>1, <1>4 DEF Same
  <1>7. Stands(d, t, p)
    BY <1>1, <1>4, <1>6, SameCounts
  <1>8. p + 1 \in Nat \ {0} /\ p + 1 + 1 = p + 2 /\ Len(t) \in Nat /\ p + 2 <= Len(t)
        /\ p + 1 <= Len(t)
    BY <1>1, <1>4
  <1>9. Stands(e, t, p + 1)
    <2>1. CASE b.kind = "handed"
      <3>1. /\ Nest(KindsOf(t), p + 1) = 0
            /\ Total(KindsOf(t), p + 1) = Total(KindsOf(t), p)
            /\ Limit(t, p + 1) = t[p + 1].back.off
        BY <1>1, <1>4, <1>6, <1>8, <2>1, StandsHanded
      <3>2. d.off <= Len(doc)
        BY <1>1, LenProperties DEF Types, Decoder, Stands
      <3> QED BY <1>4, <1>7, <2>1, <3>1, <3>2, InputAssumption DEF Stands
    <2>2. CASE b.kind # "handed"
      <3>1. t[p + 1].kind \notin Opened \cup {"handed"}
        BY <1>4, <2>2
      <3> QED BY <1>1, <1>6, <1>7, <1>8, <2>2, <3>1, StandsFlat
    <2> QED BY <2>1, <2>2
  <1>10. Stands(e, t, Len(t))
    <2>1. t[p + 1 + 1].kind \notin Opened \cup {"handed"}
      BY <1>4, <1>8
    <2>2. Stands(e, t, p + 1 + 1)
      BY <1>6, <1>8, <1>9, <2>1, StandsFlat
    <2> QED BY <1>4, <1>8, <2>2
  <1>11. \A i \in d.off + 1 .. e.off : FALSE
    BY <1>1
  <1>12. ASSUME NEW k \in p + 1 .. Len(t)
         PROVE  (k = p + 1 /\ k - 1 = p /\ t[k] = b) \/ (k = p + 2 /\ k - 1 = p + 1 /\ t[k] = c)
    BY <1>1, <1>4
  <1>13. b.kind \notin {"look", "wrapped"} /\ c.kind \notin {"look", "wrapped"}
    BY DEF Opened, Uncounted
  <1>14. Bounded(d.off)
    BY DEF Reading
  <1>15. ASSUME NEW k \in p + 1 .. Len(t)
         PROVE  /\ Stands(t[k].back, t, k - 1)
                /\ Top.back.off <= t[k].back.off
                /\ t[k].kind = "handed" => Bounded(t[k].back.off)
                /\ t[k].kind # "handed" => t[k].back.off <= e.off
                /\ t[k].kind \notin {"look", "wrapped"}
    <2>1. CASE k = p + 1 /\ k - 1 = p /\ t[k] = b
      BY <1>1, <1>7, <1>13, <1>14, <2>1
    <2>2. CASE k = p + 2 /\ k - 1 = p + 1 /\ t[k] = c
      BY <1>1, <1>9, <1>13, <2>2
    <2> QED BY <1>12, <2>1, <2>2
  <1>16. ASSUME NEW k \in p + 1 .. Len(t), t[k].kind # "handed", NEW l \in k .. Len(t)
         PROVE  t[k].back.off <= t[l].back.off
    <2>1. l \in p + 1 .. Len(t)
      BY <1>1, <1>4
    <2>2. t[k].back.off = e.off
      BY <1>12, <1>16
    <2>3. t[l].back.off = e.off \/ (t[l].back.off = d.off)
      BY <1>12, <2>1
    <2> QED BY <1>1, <2>2, <2>3
  <1>17. p <= Len(t) /\ p # Len(stack) /\ Len(stack) - 1 <= p
    BY <1>1, <1>4
  <1>18. Reading(t, e)
    BY <1>1, <1>4, <1>6, <1>10, <1>11, <1>15, <1>16, <1>17, Kept
  <1>19. Front(stack) \o <<b, c>> \in Seq(CallType) /\ Reading(Front(stack) \o <<b, c>>, e)
    BY <1>4, <1>18 DEF t
  <1> QED BY <1>5, <1>19, Becomes

LEMMA StepReadRaw ==
  ASSUME Types, Reading(stack, d), UNCHANGED input, ReadRaw
  PROVE  IInv'
  <1> DEFINE b == Call(RawOf[Top.kind], d)
             c == Call("skip", d)
  <1>1. /\ status = "reading" /\ Top.kind \in {"farField", "anyField"}
        /\ Become(<<b, c>>, d)
    BY DEF ReadRaw, Calling, RawOf
  <1>2. RawOf[Top.kind] \in {"farRaw", "anyRaw"}
    BY <1>1 DEF RawOf
  <1>3. /\ RawOf[Top.kind] \in Kinds \ (Opened \cup {"handed"})
        /\ "skip" \in Kinds \ (Opened \cup {"handed"})
        /\ Top.kind \notin Skipping \cup Opened \cup {"handed"}
    BY <1>1, <1>2 DEF Kinds, Opened, Counted, Uncounted, Skipping
  <1>4. d \in Decoder /\ d.off \in Nat /\ "none" \in Names
    BY DEF Types, Decoder, Names
  <1>5. b \in CallType /\ b.kind = RawOf[Top.kind] /\ b.back = d
    BY <1>3, <1>4, CallIs
  <1>6. c \in CallType /\ c.kind = "skip" /\ c.back = d
    BY <1>3, <1>4, CallIs
  <1> HIDE DEF b, c
  <1>7. Top.back.off <= d.off /\ Bounded(d.off) /\ d.off <= d.off
    BY <1>3, <1>4, AtTop DEF Reading
  <1> QED BY <1>1, <1>3, <1>4, <1>5, <1>6, <1>7, SwapsTwo

LEMMA StepHandOver ==
  ASSUME Types, Reading(stack, d), UNCHANGED input, HandOver
  PROVE  IInv'
  <1> DEFINE inner == NewDecoder(Top.back.off, d.off)
             b == Call("handed", d)
             c == Calls("unmarshal", HandedTo[Top.kind], inner)
  <1>1. /\ status = "reading" /\ Top.kind \in {"farRaw", "anyRaw"}
        /\ Fail \/ Become(<<b, c>>, inner)
    BY Zenon DEF HandOver, Calling, HandedTo
  <1>2. HandedTo[Top.kind] \in Names
    <2>1. far \in Names /\ "Any" \in Names
      BY DEF Types, Names
    <2> HIDE DEF Names
    <2> QED BY <1>1, <2>1 DEF HandedTo
  <1>3. /\ "handed" \in Kinds \ Opened
        /\ "unmarshal" \in Kinds \ (Opened \cup {"handed"})
        /\ Top.kind \notin Skipping \cup Opened \cup {"handed"}
    BY <1>1 DEF Kinds, Opened, Counted, Uncounted, Skipping
  <1>4. /\ d \in Decoder /\ d.off \in Nat /\ "none" \in Names
        /\ Top.back.off \in Nat /\ Top.back.off <= d.off
    BY <1>3, AtTop DEF Types, Decoder, Names
  <1>5. /\ inner \in Decoder /\ inner.off = Top.back.off /\ inner.depth = 0
        /\ inner.limit = d.off
    BY <1>4 DEF NewDecoder, Decoder
  <1>6. b \in CallType /\ b.kind = "handed" /\ b.back = d
    BY <1>3, <1>4, CallIs
  <1>7. c \in CallType /\ c.kind = "unmarshal" /\ c.back = inner
    <2> HIDE DEF inner
    <2> QED BY <1>2, <1>3, <1>5, CallIs
  <1>8. Level(inner.off) = Level(d.off)
    <2> DEFINE n == Len(stack) - 1
    <2>1. Stands(d, stack, n) /\ Stands(Top.back, stack, n)
      BY <1>3, AtTop
    <2> HIDE DEF n, inner
    <2> QED BY <1>5, <2>1 DEF Stands
  <1> HIDE DEF inner, b, c
  <1>9. Bounded(inner.off) /\ Top.back.off <= inner.off /\ inner.off <= d.off
    <2>1. \A i \in 0 .. inner.off : i \in 0 .. d.off
      BY <1>4, <1>5
    <2> QED BY <1>4, <1>5, <2>1 DEF Bounded, Reading
  <1>10. CASE Fail
    BY <1>10, Fails
  <1>11. CASE Become(<<b, c>>, inner)
    BY <1>1, <1>3, <1>5, <1>6, <1>7, <1>8, <1>9, <1>11, SwapsTwo
  <1> QED BY <1>1, <1>10, <1>11

LEMMA StepFinish ==
  ASSUME Types, Reading(stack, d), UNCHANGED input, Finish
  PROVE  IInv'
  <1> DEFINE n == Len(stack)
             e == Top.back
  <1>1. /\ status = "reading" /\ Top.kind = "handed"
        /\ Fail \/ /\ d.off = d.limit /\ stack' = Front(stack) /\ d' = e
                   /\ status' = IF n = 1 THEN "done" ELSE status
    BY Zenon DEF Finish, Calling
  <1>2. /\ n \in Nat \ {0} /\ stack[n] = Top /\ e \in Decoder /\ d \in Decoder
        /\ n > 1 => Stands(e, stack, n - 1)
    BY AtTop DEF Types
  <1>3. CASE Fail
    BY <1>3, Fails
  <1>4. CASE /\ d.off = d.limit /\ stack' = Front(stack) /\ d' = e
             /\ status' = IF n = 1 THEN "done" ELSE status
    <2>1. CASE n = 1
      <3>1. Front(stack) = << >> /\ << >> \in Seq(CallType)
        BY <2>1, SubSeqEmpty, EmptySeq DEF Front
      <3>2. doc' = doc /\ far' = far
        BY DEF input
      <3>3. Names' = Names
        BY <3>2 DEF Names
      <3>4. CallType' = CallType
        BY <3>3 DEF CallType
      <3>5. stack' = << >> /\ d' \in Decoder /\ status' = "done"
        BY <1>2, <1>4, <2>1, <3>1
      <3>6. Types'
        BY <3>1, <3>2, <3>3, <3>4, <3>5 DEF Types
      <3> QED BY <3>5, <3>6 DEF IInv
    <2>2. CASE n # 1
      <3>1. n > 1 /\ n \in 2 .. n
        <4> HIDE DEF n
        <4> QED BY <1>2, <2>2
      <3>2. d.limit = e.off
        <4> DEFINE m == n - 1
        <4>1. m \in Nat \ {0} /\ m + 1 = n /\ stack[m + 1].kind = "handed"
              /\ stack[1].kind = "handed" /\ Len(stack) \in Nat /\ m + 1 <= Len(stack)
          BY <1>1, <1>2, <3>1, AtTop
        <4>2. Stands(d, stack, m + 1)
          BY <4>1 DEF Reading
        <4>3. stack[m + 1].back = e
          BY <1>2, <4>1
        <4> HIDE DEF m, e, n
        <4>4. Limit(stack, m + 1) = stack[m + 1].back.off
          BY <4>1, StandsHanded
        <4> QED BY <4>2, <4>3, <4>4 DEF Stands
      <3>3. e.off = d.off /\ e.off \in Nat
        BY <1>2, <1>4, <3>2 DEF Decoder
      <3>4. Bounded(e.off) /\ Top.back.off <= e.off /\ \A i \in d.off + 1 .. e.off : FALSE
        BY <3>3 DEF Reading
      <3> HIDE DEF e
      <3>5. /\ Front(stack) \o << >> \in Seq(CallType)
            /\ Front(stack) \o << >> = Front(stack)
            /\ Reading(Front(stack) \o << >>, e)
        BY <1>2, <3>1, <3>4, Pops
      <3>6. Become(<< >>, e)
        BY <1>4, <2>2, <3>5 DEF Become
      <3> QED BY <1>1, <1>2, <3>5, <3>6, Becomes
    <2> QED BY <2>1, <2>2
  <1> HIDE DEF e, n
  <1> QED BY <1>1, <1>3, <1>4
-----------------------------------------------------------------------------
(* The invariant *)

LEMMA InitIInv == Init => IInv
  <1> SUFFICES ASSUME Init
               PROVE  IInv
    OBVIOUS
  <1> DEFINE s == stack
  <1>1. PICK text \in Inputs : doc = text.tokens
    BY DEF Init
  <1>2. doc \in Seq(STRING) /\ Len(doc) \in Nat
    BY <1>1, InputAssumption, LenProperties
  <1>3. root[1] \in {"unmarshal", "method"} /\ root[2] \in Names /\ "none" \in Names
        /\ far \in Names
    BY InputAssumption DEF Init, Names
  <1>4. d = [off |-> 0, depth |-> 0, limit |-> Len(doc)]
    BY DEF Init, NewDecoder
  <1>5. d \in Decoder /\ d.off = 0 /\ d.depth = 0 /\ d.limit = Len(doc)
    BY <1>2, <1>4 DEF Decoder
  <1>6. {"handed", "unmarshal", "method"} \subseteq Kinds \ Opened
    BY DEF Kinds, Opened, Counted, Uncounted
  <1> DEFINE b == Call("handed", d)
             c == Calls(root[1], root[2], d)
  <1>7. b \in CallType /\ b.kind = "handed" /\ b.back = d
    BY <1>3, <1>5, <1>6, CallIs
  <1>8. c \in CallType /\ c.kind = root[1] /\ c.back = d
    BY <1>3, <1>5, <1>6, CallIs
  <1>9. stack = <<b, c>> /\ status = "reading"
    BY DEF Init
  <1> HIDE DEF b, c
  <1>10. /\ stack \in Seq(CallType) /\ Len(stack) = 2 /\ stack[1] = b /\ stack[2] = c
    BY <1>7, <1>8, <1>9
  <1>11. Types
    BY <1>2, <1>3, <1>5, <1>9, <1>10 DEF Types
  <1>12. Level(0) = 0
    <2>1. 1 \in Nat /\ 0 \in Nat /\ 0 < 1
      OBVIOUS
    <2>2. Count(doc, Opening, 1, 0) = 0 /\ Count(doc, Closing, 1, 0) = 0
      BY <2>1, CountType
    <2> QED BY <2>2 DEF Level
  <1>13. MaxDepth \in Nat
    BY InputAssumption
  <1>14. Stands(d, stack, 1)
    <2> DEFINE f == KindsOf(stack)
    <2>1. f[1] = "handed"
      BY <1>7, <1>10 DEF KindsOf
    <2> HIDE DEF f
    <2>2. Base(f, 1) = 1
      BY <2>1, BaseFacts
    <2>3. /\ Count(f, Counted, 1, 0 + 1) = 0
          /\ Count(f, Opened, 1, 0 + 1) = 0
      <3>0. 1 \in Nat /\ 0 \in Nat /\ 0 < 1
        OBVIOUS
      <3>1. Count(f, Counted, 1, 0) = 0 /\ Count(f, Opened, 1, 0) = 0
        BY <3>0, CountType
      <3>2. f[0 + 1] \notin Counted /\ f[0 + 1] \notin Opened
        BY <1>6, <2>1 DEF Opened
      <3> QED BY <3>1, <3>2, CountNext
    <2>4. Nest(f, 1) = 0 /\ Total(f, 1) = 0
      BY <2>2, <2>3 DEF Nest, Total
    <2>5. Limit(stack, 1) = Len(doc)
      BY <2>2 DEF Limit, f
    <2> QED BY <1>2, <1>5, <1>12, <1>13, <2>4, <2>5 DEF Stands, f
  <1>15. Stands(d, stack, 2)
    <2>1. stack[1].kind = "handed" /\ stack[1 + 1].kind \notin Opened \cup {"handed"}
      BY <1>3, <1>6, <1>7, <1>8, <1>10
    <2>2. Stands(d, stack, 1 + 1)
      BY <1>10, <1>14, <2>1, StandsFlat
    <2> QED BY <2>2
  <1>16. BackOK(stack)
    <2>1. \A k \in 2 .. Len(stack) : k = 2 /\ k - 1 = 1
      BY <1>10
    <2> QED BY <1>7, <1>8, <1>10, <1>14, <2>1 DEF BackOK
  <1>17. Bounded(d.off)
    <2>1. \A i \in 0 .. d.off : i = 0
      BY <1>5
    <2> QED BY <1>12, <1>13, <2>1 DEF Bounded
  <1>18. \A k \in 1 .. Len(stack) : /\ stack[k].back.off = 0
                                   /\ stack[k].kind \in {"handed", "unmarshal", "method"}
    <2>1. \A k \in 1 .. Len(stack) : k = 1 \/ k = 2
      BY <1>10
    <2> QED BY <1>3, <1>5, <1>7, <1>8, <1>10, <2>1
  <1>19. OrderOK(stack, d)
    BY <1>5, <1>10, <1>18 DEF OrderOK
  <1>20. HandedOK(stack)
    BY <1>5, <1>17, <1>18, <1>10 DEF HandedOK
  <1>21. LookOK(stack, d) /\ WrappedOK(stack, d)
    BY <1>10, <1>18 DEF LookOK, WrappedOK
  <1>22. Reading(stack, d)
    BY <1>10, <1>15, <1>16, <1>17, <1>19, <1>20, <1>21 DEF Reading
  <1> QED BY <1>11, <1>22 DEF IInv

LEMMA NextIInv == IInv /\ [Next]_vars => IInv'
  <1> SUFFICES ASSUME IInv, [Next]_vars
               PROVE  IInv'
    OBVIOUS
  <1>1. CASE UNCHANGED vars
    <2>1. doc' = doc /\ far' = far /\ d' = d /\ stack' = stack /\ status' = status
      BY <1>1 DEF vars, input
    <2>2. Names' = Names
      BY <2>1 DEF Names
    <2>3. CallType' = CallType
      BY <2>2 DEF CallType
    <2>4. Types'
      BY <2>1, <2>2, <2>3 DEF Types, IInv
    <2>5. CASE status = "reading"
      <3>1. Reading(stack, d)
        BY <2>5 DEF IInv
      <3>2. Reading(stack, d)'
        BY <2>1, <3>1 DEF Reading, BackOK, OrderOK, HandedOK, LookOK, WrappedOK, Stands,
                          Bounded, Level, Limit
      <3> QED BY <2>4, <3>2 DEF IInv
    <2>6. CASE status # "reading"
      BY <2>1, <2>4, <2>6 DEF IInv
    <2> QED BY <2>5, <2>6
  <1>2. CASE Next
    <2>1. Types /\ UNCHANGED input
      BY <1>2 DEF IInv, Next
    <2>2. status = "reading"
      BY <1>2, Zenon DEF Next, Unmarshal, Forward, Peek, ReadNull, Skip, BeginMessage,
           EndMessage, SlowMember, TableMember, SkipMember, SkipElement, FastField, FastEnd,
           Rewind, ReadRaw, HandOver, Finish, Look, FindType, TypeFound, NodeMember,
           WrappedMember, MembersOf, Calling
    <2>3. Reading(stack, d)
      BY <2>2 DEF IInv
    <2>4. CASE Unmarshal \/ Forward \/ Peek \/ ReadNull \/ Skip
      BY <2>1, <2>3, <2>4, StepUnmarshal, StepForward, StepPeek, StepReadNull, StepSkip
    <2>5. CASE \E reader \in DOMAIN StartsOf : BeginMessage(reader)
      BY <2>1, <2>3, <2>5, StepBeginMessage
    <2>6. CASE EndMessage \/ FastEnd
      BY <2>1, <2>3, <2>6, StepEndMessage
    <2>7. CASE SlowMember \/ TableMember
      BY <2>1, <2>3, <2>7, StepMember
    <2>8. CASE SkipMember \/ SkipElement
      BY <2>1, <2>3, <2>8, StepSkipMember, StepSkipElement
    <2>9. CASE FastField \/ Rewind
      BY <2>1, <2>3, <2>9, StepFastField, StepRewind
    <2>10. CASE ReadRaw \/ HandOver \/ Finish
      BY <2>1, <2>3, <2>10, StepReadRaw, StepHandOver, StepFinish
    <2>11. CASE Look \/ FindType \/ TypeFound
      BY <2>1, <2>3, <2>11, StepLook, StepFindType, StepTypeFound
    <2>12. CASE NodeMember \/ WrappedMember
      BY <2>1, <2>3, <2>12, StepNodeMember, StepWrappedMember
    <2> QED BY <1>2, <2>4, <2>5, <2>6, <2>7, <2>8, <2>9, <2>10, <2>11, <2>12, Zenon DEF Next
  <1> QED BY <1>1, <1>2

LEMMA Invariant == Spec => []IInv
  BY InitIInv, NextIInv, PTL DEF Spec

\* What the properties count is what the invariant counts.
LEMMA OpenIs ==
  ASSUME Types, Reading(stack, d)
  PROVE  /\ Open(Counted, Max(Handed)) = Nest(KindsOf(stack), Len(stack))
         /\ Open(Counted \cup Uncounted, 1) = Total(KindsOf(stack), Len(stack))
  <1> DEFINE n == Len(stack)
             f == KindsOf(stack)
  <1>1. n \in Nat \ {0} /\ DOMAIN stack = 1 .. n /\ stack[1].kind = "handed"
    BY AtTop, LenProperties DEF Types
  <1>2. \A k \in 1 .. n : f[k] = stack[k].kind
    BY DEF KindsOf
  <1>3. Handed = {k \in 1 .. n : f[k] = "handed"}
    BY <1>1, <1>2 DEF Handed
  <1>4. Max(Handed) = Base(f, n)
    BY <1>3 DEF Base
  <1>5. Base(f, n) \in 1 .. n
    <2>1. f[1] = "handed"
      BY <1>1, <1>2
    <2> HIDE DEF f, n
    <2> QED BY <1>1, <2>1, BaseFacts
  <1>6. {k \in Base(f, n) .. n : stack[k].kind \in Counted}
          = {k \in Base(f, n) .. n : f[k] \in Counted}
    <2> DEFINE a == Base(f, n)
    <2>1. a \in 1 .. n /\ \A k \in a .. n : k \in 1 .. n
      BY <1>1, <1>5
    <2> HIDE DEF a, f, n
    <2>2. {k \in a .. n : stack[k].kind \in Counted} = {k \in a .. n : f[k] \in Counted}
      BY <1>2, <2>1
    <2> QED BY <2>2 DEF a
  <1>7. {k \in 1 .. n : stack[k].kind \in Opened} = {k \in 1 .. n : f[k] \in Opened}
    BY <1>2
  <1> QED BY <1>4, <1>6, <1>7 DEF Open, Nest, Total, Count, Opened

\* The counter of the decoder at work is the number of objects and arrays it
\* has open, whatever the input and the limit: no return, rewind, lookahead or
\* hand-over of Reset, PeekObjectFieldName, findTypeURL and UnmarshalField
\* makes the two differ.
THEOREM CounterIsRight == Spec => []CounterIsNesting
  <1>1. IInv => CounterIsNesting
    <2> SUFFICES ASSUME IInv, status = "reading"
                 PROVE  d.depth = Open(Counted, Max(Handed))
      BY DEF CounterIsNesting
    <2>1. Types /\ Reading(stack, d)
      BY DEF IInv
    <2>2. d.depth = Nest(KindsOf(stack), Len(stack))
      BY <2>1 DEF Reading, Stands
    <2> QED BY <2>1, <2>2, OpenIs
  <1> QED BY <1>1, Invariant, PTL

\* Although every hand-over of a raw value begins with a counter of zero, the
\* objects and arrays that all decoders have open are never more than the
\* limit and one: the skip before the hand-over saw the value to its end, and
\* no more is open at any of its tokens than the decoder before it could count.
THEOREM RecursionIsBounded == Spec => []RecursionBounded
  <1>1. IInv => RecursionBounded
    <2> SUFFICES ASSUME IInv, status = "reading"
                 PROVE  /\ d.off <= d.limit /\ d.depth <= MaxDepth
                        /\ Open(Counted \cup Uncounted, 1) <= MaxDepth + 1
      BY DEF RecursionBounded
    <2>1. Types /\ Reading(stack, d)
      BY DEF IInv
    <2>2. /\ d.off <= d.limit /\ d.depth <= MaxDepth
          /\ Level(d.off) = Total(KindsOf(stack), Len(stack))
      BY <2>1 DEF Reading, Stands
    <2>3. Level(d.off) <= MaxDepth + 1
      <3>1. d.off \in 0 .. d.off /\ Bounded(d.off)
        BY <2>1 DEF Types, Decoder, Reading
      <3> QED BY <3>1 DEF Bounded
    <2> QED BY <2>1, <2>2, <2>3, OpenIs
  <1> QED BY <1>1, Invariant, PTL
=============================================================================
