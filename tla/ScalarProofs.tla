---------------------------- MODULE ScalarProofs ----------------------------
(***************************************************************************)
(* Proofs about IntegerToken, CivilTime and DurationText.  IntegerToken    *)
(* first, for any bytes, any length of the input and any widths: an        *)
(* integer in plain digits is read as itself, and what is accepted outside *)
(* a string is one JSON number.                                            *)
(*                                                                         *)
(* The value of a text is a recursive function.  An integer's text grows   *)
(* one byte a step: that it has a value, and which, is a part of the       *)
(* invariant, and each step that consumes a byte extends it.  A duration's *)
(* text is read at once: what its digits stand for climbs from each of its *)
(* prefixes to the next (Climb).                                           *)
(***************************************************************************)
EXTENDS IntegerToken, CivilTime, DurationText, SequenceTheorems, WellFoundedInduction, TLAPS

\* f is the table of the values of text's prefixes: what Naturally computes.
\* text stands for v when there is such a table and every one ends in v.
IsTable(f, text) ==
  f = [i \in 0..Len(text) |->
         IF i = 0 THEN 0 ELSE 10 * f[i - 1] + DigitOf[text[i]]]
StandsFor(text, v) ==
  /\ \E f : IsTable(f, text)
  /\ \A f : IsTable(f, text) => f[Len(text)] = v

\* What text stands for is its value.
LEMMA NaturallyStands ==
  ASSUME NEW text, NEW v, StandsFor(text, v)
  PROVE  Naturally(text) = v
<1> DEFINE t == CHOOSE f : IsTable(f, text)
<1>1. IsTable(t, text)
  BY DEF StandsFor
<1>2. t[Len(text)] = v
  BY <1>1 DEF StandsFor
<1>3. Naturally(text) = t[Len(text)]
  BY Zenon DEF Naturally, IsTable
<1> QED BY <1>2, <1>3

\* Which bytes are digits, and what they are worth.
LEMMA DigitFacts ==
  /\ \A c \in Digits : DigitOf[c] \in 0..9
  /\ "-" \notin Digits /\ "+" \notin Digits /\ "." \notin Digits /\ "e" \notin Digits
  /\ Quote \notin Digits /\ "," \notin Digits
<1>1. \A c \in Digits : DigitOf[c] \in 0..9
  BY DEF Digits, DigitOf
<1> QED BY <1>1, Zenon DEF Digits, DigitOf, Quote

\* The empty text stands for 0, and one more digit shifts the value.
LEMMA EmptyStands == StandsFor(<<>>, 0)
<1> DEFINE g == [i \in 0..0 |-> 0]
<1>1. IsTable(g, <<>>) BY DEF IsTable
<1>2. ASSUME NEW f, IsTable(f, <<>>) PROVE f[0] = 0
  BY <1>2 DEF IsTable
<1> QED BY <1>1, <1>2 DEF StandsFor

LEMMA AppendStands ==
  ASSUME NEW S, NEW text \in Seq(S), NEW c \in S, NEW v, StandsFor(text, v)
  PROVE  StandsFor(Append(text, c), 10 * v + DigitOf[c])
<1> DEFINE n == Len(text)  t == Append(text, c)
<1>0. n \in Nat /\ Len(t) = n + 1 /\ t[n + 1] = c /\ \A i \in 1..n : t[i] = text[i]
  OBVIOUS
<1> HIDE DEF t
<1>1. \E g : IsTable(g, t)
  <2>1. PICK f : IsTable(f, text)  BY DEF StandsFor
  <2> DEFINE g == [i \in 0..Len(t) |-> IF i = n + 1 THEN 10 * f[n] + DigitOf[c] ELSE f[i]]
  <2>4. \A i \in 0..n : f[i] = IF i = 0 THEN 0 ELSE 10 * f[i - 1] + DigitOf[text[i]]
    BY <2>1, SMT DEF IsTable
  <2>2. ASSUME NEW i \in 0..Len(t)
        PROVE g[i] = IF i = 0 THEN 0 ELSE 10 * g[i - 1] + DigitOf[t[i]]
    <3>1. CASE i = n + 1  BY <3>1, <1>0
    <3>2. CASE i \in 0..n
      <4>1. g[i] = f[i]  BY <3>2, <1>0
      <4>2. CASE i = 0  BY <4>1, <4>2, <2>4
      <4>3. CASE i \in 1..n
        <5>1. g[i - 1] = f[i - 1]  BY <4>3, <1>0
        <5>2. f[i] = 10 * f[i - 1] + DigitOf[text[i]]  BY <4>3, <2>4, <1>0
        <5>3. t[i] = text[i]  BY <4>3, <1>0
        <5> HIDE DEF g
        <5> QED BY <4>1, <4>3, <5>1, <5>2, <5>3
      <4> QED BY <3>2, <4>2, <4>3, <1>0
    <3> QED BY <3>1, <3>2, <1>0
  <2>3. g = [i \in 0..Len(t) |-> IF i = 0 THEN 0 ELSE 10 * g[i - 1] + DigitOf[t[i]]]
    BY <2>2
  <2> QED BY <2>3 DEF IsTable
<1>2. ASSUME NEW g, IsTable(g, t)  PROVE g[Len(t)] = 10 * v + DigitOf[c]
  <2> DEFINE f == [i \in 0..n |-> g[i]]
  <2>1. \A i \in 0..Len(t) : g[i] = IF i = 0 THEN 0 ELSE 10 * g[i - 1] + DigitOf[t[i]]
    BY <1>2, SMT DEF IsTable
  <2>2. ASSUME NEW i \in 0..n PROVE f[i] = IF i = 0 THEN 0 ELSE 10 * f[i - 1] + DigitOf[text[i]]
    BY <1>0, <2>1
  <2>3. IsTable(f, text)  BY <2>2 DEF IsTable
  <2>4. f[n] = v  BY <2>3, Zenon DEF StandsFor
  <2> QED BY <2>1, <2>4, <1>0
<1> QED BY <1>1, <1>2 DEF StandsFor, t
-----------------------------------------------------------------------------
(* Parts of a text, and the cuts that strconv reads it by *)

\* A part of a text has the bytes of the text, moved.
LEMMA PartOf ==
  ASSUME NEW S, NEW text \in Seq(S), NEW a \in 0..Len(text), NEW b \in a..Len(text)
  PROVE  /\ Part(text, a, b) \in Seq(S)
         /\ Len(Part(text, a, b)) = b - a
         /\ \A p \in 1..(b - a) : Part(text, a, b)[p] = text[a + p]
         /\ AllDigits(Part(text, a, b)) <=> \A p \in (a + 1)..b : text[p] \in Digits
<1>1. /\ Part(text, a, b) \in Seq(S)
      /\ Len(Part(text, a, b)) = b - a
      /\ \A p \in 1..(b - a) : Part(text, a, b)[p] = text[a + p]
  BY SMT DEF Part
<1>2. DOMAIN Part(text, a, b) = 1..(b - a)
  BY <1>1
<1>3. ASSUME \A p \in 1..(b - a) : Part(text, a, b)[p] \in Digits, NEW p \in (a + 1)..b
      PROVE text[p] \in Digits
  <2>1. p - a \in 1..(b - a) /\ a + (p - a) = p  OBVIOUS
  <2> QED BY <1>1, <1>3, <2>1
<1>4. ASSUME \A p \in (a + 1)..b : text[p] \in Digits, NEW p \in 1..(b - a)
      PROVE Part(text, a, b)[p] \in Digits
  <2>1. a + p \in (a + 1)..b  OBVIOUS
  <2> QED BY <1>1, <1>4, <2>1
<1> QED BY <1>1, <1>2, <1>3, <1>4 DEF AllDigits

\* The first byte is a sign just when it is read as one.
LEMMA SignOf ==
  ASSUME NEW S, NEW text \in Seq(S), text # <<>>
  PROVE  /\ Part(text, 0, 0) = <<>>
         /\ Part(text, 0, 1) = <<text[1]>>
         /\ \A c : Part(text, 0, 1) = <<c>> <=> text[1] = c
         /\ Part(text, 0, 1) # <<>>
         /\ IsSign(Part(text, 0, 0))
         /\ IsSign(Part(text, 0, 1)) => text[1] \in {"-", "+"}
<1>0. Len(text) >= 1  OBVIOUS
<1>1. Part(text, 0, 0) = <<>>
  BY SMT DEF Part
<1>2. Part(text, 0, 1) = <<text[1]>>
  <2>1. /\ Part(text, 0, 1) \in Seq(S) /\ Len(Part(text, 0, 1)) = 1
        /\ Part(text, 0, 1)[1] = text[1]
    BY <1>0, SMT DEF Part
  <2> QED BY <2>1
<1>3. \A c : <<text[1]>> = <<c>> <=> text[1] = c
  OBVIOUS
<1>4. <<text[1]>> # <<>>
  OBVIOUS
<1>5. IsSign(Part(text, 0, 1)) => text[1] \in {"-", "+"}
  BY <1>2, <1>3, <1>4, Zenon DEF IsSign
<1> QED BY <1>1, <1>2, <1>3, <1>4, <1>5, Zenon DEF IsSign

LEMMA Characters ==
  /\ \A c \in {"-", "+"} : c \notin Digits /\ c # "." /\ c # "e"
  /\ "." \notin Digits /\ "e" \notin Digits
BY DigitFacts, Zenon

\* There is one way to cut digits behind at most a sign: before the digits.
LEMMA OnlyPlainCut ==
  ASSUME NEW text \in Seq(Bytes), text # <<>>, NEW s \in 0..1, s < Len(text),
         IsSign(Part(text, 0, s)), AllDigits(Part(text, s, Len(text))),
         NEW r \in 0..Len(text), NEW i \in 0..Len(text), NEW j \in 0..Len(text),
         NEW k \in 0..Len(text), Cut(text, r, i, j, k)
  PROVE  r = s /\ i = Len(text) /\ j = Len(text) /\ k = Len(text)
<1> DEFINE n == Len(text)
<1>0. n \in Nat /\ n > 0 /\ r \in 0..1 /\ r <= i /\ i <= j /\ j <= k
  BY DEF Cut
<1>1. \A p \in (s + 1)..n : text[p] \in Digits
  <2>1. s \in 0..Len(text) /\ Len(text) \in s..Len(text)  BY <1>0
  <2> QED BY <2>1, PartOf
<1>2. s = 1 => text[1] \in {"-", "+"}
  BY SignOf
<1>3. r = 1 => text[1] \in {"-", "+"}
  BY SignOf, <1>0 DEF Cut
<1>4. \A p \in (r + 1)..i : text[p] \in Digits
  <2>1. AllDigits(Part(text, r, i))  BY DEF Cut
  <2>2. r \in 0..Len(text) /\ i \in r..Len(text)  BY <1>0
  <2> QED BY <2>1, <2>2, PartOf, Zenon
<1>5. i < j => text[i + 1] = "."
  BY DEF Cut
<1>6. j < n => text[j + 1] = "e"
  BY DEF Cut
<1>7. i > r \/ j > i + 1
  BY DEF Cut
<1>8. r = s
  <2>1. CASE s = 0 /\ r = 1
    BY <2>1, <1>0, <1>1, <1>3, Characters
  <2>2. CASE s = 1 /\ r = 0
    <3>1. text[1] \notin Digits /\ text[1] # "."  BY <2>2, <1>2, Characters, Zenon
    <3>2. i = 0  BY <2>2, <3>1, <1>4, <1>0
    <3> QED BY <3>1, <3>2, <2>2, <1>5, <1>7, <1>0
  <2> QED BY <2>1, <2>2, <1>0
<1>9. i = n
  <2> SUFFICES ASSUME i < n PROVE FALSE  BY <1>0
  <2>1. text[i + 1] \in Digits  BY <1>0, <1>1, <1>8
  <2>2. i = j  BY <2>1, <1>5, <1>0, Characters
  <2> QED BY <2>1, <2>2, <1>6, Characters
<1> QED BY <1>8, <1>9, <1>0
-----------------------------------------------------------------------------
\* text is a sign of s bytes and digits, and nothing else.
PlainAt(text, s) ==
  /\ text # <<>> /\ s \in 0..1 /\ s < Len(text)
  /\ IsSign(Part(text, 0, s)) /\ AllDigits(Part(text, s, Len(text)))

\* Such a text has one reading, of those digits, without fraction or exponent.
LEMMA PlainReading ==
  ASSUME NEW text \in Seq(Bytes), NEW s, PlainAt(text, s),
         NEW d, d = Reading(text, s, Len(text), Len(text), Len(text))
  PROVE  /\ IsPlain(d)
         /\ d.sign = Part(text, 0, s)
         /\ d.neg = (s = 1 /\ text[1] = "-")
         /\ d.mantissa = Naturally(Part(text, s, Len(text)))
         /\ d.exp = 0
         /\ Decimals(text) = {d}
<1> DEFINE n == Len(text)
<1>0. n \in Nat /\ n > 0 /\ s \in 0..n /\ n \in s..n
  BY DEF PlainAt
<1>1. /\ Part(text, s, n) \in Seq(Bytes) /\ AllDigits(Part(text, s, n))
  BY <1>0, PartOf DEF PlainAt
<1>2. Part(text, n + 1, n) = <<>>
  BY <1>0, SMT DEF Part
<1>3. Part(text, s, n) \o <<>> = Part(text, s, n)
  BY <1>1, ConcatEmptySeq
<1>4. /\ d.sign = Part(text, 0, s) /\ d.neg = (Part(text, 0, s) = <<"-">>)
      /\ d.dot = (n < n) /\ d.marker = (n < n)
      /\ d.mantissa = Naturally(Part(text, s, n))
      /\ d.exp = Power(text, n, n) - Len(<<>>)
  BY <1>2, <1>3, Zenon DEF Reading
<1>5. d.exp = 0
  <2>1. Power(text, n, n) = 0  BY Zenon DEF Power
  <2>2. Len(<<>>) = 0  OBVIOUS
  <2>3. d.exp = 0 - 0  BY <1>4, <2>1, <2>2, Zenon
  <2> QED BY <2>3
<1>6. IsPlain(d)
  <2>1. ~ (n < n)  BY <1>0
  <2> QED BY <1>4, <2>1, Zenon DEF IsPlain
<1>7. d.neg = (s = 1 /\ text[1] = "-")
  <2>1. CASE s = 0
    <3>1. Part(text, 0, s) = <<>>  BY <2>1, SignOf DEF PlainAt
    <3>2. \A c : <<>> # <<c>>  OBVIOUS
    <3>3. ~ (s = 1)  BY <2>1
    <3> QED BY <3>1, <3>2, <3>3, <1>4, Zenon
  <2>2. CASE s = 1
    <3>1. Part(text, 0, 1) = <<"-">> <=> text[1] = "-"  BY SignOf, Zenon DEF PlainAt
    <3> QED BY <2>2, <3>1, <1>4, Zenon
  <2> QED BY <2>1, <2>2 DEF PlainAt
<1>8. Cut(text, s, n, n, n)
  BY <1>0, SMT DEF Cut, PlainAt
<1>9. Decimals(text) = {d}
  <2> DEFINE ends == 0..n
             Cuts == {y \in ends \X ends \X ends \X ends : Cut(text, y[1], y[2], y[3], y[4])}
  <2>1. Cuts = {<<s, n, n, n>>}
    <3>1. <<s, n, n, n>> \in Cuts  BY <1>8, <1>0
    <3>2. ASSUME NEW y \in Cuts PROVE y = <<s, n, n, n>>
      <4>1. /\ y = <<y[1], y[2], y[3], y[4]>>
            /\ y[1] \in 0..n /\ y[2] \in 0..n /\ y[3] \in 0..n /\ y[4] \in 0..n
            /\ Cut(text, y[1], y[2], y[3], y[4])
        OBVIOUS
      <4>2. y[1] = s /\ y[2] = n /\ y[3] = n /\ y[4] = n
        BY <4>1, OnlyPlainCut, SMT DEF PlainAt
      <4> QED BY <4>1, <4>2, Zenon
    <3> QED BY <3>1, <3>2, Zenon
  <2>2. Decimals(text) = {Reading(text, x[1], x[2], x[3], x[4]) : x \in Cuts}
    BY Zenon DEF Decimals
  <2> HIDE DEF Cuts
  <2>3. Decimals(text) = {Reading(text, s, n, n, n)}
    BY <2>1, <2>2
  <2> QED BY <2>3, Zenon
<1> QED BY <1>4, <1>5, <1>6, <1>7, <1>9, Zenon

\* A plain reading comes from such a text.
LEMMA PlainIsAt ==
  ASSUME NEW text \in Seq(Bytes), NEW d \in Decimals(text), IsPlain(d)
  PROVE  \E s \in 0..1 : PlainAt(text, s) /\ d = Reading(text, s, Len(text), Len(text), Len(text))
<1> DEFINE n == Len(text)  ends == 0..n
<1>1. PICK y \in ends \X ends \X ends \X ends :
        Cut(text, y[1], y[2], y[3], y[4]) /\ d = Reading(text, y[1], y[2], y[3], y[4])
  BY Zenon DEF Decimals
<1>2. PICK s \in ends, i \in ends, j \in ends, k \in ends :
        Cut(text, s, i, j, k) /\ d = Reading(text, s, i, j, k)
  <2>1. y[1] \in ends /\ y[2] \in ends /\ y[3] \in ends /\ y[4] \in ends  OBVIOUS
  <2> QED BY <1>1, <2>1, Zenon
<1>3. ~ (i < j) /\ ~ (j < n)
  BY <1>2, Zenon DEF Reading, IsPlain
<1>4. n \in Nat /\ i = n /\ j = n /\ k = n /\ s \in 0..1 /\ s <= n
  BY <1>2, <1>3 DEF Cut
<1>5. PlainAt(text, s)
  <2>1. s < n  BY <1>2, <1>4 DEF Cut
  <2>2. text # <<>>  BY <2>1, <1>4
  <2> QED BY <1>2, <1>4, <2>1, <2>2 DEF Cut, PlainAt
<1> QED BY <1>2, <1>4, <1>5, Zenon
-----------------------------------------------------------------------------
(* The value of plain digits *)

\* It is what the digits stand for, with the sign.
LEMMA PlainValue ==
  ASSUME NEW text \in Seq(Bytes), NEW s, PlainAt(text, s),
         NEW d, d = Reading(text, s, Len(text), Len(text), Len(text)),
         NEW v \in Nat, StandsFor(Part(text, s, Len(text)), v)
  PROVE  /\ d.mantissa = v /\ Magnitude(d) = v /\ Divisor(d) = 1
         /\ Exactly(d) = IF d.neg THEN -v ELSE v
<1>1. d.mantissa = v /\ d.exp = 0
  <2>1. d.mantissa = Naturally(Part(text, s, Len(text))) /\ d.exp = 0
    BY PlainReading, Zenon
  <2> QED BY <2>1, NaturallyStands, Zenon
<1>2. Magnitude(d) = v /\ Divisor(d) = 1
  BY <1>1 DEF Magnitude, Divisor
<1>3. v \div 1 = v
  OBVIOUS
<1>4. Exactly(d) = (IF d.neg THEN -1 ELSE 1) * v
  BY <1>2, <1>3, Zenon DEF Exactly
<1> QED BY <1>1, <1>2, <1>4

LEMMA MinusZero ==
  ASSUME NEW v \in Nat, v <= 0
  PROVE  -v = 0
OBVIOUS

LEMMA QuotientIsZero ==
  ASSUME NEW a \in Nat, NEW q \in Nat \ {0}
  PROVE  a \div q \in Nat /\ (a \div q = 0 => a < q)
OBVIOUS

LEMMA NegativeIsZero ==
  ASSUME NEW v \in Nat, NEW unit \in Nat \ {0}, NEW q \in Nat \ {0},
         q > 1 => v >= q,
         ((-1) * RoundTo(v * unit, 1, q)) \div unit >= 0
  PROVE  v = 0 /\ ((-1) * RoundTo(v * unit, 1, q)) \div unit = 0
<1> DEFINE n == v * unit
           Q == n \div q
           X == IF 2 * (n - Q * 1 * q) + (Q % 2) > 1 * q THEN Q + 1 ELSE Q
           f == (-1) * (q * X)
<1>1. n \in Nat /\ n >= v
  OBVIOUS
<1>2. Q \in Nat /\ (Q = 0 => n < q)
  BY <1>1, QuotientIsZero
<1>3. 1 * q = q
  OBVIOUS
<1>4. RoundTo(n, 1, q) = q * X
  BY <1>3, Zenon DEF RoundTo
<1> HIDE DEF n
<1>5. X \in Nat /\ X >= Q
  BY <1>2, <1>1
<1> HIDE DEF Q, X
<1>6. q * X \in Nat /\ (X > 0 => q * X > 0)
  BY <1>5
<1>7. f \div unit >= 0
  BY <1>4 DEF n
<1>8. f >= 0
  BY <1>6, <1>7
<1>9. X = 0
  BY <1>5, <1>6, <1>8
<1>10. Q = 0 /\ n < q
  BY <1>9, <1>5, <1>2
<1>11. v = 0
  BY <1>1, <1>10
<1>12. f \div unit = 0
  BY <1>9
<1> QED BY <1>4, <1>11, <1>12 DEF n

Kinds == {"int64", "uint64", "int32", "uint32"}

\* The conversion of plain digits takes the branch of strconv.ParseInt, or, for
\* an unsigned field, accepts -0 alone through strconv.ParseFloat.
LEMMA ConvertIsExact ==
  ASSUME WidthAssumption, kind \in Kinds,
         NEW text \in Seq(Bytes), NEW s, PlainAt(text, s), s = 1 => text[1] = "-",
         NEW d, d = Reading(text, s, Len(text), Len(text), Len(text)),
         NEW v \in Nat, StandsFor(Part(text, s, Len(text)), v),
         Convert(text).ok
  PROVE  Exactly(d) = Convert(text).value /\ InRange(Exactly(d))
<1> DEFINE f == CHOOSE x \in Floats(d) : TRUE
           plain == Signed \/ d.sign = <<>>
           c == IF plain
                THEN IF Wide(Exactly(d)) THEN Narrowed(Exactly(d)) ELSE Failed
                ELSE IF Floats(d) # {} /\ f % Unit = 0 /\ Wide(f \div Unit)
                     THEN Narrowed(f \div Unit) ELSE Failed
<1>1. Convert(text) = c
  <2>1. Decimals(text) = {d} /\ IsPlain(d)
    BY PlainReading
  <2>2. (CHOOSE x \in Decimals(text) : TRUE) = d /\ Decimals(text) # {}
    BY <2>1, Zenon
  <2> QED BY <2>1, <2>2, Zenon DEF Convert
<1>2. ~ Failed.ok
  BY DEF Failed
<1>3. \A w : Narrowed(w).ok => Narrowed(w).value = w /\ InRange(w)
  BY <1>2, Zenon DEF Narrowed, Read
<1>4. CASE plain
  <2>1. Wide(Exactly(d)) /\ Convert(text) = Narrowed(Exactly(d))
    BY <1>1, <1>2, <1>4, Zenon
  <2> QED BY <2>1, <1>3, Zenon
<1>5. CASE ~ plain
  <2>1. /\ Floats(d) # {} /\ f % Unit = 0 /\ Wide(f \div Unit)
        /\ Convert(text) = Narrowed(f \div Unit)
    BY <1>1, <1>2, <1>5, Zenon
  <2>2. f \div Unit = Convert(text).value /\ InRange(f \div Unit)
    BY <2>1, <1>3, Zenon
  <2>3. d.neg
    <3>1. s = 1
      <4>1. d.sign = Part(text, 0, s)  BY PlainReading, Zenon
      <4>2. Part(text, 0, 0) = <<>>  BY SignOf DEF PlainAt
      <4>3. s # 0  BY <4>1, <4>2, <1>5, Zenon
      <4> QED BY <4>3 DEF PlainAt
    <3> QED BY <3>1, PlainReading, Zenon
  <2>4. /\ d.mantissa = v /\ Magnitude(d) = v /\ Divisor(d) = 1
        /\ Exactly(d) = -v /\ v \div 1 = v
    <3>1. /\ d.mantissa = v /\ Magnitude(d) = v /\ Divisor(d) = 1
          /\ Exactly(d) = IF d.neg THEN -v ELSE v
      BY PlainValue, Zenon
    <3>2. v \div 1 = v  OBVIOUS
    <3> QED BY <3>1, <3>2, <2>3, Zenon
  <2>5. PICK q \in Quanta : (q > 1 => v >= q) /\ f = (-1) * RoundTo(v * Unit, 1, q)
    <3>1. f \in Floats(d)  BY <2>1, Zenon
    <3> HIDE DEF f
    <3>2. PICK q \in Quanta :
            /\ q > 1 => Magnitude(d) \div Divisor(d) >= q
            /\ f = (IF d.neg THEN -1 ELSE 1) * RoundTo(Magnitude(d) * Unit, Divisor(d), q)
      BY <3>1, Zenon DEF Floats
    <3>3. q > 1 => v >= q
      BY <3>2, <2>4, Zenon
    <3>4. (IF d.neg THEN -1 ELSE 1) = -1
      BY <2>3, Zenon
    <3>5. f = (-1) * RoundTo(v * Unit, 1, q)
      BY <3>2, <3>4, <2>4, Zenon
    <3> QED BY <3>3, <3>5, Zenon
  <2>6. f \div Unit >= 0
    BY <2>1, <1>5, Zenon DEF Wide
  <2>7. Unit \in Nat \ {0} /\ q \in Nat \ {0}
    BY <2>5 DEF WidthAssumption
  <2>8. v = 0 /\ f \div Unit = 0
    BY <2>5, <2>6, <2>7, NegativeIsZero, Zenon
  <2>9. Exactly(d) = 0
    <3>1. v <= 0  BY <2>8
    <3> QED BY <3>1, MinusZero, <2>4, Zenon
  <2> QED BY <2>2, <2>8, <2>9, Zenon
<1> QED BY <1>4, <1>5
-----------------------------------------------------------------------------
(* The values of the parts of a text that was looked at *)

\* Every part of digits that ends behind n bytes has a value.
Sums(text, n) ==
  \A a \in 0..n : AllDigits(Part(text, a, n)) => \E v \in Nat : StandsFor(Part(text, a, n), v)

\* A part of a part, a part of a prefix, a part of a longer text, and a part with
\* one byte more.
LEMMA PartOfPart ==
  ASSUME NEW S, NEW text \in Seq(S), NEW a \in 0..Len(text), NEW b \in a..Len(text),
         NEW m \in 0..(b - a), NEW n \in m..(b - a)
  PROVE  Part(Part(text, a, b), m, n) = Part(text, a + m, a + n)
<1>1. a + m \in 0..Len(text) /\ a + n \in (a + m)..Len(text) /\ (a + n) - (a + m) = n - m
  OBVIOUS
<1> DEFINE t == Part(text, a, b)  x == Part(t, m, n)  y == Part(text, a + m, a + n)
<1>2. t \in Seq(S) /\ Len(t) = b - a /\ \A p \in 1..(b - a) : t[p] = text[a + p]
  BY PartOf
<1>3. y \in Seq(S) /\ Len(y) = n - m /\ \A p \in 1..(n - m) : y[p] = text[(a + m) + p]
  <2>1. /\ y \in Seq(S) /\ Len(y) = (a + n) - (a + m)
        /\ \A p \in 1..((a + n) - (a + m)) : y[p] = text[(a + m) + p]
    BY <1>1, PartOf, Zenon
  <2> QED BY <1>1, <2>1, Zenon
<1> HIDE DEF t, y
<1>4. x \in Seq(S) /\ Len(x) = n - m /\ \A p \in 1..(n - m) : x[p] = t[m + p]
  <2>1. m \in 0..Len(t) /\ n \in m..Len(t)  BY <1>2
  <2> QED BY <1>2, <2>1, PartOf, ZenonT(30)
<1> HIDE DEF x
<1>5. ASSUME NEW p \in 1..(n - m) PROVE x[p] = y[p]
  <2>1. m + p \in 1..(b - a) /\ a + (m + p) = (a + m) + p  OBVIOUS
  <2> QED BY <2>1, <1>2, <1>3, <1>4
<1>6. x = y
  BY <1>3, <1>4, <1>5, SeqEqual
<1> QED BY <1>6 DEF x, y, t

LEMMA PrefixPart ==
  ASSUME NEW S, NEW text \in Seq(S), NEW b \in 0..Len(text), NEW m \in 0..b
  PROVE  Part(Part(text, 0, b), m, b) = Part(text, m, b)
<1>1. /\ 0 \in 0..Len(text) /\ b \in 0..Len(text) /\ m \in 0..(b - 0) /\ b \in m..(b - 0)
      /\ 0 + m = m /\ 0 + b = b
  OBVIOUS
<1> QED BY <1>1, PartOfPart

LEMMA PartOfAppend ==
  ASSUME NEW S, NEW text \in Seq(S), NEW c \in S, NEW a \in 0..Len(text), NEW b \in a..Len(text)
  PROVE  /\ Part(Append(text, c), a, b) = Part(text, a, b)
         /\ Append(text, c) \in Seq(S) /\ Len(Append(text, c)) = Len(text) + 1
         /\ \A p \in 1..Len(text) : Append(text, c)[p] = text[p]
<1> DEFINE t == Append(text, c)  x == Part(t, a, b)  y == Part(text, a, b)
<1>1. t \in Seq(S) /\ Len(t) = Len(text) + 1 /\ \A p \in 1..Len(text) : t[p] = text[p]
  OBVIOUS
<1> HIDE DEF t
<1>2. y \in Seq(S) /\ Len(y) = b - a /\ \A p \in 1..(b - a) : y[p] = text[a + p]
  BY PartOf
<1>3. x \in Seq(S) /\ Len(x) = b - a /\ \A p \in 1..(b - a) : x[p] = t[a + p]
  <2>1. a \in 0..Len(t) /\ b \in a..Len(t)  BY <1>1
  <2> QED BY <1>1, <2>1, PartOf, ZenonT(30)
<1> HIDE DEF x, y
<1>4. ASSUME NEW p \in 1..(b - a) PROVE x[p] = y[p]
  <2>1. a + p \in 1..Len(text)  OBVIOUS
  <2> QED BY <2>1, <1>1, <1>2, <1>3
<1>5. x = y
  BY <1>2, <1>3, <1>4, SeqEqual
<1> QED BY <1>1, <1>5 DEF x, y, t

LEMMA PartGrows ==
  ASSUME NEW S, NEW text \in Seq(S), NEW n \in 0..Len(text), n < Len(text), NEW a \in 0..n
  PROVE  /\ Part(text, a, n) \in Seq(S) /\ text[n + 1] \in S
         /\ Part(text, a, n + 1) = Append(Part(text, a, n), text[n + 1])
         /\ AllDigits(Part(text, a, n + 1)) <=> AllDigits(Part(text, a, n)) /\ text[n + 1] \in Digits
<1> DEFINE x == Part(text, a, n + 1)  y == Part(text, a, n)  c == text[n + 1]
<1>0. /\ a \in 0..Len(text) /\ n \in a..Len(text) /\ n \in 0..Len(text) /\ n + 1 \in a..Len(text)
      /\ (n + 1) - a = (n - a) + 1 /\ n + 1 \in (a + 1)..(n + 1)
      /\ (a + 1)..(n + 1) = ((a + 1)..n) \cup {n + 1} /\ c \in S
  OBVIOUS
<1>1. /\ y \in Seq(S) /\ Len(y) = n - a /\ \A p \in 1..(n - a) : y[p] = text[a + p]
      /\ AllDigits(y) <=> \A p \in (a + 1)..n : text[p] \in Digits
  BY <1>0, PartOf, ZenonT(30)
<1>2. /\ x \in Seq(S) /\ Len(x) = (n - a) + 1 /\ \A p \in 1..((n - a) + 1) : x[p] = text[a + p]
      /\ AllDigits(x) <=> \A p \in (a + 1)..(n + 1) : text[p] \in Digits
  <2>1. /\ x \in Seq(S) /\ Len(x) = (n + 1) - a /\ \A p \in 1..((n + 1) - a) : x[p] = text[a + p]
        /\ AllDigits(x) <=> \A p \in (a + 1)..(n + 1) : text[p] \in Digits
    BY <1>0, PartOf, ZenonT(30)
  <2> QED BY <1>0, <2>1, Zenon
<1>3. x = Append(y, c)
  <2> DEFINE z == Append(y, c)
  <2> HIDE DEF x, y, c
  <2>1. z \in Seq(S) /\ Len(z) = (n - a) + 1 /\ z[(n - a) + 1] = c /\ \A p \in 1..(n - a) : z[p] = y[p]
    BY <1>0, <1>1
  <2>2. a + ((n - a) + 1) = n + 1  OBVIOUS
  <2> HIDE DEF z
  <2>3. ASSUME NEW p \in 1..((n - a) + 1) PROVE x[p] = z[p]
    <3>1. CASE p = (n - a) + 1  BY <3>1, <2>1, <2>2, <1>2 DEF c
    <3>2. CASE p \in 1..(n - a)  BY <3>2, <2>1, <1>1, <1>2
    <3> QED BY <3>1, <3>2, <1>0
  <2>4. x = z  BY <1>2, <2>1, <2>3, SeqEqual
  <2> QED BY <2>4 DEF z
<1>4. AllDigits(x) <=> AllDigits(y) /\ c \in Digits
  BY <1>0, <1>1, <1>2, Zenon
<1> QED BY <1>0, <1>1, <1>3, <1>4, Zenon

LEMMA EmptyPart ==
  ASSUME NEW S, NEW text \in Seq(S), NEW n \in 0..Len(text)
  PROVE  Part(text, n, n) = <<>>
BY SMT DEF Part

\* There is such a value at the start, behind one byte more, and in a part.
LEMMA SumsStart ==
  ASSUME NEW text \in Seq(Bytes)  PROVE  Sums(text, 0)
<1>1. Part(text, 0, 0) = <<>>  BY EmptyPart
<1>2. 0..0 = {0} /\ 0 \in Nat  OBVIOUS
<1> QED BY <1>1, <1>2, EmptyStands, Zenon DEF Sums

LEMMA SumsAdvance ==
  ASSUME NEW text \in Seq(Bytes), NEW n \in 0..Len(text), n < Len(text), Sums(text, n)
  PROVE  Sums(text, n + 1)
<1> SUFFICES ASSUME NEW a \in 0..(n + 1), AllDigits(Part(text, a, n + 1))
             PROVE  \E v \in Nat : StandsFor(Part(text, a, n + 1), v)
  BY Zenon DEF Sums
<1>1. CASE a = n + 1
  <2>1. n + 1 \in 0..Len(text) /\ 0 \in Nat  OBVIOUS
  <2>2. Part(text, a, n + 1) = <<>>  BY <1>1, <2>1, EmptyPart
  <2> QED BY <2>1, <2>2, EmptyStands, Zenon
<1>2. CASE a \in 0..n
  <2>1. /\ Part(text, a, n) \in Seq(Bytes) /\ text[n + 1] \in Bytes
        /\ Part(text, a, n + 1) = Append(Part(text, a, n), text[n + 1])
        /\ AllDigits(Part(text, a, n)) /\ text[n + 1] \in Digits
    BY <1>2, PartGrows
  <2>2. PICK v \in Nat : StandsFor(Part(text, a, n), v)
    BY <1>2, <2>1, Zenon DEF Sums
  <2>3. StandsFor(Part(text, a, n + 1), 10 * v + DigitOf[text[n + 1]])
    BY <2>1, <2>2, AppendStands, Zenon
  <2>4. 10 * v + DigitOf[text[n + 1]] \in Nat
    <3>1. DigitOf[text[n + 1]] \in 0..9  BY <2>1, DigitFacts, Zenon
    <3> QED BY <3>1
  <2> QED BY <2>3, <2>4, Zenon
<1> QED BY <1>1, <1>2

LEMMA SumsOfPart ==
  ASSUME NEW text \in Seq(Bytes), NEW a \in 0..Len(text), NEW b \in a..Len(text), Sums(text, b)
  PROVE  /\ Part(text, a, b) \in Seq(Bytes) /\ Len(Part(text, a, b)) = b - a
         /\ Sums(Part(text, a, b), Len(Part(text, a, b)))
<1> DEFINE t == Part(text, a, b)
<1>1. t \in Seq(Bytes) /\ Len(t) = b - a
  BY PartOf
<1>2. ASSUME NEW m \in 0..(b - a), AllDigits(Part(t, m, b - a))
      PROVE  \E v \in Nat : StandsFor(Part(t, m, b - a), v)
  <2>1. /\ b - a \in m..(b - a) /\ a + (b - a) = b /\ a + m \in 0..b
    OBVIOUS
  <2>2. Part(t, m, b - a) = Part(text, a + m, b)
    BY <2>1, PartOfPart
  <2> QED BY <1>2, <2>1, <2>2, Zenon DEF Sums
<1> QED BY <1>1, <1>2, Zenon DEF Sums
-----------------------------------------------------------------------------
(* The invariant of the value *)

\* Types, also of what Reveal adds to the input.
TypeOK ==
  /\ kind \in Kinds /\ data \in Seq(Bytes) /\ closed \in BOOLEAN
  /\ off \in 0..Len(data) /\ neg \in BOOLEAN /\ u \in Nat
  /\ phase \in {"begin", "simple", "digits", "number", "string", "done"}
\* What the phases know of the input: where they are in it and what it began with.
SignLength == IF neg THEN 1 ELSE 0
Opened ==
  /\ phase = "begin" => off = 0 /\ ~ neg /\ u = 0
  /\ phase = "string" => Quoted /\ off >= 1
  /\ phase = "number" => ~ Quoted /\ (data = <<>> => closed)
  /\ phase \in {"simple", "digits"} =>
       /\ data # <<>> /\ ~ Quoted
       /\ off >= SignLength
       /\ neg => data[1] = "-"
  /\ phase = "simple" => off = SignLength /\ u = 0
\* The accumulator is the value of the digits that were consumed.
Accumulated ==
  phase = "digits" =>
    /\ AllDigits(Part(data, SignLength, off))
    /\ StandsFor(Part(data, SignLength, off), u)
\* What was consumed has values, for the conversion that may follow.
Readable == phase # "done" => Sums(data, off)
IInv == TypeOK /\ Opened /\ Accumulated /\ Readable /\ PlainIsExact

\* What the conversion accepts is the value of the text's plain reading.
LEMMA ReadingIsExact ==
  ASSUME WidthAssumption, kind \in Kinds,
         NEW text \in Seq(Bytes), Sums(text, Len(text)), Convert(text).ok,
         NEW d \in Numbers(text), IsPlain(d)
  PROVE  Exactly(d) = Convert(text).value /\ InRange(Exactly(d))
<1>1. d \in Decimals(text) /\ d.sign # <<"+">>
  BY Zenon DEF Numbers
<1>2. PICK s \in 0..1 : PlainAt(text, s) /\ d = Reading(text, s, Len(text), Len(text), Len(text))
  BY <1>1, PlainIsAt, Zenon
<1>3. s = 1 => text[1] = "-"
  <2>1. d.sign = Part(text, 0, s)
    BY <1>2, PlainReading, Zenon
  <2>2. /\ \A c : Part(text, 0, 1) = <<c>> <=> text[1] = c
        /\ IsSign(Part(text, 0, 1)) => text[1] \in {"-", "+"}
    BY <1>2, SignOf, Zenon DEF PlainAt
  <2> QED BY <1>1, <1>2, <2>1, <2>2, Zenon DEF PlainAt
<1>4. PICK v \in Nat : StandsFor(Part(text, s, Len(text)), v)
  <2>1. s \in 0..Len(text)  BY <1>2 DEF PlainAt
  <2> QED BY <1>2, <2>1, Zenon DEF Sums, PlainAt
<1> QED BY <1>2, <1>3, <1>4, ConvertIsExact, Zenon

\* So is what the accumulator holds, with its sign.
LEMMA FastIsExact ==
  ASSUME NEW text \in Seq(Bytes), NEW sign \in BOOLEAN, NEW P, P = IF sign THEN 1 ELSE 0,
         P <= Len(text), sign => text[1] = "-",
         AllDigits(Part(text, P, Len(text))), NEW v \in Nat, StandsFor(Part(text, P, Len(text)), v),
         NEW d \in Decimals(text), IsPlain(d)
  PROVE  Exactly(d) = IF sign THEN -v ELSE v
<1>1. PICK s \in 0..1 : PlainAt(text, s) /\ d = Reading(text, s, Len(text), Len(text), Len(text))
  BY PlainIsAt, Zenon
<1>2. Len(text) \in Nat /\ text # <<>> /\ s < Len(text) /\ P \in 0..1
  BY <1>1 DEF PlainAt
<1>3. s = 0 => text[1] \in Digits
  <2>1. s = 0 => \A p \in 1..Len(text) : text[p] \in Digits
    <3>1. CASE s = 0
      <4>1. 0 \in 0..Len(text) /\ Len(text) \in 0..Len(text) /\ 0 + 1 = 1  BY <1>2
      <4>2. AllDigits(Part(text, 0, Len(text)))  BY <3>1, <1>1, Zenon DEF PlainAt
      <4> QED BY <4>1, <4>2, PartOf, Zenon
    <3> QED BY <3>1
  <2>2. 1 \in 1..Len(text)  BY <1>2
  <2> QED BY <2>1, <2>2, Zenon
<1>4. s = 1 => text[1] \in {"-", "+"}
  BY <1>1, SignOf, Zenon DEF PlainAt
<1>5. ~ sign => text[1] \in Digits
  <2>1. CASE ~ sign
    <3>1. P = 0  BY <2>1, Zenon
    <3>2. 0 \in 0..Len(text) /\ Len(text) \in 0..Len(text) /\ 0 + 1 = 1 /\ 1 \in 1..Len(text)
      BY <1>2
    <3> QED BY <3>1, <3>2, PartOf, Zenon
  <2> QED BY <2>1
<1>6. s = P
  <2>1. CASE s = 0
    <3>1. ~ sign  BY <2>1, <1>3, DigitFacts, Zenon
    <3> QED BY <2>1, <3>1, Zenon
  <2>2. CASE s = 1
    <3>1. sign  BY <2>2, <1>4, <1>5, DigitFacts, Zenon
    <3> QED BY <2>2, <3>1, Zenon
  <2> QED BY <2>1, <2>2
<1>7. Exactly(d) = IF d.neg THEN -v ELSE v
  <2>1. StandsFor(Part(text, s, Len(text)), v)  BY <1>6, Zenon
  <2> QED BY <1>1, <2>1, PlainValue, Zenon
<1>8. d.neg = (s = 1 /\ text[1] = "-")
  BY <1>1, PlainReading, Zenon
<1>9. d.neg = sign
  <2>1. CASE sign
    <3>1. s = 1  BY <2>1, <1>6, Zenon
    <3> QED BY <2>1, <3>1, <1>8, Zenon
  <2>2. CASE ~ sign
    <3>1. text[1] # "-"  BY <2>2, <1>5, DigitFacts, Zenon
    <3> QED BY <2>2, <3>1, <1>8, Zenon
  <2> QED BY <2>1, <2>2
<1> QED BY <1>7, <1>9, Zenon
-----------------------------------------------------------------------------
(* No step breaks it *)
LEMMA InitIsFine ==
  Init => IInv
<1> SUFFICES ASSUME Init PROVE IInv
  OBVIOUS
<1>1. TypeOK
  <2>1. <<>> \in Seq(Bytes) /\ 0 \in 0..Len(<<>>) /\ 0 \in Nat  OBVIOUS
  <2> QED BY <2>1, Zenon DEF Init, TypeOK, Kinds
<1>2. Opened /\ Accumulated /\ PlainIsExact
  BY DEF Init, Opened, Accumulated, PlainIsExact
<1>3. Readable
  <2>1. data \in Seq(Bytes) /\ off = 0  BY <1>1 DEF Init, TypeOK
  <2> QED BY <2>1, SumsStart, Zenon DEF Readable
<1> QED BY <1>1, <1>2, <1>3 DEF IInv

LEMMA FinishIsExact ==
  ASSUME NEW text, NEW r, result' = r, kind' = kind, Consumed' = text,
         r.ok => \A d \in Numbers(text) :
                   IsPlain(d) => Exactly(d) = r.value /\ InRange(Exactly(d))
  PROVE  PlainIsExact'
<1>1. Low' = Low /\ High' = High
  BY DEF Low, High
<1>2. \A v : InRange(v)' <=> InRange(v)
  BY <1>1, Zenon DEF InRange
<1> QED BY <1>2, Zenon DEF PlainIsExact

LEMMA ReadableAdvances ==
  ASSUME TypeOK, Readable, phase # "done", data' = data,
         \/ off' = off
         \/ off' = off + 1 /\ off < Len(data)
         \/ off' = 0
  PROVE  Readable'
<1>1. data \in Seq(Bytes) /\ off \in 0..Len(data) /\ Sums(data, off)
  BY Zenon DEF TypeOK, Readable
<1>2. Sums(data, off')
  <2>1. CASE off' = off  BY <2>1, <1>1, Zenon
  <2>2. CASE off' = off + 1 /\ off < Len(data)  BY <2>2, <1>1, SumsAdvance, Zenon
  <2>3. CASE off' = 0  BY <2>3, <1>1, SumsStart, Zenon
  <2> QED BY <2>1, <2>2, <2>3
<1> QED BY <1>2, Zenon DEF Readable

LEMMA RevealKeeps ==
  ASSUME IInv, Reveal
  PROVE  IInv'
<1>0. /\ TypeOK /\ Opened /\ Accumulated /\ Readable
      /\ data \in Seq(Bytes) /\ off \in 0..Len(data)
  BY Zenon DEF IInv, TypeOK
<1>1. /\ phase' = phase /\ phase # "done" /\ kind' = kind /\ off' = off /\ neg' = neg
      /\ u' = u /\ ~ closed
  BY Zenon DEF Reveal
<1>2. PlainIsExact'
  BY <1>1, Zenon DEF PlainIsExact
<1>3. CASE data' = data /\ closed' = TRUE
  <2>1. TypeOK'
    BY <1>0, <1>1, <1>3, Zenon DEF TypeOK
  <2>2. Opened'
    BY <1>0, <1>1, <1>3, Zenon DEF Opened, Quoted, SignLength
  <2>3. Accumulated' /\ Readable'
    BY <1>0, <1>1, <1>3, Zenon DEF Accumulated, Readable, SignLength
  <2> QED BY <1>2, <2>1, <2>2, <2>3, Zenon DEF IInv
<1>4. ASSUME NEW c \in Bytes, data' = Append(data, c), closed' = closed
      PROVE  IInv'
  <2>1. /\ data' \in Seq(Bytes) /\ Len(data') = Len(data) + 1
        /\ \A p \in 1..Len(data) : data'[p] = data[p]
    BY <1>0, <1>4
  <2>2. ASSUME NEW a \in 0..off PROVE Part(data', a, off) = Part(data, a, off)
    <3>1. a \in 0..Len(data) /\ off \in a..Len(data)  BY <1>0
    <3> QED BY <1>0, <1>4, <3>1, PartOfAppend, ZenonT(30)
  <2>3. TypeOK'
    <3>1. off \in 0..Len(data')  BY <1>0, <2>1
    <3> QED BY <1>0, <1>1, <1>4, <2>1, <3>1, Zenon DEF TypeOK
  <2>4. Opened'
    <3>1. data # <<>> => data' # <<>> /\ data'[1] = data[1]
      BY <1>0, <2>1
    <3>2. phase = "number" => data # <<>>
      BY <1>0, <1>1, Zenon DEF Opened
    <3> QED BY <1>0, <1>1, <3>1, <3>2, Zenon DEF Opened, Quoted, SignLength
  <2>5. Accumulated'
    <3>1. phase = "digits" => SignLength \in 0..off
      BY <1>0 DEF Opened, SignLength
    <3>2. SignLength' = SignLength
      BY <1>1, Zenon DEF SignLength
    <3> QED BY <1>0, <1>1, <2>2, <3>1, <3>2, Zenon DEF Accumulated
  <2>6. Readable'
    BY <1>0, <1>1, <2>2, Zenon DEF Readable, Sums
  <2> QED BY <1>2, <2>3, <2>4, <2>5, <2>6, Zenon DEF IInv
<1> QED BY <1>3, <1>4, Zenon DEF Reveal

LEMMA BeginKeeps ==
  ASSUME IInv, Begin
  PROVE  IInv'
<1>0. /\ TypeOK /\ Opened /\ Readable /\ data \in Seq(Bytes) /\ off = 0 /\ ~ neg /\ u = 0
      /\ phase = "begin" /\ (AtEnd <=> Len(data) = 0) /\ (AtEnd => closed)
      /\ Len(data) \in Nat /\ (Len(data) = 0 <=> data = <<>>)
  BY DEF IInv, TypeOK, Opened, Begin, Known, AtEnd
<1>1. /\ kind' = kind /\ data' = data /\ closed' = closed /\ u' = u
      /\ neg' = (HereIn({"-"}) /\ Signed)
      /\ phase' = CASE HereIn({Quote}) -> "string" [] AtEnd -> "number" [] OTHER -> "simple"
      /\ off' = IF (HereIn({"-"}) /\ Signed) \/ HereIn({Quote}) THEN 1 ELSE 0
  BY <1>0, SMT DEF Begin, Goto
<1>2. \A c : HereIn({c}) <=> data # <<>> /\ data[1] = c
  BY <1>0 DEF HereIn, Here
<1>3. phase' # "done" /\ phase' # "digits" /\ phase' # "begin"
  BY <1>1, Zenon
<1>4. TypeOK'
  <2>1. off' \in 0..Len(data)
    <3>1. data # <<>> => 1 \in 0..Len(data)  BY <1>0
    <3>2. 0 \in 0..Len(data)  BY <1>0
    <3> QED BY <1>1, <1>2, <3>1, <3>2, Zenon
  <2>2. phase' \in {"string", "number", "simple"} /\ neg' \in BOOLEAN
    BY <1>1, Zenon
  <2> QED BY <1>0, <1>1, <2>1, <2>2, Zenon DEF TypeOK
<1>5. Opened'
  <2>1. CASE HereIn({Quote})
    <3>2. data # <<>> /\ data[1] = Quote
      BY <1>2, <2>1, Zenon
    <3>1. phase' = "string" /\ off' = 1
      BY <1>0, <1>1, <2>1, <3>2, Zenon
    <3> QED BY <1>1, <3>1, <3>2 DEF Opened, Quoted
  <2>2. CASE ~ HereIn({Quote}) /\ AtEnd
    <3>1. phase' = "number" /\ data = <<>> /\ closed
      BY <1>0, <1>1, <2>2, Zenon
    <3> QED BY <1>1, <3>1, Zenon DEF Opened, Quoted
  <2>3. CASE ~ HereIn({Quote}) /\ ~ AtEnd
    <3>1. phase' = "simple" /\ data # <<>> /\ data[1] # Quote /\ off' = SignLength'
      BY <1>0, <1>1, <1>2, <2>3, Zenon DEF SignLength
    <3>2. neg' => data[1] = "-"
      BY <1>1, <1>2, Zenon
    <3>3. off' >= SignLength'
      BY <1>1, <3>1
    <3> QED BY <1>0, <1>1, <3>1, <3>2, <3>3, Zenon DEF Opened, Quoted
  <2> QED BY <2>1, <2>2, <2>3
<1>6. Accumulated' /\ PlainIsExact'
  BY <1>3, Zenon DEF Accumulated, PlainIsExact
<1>7. Readable'
  <2>1. \/ off' = 0
        \/ off' = off + 1 /\ off < Len(data)
    <3>1. \/ off' = 0
          \/ off' = 1 /\ data # <<>>
      BY <1>1, <1>2, Zenon
    <3> QED BY <1>0, <3>1
  <2> QED BY <1>0, <1>1, <2>1, ReadableAdvances, Zenon
<1> QED BY <1>4, <1>5, <1>6, <1>7, Zenon DEF IInv

LEMMA SimpleFirstKeeps ==
  ASSUME IInv, SimpleFirst
  PROVE  IInv'
<1>0. /\ TypeOK /\ Opened /\ Readable /\ data \in Seq(Bytes) /\ off \in 0..Len(data)
      /\ phase = "simple" /\ data # <<>> /\ ~ Quoted /\ off >= SignLength
      /\ off = SignLength /\ u = 0 /\ (neg => data[1] = "-")
  BY Zenon DEF IInv, TypeOK, Opened, SimpleFirst
<1>1. /\ kind' = kind /\ data' = data /\ closed' = closed /\ u' = u /\ neg' = neg
      /\ \/ phase' = "digits" /\ off' = off
         \/ phase' = "number" /\ off' = 0
  BY Zenon DEF SimpleFirst, Goto
<1>2. TypeOK'
  <2>1. 0 \in 0..Len(data)  BY <1>0
  <2> QED BY <1>0, <1>1, <2>1, Zenon DEF TypeOK
<1>3. Opened'
  BY <1>0, <1>1, Zenon DEF Opened, Quoted, SignLength
<1>4. PlainIsExact'
  BY <1>1, Zenon DEF PlainIsExact
<1>5. Readable'
  BY <1>0, <1>1, ReadableAdvances, Zenon
<1>6. Accumulated'
  <2>1. Part(data, off, off) = <<>>
    BY <1>0, EmptyPart, Zenon
  <2>2. AllDigits(<<>>)
    BY DEF AllDigits
  <2>3. SignLength' = SignLength
    BY <1>1, Zenon DEF SignLength
  <2> QED BY <1>0, <1>1, <2>1, <2>2, <2>3, EmptyStands, Zenon DEF Accumulated
<1> QED BY <1>2, <1>3, <1>4, <1>5, <1>6, Zenon DEF IInv

LEMMA SimpleDigitKeeps ==
  ASSUME IInv, SimpleDigit
  PROVE  IInv'
<1> USE DEF IInv
<1>0. /\ data \in Seq(Bytes) /\ off \in 0..Len(data) /\ off < Len(data) /\ SignLength \in 0..off
      /\ data[off + 1] \in Digits /\ u \in Nat /\ DigitOf[Here] \in 0..9
  <2>1. /\ data \in Seq(Bytes) /\ off \in 0..Len(data) /\ u \in Nat
        /\ ~ (off >= Len(data)) /\ data[off + 1] \in Digits /\ off >= SignLength
        /\ neg \in BOOLEAN
    BY Zenon DEF TypeOK, Opened, SimpleDigit, HereIn, AtEnd, Here
  <2>2. DigitOf[Here] \in 0..9
    BY <2>1, DigitFacts, Zenon DEF Here
  <2> QED BY <2>1, <2>2 DEF SignLength
<1>1. CASE Finish(Failed) /\ off' = off /\ u' = u
  <2>1. TypeOK' /\ Opened' /\ Accumulated' /\ Readable'
    BY <1>1 DEF TypeOK, Opened, Accumulated, Readable, SimpleDigit, Finish, Quoted, SignLength
  <2>2. PlainIsExact'
    BY <1>1 DEF Finish, Failed, PlainIsExact
  <2> QED BY <2>1, <2>2
<1>2. CASE Goto("digits") /\ off' = off + 1 /\ u' = 10 * u + DigitOf[Here]
  <2>1. TypeOK'
    BY <1>0, <1>2, SMTT(20) DEF TypeOK, SimpleDigit, Goto
  <2>5. Opened'
    BY <1>0, <1>2, SMTT(20) DEF TypeOK, Opened, SimpleDigit, Goto, Quoted, SignLength
  <2>2. PlainIsExact'
    BY <1>2 DEF Goto, PlainIsExact
  <2>3. Readable'
    BY <1>0, <1>2, ReadableAdvances DEF SimpleDigit, Goto
  <2>4. Accumulated'
    <3>1. /\ Part(data, SignLength, off) \in Seq(Bytes) /\ Here \in Bytes
          /\ Part(data, SignLength, off + 1) = Append(Part(data, SignLength, off), Here)
          /\ AllDigits(Part(data, SignLength, off + 1))
      BY <1>0, PartGrows, Zenon DEF Here, SimpleDigit, Accumulated
    <3>2. StandsFor(Part(data, SignLength, off + 1), 10 * u + DigitOf[Here])
      BY <3>1, AppendStands, Zenon DEF SimpleDigit, Accumulated
    <3>3. SignLength' = SignLength
      BY DEF SimpleDigit, SignLength
    <3> QED BY <1>2, <3>1, <3>2, <3>3, Zenon DEF Accumulated, Goto
  <2> QED BY <2>1, <2>5, <2>2, <2>3, <2>4
<1> QED BY <1>1, <1>2, Zenon DEF SimpleDigit

LEMMA SimpleEndKeeps ==
  ASSUME IInv, SimpleEnd
  PROVE  IInv'
<1>0. /\ TypeOK /\ data \in Seq(Bytes) /\ off \in 0..Len(data) /\ neg \in BOOLEAN /\ u \in Nat
      /\ phase = "digits" /\ data # <<>> /\ ~ Quoted /\ off >= SignLength /\ (neg => data[1] = "-")
      /\ AllDigits(Part(data, SignLength, off)) /\ StandsFor(Part(data, SignLength, off), u)
  BY Zenon DEF IInv, TypeOK, Opened, Accumulated, SimpleEnd
<1> DEFINE r == Narrowed(IF neg THEN -u ELSE u)  text == Part(data, 0, off)
<1>1. /\ kind' = kind /\ data' = data /\ closed' = closed /\ u' = u /\ neg' = neg /\ off' = off
      /\ phase' = "done" /\ result' = r
  BY Zenon DEF SimpleEnd, Finish
<1>2. TypeOK' /\ Opened' /\ Accumulated' /\ Readable'
  <2>1. Opened' /\ Accumulated' /\ Readable'
    BY <1>1 DEF Opened, Accumulated, Readable
  <2> QED BY <1>0, <1>1, <2>1, Zenon DEF TypeOK
<1>3. Consumed' = text
  <2>1. Consumed' = SubSeq(data, 1, off)
    BY <1>0, <1>1, Zenon DEF Consumed, Quoted
  <2> QED BY <2>1 DEF Part
<1>4. ASSUME r.ok, NEW d \in Numbers(text), IsPlain(d)
      PROVE  Exactly(d) = r.value /\ InRange(Exactly(d))
  <2>1. r.value = (IF neg THEN -u ELSE u) /\ InRange(IF neg THEN -u ELSE u)
    BY <1>4, Zenon DEF Narrowed, Read, Failed
  <2>2. /\ 0 \in 0..Len(data) /\ off \in 0..Len(data)
        /\ SignLength \in 0..off /\ SignLength <= off
        /\ SignLength = IF neg THEN 1 ELSE 0
    BY <1>0 DEF SignLength
  <2>3. text \in Seq(Bytes) /\ Len(text) = off /\ \A p \in 1..off : text[p] = data[p]
    BY <1>0, SMT DEF Part
  <2>4. Part(text, SignLength, Len(text)) = Part(data, SignLength, off)
    BY <1>0, <2>2, <2>3, PrefixPart, Zenon
  <2>5. neg => text[1] = "-"
    <3>1. neg => 1 \in 1..off  BY <2>2 DEF SignLength
    <3> QED BY <1>0, <2>3, <3>1, Zenon
  <2>6. d \in Decimals(text)
    BY Zenon DEF Numbers
  <2> HIDE DEF text
  <2>7. Exactly(d) = IF neg THEN -u ELSE u
    <3>1. /\ SignLength <= Len(text)
          /\ AllDigits(Part(text, SignLength, Len(text)))
          /\ StandsFor(Part(text, SignLength, Len(text)), u)
      BY <1>0, <2>2, <2>3, <2>4, Zenon
    <3> QED BY <1>0, <1>4, <2>2, <2>3, <2>5, <2>6, <3>1, FastIsExact, ZenonT(30)
  <2> QED BY <2>1, <2>7, Zenon
<1>5. PlainIsExact'
  <2> HIDE DEF r, text
  <2> QED BY <1>1, <1>3, <1>4, FinishIsExact, Zenon
<1> QED BY <1>2, <1>5, Zenon DEF IInv

LEMMA SimpleGiveUpKeeps ==
  ASSUME IInv, SimpleGiveUp
  PROVE  IInv'
<1>0. /\ TypeOK /\ Readable /\ data \in Seq(Bytes) /\ off \in 0..Len(data)
      /\ phase = "digits" /\ data # <<>> /\ ~ Quoted
  BY Zenon DEF IInv, TypeOK, Opened, SimpleGiveUp
<1>1. /\ kind' = kind /\ data' = data /\ closed' = closed /\ u' = u /\ neg' = neg
      /\ phase' = "number" /\ off' = 0
  BY Zenon DEF SimpleGiveUp, Goto
<1>2. TypeOK'
  <2>1. 0 \in 0..Len(data)  BY <1>0
  <2> QED BY <1>0, <1>1, <2>1, Zenon DEF TypeOK
<1>3. Opened' /\ Accumulated' /\ PlainIsExact'
  BY <1>0, <1>1, Zenon DEF Opened, Accumulated, PlainIsExact, Quoted
<1>4. Readable'
  BY <1>0, <1>1, ReadableAdvances, Zenon
<1> QED BY <1>2, <1>3, <1>4, Zenon DEF IInv

LEMMA NumberFinishes ==
  ASSUME WidthAssumption, IInv, phase = "number", off' = off, data' = data, kind' = kind,
         \/ result' = Failed
         \/ result' = Convert(SubSeq(data, 1, off))
  PROVE  PlainIsExact'
<1> DEFINE text == Part(data, 0, off)
<1>1. /\ data \in Seq(Bytes) /\ off \in 0..Len(data) /\ kind \in Kinds /\ Sums(data, off)
      /\ ~ Quoted
  BY Zenon DEF IInv, TypeOK, Opened, Readable
<1>2. Consumed' = SubSeq(data, 1, off) /\ SubSeq(data, 1, off) = text
  <2>1. Consumed' = SubSeq(data, 1, off)
    BY <1>1, Zenon DEF Consumed, Quoted
  <2> QED BY <2>1 DEF Part
<1>3. text \in Seq(Bytes) /\ Sums(text, Len(text))
  <2>1. 0 \in 0..Len(data) /\ off \in 0..Len(data)  BY <1>1
  <2> QED BY <1>1, <2>1, SumsOfPart, Zenon
<1> HIDE DEF text
<1>4. ASSUME Convert(text).ok, NEW d \in Numbers(text), IsPlain(d)
      PROVE  Exactly(d) = Convert(text).value /\ InRange(Exactly(d))
  BY <1>1, <1>3, <1>4, ReadingIsExact, Zenon
<1>5. ~ Failed.ok
  BY DEF Failed
<1> QED BY <1>2, <1>4, <1>5, FinishIsExact, Zenon

LEMMA ScanByteKeeps ==
  ASSUME WidthAssumption, IInv, ScanByte
  PROVE  IInv'
<1>0. /\ TypeOK /\ Opened /\ Readable /\ data \in Seq(Bytes) /\ off \in 0..Len(data)
      /\ phase = "number" /\ ~ (off >= Len(data))
  BY Zenon DEF IInv, TypeOK, ScanByte, AtEnd
<1>1. /\ kind' = kind /\ data' = data /\ closed' = closed /\ u' = u /\ neg' = neg
      /\ \/ /\ phase' = "done" /\ off' = off
            /\ result' = Failed \/ result' = Convert(SubSeq(data, 1, off))
         \/ phase' = "number" /\ off' = off + 1
  BY Zenon DEF ScanByte, Goto, Finish
<1>2. TypeOK'
  <2>1. off + 1 \in 0..Len(data)  BY <1>0
  <2> QED BY <1>0, <1>1, <2>1, Zenon DEF TypeOK
<1>3. Opened' /\ Accumulated'
  BY <1>0, <1>1, Zenon DEF Opened, Accumulated, Quoted
<1>4. Readable'
  <2>1. off < Len(data)  BY <1>0
  <2> QED BY <1>0, <1>1, <2>1, ReadableAdvances, Zenon
<1>5. PlainIsExact'
  <2>1. CASE phase' = "number"  BY <2>1, Zenon DEF PlainIsExact
  <2> QED BY <1>0, <1>1, <2>1, NumberFinishes, Zenon
<1> QED BY <1>2, <1>3, <1>4, <1>5, Zenon DEF IInv

LEMMA ScanEndKeeps ==
  ASSUME WidthAssumption, IInv, ScanEnd
  PROVE  IInv'
<1>0. TypeOK /\ phase = "number"
  BY Zenon DEF IInv, ScanEnd
<1>1. /\ kind' = kind /\ data' = data /\ closed' = closed /\ u' = u /\ neg' = neg /\ off' = off
      /\ phase' = "done" /\ (result' = Failed \/ result' = Convert(SubSeq(data, 1, off)))
  BY Zenon DEF ScanEnd, Finish
<1>2. TypeOK'
  BY <1>0, <1>1, Zenon DEF TypeOK
<1>3. Opened' /\ Accumulated' /\ Readable'
  BY <1>1, Zenon DEF Opened, Accumulated, Readable
<1>4. PlainIsExact'
  BY <1>0, <1>1, NumberFinishes, Zenon
<1> QED BY <1>2, <1>3, <1>4, Zenon DEF IInv

LEMMA StringByteKeeps ==
  ASSUME WidthAssumption, IInv, StringByte
  PROVE  IInv'
<1>0. /\ TypeOK /\ Opened /\ Readable /\ data \in Seq(Bytes) /\ off \in 0..Len(data)
      /\ kind \in Kinds /\ phase = "string" /\ Quoted /\ off >= 1 /\ Sums(data, off)
  BY Zenon DEF IInv, TypeOK, Opened, Readable, StringByte
<1>1. /\ kind' = kind /\ data' = data /\ closed' = closed /\ u' = u /\ neg' = neg
      /\ \/ phase' = "done" /\ result' = Failed /\ (off' = off \/ (off' = off + 1 /\ ~ AtEnd))
         \/ /\ phase' = "done" /\ result' = Convert(SubSeq(data, 2, off))
            /\ off' = off + 1 /\ ~ AtEnd
         \/ phase' = "string" /\ off' = off + 1 /\ ~ AtEnd
  <2>1. /\ kind' = kind /\ data' = data /\ closed' = closed /\ u' = u /\ neg' = neg
        /\ off' = IF AtEnd THEN off ELSE off + 1
    BY Zenon DEF StringByte, Goto, Finish
  <2>2. CASE AtEnd
    <3>1. phase' = "done" /\ result' = Failed
      BY <2>2, Zenon DEF StringByte, Goto, Finish, HereIn
    <3> QED BY <2>1, <2>2, <3>1, Zenon
  <2>3. CASE ~ AtEnd
    <3>1. \/ phase' = "done" /\ result' = Convert(SubSeq(data, 2, off))
          \/ phase' = "string"
      BY <2>3, Zenon DEF StringByte, Goto, Finish
    <3> QED BY <2>1, <2>3, <3>1, Zenon
  <2> QED BY <2>2, <2>3
<1>2. ~ AtEnd => off < Len(data) /\ off + 1 \in 0..Len(data) /\ off + 1 >= 1
  BY <1>0 DEF AtEnd
<1>3. TypeOK'
  BY <1>0, <1>1, <1>2, Zenon DEF TypeOK
<1>4. Opened' /\ Accumulated'
  BY <1>0, <1>1, <1>2, Zenon DEF Opened, Accumulated, Quoted
<1>5. Readable'
  BY <1>0, <1>1, <1>2, ReadableAdvances, Zenon
<1>6. PlainIsExact'
  <2>1. CASE phase' = "string"  BY <2>1, Zenon DEF PlainIsExact
  <2>2. CASE result' = Failed  BY <2>2, Zenon DEF PlainIsExact, Failed
  <2>3. CASE result' = Convert(SubSeq(data, 2, off)) /\ off' = off + 1
    <3> DEFINE text == Part(data, 1, off)
    <3>1. Consumed' = SubSeq(data, 2, off) /\ SubSeq(data, 2, off) = text
      <4>1. Consumed' = SubSeq(data, 2, off' - 1)
        BY <1>0, <1>1, Zenon DEF Consumed, Quoted
      <4>2. off' - 1 = off  BY <1>0, <2>3
      <4>3. 1 + 1 = 2  OBVIOUS
      <4> QED BY <4>1, <4>2, <4>3, Zenon DEF Part
    <3>2. text \in Seq(Bytes) /\ Sums(text, Len(text))
      <4>1. 1 \in 0..Len(data) /\ off \in 1..Len(data)  BY <1>0
      <4> QED BY <1>0, <4>1, SumsOfPart, Zenon
    <3> HIDE DEF text
    <3>3. ASSUME Convert(text).ok, NEW d \in Numbers(text), IsPlain(d)
          PROVE  Exactly(d) = Convert(text).value /\ InRange(Exactly(d))
      BY <1>0, <3>2, <3>3, ReadingIsExact, Zenon
    <3> QED BY <1>1, <2>3, <3>1, <3>3, FinishIsExact, Zenon
  <2> QED BY <1>1, <2>1, <2>2, <2>3, Zenon
<1> QED BY <1>3, <1>4, <1>5, <1>6, Zenon DEF IInv

LEMMA NextKeeps ==
  ASSUME WidthAssumption, IInv, [Next]_vars
  PROVE  IInv'
<1>1. CASE UNCHANGED vars
  BY <1>1, Zenon DEF vars, IInv, TypeOK, Opened, Accumulated, Readable, PlainIsExact,
     SignLength, Quoted, Consumed, InRange, Low, High
<1>2. CASE Reveal  BY <1>2, RevealKeeps
<1>3. CASE Begin  BY <1>3, BeginKeeps
<1>4. CASE SimpleFirst  BY <1>4, SimpleFirstKeeps
<1>5. CASE SimpleDigit  BY <1>5, SimpleDigitKeeps
<1>6. CASE SimpleEnd  BY <1>6, SimpleEndKeeps
<1>7. CASE SimpleGiveUp  BY <1>7, SimpleGiveUpKeeps
<1>8. CASE ScanByte  BY <1>8, ScanByteKeeps
<1>9. CASE ScanEnd  BY <1>9, ScanEndKeeps
<1>10. CASE StringByte  BY <1>10, StringByteKeeps
<1> QED
  BY <1>1, <1>2, <1>3, <1>4, <1>5, <1>6, <1>7, <1>8, <1>9, <1>10, Zenon DEF Next

\* Every integer in plain digits that readInt64, readUint64 and their narrow forms
\* accept is read as itself and lies in its width: for any bytes, any length and
\* any widths, whether the digits were accumulated byte by byte or came from a
\* string or a rescan through strconv.
THEOREM IntegersAreReadAsWritten ==
  ASSUME WidthAssumption
  PROVE  Spec => []PlainIsExact
<1>1. Init => IInv
  BY InitIsFine
<1>2. IInv /\ [Next]_vars => IInv'
  BY NextKeeps
<1>3. IInv => PlainIsExact
  BY DEF IInv
<1> QED BY <1>1, <1>2, <1>3, PTL DEF Spec
-----------------------------------------------------------------------------
(* What readJSONNumberToken has recognised *)

\* Its states, and what leads from each to the next.
States == {"start", "minus", "zero", "int", "point", "frac", "e", "esign", "exp"}

LEMMA ScanSteps ==
  ASSUME NEW st \in States, NEW c, NEW next, next = ScanNext(st, c)
  PROVE  /\ next \in States \cup {"bad", "end"} /\ next # "start"
         /\ next = "minus" => st = "start" /\ c = "-"
         /\ next = "zero" => st \in {"start", "minus"} /\ c = "0"
         /\ next = "int" => /\ st \in {"start", "minus", "int"} /\ c \in Digits
                            /\ st # "int" => c # "0"
         /\ next = "point" => st \in {"zero", "int"} /\ c = "."
         /\ next = "frac" => st \in {"point", "frac"} /\ c \in Digits
         /\ next = "e" => st \in {"zero", "int", "frac"} /\ c = "e"
         /\ next = "esign" => st = "e" /\ c \in {"+", "-"}
         /\ next = "exp" => st \in {"e", "esign", "exp"} /\ c \in Digits
         /\ next = "end" => st \in Complete
<1> USE DEF ScanNext, Point, Exponent, Digit, Complete
<1>1. CASE st \in {"start", "minus"}
  <2>1. next = IF c = "-" /\ st = "start" THEN "minus"
               ELSE IF c = "0" THEN "zero" ELSE IF c \in Digits THEN "int" ELSE "bad"
    BY <1>1, Zenon
  <2> QED BY <1>1, <2>1, Zenon DEF States
<1>2. CASE st = "zero"
  <2>1. next = IF c = "." THEN "point" ELSE IF c = "e" THEN "e" ELSE "end"
    BY <1>2, Zenon
  <2> QED BY <1>2, <2>1, Zenon DEF States
<1>3. CASE st = "int"
  <2>1. next = IF c \in Digits THEN "int"
               ELSE IF c = "." THEN "point" ELSE IF c = "e" THEN "e" ELSE "end"
    BY <1>3, Zenon
  <2> QED BY <1>3, <2>1, Zenon DEF States
<1>4. CASE st = "point"
  <2>1. next = IF c \in Digits THEN "frac" ELSE "bad"
    BY <1>4, Zenon
  <2> QED BY <1>4, <2>1, Zenon DEF States
<1>5. CASE st = "frac"
  <2>1. next = IF c \in Digits THEN "frac" ELSE IF c = "e" THEN "e" ELSE "end"
    BY <1>5, Zenon
  <2> QED BY <1>5, <2>1, Zenon DEF States
<1>6. CASE st = "e"
  <2>1. next = IF c \in {"+", "-"} THEN "esign" ELSE IF c \in Digits THEN "exp" ELSE "bad"
    BY <1>6, Zenon
  <2> QED BY <1>6, <2>1, Zenon DEF States
<1>7. CASE st = "esign"
  <2>1. next = IF c \in Digits THEN "exp" ELSE "bad"
    BY <1>7, Zenon
  <2> QED BY <1>7, <2>1, Zenon DEF States
<1>8. CASE st = "exp"
  <2>1. next = IF c \in Digits THEN "exp" ELSE "end"
    BY <1>8, Zenon
  <2> QED BY <1>8, <2>1, Zenon DEF States
<1> QED BY <1>1, <1>2, <1>3, <1>4, <1>5, <1>6, <1>7, <1>8, Zenon DEF States

\* The bytes of text up to i are an integer part after a sign of s bytes, those
\* up to j a fraction as well, those up to n an exponent as well.
IntegerAt(text, s, i) ==
  /\ s \in 0..1 /\ i \in Nat /\ i > s /\ i <= Len(text)
  /\ s = 1 => text[1] = "-"
  /\ \A p \in (s + 1)..i : text[p] \in Digits
  /\ i > s + 1 => text[s + 1] # "0"
MantissaAt(text, s, i, j) ==
  /\ IntegerAt(text, s, i) /\ j \in Nat /\ j >= i /\ j <= Len(text)
  /\ j > i => /\ text[i + 1] = "." /\ j > i + 1
              /\ \A p \in (i + 2)..j : text[p] \in Digits
ExponentAt(text, s, i, j, k, n) ==
  /\ MantissaAt(text, s, i, j) /\ n \in Nat /\ n >= j /\ n <= Len(text)
  /\ n = j => k = n
  /\ n > j => /\ text[j + 1] = "e" /\ k \in {j + 1, j + 2} /\ k < n
              /\ k = j + 2 => text[j + 2] \in {"+", "-"}
              /\ \A p \in (k + 1)..n : text[p] \in Digits

\* Such a text is a JSON number.
LEMMA NumberAt ==
  ASSUME NEW text \in Seq(Bytes), NEW s, NEW i, NEW j, NEW k,
         ExponentAt(text, s, i, j, k, Len(text))
  PROVE  Numbers(text) # {}
<1> DEFINE n == Len(text)  d == Reading(text, s, i, j, k)
<1>1. /\ n \in Nat /\ s \in 0..1 /\ i \in 0..n /\ j \in 0..n /\ k \in 0..n /\ s \in 0..n
      /\ s < i /\ i <= j /\ j <= k /\ text # <<>>
      /\ i \in s..n /\ j \in i..n /\ k \in j..n
      /\ (j = n => k = n) /\ (j < n => k < n)
  BY DEF ExponentAt, MantissaAt, IntegerAt
<1>2. /\ s = 1 => text[1] = "-"
      /\ \A p \in (s + 1)..i : text[p] \in Digits
      /\ i > s + 1 => text[s + 1] # "0"
      /\ j > i => /\ text[i + 1] = "." /\ j > i + 1
                  /\ \A p \in (i + 2)..j : text[p] \in Digits
      /\ n > j => /\ text[j + 1] = "e" /\ k \in {j + 1, j + 2}
                  /\ k = j + 2 => text[j + 2] \in {"+", "-"}
                  /\ \A p \in (k + 1)..n : text[p] \in Digits
  BY Zenon DEF ExponentAt, MantissaAt, IntegerAt
<1>3. /\ AllDigits(Part(text, s, i)) /\ Len(Part(text, s, i)) = i - s
      /\ \A p \in 1..(i - s) : Part(text, s, i)[p] = text[s + p]
  <2>1. /\ Len(Part(text, s, i)) = i - s
        /\ \A p \in 1..(i - s) : Part(text, s, i)[p] = text[s + p]
    BY <1>1, PartOf
  <2>2. AllDigits(Part(text, s, i))
    BY <1>1, <1>2, PartOf, Zenon
  <2> QED BY <2>1, <2>2, Zenon
<1>4. i < j => AllDigits(Part(text, i + 1, j)) /\ Len(Part(text, i + 1, j)) > 0
  <2>1. CASE i < j
    <3>1. i + 1 \in 0..n /\ j \in (i + 1)..n /\ (i + 1) + 1 = i + 2 /\ j - (i + 1) > 0
      BY <1>1, <1>2, <2>1
    <3>2. Len(Part(text, i + 1, j)) = j - (i + 1)
      BY <3>1, PartOf, Zenon
    <3>3. AllDigits(Part(text, i + 1, j))
      BY <1>1, <1>2, <2>1, <3>1, PartOf, Zenon
    <3> QED BY <3>1, <3>2, <3>3, Zenon
  <2> QED BY <2>1
<1>5. j < n => IsSign(Part(text, j + 1, k)) /\ AllDigits(Part(text, k, n))
  <2>1. CASE j < n
    <3>1. n \in k..n  BY <1>1
    <3>2. AllDigits(Part(text, k, n))
      BY <1>1, <1>2, <2>1, <3>1, PartOf, Zenon
    <3>3. CASE k = j + 1
      <4>1. Part(text, j + 1, k) = <<>>  BY <1>1, <3>3, EmptyPart
      <4> QED BY <3>2, <4>1, Zenon DEF IsSign
    <3>4. CASE k = j + 2
      <4>1. Part(text, j + 1, k) = <<text[j + 2]>>
        <5>1. /\ Part(text, j + 1, k) \in Seq(Bytes) /\ Len(Part(text, j + 1, k)) = 1
              /\ Part(text, j + 1, k)[1] = text[j + 2]
          BY <1>1, <3>4, SMT DEF Part
        <5> QED BY <5>1
      <4> QED BY <1>2, <2>1, <3>2, <3>4, <4>1, Zenon DEF IsSign
    <3> QED BY <1>2, <2>1, <3>3, <3>4, Zenon
  <2> QED BY <2>1
<1>6. IsSign(Part(text, 0, s)) /\ Part(text, 0, s) # <<"+">>
  <2>0. /\ Part(text, 0, 0) = <<>>
        /\ \A c : Part(text, 0, 1) = <<c>> <=> text[1] = c
    BY <1>1, SignOf
  <2>1. CASE s = 0
    <3>1. \A c : <<>> # <<c>>  OBVIOUS
    <3> QED BY <2>0, <2>1, <3>1, Zenon DEF IsSign
  <2>2. CASE s = 1
    <3>1. text[1] = "-" /\ "-" # "+"  BY <1>2, <2>2, Zenon
    <3> QED BY <2>0, <2>2, <3>1, Zenon DEF IsSign
  <2> QED BY <1>1, <2>1, <2>2
<1>7. Cut(text, s, i, j, k)
  BY <1>1, <1>2, <1>3, <1>4, <1>5, <1>6 DEF Cut
<1>8. d \in Decimals(text)
  <2>1. /\ <<s, i, j, k>> \in (0..n) \X (0..n) \X (0..n) \X (0..n)
        /\ <<s, i, j, k>>[1] = s /\ <<s, i, j, k>>[2] = i
        /\ <<s, i, j, k>>[3] = j /\ <<s, i, j, k>>[4] = k
    BY <1>1
  <2> QED BY <1>7, <2>1, Zenon DEF Decimals
<1>9. d.sign # <<"+">> /\ (d.dot => d.frac # <<>>)
  <2>1. Len(<<>>) = 0  OBVIOUS
  <2>2. i < j => Part(text, i + 1, j) # <<>>  BY <1>4, <2>1
  <2>3. d.sign = Part(text, 0, s) /\ d.dot = (i < j) /\ d.frac = Part(text, i + 1, j)
    BY Zenon DEF Reading
  <2> QED BY <1>6, <2>2, <2>3, Zenon
<1>10. d.int # <<>> /\ (Len(d.int) > 1 => d.int[1] # "0")
  <2>1. d.int = Part(text, s, i)
    BY Zenon DEF Reading
  <2>2. Part(text, s, i) # <<>>
    BY <1>1, <1>3
  <2>3. Len(Part(text, s, i)) > 1 => i > s + 1
    BY <1>1, <1>3
  <2>4. Part(text, s, i)[1] = text[s + 1]
    BY <1>1, <1>3
  <2> QED BY <1>2, <2>1, <2>2, <2>3, <2>4, Zenon
<1> QED BY <1>8, <1>9, <1>10, Zenon DEF Numbers
-----------------------------------------------------------------------------
\* What readJSONNumberToken has seen when it is in a state.
Scanned(st, text, n) ==
  /\ st = "start" => n = 0
  /\ st = "minus" => n = 1 /\ text[1] = "-"
  /\ st = "zero" => \E s \in 0..1 : IntegerAt(text, s, n)
  /\ st = "int" => \E s \in 0..1 : IntegerAt(text, s, n) /\ text[s + 1] # "0"
  /\ st = "point" => \E s \in 0..1 : n >= 1 /\ IntegerAt(text, s, n - 1) /\ text[n] = "."
  /\ st = "frac" => \E s \in 0..1, i \in 0..n : MantissaAt(text, s, i, n) /\ n > i
  /\ st = "e" => \E s \in 0..1, i \in 0..n :
       n >= 1 /\ MantissaAt(text, s, i, n - 1) /\ text[n] = "e"
  /\ st = "esign" => \E s \in 0..1, i \in 0..n :
       n >= 2 /\ MantissaAt(text, s, i, n - 2) /\ text[n - 1] = "e" /\ text[n] \in {"+", "-"}
  /\ st = "exp" => \E s \in 0..1, i \in 0..n, j \in 0..n, k \in 0..n :
       n > j /\ ExponentAt(text, s, i, j, k, n)

LEMMA ScanAdvances ==
  ASSUME NEW st \in States, NEW next, next = ScanNext(st, data[off + 1]), next \in States,
         data \in Seq(Bytes), off \in Nat, off < Len(data), Scanned(st, data, off)
  PROVE  Scanned(next, data, off + 1)
<1> DEFINE c == data[off + 1]  n == off + 1
<1>0. /\ next # "start"
      /\ next = "minus" => st = "start" /\ c = "-"
      /\ next = "zero" => st \in {"start", "minus"} /\ c = "0"
      /\ next = "int" => /\ st \in {"start", "minus", "int"} /\ c \in Digits
                         /\ st # "int" => c # "0"
      /\ next = "point" => st \in {"zero", "int"} /\ c = "."
      /\ next = "frac" => st \in {"point", "frac"} /\ c \in Digits
      /\ next = "e" => st \in {"zero", "int", "frac"} /\ c = "e"
      /\ next = "esign" => st = "e" /\ c \in {"+", "-"}
      /\ next = "exp" => st \in {"e", "esign", "exp"} /\ c \in Digits
  <2>1. next = ScanNext(st, c)  OBVIOUS
  <2> HIDE DEF c
  <2> QED BY <2>1, ScanSteps
<1>1. /\ Len(data) \in Nat /\ n \in Nat /\ n <= Len(data) /\ n >= 1 /\ n - 1 = off
      /\ off \in 0..n
  OBVIOUS
\* The first digit of an integer part, and one more.
<1>2. ASSUME st \in {"start", "minus"}, c \in Digits
      PROVE  \E s \in 0..1 : IntegerAt(data, s, n) /\ data[s + 1] = c
  <2>1. CASE st = "start"
    <3>1. off = 0  BY <2>1, Zenon DEF Scanned
    <3>2. IntegerAt(data, 0, 1)  BY <1>1, <1>2, <3>1 DEF IntegerAt
    <3> QED BY <3>1, <3>2
  <2>2. CASE st = "minus"
    <3>1. off = 1 /\ data[1] = "-"  BY <2>2, Zenon DEF Scanned
    <3>2. IntegerAt(data, 1, 2)  BY <1>1, <1>2, <3>1 DEF IntegerAt
    <3> QED BY <3>1, <3>2
  <2> QED BY <1>2, <2>1, <2>2
<1>3. ASSUME NEW s \in 0..1, IntegerAt(data, s, off), data[s + 1] # "0", c \in Digits
      PROVE  IntegerAt(data, s, n)
  BY <1>1, <1>3 DEF IntegerAt
<1>4. st \in {"zero", "int"} => \E s \in 0..1 : IntegerAt(data, s, off)
  BY Zenon DEF Scanned
<1>5. ASSUME NEW s \in 0..1, IntegerAt(data, s, off)
      PROVE  MantissaAt(data, s, off, off)
  BY <1>5 DEF MantissaAt, IntegerAt
<1>6. next = "minus" => n = 1 /\ data[1] = "-"
  <2>1. CASE next = "minus"
    <3>1. off = 0 /\ c = "-"  BY <1>0, <2>1, Zenon DEF Scanned
    <3> QED BY <3>1
  <2> QED BY <2>1
<1>7. next = "zero" => \E s \in 0..1 : IntegerAt(data, s, n)
  <2>1. "0" \in Digits  BY Zenon DEF Digits, DigitOf
  <2> QED BY <1>0, <1>2, <2>1, Zenon
<1>8. next = "int" => \E s \in 0..1 : IntegerAt(data, s, n) /\ data[s + 1] # "0"
  <2>1. CASE next = "int" /\ st = "int"
    <3>1. PICK s \in 0..1 : IntegerAt(data, s, off) /\ data[s + 1] # "0"
      BY <2>1, Zenon DEF Scanned
    <3> QED BY <1>0, <1>3, <2>1, <3>1, Zenon
  <2>2. CASE next = "int" /\ st # "int"
    BY <1>0, <1>2, <2>2, Zenon
  <2> QED BY <2>1, <2>2
<1>9. next = "point" => \E s \in 0..1 : n >= 1 /\ IntegerAt(data, s, n - 1) /\ data[n] = "."
  BY <1>0, <1>1, <1>4, Zenon
<1>10. next = "frac" => \E s \in 0..1, i \in 0..n : MantissaAt(data, s, i, n) /\ n > i
  <2>1. CASE next = "frac" /\ st = "point"
    <3>1. PICK s \in 0..1 : off >= 1 /\ IntegerAt(data, s, off - 1) /\ data[off] = "."
      BY <2>1, Zenon DEF Scanned
    <3>2. c \in Digits  BY <1>0, <2>1, Zenon
    <3>3. MantissaAt(data, s, off - 1, n)
      BY <1>1, <3>1, <3>2 DEF MantissaAt, IntegerAt
    <3>4. off - 1 \in 0..n /\ n > off - 1  BY <3>1
    <3> QED BY <3>3, <3>4
  <2>2. CASE next = "frac" /\ st = "frac"
    <3>1. PICK s \in 0..1, i \in 0..off : MantissaAt(data, s, i, off) /\ off > i
      BY <2>2, Zenon DEF Scanned
    <3>2. c \in Digits  BY <1>0, <2>2, Zenon
    <3>3. MantissaAt(data, s, i, n)
      BY <1>1, <3>1, <3>2 DEF MantissaAt
    <3>4. i \in 0..n /\ n > i  BY <3>1
    <3> QED BY <3>3, <3>4
  <2> QED BY <1>0, <2>1, <2>2, Zenon
<1>11. next = "e" => \E s \in 0..1, i \in 0..n :
         n >= 1 /\ MantissaAt(data, s, i, n - 1) /\ data[n] = "e"
  <2>1. CASE next = "e" /\ st \in {"zero", "int"}
    <3>1. PICK s \in 0..1 : IntegerAt(data, s, off)  BY <1>4, <2>1
    <3>2. MantissaAt(data, s, off, off)  BY <1>5, <3>1
    <3> QED BY <1>0, <1>1, <2>1, <3>2, Zenon
  <2>2. CASE next = "e" /\ st = "frac"
    <3>1. PICK s \in 0..1, i \in 0..off : MantissaAt(data, s, i, off)
      BY <2>2, Zenon DEF Scanned
    <3>2. i \in 0..n  OBVIOUS
    <3> QED BY <1>0, <1>1, <2>2, <3>1, <3>2, Zenon
  <2> QED BY <1>0, <2>1, <2>2, Zenon
<1>12. next = "esign" => \E s \in 0..1, i \in 0..n :
         n >= 2 /\ MantissaAt(data, s, i, n - 2) /\ data[n - 1] = "e" /\ data[n] \in {"+", "-"}
  <2>1. CASE next = "esign"
    <3>1. PICK s \in 0..1, i \in 0..off :
            off >= 1 /\ MantissaAt(data, s, i, off - 1) /\ data[off] = "e"
      BY <1>0, <2>1, Zenon DEF Scanned
    <3>2. i \in 0..n /\ n >= 2 /\ n - 2 = off - 1  BY <3>1
    <3> QED BY <1>0, <1>1, <2>1, <3>1, <3>2, Zenon
  <2> QED BY <2>1
<1>13. next = "exp" => \E s \in 0..1, i \in 0..n, j \in 0..n, k \in 0..n :
         n > j /\ ExponentAt(data, s, i, j, k, n)
  <2>1. CASE next = "exp" /\ st = "e"
    <3>1. PICK s \in 0..1, i \in 0..off :
            off >= 1 /\ MantissaAt(data, s, i, off - 1) /\ data[off] = "e"
      BY <2>1, Zenon DEF Scanned
    <3>2. c \in Digits  BY <1>0, <2>1, Zenon
    <3>3. ExponentAt(data, s, i, off - 1, off, n)
      BY <1>1, <3>1, <3>2 DEF ExponentAt
    <3>4. i \in 0..n /\ off - 1 \in 0..n /\ n > off - 1  BY <3>1
    <3> QED BY <1>1, <3>3, <3>4, Zenon
  <2>2. CASE next = "exp" /\ st = "esign"
    <3>1. PICK s \in 0..1, i \in 0..off :
            off >= 2 /\ MantissaAt(data, s, i, off - 2) /\ data[off - 1] = "e"
              /\ data[off] \in {"+", "-"}
      BY <2>2, Zenon DEF Scanned
    <3>2. c \in Digits  BY <1>0, <2>2, Zenon
    <3>3. ExponentAt(data, s, i, off - 2, off, n)
      BY <1>1, <3>1, <3>2 DEF ExponentAt
    <3>4. i \in 0..n /\ off - 2 \in 0..n /\ n > off - 2  BY <3>1
    <3> QED BY <1>1, <3>3, <3>4, Zenon
  <2>3. CASE next = "exp" /\ st = "exp"
    <3>1. PICK s \in 0..1, i \in 0..off, j \in 0..off, k \in 0..off :
            off > j /\ ExponentAt(data, s, i, j, k, off)
      BY <2>3, Zenon DEF Scanned
    <3>2. c \in Digits  BY <1>0, <2>3, Zenon
    <3>3. ExponentAt(data, s, i, j, k, n)
      BY <1>1, <3>1, <3>2 DEF ExponentAt
    <3>4. i \in 0..n /\ j \in 0..n /\ k \in 0..n /\ n > j  BY <3>1
    <3> QED BY <3>3, <3>4, Zenon
  <2> QED BY <1>0, <2>1, <2>2, <2>3, Zenon
<1> QED
  BY <1>0, <1>6, <1>7, <1>8, <1>9, <1>10, <1>11, <1>12, <1>13, Zenon DEF Scanned

\* In a state that is complete, what was recognised is a JSON number.
LEMMA CompleteIsNumber ==
  ASSUME data \in Seq(Bytes), off \in 0..Len(data), scan \in Complete, Scanned(scan, data, off)
  PROVE  Numbers(Part(data, 0, off)) # {}
<1> DEFINE text == Part(data, 0, off)
<1>1. text \in Seq(Bytes) /\ Len(text) = off /\ \A p \in 1..off : text[p] = data[p]
  BY SMT DEF Part
<1>2. \E s \in 0..1, i \in 0..off, j \in 0..off, k \in 0..off : ExponentAt(data, s, i, j, k, off)
  <2>1. ASSUME NEW s \in 0..1, IntegerAt(data, s, off)
        PROVE  ExponentAt(data, s, off, off, off, off)
    BY <2>1 DEF ExponentAt, MantissaAt, IntegerAt
  <2>2. ASSUME NEW s \in 0..1, NEW i \in 0..off, MantissaAt(data, s, i, off)
        PROVE  ExponentAt(data, s, i, off, off, off)
    BY <2>2 DEF ExponentAt, MantissaAt
  <2>3. off \in 0..off  OBVIOUS
  <2> QED BY <2>1, <2>2, <2>3, Zenon DEF Scanned, Complete
<1>3. PICK s \in 0..1, i \in 0..off, j \in 0..off, k \in 0..off : ExponentAt(data, s, i, j, k, off)
  BY <1>2
<1> HIDE DEF text
<1>4. IntegerAt(text, s, i)
  BY <1>1, <1>3 DEF ExponentAt, MantissaAt, IntegerAt
<1>5. MantissaAt(text, s, i, j)
  BY <1>1, <1>3, <1>4 DEF ExponentAt, MantissaAt, IntegerAt
<1>6. ExponentAt(text, s, i, j, k, Len(text))
  BY <1>1, <1>3, <1>5 DEF ExponentAt, MantissaAt
<1> QED BY <1>1, <1>6, NumberAt, Zenon DEF text
-----------------------------------------------------------------------------
(* The invariant of the spelling *)

\* The fast path's digits have no zero in front, and the state of the scan tells
\* what was recognised.
LeadingIsRight ==
  phase = "digits" =>
    /\ Len(data) > SignLength /\ data[SignLength + 1] \in Digits
    /\ data[SignLength + 1] = "0" =>
         /\ off <= SignLength + 1
         /\ Len(data) >= SignLength + 2 \/ closed
         /\ Len(data) >= SignLength + 2 => data[SignLength + 2] \notin Digits
ScanIsRight ==
  /\ scan \in States
  /\ phase \in {"begin", "simple", "digits"} => scan = "start"
  /\ phase = "number" => Scanned(scan, data, off)
NInv == IInv /\ LeadingIsRight /\ ScanIsRight /\ AcceptedIsNumber

LEMMA InitIsScanned ==
  Init => NInv
<1> SUFFICES ASSUME Init PROVE NInv
  OBVIOUS
<1>1. IInv  BY InitIsFine
<1>2. LeadingIsRight /\ ScanIsRight /\ AcceptedIsNumber
  BY Zenon DEF Init, LeadingIsRight, ScanIsRight, AcceptedIsNumber, States
<1> QED BY <1>1, <1>2 DEF NInv

\* Nothing out of the field's width is returned.
LEMMA RangeOfConvert ==
  ASSUME NEW text, Convert(text).ok
  PROVE  InRange(Convert(text).value)
<1>1. ~ Failed.ok
  BY DEF Failed
<1>2. \A w : Narrowed(w).ok => InRange(Narrowed(w).value)
  BY <1>1, Zenon DEF Narrowed, Read
<1> QED BY <1>1, <1>2, Zenon DEF Convert

LEMMA RangeStays ==
  ASSUME kind' = kind
  PROVE  \A v : InRange(v)' <=> InRange(v)
<1>1. Low' = Low /\ High' = High
  BY DEF Low, High
<1> QED BY <1>1, Zenon DEF InRange

\* What was recognised stays so when the input grows.
LEMMA ScannedExtends ==
  ASSUME NEW text \in Seq(Bytes), NEW longer \in Seq(Bytes), Len(longer) = Len(text) + 1,
         \A p \in 1..Len(text) : longer[p] = text[p],
         NEW st \in States, NEW n \in 0..Len(text), Scanned(st, text, n)
  PROVE  Scanned(st, longer, n)
<1>1. ASSUME NEW s, NEW i, IntegerAt(text, s, i)
      PROVE  IntegerAt(longer, s, i) /\ longer[s + 1] = text[s + 1]
  BY <1>1 DEF IntegerAt
<1>2. ASSUME NEW s, NEW i, NEW j, MantissaAt(text, s, i, j)
      PROVE  MantissaAt(longer, s, i, j)
  <2>1. IntegerAt(longer, s, i)  BY <1>1, <1>2, Zenon DEF MantissaAt
  <2>2. i \in Nat  BY <1>2, Zenon DEF MantissaAt, IntegerAt
  <2> QED BY <1>2, <2>1, <2>2 DEF MantissaAt
<1>3. ASSUME NEW s, NEW i, NEW j, NEW k, ExponentAt(text, s, i, j, k, n)
      PROVE  ExponentAt(longer, s, i, j, k, n)
  <2>1. MantissaAt(longer, s, i, j)  BY <1>2, <1>3, Zenon DEF ExponentAt
  <2>2. j \in Nat  BY <1>3, Zenon DEF ExponentAt, MantissaAt
  <2> QED BY <1>3, <2>1, <2>2 DEF ExponentAt
<1>4. /\ n >= 1 => longer[1] = text[1] /\ longer[n] = text[n]
      /\ n >= 2 => longer[n - 1] = text[n - 1] /\ n >= 1
      /\ n = 1 => n >= 1
  OBVIOUS
<1>5. CASE st \in {"start", "minus"}
  BY <1>4, <1>5, Zenon DEF Scanned
<1>6. CASE st \in {"zero", "int", "point"}
  BY <1>1, <1>4, <1>6, Zenon DEF Scanned
<1>7. CASE st \in {"frac", "e", "esign"}
  BY <1>2, <1>4, <1>7, Zenon DEF Scanned
<1>8. CASE st = "exp"
  BY <1>3, <1>8, Zenon DEF Scanned
<1> QED BY <1>5, <1>6, <1>7, <1>8, Zenon DEF States

LEMMA RevealKeepsScan ==
  ASSUME NInv, Reveal
  PROVE  LeadingIsRight' /\ ScanIsRight' /\ AcceptedIsNumber'
<1>0. /\ data \in Seq(Bytes) /\ off \in 0..Len(data) /\ Len(data) \in Nat
      /\ LeadingIsRight /\ ScanIsRight /\ SignLength \in 0..1 /\ phase # "done" /\ ~ closed
      /\ phase' = phase /\ off' = off /\ scan' = scan /\ SignLength' = SignLength
  BY DEF NInv, IInv, TypeOK, Reveal, SignLength
<1>1. AcceptedIsNumber'
  BY <1>0, Zenon DEF AcceptedIsNumber
<1>2. CASE data' = data /\ closed' = TRUE
  <2>1. LeadingIsRight'
    BY <1>0, <1>2, Zenon DEF LeadingIsRight
  <2>2. ScanIsRight'
    BY <1>0, <1>2, Zenon DEF ScanIsRight, Scanned
  <2> QED BY <1>1, <2>1, <2>2
<1>3. ASSUME NEW c \in Bytes, data' = Append(data, c), closed' = closed
      PROVE  LeadingIsRight' /\ ScanIsRight'
  <2>1. /\ data' \in Seq(Bytes) /\ Len(data') = Len(data) + 1
        /\ \A p \in 1..Len(data) : data'[p] = data[p]
    BY <1>0, <1>3
  <2>2. LeadingIsRight'
    <3>1. CASE phase = "digits"
      <4>1. /\ Len(data) > SignLength /\ data[SignLength + 1] \in Digits
            /\ data[SignLength + 1] = "0" =>
                 /\ off <= SignLength + 1 /\ Len(data) >= SignLength + 2
                 /\ data[SignLength + 2] \notin Digits
        BY <1>0, <3>1, Zenon DEF LeadingIsRight
      <4>2. data'[SignLength + 1] = data[SignLength + 1] /\ Len(data') > SignLength
        BY <1>0, <2>1, <4>1
      <4>3. Len(data) >= SignLength + 2 =>
              data'[SignLength + 2] = data[SignLength + 2] /\ Len(data') >= SignLength + 2
        BY <1>0, <2>1
      <4> QED BY <1>0, <4>1, <4>2, <4>3, Zenon DEF LeadingIsRight
    <3> QED BY <1>0, <3>1, Zenon DEF LeadingIsRight
  <2>3. ScanIsRight'
    <3>1. CASE phase = "number"
      <4>1. Scanned(scan, data, off)  BY <1>0, <3>1, Zenon DEF ScanIsRight
      <4>2. Scanned(scan', data', off')
        <5>1. scan \in States  BY <1>0, Zenon DEF ScanIsRight
        <5>2. Scanned(scan, data', off)
          BY <1>0, <2>1, <4>1, <5>1, ScannedExtends, Zenon
        <5> QED BY <1>0, <5>2, Zenon
      <4> QED BY <1>0, <3>1, <4>2, Zenon DEF ScanIsRight
    <3> QED BY <1>0, <3>1, Zenon DEF ScanIsRight
  <2> QED BY <2>2, <2>3
<1> QED BY <1>1, <1>2, <1>3, Zenon DEF Reveal

LEMMA OpenKeepsScan ==
  ASSUME NInv, Begin \/ SimpleFirst \/ SimpleGiveUp
  PROVE  LeadingIsRight' /\ ScanIsRight' /\ AcceptedIsNumber'
<1>0. /\ TypeOK /\ Opened /\ LeadingIsRight /\ ScanIsRight
      /\ scan' = scan /\ scan = "start" /\ phase' # "done" /\ phase \in {"begin", "simple", "digits"}
  BY Zenon DEF NInv, IInv, Begin, SimpleFirst, SimpleGiveUp, Goto, ScanIsRight
<1>1. AcceptedIsNumber'
  BY <1>0, Zenon DEF AcceptedIsNumber
<1>2. ScanIsRight'
  <2>1. phase' = "number" => off' = 0
    <3>1. CASE Begin
      <4>1. CASE phase' = "number"
        <5>1. ~ HereIn({Quote}) /\ AtEnd
          <6>1. phase' = CASE HereIn({Quote}) -> "string" [] AtEnd -> "number" [] OTHER -> "simple"
            BY <3>1, Zenon DEF Begin, Goto
          <6>2. CASE HereIn({Quote})
            <7>1. ~ AtEnd  BY <6>2, Zenon DEF HereIn
            <7>2. phase' = "string"  BY <6>1, <6>2, <7>1, Zenon
            <7> QED BY <4>1, <7>2, Zenon
          <6>3. CASE ~ HereIn({Quote}) /\ ~ AtEnd
            <7>1. phase' = "simple"  BY <6>1, <6>3, Zenon
            <7> QED BY <4>1, <7>1, Zenon
          <6> QED BY <6>2, <6>3, Zenon
        <5>2. off' = off  BY <3>1, <5>1, Zenon DEF Begin, HereIn
        <5> QED BY <1>0, <3>1, <5>2, Zenon DEF Begin, Opened
      <4> QED BY <4>1
    <3> QED BY <1>0, <3>1, Zenon DEF SimpleFirst, SimpleGiveUp, Goto
  <2>2. phase' = "number" => Scanned(scan', data', off')
    BY <1>0, <2>1, Zenon DEF Scanned
  <2> QED BY <1>0, <2>2, Zenon DEF ScanIsRight
<1>3. LeadingIsRight'
  <2>1. CASE SimpleFirst /\ phase' = "digits"
    <3>1. /\ HereIn(Digits) /\ ~ LeadingZero /\ off' = off /\ data' = data /\ neg' = neg
          /\ closed' = closed /\ Known /\ phase = "simple"
      BY <2>1, Zenon DEF SimpleFirst, Goto
    <3>2. /\ SignLength' = SignLength /\ off = SignLength /\ off \in 0..Len(data)
          /\ data \in Seq(Bytes)
      BY <1>0, <3>1, Zenon DEF SignLength, Opened, TypeOK
    <3>3. /\ Len(data) > SignLength /\ data[SignLength + 1] \in Digits
      BY <3>1, <3>2 DEF HereIn, AtEnd, Here
    <3>4. Len(data) >= SignLength + 2 \/ closed
      BY <3>1, <3>2 DEF Known
    <3>5. data[SignLength + 1] = "0" /\ Len(data) >= SignLength + 2
            => data[SignLength + 2] \notin Digits
      <4>1. Len(data) >= SignLength + 2 => off + 1 < Len(data) /\ ~ AtEnd /\ off + 2 = SignLength + 2
        BY <3>2 DEF AtEnd
      <4> QED BY <3>1, <3>2, <4>1, Zenon DEF LeadingZero, HereIn, Here
    <3>6. off <= SignLength + 1
      BY <3>2
    <3> QED BY <3>1, <3>2, <3>3, <3>4, <3>5, <3>6, Zenon DEF LeadingIsRight
  <2>2. CASE phase' # "digits"
    BY <2>2, Zenon DEF LeadingIsRight
  <2> QED BY <2>1, <2>2, Zenon DEF Begin, SimpleGiveUp, Goto
<1> QED BY <1>1, <1>2, <1>3

LEMMA DigitKeepsScan ==
  ASSUME NInv, SimpleDigit
  PROVE  LeadingIsRight' /\ ScanIsRight' /\ AcceptedIsNumber'
<1>0. /\ data \in Seq(Bytes) /\ off \in 0..Len(data) /\ phase = "digits" /\ off >= SignLength
      /\ Len(data) > SignLength /\ data[SignLength + 1] \in Digits
      /\ data[SignLength + 1] = "0" =>
           /\ off <= SignLength + 1
           /\ Len(data) >= SignLength + 2 \/ closed
           /\ Len(data) >= SignLength + 2 => data[SignLength + 2] \notin Digits
      /\ ScanIsRight /\ scan' = scan /\ SignLength' = SignLength
      /\ ~ (off >= Len(data)) /\ data[off + 1] \in Digits /\ data' = data /\ closed' = closed
      /\ \/ phase' = "done" /\ result' = Failed
         \/ phase' = "digits" /\ off' = off + 1
  BY Zenon DEF NInv, IInv, TypeOK, Opened, LeadingIsRight, SimpleDigit, Goto, Finish, HereIn,
     AtEnd, Here, SignLength
<1>1. AcceptedIsNumber'
  <2>1. ~ Failed.ok  BY DEF Failed
  <2> QED BY <1>0, <2>1, Zenon DEF AcceptedIsNumber
<1>2. ScanIsRight'
  BY <1>0, Zenon DEF ScanIsRight
<1>3. data[SignLength + 1] = "0" => off = SignLength
  <2>1. SignLength \in 0..1 /\ off \in Nat /\ Len(data) \in Nat
    BY <1>0 DEF NInv, IInv, TypeOK, SignLength
  <2>2. off = SignLength + 1 => Len(data) >= SignLength + 2 /\ off + 1 = SignLength + 2
    BY <1>0, <2>1
  <2>3. data[SignLength + 1] = "0" => off # SignLength + 1
    BY <1>0, <2>2, Zenon
  <2>4. off <= SignLength + 1 /\ off # SignLength + 1 => off = SignLength
    BY <1>0, <2>1
  <2> QED BY <1>0, <2>3, <2>4, Zenon
<1>4. off = SignLength => off + 1 <= SignLength + 1
  BY <1>0 DEF NInv, IInv, TypeOK, SignLength
<1>5. LeadingIsRight'
  BY <1>0, <1>3, <1>4, Zenon DEF LeadingIsRight
<1> QED BY <1>1, <1>2, <1>5

LEMMA EndKeepsScan ==
  ASSUME NInv, SimpleEnd
  PROVE  LeadingIsRight' /\ ScanIsRight' /\ AcceptedIsNumber'
<1>0. /\ data \in Seq(Bytes) /\ off \in 0..Len(data) /\ phase = "digits" /\ off >= SignLength
      /\ ~ Quoted /\ (neg => data[1] = "-") /\ AllDigits(Part(data, SignLength, off))
      /\ Len(data) > SignLength /\ data[SignLength + 1] \in Digits
      /\ data[SignLength + 1] = "0" => off <= SignLength + 1
      /\ ScanIsRight /\ (AtEnd \/ HereIn(Terminators))
  BY Zenon DEF NInv, IInv, TypeOK, Opened, Accumulated, LeadingIsRight, SimpleEnd
<1>1. /\ scan' = scan /\ data' = data /\ off' = off /\ phase' = "done" /\ kind' = kind
      /\ result' = Narrowed(IF neg THEN -u ELSE u)
  BY Zenon DEF SimpleEnd, Finish
<1>2. LeadingIsRight' /\ ScanIsRight'
  BY <1>0, <1>1, Zenon DEF LeadingIsRight, ScanIsRight
<1>3. SignLength \in 0..1 /\ SignLength <= off /\ Len(data) \in Nat /\ off \in Nat
  BY <1>0 DEF NInv, IInv, TypeOK, SignLength
<1>4. off # SignLength
  <2>1. CASE off = SignLength
    <3>1. ~ AtEnd  BY <1>0, <1>3, <2>1 DEF AtEnd
    <3>2. data[off + 1] \in Digits  BY <1>0, <2>1, Zenon
    <3>3. data[off + 1] = ","
      BY <1>0, <3>1, Zenon DEF HereIn, Here, Terminators
    <3> QED BY <3>2, <3>3, DigitFacts, Zenon
  <2> QED BY <2>1
<1>5. Numbers(Part(data, 0, off)) # {}
  <2> DEFINE text == Part(data, 0, off)
  <2>1. text \in Seq(Bytes) /\ Len(text) = off /\ \A p \in 1..off : text[p] = data[p]
    BY <1>0, SMT DEF Part
  <2>2. \A p \in (SignLength + 1)..off : data[p] \in Digits
    <3>1. SignLength \in 0..Len(data) /\ off \in SignLength..Len(data)  BY <1>0, <1>3
    <3> QED BY <1>0, <3>1, PartOf, Zenon
  <2>3. SignLength = 1 => data[1] = "-"
    BY <1>0 DEF SignLength
  <2> HIDE DEF text
  <2>4. IntegerAt(text, SignLength, off)
    BY <1>0, <1>3, <1>4, <2>1, <2>2, <2>3 DEF IntegerAt
  <2>5. ExponentAt(text, SignLength, off, off, off, Len(text))
    BY <1>3, <2>1, <2>4 DEF ExponentAt, MantissaAt
  <2> QED BY <2>1, <2>5, NumberAt, Zenon DEF text
<1>6. (InRange(result.value))' \/ ~ result'.ok
  <2>1. Narrowed(IF neg THEN -u ELSE u).ok => InRange(Narrowed(IF neg THEN -u ELSE u).value)
    BY Zenon DEF Narrowed, Read, Failed
  <2> QED BY <1>1, <2>1, RangeStays, Zenon
<1>7. Consumed' = Part(data, 0, off)
  <2>1. Consumed' = SubSeq(data, 1, off)
    BY <1>0, <1>1, Zenon DEF Consumed, Quoted
  <2> QED BY <2>1 DEF Part
<1>8. AcceptedIsNumber'
  BY <1>0, <1>1, <1>5, <1>6, <1>7, Zenon DEF AcceptedIsNumber, AtEnd, HereIn, Here
<1> QED BY <1>2, <1>8

LEMMA NumberEndsRight ==
  ASSUME NInv, phase = "number", off' = off, data' = data, kind' = kind, scan' = scan,
         phase' = "done",
         \/ result' = Failed
         \/ /\ result' = Convert(SubSeq(data, 1, off)) /\ scan \in Complete
            /\ AtEnd \/ Here \in Terminators
  PROVE  AcceptedIsNumber'
<1>0. /\ data \in Seq(Bytes) /\ off \in 0..Len(data) /\ ~ Quoted /\ Scanned(scan, data, off)
  BY Zenon DEF NInv, IInv, TypeOK, Opened, ScanIsRight
<1>1. CASE result' = Failed
  BY <1>1, Zenon DEF AcceptedIsNumber, Failed
<1>2. CASE /\ result' = Convert(SubSeq(data, 1, off)) /\ scan \in Complete
           /\ AtEnd \/ Here \in Terminators
  <2>1. Consumed' = SubSeq(data, 1, off)
    BY <1>0, Zenon DEF Consumed, Quoted
  <2>2. SubSeq(data, 1, off) = Part(data, 0, off)
    BY DEF Part
  <2>3. Numbers(Part(data, 0, off)) # {}
    BY <1>0, <1>2, CompleteIsNumber, Zenon
  <2>4. result'.ok => InRange(result'.value)
    BY <1>2, RangeOfConvert, Zenon
  <2>5. result'.ok => InRange(result.value)'
    BY <2>4, RangeStays, Zenon
  <2> QED BY <1>2, <2>1, <2>2, <2>3, <2>5, Zenon DEF AcceptedIsNumber, AtEnd, Here
<1> QED BY <1>1, <1>2, Zenon

LEMMA ScanKeepsScan ==
  ASSUME NInv, ScanByte \/ ScanEnd
  PROVE  LeadingIsRight' /\ ScanIsRight' /\ AcceptedIsNumber'
<1>0. /\ data \in Seq(Bytes) /\ off \in 0..Len(data) /\ phase = "number"
      /\ scan \in States /\ Scanned(scan, data, off)
  BY Zenon DEF NInv, IInv, TypeOK, ScanIsRight, ScanByte, ScanEnd
<1>1. CASE ScanEnd
  <2>1. /\ off' = off /\ data' = data /\ kind' = kind /\ scan' = scan /\ phase' = "done"
        /\ \/ result' = Failed
           \/ result' = Convert(SubSeq(data, 1, off)) /\ scan \in Complete /\ AtEnd
    BY <1>1, Zenon DEF ScanEnd, Finish
  <2>2. LeadingIsRight' /\ ScanIsRight'
    BY <1>0, <2>1, Zenon DEF LeadingIsRight, ScanIsRight
  <2>3. AcceptedIsNumber'
    BY <1>0, <2>1, NumberEndsRight, Zenon
  <2> QED BY <2>2, <2>3
<1>2. CASE ScanByte
  <2> DEFINE next == ScanNext(scan, Here)
  <2>1. next \in States \cup {"bad", "end"} /\ (next = "end" => scan \in Complete)
    BY <1>0, ScanSteps, Zenon
  <2>2. CASE next = "bad"
    <3>1. /\ off' = off /\ data' = data /\ kind' = kind /\ scan' = scan /\ phase' = "done"
          /\ result' = Failed
      BY <1>2, <2>2, Zenon DEF ScanByte, Finish
    <3> QED BY <1>0, <3>1, NumberEndsRight, Zenon DEF LeadingIsRight, ScanIsRight
  <2>3. CASE next = "end"
    <3>1. /\ off' = off /\ data' = data /\ kind' = kind /\ scan' = scan /\ phase' = "done"
          /\ \/ result' = Failed
             \/ result' = Convert(SubSeq(data, 1, off)) /\ Here \in Terminators
      BY <1>2, <2>3, Zenon DEF ScanByte, Finish
    <3> QED BY <1>0, <2>1, <2>3, <3>1, NumberEndsRight, Zenon DEF LeadingIsRight, ScanIsRight
  <2>4. CASE next \in States
    <3>1. next # "bad" /\ next # "end"
      BY <2>4, Zenon DEF States
    <3>2. off' = off + 1 /\ data' = data /\ scan' = next /\ phase' = "number" /\ ~ AtEnd
      BY <1>2, <3>1, Zenon DEF ScanByte, Goto
    <3>3. off \in Nat /\ off < Len(data)
      BY <1>0, <3>2 DEF AtEnd
    <3>4. Scanned(next, data, off + 1)
      BY <1>0, <2>4, <3>3, ScanAdvances, Zenon DEF Here
    <3>5. ScanIsRight'
      BY <2>4, <3>2, <3>4, Zenon DEF ScanIsRight
    <3> QED BY <3>2, <3>5, Zenon DEF LeadingIsRight, AcceptedIsNumber
  <2> QED BY <2>1, <2>2, <2>3, <2>4, Zenon
<1> QED BY <1>1, <1>2

LEMMA StringKeepsScan ==
  ASSUME NInv, StringByte
  PROVE  LeadingIsRight' /\ ScanIsRight' /\ AcceptedIsNumber'
<1>0. /\ kind' = kind /\ data' = data /\ scan' = scan /\ Quoted' /\ scan \in States
      /\ \/ phase' = "string"
         \/ phase' = "done" /\ result' = Failed
         \/ phase' = "done" /\ result' = Convert(SubSeq(data, 2, off))
  BY Zenon DEF NInv, IInv, Opened, ScanIsRight, StringByte, Goto, Finish, Quoted
<1>1. LeadingIsRight' /\ ScanIsRight'
  BY <1>0, Zenon DEF LeadingIsRight, ScanIsRight
<1>2. result' = Convert(SubSeq(data, 2, off)) /\ result'.ok => InRange(result.value)'
  BY <1>0, RangeOfConvert, RangeStays, Zenon
<1>3. AcceptedIsNumber'
  <2>1. ~ Failed.ok  BY DEF Failed
  <2> QED BY <1>0, <1>2, <2>1, Zenon DEF AcceptedIsNumber
<1> QED BY <1>1, <1>3

LEMMA NextKeepsScan ==
  ASSUME WidthAssumption, NInv, [Next]_vars
  PROVE  NInv'
<1>1. IInv'
  BY NextKeeps DEF NInv
<1>2. LeadingIsRight' /\ ScanIsRight' /\ AcceptedIsNumber'
  <2>1. CASE UNCHANGED vars
    BY <2>1, Zenon DEF vars, NInv, LeadingIsRight, ScanIsRight, AcceptedIsNumber,
       SignLength, Quoted, Consumed, InRange, Low, High, AtEnd, Here
  <2>2. CASE Reveal  BY <2>2, RevealKeepsScan
  <2>3. CASE Begin \/ SimpleFirst \/ SimpleGiveUp  BY <2>3, OpenKeepsScan
  <2>4. CASE SimpleDigit  BY <2>4, DigitKeepsScan
  <2>5. CASE SimpleEnd  BY <2>5, EndKeepsScan
  <2>6. CASE ScanByte \/ ScanEnd  BY <2>6, ScanKeepsScan
  <2>7. CASE StringByte  BY <2>7, StringKeepsScan
  <2> QED BY <2>1, <2>2, <2>3, <2>4, <2>5, <2>6, <2>7, Zenon DEF Next
<1> QED BY <1>1, <1>2 DEF NInv

\* A value that is returned lies in the field's width, and outside a string what was
\* consumed is one JSON number that ends where the input or the value ends: the
\* digits loop of readSimpleInt64Token and the scan of readJSONNumberToken stop
\* nowhere else.
THEOREM JustNumbersAreAccepted ==
  ASSUME WidthAssumption
  PROVE  Spec => []AcceptedIsNumber
<1>1. Init => NInv
  BY InitIsScanned
<1>2. NInv /\ [Next]_vars => NInv'
  BY NextKeepsScan
<1>3. NInv => AcceptedIsNumber
  BY DEF NInv
<1> QED BY <1>1, <1>2, <1>3, PTL DEF Spec

-----------------------------------------------------------------------------
(***************************************************************************)
(* Dates: the arithmetic of daysSinceUnixEpoch against the calendar of     *)
(* CivilTime, for every year there is.  Where the calendar stands is a     *)
(* function of its year (CalendarInv), so the formula is compared with     *)
(* another formula, in years from January.                                 *)
(***************************************************************************)

\* Leap years before y, from year 0.
LeapYears(y) == (y + 3) \div 4 - (y + 99) \div 100 + (y + 399) \div 400
IsLeap(y) == y % 4 = 0 /\ (y % 100 # 0 \/ y % 400 = 0)
CalendarInv ==
  /\ year \in Nat
  /\ newYear = 365 * year + LeapYears(year) - 719528
  /\ leap = [now |-> IsLeap(year), four |-> 4 - (year % 4),
             hundred |-> 100 - (year % 100), fourHundred |-> 400 - (year % 400)]

\* A quotient is whole.
LEMMA QuotientsAreWhole ==
  ASSUME NEW a \in Int
  PROVE  a \div 4 \in Int /\ a \div 5 \in Int /\ a \div 100 \in Int /\ a \div 400 \in Int
OBVIOUS

LEMMA GoDivides ==
  ASSUME NEW a \in Nat
  PROVE  /\ Quo(a, 4) = a \div 4 /\ Rem(a, 4) = a % 4
         /\ Quo(a, 5) = a \div 5
         /\ Quo(a, 100) = a \div 100 /\ Rem(a, 100) = a % 100
         /\ Quo(a, 400) = a \div 400 /\ Rem(a, 400) = a % 400
<1>1. Quo(a, 4) = a \div 4 /\ Rem(a, 4) = a % 4
  BY SMT DEF Quo, Rem
<1>2. Quo(a, 5) = a \div 5
  BY SMT DEF Quo
<1>3. Quo(a, 100) = a \div 100 /\ Rem(a, 100) = a % 100
  BY SMT DEF Quo, Rem
<1>4. Quo(a, 400) = a \div 400 /\ Rem(a, 400) = a % 400
  BY SMT DEF Quo, Rem
<1> QED BY <1>1, <1>2, <1>3, <1>4

LEMMA GoKnowsLeapYears ==
  ASSUME NEW y \in Nat
  PROVE  isLeapYear(y) = IsLeap(y)
<1>1. /\ Rem(y, 4) = y % 4 /\ Rem(y, 100) = y % 100
      /\ Rem(y, 400) = y % 400
  BY SMT DEF Quo, Rem
<1> QED BY <1>1 DEF isLeapYear, IsLeap

\* The rules of the calendar meet: a century is a fourth year.
LEMMA YearAfter ==
  ASSUME NEW y \in Nat
  PROVE  /\ (y + 1) % 4 = IF y % 4 = 3 THEN 0 ELSE (y % 4) + 1
         /\ (y + 1) % 100 = IF y % 100 = 99 THEN 0 ELSE (y % 100) + 1
         /\ (y + 1) % 400 = IF y % 400 = 399 THEN 0 ELSE (y % 400) + 1
         /\ y % 400 = 399 => y % 100 = 99
         /\ y % 100 = 99 => y % 4 = 3
         /\ LeapYears(y + 1) = LeapYears(y) + IF IsLeap(y) THEN 1 ELSE 0
<1>1. (y + 1) % 4 = IF y % 4 = 3 THEN 0 ELSE (y % 4) + 1 OBVIOUS
<1>2. (y + 1) % 100 = IF y % 100 = 99 THEN 0 ELSE (y % 100) + 1 OBVIOUS
<1>3. (y + 1) % 400 = IF y % 400 = 399 THEN 0 ELSE (y % 400) + 1 OBVIOUS
<1>4. y % 400 = 399 => y % 100 = 99 OBVIOUS
<1>5. y % 100 = 99 => y % 4 = 3 OBVIOUS
<1>6. (y + 4) \div 4 = (y + 3) \div 4 + IF y % 4 = 0 THEN 1 ELSE 0 OBVIOUS
<1>7. (y + 100) \div 100 = (y + 99) \div 100 + IF y % 100 = 0 THEN 1 ELSE 0 OBVIOUS
<1>8. (y + 400) \div 400 = (y + 399) \div 400 + IF y % 400 = 0 THEN 1 ELSE 0 OBVIOUS
<1>9. (y % 400 = 0 => y % 100 = 0) /\ (y % 100 = 0 => y % 4 = 0) OBVIOUS
<1>10. LeapYears(y + 1) = LeapYears(y) + IF IsLeap(y) THEN 1 ELSE 0
  BY <1>6, <1>7, <1>8, <1>9 DEF LeapYears, IsLeap
<1> QED BY <1>1, <1>2, <1>3, <1>4, <1>5, <1>10

LEMMA YearsBefore ==
  ASSUME NEW y \in Int, y >= -1
  PROVE  LeapYears(y + 1) = y \div 4 - y \div 100 + y \div 400 + 1
<1>1. /\ (y + 1 + 3) \div 4 = y \div 4 + 1 /\ (y + 1 + 99) \div 100 = y \div 100 + 1
      /\ (y + 1 + 399) \div 400 = y \div 400 + 1
  OBVIOUS
<1> QED BY <1>1, QuotientsAreWhole, SMT DEF LeapYears

LEMMA CalendarStart == CalendarInit => CalendarInv
<1> SUFFICES ASSUME CalendarInit PROVE CalendarInv OBVIOUS
<1>1. year = 0 /\ newYear = 0 - 719528 BY SMT DEF CalendarInit
<1>2. /\ year % 4 = 0 /\ year % 100 = 0 /\ year % 400 = 0
      /\ (year + 3) \div 4 = 0 /\ (year + 99) \div 100 = 0 /\ (year + 399) \div 400 = 0
  BY <1>1, SMT
<1>3. LeapYears(year) = 0 BY <1>2, SMT DEF LeapYears
<1>4. IsLeap(year) = TRUE BY <1>2, SMT DEF IsLeap
<1>5. /\ 4 - (year % 4) = 4 /\ 100 - (year % 100) = 100
      /\ 400 - (year % 400) = 400
  BY <1>2, SMT
<1>6. leap = [now |-> IsLeap(year), four |-> 4 - (year % 4),
              hundred |-> 100 - (year % 100), fourHundred |-> 400 - (year % 400)]
  <2>1. leap = [now |-> TRUE, four |-> 4, hundred |-> 100, fourHundred |-> 400]
    BY SMT DEF CalendarInit
  <2> QED BY <1>4, <1>5, <2>1, Zenon
<1> QED BY <1>1, <1>3, <1>6, SMT DEF CalendarInv

LEMMA CalendarKeeps == CalendarInv /\ [NextYear]_calendar => CalendarInv'
<1> SUFFICES ASSUME CalendarInv, [NextYear]_calendar PROVE CalendarInv' OBVIOUS
<1>1. CASE UNCHANGED calendar BY <1>1 DEF calendar, CalendarInv
<1>2. CASE NextYear
  <2>1. /\ year \in Nat /\ year' = year + 1
        /\ newYear = 365 * year + LeapYears(year) - 719528
        /\ newYear' = newYear + (IF leap.now THEN 366 ELSE 365)
    BY <1>2 DEF NextYear, CalendarInv
  <2>2. /\ leap.now = IsLeap(year) /\ leap.four = 4 - (year % 4)
        /\ leap.hundred = 100 - (year % 100) /\ leap.fourHundred = 400 - (year % 400)
    BY DEF CalendarInv
  <2>3. LeapYears(year) \in Int BY <2>1 DEF LeapYears
  <2>4. newYear' = 365 * year' + LeapYears(year') - 719528
    <3>1. LeapYears(year') = LeapYears(year) + IF IsLeap(year) THEN 1 ELSE 0
      BY <2>1, YearAfter
    <3>2. newYear' = newYear + (IF IsLeap(year) THEN 366 ELSE 365) BY <2>1, <2>2
    <3> QED BY <2>1, <2>3, <3>1, <3>2, SMT
  <2>5. /\ Countdown(leap.four, 4) = 4 - (year' % 4)
        /\ Countdown(leap.hundred, 100) = 100 - (year' % 100)
        /\ Countdown(leap.fourHundred, 400) = 400 - (year' % 400)
    BY <2>1, <2>2, YearAfter DEF Countdown
  <2>6. ( \/ leap.four = 1 /\ leap.hundred # 1
          \/ leap.fourHundred = 1) = IsLeap(year')
    <3>1. /\ leap.four = 1 <=> year % 4 = 3
          /\ leap.hundred = 1 <=> year % 100 = 99
          /\ leap.fourHundred = 1 <=> year % 400 = 399
      BY <2>1, <2>2
    <3>2. /\ year % 4 = 3 <=> year' % 4 = 0
          /\ year % 100 = 99 <=> year' % 100 = 0
          /\ year % 400 = 399 <=> year' % 400 = 0
      BY <2>1
    <3>3. year' % 400 = 0 => year' % 4 = 0 BY <2>1
    <3>4. leap.fourHundred = 1 => leap.four = 1 BY <3>1, <3>2, <3>3
    <3>5. ( \/ leap.four = 1 /\ leap.hundred # 1
            \/ leap.fourHundred = 1) <=> IsLeap(year')
      BY <3>1, <3>2, <3>3, <3>4, Zenon DEF IsLeap
    <3> QED BY <3>5, Zenon DEF IsLeap
  <2>7. leap' = [now |-> IsLeap(year'), four |-> 4 - (year' % 4),
                 hundred |-> 100 - (year' % 100), fourHundred |-> 400 - (year' % 400)]
    BY <1>2, <2>5, <2>6 DEF NextYear
  <2> QED BY <2>1, <2>4, <2>7, SMT DEF CalendarInv
<1> QED BY <1>1, <1>2

\* Days of the year before a month.
DaysBefore(y) ==
  LET more == IF IsLeap(y) THEN 1 ELSE 0
  IN  <<0, 31, 59 + more, 90 + more, 120 + more, 151 + more, 181 + more, 212 + more,
        243 + more, 273 + more, 304 + more, 334 + more>>

LEMMA Months ==
  ASSUME CalendarInv, NEW m \in 1..12
  PROVE  /\ MonthStart(m) = newYear + DaysBefore(year)[m]
         /\ MonthLengths[m] = daysInMonth(year, m)
         /\ daysInMonth(year, m) \in 28..31
<1> DEFINE IsStart(f) ==
             f = [k \in 1..12 |-> IF k = 1 THEN newYear ELSE f[k - 1] + MonthLengths[k - 1]]
           g == [k \in 1..12 |-> newYear + DaysBefore(year)[k]]
           s == CHOOSE f : IsStart(f)
<1>1. year \in Nat /\ leap.now = IsLeap(year) /\ newYear \in Int
  BY DEF CalendarInv, LeapYears
<1>2. IsStart(g)
  <2>1. ASSUME NEW k \in 1..12
        PROVE  g[k] = IF k = 1 THEN newYear ELSE g[k - 1] + MonthLengths[k - 1]
    BY <1>1 DEF DaysBefore, MonthLengths
  <2> QED BY <2>1
<1>3. IsStart(s)
  <2> HIDE DEF IsStart, g
  <2> QED BY <1>2, Zenon
<1>4. \A k \in 1..12 : s[k] = g[k]
  <2> HIDE DEF s, g
  <2>1. s[1] = g[1] BY <1>2, <1>3
  <2>2. ASSUME NEW k \in 1..11, s[k] = g[k] PROVE s[k + 1] = g[k + 1]
    BY <1>2, <1>3, <2>2
  <2>3. s[2] = g[2] BY <2>1, <2>2
  <2>4. s[3] = g[3] BY <2>3, <2>2
  <2>5. s[4] = g[4] BY <2>4, <2>2
  <2>6. s[5] = g[5] BY <2>5, <2>2
  <2>7. s[6] = g[6] BY <2>6, <2>2
  <2>8. s[7] = g[7] BY <2>7, <2>2
  <2>9. s[8] = g[8] BY <2>8, <2>2
  <2>10. s[9] = g[9] BY <2>9, <2>2
  <2>11. s[10] = g[10] BY <2>10, <2>2
  <2>12. s[11] = g[11] BY <2>11, <2>2
  <2>13. s[12] = g[12] BY <2>12, <2>2
  <2> QED BY <2>1, <2>3, <2>4, <2>5, <2>6, <2>7, <2>8, <2>9, <2>10, <2>11, <2>12, <2>13
<1>5. MonthStart(m) = s[m] BY Zenon DEF MonthStart
<1>6. MonthStart(m) = newYear + DaysBefore(year)[m]
  <2> HIDE DEF s
  <2> QED BY <1>4, <1>5
<1>7. isLeapYear(year) = IsLeap(year) BY <1>1, GoKnowsLeapYears
<1>8. /\ MonthLengths[m] = daysInMonth(year, m)
      /\ daysInMonth(year, m) \in 28..31
  BY <1>1, <1>7 DEF MonthLengths, daysInMonth
<1> QED BY <1>6, <1>8

\* divFloor is the division of mathematics, by a positive number.
LEMMA Floor ==
  ASSUME NEW a \in Int, a >= -1
  PROVE  divFloor(a, 400) = a \div 400
<1>1. CASE a >= 0
  <2>1. Quo(a, 400) = a \div 400 /\ Rem(a, 400) = a % 400
    BY <1>1, GoDivides, SMT
  <2>2. a % 400 \in 0..399 BY SMT
  <2> QED BY <2>1, <2>2, SMT DEF divFloor
<1>2. CASE a < 0
  <2>1. a \div 400 = -1 /\ (-a) \div 400 = 0 BY <1>2, SMT
  <2>2. Quo(a, 400) = 0 BY <1>2, <2>1, SMT DEF Quo
  <2>3. Rem(a, 400) = a /\ a < 0 BY <1>2, <2>2, SMT DEF Rem
  <2> QED BY <1>2, <2>1, <2>2, <2>3, SMT DEF divFloor
<1> QED BY <1>1, <1>2

\* What the formula makes of the years before, which begin in March, in eras of
\* 400 of them.
ToMarch(era, yoe) == era * 146097 + yoe * 365 + Quo(yoe, 4) - Quo(yoe, 100)
EraOf(y) == y \div 400
YearOfEra(y) == y - 400 * (y \div 400)
DaysOf(y) == 365 * y + y \div 4 - y \div 100 + y \div 400

LEMMA MarchDays ==
  ASSUME NEW y \in Int, y >= -1
  PROVE  /\ EraOf(y) \in Int /\ YearOfEra(y) \in 0..399
         /\ ToMarch(EraOf(y), YearOfEra(y)) = DaysOf(y)
<1> DEFINE era == EraOf(y)  yoe == YearOfEra(y)
<1>1. /\ era \in Int /\ yoe \in 0..399 /\ y = 400 * era + yoe
      /\ era = y \div 400
  BY DEF EraOf, YearOfEra
<1> HIDE DEF era, yoe
<1>2. Quo(yoe, 4) = yoe \div 4 /\ Quo(yoe, 100) = yoe \div 100
  BY <1>1, SMT DEF Quo
<1>3. y \div 4 = 100 * era + yoe \div 4 /\ y \div 100 = 4 * era + yoe \div 100
  <2>1. (400 * era + yoe) \div 4 = 100 * era + yoe \div 4 BY <1>1
  <2>2. (400 * era + yoe) \div 100 = 4 * era + yoe \div 100 BY <1>1
  <2> QED BY <1>1, <2>1, <2>2
<1>4. yoe \div 4 \in Int /\ yoe \div 100 \in Int BY <1>1
<1>5. ToMarch(era, yoe) = DaysOf(y)
  <2>1. ToMarch(era, yoe) = era * 146097 + yoe * 365 + yoe \div 4 - yoe \div 100
    BY <1>2, SMT DEF ToMarch
  <2>2. DaysOf(y) = 365 * (400 * era + yoe) + (100 * era + yoe \div 4)
                      - (4 * era + yoe \div 100) + era
    BY <1>1, <1>3, SMT DEF DaysOf
  <2> QED BY <1>1, <1>4, <2>1, <2>2, SMT
<1> QED BY <1>1, <1>5, Zenon DEF era, yoe

LEMMA Counted ==
  ASSUME CalendarInv, NEW m \in 1..12, NEW d \in Int
  PROVE  daysSinceUnixEpoch(year, m, d) = MonthStart(m) + d - 1
<1> DEFINE y == IF m <= 2 THEN year - 1 ELSE year
           mp == IF m > 2 THEN m - 3 ELSE m + 9
           e == MarchYear(year, m).era
           o == MarchYear(year, m).yoe
<1>1. year \in Nat /\ y \in Int /\ y >= -1 BY DEF CalendarInv
<1>2. e = y \div 400 /\ o = y - 400 * e BY <1>1, Floor DEF MarchYear
<1>3. mp \in 0..11 /\ Quo(153 * mp + 2, 5) = (153 * mp + 2) \div 5
  BY GoDivides
<1>4. e \in Int /\ o \in 0..399 /\ ToMarch(e, o) = 365 * y + y \div 4 - y \div 100 + y \div 400
  <2> HIDE DEF y, e, o
  <2>1. y \in Int /\ y >= -1 BY <1>1
  <2>2. e = EraOf(y) /\ o = YearOfEra(y) BY <1>2 DEF EraOf, YearOfEra
  <2> QED BY <2>1, <2>2, MarchDays DEF DaysOf
<1>5. /\ e \in Int /\ o \in Nat /\ y \div 4 \in Int /\ y \div 100 \in Int /\ y \div 400 \in Int
      /\ Quo(o, 4) \in Int /\ Quo(o, 100) \in Int
      /\ (153 * mp + 2) \div 5 \in Int
  <2>1. o \in 0..399 /\ e \in Int BY <1>4
  <2>2. Quo(o, 4) \in Int /\ Quo(o, 100) \in Int
    <3> HIDE DEF o
    <3> QED BY <2>1, SMT DEF Quo
  <2>3. y \div 4 \in Int /\ y \div 100 \in Int /\ y \div 400 \in Int
    BY <1>1, QuotientsAreWhole
  <2>4. (153 * mp + 2) \div 5 \in Int
    <3> HIDE DEF mp
    <3> QED BY <1>3, SMT
  <2> QED BY <2>1, <2>2, <2>3, <2>4
<1>6. daysSinceUnixEpoch(year, m, d) =
        365 * y + y \div 4 - y \div 100 + y \div 400 + (153 * mp + 2) \div 5 + d - 1 - 719468
  <2> HIDE DEF y, mp
  <2>1. daysSinceUnixEpoch(year, m, d) =
          e * 146097 + (o * 365 + Quo(o, 4) - Quo(o, 100)
            + (Quo(153 * mp + 2, 5) + d - 1)) - 719468
    BY DEF daysSinceUnixEpoch, mp
  <2> HIDE DEF e, o
  <2> QED BY <1>3, <1>4, <1>5, <2>1, SMT DEF ToMarch
<1>7. MonthStart(m) = 365 * year + LeapYears(year) - 719528 + DaysBefore(year)[m]
  BY Months DEF CalendarInv
<1>8. 365 * y + y \div 4 - y \div 100 + y \div 400 + (153 * mp + 2) \div 5 - 719468
        = 365 * year + LeapYears(year) - 719528 + DaysBefore(year)[m]
  <2> DEFINE more == IF IsLeap(year) THEN 1 ELSE 0
  <2>1. CASE m <= 2
    <3>1. y = year - 1 /\ y \div 4 \in Int /\ y \div 100 \in Int /\ y \div 400 \in Int
      BY <1>1, <2>1
    <3>2. LeapYears(year) = y \div 4 - y \div 100 + y \div 400 + 1
      BY <1>1, <3>1, YearsBefore
    <3>3. (153 * mp + 2) \div 5 = 306 + DaysBefore(year)[m] /\ DaysBefore(year)[m] \in Int
      BY <2>1 DEF DaysBefore
    <3> HIDE DEF y, mp
    <3> QED BY <1>1, <3>1, <3>2, <3>3, SMT
  <2>2. CASE m > 2
    <3>1. y = year /\ y \div 4 \in Int /\ y \div 100 \in Int /\ y \div 400 \in Int
      BY <1>1, <2>2
    <3>2. LeapYears(year) + more = y \div 4 - y \div 100 + y \div 400 + 1
      BY <1>1, <3>1, YearAfter, YearsBefore
    <3>3. more \in Int /\ LeapYears(year) \in Int BY <1>1, QuotientsAreWhole DEF LeapYears
    <3>4. DaysBefore(year)[m] = 59 + more + (153 * mp + 2) \div 5
      <4>1. m \in 3..12 /\ more \in Int BY <2>2
      <4>2. DaysBefore(year)[m] = <<0, 31, 59 + more, 90 + more, 120 + more, 151 + more,
               181 + more, 212 + more, 243 + more, 273 + more, 304 + more, 334 + more>>[m]
        BY DEF DaysBefore
      <4> HIDE DEF more
      <4> QED BY <4>1, <4>2
    <3>5. (153 * mp + 2) \div 5 \in Int BY <1>3
    <3> HIDE DEF y, mp, more
    <3> QED BY <1>1, <3>1, <3>2, <3>3, <3>4, <3>5, SMT
  <2> QED BY <2>1, <2>2
<1>9. LeapYears(year) \in Int /\ DaysBefore(year)[m] \in Int
  BY <1>1, QuotientsAreWhole DEF LeapYears, DaysBefore
<1> HIDE DEF y, mp, e, o
<1> QED BY <1>1, <1>5, <1>6, <1>7, <1>8, <1>9, SMT

\* daysSinceUnixEpoch counts days: for every date of every year it gives the number
\* that turning the calendar over, year by year, arrives at.
THEOREM DatesAreCounted == CalendarSpec => []DaysAreCounted
<1>1. ASSUME CalendarInv PROVE DaysAreCounted
  <2> SUFFICES ASSUME NEW m \in 1..12, NEW d \in {1, MonthLengths[m]}
               PROVE  daysSinceUnixEpoch(year, m, d) = MonthStart(m) + d - 1
    BY DEF DaysAreCounted
  <2>1. d \in Int BY <1>1, Months
  <2> QED BY <1>1, <2>1, Counted
<1> QED BY <1>1, CalendarStart, CalendarKeeps, PTL DEF CalendarSpec

\* Instants of years 1 to 9999 are those a Timestamp can hold.
LEMMA YearsInRange ==
  ASSUME CalendarInv, year <= 9999, NEW m \in 1..12, NEW d \in 1..daysInMonth(year, m)
  PROVE  LET day == MonthStart(m) + d - 1
         IN  (day >= -719162 /\ day <= 2932896) <=> year >= 1
<1> DEFINE b == DaysBefore(year)[m]
<1>1. /\ year \in Nat /\ newYear = 365 * year + LeapYears(year) - 719528
      /\ MonthStart(m) = newYear + b
  BY Months DEF CalendarInv
<1>2. d \in Nat /\ d >= 1 /\ b \in Nat /\ b + d <= 366
  <2>1. isLeapYear(year) = IsLeap(year) BY <1>1, GoKnowsLeapYears
  <2> QED BY <2>1, SMT DEF DaysBefore, daysInMonth
<1>3. LeapYears(year) \in Int BY <1>1, QuotientsAreWhole DEF LeapYears
<1>4. year = 0 => LeapYears(year) = 0
  BY <1>1, SMT DEF LeapYears
<1>5. year >= 1 => LeapYears(year) >= 1
  BY <1>1, SMT DEF LeapYears
<1>6. year <= 9999 => LeapYears(year) <= 2425
  BY <1>1, SMT DEF LeapYears
<1>7. year = 9999 => b + d <= 365
  <2>1. isLeapYear(year) = IsLeap(year) BY <1>1, GoKnowsLeapYears
  <2>2. year = 9999 => year % 4 # 0 BY <1>1, SMT
  <2> QED BY <2>1, <2>2, SMT DEF DaysBefore, daysInMonth, IsLeap
<1> HIDE DEF b
<1> QED BY <1>1, <1>2, <1>3, <1>4, <1>5, <1>6, <1>7, SMT

\* ParseUTCTimestampBytes takes just the dates of the calendar in years 1 to 9999
\* with a time on the clock, and takes them for the instant they name: what the
\* field checks let pass the range check lets pass too, and the other way round.
THEOREM JustDatesAreRead ==
  ASSUME LastYearAssumption, TextAssumption
  PROVE  CalendarSpec => []DatesAreReal
<1> DEFINE Bound == year <= 9999
<1>1. CalendarInit => Bound BY SMT DEF CalendarInit
<1>2. Bound /\ CalendarInv /\ [NextYear]_calendar => Bound'
  <2> SUFFICES ASSUME Bound, CalendarInv, [NextYear]_calendar PROVE Bound' OBVIOUS
  <2>1. year \in Nat /\ LastYear \in Nat /\ LastYear <= 9999
    BY DEF CalendarInv, LastYearAssumption
  <2>2. CASE NextYear
    BY <2>1, <2>2, SMT DEF NextYear
  <2>3. CASE UNCHANGED calendar BY <2>3, SMT DEF calendar
  <2> QED BY <2>2, <2>3
<1>3. ASSUME CalendarInv, Bound PROVE DatesAreReal
  <2> DEFINE lastDay(m) == IF m \in 1..12 THEN MonthLengths[m] ELSE 0
             start(m) == IF m \in 1..12 THEN MonthStart(m) ELSE 0
             real(m, w) ==
               /\ year \in Years
               /\ w.day \in 1..lastDay(m)
               /\ w.hour \in 0..23 /\ w.minute \in 0..59 /\ w.second \in 0..59
             instant(m, w) ==
               [day |-> start(m) + w.day - 1, second |-> (w.hour * 60 + w.minute) * 60 + w.second]
  <2> SUFFICES ASSUME NEW m \in 0..13, NEW w \in Moments
               PROVE  ParseUTCTimestamp(year, m, w.day, w.hour, w.minute, w.second) =
                        IF real(m, w) THEN instant(m, w) ELSE InvalidTime
    BY Zenon DEF DatesAreReal
  <2>1. /\ w.day \in Nat /\ w.hour \in Nat /\ w.minute \in Nat /\ w.second \in Nat /\ year \in Nat
    BY <1>3 DEF TextAssumption, CalendarInv
  <2> DEFINE t == [day |-> daysSinceUnixEpoch(year, m, w.day),
                   second |-> w.hour * 3600 + w.minute * 60 + w.second]
             bad == \/ m < 1 \/ m > 12 \/ w.day < 1 \/ w.day > daysInMonth(year, m)
                    \/ w.hour > 23 \/ w.minute > 59 \/ w.second > 59
                    \/ ~ ValidateTimestamp(t)
  <2>2. ParseUTCTimestamp(year, m, w.day, w.hour, w.minute, w.second) =
          IF bad THEN InvalidTime ELSE t
    BY Zenon DEF ParseUTCTimestamp
  <2>3. CASE m \in 1..12
    <3>1. /\ MonthLengths[m] = daysInMonth(year, m)
          /\ daysInMonth(year, m) \in 28..31
      BY <1>3, <2>3, Months
    <3>2. t.day = MonthStart(m) + w.day - 1 BY <1>3, <2>1, <2>3, Counted
    <3>3. w.day \in 1..daysInMonth(year, m)
            => (ValidateTimestamp(t) <=> year >= 1)
      <4> SUFFICES ASSUME w.day \in 1..daysInMonth(year, m)
                   PROVE  ValidateTimestamp(t) <=> year >= 1
        OBVIOUS
      <4>1. (MonthStart(m) + w.day - 1 >= -719162 /\ MonthStart(m) + w.day - 1 <= 2932896)
              <=> year >= 1
        BY <1>3, <2>3, YearsInRange, SMT
      <4> HIDE DEF t
      <4> QED BY <3>2, <4>1, SMT DEF ValidateTimestamp
    <3>4. ~ bad <=> real(m, w)
      <4>1. lastDay(m) = daysInMonth(year, m) BY <2>3, <3>1
      <4> DEFINE l == lastDay(m)
      <4>2. /\ l \in 28..31 /\ l = daysInMonth(year, m)
            /\ real(m, w) <=>
                 /\ year \in Years /\ w.day \in 1..l
                 /\ w.hour \in 0..23 /\ w.minute \in 0..59 /\ w.second \in 0..59
        BY <3>1, <4>1
      <4> HIDE DEF t, l, real
      <4>3. w.day \in 1..l <=> ~ (w.day < 1 \/ w.day > daysInMonth(year, m)) BY <2>1, <4>2, SMT
      <4>4. year \in Years <=> year >= 1
        <5>1. year >= 1 => year \in Years BY <1>3, <2>1, SMT DEF Years
        <5>2. year \in Years => year >= 1 BY <2>1, SMT DEF Years
        <5> QED BY <5>1, <5>2
      <4>5. /\ w.hour \in 0..23 <=> ~ (w.hour > 23)
            /\ w.minute \in 0..59 <=> ~ (w.minute > 59)
            /\ w.second \in 0..59 <=> ~ (w.second > 59)
        BY <2>1, SMT
      <4>6. ~ (m < 1) /\ ~ (m > 12) BY <2>3, SMT
      <4>7. w.day \in 1..l => (ValidateTimestamp(t) <=> year >= 1) BY <3>3, <4>2, SMT
      <4> QED BY <4>2, <4>3, <4>4, <4>5, <4>6, <4>7, SMT
    <3>5. t = instant(m, w)
      <4>1. w.hour * 3600 + w.minute * 60 + w.second = (w.hour * 60 + w.minute) * 60 + w.second
        BY <2>1, SMT
      <4>2. start(m) = MonthStart(m) BY <2>3
      <4> QED BY <3>2, <4>1, <4>2
    <3> HIDE DEF bad, real, instant, t
    <3> QED BY <2>2, <3>4, <3>5, Zenon
  <2>4. CASE m \notin 1..12
    <3>1. bad BY <2>4
    <3>2. lastDay(m) = 0 BY <2>4, Zenon
    <3>3. ~ real(m, w) BY <2>1, <3>2
    <3> HIDE DEF bad, real, instant, t
    <3> QED BY <2>2, <3>1, <3>3, Zenon
  <2> QED BY <2>3, <2>4
<1> QED BY <1>1, <1>2, <1>3, CalendarStart, CalendarKeeps, PTL DEF CalendarSpec
-----------------------------------------------------------------------------
(***************************************************************************)
(* Durations: the digits that are written and read, what a text is taken   *)
(* apart into, and that both are the amount of the text.                   *)
(***************************************************************************)

(* Durations: what digits stand for *)

\* What holds at 0 and is passed on from each number to the next holds up to n.
LEMMA Climb ==
  ASSUME NEW n \in Nat, NEW P, 0 \in P, \A k \in 0..(n - 1) : k \in P => k + 1 \in P
  PROVE  \A k \in 0..n : k \in P
<1> DEFINE T == {k \in Nat : k <= n /\ k \notin P}
<1> SUFFICES ASSUME T # {} PROVE FALSE OBVIOUS
<1>1. PICK m \in T : \A y \in T : ~ (<<y, m>> \in OpToRel(<, Nat))
  <2>1. T \subseteq Nat OBVIOUS
  <2> HIDE DEF T
  <2> QED BY <2>1, WFMin, NatLessThanWellFounded
<1>2. m \in Nat /\ m <= n /\ m \notin P /\ m # 0 OBVIOUS
<1>3. m - 1 \in 0..(n - 1) /\ m - 1 < m /\ (m - 1) + 1 = m BY <1>2
<1>4. m - 1 \notin P BY <1>2, <1>3
<1>5. m - 1 \in T BY <1>2, <1>3, <1>4
<1>6. <<m - 1, m>> \in OpToRel(<, Nat) BY <1>2, <1>3 DEF OpToRel
<1> QED BY <1>1, <1>5, <1>6

\* Digits stand for a number.
LEMMA DigitsStand ==
  ASSUME NEW S, NEW t \in Seq(S), AllDigits(t)
  PROVE  \E v \in Nat : StandsFor(t, v)
<1> DEFINE n == Len(t)
           P == {k \in 0..n : \E v \in Nat : StandsFor(Part(t, 0, k), v)}
<1>1. n \in Nat /\ DOMAIN t = 1..n OBVIOUS
<1>2. Part(t, 0, 0) = <<>> BY SMT DEF Part
<1>3. 0 \in P BY <1>1, <1>2, EmptyStands
<1>4. ASSUME NEW k \in 0..(n - 1), k \in P PROVE k + 1 \in P
  <2>1. PICK v \in Nat : StandsFor(Part(t, 0, k), v) BY <1>4
  <2>2. k \in 0..n /\ k + 1 \in 0..n /\ k + 1 \in 1..n BY <1>1
  <2>3. /\ Part(t, 0, k) \in Seq(S)
        /\ Part(t, 0, k + 1) = Append(Part(t, 0, k), t[k + 1])
    BY <2>2, SMT DEF Part
  <2>4. t[k + 1] \in S /\ t[k + 1] \in Digits BY <1>1, <2>2 DEF AllDigits
  <2>5. StandsFor(Part(t, 0, k + 1), 10 * v + DigitOf[t[k + 1]])
    BY <2>1, <2>3, <2>4, AppendStands
  <2>6. DigitOf[t[k + 1]] \in 0..9 BY <2>4, DigitFacts, Zenon
  <2>7. 10 * v + DigitOf[t[k + 1]] \in Nat BY <2>6
  <2> QED BY <2>2, <2>5, <2>7
<1>5. n \in P
  <2> HIDE DEF P, n
  <2> QED BY <1>1, <1>3, <1>4, Climb
<1>6. Part(t, 0, n) = t BY SMT DEF Part
<1> QED BY <1>5, <1>6

\* The number they stand for, and the one that they and one more stand for.
LEMMA NumberOf ==
  ASSUME NEW S, NEW t \in Seq(S), AllDigits(t)
  PROVE  /\ Naturally(t) \in Nat
         /\ \A c \in S : Naturally(Append(t, c)) = 10 * Naturally(t) + DigitOf[c]
<1>1. PICK v \in Nat : StandsFor(t, v) BY DigitsStand
<1>2. Naturally(t) = v BY <1>1, NaturallyStands
<1>3. \A c \in S : StandsFor(Append(t, c), 10 * v + DigitOf[c]) BY <1>1, AppendStands
<1> QED BY <1>2, <1>3, NaturallyStands
LEMMA NoDigits == Naturally(<<>>) = 0
BY EmptyStands, NaturallyStands

\* Prefixes of digits, by one more of them.
LEMMA PrefixNumber ==
  ASSUME NEW S, NEW t \in Seq(S), AllDigits(t), NEW k \in 0..(Len(t) - 1)
  PROVE  /\ t[k + 1] \in Digits /\ DigitOf[t[k + 1]] \in 0..9
         /\ Naturally(Part(t, 0, k)) \in Nat
         /\ Naturally(Part(t, 0, k + 1)) = 10 * Naturally(Part(t, 0, k)) + DigitOf[t[k + 1]]
<1>1. k \in 0..Len(t) /\ k + 1 \in 1..Len(t) /\ DOMAIN t = 1..Len(t) OBVIOUS
<1>2. /\ Part(t, 0, k) \in Seq(S)
      /\ Part(t, 0, k + 1) = Append(Part(t, 0, k), t[k + 1])
  BY <1>1, SMT DEF Part
<1>3. AllDigits(Part(t, 0, k))
  <2>1. \A p \in (0 + 1)..k : t[p] \in Digits BY <1>1 DEF AllDigits
  <2>2. 0 \in 0..Len(t) /\ k \in 0..Len(t) BY <1>1
  <2>3. AllDigits(Part(t, 0, k)) <=> \A p \in (0 + 1)..k : t[p] \in Digits
    BY <2>2, PartOf
  <2> QED BY <2>1, <2>3
<1>4. t[k + 1] \in S /\ t[k + 1] \in Digits BY <1>1 DEF AllDigits
<1> QED BY <1>2, <1>3, <1>4, NumberOf, DigitFacts
LEMMA Whole0 ==
  ASSUME NEW S, NEW t \in Seq(S)
  PROVE  Part(t, 0, 0) = <<>> /\ Part(t, 0, Len(t)) = t
BY SMT DEF Part

\* Powers of ten.
LEMMA Tens ==
  /\ TenTo(0) = 1
  /\ \A k \in Nat : TenTo(k) \in Nat \ {0} /\ TenTo(k + 1) = 10 * TenTo(k)
<1> DEFINE z(k) == [i \in 1..(k + 1) |-> IF i = 1 THEN "1" ELSE "0"]
<1>0. "0" \in Digits /\ "1" \in Digits /\ DigitOf["0"] = 0 /\ DigitOf["1"] = 1
  BY DEF Digits, DigitOf
<1>1. \A k \in Nat : z(k) \in Seq(Digits) /\ AllDigits(z(k))
                    /\ z(k + 1) = Append(z(k), "0")
  <2> TAKE k \in Nat
  <2>1. z(k) \in Seq(Digits) BY <1>0
  <2>2. AllDigits(z(k)) BY <1>0 DEF AllDigits
  <2>3. z(k + 1) = Append(z(k), "0") BY <2>1
  <2> QED BY <2>1, <2>2, <2>3
<1>2. z(0) = Append(<<>>, "1") OBVIOUS
<1>3. <<>> \in Seq(Digits) /\ AllDigits(<<>>) BY DEF AllDigits
<1> HIDE DEF z
<1>4. Naturally(z(0)) = 1
  <2>1. Naturally(Append(<<>>, "1")) = 10 * Naturally(<<>>) + DigitOf["1"]
    BY <1>0, <1>3, NumberOf
  <2> QED BY <1>0, <1>2, <2>1, NoDigits
<1>5. \A k \in Nat : Naturally(z(k)) \in Nat /\ Naturally(z(k + 1)) = 10 * Naturally(z(k))
  <2> TAKE k \in Nat
  <2>1. z(k) \in Seq(Digits) /\ AllDigits(z(k)) /\ z(k + 1) = Append(z(k), "0") BY <1>1
  <2>2. /\ Naturally(z(k)) \in Nat
        /\ Naturally(Append(z(k), "0")) = 10 * Naturally(z(k)) + DigitOf["0"]
    BY <1>0, <2>1, NumberOf
  <2>3. Naturally(z(k + 1)) = 10 * Naturally(z(k)) + 0 BY <1>0, <2>1, <2>2, Zenon
  <2> DEFINE x == Naturally(z(k))
  <2>4. x \in Nat /\ Naturally(z(k + 1)) = 10 * x + 0 BY <2>2, <2>3
  <2> HIDE DEF x
  <2>5. Naturally(z(k + 1)) = 10 * x BY <2>4
  <2> QED BY <2>4, <2>5 DEF x
<1>6. \A k \in Nat : TenTo(k) = Naturally(z(k)) BY Zenon DEF TenTo, z
<1>7. ASSUME NEW n \in Nat PROVE TenTo(n) # 0
  <2> DEFINE P == {k \in Nat : TenTo(k) # 0}
  <2>1. 0 \in P BY <1>4, <1>6
  <2>2. \A k \in 0..(n - 1) : k \in P => k + 1 \in P BY <1>5, <1>6
  <2> HIDE DEF P
  <2>3. n \in P BY <2>1, <2>2, Climb
  <2> QED BY <2>3 DEF P
<1>8. \A k \in Nat : k + 1 \in Nat OBVIOUS
<1> QED BY <1>4, <1>5, <1>6, <1>7, <1>8

LEMMA TensMultiply ==
  ASSUME NEW a \in Nat, NEW b \in Nat
  PROVE  TenTo(a + b) = TenTo(a) * TenTo(b)
<1> DEFINE P == {k \in Nat : TenTo(a + k) = TenTo(a) * TenTo(k)}
<1>1. 0 \in P BY Tens
<1>2. ASSUME NEW k \in 0..(b - 1), k \in P PROVE k + 1 \in P
  <2>1. a + (k + 1) = (a + k) + 1 /\ a + k \in Nat /\ k \in Nat OBVIOUS
  <2>2. TenTo(a + (k + 1)) = 10 * TenTo(a + k) /\ TenTo(k + 1) = 10 * TenTo(k) BY <2>1, Tens
  <2>3. TenTo(a + k) = TenTo(a) * TenTo(k) BY <1>2
  <2> DEFINE x == TenTo(a)  y == TenTo(k)
  <2>4. x \in Nat /\ y \in Nat BY <2>1, Tens
  <2> HIDE DEF x, y
  <2>5. 10 * (x * y) = x * (10 * y) BY <2>4, SMT
  <2> QED BY <2>1, <2>2, <2>3, <2>5 DEF x, y
<1> HIDE DEF P
<1>3. b \in P BY <1>1, <1>2, Climb
<1> QED BY <1>3 DEF P

LEMMA TensGrow == \A k \in Nat : k < TenTo(k)
<1> SUFFICES ASSUME NEW n \in Nat PROVE n < TenTo(n) OBVIOUS
<1> DEFINE P == {k \in Nat : k < TenTo(k)}
<1>1. 0 \in P BY Tens
<1>2. \A k \in 0..(n - 1) : k \in P => k + 1 \in P
  BY Tens
<1> HIDE DEF P
<1>3. n \in P BY <1>1, <1>2, Climb
<1> QED BY <1>3 DEF P

\* k digits stay below ten to the k.
LEMMA DigitsBound ==
  ASSUME NEW S, NEW t \in Seq(S), AllDigits(t)
  PROVE  Naturally(t) < TenTo(Len(t))
<1> DEFINE n == Len(t)
           P == {k \in 0..n : Naturally(Part(t, 0, k)) < TenTo(k)}
<1>1. n \in Nat OBVIOUS
<1>2. 0 \in P BY <1>1, Whole0, NoDigits, Tens
<1>3. ASSUME NEW k \in 0..(n - 1), k \in P PROVE k + 1 \in P
  <2>0. k \in Nat /\ k + 1 \in 0..n BY <1>1
  <2>1. k \in Nat /\ k + 1 \in 0..n /\ TenTo(k) \in Nat BY <2>0, Tens
  <2>2. /\ DigitOf[t[k + 1]] \in 0..9 /\ Naturally(Part(t, 0, k)) \in Nat
        /\ Naturally(Part(t, 0, k + 1)) = 10 * Naturally(Part(t, 0, k)) + DigitOf[t[k + 1]]
    BY PrefixNumber
  <2>3. TenTo(k + 1) = 10 * TenTo(k) BY <2>1, Tens
  <2> QED BY <1>3, <2>1, <2>2, <2>3
<1>4. n \in P
  <2> HIDE DEF P, n
  <2>1. \A k \in 0..(n - 1) : k \in P => k + 1 \in P BY <1>3, Zenon
  <2>2. \A k \in 0..n : k \in P BY <1>1, <1>2, <2>1, Climb, Zenon
  <2> QED BY <1>1, <2>2
<1> QED BY <1>4, Whole0
-----------------------------------------------------------------------------
(* Durations: the digits that are written *)

LEMMA ByteFacts ==
  /\ \A m \in 0..9 : ByteOf[m] \in Digits /\ DigitOf[ByteOf[m]] = m
  /\ \A c \in Digits : DigitOf[c] = 0 <=> c = "0"
<1>1. \A c \in Digits : DigitOf[c] = 0 <=> c = "0" BY DEF Digits, DigitOf
<1>2. ASSUME NEW m \in 0..9 PROVE ByteOf[m] \in Digits /\ DigitOf[ByteOf[m]] = m
  <2>1. ByteOf[m] = CHOOSE c \in Digits : DigitOf[c] = m BY <1>2 DEF ByteOf
  <2>2. \E c \in Digits : DigitOf[c] = m
    <3>1. m = 0 \/ m = 1 \/ m = 2 \/ m = 3 \/ m = 4 \/ m = 5 \/ m = 6 \/ m = 7 \/ m = 8 \/ m = 9
      BY <1>2
    <3>2. /\ {"0", "1", "2", "3", "4", "5", "6", "7", "8", "9"} \subseteq Digits
          /\ DigitOf["0"] = 0 /\ DigitOf["1"] = 1 /\ DigitOf["2"] = 2 /\ DigitOf["3"] = 3
          /\ DigitOf["4"] = 4 /\ DigitOf["5"] = 5 /\ DigitOf["6"] = 6 /\ DigitOf["7"] = 7
          /\ DigitOf["8"] = 8 /\ DigitOf["9"] = 9
      BY DEF Digits, DigitOf
    <3> QED BY <3>1, <3>2
  <2> QED BY <2>1, <2>2, Zenon
<1> QED BY <1>1, <1>2

\* Products and quotients of natural numbers.
LEMMA TimesKeepsOrder ==
  ASSUME NEW a \in Nat, NEW b \in Nat, NEW c \in Nat, a <= b
  PROVE  a * c <= b * c /\ a * c \in Nat
<1>1. (b - a) * c >= 0 BY SMT
<1>2. (b - a) * c = b * c - a * c BY SMT
<1> QED BY <1>1, <1>2
LEMMA QuotientIs ==
  ASSUME NEW a \in Nat, NEW b \in Nat \ {0}, NEW p \in Nat, b * p <= a, a < b * p + b
  PROVE  a \div b = p
<1> DEFINE q == a \div b
<1>1. q \in Nat /\ b * q <= a /\ a < b * q + b BY SMT
<1> HIDE DEF q
<1>2. CASE q < p
  <2>1. (q + 1) * b <= p * b BY <1>1, <1>2, TimesKeepsOrder
  <2>2. (q + 1) * b = b * q + b /\ p * b = b * p BY <1>1
  <2> QED BY <1>1, <2>1, <2>2
<1>3. CASE p < q
  <2>1. (p + 1) * b <= q * b BY <1>1, <1>3, TimesKeepsOrder
  <2>2. (p + 1) * b = b * p + b /\ q * b = b * q BY <1>1
  <2> QED BY <1>1, <2>1, <2>2
<1> QED BY <1>1, <1>2, <1>3 DEF q
LEMMA QuotientFacts ==
  ASSUME NEW n \in Nat, NEW d \in Nat \ {0}
  PROVE  /\ n \div d \in Nat
         /\ d * (n \div d) <= n /\ n < d * (n \div d) + d
         /\ n % d = 0 => (n \div d) * d = n
         /\ n \div (10 * d) = (n \div d) \div 10
<1> DEFINE q == n \div d
<1>1. q \in Nat /\ d * q <= n /\ n < d * q + d /\ n = d * q + (n % d) BY SMT
<1>2. d * q \in Nat /\ d * q = q * d BY <1>1
<1> HIDE DEF q
<1>3. n \div (10 * d) = q \div 10
  <2> DEFINE p == q \div 10
  <2>1. p \in Nat /\ 10 * p <= q /\ q <= 10 * p + 9 BY <1>1
  <2> HIDE DEF p
  <2>2. (10 * p) * d <= q * d /\ q * d <= (10 * p + 9) * d BY <1>1, <2>1, TimesKeepsOrder
  <2>3. (10 * p) * d = (10 * d) * p /\ (10 * p + 9) * d = (10 * d) * p + 9 * d
    BY <2>1, SMT
  <2>4. (10 * d) * p <= n /\ n < (10 * d) * p + 10 * d BY <1>1, <1>2, <2>1, <2>2, <2>3
  <2>5. 10 * d \in Nat \ {0} OBVIOUS
  <2>6. n \div (10 * d) = p BY <2>1, <2>4, <2>5, QuotientIs
  <2> QED BY <2>6 DEF p
<1>4. n % d = 0 => q * d = n BY <1>1, <1>2
<1> QED BY <1>1, <1>3, <1>4 DEF q

LEMMA TensKeepOrder ==
  ASSUME NEW a \in Nat, NEW b \in Nat, a <= b
  PROVE  TenTo(a) <= TenTo(b)
<1>1. b - a \in Nat /\ a + (b - a) = b OBVIOUS
<1>2. TenTo(b) = TenTo(a) * TenTo(b - a) BY <1>1, TensMultiply
<1> DEFINE x == TenTo(a)  y == TenTo(b - a)
<1>3. x \in Nat /\ y \in Nat /\ 1 <= y BY <1>1, Tens
<1> HIDE DEF x, y
<1>4. 1 * x <= y * x BY <1>3, TimesKeepsOrder
<1>5. 1 * x = x /\ y * x = x * y BY <1>3
<1> QED BY <1>2, <1>4, <1>5 DEF x, y

\* Digits of n, width of them, stand for n when it has no more.
Spread(n, width) == [i \in 1..width |-> ByteOf[(n \div TenTo(width - i)) % 10]]
LEMMA SpreadIsNumber ==
  ASSUME NEW n \in Nat, NEW w \in Nat, n < TenTo(w)
  PROVE  /\ Spread(n, w) \in Seq(Digits) /\ Len(Spread(n, w)) = w
         /\ AllDigits(Spread(n, w)) /\ Naturally(Spread(n, w)) = n
<1> DEFINE t == Spread(n, w)
           P == {k \in 0..w : Naturally(Part(t, 0, k)) = n \div TenTo(w - k)}
<1>1. \A i \in 1..w : /\ w - i \in Nat /\ TenTo(w - i) \in Nat \ {0}
                      /\ n \div TenTo(w - i) \in Nat
                      /\ (n \div TenTo(w - i)) % 10 \in 0..9
  <2> TAKE i \in 1..w
  <2>1. w - i \in Nat OBVIOUS
  <2>2. TenTo(w - i) \in Nat \ {0} BY <2>1, Tens
  <2>3. n \div TenTo(w - i) \in Nat BY <2>2, QuotientFacts
  <2> QED BY <2>1, <2>2, <2>3
<1>2. \A i \in 1..w : t[i] = ByteOf[(n \div TenTo(w - i)) % 10] BY DEF Spread
<1>3. \A i \in 1..w : t[i] \in Digits /\ DigitOf[t[i]] = (n \div TenTo(w - i)) % 10
  BY <1>1, <1>2, ByteFacts, Zenon
<1>4. t \in Seq(Digits) /\ Len(t) = w /\ DOMAIN t = 1..w
  <2>1. t = [i \in 1..w |-> t[i]] BY DEF Spread
  <2> HIDE DEF t
  <2> QED BY <1>3, <2>1
<1>5. AllDigits(t) BY <1>3, <1>4 DEF AllDigits
<1> HIDE DEF t
<1>6. 0 \in P
  <2>1. Part(t, 0, 0) = <<>> BY <1>4, Whole0
  <2>2. TenTo(w) * 0 <= n /\ n < TenTo(w) * 0 + TenTo(w) BY Tens
  <2>3. n \div TenTo(w) = 0 BY <2>2, Tens, QuotientIs
  <2> QED BY <2>1, <2>3, NoDigits
<1>7. ASSUME NEW k \in 0..(w - 1), k \in P PROVE k + 1 \in P
  <2>1. k + 1 \in 1..w /\ k + 1 \in 0..w /\ w - (k + 1) \in Nat /\ w - k = (w - (k + 1)) + 1
    OBVIOUS
  <2> DEFINE d == TenTo(w - (k + 1))  q == n \div d
  <2>2. d \in Nat \ {0} /\ TenTo(w - k) = 10 * d BY <2>1, Tens
  <2>3. q \in Nat /\ n \div (10 * d) = q \div 10 BY <2>2, QuotientFacts
  <2>4. DigitOf[t[k + 1]] = q % 10 BY <1>3, <2>1
  <2>5. Naturally(Part(t, 0, k + 1)) = 10 * Naturally(Part(t, 0, k)) + DigitOf[t[k + 1]]
    BY <1>4, <1>5, PrefixNumber
  <2>6. Naturally(Part(t, 0, k)) = q \div 10 BY <1>7, <2>2, <2>3
  <2> HIDE DEF q
  <2>7. 10 * (q \div 10) + (q % 10) = q BY <2>3
  <2>8. Naturally(Part(t, 0, k + 1)) = q BY <2>4, <2>5, <2>6, <2>7
  <2> QED BY <2>1, <2>8 DEF q
<1>8. w \in P
  <2> HIDE DEF P
  <2> QED BY <1>6, <1>7, Climb
<1>9. Part(t, 0, w) = t BY <1>4, Whole0
<1>10. n \div TenTo(w - w) = n BY Tens
<1> QED BY <1>4, <1>5, <1>8, <1>9, <1>10 DEF t

\* How many digits a number needs.
LEMMA PlacesNeeded ==
  ASSUME NEW n \in Nat
  PROVE  /\ Places(n) \in Nat \ {0} /\ n < TenTo(Places(n))
         /\ \A v \in 1..(Places(n) - 1) : n >= TenTo(v)
<1> DEFINE Enough(w) == n < TenTo(w) /\ \A v \in 1..(w - 1) : n >= TenTo(v)
           P == {k \in Nat : \A v \in 1..k : n >= TenTo(v)}
<1>1. \E w \in 1..(n + 1) : Enough(w)
  <2> SUFFICES ASSUME \A w \in 1..(n + 1) : ~ Enough(w) PROVE FALSE OBVIOUS
  <2>1. 0 \in P OBVIOUS
  <2>2. ASSUME NEW k \in 0..((n + 1) - 1), k \in P PROVE k + 1 \in P
    <3>1. k + 1 \in 1..(n + 1) /\ (k + 1) - 1 = k /\ k + 1 \in Nat OBVIOUS
    <3>2. ~ (n < TenTo(k + 1)) BY <2>2, <3>1
    <3>3. TenTo(k + 1) \in Nat BY <3>1, Tens
    <3>4. n >= TenTo(k + 1) BY <3>2, <3>3
    <3>5. \A v \in 1..(k + 1) : v \in 1..k \/ v = k + 1 OBVIOUS
    <3> QED BY <2>2, <3>1, <3>4, <3>5
  <2> DEFINE m == n + 1
  <2>3. m \in Nat OBVIOUS
  <2>4. m \in P
    <3>1. \A k \in 0..(m - 1) : k \in P => k + 1 \in P BY <2>2
    <3> HIDE DEF P, m
    <3> QED BY <2>1, <2>3, <3>1, Climb
  <2>5. n >= TenTo(m) /\ m < TenTo(m) /\ TenTo(m) \in Nat BY <2>3, <2>4, TensGrow, Tens
  <2> QED BY <2>5
<1>2. Places(n) \in 1..(n + 1) /\ Enough(Places(n))
  BY <1>1, Zenon DEF Places
<1> QED BY <1>2

\* What Padded writes.
LEMMA PaddedIsNumber ==
  ASSUME NEW n \in Nat, NEW width \in Nat \ {0}
  PROVE  LET t == Padded(n, width)
         IN  /\ t \in Seq(Digits) /\ AllDigits(t) /\ Naturally(t) = n
             /\ t # <<>>
             /\ n < TenTo(width) => Len(t) = width
             /\ width = 1 /\ Len(t) > 1 => t[1] # "0"
<1> DEFINE p == Places(n)
           w == IF p > width THEN p ELSE width
           t == Padded(n, width)
<1>1. /\ p \in Nat \ {0} /\ n < TenTo(p) /\ \A v \in 1..(p - 1) : n >= TenTo(v)
  BY PlacesNeeded
<1>2. t = Spread(n, w) BY Zenon DEF Padded, Spread
<1> HIDE DEF p, t
<1>3. w \in Nat \ {0} /\ p <= w BY <1>1
<1>4. n < TenTo(w)
  <2>1. TenTo(p) \in Nat /\ TenTo(w) \in Nat /\ TenTo(p) <= TenTo(w)
    BY <1>1, <1>3, Tens, TensKeepOrder
  <2> QED BY <1>1, <2>1
<1>5. t \in Seq(Digits) /\ Len(t) = w /\ AllDigits(t) /\ Naturally(t) = n
  BY <1>2, <1>3, <1>4, SpreadIsNumber
<1>6. t # <<>> BY <1>3, <1>5
<1>7. n < TenTo(width) => w = width
  <2> SUFFICES ASSUME n < TenTo(width), p > width PROVE FALSE BY <1>1
  <2>1. width \in 1..(p - 1) BY <1>1
  <2>2. n >= TenTo(width) BY <1>1, <2>1
  <2>3. TenTo(width) \in Nat BY Tens
  <2> QED BY <2>2, <2>3
<1>8. ASSUME width = 1, w > 1 PROVE t[1] # "0"
  <2>1. p = w /\ w - 1 \in 1..(p - 1) /\ w - 1 \in Nat BY <1>1, <1>8
  <2> DEFINE d == TenTo(w - 1)
  <2>2. n >= d BY <1>1, <2>1
  <2>3. d \in Nat \ {0} /\ TenTo((w - 1) + 1) = 10 * d BY <2>1, Tens
  <2>4. n < 10 * d
    <3>1. (w - 1) + 1 = w BY <1>3
    <3> QED BY <1>4, <2>3, <3>1
  <2>5. t[1] = ByteOf[(n \div TenTo(w - 1)) % 10]
    <3>1. 1 \in 1..w BY <1>3
    <3> QED BY <1>2, <3>1 DEF Spread
  <2> HIDE DEF d, w
  <2> DEFINE q == n \div d
  <2>6. q \in Nat /\ d * q <= n /\ n < d * q + d BY <2>3, QuotientFacts
  <2> HIDE DEF q
  <2>7. q # 0
    <3> SUFFICES ASSUME q = 0 PROVE FALSE OBVIOUS
    <3>1. d * q = 0 BY <2>3
    <3> QED BY <2>2, <2>3, <2>6, <3>1
  <2>8. q < 10
    <3> SUFFICES ASSUME 10 <= q PROVE FALSE BY <2>6
    <3>1. 10 * d <= q * d BY <2>3, <2>6, TimesKeepsOrder
    <3>2. q * d = d * q BY <2>3, <2>6
    <3> QED BY <2>3, <2>4, <2>6, <3>1, <3>2
  <2>9. q % 10 = q /\ q \in 0..9 BY <2>6, <2>8
  <2>10. t[1] = ByteOf[q] BY <2>5, <2>9 DEF q, d
  <2>11. DigitOf[t[1]] # 0 /\ t[1] \in Digits BY <2>7, <2>9, <2>10, ByteFacts
  <2> QED BY <2>11, ByteFacts
<1> HIDE DEF w
<1> QED BY <1>5, <1>6, <1>7, <1>8 DEF t

\* Zeros at the end multiply by ten.
LEMMA ZerosAtTheEnd ==
  ASSUME NEW S, NEW t \in Seq(S), AllDigits(t), NEW m \in 0..Len(t),
         \A i \in (m + 1)..Len(t) : t[i] = "0"
  PROVE  Naturally(t) = Naturally(Part(t, 0, m)) * TenTo(Len(t) - m)
<1> DEFINE n == Len(t)
           a == Naturally(Part(t, 0, m))
           P == {k \in 0..(n - m) : Naturally(Part(t, 0, m + k)) = a * TenTo(k)}
<1>1. n \in Nat /\ m \in 0..n /\ n - m \in Nat OBVIOUS
<1>2. a \in Nat
  <2>1. CASE m = 0
    <3>1. Part(t, 0, m) = <<>> BY <2>1, Whole0
    <3> QED BY <3>1, NoDigits
  <2>2. CASE m < n
    <3>1. m \in 0..(Len(t) - 1) BY <1>1, <2>2
    <3> QED BY <3>1, PrefixNumber
  <2>3. CASE m = n BY <2>3, Whole0, NumberOf
  <2> QED BY <1>1, <2>1, <2>2, <2>3
<1> HIDE DEF a
<1>3. 0 \in P
  <2>1. a * TenTo(0) = a BY <1>2, Tens
  <2>2. 0 \in 0..(n - m) /\ m + 0 = m BY <1>1
  <2> QED BY <2>1, <2>2 DEF a
<1>4. ASSUME NEW k \in 0..((n - m) - 1), k \in P PROVE k + 1 \in P
  <2>1. m + k \in 0..(Len(t) - 1) /\ k + 1 \in 0..(n - m) /\ k \in Nat
        /\ m + (k + 1) = (m + k) + 1 /\ (m + k) + 1 \in (m + 1)..Len(t)
    BY <1>1
  <2>2. t[(m + k) + 1] = "0" BY <2>1
  <2>3. Naturally(Part(t, 0, (m + k) + 1)) =
          10 * Naturally(Part(t, 0, m + k)) + DigitOf[t[(m + k) + 1]]
    BY <2>1, PrefixNumber
  <2>4. DigitOf["0"] = 0 BY DEF DigitOf
  <2> DEFINE y == TenTo(k)
  <2>5. y \in Nat /\ TenTo(k + 1) = 10 * y BY <2>1, Tens
  <2>6. Naturally(Part(t, 0, m + k)) = a * y BY <1>4
  <2> HIDE DEF y
  <2>7. 10 * (a * y) + 0 = a * (10 * y) BY <1>2, <2>5, SMT
  <2>8. Naturally(Part(t, 0, m + (k + 1))) = a * TenTo(k + 1)
    BY <2>1, <2>2, <2>3, <2>4, <2>5, <2>6, <2>7
  <2> QED BY <2>1, <2>8
<1>5. n - m \in P
  <2> DEFINE r == n - m
  <2>1. r \in Nat /\ \A k \in 0..(r - 1) : k \in P => k + 1 \in P BY <1>1, <1>4
  <2> HIDE DEF P, r
  <2>2. \A k \in 0..r : k \in P BY <1>3, <2>1, Climb, Zenon
  <2>3. r \in 0..r BY <2>1
  <2> QED BY <2>2, <2>3 DEF r
<1>6. m + (n - m) = n BY <1>1
<1>7. Naturally(Part(t, 0, n)) = a * TenTo(n - m) BY <1>5, <1>6
<1> QED BY <1>7, Whole0 DEF a
-----------------------------------------------------------------------------
(* Durations: the seconds that are read *)

Held(x) == IF x > MaxCount THEN Refused ELSE x
LEMMA RemainderIs ==
  ASSUME NEW a \in Nat, NEW b \in Nat, a < b
  PROVE  a % b = a
<1>1. b \in Nat \ {0} /\ b * 0 <= a /\ a < b * 0 + b OBVIOUS
<1>2. a \div b = 0 BY <1>1, QuotientIs
<1>3. a = b * (a \div b) + (a % b) BY <1>1, SMT
<1> QED BY <1>2, <1>3

\* One turn of the loop.
LEMMA LoopTurn ==
  ASSUME SecondsAssumption, NEW x \in Nat, NEW c \in 0..9
  PROVE  (IF Held(x) = Refused \/ Held(x) > (MaxCount - c) \div 10
          THEN Refused ELSE Wrapped(10 * Held(x) + c)) = Held(10 * x + c)
<1>1. MaxCount \in Nat /\ Refused = -1 - MaxCount BY DEF SecondsAssumption, Refused
<1>2. CASE x > MaxCount
  <2>1. Held(x) = Refused /\ 10 * x + c > MaxCount BY <1>1, <1>2 DEF Held
  <2>2. Held(10 * x + c) = Refused BY <2>1 DEF Held
  <2> QED BY <2>1, <2>2
<1>3. CASE ~ (x > MaxCount)
  <2>1. Held(x) = x /\ Held(x) # Refused BY <1>1, <1>3 DEF Held
  <2>2. x > (MaxCount - c) \div 10 <=> 10 * x + c > MaxCount BY <1>1
  <2>3. CASE 10 * x + c > MaxCount
    <3>1. Held(10 * x + c) = Refused BY <2>3 DEF Held
    <3> QED BY <2>1, <2>2, <2>3, <3>1
  <2>4. CASE ~ (10 * x + c > MaxCount)
    <3> DEFINE y == 10 * x + c
    <3>1. y \in Nat /\ y <= MaxCount BY <1>1, <2>4
    <3>2. Held(y) = y BY <1>1, <3>1 DEF Held
    <3> HIDE DEF y
    <3>3. (y + MaxCount + 1) % (2 * MaxCount + 2) = y + MaxCount + 1
      <4>1. /\ y + MaxCount + 1 \in Nat /\ 2 * MaxCount + 2 \in Nat
            /\ y + MaxCount + 1 < 2 * MaxCount + 2
        BY <1>1, <3>1
      <4> QED BY <4>1, RemainderIs
    <3>4. Wrapped(y) = y BY <1>1, <3>1, <3>3 DEF Wrapped
    <3> QED BY <2>1, <2>2, <2>4, <3>2, <3>4 DEF y
  <2> QED BY <2>3, <2>4
<1> QED BY <1>2, <1>3

\* The loop reads the number, or refuses it.
IsLoop(f, t) ==
  f = [i \in 0..Len(t) |->
         IF i = 0 THEN 0
         ELSE IF f[i - 1] = Refused \/ f[i - 1] > (MaxCount - DigitOf[t[i]]) \div 10
              THEN Refused ELSE Wrapped(10 * f[i - 1] + DigitOf[t[i]])]
LEMMA LoopIsNumber ==
  ASSUME SecondsAssumption, NEW S, NEW t \in Seq(S)
  PROVE  DigitLoop(t) = IF AllDigits(t) THEN Held(Naturally(t)) ELSE Refused
<1> DEFINE f == CHOOSE h : IsLoop(h, t)
           g == [i \in 0..Len(t) |-> Held(Naturally(Part(t, 0, i)))]
           n == Len(t)
<1>1. DigitLoop(t) = IF AllDigits(t) THEN f[Len(t)] ELSE Refused
  BY Zenon DEF DigitLoop, IsLoop
<1> SUFFICES ASSUME AllDigits(t) PROVE f[n] = Held(Naturally(t)) BY <1>1, Zenon
<1>2. n \in Nat OBVIOUS
<1>3. Held(0) = 0 BY DEF Held, SecondsAssumption
<1>4. g[0] = 0
  <2>1. Part(t, 0, 0) = <<>> BY Whole0
  <2> QED BY <1>2, <1>3, <2>1, NoDigits
<1>5. ASSUME NEW i \in 1..n
      PROVE  LET c == DigitOf[t[i]] IN
             g[i] = IF g[i - 1] = Refused \/ g[i - 1] > (MaxCount - c) \div 10
                    THEN Refused ELSE Wrapped(10 * g[i - 1] + c)
  <2> DEFINE k == i - 1  x == Naturally(Part(t, 0, k))
  <2>1. k \in 0..(Len(t) - 1) /\ k + 1 = i /\ i \in 0..n /\ k \in 0..n OBVIOUS
  <2> HIDE DEF k
  <2>2. /\ DigitOf[t[k + 1]] \in 0..9 /\ x \in Nat
        /\ Naturally(Part(t, 0, k + 1)) = 10 * x + DigitOf[t[k + 1]]
    BY <2>1, PrefixNumber
  <2>3. g[k] = Held(x) /\ g[i] = Held(10 * x + DigitOf[t[i]]) BY <2>1, <2>2
  <2>4. DigitOf[t[i]] \in 0..9 BY <2>1, <2>2
  <2> HIDE DEF x, g
  <2>5. i - 1 = k BY <2>1
  <2> QED BY <2>2, <2>3, <2>4, <2>5, LoopTurn, Zenon
<1>6. IsLoop(g, t)
  <2>1. ASSUME NEW i \in 0..n
        PROVE  g[i] = IF i = 0 THEN 0
                      ELSE IF \/ g[i - 1] = Refused
                              \/ g[i - 1] > (MaxCount - DigitOf[t[i]]) \div 10
                           THEN Refused ELSE Wrapped(10 * g[i - 1] + DigitOf[t[i]])
    <3>1. CASE i = 0 BY <1>4, <3>1
    <3>2. CASE i # 0
      <4>1. i \in 1..n BY <3>2
      <4> HIDE DEF g
      <4> QED BY <1>5, <3>2, <4>1, Zenon
    <3> QED BY <3>1, <3>2
  <2>2. g = [i \in 0..n |-> g[i]] OBVIOUS
  <2> HIDE DEF g
  <2> QED BY <2>1, <2>2, Zenon DEF IsLoop
<1>7. IsLoop(f, t) BY <1>6, Zenon
<1> HIDE DEF f
<1> DEFINE next(i) == IF i = 0 THEN 0
                      ELSE IF \/ f[i - 1] = Refused
                              \/ f[i - 1] > (MaxCount - DigitOf[t[i]]) \div 10
                           THEN Refused ELSE Wrapped(10 * f[i - 1] + DigitOf[t[i]])
<1>8. \A i \in 0..n : f[i] = next(i)
  <2>1. f = [i \in 0..n |-> next(i)] BY <1>7, Zenon DEF IsLoop
  <2> HIDE DEF next
  <2> QED BY <2>1, Zenon
<1> DEFINE P == {k \in 0..n : f[k] = g[k]}
<1>9. 0 \in P BY <1>2, <1>4, <1>8
<1>10. ASSUME NEW k \in 0..(n - 1), k \in P PROVE k + 1 \in P
  <2>1. k + 1 \in 1..n /\ k + 1 \in 0..n /\ (k + 1) - 1 = k /\ k + 1 # 0 OBVIOUS
  <2>2. f[k] = g[k] BY <1>10
  <2> HIDE DEF g
  <2>3. f[k + 1] = IF f[k] = Refused \/ f[k] > (MaxCount - DigitOf[t[k + 1]]) \div 10
                   THEN Refused ELSE Wrapped(10 * f[k] + DigitOf[t[k + 1]])
    BY <1>8, <2>1, Zenon
  <2>4. g[k + 1] = IF g[k] = Refused \/ g[k] > (MaxCount - DigitOf[t[k + 1]]) \div 10
                   THEN Refused ELSE Wrapped(10 * g[k] + DigitOf[t[k + 1]])
    BY <1>5, <2>1, Zenon
  <2>5. f[k + 1] = g[k + 1] BY <2>2, <2>3, <2>4, Zenon
  <2> QED BY <2>1, <2>5
<1>11. f[n] = g[n]
  <2>1. \A k \in 0..n : k \in P
    <3>1. \A k \in 0..(n - 1) : k \in P => k + 1 \in P BY <1>10
    <3> HIDE DEF P, n
    <3> QED BY <1>2, <1>9, <3>1, Climb, Zenon
  <2>2. n \in 0..n BY <1>2
  <2> QED BY <2>1, <2>2
<1>12. g[n] = Held(Naturally(t)) BY <1>2, Whole0
<1> QED BY <1>11, <1>12

\* strconv agrees on digits; it never answers what is no number.
LEMMA ParseIntIsNumber ==
  ASSUME SecondsAssumption, NEW S, NEW t \in Seq(S), t # <<>>
  PROVE  /\ AllDigits(t) => ParseInt(t) = Held(Naturally(t))
         /\ ParseInt(t) \in Int
<1> DEFINE signed == t[1] \in {"-", "+"}
           body == IF signed THEN Tail(t) ELSE t
<1>1. ParseInt(t) = IF body = <<>> \/ ~ AllDigits(body) \/ Naturally(body) > MaxCount
                    THEN Refused
                    ELSE IF t[1] = "-" THEN -Naturally(body) ELSE Naturally(body)
  BY Zenon DEF ParseInt
<1>2. body \in Seq(S) OBVIOUS
<1>3. Refused \in Int BY DEF Refused, SecondsAssumption
<1>4. AllDigits(body) => Naturally(body) \in Nat
  <2> HIDE DEF body
  <2> QED BY <1>2, NumberOf
<1>5. ParseInt(t) \in Int
  <2> HIDE DEF body
  <2> QED BY <1>1, <1>3, <1>4
<1>6. ASSUME AllDigits(t) PROVE ParseInt(t) = Held(Naturally(t))
  <2>1. 1 \in DOMAIN t OBVIOUS
  <2>2. t[1] \in Digits BY <1>6, <2>1 DEF AllDigits
  <2>3. t[1] # "-" /\ t[1] # "+" BY <2>2, DigitFacts, Zenon
  <2>4. body = t BY <2>3
  <2> HIDE DEF body
  <2> QED BY <1>1, <1>6, <2>3, <2>4, Zenon DEF Held
<1> QED BY <1>5, <1>6
-----------------------------------------------------------------------------
(* Durations: a text is taken apart where it can be cut *)

\* Parts, and parts of parts, of quantified bounds.
LEMMA PartAt ==
  ASSUME NEW S, NEW t \in Seq(S)
  PROVE  \A a \in 0..Len(t) : \A b \in a..Len(t) :
           /\ Part(t, a, b) \in Seq(S) /\ Len(Part(t, a, b)) = b - a
           /\ \A i \in 1..(b - a) : Part(t, a, b)[i] = t[a + i]
BY PartOf
LEMMA PartOfPartAt ==
  ASSUME NEW S, NEW t \in Seq(S)
  PROVE  \A a \in 0..Len(t) : \A b \in a..Len(t) : \A p \in 0..(b - a) : \A q \in p..(b - a) :
           Part(Part(t, a, b), p, q) = Part(t, a + p, a + q)
BY PartOfPart
LEMMA OneByte ==
  ASSUME NEW S, NEW t \in Seq(S), NEW i \in 1..Len(t)
  PROVE  SubSeq(t, i, i) = <<t[i]>>
<1> DEFINE x == SubSeq(t, i, i)  y == <<t[i]>>
<1>1. t[i] \in S OBVIOUS
<1>2. x \in Seq(S) /\ Len(x) = 1 /\ x[1] = t[i] OBVIOUS
<1>3. y \in Seq(S) /\ Len(y) = 1 /\ y[1] = t[i] BY <1>1
<1> HIDE DEF x, y
<1>4. Len(x) = Len(y) /\ \A k \in 1..Len(x) : x[k] = y[k] BY <1>2, <1>3
<1>5. x = y BY <1>2, <1>3, <1>4, SeqEqual
<1> QED BY <1>5 DEF x, y

LEMMA SpanIsPart ==
  ASSUME NEW S, NEW t \in Seq(S)
  PROVE  /\ \A a, b \in Int : SubSeq(t, a + 1, b) = Part(t, a, b)
         /\ \A b \in Int : SubSeq(t, 1, b) = Part(t, 0, b)
<1>1. 0 + 1 = 1 OBVIOUS
<1> QED BY <1>1 DEF Part

\* The points and the parts of a body.
Points(body) == {i \in DOMAIN body : body[i] = "."}
Point1(body) == IF Points(body) = {} THEN Len(body) + 1 ELSE CHOOSE i \in Points(body) : TRUE
SignLen(s) == IF Len(s) > 1 /\ s[1] \in {"-", "+"} THEN 1 ELSE 0
BodyOf(s) == Part(s, SignLen(s), Len(s) - 1)
LEMMA ApartIs ==
  ASSUME NEW S, NEW s \in Seq(S)
  PROVE  LET body == BodyOf(s)  dot == Point1(body)
             whole == Part(body, 0, dot - 1)  frac == Part(body, dot, Len(body))
         IN  /\ body \in Seq(S) /\ dot \in 1..(Len(body) + 1)
             /\ whole \in Seq(S) /\ frac \in Seq(S)
             /\ Apart(s).neg <=> SignLen(s) = 1 /\ s[1] = "-"
             /\ Apart(s).whole = whole /\ Apart(s).frac = frac
             /\ Apart(s).right <=>
                  /\ Len(s) >= 2 /\ Last(s) = "s"
                  /\ \A i \in Points(body) : i = dot
                  /\ whole # <<>> /\ (Len(whole) > 1 => whole[1] # "0")
                  /\ Points(body) # {} => Len(frac) \in 1..FracDigits /\ AllDigits(frac)
<1> DEFINE body == BodyOf(s)  dot == Point1(body)
           whole == Part(body, 0, dot - 1)  frac == Part(body, dot, Len(body))
           signed == Len(s) > 1 /\ s[1] \in {"-", "+"}
<1>1. body = SubSeq(s, IF signed THEN 2 ELSE 1, Len(s) - 1)
  BY DEF BodyOf, SignLen, Part
<1>2. body \in Seq(S)
  <2>1. (IF signed THEN 2 ELSE 1) \in 1..(Len(s) + 1) \/ Len(s) = 0 OBVIOUS
  <2>2. CASE Len(s) = 0 BY <1>1, <2>2
  <2>3. CASE Len(s) # 0 BY <1>1, <2>3
  <2> QED BY <2>2, <2>3
<1> HIDE DEF body
<1>3. dot \in 1..(Len(body) + 1)
  <2>1. Points(body) \subseteq 1..Len(body) BY <1>2 DEF Points
  <2>2. CASE Points(body) = {} BY <1>2, <2>2 DEF Point1
  <2>3. CASE Points(body) # {}
    <3>1. dot \in Points(body) BY <2>3 DEF Point1
    <3> QED BY <1>2, <2>1, <3>1
  <2> QED BY <2>2, <2>3
<1>4. /\ whole = SubSeq(body, 1, dot - 1) /\ frac = SubSeq(body, dot + 1, Len(body))
  <2>1. dot - 1 \in Int /\ dot \in Int /\ Len(body) \in Int BY <1>2, <1>3
  <2> HIDE DEF dot
  <2> QED BY <1>2, <2>1, SpanIsPart, Zenon
<1>5. whole \in Seq(S) /\ frac \in Seq(S)
  <2>1. dot - 1 \in 0..Len(body) /\ Len(body) \in Nat BY <1>2, <1>3
  <2>2. whole \in Seq(S) BY <1>2, <2>1, SMT DEF Part
  <2>3. frac \in Seq(S) BY <1>2, <1>3, SMT DEF Part
  <2> QED BY <2>2, <2>3
<1>6. SignLen(s) = 1 <=> signed BY DEF SignLen
<1> DEFINE right ==
             /\ Len(s) >= 2 /\ Last(s) = "s"
             /\ \A i \in Points(body) : i = dot
             /\ whole # <<>> /\ (Len(whole) > 1 => whole[1] # "0")
             /\ Points(body) # {} => Len(frac) \in 1..FracDigits /\ AllDigits(frac)
<1>7. Apart(s) = [neg |-> signed /\ s[1] = "-", whole |-> whole, frac |-> frac, right |-> right]
  <2> DEFINE w == SubSeq(body, 1, dot - 1)  f == SubSeq(body, dot + 1, Len(body))
  <2>1. Apart(s) = [neg |-> signed /\ s[1] = "-", whole |-> w, frac |-> f,
                    right |-> /\ Len(s) >= 2 /\ Last(s) = "s"
                              /\ \A i \in Points(body) : i = dot
                              /\ w # <<>> /\ (Len(w) > 1 => w[1] # "0")
                              /\ Points(body) # {} => Len(f) \in 1..FracDigits /\ AllDigits(f)]
    BY <1>1, Zenon DEF Apart, Points, Point1
  <2>2. w = whole /\ f = frac BY <1>4, Zenon
  <2> HIDE DEF w, f, whole, frac, dot, signed
  <2> QED BY <2>1, <2>2, Zenon
<1> HIDE DEF whole, frac, dot, signed
<1>8. /\ Apart(s).neg <=> SignLen(s) = 1 /\ s[1] = "-"
      /\ Apart(s).whole = whole /\ Apart(s).frac = frac
      /\ Apart(s).right <=> right
  <2> DEFINE minus == signed /\ s[1] = "-"
  <2>1. Apart(s) = [neg |-> minus, whole |-> whole, frac |-> frac, right |-> right] BY <1>7
  <2>2. minus <=> SignLen(s) = 1 /\ s[1] = "-" BY <1>6
  <2> HIDE DEF right, minus
  <2>3. /\ Apart(s).neg = minus /\ Apart(s).right = right
        /\ Apart(s).whole = whole /\ Apart(s).frac = frac
    BY <2>1
  <2> QED BY <2>2, <2>3, Zenon
<1> QED BY <1>2, <1>3, <1>5, <1>8, Zenon DEF body, dot, whole, frac

\* A cut text, byte by byte.
LEMMA CutBytes ==
  ASSUME NEW S, NEW s \in Seq(S), NEW g \in 0..1, NEW i \in 1..Len(s), IsCut(s, g, i)
  PROVE  /\ g < i /\ i < Len(s) /\ Len(s) >= 2 /\ s[Len(s)] = "s" /\ g = SignLen(s)
         /\ \A p \in (g + 1)..i : s[p] \in Digits
         /\ i > g + 1 => s[g + 1] # "0"
         /\ \/ i + 1 = Len(s)
            \/ /\ i + 3 <= Len(s) /\ s[i + 1] = "." /\ Len(s) - i - 2 <= FracDigits
               /\ \A p \in (i + 2)..(Len(s) - 1) : s[p] \in Digits
<1> DEFINE n == Len(s)
<1>1. n \in Nat /\ i \in Nat /\ n >= 1 OBVIOUS
<1>2. i > g /\ AllDigits(Part(s, g, i)) BY DEF IsCut, Part
<1>3. \A p \in (g + 1)..i : s[p] \in Digits
  <2>1. g \in 0..Len(s) /\ i \in g..Len(s) BY <1>1, <1>2
  <2> QED BY <1>2, <2>1, PartOf
<1>4. ASSUME SubSeq(s, i + 1, Len(s)) = <<"s">> PROVE i + 1 = n /\ s[n] = "s"
  <2> DEFINE x == SubSeq(s, i + 1, n)
  <2>0. Len(x) = n - i BY <1>1
  <2>1. n - i = 1 => x[1] = s[i + 1] BY <1>1
  <2>2. x = <<"s">> BY <1>4
  <2> HIDE DEF x
  <2>3. Len(x) = 1 /\ x[1] = "s" BY <2>2
  <2>4. n - i = 1 BY <2>0, <2>3
  <2>6. i + 1 = n BY <1>1, <2>4
  <2>5. s[i + 1] = "s" BY <2>1, <2>3, <2>4
  <2> QED BY <2>6, <2>5
<1>5. ASSUME i + 3 <= Len(s), Last(s) = "s", AllDigits(SubSeq(s, i + 2, Len(s) - 1))
      PROVE  s[n] = "s" /\ \A p \in (i + 2)..(n - 1) : s[p] \in Digits
  <2>1. s[n] = "s" BY <1>5 DEF Last
  <2>2. i + 1 \in 0..Len(s) /\ Len(s) - 1 \in (i + 1)..Len(s) /\ (i + 1) + 1 = i + 2
    BY <1>1, <1>5
  <2>3. AllDigits(Part(s, i + 1, n - 1)) BY <1>5, <2>2 DEF Part
  <2>4. \A p \in ((i + 1) + 1)..(n - 1) : s[p] \in Digits BY <2>2, <2>3, PartOf
  <2> QED BY <2>1, <2>2, <2>4
<1>6. /\ s[n] = "s"
      /\ \/ i + 1 = n
         \/ /\ i + 3 <= n /\ s[i + 1] = "." /\ n - i - 2 <= FracDigits
            /\ \A p \in (i + 2)..(n - 1) : s[p] \in Digits
  BY <1>4, <1>5 DEF IsCut
<1>7. i < n /\ n >= 2 BY <1>1, <1>6
<1>8. g = SignLen(s)
  <2>1. CASE g = 0
    <3>1. 1 \in (g + 1)..i BY <1>1, <2>1
    <3>2. s[1] \in Digits BY <1>3, <3>1
    <3>3. s[1] # "-" /\ s[1] # "+" BY <3>2, DigitFacts, Zenon
    <3> QED BY <2>1, <3>3 DEF SignLen
  <2>2. CASE g = 1
    <3> DEFINE x == SubSeq(s, 1, 1)
    <3>1. x \in {<<>>, <<"-">>, <<"+">>} BY <2>2 DEF IsCut
    <3>2. Len(x) = 1 /\ x[1] = s[1] BY <1>1
    <3> HIDE DEF x
    <3>4. x # <<>> BY <3>2
    <3>5. x = <<"-">> => x[1] = "-" OBVIOUS
    <3>6. x = <<"+">> => x[1] = "+" OBVIOUS
    <3>3. s[1] \in {"-", "+"} BY <3>1, <3>2, <3>4, <3>5, <3>6, Zenon
    <3> QED BY <1>7, <2>2, <3>3 DEF SignLen
  <2> QED BY <2>1, <2>2
<1> QED BY <1>2, <1>3, <1>6, <1>7, <1>8 DEF IsCut

\* A text that can be cut is taken apart at the cut.
LEMMA CutIsApart ==
  ASSUME NEW S, NEW s \in Seq(S), NEW g \in 0..1, NEW i \in 1..Len(s), IsCut(s, g, i)
  PROVE  /\ Apart(s).right /\ (Apart(s).neg <=> s[1] = "-")
         /\ Apart(s).whole = Part(s, g, i)
         /\ Apart(s).frac = SubSeq(s, i + 2, Len(s) - 1)
         /\ Len(Apart(s).whole) = i - g /\ AllDigits(Apart(s).whole)
         /\ Apart(s).frac \in Seq(S) /\ AllDigits(Apart(s).frac)
         /\ Len(Apart(s).frac) \in Nat
         /\ FracDigits \in Nat => Len(Apart(s).frac) <= FracDigits
<1> DEFINE n == Len(s)  body == BodyOf(s)  dot == Point1(body)
           whole == Part(body, 0, dot - 1)  frac == Part(body, dot, Len(body))
<1>1. n \in Nat /\ i \in Nat /\ g \in Nat OBVIOUS
<1>2. /\ g < i /\ i < n /\ n >= 2 /\ s[n] = "s" /\ g = SignLen(s)
      /\ \A p \in (g + 1)..i : s[p] \in Digits
      /\ i > g + 1 => s[g + 1] # "0"
      /\ \/ i + 1 = n
         \/ /\ i + 3 <= n /\ s[i + 1] = "." /\ n - i - 2 <= FracDigits
            /\ \A p \in (i + 2)..(n - 1) : s[p] \in Digits
  BY CutBytes
<1> DEFINE Limits ==  /\ n \in Nat /\ i \in Nat /\ g \in Nat /\ g < i /\ i < n /\ n >= 2
                      /\ i + 1 # n => i + 3 <= n
<1>0. Limits BY <1>1, <1>2
<1>3. /\ body = Part(s, g, n - 1) /\ g \in 0..Len(s) /\ n - 1 \in g..Len(s)
  BY <1>1, <1>2 DEF BodyOf
<1>4. /\ body \in Seq(S) /\ Len(body) = n - 1 - g
      /\ \A p \in 1..(n - 1 - g) : body[p] = s[g + p]
  <2>1. /\ Part(s, g, n - 1) \in Seq(S) /\ Len(Part(s, g, n - 1)) = n - 1 - g
        /\ \A p \in 1..(n - 1 - g) : Part(s, g, n - 1)[p] = s[g + p]
    BY <1>3, PartOf, Zenon
  <2> HIDE DEF body
  <2> QED BY <1>3, <2>1, Zenon
<1> HIDE DEF body
<1>5. Points(body) = {p \in 1..(n - 1 - g) : s[g + p] = "."}
  <2>1. DOMAIN body = 1..(n - 1 - g) BY <1>4
  <2>2. Points(body) = {p \in 1..(n - 1 - g) : body[p] = "."} BY <2>1 DEF Points
  <2> QED BY <1>4, <2>2
<1>6. "." \notin Digits BY DigitFacts
<1>7. \A p \in 1..(i - g) : s[g + p] # "."
  <2> TAKE p \in 1..(i - g)
  <2>1. g + p \in (g + 1)..i BY <1>0
  <2> QED BY <1>2, <1>6, <2>1
<1>8. Points(body) = (IF i + 1 = n THEN {} ELSE {i + 1 - g})
  <2>1. CASE i + 1 = n
    <3>1. n - 1 - g = i - g BY <2>1
    <3> QED BY <1>5, <1>7, <2>1, <3>1
  <2>2. CASE i + 1 # n
    <3>1. i + 1 - g \in 1..(n - 1 - g) /\ g + (i + 1 - g) = i + 1 BY <1>1, <1>2, <2>2
    <3>2. s[i + 1] = "." BY <1>2, <2>2
    <3>3. ASSUME NEW p \in 1..(n - 1 - g), p # i + 1 - g PROVE s[g + p] # "."
      <4>1. CASE p <= i - g
        <5>1. p \in 1..(i - g) BY <1>0, <4>1
        <5> QED BY <1>7, <5>1
      <4>2. CASE ~ (p <= i - g)
        <5>1. g + p \in (i + 2)..(n - 1) BY <1>0, <3>3, <4>2
        <5> QED BY <1>2, <1>6, <2>2, <5>1
      <4> QED BY <4>1, <4>2
    <3>4. i + 1 - g \in Points(body) BY <1>5, <3>1, <3>2
    <3>5. \A p \in Points(body) : p = i + 1 - g BY <1>5, <3>3
    <3> QED BY <2>2, <3>4, <3>5
  <2> QED BY <2>1, <2>2
<1>9. dot = i + 1 - g /\ \A p \in Points(body) : p = dot
  <2>1. CASE i + 1 = n
    <3>1. Len(body) + 1 = i + 1 - g BY <1>1, <1>4, <2>1
    <3>2. Points(body) = {} BY <1>8, <2>1
    <3> QED BY <3>1, <3>2 DEF Point1
  <2>2. CASE i + 1 # n
    <3>1. Points(body) = {i + 1 - g} BY <1>8, <2>2
    <3>2. dot \in Points(body) BY <3>1 DEF Point1
    <3> QED BY <3>1, <3>2
  <2> QED BY <2>1, <2>2
<1> HIDE DEF dot
<1>10. whole = Part(s, g, i)
  <2>1. /\ dot - 1 = i - g /\ 0 \in 0..((n - 1) - g) /\ i - g \in 0..((n - 1) - g)
        /\ g + 0 = g /\ g + (i - g) = i
    BY <1>0, <1>9
  <2>3. i - g \in 0..(i - g) /\ i - g \in 0..((n - 1) - g) BY <1>0
  <2>2. Part(Part(s, g, n - 1), 0, i - g) = Part(s, g + 0, g + (i - g))
    BY <1>3, <2>1, <2>3, PartOfPartAt, SMTT(30)
  <2> QED BY <1>3, <2>1, <2>2
<1>11. frac = Part(s, i + 1, n - 1)
  <2>1. CASE i + 1 = n
    <3>1. dot = Len(body) + 1 BY <1>1, <1>4, <1>9, <2>1
    <3>2. frac = <<>> BY <1>4, <3>1 DEF Part
    <3>3. Part(s, i + 1, n - 1) = <<>> BY <1>1, <2>1 DEF Part
    <3> QED BY <3>2, <3>3
  <2>2. CASE i + 1 # n
    <3>1. /\ dot \in 0..((n - 1) - g) /\ (n - 1) - g \in dot..((n - 1) - g)
          /\ g + dot = i + 1 /\ g + ((n - 1) - g) = n - 1 /\ Len(body) = (n - 1) - g
      BY <1>0, <1>4, <1>9, <2>2
    <3>2. Part(Part(s, g, n - 1), dot, (n - 1) - g) = Part(s, g + dot, g + ((n - 1) - g))
      BY <1>3, <3>1, PartOfPartAt, SMTT(30)
    <3> QED BY <1>3, <3>1, <3>2
  <2> QED BY <2>1, <2>2
<1>12. /\ Len(Part(s, g, i)) = i - g /\ AllDigits(Part(s, g, i))
       /\ Part(s, g, i)[1] = s[g + 1]
  <2>1. g \in 0..Len(s) /\ i \in g..Len(s) /\ 1 \in 1..(i - g) BY <1>1, <1>2
  <2> QED BY <1>2, <2>1, PartOf
<1> DEFINE fr == Part(s, i + 1, n - 1)
<1>13. /\ fr \in Seq(S) /\ AllDigits(fr) /\ Len(fr) \in Nat
       /\ (i + 1 = n => Len(fr) = 0) /\ (i + 1 # n => Len(fr) = n - i - 2)
  <2>1. CASE i + 1 = n
    <3>1. fr = <<>> BY <1>1, <2>1 DEF Part
    <3>2. <<>> \in Seq(S) /\ AllDigits(<<>>) /\ Len(<<>>) = 0 BY DEF AllDigits
    <3> HIDE DEF fr
    <3> QED BY <2>1, <3>1, <3>2
  <2>2. CASE i + 1 # n
    <3> DEFINE c == i + 1
    <3>1. c \in 0..Len(s) /\ n - 1 \in c..Len(s) /\ c + 1 = i + 2 /\ (n - 1) - c = n - i - 2
          /\ n - i - 2 \in Nat
      BY <1>1, <1>2, <2>2
    <3>2. \A p \in (c + 1)..(n - 1) : s[p] \in Digits BY <1>2, <2>2, <3>1
    <3> HIDE DEF c
    <3>3. LET w == Part(s, c, n - 1) IN
          w \in Seq(S) /\ Len(w) = (n - 1) - c /\ AllDigits(w)
      BY <3>1, <3>2, PartOf, Zenon
    <3> QED BY <2>2, <3>1, <3>3 DEF c
  <2> QED BY <2>1, <2>2
<1>14. fr = SubSeq(s, i + 2, n - 1)
  <2>1. (i + 1) + 1 = i + 2 OBVIOUS
  <2> QED BY <2>1 DEF Part
<1>15. /\ whole # <<>> /\ (Len(whole) > 1 => whole[1] # "0")
  <2>1. Len(whole) = i - g /\ whole[1] = s[g + 1] BY <1>10, <1>12
  <2> HIDE DEF whole
  <2> QED BY <1>1, <1>2, <2>1
<1>16. Points(body) # {} => Len(frac) \in 1..FracDigits /\ AllDigits(frac)
  <2> SUFFICES ASSUME Points(body) # {}
               PROVE Len(frac) \in 1..FracDigits /\ AllDigits(frac) OBVIOUS
  <2>1. i + 1 # n BY <1>8
  <2>2. Len(fr) = n - i - 2 /\ n - i - 2 >= 1 /\ n - i - 2 <= FracDigits
    BY <1>1, <1>2, <1>13, <2>1
  <2>3. Len(fr) \in Int BY <1>13
  <2> HIDE DEF fr, frac
  <2>4. Len(fr) \in 1..FracDigits BY <2>2, <2>3
  <2> QED BY <1>11, <1>13, <2>4 DEF fr
<1>17. Last(s) = "s" BY <1>2 DEF Last
<1>18. SignLen(s) = 1 /\ s[1] = "-" <=> s[1] = "-" BY <1>2 DEF SignLen
<1>19. /\ Apart(s).neg <=> SignLen(s) = 1 /\ s[1] = "-"
       /\ Apart(s).whole = whole /\ Apart(s).frac = frac
       /\ Apart(s).right <=>
            /\ n >= 2 /\ Last(s) = "s"
            /\ \A p \in Points(body) : p = dot
            /\ whole # <<>> /\ (Len(whole) > 1 => whole[1] # "0")
            /\ Points(body) # {} => Len(frac) \in 1..FracDigits /\ AllDigits(frac)
  BY ApartIs, Zenon DEF body, dot
<1> HIDE DEF whole, frac, fr
<1>20. FracDigits \in Nat => Len(fr) <= FracDigits BY <1>1, <1>2, <1>13
<1> QED BY <1>2, <1>9, <1>10, <1>11, <1>12, <1>13, <1>14, <1>15, <1>16, <1>17, <1>18,
           <1>19, <1>20, Zenon DEF fr

\* A text that is taken apart and has digits for its seconds can be cut.
LEMMA ApartIsCut ==
  ASSUME NEW S, NEW s \in Seq(S), Apart(s).right, AllDigits(Apart(s).whole)
  PROVE  \E g \in 0..1, i \in 1..Len(s) : IsCut(s, g, i)
<1> DEFINE n == Len(s)  g == SignLen(s)  body == BodyOf(s)  dot == Point1(body)
           whole == Part(body, 0, dot - 1)  frac == Part(body, dot, Len(body))
           i == g + dot - 1
<1>1. /\ body \in Seq(S) /\ dot \in 1..(Len(body) + 1)
      /\ Apart(s).whole = whole /\ Apart(s).frac = frac
      /\ n >= 2 /\ Last(s) = "s"
      /\ whole # <<>> /\ (Len(whole) > 1 => whole[1] # "0")
      /\ Points(body) # {} => Len(frac) \in 1..FracDigits /\ AllDigits(frac)
  BY ApartIs, Zenon
<1>2. n \in Nat /\ g \in 0..1 /\ g \in 0..Len(s) /\ n - 1 \in g..Len(s)
  BY <1>1 DEF SignLen
<1> HIDE DEF g
<1>3. body = Part(s, g, n - 1) BY DEF BodyOf, g
<1>4. /\ Len(body) = (n - 1) - g /\ \A p \in 1..((n - 1) - g) : body[p] = s[g + p]
  <2>1. /\ Len(Part(s, g, n - 1)) = (n - 1) - g
        /\ \A p \in 1..((n - 1) - g) : Part(s, g, n - 1)[p] = s[g + p]
    <3> DEFINE e == n - 1
    <3>1. g \in 0..Len(s) /\ e \in g..Len(s) BY <1>2
    <3> HIDE DEF e
    <3>2. Len(Part(s, g, e)) = e - g /\ \A p \in 1..(e - g) : Part(s, g, e)[p] = s[g + p]
      BY <3>1, PartAt, SMTT(30)
    <3> QED BY <3>2 DEF e
  <2> HIDE DEF body
  <2> QED BY <1>3, <2>1, Zenon
<1>5. dot \in Nat /\ dot >= 1 /\ dot <= n - g BY <1>1, <1>2, <1>4
<1>6. Points(body) = {} => dot = n - g BY <1>2, <1>4 DEF Point1
<1>7. Points(body) # {} => dot <= (n - 1) - g /\ s[g + dot] = "."
  <2> SUFFICES ASSUME Points(body) # {} PROVE dot <= (n - 1) - g /\ s[g + dot] = "." OBVIOUS
  <2>1. dot \in Points(body) BY DEF Point1
  <2>2. dot \in 1..((n - 1) - g) /\ body[dot] = "." BY <1>1, <1>4, <2>1 DEF Points
  <2> HIDE DEF dot
  <2> QED BY <1>4, <2>2
<1> HIDE DEF dot, body
<1>8. dot - 1 \in 0..((n - 1) - g) /\ 0 \in 0..(dot - 1) /\ 0 \in 0..((n - 1) - g)
  BY <1>2, <1>5
<1>9. whole = Part(s, g, i)
  <2>1. Part(Part(s, g, n - 1), 0, dot - 1) = Part(s, g + 0, g + (dot - 1))
    BY <1>2, <1>8, PartOfPartAt, SMTT(30)
  <2>2. g + 0 = g /\ g + (dot - 1) = i BY <1>2, <1>5
  <2> QED BY <1>3, <2>1, <2>2
<1>10. i \in g..Len(s) /\ i \in Nat BY <1>2, <1>5
<1>11. /\ Len(Part(s, g, i)) = i - g /\ (1 <= i - g => Part(s, g, i)[1] = s[g + 1])
  <2> DEFINE e == i
  <2>1. e \in g..Len(s) BY <1>10
  <2> HIDE DEF e
  <2>2. Len(Part(s, g, e)) = e - g /\ \A p \in 1..(e - g) : Part(s, g, e)[p] = s[g + p]
    BY <1>2, <2>1, PartOf, Zenon
  <2>3. 1 <= e - g => 1 \in 1..(e - g) BY <1>2, <2>1
  <2>4. Len(Part(s, g, e)) = e - g /\ (1 <= e - g => Part(s, g, e)[1] = s[g + 1])
    BY <2>2, <2>3
  <2> QED BY <2>4 DEF e
<1>12. i > g
  <2>1. Part(s, g, i) # <<>> BY <1>1, <1>9
  <2>2. Part(s, g, i) \in Seq(S) BY <1>2, <1>10, PartOf
  <2>3. Len(Part(s, g, i)) # 0 BY <2>1, <2>2
  <2> QED BY <1>2, <1>10, <1>11, <2>3
<1>13. i \in 1..Len(s) /\ i <= n - 1 BY <1>2, <1>5, <1>10, <1>12
<1>14. AllDigits(SubSeq(s, g + 1, i)) BY <1>1, <1>9 DEF Part
<1>15. i > g + 1 => s[g + 1] # "0"
  <2> SUFFICES ASSUME i > g + 1 PROVE s[g + 1] # "0" OBVIOUS
  <2>1. Len(whole) = i - g /\ i - g > 1 /\ 1 <= i - g BY <1>2, <1>9, <1>10, <1>11
  <2>2. whole[1] = s[g + 1] BY <1>9, <1>11, <2>1
  <2> HIDE DEF whole
  <2> QED BY <1>1, <2>1, <2>2
<1>16. SubSeq(s, 1, g) \in {<<>>, <<"-">>, <<"+">>}
  <2>1. CASE g = 0
    <3>1. SubSeq(s, 1, 0) = <<>> OBVIOUS
    <3> QED BY <2>1, <3>1
  <2>2. CASE g = 1
    <3>1. s[1] \in {"-", "+"} BY <2>2 DEF g, SignLen
    <3>2. SubSeq(s, 1, 1) = <<s[1]>>
      <4>1. 1 \in 1..Len(s) BY <1>1
      <4> QED BY <4>1, OneByte
    <3> QED BY <2>2, <3>1, <3>2
  <2> QED BY <1>2, <2>1, <2>2
<1>17. s[n] = "s" BY <1>1 DEF Last
<1>18. CASE Points(body) = {}
  <2>1. i + 1 = n BY <1>2, <1>6, <1>18
  <2>2. SubSeq(s, n, n) = <<s[n]>>
    <3>1. Len(s) \in 1..Len(s) BY <1>1
    <3> QED BY <3>1, OneByte
  <2>3. SubSeq(s, i + 1, Len(s)) = <<"s">> BY <1>17, <2>1, <2>2
  <2> QED BY <1>2, <1>12, <1>13, <1>14, <1>15, <1>16, <2>3, Zenon DEF IsCut
<1>19. CASE Points(body) # {}
  <2>1. s[i + 1] = "." /\ dot <= (n - 1) - g
    <3>1. g + dot = i + 1 BY <1>2, <1>5
    <3> QED BY <1>7, <1>19, <3>1
  <2>2. frac = Part(s, i + 1, n - 1)
    <3>1. dot \in 0..((n - 1) - g) /\ (n - 1) - g \in dot..((n - 1) - g)
      BY <1>2, <1>5, <2>1
    <3>2. Part(Part(s, g, n - 1), dot, (n - 1) - g) = Part(s, g + dot, g + ((n - 1) - g))
      BY <1>2, <3>1, PartOfPartAt, SMTT(30)
    <3>3. g + dot = i + 1 /\ g + ((n - 1) - g) = n - 1 BY <1>2, <1>5
    <3> QED BY <1>3, <1>4, <3>2, <3>3
  <2>3. Len(Part(s, i + 1, n - 1)) = (n - 1) - (i + 1)
    <3> DEFINE c == i + 1
    <3>1. c \in 0..Len(s) /\ n - 1 \in c..Len(s) BY <1>2, <1>5, <2>1
    <3> HIDE DEF c
    <3> DEFINE e == n - 1
    <3>2. c \in 0..Len(s) /\ e \in c..Len(s) BY <3>1
    <3> HIDE DEF e
    <3>3. Len(Part(s, c, e)) = e - c BY <3>2, PartAt, SMTT(30)
    <3> QED BY <3>3 DEF c, e
  <2>4. /\ Len(Part(s, i + 1, n - 1)) \in 1..FracDigits
        /\ AllDigits(Part(s, i + 1, n - 1))
    BY <1>1, <1>19, <2>2
  <2>5. i + 3 <= Len(s) /\ Len(s) - i - 2 <= FracDigits BY <1>2, <1>10, <2>3, <2>4
  <2>6. AllDigits(SubSeq(s, i + 2, Len(s) - 1))
    <3>1. (i + 1) + 1 = i + 2 BY <1>10
    <3> QED BY <2>4, <3>1 DEF Part
  <2> QED BY <1>1, <1>2, <1>12, <1>13, <1>14, <1>15, <1>16, <2>1, <2>5, <2>6, Zenon DEF IsCut
<1> QED BY <1>18, <1>19

\* There is one way to cut a text.
LEMMA OneCut ==
  ASSUME NEW S, NEW s \in Seq(S),
         NEW g \in 0..1, NEW i \in 1..Len(s), IsCut(s, g, i),
         NEW h \in 0..1, NEW j \in 1..Len(s), IsCut(s, h, j)
  PROVE  g = h /\ i = j
<1>1. g = SignLen(s) /\ h = SignLen(s) BY CutBytes
<1>2. Len(Apart(s).whole) = i - g /\ Len(Apart(s).whole) = j - h BY CutIsApart
<1> QED BY <1>1, <1>2
-----------------------------------------------------------------------------
(* Durations: a text is read as the amount of its cut *)

LEMMA ParseIs ==
  ASSUME NEW p, NEW secs, NEW b, p.neg <=> b, p.right
  PROVE  Parse(p, secs) =
           IF secs = Refused THEN NoDuration
           ELSE Parsed(b, secs, Naturally(p.frac) * TenTo(FracDigits - Len(p.frac)))
<1> DEFINE m == Naturally(p.frac) * TenTo(FracDigits - Len(p.frac))
<1>1. Parse(p, secs) = IF secs = Refused THEN NoDuration ELSE Parsed(p.neg, secs, m)
  BY Zenon DEF Parse
<1> HIDE DEF m
<1>2. Parsed(p.neg, secs, m) = Parsed(b, secs, m)
  <2>1. CASE b
    <3>1. p.neg BY <2>1
    <3>2. Parsed(p.neg, secs, m) = Checked(Duration(-secs, -m)) BY <3>1, Zenon DEF Parsed
    <3>3. Parsed(b, secs, m) = Checked(Duration(-secs, -m)) BY <2>1, Zenon DEF Parsed
    <3> QED BY <3>2, <3>3
  <2>2. CASE ~ b
    <3>1. ~ p.neg BY <2>2
    <3>2. Parsed(p.neg, secs, m) = Checked(Duration(secs, m)) BY <3>1, Zenon DEF Parsed
    <3>3. Parsed(b, secs, m) = Checked(Duration(secs, m)) BY <2>2, Zenon DEF Parsed
    <3> QED BY <3>2, <3>3
  <2> QED BY <2>1, <2>2
<1> QED BY <1>1, <1>2, Zenon DEF m

LEMMA SecondIs == ASSUME DigitsAssumption PROVE FracDigits \in Nat /\ Second \in Nat \ {0}
<1>1. FracDigits \in Nat BY DEF DigitsAssumption
<1> QED BY <1>1, Tens DEF Second

\* The digits of a fraction are less than a second.
LEMMA FractionOfSecond ==
  ASSUME DigitsAssumption, NEW S, NEW t \in Seq(S), AllDigits(t), Len(t) <= FracDigits
  PROVE  Naturally(t) * TenTo(FracDigits - Len(t)) \in 0..(Second - 1)
<1>1. FracDigits \in Nat /\ Second \in Nat \ {0} BY SecondIs
<1> DEFINE k == FracDigits - Len(t)  a == Naturally(t)  x == TenTo(Len(t))  y == TenTo(k)
<1>2. k \in Nat /\ Len(t) \in Nat /\ Len(t) + k = FracDigits BY <1>1
<1>3. a \in Nat /\ a < x BY NumberOf, DigitsBound
<1>4. x \in Nat /\ y \in Nat \ {0} BY <1>2, Tens
<1> HIDE DEF a
<1>5. Second = x * y
  <2>1. TenTo(Len(t) + k) = TenTo(Len(t)) * TenTo(k) BY <1>2, TensMultiply, Zenon
  <2> QED BY <1>2, <2>1 DEF Second
<1> HIDE DEF x, y
<1>6. (a + 1) * y <= x * y /\ a * y \in Nat BY <1>3, <1>4, TimesKeepsOrder
<1>7. (a + 1) * y = a * y + y BY <1>3, <1>4
<1>8. a * y < x * y BY <1>3, <1>4, <1>6, <1>7
<1> QED BY <1>1, <1>5, <1>6, <1>8 DEF a, y

\* What both parsers make of the parts of a cut text.
LEMMA ParseOfCut ==
  ASSUME DigitsAssumption, SecondsAssumption, NEW S, NEW s \in Seq(S),
         NEW g \in 0..1, NEW i \in 1..Len(s), IsCut(s, g, i)
  PROVE  LET w == Naturally(SubSeq(s, g + 1, i))
             fr == SubSeq(s, i + 2, Len(s) - 1)
             m == Naturally(fr) * TenTo(FracDigits - Len(fr))
             d == IF w > MaxCount THEN NoDuration ELSE Parsed(s[1] = "-", w, m)
         IN  /\ w \in Nat /\ m \in 0..(Second - 1)
             /\ parseDurationBytes(s) = d /\ ParseDuration(s) = d
<1> DEFINE wh == SubSeq(s, g + 1, i)
           w == Naturally(wh)
           fr == SubSeq(s, i + 2, Len(s) - 1)
           m == Naturally(fr) * TenTo(FracDigits - Len(fr))
           d == IF w > MaxCount THEN NoDuration ELSE Parsed(s[1] = "-", w, m)
           p == Apart(s)
<1>1. /\ p.right /\ (p.neg <=> s[1] = "-") /\ p.whole = wh /\ p.frac = fr
      /\ Len(wh) = i - g /\ AllDigits(wh) /\ fr \in Seq(S) /\ AllDigits(fr)
      /\ FracDigits \in Nat => Len(fr) <= FracDigits
  <2>1. wh = Part(s, g, i) BY DEF Part
  <2>2. /\ p.right /\ (p.neg <=> s[1] = "-") /\ p.whole = Part(s, g, i) /\ p.frac = fr
        /\ Len(p.whole) = i - g /\ AllDigits(p.whole)
        /\ p.frac \in Seq(S) /\ AllDigits(p.frac)
        /\ FracDigits \in Nat => Len(p.frac) <= FracDigits
    BY CutIsApart, Zenon
  <2> HIDE DEF wh, fr, p
  <2>3. p.whole = wh BY <2>1, <2>2
  <2> QED BY <2>2, <2>3, Zenon
<1>2. wh \in Seq(S)
  <2>1. i > g BY DEF IsCut
  <2> QED BY <2>1
<1>3. wh # <<>>
  <2>1. i > g BY DEF IsCut
  <2> HIDE DEF wh
  <2>2. Len(wh) # 0 BY <1>1, <2>1
  <2> QED BY <2>2
<1> HIDE DEF wh, fr, p
<1>4. w \in Nat BY <1>1, <1>2, NumberOf
<1>5. m \in 0..(Second - 1)
  <2>1. Len(fr) <= FracDigits BY <1>1, SecondIs
  <2> QED BY <1>1, <2>1, FractionOfSecond
<1>6. DigitLoop(wh) = Held(w) /\ ParseInt(wh) = Held(w)
  BY <1>1, <1>2, <1>3, LoopIsNumber, ParseIntIsNumber, Zenon
<1>7. (Held(w) = Refused) <=> (w > MaxCount)
  BY <1>4 DEF Held, Refused, SecondsAssumption
<1>8. Parse(p, Held(w)) = IF Held(w) = Refused THEN NoDuration
                          ELSE Parsed(s[1] = "-", Held(w), m)
  <2>1. Parse(p, Held(w)) = IF Held(w) = Refused THEN NoDuration
                            ELSE Parsed(s[1] = "-", Held(w),
                                        Naturally(p.frac) * TenTo(FracDigits - Len(p.frac)))
    BY <1>1, ParseIs, Zenon
  <2> QED BY <1>1, <2>1, Zenon
<1>9. Parse(p, Held(w)) = d
  <2>1. CASE w > MaxCount BY <1>7, <1>8, <2>1, Zenon
  <2>2. CASE ~ (w > MaxCount)
    <3>1. Held(w) = w BY <2>2, Zenon DEF Held
    <3> QED BY <1>7, <1>8, <2>2, <3>1, Zenon
  <2> QED BY <2>1, <2>2
<1>10. parseDurationBytes(s) = d /\ ParseDuration(s) = d
  BY <1>1, <1>6, <1>9, Zenon DEF parseDurationBytes, ParseDuration, p
<1> QED BY <1>4, <1>5, <1>10, Zenon DEF wh, fr

\* The duration with a sign for both of its parts.
LEMMA ParsedIs ==
  ASSUME DigitsAssumption, SecondsAssumption,
         NEW b, NEW w \in Nat, NEW m \in 0..(Second - 1)
  PROVE  LET d == IF b THEN Duration(-w, -m) ELSE Duration(w, m)
         IN  /\ Parsed(b, w, m) = IF w <= MaxSeconds THEN d ELSE NoDuration
             /\ w <= MaxSeconds => Valid(d) /\ d # NoDuration
<1>1. Second \in Nat \ {0} /\ NoDuration.nanos = Second BY SecondIs DEF NoDuration, Second
<1>2. ~ Valid(NoDuration) BY <1>1 DEF Valid
<1>3. CASE b
  <2>1. Duration(-w, -m).secs = -w /\ Duration(-w, -m).nanos = -m BY DEF Duration
  <2>2. Valid(Duration(-w, -m)) <=> w <= MaxSeconds
    BY <1>1, <2>1 DEF Valid, SecondsAssumption
  <2>3. Parsed(b, w, m) = Checked(Duration(-w, -m)) BY <1>3, Zenon DEF Parsed
  <2>4. Valid(Duration(-w, -m)) => Duration(-w, -m) # NoDuration BY <1>2
  <2> QED BY <1>3, <2>2, <2>3, <2>4, Zenon DEF Checked
<1>4. CASE ~ b
  <2>1. Duration(w, m).secs = w /\ Duration(w, m).nanos = m BY DEF Duration
  <2>2. Valid(Duration(w, m)) <=> w <= MaxSeconds
    BY <1>1, <2>1 DEF Valid, SecondsAssumption
  <2>3. Parsed(b, w, m) = Checked(Duration(w, m)) BY <1>4, Zenon DEF Parsed
  <2>4. Valid(Duration(w, m)) => Duration(w, m) # NoDuration BY <1>2
  <2> QED BY <1>4, <2>2, <2>3, <2>4, Zenon DEF Checked
<1> QED BY <1>3, <1>4

\* A text that cannot be cut is not read.
LEMMA NotCutNotRead ==
  ASSUME SecondsAssumption, NEW S, NEW s \in Seq(S),
         ~ \E g \in 0..1, i \in 1..Len(s) : IsCut(s, g, i)
  PROVE  parseDurationBytes(s) = NoDuration
<1> DEFINE p == Apart(s)
<1>1. ~ (p.right /\ AllDigits(p.whole)) BY ApartIsCut
<1>2. CASE ~ p.right BY <1>2, Zenon DEF parseDurationBytes, Parse
<1>3. CASE ~ AllDigits(p.whole)
  <2>1. p.whole \in Seq(S) BY ApartIs, Zenon
  <2>2. DigitLoop(p.whole) = Refused BY <1>3, <2>1, LoopIsNumber, Zenon
  <2> QED BY <2>2, Zenon DEF parseDurationBytes, Parse
<1> QED BY <1>1, <1>2, <1>3

\* A text is read as its amount, when it has one that is short enough.
LEMMA ReadText1 ==
  ASSUME DigitsAssumption, SecondsAssumption, NEW S, NEW s \in Seq(S)
  PROVE  LET d == parseDurationBytes(s)
             amounts == {a \in {Amount(s, c[1], c[2]) : c \in CutsOf(s)} :
                           Abs(a) < (MaxSeconds + 1) * Second}
         IN  IF d = NoDuration THEN amounts = {}
             ELSE Valid(d) /\ amounts = {d.secs * Second + d.nanos}
<1> DEFINE d == parseDurationBytes(s)
           amounts == {a \in {Amount(s, c[1], c[2]) : c \in CutsOf(s)} :
                         Abs(a) < (MaxSeconds + 1) * Second}
<1>1. CASE ~ \E g \in 0..1, i \in 1..Len(s) : IsCut(s, g, i)
  <2>1. CutsOf(s) = {}
    <3> SUFFICES ASSUME NEW c \in (0..1) \X (1..Len(s)) PROVE ~ IsCut(s, c[1], c[2]) BY DEF CutsOf
    <3>1. c[1] \in 0..1 /\ c[2] \in 1..Len(s) OBVIOUS
    <3> QED BY <1>1, <3>1, Zenon
  <2>2. amounts = {} BY <2>1
  <2>3. d = NoDuration BY <1>1, NotCutNotRead
  <2> QED BY <2>2, <2>3
<1>2. ASSUME NEW g \in 0..1, NEW i \in 1..Len(s), IsCut(s, g, i)
      PROVE  IF d = NoDuration THEN amounts = {}
             ELSE Valid(d) /\ amounts = {d.secs * Second + d.nanos}
  <2> DEFINE w == Naturally(SubSeq(s, g + 1, i))
             fr == SubSeq(s, i + 2, Len(s) - 1)
             m == Naturally(fr) * TenTo(FracDigits - Len(fr))
             b == s[1] = "-"
             a == Amount(s, g, i)
             limit == (MaxSeconds + 1) * Second
  <2>1. /\ w \in Nat /\ m \in 0..(Second - 1)
        /\ d = IF w > MaxCount THEN NoDuration ELSE Parsed(b, w, m)
    BY <1>2, ParseOfCut, Zenon
  <2>2. CutsOf(s) = {<<g, i>>}
    <3>1. <<g, i>> \in CutsOf(s) BY <1>2 DEF CutsOf
    <3>2. ASSUME NEW c \in CutsOf(s) PROVE c = <<g, i>>
      <4>1. c \in (0..1) \X (1..Len(s)) /\ IsCut(s, c[1], c[2]) BY DEF CutsOf
      <4>2. c[1] \in 0..1 /\ c[2] \in 1..Len(s) /\ c = <<c[1], c[2]>> BY <4>1
      <4>3. c[1] = g /\ c[2] = i BY <1>2, <4>1, <4>2, OneCut, Zenon
      <4> QED BY <4>2, <4>3
    <3> QED BY <3>1, <3>2
  <2>3. amounts = IF Abs(a) < limit THEN {a} ELSE {}
    <3>1. {Amount(s, c[1], c[2]) : c \in CutsOf(s)} = {a} BY <2>2
    <3> HIDE DEF a, limit
    <3> QED BY <3>1 DEF limit
  <2>4. a = IF b THEN -(w * Second + m) ELSE w * Second + m BY Zenon DEF Amount
  <2> HIDE DEF d, amounts, w, m, a
  <2>5. Second \in Nat \ {0} /\ MaxSeconds \in Nat /\ MaxCount \in Nat /\ MaxSeconds < MaxCount
    BY SecondIs DEF SecondsAssumption
  <2> DEFINE x == w * Second
  <2>6. x \in Nat BY <2>1, <2>5
  <2>7. Abs(a) < limit <=> w <= MaxSeconds
    <3> DEFINE y == MaxSeconds * Second
    <3>1. y \in Nat /\ limit = y + Second BY <2>5
    <3>2. w <= MaxSeconds => x <= y BY <2>1, <2>5, TimesKeepsOrder
    <3>3. ~ (w <= MaxSeconds) => limit <= x
      <4>1. MaxSeconds + 1 \in Nat BY <2>5
      <4>2. ~ (w <= MaxSeconds) => MaxSeconds + 1 <= w BY <2>1, <2>5
      <4> QED BY <2>1, <2>5, <4>1, <4>2, TimesKeepsOrder
    <3> HIDE DEF x, y, limit, b
    <3>4. Abs(a) = x + m
      <4>1. a = IF b THEN -(x + m) ELSE x + m BY <2>4 DEF x
      <4> QED BY <2>1, <2>5, <2>6, <4>1 DEF Abs
    <3> QED BY <2>1, <2>5, <2>6, <3>1, <3>2, <3>3, <3>4
  <2> DEFINE e == IF b THEN Duration(-w, -m) ELSE Duration(w, m)
  <2>8. /\ Parsed(b, w, m) = IF w <= MaxSeconds THEN e ELSE NoDuration
        /\ w <= MaxSeconds => Valid(e) /\ e # NoDuration
    BY <2>1, ParsedIs, Zenon
  <2>9. a = e.secs * Second + e.nanos
    <3>1. CASE b
      <4>1. e.secs = -w /\ e.nanos = -m BY <3>1 DEF Duration
      <4> HIDE DEF e, b
      <4>2. (-w) * Second = -(w * Second) BY <2>1, <2>5
      <4>3. a = -(w * Second + m) BY <2>4, <3>1
      <4> QED BY <2>1, <2>5, <2>6, <4>1, <4>2, <4>3
    <3>2. CASE ~ b
      <4>1. e.secs = w /\ e.nanos = m BY <3>2 DEF Duration
      <4> HIDE DEF e, b
      <4> QED BY <2>4, <3>2, <4>1
    <3> QED BY <3>1, <3>2
  <2> HIDE DEF e, b, limit, x
  <2>10. CASE w <= MaxSeconds
    <3>1. ~ (w > MaxCount) BY <2>1, <2>5, <2>10
    <3>2. d = e BY <2>1, <2>8, <2>10, <3>1, Zenon
    <3>3. amounts = {e.secs * Second + e.nanos} BY <2>3, <2>7, <2>9, <2>10, Zenon
    <3> QED BY <2>8, <2>10, <3>2, <3>3, Zenon
  <2>11. CASE ~ (w <= MaxSeconds)
    <3>1. d = NoDuration BY <2>1, <2>8, <2>11, Zenon
    <3>2. amounts = {} BY <2>3, <2>7, <2>11, Zenon
    <3> QED BY <3>1, <3>2, Zenon
  <2> QED BY <2>10, <2>11
<1> QED BY <1>1, <1>2, Zenon
-----------------------------------------------------------------------------
(* Durations: what is written is read as it was *)

LEMMA Joined ==
  ASSUME NEW S, NEW x \in Seq(S), NEW y \in Seq(S)
  PROVE  /\ x \o y \in Seq(S) /\ Len(x \o y) = Len(x) + Len(y)
         /\ \A k \in 1..Len(x) : (x \o y)[k] = x[k]
         /\ \A k \in 1..Len(y) : (x \o y)[Len(x) + k] = y[k]
OBVIOUS

\* The digits of a fraction without the zeros that it ends in.
LEMMA GroupIsFraction ==
  ASSUME DigitsAssumption, NEW k \in Nat, NEW w \in Nat \ {0}, k + w = FracDigits,
         NEW n \in 0..(Second - 1), n % TenTo(k) = 0
  PROVE  LET t == Padded(n \div TenTo(k), w)
         IN  /\ t \in Seq(Digits) /\ AllDigits(t) /\ Len(t) = w /\ t # <<>>
             /\ Naturally(t) * TenTo(FracDigits - Len(t)) = n
<1> DEFINE x == TenTo(k)  y == TenTo(w)  q == n \div x  t == Padded(q, w)
<1>1. Second \in Nat \ {0} /\ n \in Nat /\ n < Second BY SecondIs
<1>2. x \in Nat \ {0} /\ y \in Nat \ {0} BY Tens
<1>3. Second = x * y
  <2>1. TenTo(k + w) = TenTo(k) * TenTo(w) BY TensMultiply, Zenon
  <2> QED BY <2>1 DEF Second
<1>4. n % x = 0 OBVIOUS
<1> HIDE DEF x, y
<1>5. q \in Nat /\ q * x = n BY <1>1, <1>2, <1>4, QuotientFacts
<1> HIDE DEF q
<1>6. q < y
  <2> SUFFICES ASSUME y <= q PROVE FALSE BY <1>2, <1>5
  <2>1. y * x <= q * x BY <1>2, <1>5, TimesKeepsOrder
  <2>2. y * x = x * y BY <1>2
  <2> QED BY <1>1, <1>3, <1>5, <2>1, <2>2
<1>7. /\ t \in Seq(Digits) /\ AllDigits(t) /\ Naturally(t) = q /\ t # <<>>
      /\ Len(t) = w
  BY <1>5, <1>6, PaddedIsNumber DEF y
<1> HIDE DEF t
<1>8. FracDigits - Len(t) = k BY <1>7
<1> QED BY <1>5, <1>7, <1>8 DEF t, x, q

LEMMA FractionIs ==
  ASSUME DigitsAssumption, NEW n \in 0..(Second - 1)
  PROVE  LET t == Fraction(n)
         IN  /\ t \in Seq(Digits) /\ AllDigits(t) /\ Len(t) <= FracDigits /\ t # <<>>
             /\ Naturally(t) * TenTo(FracDigits - Len(t)) = n
<1> DEFINE G == GroupDigits
           Right(t) == /\ t \in Seq(Digits) /\ AllDigits(t) /\ Len(t) <= FracDigits /\ t # <<>>
                       /\ Naturally(t) * TenTo(FracDigits - Len(t)) = n
<1>1. G \in Nat \ {0} /\ FracDigits = 3 * G BY DEF DigitsAssumption
<1>2. /\ 2 * G \in Nat \ {0} /\ 2 * G + G = FracDigits /\ G + 2 * G = FracDigits
      /\ FracDigits \in Nat \ {0} /\ 0 + FracDigits = FracDigits
      /\ G <= FracDigits /\ 2 * G <= FracDigits
  BY <1>1
<1>3. n % TenTo(2 * G) = 0 => Right(Padded(n \div TenTo(2 * G), G))
  BY <1>1, <1>2, GroupIsFraction
<1>4. n % TenTo(G) = 0 => Right(Padded(n \div TenTo(G), 2 * G))
  BY <1>1, <1>2, GroupIsFraction
<1>5. Right(Padded(n, FracDigits))
  <2>1. n \div TenTo(0) = n /\ n % TenTo(0) = 0 /\ 0 \in Nat
    <3>1. n \in Nat BY SecondIs
    <3>2. n \div 1 = n /\ n % 1 = 0 BY <3>1
    <3> QED BY <3>2, Tens
  <2>2. Right(Padded(n \div TenTo(0), FracDigits)) BY <1>2, <2>1, GroupIsFraction
  <2> QED BY <2>1, <2>2
<1> HIDE DEF Right
<1>6. Right(Fraction(n)) BY <1>3, <1>4, <1>5, Zenon DEF Fraction
<1> QED BY <1>6 DEF Right

\* Where the zeros start.
LEMMA ZerosStart ==
  ASSUME NEW S, NEW t \in Seq(S)
  PROVE  \E m \in 0..Len(t) : /\ \A i \in (m + 1)..Len(t) : t[i] = "0"
                              /\ m > 0 => t[m] # "0"
<1> DEFINE T == {m \in Nat : m <= Len(t) /\ \A i \in (m + 1)..Len(t) : t[i] = "0"}
<1>1. Len(t) \in T OBVIOUS
<1>2. PICK m \in T : \A y \in T : ~ (<<y, m>> \in OpToRel(<, Nat))
  <2>1. T \subseteq Nat OBVIOUS
  <2> HIDE DEF T
  <2> QED BY <1>1, <2>1, WFMin, NatLessThanWellFounded
<1>3. m \in Nat /\ m \in 0..Len(t) /\ \A i \in (m + 1)..Len(t) : t[i] = "0" OBVIOUS
<1>4. ASSUME m > 0, t[m] = "0" PROVE FALSE
  <2>1. m - 1 \in Nat /\ m - 1 <= Len(t) /\ m - 1 < m BY <1>3, <1>4
  <2>2. ASSUME NEW i \in ((m - 1) + 1)..Len(t) PROVE t[i] = "0"
    <3>1. CASE i = m BY <1>4, <3>1
    <3>2. CASE i # m
      <4>1. i \in (m + 1)..Len(t) BY <1>3, <3>2
      <4> QED BY <1>3, <4>1
    <3> QED BY <3>1, <3>2
  <2>3. m - 1 \in T BY <2>1, <2>2
  <2> HIDE DEF T
  <2>4. ~ (<<m - 1, m>> \in OpToRel(<, Nat)) BY <1>2, <2>3
  <2> QED BY <1>3, <2>1, <2>4 DEF OpToRel
<1> QED BY <1>3, <1>4

LEMMA TrimmedIs ==
  ASSUME DigitsAssumption, NEW n \in 0..(Second - 1)
  PROVE  LET t == Trimmed(Padded(n, FracDigits))
         IN  /\ t \in Seq(Digits) /\ AllDigits(t) /\ Len(t) <= FracDigits
             /\ Naturally(t) * TenTo(FracDigits - Len(t)) = n
<1> DEFINE p == Padded(n, FracDigits)  t == Trimmed(p)
           last == {i \in DOMAIN p : p[i] # "0"}
<1>1. FracDigits \in Nat \ {0} /\ n \in Nat /\ n < TenTo(FracDigits)
  BY SecondIs DEF DigitsAssumption, Second
<1>2. p \in Seq(Digits) /\ AllDigits(p) /\ Naturally(p) = n /\ Len(p) = FracDigits
  BY <1>1, PaddedIsNumber
<1>3. t = IF last = {} THEN <<>> ELSE SubSeq(p, 1, Max(last)) BY Zenon DEF Trimmed
<1> HIDE DEF p, t
<1>4. DOMAIN p = 1..FracDigits BY <1>1, <1>2
<1>5. PICK m \in 0..Len(p) : /\ \A i \in (m + 1)..Len(p) : p[i] = "0"
                             /\ m > 0 => p[m] # "0"
  BY <1>2, ZerosStart
<1>6. m \in 0..FracDigits /\ m \in Nat BY <1>1, <1>2, <1>5
<1>7. \A i \in last : i <= m /\ i \in Nat
  <2> TAKE i \in last
  <2>1. i \in 1..FracDigits /\ p[i] # "0" BY <1>4
  <2>2. i \notin (m + 1)..Len(p) BY <1>5, <2>1
  <2> QED BY <1>1, <1>2, <1>6, <2>1, <2>2
<1>8. t = Part(p, 0, m)
  <2>1. CASE m = 0
    <3>1. last = {}
      <4> SUFFICES ASSUME NEW i \in last PROVE FALSE OBVIOUS
      <4>1. i \in 1..FracDigits BY <1>4
      <4> QED BY <1>1, <1>7, <2>1, <4>1
    <3> HIDE DEF last
    <3> QED BY <1>2, <1>3, <2>1, <3>1, Whole0
  <2>2. CASE m # 0
    <3>1. m \in last BY <1>4, <1>5, <1>6, <2>2
    <3> HIDE DEF last
    <3>2. Max(last) = m
      <4>1. /\ Max(last) \in last /\ \A y \in last : Max(last) >= y
        BY <1>7, <3>1 DEF Max
      <4> DEFINE x == Max(last)
      <4>2. x >= m /\ x <= m /\ x \in Nat BY <1>7, <3>1, <4>1
      <4> HIDE DEF x
      <4> QED BY <1>6, <4>2 DEF x
    <3> QED BY <1>3, <3>1, <3>2 DEF Part
  <2> QED BY <2>1, <2>2
<1> HIDE DEF last
<1>9. /\ t \in Seq(Digits) /\ Len(t) = m /\ AllDigits(t)
  <2>1. 0 \in 0..Len(p) /\ m \in 0..Len(p) BY <1>2, <1>5
  <2>2. \A q \in (0 + 1)..m : p[q] \in Digits BY <1>1, <1>2, <1>4, <1>6 DEF AllDigits
  <2>3. /\ Part(p, 0, m) \in Seq(Digits) /\ Len(Part(p, 0, m)) = m - 0
        /\ AllDigits(Part(p, 0, m))
    BY <1>2, <2>1, <2>2, PartOf, Zenon
  <2> QED BY <1>6, <1>8, <2>3
<1>10. Naturally(p) = Naturally(t) * TenTo(Len(p) - m)
  BY <1>2, <1>5, <1>8, ZerosAtTheEnd
<1> QED BY <1>1, <1>2, <1>6, <1>9, <1>10 DEF t, p

\* A written text and its cut.
WrittenText(sign, whole, frac) ==
  sign \o whole \o (IF frac = <<>> THEN <<>> ELSE <<".">> \o frac) \o <<"s">>
CutFrom(t, S, sign, whole, frac) ==
  LET g == Len(sign)
      i == g + Len(whole)
  IN  /\ t \in Seq(S) /\ g \in 0..1 /\ i \in 1..Len(t) /\ IsCut(t, g, i)
      /\ SubSeq(t, g + 1, i) = whole /\ SubSeq(t, i + 2, Len(t) - 1) = frac
      /\ sign = <<"-">> => t[1] = "-"
      /\ sign = <<>> => t[1] # "-"
LEMMA WrittenIsCut ==
  ASSUME FracDigits \in Nat, NEW S, "s" \in S, "." \in S, "-" \in S,
         NEW A \in {<<>>, <<"-">>},
         NEW W \in Seq(S), AllDigits(W), W # <<>>, Len(W) > 1 => W[1] # "0",
         NEW F \in Seq(S), AllDigits(F), Len(F) <= FracDigits
  PROVE  CutFrom(WrittenText(A, W, F), S, A, W, F)
<1> DEFINE M == IF F = <<>> THEN <<>> ELSE <<".">> \o F
           B == A \o W  C == B \o M
           t == C \o <<"s">>
           g == Len(A)  w == Len(W)  m == Len(M)  f == Len(F)  i == g + w  n == Len(t)
<1>1. /\ A \in Seq(S) /\ g \in 0..1 /\ g \in Nat /\ <<"s">> \in Seq(S)
      /\ Len(<<"s">>) = 1 /\ <<"s">>[1] = "s" /\ <<".">> \in Seq(S)
      /\ (g = 0 => A = <<>>) /\ (g = 1 => A = <<"-">> /\ A[1] = "-")
      /\ (A = <<"-">> => g = 1)
  <2>1. /\ <<"s">> \in Seq(S) /\ <<".">> \in Seq(S) /\ <<"-">> \in Seq(S)
        /\ Len(<<"s">>) = 1 /\ <<"s">>[1] = "s" /\ Len(<<"-">>) = 1 /\ <<"-">>[1] = "-"
    <3>1. "s" \in S /\ "." \in S /\ "-" \in S OBVIOUS
    <3>2. <<"s">> \in Seq(S) BY <3>1
    <3>3. <<".">> \in Seq(S) BY <3>1
    <3>4. <<"-">> \in Seq(S) BY <3>1
    <3>5. Len(<<"s">>) = 1 /\ <<"s">>[1] = "s" OBVIOUS
    <3>6. Len(<<"-">>) = 1 /\ <<"-">>[1] = "-" OBVIOUS
    <3> QED BY <3>2, <3>3, <3>4, <3>5, <3>6
  <2>2. <<>> \in Seq(S) /\ Len(<<>>) = 0 OBVIOUS
  <2>3. CASE A = <<>>
    <3>1. g = 0 BY <2>2, <2>3
    <3>2. A \in Seq(S) BY <2>2, <2>3
    <3>3. A # <<"-">> BY <2>1, <2>2, <2>3
    <3> HIDE DEF g
    <3> QED BY <2>1, <2>3, <3>1, <3>2, <3>3
  <2>4. CASE A = <<"-">>
    <3>1. g = 1 BY <2>1, <2>4
    <3>2. A \in Seq(S) /\ A[1] = "-" BY <2>1, <2>4
    <3> HIDE DEF g
    <3> QED BY <2>1, <2>4, <3>1, <3>2
  <2> QED BY <2>3, <2>4
<1>2. w \in Nat /\ f \in Nat /\ w >= 1 OBVIOUS
<1>3. /\ M \in Seq(S) /\ m \in Nat
      /\ (f = 0 => m = 0)
      /\ (f # 0 => m = f + 1 /\ M[1] = "." /\ \A k \in 1..f : M[1 + k] = F[k])
  <2>1. CASE F = <<>> BY <2>1
  <2>2. CASE F # <<>>
    <3>1. M = <<".">> \o F /\ Len(<<".">>) = 1 /\ <<".">>[1] = "." BY <2>2
    <3>2. f # 0 BY <2>2
    <3> HIDE DEF M
    <3> QED BY <1>1, <3>1, <3>2, Joined
  <2> QED BY <2>1, <2>2
<1> HIDE DEF M
<1>4. /\ B \in Seq(S) /\ Len(B) = i
      /\ \A k \in 1..g : B[k] = A[k]
      /\ \A k \in 1..w : B[g + k] = W[k]
  BY <1>1, Joined
<1> HIDE DEF B
<1>5. /\ C \in Seq(S) /\ Len(C) = i + m
      /\ \A k \in 1..i : C[k] = B[k]
      /\ \A k \in 1..m : C[i + k] = M[k]
  <2>1. /\ C \in Seq(S) /\ Len(C) = Len(B) + Len(M)
        /\ \A k \in 1..Len(B) : C[k] = B[k]
        /\ \A k \in 1..Len(M) : C[Len(B) + k] = M[k]
    <3>1. B \in Seq(S) /\ M \in Seq(S) BY <1>3, <1>4
    <3> QED BY <3>1
  <2> HIDE DEF C, i, m
  <2>2. Len(M) = m BY DEF m
  <2> QED BY <1>4, <2>1, <2>2
<1> HIDE DEF C
<1>6. /\ t \in Seq(S) /\ n = i + m + 1
      /\ \A k \in 1..(i + m) : t[k] = C[k]
      /\ t[n] = "s"
  <2> DEFINE z == <<"s">>
  <2>0. z \in Seq(S) BY <1>1
  <2> HIDE DEF z
  <2>5. /\ C \o z \in Seq(S) /\ Len(C \o z) = Len(C) + Len(z)
        /\ \A k \in 1..Len(C) : (C \o z)[k] = C[k]
        /\ \A k \in 1..Len(z) : (C \o z)[Len(C) + k] = z[k]
    <3>1. C \in Seq(S) BY <1>5
    <3> QED BY <2>0, <3>1
  <2>1. /\ t \in Seq(S) /\ n = Len(C) + Len(<<"s">>)
        /\ \A k \in 1..Len(C) : t[k] = C[k]
        /\ \A k \in 1..Len(<<"s">>) : t[Len(C) + k] = <<"s">>[k]
    BY <2>5, Zenon DEF z
  <2> HIDE DEF t
  <2>2. n = i + m + 1 BY <1>1, <1>5, <2>1
  <2>3. t[Len(C) + 1] = "s" BY <1>1, <2>1
  <2> QED BY <1>1, <1>2, <1>3, <1>5, <2>1, <2>2, <2>3
<1> HIDE DEF t
<1>7. i \in Nat /\ i >= 1 /\ n \in Nat BY <1>1, <1>2, <1>3, <1>6
<1>8. \A k \in 1..w : t[g + k] = W[k]
  <2> TAKE k \in 1..w
  <2>1. g + k \in 1..i /\ g + k \in 1..(i + m) BY <1>1, <1>2, <1>3
  <2> HIDE DEF g, i, m, w
  <2>2. t[g + k] = C[g + k] /\ C[g + k] = B[g + k] /\ B[g + k] = W[k]
    BY <1>4, <1>5, <1>6, <2>1, Zenon
  <2> QED BY <2>2
<1>9. \A k \in 1..m : t[i + k] = M[k]
  <2> TAKE k \in 1..m
  <2>1. i + k \in 1..(i + m) BY <1>3, <1>7
  <2> QED BY <1>5, <1>6, <2>1
<1>10. g = 1 => t[1] = "-"
  <2> SUFFICES ASSUME g = 1 PROVE t[1] = "-" OBVIOUS
  <2>1. 1 \in 1..g /\ 1 \in 1..i /\ 1 \in 1..(i + m) BY <1>3, <1>7
  <2> QED BY <1>1, <1>4, <1>5, <1>6, <2>1
<1>11. DOMAIN W = 1..w /\ DOMAIN F = 1..f OBVIOUS
<1> HIDE DEF g, w, m, f, n
<1>12. g = 0 => t[1] # "-"
  <2> SUFFICES ASSUME g = 0 PROVE t[1] # "-" OBVIOUS
  <2>1. 1 \in 1..w /\ g + 1 = 1 BY <1>2
  <2>2. t[1] = W[1] BY <1>8, <2>1
  <2>3. W[1] \in Digits BY <1>11, <2>1 DEF AllDigits
  <2> QED BY <2>2, <2>3, DigitFacts, Zenon
<1>13. n - 1 \in Nat /\ i \in 0..n /\ g \in 0..n /\ i \in g..n /\ g < i /\ i < n /\ i \in 1..n
  BY <1>1, <1>2, <1>3, <1>6, <1>7
<1>14. SubSeq(t, g + 1, i) = W
  <2> DEFINE x == Part(t, g, i)  e == i
  <2>1. /\ x \in Seq(S) /\ Len(x) = i - g /\ \A k \in 1..(i - g) : x[k] = t[g + k]
    <3> HIDE DEF i
    <3>1. g \in 0..Len(t) /\ i \in g..Len(t) BY <1>13 DEF n
    <3> QED BY <1>6, <3>1, PartAt, SMTT(30)
  <2>2. x = SubSeq(t, g + 1, i) BY DEF Part
  <2> HIDE DEF x
  <2>3. i - g = w BY <1>1, <1>2
  <2>4. Len(x) = Len(W) /\ \A k \in 1..Len(x) : x[k] = W[k] BY <1>8, <2>1, <2>3 DEF w
  <2>5. x = W BY <2>1, <2>4, SeqEqual
  <2> QED BY <2>2, <2>5
<1>15. SubSeq(t, i + 2, n - 1) = F
  <2> DEFINE c == i + 1  e == n - 1  x == Part(t, c, e)
  <2>0. x = SubSeq(t, i + 2, n - 1)
    <3>1. (i + 1) + 1 = i + 2 BY <1>7
    <3> QED BY <3>1 DEF Part
  <2>1. CASE f = 0
    <3>1. F = <<>> BY <2>1 DEF f
    <3>2. n - 1 = i BY <1>3, <1>6, <1>7, <2>1
    <3>3. SubSeq(t, i + 2, i) = <<>> BY <1>7
    <3> QED BY <3>1, <3>2, <3>3
  <2>2. CASE f # 0
    <3>1. c \in 0..n /\ e \in c..n /\ e - c = f
      <4>1. m = f + 1 BY <1>3, <2>2
      <4>2. n = i + m + 1 /\ i \in Nat /\ f \in Nat BY <1>2, <1>6, <1>7
      <4> HIDE DEF i
      <4> QED BY <4>1, <4>2
    <3>2. \A k \in 1..f : t[c + k] = F[k]
      <4> TAKE k \in 1..f
      <4>1. 1 + k \in 1..m /\ i + (1 + k) = c + k BY <1>2, <1>3, <1>7, <2>2
      <4>2. t[i + (1 + k)] = M[1 + k] BY <1>9, <4>1
      <4> QED BY <1>3, <2>2, <4>1, <4>2
    <3> HIDE DEF c, e
    <3>3. x \in Seq(S) /\ Len(x) = e - c /\ \A k \in 1..(e - c) : x[k] = t[c + k]
      <4>1. c \in 0..Len(t) /\ e \in c..Len(t) BY <3>1 DEF n
      <4> QED BY <1>6, <4>1, PartAt, SMTT(30)
    <3> HIDE DEF x
    <3>4. Len(x) = Len(F) /\ \A k \in 1..Len(x) : x[k] = F[k] BY <3>1, <3>2, <3>3 DEF f
    <3>5. x = F BY <3>3, <3>4, SeqEqual
    <3> QED BY <2>0, <3>5
  <2> QED BY <2>1, <2>2
<1>16. SubSeq(t, 1, g) \in {<<>>, <<"-">>, <<"+">>}
  <2>1. CASE g = 0
    <3>1. SubSeq(t, 1, 0) = <<>> OBVIOUS
    <3> QED BY <2>1, <3>1
  <2>2. CASE g = 1
    <3>1. 1 \in 1..Len(t) BY <1>7, <1>13 DEF n
    <3>2. SubSeq(t, 1, 1) = <<t[1]>> BY <1>6, <3>1, OneByte
    <3> QED BY <1>10, <2>2, <3>2
  <2> QED BY <1>1, <2>1, <2>2
<1>17. i > g + 1 => t[g + 1] # "0"
  <2> SUFFICES ASSUME i > g + 1 PROVE t[g + 1] # "0" OBVIOUS
  <2>1. w > 1 /\ 1 \in 1..w BY <1>1, <1>2
  <2> QED BY <1>8, <2>1 DEF w
<1>18. Last(t) = "s" BY <1>6, Zenon DEF Last, n
<1>19. f # 0 => i + 3 <= n /\ t[i + 1] = "." /\ n - i - 2 <= FracDigits
  <2> SUFFICES ASSUME f # 0 PROVE i + 3 <= n /\ t[i + 1] = "." /\ n - i - 2 <= FracDigits
    OBVIOUS
  <2>1. 1 \in 1..m /\ m = f + 1 /\ M[1] = "." BY <1>2, <1>3
  <2>2. t[i + 1] = "." BY <1>9, <2>1
  <2>3. f <= FracDigits BY DEF f
  <2> QED BY <1>2, <1>6, <1>7, <2>1, <2>2, <2>3
<1>20. f = 0 => SubSeq(t, i + 1, n) = <<"s">>
  <2> SUFFICES ASSUME f = 0 PROVE SubSeq(t, i + 1, n) = <<"s">> OBVIOUS
  <2>1. i + 1 = n BY <1>3, <1>6, <1>7
  <2>2. n \in 1..Len(t) BY <1>13 DEF n
  <2>3. SubSeq(t, n, n) = <<t[n]>> BY <1>6, <2>2, OneByte
  <2> HIDE DEF i
  <2>4. t[n] = "s" BY <1>6
  <2> QED BY <2>1, <2>3, <2>4
<1> HIDE DEF i
<1>21. IsCut(t, g, i)
  <2>1. SubSeq(t, i + 1, Len(t)) = <<"s">> \/ (/\ i + 3 <= Len(t) /\ t[i + 1] = "."
           /\ Last(t) = "s" /\ Len(t) - i - 2 <= FracDigits
           /\ AllDigits(SubSeq(t, i + 2, Len(t) - 1)))
    <3>1. CASE f = 0 BY <1>20, <3>1 DEF n
    <3>2. CASE f # 0 BY <1>15, <1>18, <1>19, <3>2 DEF n
    <3> QED BY <3>1, <3>2
  <2> QED BY <1>13, <1>14, <1>16, <1>17, <2>1 DEF IsCut
<1>22. /\ A = <<"-">> => t[1] = "-"
       /\ A = <<>> => t[1] # "-"
  <2>1. A = <<"-">> => g = 1 BY <1>1, Zenon
  <2>2. A = <<>> => g = 0
    <3>1. Len(<<>>) = 0 OBVIOUS
    <3> QED BY <3>1, Zenon DEF g
  <2> QED BY <1>10, <1>12, <2>1, <2>2
<1>23. i \in 1..Len(t) BY <1>13 DEF n
<1>24. t = WrittenText(A, W, F) BY Zenon DEF WrittenText, t, C, B, M
<1> QED BY <1>1, <1>6, <1>14, <1>15, <1>21, <1>22, <1>23, <1>24, Zenon DEF CutFrom, g, i, w, n
DurationBytes == Digits \cup {"s", ".", "-"}

\* A valid duration, written either way, is read as itself by either parser.
LEMMA WrittenIsRead ==
  ASSUME DigitsAssumption, SecondsAssumption,
         NEW d \in [secs : Int, nanos : Int], Valid(d),
         NEW t \in {AppendDuration(d), FormatDuration(d)}
  PROVE  t \in Seq(DurationBytes) /\ parseDurationBytes(t) = d /\ ParseDuration(t) = d
<1> DEFINE S == DurationBytes
           A == Sign(d)
           a == Abs(d.secs)  b == Abs(d.nanos)
           W == Padded(a, 1)
           F == IF t = AppendDuration(d)
                THEN IF d.nanos = 0 THEN <<>> ELSE Fraction(b)
                ELSE Trimmed(Padded(b, FracDigits))
           g == Len(A)  i == g + Len(W)
<1>1. FracDigits \in Nat /\ Second \in Nat \ {0} BY SecondIs
<1>2. /\ d.secs \in Int /\ d.nanos \in Int /\ d = Duration(d.secs, d.nanos)
  BY DEF Duration
<1>3. a \in Nat /\ a <= MaxSeconds /\ b \in 0..(Second - 1) /\ MaxSeconds < MaxCount
      /\ MaxSeconds \in Nat /\ MaxCount \in Nat
  BY <1>1, <1>2 DEF Valid, Abs, SecondsAssumption
<1>4. /\ Negative(d) => -a = d.secs /\ -b = d.nanos
      /\ ~ Negative(d) => a = d.secs /\ b = d.nanos
  BY <1>2 DEF Valid, Abs, Negative
<1>5. d.nanos = 0 => b = 0 BY DEF Abs
<1>6. "s" \in S /\ "." \in S /\ "-" \in S /\ Digits \subseteq S BY DEF DurationBytes
<1>7. A \in {<<>>, <<"-">>} /\ (A = <<"-">> <=> Negative(d))
  <2>1. <<>> # <<"-">> OBVIOUS
  <2> QED BY <2>1, Zenon DEF Sign
<1> HIDE DEF a, b, S
<1>8. /\ W \in Seq(S) /\ AllDigits(W) /\ W # <<>> /\ (Len(W) > 1 => W[1] # "0")
      /\ Naturally(W) = a
  <2>1. W \in Seq(Digits) /\ AllDigits(W) /\ W # <<>> /\ (Len(W) > 1 => W[1] # "0")
        /\ Naturally(W) = a
    <3>1. 1 \in Nat \ {0} /\ a \in Nat BY <1>3
    <3> QED BY <3>1, PaddedIsNumber, Zenon
  <2> HIDE DEF W
  <2>2. W \in Seq(S) BY <1>6, <2>1
  <2> QED BY <2>1, <2>2
<1>9. /\ F \in Seq(S) /\ AllDigits(F) /\ Len(F) <= FracDigits
      /\ Naturally(F) * TenTo(FracDigits - Len(F)) = b
  <2> DEFINE Right(x) == /\ x \in Seq(Digits) /\ AllDigits(x) /\ Len(x) <= FracDigits
                         /\ Naturally(x) * TenTo(FracDigits - Len(x)) = b
  <2>1. Right(Fraction(b)) BY <1>3, FractionIs
  <2>2. Right(Trimmed(Padded(b, FracDigits))) BY <1>3, TrimmedIs
  <2>3. d.nanos = 0 => Right(<<>>)
    <3>1. <<>> \in Seq(Digits) /\ AllDigits(<<>>) /\ Len(<<>>) = 0 BY DEF AllDigits
    <3>2. FracDigits - Len(<<>>) \in Nat BY <1>1, <3>1
    <3>3. TenTo(FracDigits - Len(<<>>)) \in Nat BY <3>2, Tens
    <3>4. Naturally(<<>>) * TenTo(FracDigits - Len(<<>>)) = 0 BY <3>3, NoDigits
    <3> QED BY <1>1, <1>5, <3>1, <3>4
  <2> HIDE DEF Right
  <2>4. Right(F) BY <2>1, <2>2, <2>3, Zenon
  <2> HIDE DEF F
  <2>5. F \in Seq(Digits) /\ AllDigits(F) /\ Len(F) <= FracDigits
        /\ Naturally(F) * TenTo(FracDigits - Len(F)) = b
    BY <2>4 DEF Right
  <2>6. F \in Seq(S) BY <1>6, <2>5
  <2> QED BY <2>5, <2>6
<1>10. t = A \o W \o (IF F = <<>> THEN <<>> ELSE <<".">> \o F) \o <<"s">>
  <2>1. CASE t = AppendDuration(d)
    <3>1. F = IF d.nanos = 0 THEN <<>> ELSE Fraction(b) BY <2>1, Zenon
    <3>2. Fraction(b) # <<>> BY <1>3, FractionIs
    <3>3. AppendDuration(d) =
            A \o W \o (IF d.nanos = 0 THEN <<>> ELSE <<".">> \o Fraction(b)) \o <<"s">>
      BY Zenon DEF AppendDuration, a, b
    <3> HIDE DEF F, A, W
    <3>4. CASE d.nanos = 0
      <4>1. F = <<>> BY <3>1, <3>4, Zenon
      <4> QED BY <2>1, <3>3, <3>4, <4>1, Zenon
    <3>5. CASE d.nanos # 0
      <4>1. F = Fraction(b) /\ F # <<>> BY <3>1, <3>2, <3>5, Zenon
      <4> QED BY <2>1, <3>3, <3>5, <4>1, Zenon
    <3> QED BY <3>4, <3>5
  <2>2. CASE t # AppendDuration(d)
    <3>1. F = Trimmed(Padded(b, FracDigits)) /\ t = FormatDuration(d) BY <2>2, Zenon
    <3> DEFINE f == Trimmed(Padded(b, FracDigits))
    <3>2. FormatDuration(d) = A \o W \o (IF f = <<>> THEN <<>> ELSE <<".">> \o f) \o <<"s">>
      BY Zenon DEF FormatDuration, a, b
    <3> HIDE DEF F, A, W, f
    <3>3. F = f BY <3>1 DEF f
    <3> QED BY <3>1, <3>2, <3>3, Zenon
  <2> QED BY <2>1, <2>2
<1> HIDE DEF A, W, F
<1>11. /\ t \in Seq(S) /\ g \in 0..1 /\ i \in 1..Len(t) /\ IsCut(t, g, i)
       /\ SubSeq(t, g + 1, i) = W /\ SubSeq(t, i + 2, Len(t) - 1) = F
       /\ A = <<"-">> => t[1] = "-"
       /\ A = <<>> => t[1] # "-"
  <2> DEFINE z == WrittenText(A, W, F)
  <2>1. /\ FracDigits \in Nat /\ "s" \in S /\ "." \in S /\ "-" \in S
        /\ A \in {<<>>, <<"-">>}
        /\ W \in Seq(S) /\ AllDigits(W) /\ W # <<>> /\ (Len(W) > 1 => W[1] # "0")
        /\ F \in Seq(S) /\ AllDigits(F) /\ Len(F) <= FracDigits
    BY <1>1, <1>6, <1>7, <1>8, <1>9, Zenon
  <2>2. CutFrom(z, S, A, W, F) BY <2>1, WrittenIsCut, Zenon
  <2>3. t = z BY <1>10, Zenon DEF WrittenText
  <2> HIDE DEF z
  <2> QED BY <2>2, <2>3, Zenon DEF CutFrom
<1> HIDE DEF g, i
<1> DEFINE e == IF a > MaxCount THEN NoDuration ELSE Parsed(t[1] = "-", a, b)
<1>12. parseDurationBytes(t) = e /\ ParseDuration(t) = e
  <2> DEFINE w == Naturally(SubSeq(t, g + 1, i))
             fr == SubSeq(t, i + 2, Len(t) - 1)
             m == Naturally(fr) * TenTo(FracDigits - Len(fr))
             x == IF w > MaxCount THEN NoDuration ELSE Parsed(t[1] = "-", w, m)
  <2>1. parseDurationBytes(t) = x /\ ParseDuration(t) = x BY <1>11, ParseOfCut, Zenon
  <2>2. w = a /\ m = b BY <1>8, <1>9, <1>11, Zenon
  <2> HIDE DEF w, m
  <2> QED BY <2>1, <2>2, Zenon
<1>13. e = Parsed(t[1] = "-", a, b)
  <2>1. ~ (a > MaxCount) BY <1>3
  <2> QED BY <2>1, Zenon
<1> HIDE DEF e
<1>14. e = IF t[1] = "-" THEN Duration(-a, -b) ELSE Duration(a, b)
  BY <1>3, <1>13, ParsedIs, Zenon
<1>15. e = d
  <2>1. t[1] = "-" <=> Negative(d) BY <1>7, <1>11, Zenon
  <2>2. CASE Negative(d) BY <1>2, <1>4, <1>14, <2>1, <2>2, Zenon
  <2>3. CASE ~ Negative(d) BY <1>2, <1>4, <1>14, <2>1, <2>3, Zenon
  <2> QED BY <2>2, <2>3
<1> QED BY <1>11, <1>12, <1>15, Zenon DEF S

\* Whatever the text, what is read of it is whole numbers.
LEMMA ReadIsTyped ==
  ASSUME DigitsAssumption, SecondsAssumption, NEW S, NEW s \in Seq(S)
  PROVE  /\ parseDurationBytes(s) \in [secs : Int, nanos : Int]
         /\ ParseDuration(s) \in [secs : Int, nanos : Int]
<1> DEFINE p == Apart(s)  fr == p.frac  wh == p.whole
           m == Naturally(fr) * TenTo(FracDigits - Len(fr))
           Typed(d) == d \in [secs : Int, nanos : Int]
<1>1. Second \in Nat /\ FracDigits \in Nat BY SecondIs
<1>2. Typed(NoDuration) BY <1>1 DEF NoDuration, Second
<1>3. ASSUME p.right PROVE m \in Nat
  <2> DEFINE body == BodyOf(s)  dot == Point1(body)  frac == Part(body, dot, Len(body))
  <2>1. /\ body \in Seq(S) /\ fr = frac /\ fr \in Seq(S)
        /\ Points(body) # {} => Len(frac) \in 1..FracDigits /\ AllDigits(frac)
    BY <1>3, ApartIs, Zenon
  <2>2. Points(body) = {} => frac = <<>>
    <3> SUFFICES ASSUME Points(body) = {} PROVE frac = <<>> OBVIOUS
    <3>1. dot = Len(body) + 1 BY DEF Point1
    <3> HIDE DEF body
    <3> QED BY <2>1, <3>1 DEF Part
  <2> HIDE DEF body, dot, frac
  <2>3. AllDigits(fr) /\ Len(fr) <= FracDigits
    <3>1. AllDigits(<<>>) /\ Len(<<>>) = 0 BY DEF AllDigits
    <3>2. CASE Points(body) = {} BY <1>1, <2>1, <2>2, <3>1, <3>2
    <3>3. CASE Points(body) # {}
      <4>1. Len(fr) \in 1..FracDigits /\ AllDigits(fr) BY <2>1, <3>3, Zenon
      <4> HIDE DEF fr
      <4> QED BY <1>1, <4>1
    <3> QED BY <3>2, <3>3
  <2> HIDE DEF fr
  <2>4. m \in 0..(Second - 1) BY <2>1, <2>3, FractionOfSecond
  <2> QED BY <1>1, <2>4
<1>4. p.right => wh \in Seq(S) /\ wh # <<>> BY ApartIs, Zenon
<1> HIDE DEF p
<1>5. ASSUME NEW b, NEW k \in Int, NEW j \in Int PROVE Typed(Parsed(b, k, j))
  <2>1. Typed(Duration(k, j)) /\ Typed(Duration(-k, -j)) BY DEF Duration
  <2> HIDE DEF Typed
  <2> QED BY <1>2, <2>1, Zenon DEF Parsed, Checked
<1>6. ASSUME NEW k, p.right => k \in Int PROVE Typed(Parse(p, k))
  <2>1. CASE p.right
    <3>1. Typed(Parsed(p.neg, k, m)) BY <1>3, <1>5, <1>6, <2>1
    <3> HIDE DEF Typed
    <3> QED BY <1>2, <3>1, Zenon DEF Parse
  <2>2. CASE ~ p.right
    <3> HIDE DEF Typed
    <3> QED BY <1>2, <2>2, Zenon DEF Parse
  <2> QED BY <2>1, <2>2
<1>7. p.right => ParseInt(wh) \in Int
  <2> HIDE DEF wh
  <2> QED BY <1>4, ParseIntIsNumber
<1>8. p.right => DigitLoop(wh) \in Int
  <2> SUFFICES ASSUME p.right PROVE DigitLoop(wh) \in Int OBVIOUS
  <2>0. wh \in Seq(S) BY <1>4
  <2> HIDE DEF wh
  <2>1. DigitLoop(wh) = IF AllDigits(wh) THEN Held(Naturally(wh)) ELSE Refused
    BY <2>0, LoopIsNumber
  <2>2. AllDigits(wh) => Naturally(wh) \in Nat BY <2>0, NumberOf
  <2> QED BY <2>1, <2>2 DEF Held, Refused, SecondsAssumption
<1> HIDE DEF Typed
<1>9. Typed(parseDurationBytes(s)) /\ Typed(ParseDuration(s))
  BY <1>6, <1>7, <1>8, Zenon DEF parseDurationBytes, ParseDuration, p
<1> QED BY <1>9 DEF Typed
-----------------------------------------------------------------------------
(* Durations: the theorems *)

\* What the steps keep: the text is a sequence, the value is of whole numbers,
\* and a text just written is one of the two for a valid value.
DurationInvariant ==
  /\ \E S : wire \in Seq(S)
  /\ value \in [secs : Int, nanos : Int]
  /\ step = "written" => Valid(value) /\ wire \in {AppendDuration(value), FormatDuration(value)}

LEMMA DurationStarts ==
  ASSUME DigitsAssumption, SecondsAssumption, InputAssumption, DurationInit
  PROVE  DurationInvariant
<1>0. Second \in Nat BY SecondIs
<1>1. NoDuration \in [secs : Int, nanos : Int] BY <1>0 DEF NoDuration, Second
<1>2. CASE wire \in Texts /\ value = NoDuration /\ given = [text |-> wire] /\ step = "text"
  <2>1. wire \in Seq(STRING) BY <1>2, Zenon DEF InputAssumption
  <2>2. \E S : wire \in Seq(S) BY <2>1, Zenon
  <2>3. step # "written" BY <1>2
  <2> QED BY <1>1, <1>2, <2>2, <2>3 DEF DurationInvariant
<1>3. CASE value \in Values /\ wire = <<>> /\ given = [value |-> value] /\ step = "value"
  <2>1. wire \in Seq({}) BY <1>3
  <2>2. \E S : wire \in Seq(S) BY <2>1, Zenon
  <2>3. step # "written" BY <1>3
  <2>4. value \in [secs : Int, nanos : Int] BY <1>3, Zenon DEF InputAssumption
  <2> QED BY <2>2, <2>3, <2>4 DEF DurationInvariant
<1> QED BY <1>2, <1>3 DEF DurationInit

LEMMA DurationStep ==
  ASSUME DigitsAssumption, SecondsAssumption, DurationInvariant,
         [DurationNext]_conversion
  PROVE  DurationInvariant' /\ (step = "written" => value' = value)
<1>1. PICK S : wire \in Seq(S) BY Zenon DEF DurationInvariant
<1>2. value \in [secs : Int, nanos : Int] BY DEF DurationInvariant
<1>3. CASE ReadText
  <2>1. /\ wire' = wire /\ value' \in {parseDurationBytes(wire), ParseDuration(wire)}
        /\ step' \in {"read", "again"}
    BY <1>3 DEF ReadText
  <2>2. \E T : wire' \in Seq(T) BY <1>1, <2>1, Zenon
  <2>3. value' \in [secs : Int, nanos : Int]
    <3>1. /\ parseDurationBytes(wire) \in [secs : Int, nanos : Int]
          /\ ParseDuration(wire) \in [secs : Int, nanos : Int]
      BY <1>1, ReadIsTyped, Zenon
    <3> QED BY <2>1, <3>1, Zenon
  <2>4. step' # "written" BY <2>1
  <2>5. DurationInvariant' BY <2>2, <2>3, <2>4, Zenon DEF DurationInvariant
  <2>6. step = "written" => value' = value
    <3> SUFFICES ASSUME step = "written" PROVE value' = value OBVIOUS
    <3>1. Valid(value) /\ wire \in {AppendDuration(value), FormatDuration(value)}
      BY DEF DurationInvariant
    <3>2. parseDurationBytes(wire) = value /\ ParseDuration(wire) = value
      BY <1>2, <3>1, WrittenIsRead, Zenon
    <3> QED BY <2>1, <3>2, Zenon
  <2> QED BY <2>5, <2>6
<1>4. CASE WriteText
  <2>1. /\ Valid(value) /\ value' = value /\ step # "written"
        /\ wire' \in {AppendDuration(value), FormatDuration(value)}
    BY <1>4 DEF WriteText
  <2>2. wire' \in Seq(DurationBytes) BY <1>2, <2>1, WrittenIsRead, Zenon
  <2>3. \E T : wire' \in Seq(T) BY <2>2, Zenon
  <2>4. /\ value' \in [secs : Int, nanos : Int] /\ Valid(value')
        /\ wire' \in {AppendDuration(value'), FormatDuration(value')}
    BY <1>2, <2>1, Zenon
  <2>5. DurationInvariant' BY <2>3, <2>4, Zenon DEF DurationInvariant
  <2> QED BY <2>1, <2>5
<1>5. CASE UNCHANGED conversion
  <2>1. wire' = wire /\ value' = value /\ step' = step BY <1>5 DEF conversion
  <2>2. DurationInvariant' BY <2>1, Zenon DEF DurationInvariant
  <2> QED BY <2>1, <2>2
<1> QED BY <1>3, <1>4, <1>5 DEF DurationNext

\* Written by AppendDuration or FormatDuration and read again by either parser,
\* a duration is the same, one below a second with its sign included.
THEOREM DurationsAreKept ==
  ASSUME DigitsAssumption, SecondsAssumption, InputAssumption
  PROVE  DurationSpec => TextKeepsDuration
<1>1. DurationInit => DurationInvariant BY DurationStarts
<1>2. DurationInvariant /\ [DurationNext]_conversion => DurationInvariant' BY DurationStep
<1>3. DurationInvariant /\ [DurationNext]_conversion
        => [step = "written" => value' = value]_conversion
  BY DurationStep
<1> QED BY <1>1, <1>2, <1>3, PTL DEF DurationSpec, TextKeepsDuration

\* The generated decoder reads a text exactly when it is well formed and short
\* enough, as the seconds and nanoseconds that it stands for.
THEOREM DurationsAreRead ==
  ASSUME DigitsAssumption, SecondsAssumption, InputAssumption
  PROVE  DurationSpec => []ReadIsAmount
<1>1. DurationInit => DurationInvariant BY DurationStarts
<1>2. DurationInvariant /\ [DurationNext]_conversion => DurationInvariant' BY DurationStep
<1>3. DurationInvariant => ReadIsAmount
  <2> SUFFICES ASSUME DurationInvariant PROVE ReadIsAmount OBVIOUS
  <2>1. PICK S : wire \in Seq(S) BY Zenon DEF DurationInvariant
  <2> QED BY <2>1, ReadText1, Zenon DEF ReadIsAmount
<1> QED BY <1>1, <1>2, <1>3, PTL DEF DurationSpec
=============================================================================
