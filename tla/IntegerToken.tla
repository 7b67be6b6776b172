---------------------------- MODULE IntegerToken ----------------------------
(***************************************************************************)
(* How an integer field is read: ReadInt64, ReadUint64, ReadInt32 and      *)
(* ReadUint32 of protojsonxgen/runtime.go and the copies of them in        *)
(* unmarshal.go.  Plain digits are accumulated byte by byte with a test    *)
(* before every multiplication and addition; anything else is scanned      *)
(* again as a JSON number, or taken from a string, and goes through        *)
(* strconv.ParseInt and then strconv.ParseFloat.                           *)
(*                                                                         *)
(* The widths are scaled: MaxInt64 stands for 2^63-1, Unit for 2^52, as a  *)
(* float64 has 53 bits.  The input is revealed while it is read, so that  *)
(* texts that differ only after the point of a refusal are one behaviour.  *)
(***************************************************************************)
EXTENDS DecimalDigits

CONSTANTS
  Bytes,      \* the bytes the input may hold
  MaxLen,     \* bound on the length of the input that is looked at
  Endings,    \* bound: how an input may go on after a refusal
  MaxInt64, MaxInt32, MaxUint32,
  Unit,       \* a float64 has the multiples of 1/Unit up to 2, and then the
  Quanta      \* multiples of q/Unit up to 2q, for each of its quanta q

MaxUint64 == 2 * MaxInt64 + 1
WidthAssumption ==
  /\ MaxInt32 \in Nat /\ MaxUint32 \in Nat /\ MaxInt64 \in Nat
  /\ MaxInt32 < MaxUint32 /\ MaxUint32 < MaxInt64
  /\ Unit \in Nat \ {0} /\ Quanta \in SUBSET (Nat \ {0})

VARIABLES
  kind,    \* which of the four reads
  data,    \* d.data as far as it has been looked at
  closed,  \* whether data ends there
  off,     \* d.off: the bytes consumed
  phase,   \* where in the code the read is
  neg, u,  \* the accumulator of the fast path
  scan,    \* the state of readJSONNumberToken
  result

vars == <<kind, data, closed, off, phase, neg, u, scan, result>>

Quote == "\""
Terminators == {","}
Failed == [ok |-> FALSE, value |-> 0]
Read(v) == [ok |-> TRUE, value |-> v]
Signed == kind \in {"int64", "int32"}
Low == CASE kind = "int64" -> -MaxInt64 - 1 [] kind = "int32" -> -MaxInt32 - 1
         [] OTHER -> 0
High == CASE kind = "int64" -> MaxInt64 [] kind = "int32" -> MaxInt32
          [] kind = "uint64" -> MaxUint64 [] kind = "uint32" -> MaxUint32
-----------------------------------------------------------------------------
(* strconv *)
IsSign(text) == text \in {<<>>, <<"-">>, <<"+">>}
Cap(n) == IF n > 4 THEN 4 ELSE n

\* The ways to cut text into sign, integer part, fraction and exponent: after s,
\* i, j and k bytes.  The value is mantissa * 10^exp.  An exponent of 4 is out of
\* every width already.
Part(text, i, j) == SubSeq(text, i + 1, j)
Cut(text, s, i, j, k) ==
  LET n == Len(text) IN
  /\ s <= i /\ i <= j /\ j <= k
  /\ s <= 1 /\ IsSign(Part(text, 0, s)) /\ AllDigits(Part(text, s, i))
  /\ i < j => text[i + 1] = "." /\ AllDigits(Part(text, i + 1, j))
  /\ j = n => k = n
  /\ j < n => /\ text[j + 1] = "e" /\ k < n
              /\ IsSign(Part(text, j + 1, k)) /\ AllDigits(Part(text, k, n))
  /\ i > s \/ j > i + 1
Power(text, j, k) ==
  IF j = Len(text) THEN 0
  ELSE (IF Part(text, j + 1, k) = <<"-">> THEN -1 ELSE 1)
         * Cap(Naturally(Part(text, k, Len(text))))
Reading(text, s, i, j, k) ==
  [sign |-> Part(text, 0, s), neg |-> Part(text, 0, s) = <<"-">>,
   int |-> Part(text, s, i), frac |-> Part(text, i + 1, j),
   dot |-> i < j, marker |-> j < Len(text),
   mantissa |-> Naturally(Part(text, s, i) \o Part(text, i + 1, j)),
   exp |-> Power(text, j, k) - Len(Part(text, i + 1, j))]
Decimals(text) ==
  LET ends == 0..Len(text) IN
  {Reading(text, x[1], x[2], x[3], x[4]) :
     x \in {y \in ends \X ends \X ends \X ends : Cut(text, y[1], y[2], y[3], y[4])}}

IsPlain(d) == ~ d.dot /\ ~ d.marker
Magnitude(d) == IF d.exp > 0 THEN d.mantissa * 10 ^ Cap(d.exp) ELSE d.mantissa
Divisor(d) == IF d.exp >= 0 THEN 1 ELSE 10 ^ (-d.exp)
Whole(d) == Magnitude(d) % Divisor(d) = 0
Exactly(d) == (IF d.neg THEN -1 ELSE 1) * (Magnitude(d) \div Divisor(d))

\* The float64 next to a value, ties to even, in units; there is none when the
\* value is out of the range of a float64.
RoundTo(n, m, quantum) ==
  LET q == n \div (m * quantum)
      twice == 2 * (n - q * m * quantum)
  IN  quantum * (IF twice + (q % 2) > m * quantum
                 THEN q + 1 ELSE q)
Floats(d) ==
  LET whole == Magnitude(d) \div Divisor(d)
  IN  {(IF d.neg THEN -1 ELSE 1) * RoundTo(Magnitude(d) * Unit, Divisor(d), q) :
         q \in {p \in Quanta : whole < 2 * p /\ (p > 1 => whole >= p)}}

\* The tail of readInt64 and readUint64, then the range of the narrow types.
InRange(v) == v >= Low /\ v <= High
Wide(v) == v >= (IF Signed THEN -MaxInt64 - 1 ELSE 0)
           /\ v <= (IF Signed THEN MaxInt64 ELSE MaxUint64)
Narrowed(v) == IF InRange(v) THEN Read(v) ELSE Failed

Convert(text) ==
  LET readings == Decimals(text) IN
  IF readings = {} THEN Failed
  ELSE LET d == CHOOSE x \in readings : TRUE
           f == CHOOSE x \in Floats(d) : TRUE
       IN  CASE IsPlain(d) /\ (Signed \/ d.sign = <<>>) ->
                  IF Wide(Exactly(d)) THEN Narrowed(Exactly(d)) ELSE Failed
             [] OTHER ->
                  IF Floats(d) # {} /\ f % Unit = 0 /\ Wide(f \div Unit)
                  THEN Narrowed(f \div Unit) ELSE Failed
-----------------------------------------------------------------------------
Init ==
  /\ kind \in {"int64", "uint64", "int32", "uint32"}
  /\ data = <<>> /\ closed = FALSE /\ off = 0
  /\ phase = "begin" /\ neg = FALSE /\ u = 0 /\ scan = "start"
  /\ result = Failed

\* The rest of the input turns out to begin with c, or to be over.
Reveal ==
  /\ phase # "done" /\ ~ closed
  /\ Len(data) - off < 2
  /\ \/ /\ Len(data) < MaxLen
        /\ \E c \in Bytes : data' = Append(data, c)
        /\ UNCHANGED closed
     \/ /\ closed' = TRUE
        /\ UNCHANGED data
  /\ UNCHANGED <<kind, off, phase, neg, u, scan, result>>

Known == Len(data) - off >= 2 \/ closed
AtEnd == off >= Len(data)
Here == data[off + 1]
HereIn(set) == ~ AtEnd /\ Here \in set
LeadingZero == HereIn({"0"}) /\ off + 1 < Len(data) /\ data[off + 2] \in Digits

Goto(p) == phase' = p /\ UNCHANGED <<kind, data, closed, result>>
Finish(r) == phase' = "done" /\ result' = r /\ UNCHANGED <<kind, data, closed>>

Begin ==
  /\ phase = "begin" /\ Known
  /\ Goto(CASE HereIn({Quote}) -> "string" [] AtEnd -> "number" [] OTHER -> "simple")
  /\ neg' = (HereIn({"-"}) /\ Signed)
  /\ off' = IF (HereIn({"-"}) /\ Signed) \/ HereIn({Quote}) THEN off + 1 ELSE off
  /\ UNCHANGED <<u, scan>>

\* readSimpleInt64Token, readSimpleUint64Token.
Limit == IF Signed THEN (IF neg THEN MaxInt64 + 1 ELSE MaxInt64) ELSE MaxUint64

SimpleFirst ==
  /\ phase = "simple" /\ Known
  /\ IF HereIn(Digits) /\ ~ LeadingZero
     THEN Goto("digits") /\ UNCHANGED off
     ELSE Goto("number") /\ off' = 0
  /\ UNCHANGED <<neg, u, scan>>

SimpleDigitLate == \* slip: the sum is tested after it has wrapped
  /\ phase = "digits" /\ Known /\ HereIn(Digits)
  /\ LET sum == (10 * u + DigitOf[Here]) % (MaxUint64 + 1) IN
     IF sum > Limit
     THEN Finish(Failed) /\ UNCHANGED <<off, u>>
     ELSE Goto("digits") /\ off' = off + 1 /\ u' = sum
  /\ UNCHANGED <<neg, scan>>

SimpleDigit ==
  /\ phase = "digits" /\ Known /\ HereIn(Digits)
  /\ IF u > Limit \div 10 \/ 10 * u > Limit - DigitOf[Here]
     THEN Finish(Failed) /\ UNCHANGED <<off, u>>
     ELSE /\ Goto("digits")
          /\ off' = off + 1
          /\ u' = 10 * u + DigitOf[Here]
  /\ UNCHANGED <<neg, scan>>

SimpleEnd ==
  /\ phase = "digits" /\ Known /\ (AtEnd \/ HereIn(Terminators))
  /\ Finish(Narrowed(IF neg THEN -u ELSE u))
  /\ UNCHANGED <<off, neg, u, scan>>

SimpleGiveUpHere == \* slip: the scan starts where the digits ended
  /\ phase = "digits" /\ Known /\ ~ AtEnd /\ Here \notin Digits \cup Terminators
  /\ Goto("number")
  /\ UNCHANGED <<off, neg, u, scan>>

SimpleGiveUp ==
  /\ phase = "digits" /\ Known /\ ~ AtEnd /\ Here \notin Digits \cup Terminators
  /\ Goto("number") /\ off' = 0
  /\ UNCHANGED <<neg, u, scan>>

\* readJSONNumberToken: the state after one more byte.
Point(c, others) == IF c = "." THEN "point" ELSE others
Exponent(c) == IF c = "e" THEN "e" ELSE "end"
Digit(c, next, others) == IF c \in Digits THEN next ELSE others
ScanNext(s, c) ==
  CASE s \in {"start", "minus"} ->
         (IF c = "-" /\ s = "start" THEN "minus"
          ELSE IF c = "0" THEN "zero" ELSE Digit(c, "int", "bad"))
    [] s = "zero" -> Point(c, Exponent(c))
    [] s = "int" -> Digit(c, "int", Point(c, Exponent(c)))
    [] s = "point" -> Digit(c, "frac", "bad")
    [] s = "frac" -> Digit(c, "frac", Exponent(c))
    [] s = "e" -> IF c \in {"+", "-"} THEN "esign" ELSE Digit(c, "exp", "bad")
    [] s = "esign" -> Digit(c, "exp", "bad")
    [] s = "exp" -> Digit(c, "exp", "end")
Complete == {"zero", "int", "frac", "exp"}

ScanByte ==
  /\ phase = "number" /\ Known /\ ~ AtEnd
  /\ LET next == ScanNext(scan, Here) IN
     CASE next = "bad" -> Finish(Failed) /\ UNCHANGED <<off, scan>>
       [] next = "end" ->
            /\ UNCHANGED <<off, scan>>
            /\ Finish(IF Here \in Terminators THEN Convert(SubSeq(data, 1, off)) ELSE Failed)
       [] OTHER -> Goto("number") /\ off' = off + 1 /\ scan' = next
  /\ UNCHANGED <<neg, u>>

ScanEndAnywhere == \* slip: the end of the input ends a number wherever it comes
  /\ phase = "number" /\ Known /\ AtEnd
  /\ Finish(Convert(SubSeq(data, 1, off)))
  /\ UNCHANGED <<off, neg, u, scan>>

ScanEnd ==
  /\ phase = "number" /\ Known /\ AtEnd
  /\ Finish(IF scan \in Complete THEN Convert(SubSeq(data, 1, off)) ELSE Failed)
  /\ UNCHANGED <<off, neg, u, scan>>

\* readNumberLike on a string: its content, whatever that is.
StringByte ==
  /\ phase = "string" /\ Known
  /\ off' = IF AtEnd THEN off ELSE off + 1
  /\ CASE AtEnd -> Finish(Failed)
       [] HereIn({Quote}) -> Finish(Convert(SubSeq(data, 2, off)))
       [] OTHER -> Goto("string")
  /\ UNCHANGED <<neg, u, scan>>

Next ==
  \/ Reveal \/ Begin
  \/ SimpleFirst \/ SimpleDigit \/ SimpleEnd \/ SimpleGiveUp
  \/ ScanByte \/ ScanEnd \/ StringByte

Spec == Init /\ [][Next]_vars
-----------------------------------------------------------------------------
(* Properties *)

Quoted == data # <<>> /\ data[1] = Quote
\* What was read, and the numbers JSON sees in it.
Consumed == IF Quoted THEN SubSeq(data, 2, off - 1) ELSE SubSeq(data, 1, off)
Numbers(text) ==
  {d \in Decimals(text) :
     /\ d.sign # <<"+">>
     /\ d.int # <<>> /\ (Len(d.int) > 1 => d.int[1] # "0")
     /\ d.dot => d.frac # <<>>}

\* An integer in plain digits is read as itself: the whole of it, with its
\* sign, up to the byte that ends it, at both ends of every width.
PlainIsExact ==
  phase = "done" /\ result.ok =>
    \A d \in Numbers(Consumed) :
      IsPlain(d) => Exactly(d) = result.value /\ InRange(Exactly(d))

\* A refusal is about every input that begins with the bytes looked at.
Inputs == IF closed THEN {data} ELSE {data \o rest : rest \in Endings}
Content(input) ==
  LET n == Len(input) IN
  CASE input # <<>> /\ input[1] = Quote ->
         IF n >= 2 /\ input[n] = Quote THEN SubSeq(input, 2, n - 1) ELSE <<>>
    [] n > 0 /\ input[n] \in Terminators -> SubSeq(input, 1, n - 1)
    [] OTHER -> input
RefusedNumbers ==
  {d \in UNION {Numbers(Content(input)) : input \in Inputs} :
     Whole(d) /\ InRange(Exactly(d))}
FloatHolds(d) == Magnitude(d) <= Divisor(d) * 2 * Unit

\* Every number in range that a float64 holds is accepted: a rescan from the start
\* loses nothing.  Outside a string the digits before a fraction or an exponent
\* have to fit as well.
NumbersAreAccepted ==
  phase = "done" /\ ~ result.ok =>
    \A d \in RefusedNumbers :
      ~ IsPlain(d) /\ (FloatHolds(d) => ~ Quoted /\ Naturally(d.int) > Limit)

\* Every number in range that a float64 holds is accepted however it is spelled.
HoweverSpelled ==
  phase = "done" /\ ~ result.ok =>
    \A d \in RefusedNumbers : ~ IsPlain(d) /\ ~ FloatHolds(d)

\* A value is never out of its width, and a value outside a string is one JSON
\* number that ends where the input or the value ends.
AcceptedIsNumber ==
  phase = "done" /\ result.ok =>
    /\ InRange(result.value)
    /\ ~ Quoted => Numbers(Consumed) # {} /\ (AtEnd \/ Here \in Terminators)

\* Every integer that is accepted has the value it is written with, also when it
\* is written with a fraction or an exponent.
IntegersExact ==
  phase = "done" /\ result.ok =>
    \A d \in Numbers(Consumed) : Whole(d) => Exactly(d) = result.value
=============================================================================
