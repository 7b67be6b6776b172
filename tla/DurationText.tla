---------------------------- MODULE DurationText ----------------------------
(***************************************************************************)
(* The text of a google.protobuf.Duration: ValidateDuration,               *)
(* AppendDuration, FormatDuration and the two parsers of                   *)
(* protojsonxgen/runtime.go, parseDurationBytes for generated code and     *)
(* ParseDuration for the table decoder.  A duration has a sign for its     *)
(* seconds and one for its nanoseconds, a text has only one.               *)
(*                                                                         *)
(* A value goes through text and back.  Nanoseconds have FracDigits digits *)
(* instead of 9, written in groups of GroupDigits instead of 3, and        *)
(* MaxSeconds and MaxCount are scaled as well.                             *)
(***************************************************************************)
EXTENDS DecimalDigits

CONSTANTS
  FracDigits, GroupDigits,
  MaxSeconds,   \* the seconds of the longest duration
  MaxCount,     \* the largest int64
  Texts,        \* texts to parse
  Values        \* durations to write

DigitsAssumption ==
  GroupDigits \in Nat \ {0} /\ FracDigits = 3 * GroupDigits
SecondsAssumption == MaxSeconds \in Nat /\ MaxCount \in Nat /\ MaxSeconds < MaxCount
InputAssumption == Texts \subseteq Seq(STRING) /\ Values \subseteq [secs : Int, nanos : Int]

VARIABLES
  wire,    \* the text read last or written last
  value,   \* the duration read last, or NoDuration
  given,   \* what was there first: a text, or a value
  step     \* "text", "value", "written", "read", "again"

conversion == <<wire, value, given, step>>

NoDuration == [secs |-> 0, nanos |-> TenTo(FracDigits)]
Duration(s, n) == [secs |-> s, nanos |-> n]
Second == TenTo(FracDigits)

\* ValidateDuration.
Valid(d) ==
  /\ d.secs \in -MaxSeconds..MaxSeconds
  /\ -Second < d.nanos /\ d.nanos < Second
  /\ ~ (d.secs < 0 /\ d.nanos > 0) /\ ~ (d.secs > 0 /\ d.nanos < 0)
Checked(d) == IF Valid(d) THEN d ELSE NoDuration
-----------------------------------------------------------------------------
(* Writing *)
Abs(n) == IF n < 0 THEN -n ELSE n
Negative(d) == d.secs < 0 \/ d.nanos < 0
SignOfSeconds(d) == IF d.secs < 0 THEN <<"-">> ELSE <<>> \* slip: as AppendInt writes it
Sign(d) == IF Negative(d) THEN <<"-">> ELSE <<>>

\* The fraction in one, two or three groups, whatever suffices.
Fraction(nanos) ==
  CASE nanos % TenTo(2 * GroupDigits) = 0 ->
         Padded(nanos \div TenTo(2 * GroupDigits), GroupDigits)
    [] nanos % TenTo(2 * GroupDigits) # 0 /\ nanos % TenTo(GroupDigits) = 0 ->
         Padded(nanos \div TenTo(GroupDigits), 2 * GroupDigits)
    [] OTHER -> Padded(nanos, FracDigits)

AppendDuration(d) ==
  Sign(d) \o Padded(Abs(d.secs), 1)
    \o (IF d.nanos = 0 THEN <<>> ELSE <<".">> \o Fraction(Abs(d.nanos))) \o <<"s">>

\* FormatDuration drops every trailing zero.
Trimmed(digits) ==
  LET last == {i \in DOMAIN digits : digits[i] # "0"} IN
  IF last = {} THEN <<>> ELSE SubSeq(digits, 1, Max(last))
FormatDuration(d) ==
  LET fraction == Trimmed(Padded(Abs(d.nanos), FracDigits))
  IN  Sign(d) \o Padded(Abs(d.secs), 1)
        \o (IF fraction = <<>> THEN <<>> ELSE <<".">> \o fraction) \o <<"s">>
-----------------------------------------------------------------------------
(* Reading *)
\* The loop of parseDurationBytes, on int64, and strconv.ParseInt, which reads
\* a sign of its own.
Refused == -1 - MaxCount
Wrapped(n) == ((n + MaxCount + 1) % (2 * MaxCount + 2)) - MaxCount - 1
DigitLoop(digits) ==
  LET after[i \in 0..Len(digits)] ==
        IF i = 0 THEN 0
        ELSE IF \/ after[i - 1] = Refused
                \/ after[i - 1] > (MaxCount - DigitOf[digits[i]]) \div 10
             THEN Refused
             ELSE Wrapped(10 * after[i - 1] + DigitOf[digits[i]])
  IN  IF AllDigits(digits) THEN after[Len(digits)] ELSE Refused
ParseInt(digits) ==
  LET signed == digits[1] \in {"-", "+"}
      body == IF signed THEN Tail(digits) ELSE digits
  IN  IF body = <<>> \/ ~ AllDigits(body) \/ Naturally(body) > MaxCount THEN Refused
      ELSE IF digits[1] = "-" THEN -Naturally(body) ELSE Naturally(body)

ParsedUnsigned(neg, secs, nanos) == \* slip: the nanoseconds keep their sign
  Checked(Duration(IF neg THEN -secs ELSE secs, nanos))
Parsed(neg, secs, nanos) ==
  Checked(IF neg THEN Duration(-secs, -nanos) ELSE Duration(secs, nanos))

\* What both parsers do around the seconds: the text taken apart, and whether
\* its parts are right.
Apart(s) ==
  LET signed == Len(s) > 1 /\ s[1] \in {"-", "+"}
      body == SubSeq(s, IF signed THEN 2 ELSE 1, Len(s) - 1)
      dots == {i \in DOMAIN body : body[i] = "."}
      dot == IF dots = {} THEN Len(body) + 1 ELSE CHOOSE i \in dots : TRUE
      whole == SubSeq(body, 1, dot - 1)
      frac == SubSeq(body, dot + 1, Len(body))
  IN  [neg |-> signed /\ s[1] = "-", whole |-> whole, frac |-> frac,
       right |-> /\ Len(s) >= 2 /\ Last(s) = "s"
                 /\ \A i \in dots : i = dot
                 /\ whole # <<>> /\ (Len(whole) > 1 => whole[1] # "0")
                 /\ dots # {} => Len(frac) \in 1..FracDigits /\ AllDigits(frac)]
Parse(parts, secs) ==
  IF ~ parts.right \/ secs = Refused THEN NoDuration
  ELSE Parsed(parts.neg, secs,
              Naturally(parts.frac) * TenTo(FracDigits - Len(parts.frac)))

parseDurationBytes(s) == Parse(Apart(s), DigitLoop(Apart(s).whole))
ParseDuration(s) == Parse(Apart(s), ParseInt(Apart(s).whole))
-----------------------------------------------------------------------------
DurationInit ==
  \/ /\ wire \in Texts /\ value = NoDuration
     /\ given = [text |-> wire] /\ step = "text"
  \/ /\ value \in Values /\ wire = <<>>
     /\ given = [value |-> value] /\ step = "value"

\* ReadDuration of the runtime, or the table decoder.
ReadText ==
  /\ step \in {"text", "written"}
  /\ value' \in {parseDurationBytes(wire), ParseDuration(wire)}
  /\ step' = IF step = "text" THEN "read" ELSE "again"
  /\ UNCHANGED <<wire, given>>

\* Encoder.Duration, marshalDuration, FormatDuration: an invalid one is an error.
WriteText ==
  /\ step \in {"value", "read"}
  /\ Valid(value)
  /\ wire' \in {AppendDuration(value), FormatDuration(value)}
  /\ step' = "written"
  /\ UNCHANGED <<value, given>>

DurationNext == ReadText \/ WriteText
DurationSpec == DurationInit /\ [][DurationNext]_conversion
-----------------------------------------------------------------------------
(* Properties *)

\* Written and read again, by either writer and either parser, a duration is
\* the same: also one below a second, whose sign is in the nanoseconds only.
TextKeepsDuration ==
  [][step = "written" => value' = value]_conversion

\* The cuts of a text into sign, seconds, fraction and "s".
IsCut(s, g, i) ==
  /\ SubSeq(s, 1, g) \in {<<>>, <<"-">>, <<"+">>}
  /\ i > g /\ AllDigits(SubSeq(s, g + 1, i))
  /\ i > g + 1 => s[g + 1] # "0"
  /\ \/ SubSeq(s, i + 1, Len(s)) = <<"s">>
     \/ /\ i + 3 <= Len(s) /\ s[i + 1] = "." /\ Last(s) = "s"
        /\ Len(s) - i - 2 <= FracDigits
        /\ AllDigits(SubSeq(s, i + 2, Len(s) - 1))
CutsOf(s) == {c \in (0..1) \X (1..Len(s)) : IsCut(s, c[1], c[2])}
Amount(s, g, i) ==
  LET frac == SubSeq(s, i + 2, Len(s) - 1)
      amount == Naturally(SubSeq(s, g + 1, i)) * Second
                  + Naturally(frac) * TenTo(FracDigits - Len(frac))
  IN  IF s[1] = "-" THEN -amount ELSE amount

\* The generated decoder reads a text exactly when it is well formed and no
\* longer than the longest duration, as the amount it stands for, split so that
\* both parts have its sign.
ReadIsAmount ==
  step = "text" =>
    LET d == parseDurationBytes(wire)
        amounts == {a \in {Amount(wire, c[1], c[2]) : c \in CutsOf(wire)} :
                      Abs(a) < (MaxSeconds + 1) * Second}
    IN  IF d = NoDuration THEN amounts = {}
        ELSE Valid(d) /\ amounts = {d.secs * Second + d.nanos}

\* Generated code and the table decoder read every text alike.
ParsersAgree ==
  step = "text" => parseDurationBytes(wire) = ParseDuration(wire)
=============================================================================
