------------------------------ MODULE MCScalars ------------------------------
(***************************************************************************)
(* The scalars whose text is more than a token: integers and durations.    *)
(* A behaviour is about one of them; the machine of the other is idle.     *)
(*                                                                         *)
(* Integers have widths of 4 and 5 bits, narrower types below them, and    *)
(* floats of 3 bits.  Durations have three decimals in groups of one, at   *)
(* most 90 seconds, and an int64 up to 127.                                *)
(***************************************************************************)
EXTENDS IntegerToken, DurationText

VARIABLE subject   \* which scalar

InputBytes == {"0", "1", "3", "5", "6", "-", "+", ".", "e", ",", "\""}
FloatQuanta == {2 ^ j : j \in 0..24}
NumberEndings == {<<>>, <<"0">>, <<"-", "1">>, <<"e", "-", "1">>}

Figures == {"0", "1", "9"}
TextsNamed ==
  {sign \o whole \o tail :
     sign \in {<<>>, <<"-">>, <<"+">>, <<"-", "-">>, <<"+", "-">>},
     whole \in BoundedSeq(Figures, 3),
     tail \in {<<>>, <<"s">>, <<"1">>, <<".", "s">>, <<".", "1", ".", "s">>}
              \cup {<<".">> \o f \o <<"s">> : f \in BoundedSeq(Figures, 4)}}
ValuesNamed ==
  [secs : {-91, -90, -1, 0, 1, 90, 91},
   nanos : {-1000, -100, -10, -1, 0, 1, 10, 110, 999, 1000}]

ASSUME ScalarAssumption ==
  /\ WidthAssumption
  /\ DigitsAssumption /\ SecondsAssumption /\ InputAssumption

IntegerIdle ==
  /\ kind = "idle" /\ data = <<>> /\ closed = TRUE /\ off = 0 /\ phase = "idle"
  /\ neg = FALSE /\ u = 0 /\ scan = "idle" /\ result = "idle"
DurationIdle == wire = <<>> /\ value = "idle" /\ given = "idle" /\ step = "idle"

ScalarInit ==
  \/ subject = "integer" /\ Init /\ DurationIdle
  \/ subject = "duration" /\ DurationInit /\ IntegerIdle

ScalarNext ==
  /\ UNCHANGED subject
  /\ \/ subject = "integer" /\ Next /\ UNCHANGED conversion
     \/ subject = "duration" /\ DurationNext /\ UNCHANGED vars

ScalarSpec == ScalarInit /\ [][ScalarNext]_<<subject, vars, conversion>>
-----------------------------------------------------------------------------
\* Just JSON numbers in the field's width are accepted, and each of them that a
\* float64 holds, however it is spelled.
JustNumbersAreRead == NumbersAreAccepted /\ AcceptedIsNumber
=============================================================================
