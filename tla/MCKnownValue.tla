---------------------------- MODULE MCKnownValue ----------------------------
(***************************************************************************)
(* Instances of KnownValue.  Everyday leaves out what the code reads in a  *)
(* way that KnownIsInput does not allow; the sets after it have just that. *)
(*                                                                         *)
(* A Timestamp is a scalar there.  Behaviours of their own turn the        *)
(* calendar of CivilTime over, by which its dates are checked.             *)
(***************************************************************************)
EXTENDS KnownValue, CivilTime

KeysInOrder == <<"p", "q">>
Letters == {"a", "A", "1", "_", ".", ",", " "}
PathLetters == {"a", "A", "1", "_", "."}
Leafs == {Null, Scalar("new"), Scalar("other"), Scalar("bad")}
Flat == Leafs \cup {Object(<<>>), Array(<<>>), Array(<<Scalar("new"), Null>>),
                    Object(<<<<"p", Scalar("new")>>>>)}
Small == {Null, Scalar("new"), Scalar("bad"), Array(<<Scalar("new"), Null>>),
          Object(<<<<"p", Scalar("new")>>>>)}
Objects ==
  {Object(<<>>)} \cup {Object(<<<<k, v>>>>) : k \in {"p", "q"}, v \in Flat}
  \cup {Object(<<<<k, v>>, <<l, w>>>>) : k, l \in {"p", "q"}, v, w \in Small}
Arrays == {Array(<<>>)} \cup {Array(<<v>>) : v \in Flat} \cup {Array(<<v, w>>) : v, w \in Small}
Trees == Flat \cup Objects \cup Arrays
Forms ==
  Leafs \cup {Object(<<>>), Array(<<>>)} \cup {Object(<<<<k, v>>>>) : k \in {"value", "other"}, v \in Leafs}
  \cup {Object(<<<<k, v>>, <<l, w>>>>) : k, l \in {"value", "other"}, v, w \in Leafs}
Texts == {MaskText(s) : s \in BoundedSeq(Letters, 4)} \cup {Null, Scalar("new")}

InputsOf(t) == CASE t \in {"Struct", "ListValue", "Value"} -> Trees
                 [] t \in {"Wrapper", "Time", "Empty"} -> Forms
                 [] t = "FieldMask" -> Texts
OldOf(t) == CASE t = "Struct" -> Struct([k \in {"p"} |-> Scalar("old")])
              [] t = "ListValue" -> List(<<Scalar("old")>>)
              [] t = "Value" -> Struct([k \in {"p"} |-> Scalar("old")])
              [] t = "FieldMask" -> Paths(<<<<"a", "a">>>>)
              [] t = "Empty" -> Zero
              [] OTHER -> Old
Kinds == {"Wrapper", "Time", "Empty", "FieldMask", "Struct", "ListValue", "Value"}
OldsIn(p, t) == {IF p = "root" THEN ZeroOf(t) ELSE Absent, OldOf(t)}
PlacesOf(t) == IF t = "FieldMask" THEN {"root", "field"}
               ELSE {"root", "field", "extension", "member", "item"}
All == UNION {UNION {[type : {t}, place : {p}, input : InputsOf(t), old : OldsIn(p, t)]
                     : p \in PlacesOf(t)} : t \in Kinds}

\* A mask or a wrapper that is empty, where another one was.
InPlace(r) == r.place \in {"root", "field", "extension"} /\ r.old = OldOf(r.type)
Stale(r) ==
  /\ InPlace(r)
  /\ \/ r.type = "FieldMask" /\ r.input[1] = "text" /\ Trim(r.input[2]) = <<>>
     \/ r.type = "Wrapper" /\ r.input[1] = "object" /\ "value" \notin KeysOf(r.input)
\* A key that comes twice.
RECURSIVE Doubled(_)
Doubled(t) ==
  CASE t[1] = "object" -> ~ NoneTwice(t) \/ \E i \in DOMAIN t[2] : Doubled(t[2][i][2])
    [] t[1] = "array" -> \E i \in DOMAIN t[2] : Doubled(t[2][i])
    [] OTHER -> FALSE
\* A Value that is null, in an extension or a list.
NullValue(r) == r.type = "Value" /\ r.input = Null /\ r.place \in {"extension", "item"}

Everyday == {r \in All : ~ Stale(r) /\ ~ Doubled(r.input) /\ ~ NullValue(r)}
StaleReadings == {r \in All : Stale(r)}
DoubledReadings ==
  {r \in All : r.type \in {"Struct", "ListValue", "Value"} /\ Doubled(r.input)}
NullItems == {r \in All : NullValue(r) /\ r.place = "item"}
NullExtensions == {r \in All : NullValue(r) /\ r.place = "extension"}

\* What is written: any two paths of four letters, one of them short; and Values.
Nested == {Null, Scalar("new"), Unset, List(<<Null, Scalar("new")>>), List(<<Unset>>),
           Struct([k \in {"p", "q"} |-> IF k = "p" THEN Null ELSE List(<<>>)])}
Masks == {Paths(<<p>>) : p \in BoundedSeq(PathLetters, 4)}
         \cup {Paths(<<p, q>>) : p, q \in BoundedSeq(PathLetters, 2)}
Messages ==
  [FieldMask |-> Masks,
   Struct |-> {Struct([k \in {"p", "q"} |-> IF k = "p" THEN v ELSE w]) : v, w \in Nested},
   ListValue |-> {List(<<v, w>>) : v, w \in Nested},
   Value |-> Nested]
\* An empty mask is read over nothing only.
Both == {w \in UNION {[type : {t}, place : {"root"}, message : Messages[t],
                       old : OldsIn("root", t)] : t \in DOMAIN Messages} :
           w.message # Paths(<<>>)}
None == {}
-----------------------------------------------------------------------------
\* The seams of the months, and the ends of a day.
At(d, h, m, s) == [day |-> d, hour |-> h, minute |-> m, second |-> s]
MomentsNamed ==
  {At(d, 23, 59, 59) : d \in {0, 1, 29, 30, 31, 32}}
  \cup {At(28, 24, 0, 0), At(28, 12, 60, 0), At(28, 12, 0, 60), At(28, 0, 0, 0)}

ASSUME DateAssumption == LastYearAssumption /\ TextAssumption

KnownIdle ==
  /\ type = "idle" /\ place = "idle" /\ phase = "idle"
  /\ discard = FALSE /\ old = Absent /\ message = Absent
  /\ input = Null /\ target = Absent /\ stack = <<>>

WellKnownInit == CalendarInit /\ (Init \/ KnownIdle)
WellKnownNext ==
  \/ phase # "idle" /\ Next /\ UNCHANGED calendar
  \/ phase = "idle" /\ NextYear /\ UNCHANGED vars
WellKnownSpec == WellKnownInit /\ [][WellKnownNext]_<<vars, calendar>>
=============================================================================
