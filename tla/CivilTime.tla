----------------------------- MODULE CivilTime -----------------------------
(***************************************************************************)
(* The dates of a google.protobuf.Timestamp: ParseUTCTimestampBytes of     *)
(* protojsonxgen/runtime.go with daysInMonth, isLeapYear,                  *)
(* daysSinceUnixEpoch and divFloor, which compute the days from            *)
(* 1970-01-01 with years that begin in March.                              *)
(*                                                                         *)
(* The reference is a calendar that is turned over year by year, its       *)
(* leap years found by counting.  A time is a day and a second of it, as   *)
(* the seconds of year 9999 are out of TLC's integers.                     *)
(***************************************************************************)
EXTENDS Integers

CONSTANTS
  LastYear,   \* bound: the calendar stops there
  Moments     \* days of a month and times that a text may name

LastYearAssumption == LastYear \in 0..9999
TextAssumption == Moments \subseteq [day : Nat, hour : Nat, minute : Nat, second : Nat]

VARIABLES
  year,      \* the year of the calendar
  newYear,   \* days from 1970-01-01 to its first
  leap       \* whether it is a leap year, and the years to the next one of
             \* each rule: four, a hundred, four hundred

calendar == <<year, newYear, leap>>
-----------------------------------------------------------------------------
(* protojsonxgen/runtime.go *)
\* Go's division goes to zero, its remainder has the sign of the dividend.
Quo(a, b) == IF a >= 0 THEN a \div b ELSE -((-a) \div b)
Rem(a, b) == a - b * Quo(a, b)
divFloor(a, b) ==
  IF Rem(a, b) # 0 /\ (Rem(a, b) < 0) # (b < 0) THEN Quo(a, b) - 1 ELSE Quo(a, b)

isLeapYearJulian(y) == Rem(y, 4) = 0 \* slip: centuries are like other years
isLeapYear(y) == Rem(y, 4) = 0 /\ (Rem(y, 100) # 0 \/ Rem(y, 400) = 0)

daysInMonth(y, m) ==
  CASE m \in {1, 3, 5, 7, 8, 10, 12} -> 31
    [] m \in {4, 6, 9, 11} -> 30
    [] m = 2 -> IF isLeapYear(y) THEN 29 ELSE 28
    [] OTHER -> 0

MarchYearTruncated(y, m) == \* slip: the era before year 0 is divided towards zero
  LET shifted == IF m <= 2 THEN y - 1 ELSE y
  IN  [era |-> Quo(shifted, 400), yoe |-> shifted - 400 * Quo(shifted, 400)]
MarchYear(y, m) ==
  LET shifted == IF m <= 2 THEN y - 1 ELSE y
      era == divFloor(shifted, 400)
  IN  [era |-> era, yoe |-> shifted - 400 * era]

daysSinceUnixEpoch(y, m, d) ==
  LET era == MarchYear(y, m).era
      yoe == MarchYear(y, m).yoe
      mp == IF m > 2 THEN m - 3 ELSE m + 9
      doy == Quo(153 * mp + 2, 5) + d - 1
      doe == yoe * 365 + Quo(yoe, 4) - Quo(yoe, 100) + doy
  IN  era * 146097 + doe - 719468

\* ValidateTimestamp: from the first second of year 1 to the last of 9999.
InvalidTime == [day |-> 0, second |-> -1]
ValidateTimestamp(t) == t.day >= -719162 /\ t.day <= 2932896

\* ParseUTCTimestampBytes, the numbers of the text taken as read.
ParseUTCTimestamp(y, m, d, hour, minute, second) ==
  LET t == [day |-> daysSinceUnixEpoch(y, m, d),
            second |-> hour * 3600 + minute * 60 + second]
  IN  IF \/ m < 1 \/ m > 12 \/ d < 1 \/ d > daysInMonth(y, m)
         \/ hour > 23 \/ minute > 59 \/ second > 59
         \/ ~ ValidateTimestamp(t)
      THEN InvalidTime ELSE t
-----------------------------------------------------------------------------
(* The calendar *)
MonthLengths == <<31, IF leap.now THEN 29 ELSE 28, 31, 30, 31, 30, 31, 31, 30, 31, 30, 31>>
MonthStart(m) ==
  LET start[k \in 1..12] ==
        IF k = 1 THEN newYear ELSE start[k - 1] + MonthLengths[k - 1]
  IN  start[m]

CalendarInit ==
  /\ year = 0
  /\ newYear = -719528
  /\ leap = [now |-> TRUE, four |-> 4, hundred |-> 100, fourHundred |-> 400]

Countdown(n, period) == IF n = 1 THEN period ELSE n - 1
NextYear ==
  /\ year < LastYear
  /\ year' = year + 1
  /\ newYear' = newYear + (IF leap.now THEN 366 ELSE 365)
  /\ leap' = [now |-> \/ leap.four = 1 /\ leap.hundred # 1
                      \/ leap.fourHundred = 1,
              four |-> Countdown(leap.four, 4),
              hundred |-> Countdown(leap.hundred, 100),
              fourHundred |-> Countdown(leap.fourHundred, 400)]

CalendarSpec == CalendarInit /\ [][NextYear]_calendar
-----------------------------------------------------------------------------
(* Properties *)

\* The formula gives every date the number of days the calendar counted, in
\* leap years, centuries and years before 1970 and at their seams.
DaysAreCounted ==
  \A m \in 1..12 :
    LET start == MonthStart(m)
    IN  \A d \in {1, MonthLengths[m]} : daysSinceUnixEpoch(year, m, d) = start + d - 1

\* The years a Timestamp can hold.
Years == 1..9999

\* A text is a timestamp just when its date is in the calendar, its time on the
\* clock and its year one that a Timestamp can hold; it then is that instant.
DatesAreReal ==
  \A m \in 0..13 :
    LET lastDay == IF m \in 1..12 THEN MonthLengths[m] ELSE 0
        start == IF m \in 1..12 THEN MonthStart(m) ELSE 0
    IN  \A w \in Moments :
          LET real == /\ year \in Years
                      /\ w.day \in 1..lastDay
                      /\ w.hour \in 0..23 /\ w.minute \in 0..59 /\ w.second \in 0..59
          IN  ParseUTCTimestamp(year, m, w.day, w.hour, w.minute, w.second) =
                IF real
                THEN [day |-> start + w.day - 1,
                      second |-> (w.hour * 60 + w.minute) * 60 + w.second]
                ELSE InvalidTime
=============================================================================
