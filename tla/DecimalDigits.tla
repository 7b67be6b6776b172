--------------------------- MODULE DecimalDigits ---------------------------
(* Decimal digits as the bytes of a text; what strconv does with them. *)
EXTENDS Integers, SequencesExt

DigitOf == [c \in {"0", "1", "2", "3", "4", "5", "6", "7", "8", "9"} |->
              CASE c = "0" -> 0 [] c = "1" -> 1 [] c = "2" -> 2 [] c = "3" -> 3
                [] c = "4" -> 4 [] c = "5" -> 5 [] c = "6" -> 6 [] c = "7" -> 7
                [] c = "8" -> 8 [] c = "9" -> 9]
Digits == DOMAIN DigitOf
ByteOf == [n \in 0..9 |-> CHOOSE c \in Digits : DigitOf[c] = n]
AllDigits(text) == \A i \in DOMAIN text : text[i] \in Digits

\* The number that digits stand for, and the digits of a number, at least width
\* of them.
Naturally(text) ==
  LET upTo[i \in 0..Len(text)] ==
        IF i = 0 THEN 0 ELSE 10 * upTo[i - 1] + DigitOf[text[i]]
  IN  upTo[Len(text)]
\* Ten to the k is written as a one and k zeros.
TenTo(k) == Naturally([i \in 1..(k + 1) |-> IF i = 1 THEN "1" ELSE "0"])
Places(n) == CHOOSE w \in 1..(n + 1) : n < TenTo(w) /\ \A v \in 1..(w - 1) : n >= TenTo(v)
Padded(n, width) ==
  LET w == IF Places(n) > width THEN Places(n) ELSE width
  IN  [i \in 1..w |-> ByteOf[(n \div TenTo(w - i)) % 10]]
=============================================================================
