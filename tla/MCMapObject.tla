---------------------------- MODULE MCMapObject ----------------------------
(***************************************************************************)
(* Keys for MapObject: two spellings of one key, a key that is none, and   *)
(* numbers whose order is not the one of their digits.                     *)
(***************************************************************************)
EXTENDS MapObject

MCTexts ==
  [string |-> {"", "a", "aEscaped", "b"},
   bool |-> {"true", "false", "yes"},
   int |-> {"1", "01", "2", "10", "x"}]
MCAscending ==
  [string |-> <<"", "a", "b">>, bool |-> <<"false", "true">>, int |-> <<"1", "2", "10">>]
\* with what strconv.ParseBool takes for true
TextsOfBools == [MCTexts EXCEPT !.bool = @ \cup {"1"}]
=============================================================================
