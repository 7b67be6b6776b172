SPECIFICATION ScalarSpec
CONSTANTS
  Bytes <- InputBytes
  MaxLen = 5
  Endings <- NumberEndings
  MaxInt64 = 15
  MaxInt32 = 5
  MaxUint32 = 13
  Unit = 4
  Quanta <- FloatQuanta
  FracDigits = 3
  GroupDigits = 1
  MaxSeconds = 90
  MaxCount = 127
  Texts <- TextsNamed
  Values <- ValuesNamed
INVARIANTS
  PlainIsExact
  JustNumbersAreRead
  ReadIsAmount
PROPERTY TextKeepsDuration
CHECK_DEADLOCK FALSE
