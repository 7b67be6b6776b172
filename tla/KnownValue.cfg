SPECIFICATION WellKnownSpec
CONSTANTS
  Keys <- KeysInOrder
  Readings <- Everyday
  Writings <- Both
  LastYear = 9999
  Moments <- MomentsNamed
INVARIANTS
  KnownIsInput
  KnownSurvives
  DaysAreCounted
  DatesAreReal
CHECK_DEADLOCK FALSE
