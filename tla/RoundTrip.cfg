SPECIFICATION BothSpec
CONSTANTS
  Types <- MCTypes
  Numbers = {1, 2, 3}
  MaxDepth = 7
  Fallback <- MCFallback
  Roots <- AllRoots
  Options <- AllOptions
  Schema <- MCSchema
  Widths = {3, 64}
  Targets <- OldTargets
  ReadBack <- FlatOnly
INVARIANTS
  OutputIsText
  FailsOnlyOnInvalid
  RoundTrips
CHECK_DEADLOCK FALSE
