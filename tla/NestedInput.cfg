SPECIFICATION Spec
CONSTANTS
  MaxDepth = 2
  Inputs <- MCInputs
  Roots <- MCRoots
  Supported = {"Node"}
  Forwarding = {"Extended"}
INVARIANTS
  CounterIsNesting
  RecursionBounded
  JustTheLegal
PROPERTY EveryDecodeEnds
CHECK_DEADLOCK FALSE
