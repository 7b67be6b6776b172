SPECIFICATION Spec
CONSTANTS
  Goroutines = {g1, g2}
  Limit = 1
  Blocks <- FiveBlocks
  MaxCalls = 2
  MaxFrames = 2
  MaxBytes = 2
SYMMETRY GoroutineSymmetry
INVARIANTS TypeOK Exclusive OutputIntact ResultsIntact PooledSmall
CHECK_DEADLOCK FALSE
