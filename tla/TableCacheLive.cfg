\* Two goroutines, the recursive schema: liveness and refinement.
SPECIFICATION Spec
CONSTANTS
  Procs = {g1, g2}
  Types <- RecursiveTypes
  Descs <- RecursiveDescs
  GoType <- RecursiveGoType
  Nested <- RecursiveNested
  Fallback <- RecursiveFallback
  MaxDepth = 2
  None = None
PROPERTIES
  EveryCallReturns
  ImplementsRegistry
