\* Three goroutines, three types with mutual and self recursion.
SPECIFICATION Spec
CONSTANTS
  Procs = {g1, g2, g3}
  Types <- RecursiveTypes
  Descs <- RecursiveDescs
  GoType <- RecursiveGoType
  Nested <- RecursiveNested
  Fallback <- RecursiveFallback
  MaxDepth = 1
  None = None
SYMMETRY Symmetry
INVARIANTS
  TypeOK
  OneTablePerType
  SoleCompiler
  UseOnlyPublished
  SkipWaitSound
  FallbackHonoured
PROPERTY PublishedIsFinal
