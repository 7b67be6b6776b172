\* Two descriptors behind one Go type.
SPECIFICATION Spec
CONSTANTS
  Procs = {g1, g2}
  Types <- DynamicTypes
  Descs <- DynamicDescs
  GoType <- DynamicGoType
  Nested <- DynamicNested
  Fallback <- DynamicFallback
  MaxDepth = 0
  None = None
INVARIANT FallbackHonoured
