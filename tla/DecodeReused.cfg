\* A reused target, five fields in two oneofs, every side of both mask widths.
SPECIFICATION Spec
CONSTANTS
  Schema <- MixedSchema
  Exts <- OneExt
  Widths = {1, 5, 6, 7}
  Keys <- MixedKeys
  Inputs <- AllTokens
  Targets <- MixedTargets
  ExtTargets <- NoExtTargets
  MaxDoc = 3
INVARIANTS
  TypeOK
  AcceptedIsLegal
  RejectedIsIllegal
  ResultIsDocument
CHECK_DEADLOCK FALSE
