\* The two passes on shuffled, renamed, conflicting and nested members, and on
\* what the encoder wrote.
SPECIFICATION Spec
CONSTANTS
  Schema <- MixedSchema
  Inner <- ChildSchema
  Keys <- MixedKeys
  Inputs <- MixedTokens
  InnerDocs <- ChildDocs
  Sources <- Both
  MaxDoc = 3
INVARIANTS
  DecodesMeaning
  RefusesOnlyIllegal
  
CHECK_DEADLOCK FALSE
