SPECIFICATION Spec
CONSTANTS
  KeyKinds = {"string", "bool", "int"}
  ValueKinds = {"string", "enum", "message", "value"}
  Texts <- MCTexts
  Ascending <- MCAscending
  Reusing = {"strings", "generic"}
  MaxMembers = 3
INVARIANTS
  KeysAreOwned
CHECK_DEADLOCK FALSE
