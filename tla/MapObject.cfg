SPECIFICATION Spec
CONSTANTS
  KeyKinds = {"string", "bool", "int"}
  ValueKinds = {"string", "enum", "message", "value"}
  Texts <- MCTexts
  Ascending <- MCAscending
  Reusing = {"table", "tableStrings"}
  MaxMembers = 3
INVARIANTS
  MapIsDocument
  RefusedIsIllegal
  KeysAreOwned
  OutputIsOrdered
CHECK_DEADLOCK FALSE
