SPECIFICATION Spec
CONSTANTS
  Malformed = Malformed
  Bytes <- MCBytes
  MaxLength = 5
CHECK_DEADLOCK FALSE
INVARIANTS
  CountsOK
  CutKeepsWholeCharacters
  LinesAsInPlainText
  KeysAsInDomain
