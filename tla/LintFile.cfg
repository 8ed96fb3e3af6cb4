\* Files of up to six lines.
CONSTANTS
  Headers = {"c", "cpp", "my", "other", "unkept"}
  HeaderType <- MCHeaderType
  MaxLines = 6
SPECIFICATION Spec
INVARIANTS
  EnclosingIncludesAreFound
PROPERTIES
  SectionMovesForward
  ImplementsBranches
CHECK_DEADLOCK FALSE
