SPECIFICATION Spec
CONSTANTS
  Texts <- MCTexts
  Segments <- MCSegments
  Dotted <- MCDotted
CHECK_DEADLOCK FALSE
INVARIANTS
  SameRules
  RoundTrips
