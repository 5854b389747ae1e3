CONSTANTS
  U8 = 64
  MaxDepth = 2
  None = None
  Inputs <- MCInputs
SPECIFICATION Spec
INVARIANTS
  FieldsTile
  AcceptsBalanced
  FieldsAsDeclared
  WebRoundTrip
  WinRoundTrip
CHECK_DEADLOCK FALSE
