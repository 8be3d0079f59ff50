SPECIFICATION Spec
CONSTANTS
  Letters <- MCLetters
  Others <- MCOthers
  Names <- MCNames
  MaxLen = 5
CHECK_DEADLOCK FALSE
INVARIANT DocumentedAccepted
