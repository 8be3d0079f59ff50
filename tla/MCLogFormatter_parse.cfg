SPECIFICATION Spec
CONSTANTS
  Letters <- MCLetters
  Others <- MCOthers
  Names <- MCNames
  MaxLen = 6
CHECK_DEADLOCK FALSE
INVARIANTS NothingLost ErrorExact ErrorShown
