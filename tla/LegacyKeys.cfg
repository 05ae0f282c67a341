SPECIFICATION KeysSpec
CONSTANTS
  Name <- MCName
  None = "none"
  Rows = 2
  SbChoice <- MCSbChoice
  Keypad <- MCKeypad
  MaxHeld = 2
INVARIANTS
  FlagsAreHeld
  DrawsHeldRows
PROPERTIES
  EndKey
CHECK_DEADLOCK FALSE
