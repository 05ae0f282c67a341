SPECIFICATION TrackerSpec
CONSTANTS
  Chars <- MCChars
  Finals <- MCFinals
  Word <- MCWord
  Cap = 3
  MaxLine = 5
INVARIANTS
  TrackerTypeOK
  TextIsLine
PROPERTY HelpIffTyped
