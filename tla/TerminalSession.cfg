SPECIFICATION SessionSpec
CONSTANTS
  Rows = 2
  Cols = 2
  TabWidth = 2
  MaxParam = 3
  Digits <- MCDigits
  DigitValue <- MCDigitValue
  Bytes <- MCBytes
  Printable <- MCPrintable
  Pics <- MCPics
  Blank = "blank"
  NoPic = "none"
  PicOf <- MCPicOf
INVARIANTS
  SessionTypeOK
  StaleOnlyBelowWrap
PROPERTY PrintKeepsText
