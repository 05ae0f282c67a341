SPECIFICATION TerminalSpec
CONSTANTS
  Rows = 4
  Cols = 10
  SbLines = 3
  Args <- MCArgs
  InkCols <- MCInkCols
  MaxInk = 1
INVARIANTS
  TermTypeOK
  ErasesInPage
PROPERTIES
  LineEndsByText
  BottomKept
  
CHECK_DEADLOCK FALSE
