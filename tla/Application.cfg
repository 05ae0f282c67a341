SPECIFICATION AppSpec
CONSTANTS
  Rows = 2
  Cols = 1
  TabWidth = 8
  MaxParam = 3
  Digits <- MCDigits
  DigitValue <- MCDigitValue
  Bytes <- MCBytes
  Printable <- MCPrintable
  Pics <- MCPics
  Blank = "blank"
  NoPic = "none"
  PicOf <- MCPicOf
  Width = 2
  Height = 3
  Configs <- MCConfigs
  Keys <- MCKeys
  StatusTop = 2
  KeypadTop = 1
  KeypadBottom = 1
  MaxMissed = 1
INVARIANTS
  PanelIsCanvas
  RightView
PROPERTY KeyActsOnce
CHECK_DEADLOCK FALSE
