SPECIFICATION PtySpec
CONSTANTS
  KMAX = 6
  SMAX = 6
  Slack = 2
  PtyRoom = 2
  Item <- MCItems
  Key <- MCKeys
  MaxItems = 2
  MaxKeys = 2
INVARIANTS
  PtyTypeOK
  KeysAsTyped
  OutputAsWritten
  
PROPERTIES
  KeysArrive
CHECK_DEADLOCK FALSE
