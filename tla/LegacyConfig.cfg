SPECIFICATION KeyTableSpec
CONSTANTS
  Line <- MCLine
  Word <- MCWord
  Fold <- MCFold
  None = None
  MaxLines = 5
  MaxDepth = 2
  Settings <- MCSettings
  KeySections <- MCKeySections
  Code <- MCCode
  Rank <- MCRank
  Param <- MCParam
  OwnName <- MCOwnName
INVARIANTS
  LookupIsLast
  TableKeepsNames
  KeysAsConfigured
CHECK_DEADLOCK FALSE
