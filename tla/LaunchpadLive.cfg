SPECIFICATION LaunchpadSpec
CONSTANTS
  Name <- MCName
  LpId <- MCLpId
  ShellId <- MCShellId
  None = "none"
PROPERTIES
  DeadIsUnlisted
  OutputIsDrawn
CHECK_DEADLOCK FALSE
