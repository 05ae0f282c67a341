SPECIFICATION LaunchpadSpec
CONSTANTS
  Name <- MCNames
  LpId <- MCLpId
  ShellId <- MCShellId
  None = "none"
INVARIANTS
  LaunchpadTypeOK
  OneList
  TerminalsHaveShells
  GrabbedInTerminalMode
  ShellsAreReachable
  ScreenIsGivenBack
CHECK_DEADLOCK FALSE
