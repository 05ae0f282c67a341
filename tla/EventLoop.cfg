SPECIFICATION LoopSpec
CONSTANTS
  Fds <- MCFds
  Callbacks <- MCCallbacks
  MaxWatchers = 2
  MaxTimers = 2
  MaxId = 3
  Delays <- MCDelays
  MaxOps = 2
PROPERTIES
  RegistrySpec
  ReadyIsServed
  TimerEnds
  StopEnds
CHECK_DEADLOCK FALSE
