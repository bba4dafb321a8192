CONSTANTS
  MaxPorts = 3
  MaxConns = 4
SPECIFICATION FairSpec
CHECK_DEADLOCK FALSE
INVARIANT NoSocketLeaks
PROPERTIES
  BrokenIsDisposed
  ShutdownCompletes
