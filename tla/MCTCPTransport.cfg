CONSTANTS
  Parts = 2
  UseUDP = FALSE
  MaxConns = 2
  MaxParts = 2
  MaxShutdowns = 1
SPECIFICATION TCPFairSpec
CHECK_DEADLOCK FALSE
INVARIANTS
  PackagesStayWhole
  NoSocketLeaks
PROPERTIES
  EndIsNoticed
  ShutdownCompletes
