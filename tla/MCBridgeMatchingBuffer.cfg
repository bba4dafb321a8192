CONSTANTS
  BufferLimit = 4
  RingCapacity = 3
  IOSize = 2
  PayloadSize = 2
  UDPOptions = {FALSE}
  ResetOnConnect = FALSE
  SessionLimit = 2
  Interval = 9
  Aggregate = 1
  MaxTicks = 6
  MaxClients = 1
  MaxBytes = 4
  MaxEmitted = 0
  MaxConns = 1
  MaxFlight = 1
  MaxOtherResets = 0
SPECIFICATION WarmSpec
CHECK_DEADLOCK FALSE
INVARIANTS
  NoRemoteOverrun
