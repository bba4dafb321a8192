CONSTANTS
  BufferLimit = 1
  RingCapacity = 3
  IOSize = 1
  PayloadSize = 2
  UDPOptions = {FALSE}
  ResetOnConnect = TRUE
  SessionLimit = 2
  Interval = 9
  Aggregate = 2
  MaxTicks = 6
  MaxClients = 2
  MaxBytes = 4
  MaxEmitted = 2
  MaxConns = 1
  MaxFlight = 1
  MaxOtherResets = 0
SPECIFICATION WarmSpec
CHECK_DEADLOCK FALSE
INVARIANTS
  DeviceGetsItsClient
  NoRemoteOverrun
  ConfirmedIsHandled
  ClientGetsARun
  IntervalIsMeant
