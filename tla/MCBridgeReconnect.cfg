CONSTANTS
  BufferLimit = 2
  RingCapacity = 3
  IOSize = 1
  PayloadSize = 1
  UDPOptions = {TRUE, FALSE}
  ResetOnConnect = TRUE
  SessionLimit = 2
  Interval = 9
  Aggregate = 1
  MaxTicks = 4
  MaxClients = 2
  MaxBytes = 2
  MaxEmitted = 1
  MaxConns = 2
  MaxFlight = 1
  MaxOtherResets = 1
SPECIFICATION Spec
CHECK_DEADLOCK FALSE
INVARIANTS
  
  DeviceInOrder
  NothingOlderThanReset
