CONSTANTS
  Size = 3
  Byte = {a, b}
  NoByte = nobyte
  MaxPayload = 2
  ResetOnConnect = FALSE
  MaxClients = 2
SPECIFICATION FairSpec
CHECK_DEADLOCK FALSE
INVARIANTS
  RunStaysPut
PROPERTIES
  IsAQueue
  DataIsPickedUp
  ShutdownWakes
