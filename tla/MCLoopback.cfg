SPECIFICATION FairSpec
CONSTANTS
  Size = 3
  Byte = {0, 1}
  NoByte = NoByte
  BlockSize = 3
  SocketSize = 2
  SerialSize = 2
  MaxSpoilt = 1
INVARIANTS
  EchoIsFaithful
  VerdictIsRight
PROPERTIES
  TestCompletes
  SignalEndsTest
CHECK_DEADLOCK FALSE
