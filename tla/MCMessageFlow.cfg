SPECIFICATION FlowSpec
CONSTANTS
  PortCount = 1
  UDPEnabled = TRUE
INVARIANTS
  FlowTypeOK
  NoCircularWait
  GuardIsExact
CHECK_DEADLOCK FALSE
