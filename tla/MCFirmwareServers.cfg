CONSTANTS
  UseUDP = TRUE
  PkgSz = 2
  AlarmDelay = 0
  MaxConns = 2
  MaxPackages = 3
  MaxCuts = 1
  MaxSockets = 2
  MaxFaults = 1
SPECIFICATION FairSpec
CHECK_DEADLOCK FALSE
INVARIANTS
  RequestsAreWhole
  AnswersAreForTheClient
  DevicesKeepRunning
PROPERTIES
  WaitingIsServed
  LinkLossReboots
