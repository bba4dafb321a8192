CONSTANTS
  Ports = {p}
  Listeners = {}
  Terminals = {t}
  UseUDP = FALSE
  MaxNudges = 1
SPECIFICATION FairSpec
CHECK_DEADLOCK FALSE
INVARIANTS
  EndsForCause
  NothingLeftBehind
PROPERTY ProcessEnds
