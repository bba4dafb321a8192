CONSTANTS
  Size = 3
  Byte = {b1, b2}
  NoByte = nobyte
  MaxPayload = 3
  PortCount = 2
  Half = 3
  Counters <- McCounters
  MaxFlight = 2
  MaxLost = 1
  MaxSockets = 3
SYMMETRY Symmetry
SPECIFICATION UplinkSpec
INVARIANTS
  BackPressureIsNeverLate
  NothingIsMisread
  DeafnessIsBounded
PROPERTIES
  IsAQueue
