CONSTANTS
  Half = 4
  TxStart = 7
  RxStart = 0
  MaxSent = 18
SPECIFICATION NumberingSpec
CHECK_DEADLOCK FALSE
INVARIANTS
  FilterIsExact
PROPERTY DeliversInOrder
