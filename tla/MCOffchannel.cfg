SPECIFICATION Spec
CONSTANTS
  MaxRocs = 2
  MaxScans = 2
  MaxResets = 1
INVARIANTS
  RocBitIsTemporary
  ScanCompletesOnce
PROPERTIES
  EveryRequestEnds
CHECK_DEADLOCK FALSE
