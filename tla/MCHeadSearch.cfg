CONSTANTS
  None = None
  Total = 9
  Window = 6
  Lengths <- ShortRecords
  UnmountLength = 2
  InFlight = 2
  MaxCycle = 4
SPECIFICATION Spec
CHECK_DEADLOCK FALSE
INVARIANTS
  FindsNewest
  ScanFindsHead
