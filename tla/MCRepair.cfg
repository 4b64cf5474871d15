SPECIFICATION RepairSpec
CONSTANTS
  Groups <- MCGroups
  Length <- MCLength
  Inos <- MCInos
  GroupOf <- MCGroupOf
  BlockOf <- MCBlockOf
  Root = 0
  HeaderLen = 1
  Log <- MCLog
  Reflink = FALSE
  Rmapbt = FALSE
  Finobt = TRUE
  Kinds = {}
  RtSizes = {}
  RtPerBlock = 2
  PerKind = 20
  Sound <- MCSound
  Exposed <- MCExposed
  Place <- MCPlace
  MaxFaults = 2
  MaxCrashes = 1
INVARIANTS
  InterruptedIsResumed
  LossIsResumedOrRefused
  NoNewFindings
PROPERTIES
  Settles
