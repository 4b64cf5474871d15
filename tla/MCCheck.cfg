SPECIFICATION Spec
CONSTANTS
  Groups <- MCGroups
  Length <- MCLength
  Inos <- MCInos
  GroupOf <- MCGroupOf
  BlockOf <- MCBlockOf
  Root = 0
  HeaderLen = 1
  Log <- MCLog
  Reflink = TRUE
  Rmapbt = TRUE
  Finobt = TRUE
  Kinds <- MCKinds
  RtSizes <- MCRtSizes
  RtPerBlock = 2
  PerKind = 20
  Sound <- MCSound
  Exposed <- MCExposed
  MaxFaults = 2
INVARIANTS
  CleanMeansWhole
  NothingManufactured
CHECK_DEADLOCK FALSE
