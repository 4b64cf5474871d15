CONSTANTS
  b1 = b1
  b2 = b2
  None = None
  Blocks <- MCBlocks
  AgBlock = b1
  LogBlocks = 9
  PadBlocks = 2
  CycleData = 64
  MaxDirty = 2
  MaxCycle = 2
  Shapes <- SmallShapes
  UnmountShape <- MCUnmountShape
  StartLogs <- SmallLogs
  MaxOps = 3
SPECIFICATION Spec
INVARIANTS
  TypeOK
  CrashSafeUnlessExposed
  AlwaysRecoverable
  TornWrapLosesNothing
  ReadsCommitted
  CleanMeansSettled
  GapCanBePadded
