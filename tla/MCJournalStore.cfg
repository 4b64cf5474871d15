CONSTANTS
  b1 = b1
  b2 = b2
  None = None
  Blocks <- MCBlocks
  AgBlock = b1
  LogBlocks = 6
  PadBlocks = 2
  CycleData = 2
  MaxDirty = 3
  MaxCycle = 2
  Shapes <- LargeShapes
  UnmountShape <- MCUnmountShape
  StartLogs <- ShortLogs
  MaxOps = 2
SPECIFICATION Spec
PROPERTIES
  ImplementsStore
