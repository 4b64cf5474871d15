CONSTANTS
  LastBlock = 16
  NodeEntries = 2
  PerChunk = 2
  ChunkBlocks = 2
  Align = 2
  LeafChunks = 1
  Sizes = {1, 2}
  LooseTree = {0, 2}
  MaxOps = 6
SPECIFICATION Spec
INVARIANTS
  OneUseUnlessDoubled
  CountsAgree
CHECK_DEADLOCK FALSE
