SPECIFICATION Spec
CONSTANTS
  Blocks = {1}
  Inodes = {1, 2}
  Chunk = {2}
  Owners = {1}
  ChunkCount = 3
  Area = 5
  MaxPayload = 10
  Fills = {1}
  Lens = {0, 1}
  MaxTx = 2
INVARIANTS
  ReplayReadsTheSame
