CONSTANTS
  Files = {1, 2}
  GroupCount = 2
  AgBlocks = 6
  Home <- MCHome
  BlockSize = 2
  Room = 2
  LeafMax = 2
  RootMax = 2
  AttrBlocks <- MCAttrs
  Writes <- MCWrites
  Sizes = {1, 4, 6}
  Ranges <- MCRanges
  Volumes <- MCVolumes
  Ids <- MCIds
  Enforced <- MCIds
  HardBlocks <- MCHard
  HardInodes <- MCNone
  MaxOps = 4
SPECIFICATION Spec
CHECK_DEADLOCK FALSE
INVARIANTS
  ReadsAreTheFiles
  EveryUseRecorded
  HeldIsCounted
