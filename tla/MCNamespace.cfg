CONSTANTS
  Names = {"x", "y"}
  LastIno = 4
  Wide = {3}
  ShortSpace = 1
  PerBlock = 1
  InlineAttrs = 1
  MaxLinks = 3
  Ids <- MCIds
  Enforced <- MCIds
  HardBlocks <- MCHardBlocks
  HardInodes <- MCHardInodes
  OwnersOf <- MCOwners
  MaxOps = 5
SPECIFICATION Spec
CHECK_DEADLOCK FALSE
INVARIANTS
  OneTree
  LinksCount
  PointersAgree
  UsageMatches
  BlocksCounted
