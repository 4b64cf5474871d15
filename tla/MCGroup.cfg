CONSTANTS
  None = None
  Data = {d, e}
  Attrs = {a}
  First = d
  HasRmap = TRUE
  HasRefcount = TRUE
  LastBlock = 26
  Capacity = 20
  NodeEntries = 2
  LeafRecords <- SmallLeaves
  Wants = {1, 2}
  Aligns = {2}
  MaxEdits = 2
  MaxCommits = 2
  Starts <- FilesAtFirst
SPECIFICATION Spec
INVARIANTS
  EveryBlockHasOneUse
  AheadIsUnused
  CountsAddUp
  ReverseMapNamesOwners
PROPERTIES
  OneEditNeverStarves
