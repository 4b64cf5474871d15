CONSTANTS
  x = x
  y = y
  z = z
  Blocks <- MCBlocks
  PlainFrees <- EveryFree
  Rebuilds = TRUE
  MaxOps = 5
SPECIFICATION Spec
SYMMETRY Symmetry
INVARIANTS
  TypeOK
  ReadsOwnUnlessStale
  ReplayKeepsUnlessStale
