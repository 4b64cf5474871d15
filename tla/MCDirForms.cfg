CONSTANTS
  Names = {"a", "b", "c", "d", "e"}
  Hash <- MCHash
  Size <- MCSize
  InoOf <- MCIno
  Parents = {1, 3}
  WriteShortMax = 1
  ReadShortMax = 2
  ShortSpace = 3
  MaxCookie = 6
  Room = 4
  Cap = 3
  LeafRoom = 4
  MaxBests = 2
  ReadLevels = 2
  MaxEdits = 6
SPECIFICATION Spec
CHECK_DEADLOCK FALSE
INVARIANTS
  NamesAreFound
  IndexIsSound
  BestsAreExact
  ShortFormReadsBack
