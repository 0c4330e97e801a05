SPECIFICATION Spec
CONSTANTS
  MaxVersion = 2
  Labels = {0, 1}
  Roles = {"boot"}
  Actors = {a1, a2, a3}
SYMMETRY Symmetry
INVARIANTS ReadyHasFiles NoStrayFiles IsoOnDisk EntryInOwnDir
CHECK_DEADLOCK FALSE
