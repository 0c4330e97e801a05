SPECIFICATION Spec
CONSTANTS
  MaxVersion = 2
  Jobs = {j1, j2}
  Names = {n1}
  Concurrency = 2
  NoVersion = NoVersion
  NoIso = NoIso
SYMMETRY Symmetry
INVARIANTS TypeOK ExtractingHasActiveJob ActiveJobIsLive
PROPERTY DoneForOwnVersion
