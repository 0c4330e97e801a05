SPECIFICATION FairSpec
CONSTANTS
  MaxVersion = 1
  Jobs = {j1, j2}
  Names = {n1}
  Concurrency = 1
  NoVersion = NoVersion
  NoIso = NoIso
PROPERTY EveryJobSettles
