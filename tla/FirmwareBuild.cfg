SPECIFICATION Spec
CONSTANTS
    b1 = b1
    b2 = b2
    NoBuild  = NoBuild
    Builds   <- MCBuilds
    Urls     <- MCUrls
    MaxCa    <- MCMaxCa
    MaxMoves <- MCMaxMoves
    Workers  <- MCWorkers
SYMMETRY MCSymmetry
INVARIANTS FirmwareIsLastEmbedded TrustsCurrentCa BadgesHonest
CHECK_DEADLOCK FALSE
