-------------------------- MODULE MCFirmwareBuild --------------------------
(* Instance of FirmwareBuild: requests of two different URLs, two Celery   *)
(* workers as deploy/celery-worker.service starts them, and a CA that is   *)
(* replaced or removed once.  The builds are interchangeable.              *)
EXTENDS FirmwareBuild, TLC

CONSTANTS b1, b2

MCBuilds   == {b1, b2}
MCUrls     == 1..2
MCMaxCa    == 2
MCMaxMoves == 1
MCWorkers  == 2
MCSymmetry == Permutations(MCBuilds)
=============================================================================
