---------------------------- MODULE MCMasterStore ----------------------------
EXTENDS MasterStore, TLC
MCSymmetry == Permutations(Masters)
=============================================================================
