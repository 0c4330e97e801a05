----------------------------- MODULE MCBootTree -----------------------------
\* Instance of BootTree: requests and tasks are interchangeable, and so are the
\* roles of the files.
EXTENDS BootTree, TLC

Symmetry == Permutations(Actors)
=============================================================================
