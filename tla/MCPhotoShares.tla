---------------------------- MODULE MCPhotoShares ----------------------------
\* Small instances of PhotoShares.
EXTENDS PhotoShares, TLC

Symmetry == Permutations(Request)
=============================================================================
