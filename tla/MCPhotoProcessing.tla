------------------------- MODULE MCPhotoProcessing -------------------------
\* Small instances of PhotoProcessing.
EXTENDS PhotoProcessing, TLC

Symmetry == Permutations(Task)
=============================================================================
