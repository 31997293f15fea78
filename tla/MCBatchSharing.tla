--------------------------- MODULE MCBatchSharing ---------------------------
\* Small instances of BatchSharing.
EXTENDS BatchSharing, TLC

Symmetry == Permutations(Batch) \cup Permutations(Runner)
=============================================================================
