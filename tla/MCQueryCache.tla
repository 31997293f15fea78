---------------------------- MODULE MCQueryCache ----------------------------
\* Small instances of QueryCache.
EXTENDS QueryCache, TLC

Symmetry == Permutations(Photo) \cup Permutations(Album) \cup Permutations(Reader)
=============================================================================
