---------------------------- MODULE MCLibraryScan ----------------------------
\* Small instances of LibraryScan.
EXTENDS LibraryScan

\* Every key in a source of its own.
EachItsOwn == CHOOSE f \in [Key -> Source] : \A j, k \in Key : f[j] = f[k] => j = k
=============================================================================
