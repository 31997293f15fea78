------------------------- MODULE MCOrganizeReceipts -------------------------
\* Small instances of OrganizeReceipts.
EXTENDS OrganizeReceipts

\* Two changes on one page, one on every other.
OneOfTwo == CHOOSE f \in [Page -> 1..2] : \E g \in Page : \A h \in Page : f[h] = 2 <=> h = g
=============================================================================
