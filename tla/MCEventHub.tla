----------------------------- MODULE MCEventHub -----------------------------
\* Small instances of EventHub.
EXTENDS EventHub, TLC

Symmetry == Permutations(Key) \cup Permutations(Routine)
=============================================================================
