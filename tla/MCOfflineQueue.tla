----------------------------- MODULE MCOfflineQueue -----------------------------
\* The small instances of OfflineQueue that TLC checks.
EXTENDS OfflineQueue

Symmetry == Permutations(Mutations) \cup Permutations(Flushes)
=============================================================================
