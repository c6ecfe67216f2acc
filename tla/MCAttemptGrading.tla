-------------------------- MODULE MCAttemptGrading --------------------------
(* Small instances of AttemptGrading for TLC. *)
EXTENDS AttemptGrading, TLC

\* Below, at and above what an item is worth.
PointsSent == {-1, 0, 2}

Symmetry == Permutations(Calls)
=============================================================================
