-------------------------- MODULE MCUnitPlanApproval --------------------------
\* The small instances of UnitPlanApproval that TLC checks.
EXTENDS UnitPlanApproval, TLC

Symmetry == Permutations(Requests)
=============================================================================
