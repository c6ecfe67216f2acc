------------------------------ MODULE MCPackReleases ------------------------------
\* The small instance of PackReleases that TLC checks: the program brings the
\* second version itself.
EXTENDS PackReleases, TLC

CONSTANTS v1, v2

TwoVersions == {v1, v2}
SecondIsTheSystems == v1 :> Nothing @@ v2 :> System
Symmetry == Permutations(Admins)
=============================================================================
