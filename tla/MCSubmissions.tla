------------------------------ MODULE MCSubmissions ------------------------------
\* The small instance of Submissions that TLC checks.
EXTENDS Submissions, TLC

Symmetry == Permutations(Requests) \cup Permutations(Students)
=============================================================================
