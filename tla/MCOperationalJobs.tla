-------------------------- MODULE MCOperationalJobs --------------------------
\* The small instance of OperationalJobs that TLC checks.
EXTENDS OperationalJobs
=============================================================================
