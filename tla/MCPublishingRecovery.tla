------------------------ MODULE MCPublishingRecovery ------------------------
\* The small instance of PublishingRecovery that TLC checks.
EXTENDS PublishingRecovery
=============================================================================
