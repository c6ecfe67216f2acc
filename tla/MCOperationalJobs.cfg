CONSTANTS
  Jobs = {j1, j2}
  MaxAttempts = 2
  MaxRetries = 1
  MaxShutdowns = 1
  NoRecord = NoRecord
SPECIFICATION FairSpec
INVARIANTS TypeOK DeadLettersAreExhausted
PROPERTIES EveryJobEnds
CHECK_DEADLOCK FALSE
