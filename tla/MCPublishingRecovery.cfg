CONSTANTS
  t1 = t1
  Requests = {r1}
  Jobs = {j1}
  Times = {t1}
  NoTime = NoTime
  NoToken = NoToken
  NoOne = NoOne
  NoRecord = NoRecord
  MaxClock = 1
  MaxAttempts = 2
  MaxRetries = 1
  MaxShutdowns = 1
SPECIFICATION FairSpecAll
INVARIANTS OneDeliveryPerOpening SucceededMeansDelivered
PROPERTIES ReplayIsDelivered
CHECK_DEADLOCK FALSE
