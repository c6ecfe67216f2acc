CONSTANTS
  m1 = m1  m2 = m2  f1 = f1  f2 = f2
  Mutations = {m1, m2}
  Flushes = {f1, f2}
SPECIFICATION FairSpec
INVARIANTS TypeOK OrderlyFlushLosesNothing OrderlyFlushSendsOnce OrderlyFlushKeepsTheOrder
PROPERTIES QueueDrains
CHECK_DEADLOCK FALSE
