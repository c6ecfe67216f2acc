CONSTANTS
  m1 = m1  m2 = m2  f1 = f1
  Mutations = {m1, m2}
  Flushes = {f1}
SPECIFICATION Spec
SYMMETRY Symmetry
INVARIANTS QueueIsRecoverable
CHECK_DEADLOCK FALSE
