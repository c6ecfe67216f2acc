\* Five requests and runs of any kind on the work of two students.
SPECIFICATION Spec
CONSTANTS
  Requests = {r1, r2, r3, r4, r5}
  Students = {s1, s2}
  None = None
SYMMETRY Symmetry
CHECK_DEADLOCK FALSE
INVARIANTS TypeOK
PROPERTIES NothingGoesBack OnlyMissingWorkIsReplaced
