CONSTANTS
  r1 = r1  r2 = r2  r3 = r3  r4 = r4  r5 = r5
  Requests = {r1, r2, r3, r4, r5}
SPECIFICATION Spec
SYMMETRY Symmetry
INVARIANTS TypeOK OrderlyPlansAgree NothingSkipsTheSubmission
CHECK_DEADLOCK FALSE
