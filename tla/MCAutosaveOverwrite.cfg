\* Two autosaves on the same base, after the request that creates the document.
SPECIFICATION Spec
CONSTANTS
  Requests = {r1, r2, r3}
  Titles = {t1}
  Contents = {none, c1, c2}
  NoContent = none
  ValidContents = {c1, c2}
  NoTitle = NoTitle
  NoOne = NoOne
SYMMETRY Symmetry
CHECK_DEADLOCK FALSE
INVARIANT BaseIsAnOptimisticLock
