CONSTANTS
  t1 = t1
  Requests = {r1, r2}
  Jobs = {j1}
  RowCount = 2
  Titles = {t1}
  Title <- Alike
  School = School
  NoEntity = NoEntity
  Attempts = 2
SPECIFICATION FairSpec
INVARIANTS TypeOK NothingIsImportedTwice OrderlyRollbackUndoes
PROPERTIES ImplementsLedger ImportsAreAccounted ExecutingSettles
CHECK_DEADLOCK FALSE
