\* Two admins at once, or one after the other, and a reader; two versions.
SPECIFICATION Spec
SYMMETRY Symmetry
CONSTANTS
  Admins = {a1, a2}
  Readers = {r1}
  v1 = v1
  v2 = v2
  Versions <- TwoVersions
  First = v1
  Original = Original
  System = System
  Registry <- SecondIsTheSystems
  Nothing = Nothing
  Absent = Absent
CHECK_DEADLOCK FALSE
INVARIANTS TypeOK OrderlyStoreIsCurrent  DefaultWasAvailable
