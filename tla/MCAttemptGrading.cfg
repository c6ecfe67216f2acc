\* An auto-gradable question and an essay; three requests.
SPECIFICATION GradingSpec
CONSTANTS
  Calls = {r1, r2, r3}
  Questions = {choice, essay}
  AutoGradable = {choice}
  MaxPoints = 1
  Sent <- PointsSent
  Null = Null
SYMMETRY Symmetry
CHECK_DEADLOCK FALSE
INVARIANTS GradingTypeOK GradingAloneSettles
PROPERTIES NothingIsReopened
