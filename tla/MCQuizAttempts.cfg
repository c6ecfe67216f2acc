\* Three requests, so that two starts race behind a third while a teacher edits;
\* one attempt, two, or one and an extra one of the accommodation.
SPECIFICATION FairSpec
CONSTANTS
  Requests = {r1, r2, r3}
  MaxAllowed = 2
  Extra = 1
  NoOne = NoOne
CHECK_DEADLOCK FALSE
INVARIANTS TypeOK AttemptsStayWithinTheLimit OnlyARivalTakesTheNumber
PROPERTIES EveryRequestIsAnswered ImplementsRequestLog
