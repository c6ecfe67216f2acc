\* Three requests, two titles, one valid content besides {}: every pair of
\* handlers races, with a third request between them.
SPECIFICATION FairSpec
CONSTANTS
  Requests = {r1, r2, r3}
  Titles = {t1, t2}
  Contents = {none, c1}
  NoContent = none
  ValidContents = {c1}
  NoTitle = NoTitle
  NoOne = NoOne
CHECK_DEADLOCK FALSE
INVARIANTS TypeOK CurrentIsLatest RepliesAreTrue
PROPERTIES EveryRequestIsAnswered ImplementsRequestLog
