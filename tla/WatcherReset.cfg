\* A /setlab and a /resetwatchers, which may overlap, and a box that calls back.
SPECIFICATION FairSpec
CONSTANTS
  Requests = {r1, r2}
  SetLabs = {r1}
  Callers = {c1}
  Overlap = TRUE
  CbCap = 1
  StatusCap = 1
  MaxNews = 1
  Nobody = Nobody
INVARIANTS TypeOK WatchersCancellable
PROPERTIES ResetReturns CallbackAnswered
CHECK_DEADLOCK FALSE
