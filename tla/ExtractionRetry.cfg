SPECIFICATION FairSpec
CONSTANTS
  Files = {f1, f2}
  Workers = {w1, w2}
  w1 = w1
  w2 = w2
  NoTask = NoTask
  MaxRetries = 3
  DeliveryCap = 5
  VisibilityTimeout = 900
  InPlace = FALSE
  TimeLimit <- NormalLimit
  MaxFaults <- RetryFaults
INVARIANT VerdictMatchesUpload
PROPERTY KeepsPromise
PROPERTY EventuallySettled
CHECK_DEADLOCK FALSE
