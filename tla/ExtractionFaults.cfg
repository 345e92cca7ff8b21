SPECIFICATION Spec
CONSTANTS
  Files = {f1}
  Workers = {w1, w2}
  w1 = w1
  w2 = w2
  NoTask = NoTask
  MaxRetries = 2
  DeliveryCap = 3
  VisibilityTimeout = 900
  InPlace = TRUE
  TimeLimit <- HeavyLimit
  MaxFaults <- AnyFaults
SYMMETRY WorkerSymmetry
INVARIANT TypeOK
INVARIANT AttemptsWithinCap
INVARIANT FinalMeansDiscarded
INVARIANT OnlyStruckFilesFail
CHECK_DEADLOCK FALSE
