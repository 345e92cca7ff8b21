SPECIFICATION Spec
CONSTANTS
  Files = {f1}
  Workers = {w1, w2}
  w1 = w1
  w2 = w2
  NoTask = NoTask
  MaxRetries = 3
  DeliveryCap = 5
  VisibilityTimeout = 900
  InPlace = FALSE
  TimeLimit <- HeavyLimit
  MaxFaults <- CrashFaults
SYMMETRY WorkerSymmetry
INVARIANTS DrainedMeansFinal OkIsComplete
CHECK_DEADLOCK FALSE
