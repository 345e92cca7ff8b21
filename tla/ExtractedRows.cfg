SPECIFICATION FairSpec
CONSTANTS
  Files = {f1}
  Sweepers = {s1, s2}
  Deleters = {d1, d2}
  MaxFaults <- SomeFaults
INVARIANTS TypeOK KeptWhileListed
PROPERTIES OrphansReclaimed UserForgotten
CHECK_DEADLOCK FALSE
