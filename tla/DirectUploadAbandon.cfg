SPECIFICATION FairSpec
CONSTANTS
  r1 = r1
  r2 = r2
  r3 = r3
  u1 = u1
  u2 = u2
  Requests = {r1, r2, r3}
  Quota <- AbandonCalls
  Uploads = {u1, u2}
  None = None
  Api = Api
  MaxFaults <- StorageFaults

INVARIANT OpenIsIndexed
PROPERTY EventuallyClean
CHECK_DEADLOCK FALSE
