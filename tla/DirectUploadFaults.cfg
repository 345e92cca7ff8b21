SPECIFICATION Spec
CONSTANTS
  r1 = r1
  r2 = r2
  r3 = r3
  r4 = r4
  u1 = u1
  Requests = {r1, r2, r3, r4}
  Quota <- AnyCalls
  Uploads = {u1}
  None = None
  Api = Api
  MaxFaults <- AnyFaults
SYMMETRY Symmetry
INVARIANTS TypeOK DispatchedOnce OneHolder QueuedHasObject FailedIsNotQueued
CHECK_DEADLOCK FALSE
