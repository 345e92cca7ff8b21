SPECIFICATION Spec
CONSTANTS
  r1 = r1
  r2 = r2
  r3 = r3
  r4 = r4
  r5 = r5
  u1 = u1
  u2 = u2
  Requests = {r1, r2, r3, r4, r5}
  Quota <- RaceCalls
  Uploads = {u1, u2}
  None = None
  Api = Api
  MaxFaults <- RaceFaults
SYMMETRY Symmetry
INVARIANTS CompletingIsHeld NothingLeftBehind UploadingIsRecorded
CHECK_DEADLOCK FALSE
