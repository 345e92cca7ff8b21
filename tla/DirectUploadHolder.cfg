SPECIFICATION Spec
CONSTANTS
  r1 = r1
  r2 = r2
  r3 = r3
  u1 = u1
  Requests = {r1, r2, r3}
  Quota <- HolderCalls
  Uploads = {u1}
  None = None
  Api = Api
  MaxFaults <- NoFaults

INVARIANT HolderIsAlone
CHECK_DEADLOCK FALSE
