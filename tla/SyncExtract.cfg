SPECIFICATION FairSpec
CONSTANTS
  r1 = r1
  r2 = r2
  big = big
  api = api
  worker = worker
  Jobs = {r1, r2, big}
  Procs = {api, worker}
  ProcOf <- Processes
  API = api
  Priced <- Currencies
  Codes = {1, 2}
  Static = {2}
  TTL = 1
  Delay = 1
  MaxTime = 2
  Permits = 1
INVARIANTS TypeOK RatesAreGenuine LastSuccessIsRecent TempIsHeld
PROPERTIES EventuallyAnswered OnlyOrphansStarve
CHECK_DEADLOCK FALSE
