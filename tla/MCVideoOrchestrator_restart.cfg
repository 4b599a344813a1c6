\* Cancellation, crashes and boots between any two steps.
CONSTANTS
  j1 = j1
  j2 = j2
  j3 = j3
  r1 = r1
  r2 = r2
  reqA = reqA
  NoRequest = NoRequest
  NoId = NoId
  Run = {r1, r2}
  JobId <- MCJobId2
  RequestOf <- MCAnonymous2
  Calls <- RestartCalls
  StageCount = 2
  MaxQueueSize = 3
  MaxRetries = 1
  UseBullMQ = FALSE
  DiskMayFail = FALSE
  MaxClock = 3
  MaxRetryCount = 2
  MaxImmediates = 3
  MaxTimers = 2
SPECIFICATION Spec
CHECK_DEADLOCK FALSE
INVARIANTS
  CompletedIsComplete
PROPERTIES
  CancelledRunStops
