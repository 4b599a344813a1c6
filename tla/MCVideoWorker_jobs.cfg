\* BullMQ deployment: two posted jobs, one retry each, one kill and unhandled exits,
\* each followed by a boot.
CONSTANTS
  j1 = j1
  j2 = j2
  j3 = j3
  r1 = r1
  r2 = r2
  NoRequest = NoRequest
  NoId = NoId
  Run = {r1, r2}
  JobId <- MCJobId2
  RequestOf <- MCAnonymous2
  Calls <- CrashCalls
  StageCount = 1
  MaxQueueSize = 2
  MaxRetries = 1
  UseBullMQ = TRUE
  DiskMayFail = FALSE
  MaxClock = 8
  MaxRetryCount = 1
  MaxImmediates = 2
  MaxTimers = 1
  MaxCrashes = 1
SPECIFICATION WorkerFairSpec
CHECK_DEADLOCK FALSE
INVARIANTS
  CompletedEndsOrRetries
  NobodyForgotten
PROPERTIES
  DeliveriesEnd
  SettlesUnlessDropped
