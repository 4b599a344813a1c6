\* Users only submit, resubmit and dismiss; fair event loop; three jobs, one retry each.
CONSTANTS
  j1 = j1
  j2 = j2
  j3 = j3
  r1 = r1
  r2 = r2
  reqA = reqA
  NoRequest = NoRequest
  NoId = NoId
  Run = {r1, r2}
  JobId <- MCJobId3
  RequestOf <- MCOneRequest3
  Calls <- PlainCalls
  StageCount = 1
  MaxQueueSize = 3
  MaxRetries = 1
  UseBullMQ = FALSE
  DiskMayFail = FALSE
  MaxClock = 3
  MaxRetryCount = 2
  MaxImmediates = 2
  MaxTimers = 1
SPECIFICATION FairSpec
CHECK_DEADLOCK FALSE
INVARIANTS
  DispatchPending
  OnePipelineAtATime
  NoUnhandledRejection
PROPERTIES
  EveryJobSettles
