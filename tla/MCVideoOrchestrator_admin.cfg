\* Cancel, delete, clear and resume beside queued and direct pipelines of one request.
CONSTANTS
  j1 = j1
  j2 = j2
  j3 = j3
  r1 = r1
  r2 = r2
  reqA = reqA
  NoRequest = NoRequest
  NoId = NoId
  Run = {r1, r2}
  JobId <- MCJobId2
  RequestOf <- MCSameRequest2
  Calls <- AdminCalls
  StageCount = 1
  MaxQueueSize = 3
  MaxRetries = 1
  UseBullMQ = FALSE
  DiskMayFail = FALSE
  MaxClock = 3
  MaxRetryCount = 1
  MaxImmediates = 2
  MaxTimers = 1
SPECIFICATION Spec
CHECK_DEADLOCK FALSE
INVARIANTS
  RunningIsDriven
PROPERTIES
  ImplementsLifecycle
SYMMETRY Symmetry2
