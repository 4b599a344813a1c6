\* BullMQ deployment, one place for two anonymous jobs, snapshot writes that may fail:
\* late answers of Queue.add, restores by the worker, resumes, restarts from an old Map.
CONSTANTS
  j1 = j1
  j2 = j2
  NoRequest = NoRequest
  JobId <- MCJobId2
  RequestOf <- MCAnonymous2
  StageCount = 1
  MaxQueueSize = 1
  MaxRetries = 0
  UseBullMQ = TRUE
  DiskMayFail = TRUE
  MaxClock = 2
  MaxRetryCount = 1
SPECIFICATION QueueSpec
SYMMETRY JobSymmetry
CONSTRAINT OneReopened
INVARIANTS
  CapacityExceededOnlyByReopening
  SingleVideoLock
PROPERTY TerminalIsFinal
