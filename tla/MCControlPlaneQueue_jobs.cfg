\* Two jobs of six combinations of kinds, the one worker thread the server starts.
CONSTANTS
  w1 = w1
  None = None
  Job = {1, 2}
  KindsOf <- MCKindsOf
  Worker = {w1}
  Windows = {1, 2}
  MaxCrashes = 1
SPECIFICATION FairSpec
INVARIANTS
  ColumnsAgree
  ExecutedOnce
  RunningIsOwned
PROPERTIES
  EndedStays
  QueuedEnds
