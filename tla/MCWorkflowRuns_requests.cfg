\* Two requests under one idempotency key, two cancellations, one crash.
CONSTANTS
  k1 = k1
  None = None
  Post = {p1, p2}
  KeyOf <- OneKey
  Cancel = {d1, d2}
  MaxCrashes = 1
CHECK_DEADLOCK FALSE
SPECIFICATION FairSpec
INVARIANTS
  OneInProgressPerKey
  OneInPythonPerKey
  RowsInOrder
PROPERTIES
  RunsSettle
