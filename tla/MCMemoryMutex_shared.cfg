\* Three renderers and a publisher, one forced reset.
CONSTANTS
  r1 = r1
  r2 = r2
  r3 = r3
  p1 = p1
  jobA = jobA
  jobB = jobB
  taskA = taskA
  NoOwner = NoOwner
  Renderer = {r1, r2, r3}
  Publisher = {p1}
  OwnerOf <- MCOwnerOf
  MaxResets = 1
SPECIFICATION Spec
INVARIANTS
  PhaseNotLeaked
  WakePending
