\* One series of one episode: its plan, reruns and pre-productions, with a crash.
CONSTANTS
  Plan = Plan
  None = None
  e1 = e1
  c1 = c1
  c2 = c2
  Episode <- MCEpisode
  Call <- MCCall
  MaxRequests = 5
  MaxCrashes = 1
SPECIFICATION FairSpec
INVARIANTS
  OnePassAtATime
  ReadyIsWhole
  InProgressIsDriven
PROPERTY PlanningEnds
CHECK_DEADLOCK FALSE
