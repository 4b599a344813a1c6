\* Two runs under one key, two modes over three stages, one restart, one fault.
CONSTANTS
  NoRun = NoRun
  Run = {r1, r2}
  RunKey = {k1}
  Mode = {"PLAN_ONLY", "FULL_RENDER"}
  LastOf <- MCLastOf
  MaxRestarts = 1
  MaxFaults = 1
CHECK_DEADLOCK FALSE
SPECIFICATION CreativeSpec
INVARIANTS
  CompletionEarned
  OneLiveRunPerKey
