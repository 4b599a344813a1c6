------------------------- MODULE MCVideoOrchestrator -------------------------
(* Instances of VideoOrchestrator for TLC: which jobs, which requests they  *)
(* serve and which calls the environment makes.                             *)
EXTENDS VideoOrchestrator, TLC

CONSTANTS j1, j2, j3, r1, r2, reqA

MCJobId2 == {j1, j2}
MCJobId3 == {j1, j2, j3}
MCAnonymous2 == [i \in MCJobId2 |-> NoRequest]
MCSameRequest2 == [i \in MCJobId2 |-> reqA]
MCOneRequest3 == [i \in MCJobId3 |-> IF i = j1 THEN reqA ELSE NoRequest]

PlainCalls == {"resubmit", "clear"}
CancelCalls == {"cancel"}
CancelResumeCalls == {"cancel", "resume"}
DeleteCalls == {"cancel", "delete"}
AdminCalls == {"direct", "cancel", "delete", "clear", "resume"}
CrashCalls == {"crash", "boot"}
RestartCalls == {"cancel", "cleanup", "crash", "boot"}

(* Jobs of one request are interchangeable, and so are the slots.           *)
Symmetry2 == Permutations(MCJobId2) \cup Permutations({r1, r2})
=============================================================================
