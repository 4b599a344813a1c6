---------------------------- MODULE MCVideoWorker ----------------------------
(* Instances of VideoWorker for TLC.                                        *)
EXTENDS VideoWorker, TLC

CONSTANTS j1, j2, j3, r1, r2

MCJobId2 == {j1, j2}
MCAnonymous2 == [i \in MCJobId2 |-> NoRequest]

(* Wider instances: three jobs (slots and jobs are interchangeable), ...     *)
MCJobId3 == {j1, j2, j3}
MCAnonymous3 == [i \in MCJobId3 |-> NoRequest]
Symmetry3 == Permutations(MCJobId3) \cup Permutations({r1, r2})

(* Users only post; the process may die and is started again.               *)
CrashCalls == {"crash", "boot"}
(* ... and users who cancel or dispatch directly.                            *)
CancelCalls == {"cancel", "crash", "boot"}
DirectCalls == {"direct", "crash", "boot"}
=============================================================================
