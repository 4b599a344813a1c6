---------------------------- MODULE MCVideoQueue ----------------------------
(* An instance of VideoQueue for TLC: two jobs without a clientRequestId.   *)
EXTENDS VideoQueue, TLC

CONSTANTS j1, j2

MCJobId2 == {j1, j2}
MCAnonymous2 == [i \in MCJobId2 |-> NoRequest]

(* Bound: what is reached with one job that ever came back from its end.    *)
OneReopened == Cardinality(reopened) <= 1

(* The jobs are interchangeable.                                            *)
JobSymmetry == Permutations(MCJobId2)
=============================================================================
