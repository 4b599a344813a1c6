---------------------------- MODULE MCMemoryMutex ----------------------------
(* Instances of MemoryMutex for TLC: two renderers that are attempts of one *)
(* job (a timed-out attempt goes on beside its retry), one of another job,  *)
(* and a publisher.                                                         *)
EXTENDS MemoryMutex

CONSTANTS r1, r2, r3, p1, jobA, jobB, taskA

MCOwnerOf == [c \in Client |-> IF c = p1 THEN taskA ELSE IF c = r3 THEN jobB ELSE jobA]
=============================================================================
