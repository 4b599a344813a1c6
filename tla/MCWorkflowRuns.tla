----------------------------- MODULE MCWorkflowRuns -----------------------------
(* Instances of WorkflowRuns for TLC.                                       *)
EXTENDS WorkflowRuns

CONSTANT k1

(* Every request comes under the same workflow and idempotency key.         *)
OneKey == [c \in Post |-> k1]
=============================================================================
