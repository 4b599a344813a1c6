---------------------------- MODULE MCCreativeWorkflow ----------------------------
(* Instances of CreativeWorkflow for TLC.                                   *)
EXTENDS CreativeWorkflow

(* A mode that ends early and one that goes on.                             *)
MCLastOf == [m \in Mode |-> IF m = "PLAN_ONLY" THEN 2 ELSE 3]
=============================================================================
