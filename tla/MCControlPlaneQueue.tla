-------------------------- MODULE MCControlPlaneQueue --------------------------
(* Instances of ControlPlaneQueue for TLC: jobs of several kinds.           *)
EXTENDS ControlPlaneQueue

CONSTANTS w1

(* A command resumes or a client submits the one; a route creates the other,*)
(* or a command resumes it.                                                 *)
MCKindsOf == <<{"submit", "resume"}, {"run", "mission", "resume"}>>
=============================================================================
