-------------------------- MODULE MCModelOrchestrator --------------------------
(* Instances of ModelOrchestrator for TLC.                                  *)
EXTENDS ModelOrchestrator, TLC

CONSTANTS h1, h2, relay, c1, c2

(* The two 7B models are interchangeable.                                   *)
Twins == Permutations({h1, h2})

(* The composer, and a video pipeline with its mutex or the models page.     *)
MCGoalsOf == [c \in {c1, c2} |->
  IF c = c1 THEN {"request"} ELSE {"request", "unload", "unloadAll", "status"}]

(* Two pipelines that request models.                                       *)
MCRequestsOnly == [c \in {c1, c2} |-> {"request"}]

(* Two requests alone: Ollama starts empty, answers and unloads in time.     *)
FreshSpec ==
  /\ Init /\ resident = {}
  /\ [][\E c \in Caller :
          \/ \E m \in Model : Start(c, "request", m)
          \/ PsAnswers(c) \/ Synced(c) \/ SweepEvicts(c) \/ SweepEnds(c)
          \/ EvictSucceeds(c) \/ Load(c) \/ CallEnds(c)]_vars
=============================================================================
