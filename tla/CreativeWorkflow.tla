---------------------------- MODULE CreativeWorkflow ----------------------------
(***************************************************************************)
(* apps/swarmx-api/src/services/creative-factory-workflow.ts: Creative     *)
(* Factory runs and the checkpoints of their stages, as the routes of      *)
(* routes/creative-factory.ts drive them, and their snapshot on disk.      *)
(* A stage is its place in CREATIVE_FACTORY_STAGE_ORDER; of its checkpoint *)
(* the code only ever asks whether it is "complete".                       *)
(***************************************************************************)
EXTENDS Naturals

CONSTANTS
  Run,          \* ids of the runs that are created
  RunKey,          \* idempotency keys
  Mode,         \* execution modes
  LastOf,       \* the last stage each mode requires
  MaxRestarts,  \* bound on restarts of the process
  MaxFaults,    \* bound on snapshots that cannot be written or read
  NoRun

ASSUME CreativeAssumption ==
  /\ LastOf \in [Mode -> Nat \ {0}]
  /\ MaxRestarts \in Nat /\ MaxFaults \in Nat

VARIABLES
  runs,         \* the Map of the process
  snapshot,     \* creative-workflow-runs.json
  earned,       \* history: the stages of each run that were ever complete
  reopened,     \* history: runs a checkpoint took out of complete or failed
  saved,        \* history: runs a snapshot ever held
  misread,      \* history: some boot could not read the snapshot
  restarts, faults

creativeVars == <<runs, snapshot, earned, reopened, saved, misread, restarts, faults>>

Stage == UNION {1..LastOf[m] : m \in Mode}
RunStatus == {"queued", "running", "blocked", "failed", "complete"}
Record == [mode : Mode, key : RunKey, status : RunStatus, complete : SUBSET Stage]
ASSUME NoRunAssumption == NoRun \notin Record

Table == [Run -> Record \cup {NoRun}]
Empty == [r \in Run |-> NoRun]

Exists(t, r) == t[r] # NoRun
Ended(t, r) == t[r].status \in {"complete", "failed"}
Live(t, k) == {r \in Run : Exists(t, r) /\ t[r].key = k /\ ~Ended(t, r)}

CreativeInit ==
  /\ runs = Empty /\ snapshot = Empty
  /\ earned = [r \in Run |-> {}]
  /\ reopened = {} /\ saved = {} /\ misread = FALSE
  /\ restarts = 0 /\ faults = 0

(* persist: the whole Map is written; a failure is logged and swallowed.    *)
Persist ==
  \/ /\ snapshot' = runs'
     /\ saved' = saved \cup {r \in Run : Exists(runs', r)}
     /\ UNCHANGED faults
  \/ /\ faults < MaxFaults /\ faults' = faults + 1
     /\ UNCHANGED <<snapshot, saved>>

(* Mutant: only a queued or running run answers for its key.                *)
CreateUnlessRunning(r, k, m) ==
  /\ r \notin saved /\ ~Exists(runs, r) /\ earned[r] = {}
  /\ \A x \in Live(runs, k) : runs[x].status = "blocked"
  /\ runs' = [runs EXCEPT ![r] = [mode |-> m, key |-> k, status |-> "queued", complete |-> {}]]
  /\ Persist
  /\ UNCHANGED <<earned, reopened, misread, restarts>>

(* createWorkflowRun, with a fresh id, unless a live run has the key.       *)
Create(r, k, m) ==
  /\ r \notin saved /\ ~Exists(runs, r) /\ earned[r] = {}
  /\ Live(runs, k) = {}
  /\ runs' = [runs EXCEPT ![r] = [mode |-> m, key |-> k, status |-> "queued", complete |-> {}]]
  /\ Persist
  /\ UNCHANGED <<earned, reopened, misread, restarts>>

(* A run with a new status and a new set of complete stages.                *)
Becomes(r, status, complete) ==
  /\ runs' = [runs EXCEPT ![r].status = status, ![r].complete = complete]
  /\ earned' = [earned EXCEPT ![r] = @ \cup complete]
  /\ reopened' = IF Ended(runs, r) /\ status \notin {"complete", "failed"}
                 THEN reopened \cup {r} ELSE reopened
  /\ Persist
  /\ UNCHANGED <<misread, restarts>>

(* Mutant: the stage before is looked for among all earlier ones.           *)
PrerequisiteAny(r, s) == s = 1 \/ \E p \in 1..(s - 1) : p \in runs[r].complete

(* The one prerequisite of a stage is the stage before it.                  *)
Prerequisite(r, s) == s = 1 \/ s - 1 \in runs[r].complete

(* checkpointWorkflowStage, of a live run or of one that has ended: only    *)
(* "complete" is held to the prerequisite; without it the stage is blocked. *)
Complete(r, s) ==
  /\ Exists(runs, r)
  /\ IF Prerequisite(r, s)
     THEN Becomes(r, IF s = LastOf[runs[r].mode] THEN "complete" ELSE "running",
                  runs[r].complete \cup {s})
     ELSE Becomes(r, "blocked", runs[r].complete \ {s})

(* Any other status of a stage: "pending", "running", "checkpointed" and    *)
(* "skipped" leave the run running.                                         *)
Checkpoint(r, s, status) ==
  /\ Exists(runs, r)
  /\ Becomes(r, status, runs[r].complete \ {s})

(* The process ends and the next one hydrates its Map; a snapshot it cannot *)
(* read counts as none, and the next write replaces it.                     *)
Restart ==
  /\ restarts < MaxRestarts /\ restarts' = restarts + 1
  /\ \/ runs' = snapshot /\ UNCHANGED <<misread, faults>>
     \/ /\ faults < MaxFaults /\ faults' = faults + 1
        /\ runs' = Empty /\ misread' = TRUE
  /\ UNCHANGED <<snapshot, earned, reopened, saved>>

CreativeNext ==
  \/ \E r \in Run, k \in RunKey, m \in Mode : Create(r, k, m)
  \/ \E r \in Run, s \in Stage :
       Complete(r, s) \/ \E status \in {"running", "failed", "blocked"} : Checkpoint(r, s, status)
  \/ Restart

CreativeSpec == CreativeInit /\ [][CreativeNext]_creativeVars
-----------------------------------------------------------------------------
(* Type invariant.                                                          *)
CreativeTypeOK ==
  /\ runs \in Table /\ snapshot \in Table
  /\ earned \in [Run -> SUBSET Stage]
  /\ reopened \subseteq Run /\ saved \subseteq Run /\ misread \in BOOLEAN
  /\ restarts \in 0..MaxRestarts /\ faults \in 0..MaxFaults

(* Checking one stage back is enough: a run that is complete, in the        *)
(* process or on disk, has had every stage its mode requires complete, in   *)
(* whatever order, with whatever repeats, failures and restarts the         *)
(* checkpoints came (not all at once: a stage may be redone later).         *)
CompletionEarned ==
  \A t \in {runs, snapshot} : \A r \in Run :
    Exists(t, r) /\ t[r].status = "complete" => 1..LastOf[t[r].mode] \subseteq earned[r]

(* One live run per idempotency key, unless a late checkpoint reopened one  *)
(* that had ended; restarts and lost writes make no second one.             *)
OneLiveRunPerKey ==
  \A k \in RunKey : \A a, b \in Live(runs, k) : a = b \/ {a, b} \cap reopened # {}

(* A run that ever reached the disk stays there, through failed writes and  *)
(* restarts, unless a boot could not read the file.                         *)
SavedRunsStay == \A r \in saved : Exists(snapshot, r) \/ misread
=============================================================================
