------------------------ MODULE VideoOrchestratorProofs ------------------------
(***************************************************************************)
(* Theorems about VideoOrchestrator, and about VideoWorker at the end, for *)
(* every set of jobs, every number of stages, slots and retries.  A        *)
(* property that depends on what the environment calls names the calls     *)
(* that would break it.                                                    *)
(***************************************************************************)
EXTENDS VideoWorker, VideoQueueProofs, WellFoundedInduction

(* A slot is free or holds a job that was created.                          *)
SlotSound(r) ==
  /\ runs[r].pc = "free" => runs[r] = FreeRun
  /\ runs[r].pc # "free" => runs[r].job \in issued
  /\ runs[r].pc = "stage" => runs[r].stage \in Stage

EngineInv ==
  /\ QueueInv /\ OrchTypeOK
  /\ disk = registry
  /\ \A i \in JobId : registry[i].status # "absent" => i \in issued
  /\ \A r \in Run : SlotSound(r)

StageBegun(reg, i, s) == Recorded(reg, i, s, FALSE)
StageEnded(reg, i, s) == Recorded(reg, i, s, TRUE)

(* The Map a pipeline works on in one turn: as it is, or with the stage it  *)
(* has just ended recorded.                                                 *)
Held(r) ==
  {registry} \cup
    (IF runs[r].pc = "stage" /\ registry[runs[r].job].status \in Active
     THEN {StageEnded(registry, runs[r].job, runs[r].stage)} ELSE {})

(* What runOrchestration can do in one turn, besides waiting (PressureHigh) *)
(* and settling.                                                            *)
Goes(r, p, s) ==
  /\ runs' = [runs EXCEPT ![r].pc = p, ![r].stage = s]
  /\ UNCHANGED <<QueueBookkeeping, up, immediates, timers>>

Enters(r) ==
  /\ ~runs[r].aborted /\ registry[runs[r].job].status \in Active
  /\ \/ /\ runs[r].pc \in {"pressure", "backoff"}
        /\ SetMap(StageBegun(registry, runs[r].job, 1))
        /\ Goes(r, "stage", 1)
     \/ /\ runs[r].pc = "stage" /\ runs[r].stage < StageCount
        /\ SetMap(StageBegun(StageEnded(registry, runs[r].job, runs[r].stage),
                             runs[r].job, runs[r].stage + 1))
        /\ Goes(r, "stage", runs[r].stage + 1)

LastStageEnds(r) ==
  /\ runs[r].pc = "stage" /\ runs[r].stage = StageCount
  /\ registry[runs[r].job].status \in Active
  /\ SetMap(StageEnded(registry, runs[r].job, runs[r].stage))
  /\ Goes(r, "virality", runs[r].stage)

Completes(r) ==
  /\ runs[r].pc = "virality"
  /\ registry[runs[r].job].status \in Active
  /\ SetMap(Completed(registry, runs[r].job))
  /\ runs' = [runs EXCEPT ![r] = FreeRun]
  /\ immediates' = ScheduleNext(Completed(registry, runs[r].job))
  /\ UNCHANGED <<QueueBookkeeping, up, timers>>

(* A slot with a pipeline, and the job in it.                               *)
LEMMA LiveRun ==
  ASSUME EngineInv, NEW r \in Run, runs[r].pc # "free"
  PROVE  /\ r \in LiveRuns /\ runs[r] \in RunState
         /\ runs[r].job \in JobId /\ runs[r].job \in issued
         /\ registry[runs[r].job] \in Job
<1>1. /\ runs \in [Run -> RunState] /\ issued \subseteq JobId
      /\ registry \in [JobId -> Job]
  BY DEF EngineInv, OrchTypeOK, QueueTypeOK
<1>2. runs[r].job \in issued
  BY DEF EngineInv, SlotSound
<1>3. QED
  BY <1>1, <1>2 DEF LiveRuns

LEMMA StageFacts ==
  /\ Stage \subseteq Nat /\ 1 \in Stage /\ StageCount \in Stage
  /\ \A s \in Stage : s < StageCount => s + 1 \in Stage
  /\ \A s \in Stage : ~ s < StageCount => s = StageCount
  BY QueueAssumption DEF Stage

(* Recording progress of a job changes only what the job has done.          *)
LEMMA StageEndedIs ==
  ASSUME NEW reg \in [JobId -> Job], NEW i \in JobId, NEW s \in Stage,
         NEW new, new = StageEnded(reg, i, s)
  PROVE  /\ new \in [JobId -> Job]
         /\ \A k \in JobId \ {i} : new[k] = reg[k]
         /\ \A k \in JobId : new[k].status = reg[k].status
         /\ new[i].retryCount = reg[i].retryCount
         /\ new[i].done = reg[i].done \cup {s}
<1> DEFINE d == reg[i].done \cup {s}
           job == [reg[i] EXCEPT !.done = d]
<1>1. reg[i] \in Job /\ d \in SUBSET Stage
  BY DEF Job
<1>2. new = [reg EXCEPT ![i] = job]
  BY <1>1 DEF StageEnded, Recorded
<1> HIDE DEF d
<1>3. /\ job \in Job /\ job.status = reg[i].status
      /\ job.retryCount = reg[i].retryCount /\ job.done = d
  BY <1>1 DEF Job
<1> HIDE DEF job
<1>4. QED
  BY <1>2, <1>3 DEF d

LEMMA StageBegunIs ==
  ASSUME NEW reg \in [JobId -> Job], NEW i \in JobId, NEW s \in Stage,
         NEW new, new = StageBegun(reg, i, s)
  PROVE  /\ new \in [JobId -> Job]
         /\ \A k \in JobId \ {i} : new[k] = reg[k]
         /\ \A k \in JobId : new[k].status = reg[k].status
         /\ new[i].retryCount = reg[i].retryCount
         /\ new[i].done = reg[i].done \ {s}
<1> DEFINE d == reg[i].done \ {s}
           job == [reg[i] EXCEPT !.done = d]
<1>1. reg[i] \in Job /\ d \in SUBSET Stage
  BY DEF Job
<1>2. new = [reg EXCEPT ![i] = job]
  BY <1>1 DEF StageBegun, Recorded
<1> HIDE DEF d
<1>3. /\ job \in Job /\ job.status = reg[i].status
      /\ job.retryCount = reg[i].retryCount /\ job.done = d
  BY <1>1 DEF Job
<1> HIDE DEF job
<1>4. QED
  BY <1>2, <1>3 DEF d

LEMMA StageRecordSound ==
  ASSUME NEW reg, NEW R, SoundMap(reg, R), NEW i \in JobId, NEW s \in Stage
  PROVE  SoundMap(StageEnded(reg, i, s), R) /\ SoundMap(StageBegun(reg, i, s), R)
<1>1. SoundMap(Recorded(reg, i, s, TRUE), R) /\ SoundMap(Recorded(reg, i, s, FALSE), R)
  BY RecordedSound
<1>2. QED
  BY <1>1 DEF StageEnded, StageBegun

(* The Maps a pipeline works on.                                            *)
LEMMA HeldFacts ==
  ASSUME EngineInv, NEW r \in Run, runs[r].pc # "free", NEW reg \in Held(r)
  PROVE  /\ SoundMap(reg, reopened) /\ reg \in [JobId -> Job]
         /\ \A k \in JobId \ {runs[r].job} : reg[k] = registry[k]
         /\ reg[runs[r].job].status = registry[runs[r].job].status
         /\ reg[runs[r].job].retryCount = registry[runs[r].job].retryCount
         /\ registry[runs[r].job].status \notin Active => reg = registry
<1>1. SoundMap(registry, reopened) /\ registry \in [JobId -> Job]
  BY DEF EngineInv, QueueInv, SoundMap
<1>2. CASE reg = registry
  BY <1>1, <1>2
<1>3. CASE /\ runs[r].pc = "stage" /\ registry[runs[r].job].status \in Active
           /\ reg = StageEnded(registry, runs[r].job, runs[r].stage)
  <2>1. runs[r].stage \in Stage /\ runs[r].job \in JobId
    BY <1>3, LiveRun DEF EngineInv, SlotSound
  <2>2. SoundMap(reg, reopened)
    BY <1>1, <1>3, <2>1, StageRecordSound
  <2>3. QED
    BY <1>1, <1>3, <2>1, <2>2, StageEndedIs
<1>4. QED
  BY <1>2, <1>3 DEF Held

(* Every step of a pipeline is one of these.                                *)
LEMMA RunStepShape ==
  ASSUME EngineInv, NEW r \in Run, RunStep(r)
  PROVE  /\ runs[r].pc # "free"
         /\ \/ PressureHigh(r) \/ Enters(r) \/ LastStageEnds(r) \/ Completes(r)
            \/ \E reg \in Held(r), b \in BOOLEAN : Settle(r, reg, b)
<1> DEFINE i == runs[r].job
           Goal == \/ PressureHigh(r) \/ Enters(r) \/ LastStageEnds(r) \/ Completes(r)
                   \/ \E reg \in Held(r), b \in BOOLEAN : Settle(r, reg, b)
<1>1. registry \in Held(r) /\ registry \in [JobId -> Job]
  BY DEF Held, EngineInv, OrchTypeOK, QueueTypeOK
<1>2. CASE PressureCritical(r)
  BY <1>1, <1>2 DEF PressureCritical
<1>3. CASE PressureHigh(r)
  BY <1>3 DEF PressureHigh
<1>4. CASE PressureAcceptable(r)
  <2>1. runs[r].pc \in {"pressure", "backoff"} /\ EnterStage(r, registry, 1)
    BY <1>4 DEF PressureAcceptable
  <2>2. CASE runs[r].aborted \/ registry[i].status \notin Active
    BY <1>1, <2>1, <2>2 DEF EnterStage
  <2>3. CASE ~(runs[r].aborted \/ registry[i].status \notin Active)
    BY <2>1, <2>3 DEF EnterStage, StageBegun, Enters, Goes
  <2>4. QED
    BY <2>1, <2>2, <2>3
<1>5. CASE StageDone(r)
  <2> DEFINE reg == StageEnded(registry, i, runs[r].stage)
  <2>1. runs[r].pc = "stage" /\ runs[r].stage \in Stage /\ i \in JobId
    BY <1>5, LiveRun DEF StageDone, EngineInv, SlotSound
  <2>2. CASE registry[i].status \notin Active
    BY <1>1, <1>5, <2>1, <2>2 DEF StageDone
  <2>3. CASE registry[i].status \in Active /\ runs[r].stage < StageCount
    <3>1. EnterStage(r, reg, runs[r].stage + 1)
      BY <1>5, <2>3 DEF StageDone, StageEnded
    <3>2. reg \in Held(r) /\ reg[i].status = registry[i].status
      BY <1>1, <2>1, <2>3, StageEndedIs DEF Held
    <3>3. CASE runs[r].aborted
      BY <2>1, <3>1, <3>2, <3>3 DEF EnterStage
    <3>4. CASE ~runs[r].aborted
      BY <2>1, <2>3, <3>1, <3>2, <3>4 DEF EnterStage, StageBegun, Enters, Goes
    <3>5. QED
      BY <2>1, <3>3, <3>4
  <2>4. CASE registry[i].status \in Active /\ ~ runs[r].stage < StageCount
    <3>1. runs[r].stage = StageCount
      BY <2>1, <2>4, StageFacts
    <3>2. runs' = [runs EXCEPT ![r].pc = "virality"]
      BY <1>5, <2>4 DEF StageDone
    <3>3. runs' = [runs EXCEPT ![r].pc = "virality", ![r].stage = runs[r].stage]
      BY <3>2 DEF EngineInv, OrchTypeOK, RunState
    <3>4. QED
      BY <1>5, <2>1, <2>4, <3>1, <3>3 DEF StageDone, StageEnded, LastStageEnds, Goes
  <2>5. QED
    BY <2>2, <2>3, <2>4
<1>6. CASE StageFails(r, TRUE) \/ StageFails(r, FALSE)
  BY <1>1, <1>6 DEF StageFails
<1>7. CASE Finish(r)
  BY <1>1, <1>7 DEF Finish, Completes
<1>8. QED
  BY <1>2, <1>3, <1>4, <1>5, <1>6, <1>7 DEF RunStep

-----------------------------------------------------------------------------
(* What the end of a pipeline with an error comes to: a retry, a failure,   *)
(* nothing for a job that has ended otherwise, or the end of the process.   *)
Frees(r) == runs' = [runs EXCEPT ![r] = FreeRun] /\ up' = up

Retries(r) ==
  LET i == runs[r].job IN
  /\ registry[i].status \in Active
  /\ registry'[i].status = "queued"
  /\ registry'[i].retryCount = registry[i].retryCount + 1
  /\ registry[i].retryCount < MaxRetries
  /\ Frees(r)
  /\ timers' = [timers EXCEPT ![i] = @ + 1] /\ UNCHANGED immediates

GivesUp(r) ==
  /\ registry[runs[r].job].status \in Active
  /\ registry'[runs[r].job].status = "failed"
  /\ Frees(r)
  /\ immediates' = ScheduleNext(registry') /\ UNCHANGED timers

Leaves(r) ==
  /\ registry[runs[r].job].status \notin Active
  /\ registry' = registry
  /\ Frees(r)
  /\ immediates' = ScheduleNext(registry') /\ UNCHANGED timers

Dies(r) ==
  /\ registry[runs[r].job].status \notin Active \cup {"cancelled"}
  /\ registry' = registry
  /\ ~runs[r].caught
  /\ ProcessGone

Settles(r) ==
  /\ UNCHANGED QueueBookkeeping
  /\ SoundMap(registry', reopened) /\ disk' = registry'
  /\ \A k \in JobId \ {runs[r].job} : registry'[k] = registry[k]
  /\ Retries(r) \/ GivesUp(r) \/ Leaves(r) \/ Dies(r)

(* failJob, and the schedule of the retry.                                  *)
LEMMA FailedIs ==
  ASSUME NEW reg \in [JobId -> Job], NEW i \in JobId, NEW b \in BOOLEAN,
         NEW new, new = Failed(reg, i, b)
  PROVE  /\ new \in [JobId -> Job]
         /\ \A k \in JobId \ {i} : new[k] = reg[k]
         /\ RetriesLeft(reg, i, b) =>
              new[i].status = "queued" /\ new[i].retryCount = reg[i].retryCount + 1
         /\ ~RetriesLeft(reg, i, b) => new[i].status = "failed"
<1>1. reg[i] \in Job
  OBVIOUS
<1>2. CASE RetriesLeft(reg, i, b)
  <2> DEFINE job == [reg[i] EXCEPT !.status = "queued", !.retryCount = @ + 1,
                                   !.done = {}, !.retryAt = FALSE]
  <2>1. new = [reg EXCEPT ![i] = job]
    BY <1>1, <1>2 DEF Failed
  <2>0. reg[i].retryCount + 1 \in Nat
    BY <1>1 DEF Job
  <2>2. /\ job \in Job /\ job.status = "queued"
        /\ job.retryCount = reg[i].retryCount + 1
    BY <1>1, <2>0, Zenon DEF Job, Status, Active
  <2> HIDE DEF job
  <2>3. QED
    BY <1>2, <2>1, <2>2
<1>3. CASE ~RetriesLeft(reg, i, b)
  <2> DEFINE job == [reg[i] EXCEPT !.status = "failed", !.retryAt = FALSE]
  <2>1. new = [reg EXCEPT ![i] = job]
    BY <1>1, <1>3 DEF Failed
  <2>2. job \in Job /\ job.status = "failed"
    BY <1>1 DEF Job, Status, Terminal
  <2> HIDE DEF job
  <2>3. QED
    BY <1>3, <2>1, <2>2
<1>4. QED
  BY <1>2, <1>3

LEMMA RetryScheduledIs ==
  ASSUME NEW reg \in [JobId -> Job], NEW i \in JobId,
         NEW new, new = RetryScheduled(reg, i)
  PROVE  /\ new \in [JobId -> Job]
         /\ \A k \in JobId \ {i} : new[k] = reg[k]
         /\ new[i].status = reg[i].status /\ new[i].retryCount = reg[i].retryCount
<1> DEFINE job == [reg[i] EXCEPT !.retryAt = TRUE]
<1>1. reg[i] \in Job
  OBVIOUS
<1>2. new = [reg EXCEPT ![i] = job]
  BY <1>1 DEF RetryScheduled
<1>3. /\ job \in Job /\ job.status = reg[i].status
      /\ job.retryCount = reg[i].retryCount
  BY <1>1 DEF Job
<1> HIDE DEF job
<1>4. QED
  BY <1>2, <1>3

(* Every change of the Map by a pipeline or a callback reaches the disk.    *)
LEMMA SetMapKeeps ==
  ASSUME EngineInv, NEW reg, SetMap(reg)
  PROVE  registry' = reg /\ disk' = registry'
  BY OrchestratorAssumption DEF EngineInv, SetMap, Persist

LEMMA SettleShape ==
  ASSUME EngineInv, NEW r \in Run, runs[r].pc # "free",
         NEW reg \in Held(r), NEW b \in BOOLEAN, Settle(r, reg, b)
  PROVE  Settles(r)
<1> DEFINE i == runs[r].job
<1>1. /\ SoundMap(reg, reopened) /\ reg \in [JobId -> Job] /\ i \in JobId
      /\ \A k \in JobId \ {i} : reg[k] = registry[k]
      /\ reg[i].status = registry[i].status
      /\ reg[i].retryCount = registry[i].retryCount
      /\ registry[i].status \notin Active => reg = registry
  BY HeldFacts, LiveRun
<1> HIDE DEF i
<1>2. /\ registry' = SettledMap(reg, i, b) /\ disk' = registry'
      /\ UNCHANGED QueueBookkeeping
  BY SetMapKeeps DEF Settle, i
<1>3. CASE registry[i].status \notin Active
  <2>1. reg = registry
    BY <1>1, <1>3
  <2>2. SettleOutcome(reg, i, b) = IF registry[i].status = "cancelled"
                                   THEN "cancelled" ELSE "rejected"
    BY <1>3, <2>1 DEF SettleOutcome
  <2>3. SettledMap(reg, i, b) = registry
    BY <2>1, <2>2 DEF SettledMap
  <2>4. CASE registry[i].status # "cancelled" /\ ~runs[r].caught
    <3>1. ProcessGone
      BY <2>2, <2>4 DEF Settle, i
    <3>2. Dies(r)
      BY <1>2, <1>3, <2>3, <2>4, <3>1 DEF Dies, i
    <3>3. QED
      BY <1>1, <1>2, <2>1, <2>3, <3>2 DEF Settles
  <2>5. CASE ~(registry[i].status # "cancelled" /\ ~runs[r].caught)
    <3>1. /\ runs' = [runs EXCEPT ![r] = FreeRun] /\ UNCHANGED <<up, timers>>
          /\ immediates' = ScheduleNext(SettledMap(reg, i, b))
      BY <2>2, <2>5 DEF Settle, i
    <3>2. Leaves(r)
      BY <1>2, <1>3, <2>3, <3>1 DEF Leaves, Frees, i
    <3>3. QED
      BY <1>1, <1>2, <2>1, <2>3, <3>2 DEF Settles
  <2>6. QED
    BY <2>4, <2>5
<1>4. CASE registry[i].status \in Active /\ RetriesLeft(reg, i, b)
  <2> DEFINE failed == Failed(reg, i, b)
  <2>1. SettleOutcome(reg, i, b) = "retry"
    BY <1>1, <1>4 DEF SettleOutcome, Active
  <2>2. registry' = RetryScheduled(failed, i)
    BY <1>2, <2>1 DEF SettledMap
  <2>3. /\ failed \in [JobId -> Job] /\ SoundMap(failed, reopened)
        /\ \A k \in JobId \ {i} : failed[k] = reg[k]
        /\ failed[i].status = "queued" /\ failed[i].retryCount = reg[i].retryCount + 1
    <3>1. reg[i].status \in Active
      BY <1>1, <1>4
    <3>2. QED
      BY <1>1, <1>4, <3>1, FailedIs, FailedSound
  <2> HIDE DEF failed
  <2>4. /\ SoundMap(registry', reopened)
        /\ \A k \in JobId \ {i} : registry'[k] = registry[k]
        /\ registry'[i].status = "queued"
        /\ registry'[i].retryCount = registry[i].retryCount + 1
    BY <1>1, <2>2, <2>3, RetryScheduledIs, RetryScheduledSound
  <2>5. /\ runs' = [runs EXCEPT ![r] = FreeRun] /\ UNCHANGED <<up, immediates>>
        /\ timers' = [timers EXCEPT ![i] = @ + 1]
    BY <2>1 DEF Settle, i
  <2>r. registry[i].retryCount < MaxRetries
    BY <1>1, <1>4 DEF RetriesLeft
  <2>6. Retries(r)
    BY <1>4, <2>4, <2>5, <2>r DEF Retries, Frees, i
  <2>7. QED
    BY <1>2, <2>4, <2>6 DEF Settles, i
<1>5. CASE registry[i].status \in Active /\ ~RetriesLeft(reg, i, b)
  <2> DEFINE failed == Failed(reg, i, b)
  <2>1. SettleOutcome(reg, i, b) = "failed"
    BY <1>1, <1>5 DEF SettleOutcome, Active
  <2>2. registry' = failed
    BY <1>2, <2>1 DEF SettledMap
  <2>3. /\ failed \in [JobId -> Job] /\ SoundMap(failed, reopened)
        /\ \A k \in JobId \ {i} : failed[k] = reg[k]
        /\ failed[i].status = "failed"
    <3>1. reg[i].status \in Active
      BY <1>1, <1>5
    <3>2. QED
      BY <1>1, <1>5, <3>1, FailedIs, FailedSound
  <2> HIDE DEF failed
  <2>4. /\ SoundMap(registry', reopened)
        /\ \A k \in JobId \ {i} : registry'[k] = registry[k]
        /\ registry'[i].status = "failed"
    BY <1>1, <2>2, <2>3
  <2>5. /\ runs' = [runs EXCEPT ![r] = FreeRun] /\ UNCHANGED <<up, timers>>
        /\ immediates' = ScheduleNext(registry')
    BY <1>2, <2>1 DEF Settle, i
  <2>6. GivesUp(r)
    BY <1>5, <2>4, <2>5 DEF GivesUp, Frees, i
  <2>7. QED
    BY <1>2, <2>4, <2>6 DEF Settles, i
<1>6. QED
  BY <1>3, <1>4, <1>5

-----------------------------------------------------------------------------
(* What the pieces of a step keep of the invariant.                         *)
LEMMA FreeRunType ==
  FreeRun \in RunState /\ FreeRun.pc = "free" /\ FreeRun.job = NoId
  BY DEF FreeRun, RunState

LEMMA ScheduleNextIs ==
  ASSUME NEW reg, immediates \in Seq(JobId)
  PROVE  /\ ScheduleNext(reg) \in Seq(JobId)
         /\ NextJobs(reg) = {} => ScheduleNext(reg) = immediates
         /\ NextJobs(reg) # {} => \E k \in NextJobs(reg) : ScheduleNext(reg) = Append(immediates, k)
<1>1. NextJobs(reg) \subseteq JobId
  BY DEF NextJobs, InState
<1>2. CASE NextJobs(reg) # {}
  <2>1. (CHOOSE i \in NextJobs(reg) : TRUE) \in NextJobs(reg)
    BY <1>2
  <2>2. QED
    BY <1>1, <1>2, <2>1 DEF ScheduleNext
<1>3. QED
  BY <1>2 DEF ScheduleNext

SlotMoved(r) ==
  /\ runs'[r].pc # "free" /\ runs'[r].job \in issued'
  /\ runs'[r].pc = "stage" => runs'[r].stage \in Stage

LEMMA SlotsKept ==
  ASSUME EngineInv, issued \subseteq issued',
         \A r \in Run : runs'[r] = runs[r] \/ runs'[r] = FreeRun \/ SlotMoved(r)
  PROVE  \A r \in Run : SlotSound(r)'
  BY FreeRunType DEF EngineInv, SlotSound, SlotMoved

OrchKept ==
  /\ up' \in BOOLEAN
  /\ runs' \in [Run -> RunState]
  /\ immediates' \in Seq(JobId)
  /\ timers' \in [JobId -> Nat]
  /\ \A r \in Run : SlotSound(r)'

LEMMA EngineKept ==
  ASSUME EngineInv, OrchKept, UNCHANGED QueueBookkeeping,
         SoundMap(registry', reopened), disk' = registry',
         \A k \in JobId : registry'[k].status # "absent" => registry[k].status # "absent"
  PROVE  EngineInv'
<1>1. registry' \in [JobId -> Job]
  BY DEF SoundMap
<1>2. QueueTypeOK'
  BY <1>1 DEF EngineInv, QueueInv, QueueTypeOK, QueueBookkeeping
<1>3. QueueInv'
  BY <1>2 DEF QueueInv, QueueBookkeeping
<1>4. OrchTypeOK'
  BY <1>2 DEF OrchTypeOK, OrchKept
<1>5. \A i \in JobId : registry'[i].status # "absent" => i \in issued'
  BY DEF EngineInv, QueueBookkeeping
<1>6. QED
  BY <1>3, <1>4, <1>5 DEF EngineInv, OrchKept

(* The same for the operations of the registry that the routes call.        *)
LEMMA EngineCalled ==
  ASSUME EngineInv, OrchKept, QueueNext, disk' = registry',
         \A k \in JobId : registry'[k].status # "absent" => k \in issued'
  PROVE  EngineInv'
<1>1. QueueInv'
  BY QueueStepInv DEF EngineInv
<1>2. OrchTypeOK'
  BY <1>1 DEF QueueInv, OrchTypeOK, OrchKept
<1>3. QED
  BY <1>1, <1>2 DEF EngineInv, OrchKept

LEMMA OrchVars ==
  ASSUME EngineInv
  PROVE  /\ up \in BOOLEAN /\ runs \in [Run -> RunState] /\ immediates \in Seq(JobId)
         /\ timers \in [JobId -> Nat] /\ SoundMap(registry, reopened)
         /\ registry \in [JobId -> Job] /\ issued \subseteq JobId
  BY DEF EngineInv, OrchTypeOK, QueueTypeOK, QueueInv

LEMMA GoesKept ==
  ASSUME EngineInv, NEW r \in Run, runs[r].pc # "free",
         NEW p \in {"stage", "virality"}, NEW s \in Stage, Goes(r, p, s)
  PROVE  OrchKept
<1>1. runs' \in [Run -> RunState]
  BY OrchVars DEF Goes, RunState
<1>2. /\ \A q \in Run \ {r} : runs'[q] = runs[q]
      /\ runs'[r].pc = p /\ runs'[r].stage = s /\ runs'[r].job = runs[r].job
  BY OrchVars DEF Goes, RunState
<1>3. issued' = issued
  BY DEF Goes, QueueBookkeeping
<1>4. SlotMoved(r)
  BY <1>2, <1>3, LiveRun DEF SlotMoved
<1>5. \A q \in Run : SlotSound(q)'
  BY <1>2, <1>3, <1>4, SlotsKept
<1>6. QED
  BY <1>1, <1>5, OrchVars DEF OrchKept, Goes

LEMMA FreesKept ==
  ASSUME EngineInv, NEW r \in Run, Frees(r), issued' = issued,
         immediates' \in Seq(JobId), timers' \in [JobId -> Nat]
  PROVE  OrchKept
<1>1. runs' \in [Run -> RunState]
  BY OrchVars, FreeRunType DEF Frees
<1>2. \A q \in Run : runs'[q] = runs[q] \/ runs'[q] = FreeRun
  BY OrchVars DEF Frees
<1>3. \A q \in Run : SlotSound(q)'
  BY <1>2, SlotsKept
<1>4. QED
  BY <1>1, <1>3, OrchVars DEF OrchKept, Frees

LEMMA GoneKept ==
  ASSUME EngineInv, ProcessGone, issued' = issued
  PROVE  OrchKept
<1>1. runs' \in [Run -> RunState] /\ \A q \in Run : runs'[q] = FreeRun
  BY FreeRunType DEF ProcessGone
<1>2. \A q \in Run : SlotSound(q)'
  BY <1>1, SlotsKept
<1>3. immediates' \in Seq(JobId)
  BY DEF ProcessGone
<1>4. timers' \in [JobId -> Nat]
  BY DEF ProcessGone
<1>5. up' \in BOOLEAN
  BY DEF ProcessGone
<1>6. QED
  BY <1>1, <1>2, <1>3, <1>4, <1>5 DEF OrchKept

(* A pipeline begins in a free slot.                                        *)
Begun(r, i, caught) ==
  /\ runs[r].pc = "free"
  /\ runs' \in [Run -> RunState]
  /\ \A q \in Run \ {r} : runs'[q] = runs[q]
  /\ runs'[r].job = i /\ runs'[r].pc = "pressure" /\ runs'[r].stage = 0
  /\ runs'[r].caught = caught /\ ~runs'[r].cancelled /\ ~runs'[r].aborted

LEMMA BeginRunIs ==
  ASSUME EngineInv, NEW i \in JobId, NEW caught \in BOOLEAN, BeginRun(i, caught)
  PROVE  \E r \in Run : Begun(r, i, caught)
<1>1. PICK r \in Run \ LiveRuns :
         runs' = [runs EXCEPT ![r] = [FreeRun EXCEPT !.job = i, !.pc = "pressure",
                                                     !.caught = caught]]
  BY DEF BeginRun
<1> DEFINE new == [FreeRun EXCEPT !.job = i, !.pc = "pressure", !.caught = caught]
<1>2. /\ new \in RunState /\ new.job = i /\ new.pc = "pressure" /\ new.stage = 0
      /\ new.caught = caught /\ ~new.cancelled /\ ~new.aborted
  BY DEF FreeRun, RunState
<1>3. runs' = [runs EXCEPT ![r] = new]
  BY <1>1
<1> HIDE DEF new
<1>4. runs[r].pc = "free"
  BY <1>1 DEF LiveRuns
<1>5. Begun(r, i, caught)
  BY <1>2, <1>3, <1>4, OrchVars DEF Begun
<1>6. QED
  BY <1>5

LEMMA BegunKept ==
  ASSUME EngineInv, NEW r \in Run, NEW i \in JobId, NEW caught, Begun(r, i, caught),
         i \in issued', issued \subseteq issued', up' = up,
         immediates' \in Seq(JobId), timers' \in [JobId -> Nat]
  PROVE  OrchKept
<1>1. SlotMoved(r)
  BY DEF Begun, SlotMoved
<1>2. \A q \in Run : SlotSound(q)'
  BY <1>1, SlotsKept DEF Begun
<1>3. QED
  BY <1>2, OrchVars DEF OrchKept, Begun

-----------------------------------------------------------------------------
(* What the calls and callbacks do to the Map and to the pipelines.         *)

(* startJob and runOrchestration for a job that may start.                  *)
Launches(i, caught) ==
  /\ CanStart(registry, i)
  /\ registry' = Started(registry, i) /\ disk' = registry'
  /\ \E r \in Run : Begun(r, i, caught)

StaysPut == UNCHANGED <<registry, disk, runs>>

LEMMA StartAndRunIs ==
  ASSUME EngineInv, NEW i \in JobId, NEW caught \in BOOLEAN, StartAndRun(i, caught)
  PROVE  IF CanStart(registry, i) THEN Launches(i, caught) ELSE StaysPut
<1>1. CASE CanStart(registry, i)
  <2>1. SetMap(Started(registry, i)) /\ BeginRun(i, caught)
    BY <1>1 DEF StartAndRun
  <2>2. QED
    BY <1>1, <2>1, SetMapKeeps, BeginRunIs DEF Launches
<1>2. CASE ~CanStart(registry, i)
  BY <1>2 DEF StartAndRun, StaysPut
<1>3. QED
  BY <1>1, <1>2

LEMMA StartedIs ==
  ASSUME NEW reg \in [JobId -> Job], NEW i \in JobId, NEW new, new = Started(reg, i)
  PROVE  /\ new \in [JobId -> Job] /\ new[i].status = "running"
         /\ new[i].done = reg[i].done /\ new[i].retryCount = reg[i].retryCount
         /\ \A k \in JobId \ {i} : new[k] = reg[k]
<1> DEFINE job == [reg[i] EXCEPT !.status = "running", !.retryAt = FALSE]
<1>1. reg[i] \in Job
  OBVIOUS
<1>2. new = [reg EXCEPT ![i] = job]
  BY <1>1 DEF Started
<1>3. /\ job \in Job /\ job.status = "running" /\ job.done = reg[i].done
      /\ job.retryCount = reg[i].retryCount
  BY <1>1 DEF Job, Status, Active
<1> HIDE DEF job
<1>4. QED
  BY <1>2, <1>3

LEMMA CompletedIs ==
  ASSUME NEW reg \in [JobId -> Job], NEW i \in JobId, NEW new, new = Completed(reg, i)
  PROVE  /\ new \in [JobId -> Job] /\ new[i].status = "completed"
         /\ new[i].done = reg[i].done
         /\ \A k \in JobId \ {i} : new[k] = reg[k]
<1> DEFINE job == [reg[i] EXCEPT !.status = "completed", !.retryAt = FALSE]
<1>1. reg[i] \in Job
  OBVIOUS
<1>2. new = [reg EXCEPT ![i] = job]
  BY <1>1 DEF Completed
<1>3. job \in Job /\ job.status = "completed" /\ job.done = reg[i].done
  BY <1>1 DEF Job, Status, Terminal
<1> HIDE DEF job
<1>4. QED
  BY <1>2, <1>3

(* enqueue: a job under a new id.                                           *)
Enqueued(i) ==
  /\ i \notin issued /\ issued' = issued \cup {i}
  /\ registry[i].status = "absent"
  /\ registry'[i].status = "queued" /\ registry'[i].done = {}
  /\ \A k \in JobId \ {i} : registry'[k] = registry[k]
  /\ disk' = registry'

LEMMA EnqueueIs ==
  ASSUME EngineInv, NEW i \in JobId, Enqueue(i)
  PROVE  Enqueued(i) /\ QueueNext
<1>1. /\ registry' = [registry EXCEPT ![i] = FreshJob] /\ disk' = registry'
      /\ i \notin issued /\ issued' = issued \cup {i}
  BY OrchestratorAssumption DEF Enqueue, Persist
<1>2. FreshJob.status = "queued" /\ FreshJob.done = {}
  BY DEF FreshJob
<1>3. registry[i].status = "absent"
  BY <1>1 DEF EngineInv
<1>4. QED
  BY <1>1, <1>2, <1>3, OrchVars DEF Enqueued, QueueNext

(* cancelJob.                                                               *)
Cancels(i) ==
  /\ registry[i].status \in Active /\ registry'[i].status = "cancelled"
  /\ \A k \in JobId \ {i} : registry'[k] = registry[k]
  /\ disk' = registry' /\ issued' = issued

LEMMA CancelIs ==
  ASSUME EngineInv, NEW i \in JobId, CancelJob(i)
  PROVE  Cancels(i) /\ QueueNext
<1> DEFINE job == [registry[i] EXCEPT !.status = "cancelled", !.retryAt = FALSE]
<1>1. registry[i] \in Job
  BY OrchVars
<1>2. registry' = [registry EXCEPT ![i] = job] /\ disk' = registry' /\ issued' = issued
  BY <1>1, OrchestratorAssumption DEF CancelJob, MapOnly, Persist, Cancelled
<1>3. job.status = "cancelled"
  BY <1>1 DEF Job
<1> HIDE DEF job
<1>4. registry[i].status \in Active /\ QueueNext
  BY DEF CancelJob, QueueNext
<1>5. QED
  BY <1>2, <1>3, <1>4, OrchVars DEF Cancels

(* deleteJob of an ended job, clearDeadLetterJobs and the clean-up timers:  *)
(* some ended jobs are gone.                                                *)
Removes ==
  /\ \A k \in JobId : \/ registry'[k] = registry[k]
                      \/ registry[k].status \in Terminal /\ registry'[k] = NoJob
  /\ disk' = registry' /\ issued' = issued

LEMMA WithoutRemoves ==
  ASSUME EngineInv, NEW S \in SUBSET InState(registry, Terminal),
         registry' = Without(registry, S), disk' = registry', issued' = issued
  PROVE  Removes
<1>1. \A k \in JobId : registry'[k] = IF k \in S THEN NoJob ELSE registry[k]
  BY DEF Without
<1>2. QED
  BY <1>1 DEF Removes, InState

LEMMA DeleteIs ==
  ASSUME EngineInv, NEW i \in JobId, registry[i].status \in Terminal, DeleteJob(i)
  PROVE  Removes /\ QueueNext
<1>1. {i} \in SUBSET InState(registry, Terminal)
  BY DEF InState
<1>2. /\ registry' = Without(registry, {i}) /\ disk' = registry' /\ issued' = issued
  BY OrchestratorAssumption DEF DeleteJob
<1>3. QED
  BY <1>1, <1>2, WithoutRemoves DEF QueueNext

LEMMA ClearIs ==
  ASSUME EngineInv, ClearDeadLetterJobs
  PROVE  Removes /\ QueueNext
<1>1. DeadLetters(registry) \in SUBSET InState(registry, Terminal)
  BY DEF DeadLetters, InState, Terminal
<1>2. /\ registry' = Without(registry, DeadLetters(registry))
      /\ disk' = registry' /\ issued' = issued
  BY OrchestratorAssumption DEF ClearDeadLetterJobs, MapOnly, Persist
<1>3. QED
  BY <1>1, <1>2, WithoutRemoves DEF QueueNext

LEMMA CleanupIs ==
  ASSUME EngineInv, NEW i \in JobId, CleanupFires(i)
  PROVE  Removes /\ QueueNext
<1>1. CASE registry[i].status \in Terminal
  <2>1. {i} \in SUBSET InState(registry, Terminal)
    BY <1>1 DEF InState
  <2>2. /\ registry' = Without(registry, {i}) /\ disk' = registry' /\ issued' = issued
    BY <1>1, OrchestratorAssumption DEF CleanupFires, Persist
  <2>3. QED
    BY <2>1, <2>2, WithoutRemoves DEF QueueNext
<1>2. CASE registry[i].status \notin Terminal
  <2>1. registry' = registry /\ disk' = disk /\ issued' = issued
    BY <1>2 DEF CleanupFires
  <2>2. Removes
    BY <2>1 DEF Removes, EngineInv
  <2>3. QED
    BY <2>2 DEF QueueNext
<1>3. QED
  BY <1>1, <1>2

(* resumeJob.                                                               *)
Resumes(i) ==
  /\ registry[i].status \in Terminal /\ registry'[i].status = "queued"
  /\ registry'[i].retryCount > 0
  /\ \A k \in JobId \ {i} : registry'[k] = registry[k]
  /\ disk' = registry' /\ issued' = issued

LEMMA ResumeIs ==
  ASSUME EngineInv, NEW i \in JobId, NEW s \in Stage, ResumeJob(i, s)
  PROVE  Resumes(i) /\ QueueNext
<1> DEFINE job == [registry[i] EXCEPT !.status = "queued", !.retryCount = @ + 1,
                                      !.retryAt = FALSE, !.resumeFrom = s]
<1>1. registry[i] \in Job
  BY OrchVars
<1>2. registry' = [registry EXCEPT ![i] = job] /\ disk' = registry' /\ issued' = issued
  BY <1>1, OrchestratorAssumption DEF ResumeJob, Persist, Resumed
<1>3. job.status = "queued" /\ job.retryCount = registry[i].retryCount + 1
  BY <1>1 DEF Job
<1>n. registry[i].retryCount + 1 > 0
  BY <1>1 DEF Job
<1> HIDE DEF job
<1>4. registry[i].status \in Terminal
  BY DEF ResumeJob, CanResume
<1>5. QueueNext
  BY DEF QueueNext
<1>6. QED
  BY <1>2, <1>3, <1>n, <1>4, <1>5, OrchVars DEF Resumes

(* A boot finds the Map as it was.                                          *)
LEMMA RestartIs ==
  ASSUME EngineInv, Restart
  PROVE  registry' = registry /\ disk' = registry' /\ issued' = issued /\ QueueNext
  BY DEF EngineInv, Restart, QueueNext

-----------------------------------------------------------------------------
(* EngineInv is inductive, whatever the environment calls.                  *)
LEMMA EngineInit == Init => EngineInv
<1> SUFFICES ASSUME Init PROVE EngineInv
  OBVIOUS
<1>1. QueueInv /\ disk = registry
  BY QueueInitInv DEF Init, QueueInit
<1>2. runs \in [Run -> RunState] /\ \A r \in Run : SlotSound(r)
  BY FreeRunType DEF Init, SlotSound
<1>3. immediates \in Seq(JobId) /\ timers \in [JobId -> Nat]
  BY DEF Init
<1>4. \A i \in JobId : registry[i].status = "absent"
  BY DEF Init, QueueInit, NoJob
<1>5. up \in BOOLEAN
  BY DEF Init
<1>6. QED
  BY <1>1, <1>2, <1>3, <1>4, <1>5 DEF EngineInv, OrchTypeOK, QueueInv

(* A turn of a pipeline.                                                    *)
LEMMA RunStepEngine ==
  ASSUME EngineInv, NEW r \in Run, RunStep(r)
  PROVE  EngineInv'
<1> DEFINE i == runs[r].job
<1>1. /\ runs[r].pc # "free" /\ i \in JobId /\ registry \in [JobId -> Job]
      /\ SoundMap(registry, reopened) /\ runs \in [Run -> RunState]
      /\ immediates \in Seq(JobId) /\ timers \in [JobId -> Nat]
  BY RunStepShape, LiveRun, OrchVars
<1>2. ASSUME PressureHigh(r) PROVE EngineInv'
  <2>1. runs' \in [Run -> RunState] /\ runs'[r].pc = "backoff" /\ runs'[r].job = i
        /\ \A q \in Run \ {r} : runs'[q] = runs[q]
    BY <1>1, <1>2 DEF PressureHigh, RunState
  <2>2. UNCHANGED <<registry, disk, QueueBookkeeping, up, immediates, timers>>
    BY <1>2 DEF PressureHigh, queueVars, QueueBookkeeping
  <2>3. SlotMoved(r)
    BY <1>1, <2>1, <2>2, LiveRun DEF SlotMoved, QueueBookkeeping
  <2>4. \A q \in Run : SlotSound(q)'
    BY <2>1, <2>2, <2>3, SlotsKept DEF QueueBookkeeping
  <2>5. OrchKept
    BY <2>1, <2>2, <2>4, OrchVars DEF OrchKept
  <2>6. QED
    BY <1>1, <2>2, <2>5, EngineKept DEF EngineInv
<1>3. ASSUME Enters(r) PROVE EngineInv'
  <2>1. CASE runs[r].pc \in {"pressure", "backoff"}
    <3>1. SetMap(StageBegun(registry, i, 1)) /\ Goes(r, "stage", 1)
      BY <1>3, <2>1 DEF Enters
    <3>2. OrchKept
      BY <1>1, <3>1, GoesKept, StageFacts
    <3>3. registry' = StageBegun(registry, i, 1) /\ disk' = registry'
      BY <3>1, SetMapKeeps
    <3>4. SoundMap(registry', reopened)
      BY <1>1, <3>3, StageRecordSound, StageFacts
    <3>5. \A k \in JobId : registry'[k].status = registry[k].status
      BY <1>1, <3>3, StageBegunIs, StageFacts
    <3>6. QED
      BY <3>1, <3>2, <3>3, <3>4, <3>5, EngineKept DEF Goes
  <2>2. CASE runs[r].pc = "stage"
    <3> DEFINE s == runs[r].stage
               t == runs[r].stage + 1
               reg == StageEnded(registry, i, s)
    <3>1. /\ SetMap(StageBegun(reg, i, t)) /\ Goes(r, "stage", t)
          /\ s \in Stage /\ t \in Stage
      BY <1>3, <2>2, StageFacts DEF Enters, EngineInv, SlotSound
    <3> HIDE DEF s, t
    <3>2. OrchKept
      BY <1>1, <3>1, GoesKept
    <3>3. registry' = StageBegun(reg, i, t) /\ disk' = registry'
      BY <3>1, SetMapKeeps
    <3>4. SoundMap(reg, reopened)
      BY <1>1, <3>1, StageRecordSound
    <3>5. reg \in [JobId -> Job] /\ \A k \in JobId : reg[k].status = registry[k].status
      BY <1>1, <3>1, StageEndedIs
    <3> HIDE DEF reg
    <3>6. SoundMap(registry', reopened)
      BY <1>1, <3>1, <3>3, <3>4, StageRecordSound
    <3>7. \A k \in JobId : registry'[k].status = registry[k].status
      <4>1. i \in JobId /\ t \in Stage
        BY <1>1, <3>1
      <4>2. \A k \in JobId : registry'[k].status = reg[k].status
        BY <3>3, <3>5, <4>1, StageBegunIs
      <4>3. QED
        BY <3>5, <4>2
    <3>8. QED
      BY <3>1, <3>2, <3>3, <3>6, <3>7, EngineKept DEF Goes
  <2>3. QED
    BY <1>3, <2>1, <2>2 DEF Enters
<1>4. ASSUME LastStageEnds(r) PROVE EngineInv'
  <2> DEFINE s == runs[r].stage
  <2>1. SetMap(StageEnded(registry, i, s)) /\ Goes(r, "virality", s) /\ s \in Stage
    BY <1>4 DEF LastStageEnds, EngineInv, SlotSound
  <2>2. OrchKept
    BY <1>1, <2>1, GoesKept
  <2>3. registry' = StageEnded(registry, i, s) /\ disk' = registry'
    BY <2>1, SetMapKeeps
  <2>4. SoundMap(registry', reopened)
    BY <1>1, <2>1, <2>3, StageRecordSound
  <2>5. \A k \in JobId : registry'[k].status = registry[k].status
    BY <1>1, <2>1, <2>3, StageEndedIs
  <2>6. QED
    BY <2>1, <2>2, <2>3, <2>4, <2>5, EngineKept DEF Goes
<1>5. ASSUME Completes(r) PROVE EngineInv'
  <2>1. registry' = Completed(registry, i) /\ disk' = registry'
    BY <1>5, SetMapKeeps DEF Completes
  <2>2. SoundMap(registry', reopened)
    BY <1>1, <2>1, CompletedSound
  <2>3. \A k \in JobId : registry'[k].status # "absent" => registry[k].status # "absent"
    <3>1. registry[i].status # "absent"
      BY <1>5 DEF Completes, Active
    <3>2. \A k \in JobId \ {i} : registry'[k] = registry[k]
      BY <1>1, <2>1, CompletedIs
    <3>3. QED
      BY <3>1, <3>2
  <2>4. immediates' \in Seq(JobId)
    BY <1>1, <1>5, ScheduleNextIs DEF Completes
  <2>5. Frees(r) /\ UNCHANGED QueueBookkeeping /\ timers' = timers
    BY <1>5 DEF Completes, Frees
  <2>6. issued' = issued
    BY <2>5 DEF QueueBookkeeping
  <2>7. OrchKept
    BY <1>1, <2>4, <2>5, <2>6, FreesKept
  <2>8. QED
    BY <2>1, <2>2, <2>3, <2>5, <2>7, EngineKept
<1>6. ASSUME Settles(r) PROVE EngineInv'
  <2>1. /\ UNCHANGED QueueBookkeeping /\ SoundMap(registry', reopened) /\ disk' = registry'
        /\ \A k \in JobId \ {i} : registry'[k] = registry[k]
        /\ issued' = issued
    BY <1>6 DEF Settles, QueueBookkeeping
  <2>2. CASE Retries(r)
    <3>1. Frees(r) /\ immediates' = immediates /\ timers' \in [JobId -> Nat]
      BY <1>1, <2>2 DEF Retries
    <3>2. OrchKept
      BY <1>1, <2>1, <3>1, FreesKept
    <3>3. registry[i].status # "absent"
      BY <2>2 DEF Retries, Active
    <3>4. QED
      BY <2>1, <3>2, <3>3, EngineKept
  <2>3. CASE GivesUp(r) \/ Leaves(r)
    <3>1. Frees(r) /\ immediates' \in Seq(JobId) /\ timers' = timers
      BY <1>1, <2>3, ScheduleNextIs DEF GivesUp, Leaves
    <3>2. OrchKept
      BY <1>1, <2>1, <3>1, FreesKept
    <3>3. registry[i].status # "absent" \/ registry' = registry
      BY <2>3 DEF GivesUp, Leaves, Active
    <3>4. QED
      BY <2>1, <3>2, <3>3, EngineKept
  <2>4. CASE Dies(r)
    <3>1. OrchKept
      BY <2>1, <2>4, GoneKept DEF Dies
    <3>2. registry' = registry
      BY <2>4 DEF Dies
    <3>3. QED
      BY <2>1, <3>1, <3>2, EngineKept
  <2>5. QED
    BY <1>6, <2>2, <2>3, <2>4 DEF Settles
<1>7. QED
  BY <1>2, <1>3, <1>4, <1>5, <1>6, RunStepShape, SettleShape

(* Calls and callbacks.                                                     *)
LEMMA LaunchEngine ==
  ASSUME EngineInv, NEW i \in JobId, NEW caught \in BOOLEAN, StartAndRun(i, caught),
         UNCHANGED <<QueueBookkeeping, up>>,
         immediates' \in Seq(JobId), timers' \in [JobId -> Nat]
  PROVE  EngineInv'
<1>1. issued' = issued
  BY DEF QueueBookkeeping
<1>2. CASE CanStart(registry, i)
  <2>1. Launches(i, caught)
    BY <1>2, StartAndRunIs
  <2>2. PICK r \in Run : Begun(r, i, caught)
    BY <2>1 DEF Launches
  <2>3. registry' = Started(registry, i) /\ disk' = registry' /\ i \in issued
    BY <1>2, <2>1 DEF Launches, CanStart, EngineInv
  <2>4. OrchKept
    BY <1>1, <2>2, <2>3, BegunKept
  <2>5. SoundMap(registry', reopened)
    BY <1>2, <2>3, StartedSound, OrchVars
  <2>6. \A k \in JobId : registry'[k].status # "absent" => registry[k].status # "absent"
    <3>1. registry[i].status # "absent"
      BY <1>2 DEF CanStart
    <3>2. registry' = Started(registry, i) /\ registry \in [JobId -> Job]
      BY <2>3, OrchVars
    <3>3. \A k \in JobId \ {i} : registry'[k] = registry[k]
      BY <3>2, StartedIs
    <3>4. QED
      BY <3>1, <3>3
  <2>7. QED
    BY <2>3, <2>4, <2>5, <2>6, EngineKept
<1>3. CASE ~CanStart(registry, i)
  <2>1. UNCHANGED <<registry, disk, runs>>
    BY <1>3, StartAndRunIs DEF StaysPut
  <2>2. \A q \in Run : SlotSound(q)'
    BY <1>1, <2>1, SlotsKept
  <2>3. OrchKept
    BY <2>1, <2>2, OrchVars DEF OrchKept
  <2>4. QED
    BY <2>1, <2>3, EngineKept, OrchVars DEF EngineInv
<1>4. QED
  BY <1>2, <1>3

LEMMA LoopStepEngine ==
  ASSUME EngineInv, LoopStep
  PROVE  EngineInv'
<1>1. ASSUME NEW r \in Run, WatcherTick(r) PROVE EngineInv'
  <2>1. /\ runs' \in [Run -> RunState] /\ runs[r].pc # "free"
        /\ \A q \in Run \ {r} : runs'[q] = runs[q]
        /\ runs'[r].pc = runs[r].pc /\ runs'[r].job = runs[r].job
        /\ runs'[r].stage = runs[r].stage
    BY <1>1, OrchVars DEF WatcherTick, LiveRuns, RunState
  <2>2. UNCHANGED <<registry, disk, QueueBookkeeping, up, immediates, timers>>
    BY <1>1 DEF WatcherTick, queueVars, QueueBookkeeping
  <2>3. SlotMoved(r)
    BY <2>1, <2>2, LiveRun DEF SlotMoved, QueueBookkeeping, EngineInv, SlotSound
  <2>4. \A q \in Run : SlotSound(q)'
    BY <2>1, <2>2, <2>3, SlotsKept DEF QueueBookkeeping
  <2>5. OrchKept
    BY <2>1, <2>2, <2>4, OrchVars DEF OrchKept
  <2>6. QED
    BY <2>2, <2>5, EngineKept, OrchVars DEF EngineInv
<1>2. ASSUME ImmediateFires PROVE EngineInv'
  <2>1. Head(immediates) \in JobId /\ immediates' \in Seq(JobId)
    BY <1>2, OrchVars DEF ImmediateFires
  <2>2. QED
    BY <1>2, <2>1, LaunchEngine, OrchVars DEF ImmediateFires
<1>3. ASSUME NEW i \in JobId, RetryTimerFires(i) PROVE EngineInv'
  <2>1. timers' \in [JobId -> Nat]
    BY <1>3, OrchVars DEF RetryTimerFires
  <2>2. QED
    BY <1>3, <2>1, LaunchEngine, OrchVars DEF RetryTimerFires
<1>4. QED
  BY <1>1, <1>2, <1>3, RunStepEngine DEF LoopStep

LEMMA CallStepEngine ==
  ASSUME EngineInv, CallStep
  PROVE  EngineInv'
<1>0. ASSUME UNCHANGED orchVars, issued \subseteq issued' PROVE OrchKept
  <2>1. UNCHANGED <<up, runs, immediates, timers>>
    BY <1>0 DEF orchVars
  <2>2. QED
    BY <1>0, <2>1, SlotsKept, OrchVars DEF OrchKept
<1>r. ASSUME Removes, QueueNext, UNCHANGED orchVars PROVE EngineInv'
  <2>1. OrchKept
    BY <1>0, <1>r DEF Removes
  <2>2. \A k \in JobId : registry'[k].status # "absent" => k \in issued'
    BY <1>r DEF Removes, NoJob, EngineInv
  <2>3. QED
    BY <1>r, <2>1, <2>2, EngineCalled DEF Removes
<1>1. ASSUME ClearDeadLetter PROVE EngineInv'
  BY <1>1, <1>r, ClearIs DEF ClearDeadLetter
<1>2. ASSUME NEW i \in JobId, Post(i) PROVE EngineInv'
  <2>1. Enqueued(i) /\ QueueNext /\ UNCHANGED <<up, runs, timers>>
    BY <1>2, EnqueueIs DEF Post
  <2>2. immediates' \in Seq(JobId)
    BY <1>2, OrchVars DEF Post
  <2>3. OrchKept
    BY <2>1, <2>2, SlotsKept, OrchVars DEF OrchKept, Enqueued
  <2>4. QED
    BY <2>1, <2>3, EngineCalled DEF Enqueued, EngineInv
<1>3. ASSUME NEW i \in JobId, Resubmit(i) PROVE EngineInv'
  <2>1. UNCHANGED <<queueVars, up, runs, timers>> /\ UNCHANGED QueueBookkeeping
    BY <1>3 DEF Resubmit, queueVars, QueueBookkeeping
  <2>2. immediates' \in Seq(JobId)
    BY <1>3, OrchVars DEF Resubmit, Duplicates, InState
  <2>3. OrchKept
    BY <2>1, <2>2, SlotsKept, OrchVars DEF OrchKept, queueVars
  <2>4. QED
    BY <2>1, <2>3, EngineKept, OrchVars DEF EngineInv, queueVars
<1>4. ASSUME NEW i \in JobId, DirectNew(i) PROVE EngineInv'
  <2>1. Enqueued(i) /\ QueueNext /\ UNCHANGED <<up, immediates, timers>>
    BY <1>4, EnqueueIs DEF DirectNew
  <2>2. PICK r \in Run : Begun(r, i, TRUE)
    BY <1>4, BeginRunIs DEF DirectNew
  <2>3. OrchKept
    BY <2>1, <2>2, BegunKept, OrchVars DEF Enqueued
  <2>4. QED
    BY <2>1, <2>3, EngineCalled DEF Enqueued, EngineInv
<1>5. ASSUME NEW i \in JobId, DirectExisting(i) PROVE EngineInv'
  <2>1. /\ UNCHANGED <<queueVars, up, immediates, timers>> /\ UNCHANGED QueueBookkeeping
    BY <1>5 DEF DirectExisting, queueVars, QueueBookkeeping
  <2>2. PICK j \in Duplicates(registry, i) : BeginRun(j, TRUE)
    BY <1>5 DEF DirectExisting
  <2>3. j \in JobId /\ j \in issued
    BY <2>2 DEF Duplicates, InState, Active, EngineInv
  <2>4. PICK r \in Run : Begun(r, j, TRUE)
    BY <2>2, <2>3, BeginRunIs
  <2>5. OrchKept
    BY <2>1, <2>3, <2>4, BegunKept, OrchVars DEF queueVars
  <2>6. QED
    BY <2>1, <2>5, EngineKept, OrchVars DEF EngineInv, queueVars
<1>6. ASSUME NEW i \in JobId, Cancel(i) PROVE EngineInv'
  <2>1. Cancels(i) /\ QueueNext /\ UNCHANGED <<up, immediates, timers>>
    BY <1>6, CancelIs DEF Cancel
  <2>2. runs' = [r \in Run |-> IF r \in RunsOf(i)
                               THEN [runs[r] EXCEPT !.cancelled = TRUE] ELSE runs[r]]
    BY <1>6 DEF Cancel
  <2>3. runs' \in [Run -> RunState]
    BY <2>2, OrchVars DEF RunState
  <2>4. \A r \in Run : runs'[r] = runs[r] \/ SlotMoved(r)
    BY <2>1, <2>2, LiveRun, OrchVars
       DEF SlotMoved, RunsOf, LiveRuns, RunState, Cancels, EngineInv, SlotSound
  <2>5. OrchKept
    BY <2>1, <2>3, <2>4, SlotsKept, OrchVars DEF OrchKept, Cancels
  <2>6. QED
    BY <2>1, <2>5, EngineCalled DEF Cancels, EngineInv, Active
<1>7. ASSUME NEW i \in JobId, Delete(i) PROVE EngineInv'
  BY <1>7, <1>r, DeleteIs DEF Delete
<1>8. ASSUME NEW i \in JobId, Cleanup(i) PROVE EngineInv'
  BY <1>8, <1>r, CleanupIs DEF Cleanup
<1>9. ASSUME NEW i \in JobId, NEW s \in Stage, Resume(i, s) PROVE EngineInv'
  <2>1. Resumes(i) /\ QueueNext /\ UNCHANGED orchVars
    BY <1>9, ResumeIs DEF Resume
  <2>2. OrchKept
    BY <1>0, <2>1 DEF Resumes
  <2>3. QED
    BY <2>1, <2>2, EngineCalled DEF Resumes, EngineInv, Terminal
<1>10. QED
  BY <1>1, <1>2, <1>3, <1>4, <1>5, <1>6, <1>7, <1>8, <1>9 DEF CallStep

LEMMA EngineStep == EngineInv /\ [Next]_vars => EngineInv'
<1> SUFFICES ASSUME EngineInv, [Next]_vars PROVE EngineInv'
  OBVIOUS
<1>1. ASSUME Crash PROVE EngineInv'
  <2>1. ProcessGone /\ UNCHANGED queueVars /\ UNCHANGED QueueBookkeeping
    BY <1>1 DEF Crash, queueVars, QueueBookkeeping
  <2>2. OrchKept
    BY <2>1, GoneKept DEF queueVars
  <2>3. QED
    BY <2>1, <2>2, EngineKept, OrchVars DEF EngineInv, queueVars
<1>2. ASSUME Boot PROVE EngineInv'
  <2>1. /\ registry' = registry /\ disk' = registry' /\ issued' = issued /\ QueueNext
        /\ UNCHANGED <<runs, immediates, timers>> /\ up' \in BOOLEAN
    BY <1>2, RestartIs DEF Boot
  <2>2. OrchKept
    BY <2>1, SlotsKept, OrchVars DEF OrchKept
  <2>3. QED
    BY <2>1, <2>2, EngineCalled DEF EngineInv
<1>3. CASE UNCHANGED vars
  <2>1. UNCHANGED queueVars /\ UNCHANGED QueueBookkeeping /\ UNCHANGED <<up, runs, immediates, timers>>
    BY <1>3 DEF vars, orchVars, queueVars, QueueBookkeeping
  <2>2. OrchKept
    BY <2>1, SlotsKept, OrchVars DEF OrchKept, queueVars
  <2>3. QED
    BY <2>1, <2>2, EngineKept, OrchVars DEF EngineInv, queueVars
<1>4. QED
  BY <1>1, <1>2, <1>3, LoopStepEngine, CallStepEngine DEF Next

(* What the environment calls, and when the process dies and boots, does    *)
(* not matter to the engine's own invariant.                                *)
THEOREM EngineInvariant == Spec => []EngineInv
  BY EngineInit, EngineStep, PTL DEF Spec

(* Registry, snapshot, pipelines, callbacks and timers are well typed.      *)
THEOREM OrchTypeCorrect == Spec => []OrchTypeOK
<1>1. EngineInv => OrchTypeOK
  BY DEF EngineInv
<1>2. QED
  BY <1>1, EngineInvariant, PTL

(* The single-video lock survives the pipelines, which write the Map        *)
(* without startJob, cancelled and retried jobs, crashes and boots.         *)
THEOREM EngineKeepsLock == Spec => []SingleVideoLock
<1>1. EngineInv => SingleVideoLock
  BY DEF EngineInv, QueueInv, SoundMap, SingleVideoLock
<1>2. QED
  BY <1>1, EngineInvariant, PTL

-----------------------------------------------------------------------------
(* A turn of a pipeline that goes on, and one that ends it.                 *)
Stays(r) ==
  /\ \A q \in Run \ {r} : runs'[q] = runs[q]
  /\ runs'[r].pc \in {"backoff", "stage", "virality"}
  /\ runs'[r].job = runs[r].job /\ runs'[r].caught = runs[r].caught
  /\ runs'[r].aborted = runs[r].aborted /\ runs'[r].cancelled = runs[r].cancelled
  /\ runs'[r].stage = runs[r].stage \/ registry[runs[r].job].status \in Active
  /\ \A k \in JobId : registry'[k].status = registry[k].status
  /\ \A k \in JobId \ {runs[r].job} : registry'[k] = registry[k]
  /\ issued' = issued
  /\ UNCHANGED <<up, immediates, timers>>

Quits(r) ==
  /\ runs'[r] = FreeRun
  /\ \A q \in Run \ {r} : runs'[q] = runs[q]
  /\ registry'[runs[r].job].status # "running"
  /\ registry[runs[r].job].status \notin Active => registry' = registry
  /\ \A k \in JobId \ {runs[r].job} : registry'[k] = registry[k]
  /\ issued' = issued /\ up' = up
  /\ \/ Retries(r)
     \/ timers' = timers /\ immediates' = ScheduleNext(registry')

LEMMA RunStepEnds ==
  ASSUME EngineInv, NEW r \in Run, RunStep(r)
  PROVE  /\ runs[r].pc # "free" /\ runs[r].job \in JobId
         /\ \/ Stays(r) /\ (PressureHigh(r) \/ Enters(r) \/ LastStageEnds(r))
            \/ Quits(r) /\ (Completes(r) \/ Settles(r))
            \/ Dies(r) /\ UNCHANGED <<issued, remote>>
<1> DEFINE i == runs[r].job
<1>1. /\ runs[r].pc # "free" /\ i \in JobId /\ registry \in [JobId -> Job]
      /\ runs \in [Run -> RunState] /\ runs[r] \in RunState
  BY RunStepShape, LiveRun, OrchVars
<1>2. ASSUME PressureHigh(r) PROVE Stays(r)
  <2>1. /\ runs' = [runs EXCEPT ![r].pc = "backoff"]
        /\ UNCHANGED <<registry, issued, up, immediates, timers>>
    BY <1>2 DEF PressureHigh, queueVars
  <2>2. QED
    BY <1>1, <2>1 DEF Stays, RunState
<1>3. ASSUME NEW p \in {"stage", "virality"}, NEW s, Goes(r, p, s)
      PROVE  /\ \A q \in Run \ {r} : runs'[q] = runs[q]
             /\ runs'[r].pc = p /\ runs'[r].job = i /\ runs'[r].caught = runs[r].caught
             /\ runs'[r].aborted = runs[r].aborted
             /\ runs'[r].cancelled = runs[r].cancelled /\ runs'[r].stage = s
             /\ issued' = issued /\ UNCHANGED <<up, immediates, timers>>
  BY <1>1, <1>3 DEF Goes, RunState, QueueBookkeeping
<1>4. ASSUME Enters(r) PROVE Stays(r)
  <2>1. CASE runs[r].pc \in {"pressure", "backoff"}
    <3>1. SetMap(StageBegun(registry, i, 1)) /\ Goes(r, "stage", 1)
      BY <1>4, <2>1 DEF Enters
    <3>2. registry' = StageBegun(registry, i, 1)
      BY <3>1, SetMapKeeps
    <3>3. /\ \A k \in JobId : registry'[k].status = registry[k].status
          /\ \A k \in JobId \ {i} : registry'[k] = registry[k]
      BY <1>1, <3>2, StageBegunIs, StageFacts
    <3>4. registry[i].status \in Active
      BY <1>4 DEF Enters
    <3>5. QED
      BY <1>3, <3>1, <3>3, <3>4 DEF Stays
  <2>2. CASE runs[r].pc = "stage"
    <3> DEFINE s == runs[r].stage
               t == runs[r].stage + 1
               reg == StageEnded(registry, i, s)
    <3>1. /\ SetMap(StageBegun(reg, i, t)) /\ Goes(r, "stage", t)
          /\ s \in Stage /\ t \in Stage
      BY <1>4, <2>2, StageFacts DEF Enters, EngineInv, SlotSound
    <3> HIDE DEF s, t
    <3>2. registry' = StageBegun(reg, i, t)
      BY <3>1, SetMapKeeps
    <3>3. /\ reg \in [JobId -> Job] /\ \A k \in JobId : reg[k].status = registry[k].status
          /\ \A k \in JobId \ {i} : reg[k] = registry[k]
      BY <1>1, <3>1, StageEndedIs
    <3> HIDE DEF reg
    <3>4. i \in JobId /\ t \in Stage
      BY <1>1, <3>1
    <3>5. /\ \A k \in JobId : registry'[k].status = reg[k].status
          /\ \A k \in JobId \ {i} : registry'[k] = reg[k]
      BY <3>2, <3>3, <3>4, StageBegunIs
    <3>6. /\ \A k \in JobId : registry'[k].status = registry[k].status
          /\ \A k \in JobId \ {i} : registry'[k] = registry[k]
      BY <3>3, <3>5
    <3>7. registry[i].status \in Active
      BY <1>4 DEF Enters
    <3>8. QED
      BY <1>3, <3>1, <3>6, <3>7 DEF Stays
  <2>3. QED
    BY <1>4, <2>1, <2>2 DEF Enters
<1>5. ASSUME LastStageEnds(r) PROVE Stays(r)
  <2> DEFINE s == runs[r].stage
  <2>1. SetMap(StageEnded(registry, i, s)) /\ Goes(r, "virality", s) /\ s \in Stage
    BY <1>5 DEF LastStageEnds, EngineInv, SlotSound
  <2>2. registry' = StageEnded(registry, i, s)
    BY <2>1, SetMapKeeps
  <2>3. /\ \A k \in JobId : registry'[k].status = registry[k].status
        /\ \A k \in JobId \ {i} : registry'[k] = registry[k]
    BY <1>1, <2>1, <2>2, StageEndedIs
  <2>4. QED
    BY <1>3, <2>1, <2>3 DEF Stays
<1>6. ASSUME Frees(r)
      PROVE  runs'[r] = FreeRun /\ up' = up /\ \A q \in Run \ {r} : runs'[q] = runs[q]
  BY <1>1, <1>6 DEF Frees
<1>7. ASSUME Completes(r) PROVE Quits(r)
  <2>1. registry' = Completed(registry, i)
    BY <1>7, SetMapKeeps DEF Completes
  <2>2. registry'[i].status = "completed" /\ \A k \in JobId \ {i} : registry'[k] = registry[k]
    BY <1>1, <2>1, CompletedIs
  <2>3. Frees(r) /\ immediates' = ScheduleNext(registry') /\ timers' = timers
    BY <1>7, <2>1 DEF Completes, Frees
  <2>4. issued' = issued /\ registry[i].status \in Active
    BY <1>7 DEF Completes, QueueBookkeeping
  <2>5. QED
    BY <1>6, <2>2, <2>3, <2>4 DEF Quits
<1>8. ASSUME Settles(r) PROVE Quits(r) \/ (Dies(r) /\ UNCHANGED <<issued, remote>>)
  <2>1. /\ UNCHANGED <<issued, remote>>
        /\ \A k \in JobId \ {i} : registry'[k] = registry[k]
    BY <1>8 DEF Settles, QueueBookkeeping
  <2>2. CASE Retries(r)
    <3>1. Frees(r) /\ registry'[i].status # "running" /\ registry[i].status \in Active
      BY <2>2 DEF Retries
    <3>2. QED
      BY <1>6, <2>1, <2>2, <3>1 DEF Quits
  <2>3. CASE GivesUp(r) \/ Leaves(r)
    <3>1. /\ Frees(r) /\ registry'[i].status # "running"
          /\ registry[i].status \notin Active => registry' = registry
          /\ timers' = timers /\ immediates' = ScheduleNext(registry')
      BY <2>3 DEF GivesUp, Leaves, Active
    <3>2. QED
      BY <1>6, <2>1, <3>1 DEF Quits
  <2>4. QED
    BY <1>8, <2>1, <2>2, <2>3 DEF Settles
<1>9. QED
  BY <1>1, <1>2, <1>4, <1>5, <1>7, <1>8, RunStepShape, SettleShape

-----------------------------------------------------------------------------
(* A job is driven when it has a pipeline or needs none.  A boot may bring  *)
(* back a running entry whose pipeline has died; nothing else leaves one.   *)
Drives(r, i) == runs[r].pc # "free" /\ runs[r].job = i

DrivenJob(i) == registry[i].status = "running" => \E r \in Run : Drives(r, i)

Driven == \A i \in JobId : up => DrivenJob(i)

LEMMA DrivenIs ==
  /\ RunningIsDriven <=> Driven
  /\ \A i \in JobId : RunsOf(i) # {} <=> \E r \in Run : Drives(r, i)
  BY DEF RunningIsDriven, Driven, DrivenJob, RunsOf, LiveRuns, Drives

(* Pipelines that go on, and a Map in which the job does not start, keep it. *)
LEMMA DrivenKept ==
  ASSUME NEW i \in JobId, DrivenJob(i),
         registry'[i].status = "running" => registry[i].status = "running",
         \A r \in Run : Drives(r, i) => Drives(r, i)' \/ registry'[i].status # "running"
  PROVE  DrivenJob(i)'
  BY DEF DrivenJob, Drives

LEMMA DrivenStep ==
  ASSUME EngineInv, [Next]_vars, up, up', NEW j \in JobId, DrivenJob(j)
  PROVE  DrivenJob(j)'
<1>r. runs \in [Run -> RunState]
  BY OrchVars
<1>1. ASSUME NEW r \in Run, RunStep(r) PROVE DrivenJob(j)'
  <2>1. CASE Stays(r)
    BY <2>1, DrivenKept DEF Stays, Drives
  <2>2. CASE Quits(r)
    <3>1. registry'[j].status = "running" => registry[j].status = "running"
      BY <2>2 DEF Quits
    <3>2. \A q \in Run : Drives(q, j) => Drives(q, j)' \/ registry'[j].status # "running"
      BY <2>2 DEF Quits, Drives
    <3>3. QED
      BY <3>1, <3>2, DrivenKept
  <2>3. CASE Dies(r)
    BY <2>3 DEF Dies, ProcessGone
  <2>4. QED
    BY <1>1, <2>1, <2>2, <2>3, RunStepEnds
<1>2. ASSUME NEW r \in Run, WatcherTick(r) PROVE DrivenJob(j)'
  <2>1. /\ registry' = registry
        /\ \A q \in Run : runs'[q].pc = runs[q].pc /\ runs'[q].job = runs[q].job
    BY <1>2, <1>r DEF WatcherTick, queueVars, RunState
  <2>2. QED
    BY <2>1, DrivenKept DEF Drives
<1>3. ASSUME NEW i \in JobId, NEW caught \in BOOLEAN, StartAndRun(i, caught)
      PROVE  DrivenJob(j)'
  <2>1. CASE CanStart(registry, i)
    <3>1. PICK r \in Run : Begun(r, i, caught)
      BY <1>3, <2>1, StartAndRunIs DEF Launches
    <3>2. registry' = Started(registry, i)
      BY <1>3, <2>1, StartAndRunIs DEF Launches
    <3>3. \A k \in JobId \ {i} : registry'[k] = registry[k]
      BY <3>2, StartedIs, OrchVars
    <3>4. Drives(r, i)' /\ \A q \in Run : Drives(q, j) => Drives(q, j)'
      BY <3>1 DEF Begun, Drives
    <3>5. CASE j = i
      BY <3>4, <3>5 DEF DrivenJob
    <3>6. CASE j # i
      BY <3>3, <3>4, <3>6, DrivenKept
    <3>7. QED
      BY <3>5, <3>6
  <2>2. CASE ~CanStart(registry, i)
    BY <1>3, <2>2, StartAndRunIs, DrivenKept DEF StaysPut, Drives
  <2>3. QED
    BY <2>1, <2>2
<1>4. ASSUME ImmediateFires PROVE DrivenJob(j)'
  <2>1. Head(immediates) \in JobId
    BY <1>4, OrchVars DEF ImmediateFires
  <2>2. QED
    BY <1>3, <1>4, <2>1 DEF ImmediateFires
<1>5. ASSUME NEW i \in JobId, RetryTimerFires(i) PROVE DrivenJob(j)'
  BY <1>3, <1>5 DEF RetryTimerFires
<1>6. ASSUME Removes, UNCHANGED orchVars PROVE DrivenJob(j)'
  <2>1. registry'[j].status = "running" => registry[j].status = "running"
    BY <1>6 DEF Removes, NoJob
  <2>2. QED
    BY <1>6, <2>1, DrivenKept DEF orchVars, Drives
<1>7. ASSUME NEW i \in JobId, Post(i) PROVE DrivenJob(j)'
  <2>1. registry'[j].status = "running" => registry[j].status = "running"
    BY <1>7, EnqueueIs DEF Post, Enqueued
  <2>2. QED
    BY <1>7, <2>1, DrivenKept DEF Post, Drives
<1>8. ASSUME NEW i \in JobId, Resubmit(i) PROVE DrivenJob(j)'
  BY <1>8, DrivenKept DEF Resubmit, queueVars, Drives
<1>9. ASSUME NEW i \in JobId, NEW r \in Run, Begun(r, i, TRUE),
             registry'[j].status = "running" => registry[j].status = "running"
      PROVE  DrivenJob(j)'
  BY <1>9, DrivenKept DEF Begun, Drives
<1>10. ASSUME NEW i \in JobId, DirectNew(i) PROVE DrivenJob(j)'
  <2>1. registry'[j].status = "running" => registry[j].status = "running"
    BY <1>10, EnqueueIs DEF DirectNew, Enqueued
  <2>2. PICK r \in Run : Begun(r, i, TRUE)
    BY <1>10, BeginRunIs DEF DirectNew
  <2>3. QED
    BY <1>9, <2>1, <2>2
<1>11. ASSUME NEW i \in JobId, DirectExisting(i) PROVE DrivenJob(j)'
  <2>1. PICK d \in Duplicates(registry, i) : BeginRun(d, TRUE)
    BY <1>11 DEF DirectExisting
  <2>2. d \in JobId
    BY <2>1 DEF Duplicates, InState
  <2>3. PICK r \in Run : Begun(r, d, TRUE)
    BY <2>1, <2>2, BeginRunIs
  <2>4. QED
    BY <1>9, <1>11, <2>2, <2>3 DEF DirectExisting, queueVars
<1>12. ASSUME NEW i \in JobId, Cancel(i) PROVE DrivenJob(j)'
  <2>1. registry'[j].status = "running" => registry[j].status = "running"
    BY <1>12, CancelIs DEF Cancel, Cancels
  <2>2. \A q \in Run : runs'[q].pc = runs[q].pc /\ runs'[q].job = runs[q].job
    BY <1>12, <1>r DEF Cancel, RunState
  <2>3. QED
    BY <2>1, <2>2, DrivenKept DEF Drives
<1>13. ASSUME NEW i \in JobId, NEW s \in Stage, Resume(i, s) PROVE DrivenJob(j)'
  <2>1. registry'[j].status = "running" => registry[j].status = "running"
    BY <1>13, ResumeIs DEF Resume, Resumes
  <2>2. QED
    BY <1>13, <2>1, DrivenKept DEF Resume, orchVars, Drives
<1>14. CASE Crash
  BY <1>14 DEF Crash, ProcessGone
<1>15. CASE UNCHANGED vars
  BY <1>15, DrivenKept DEF vars, queueVars, orchVars, Drives
<1>16. ASSUME CallStep PROVE DrivenJob(j)'
  BY <1>6, <1>7, <1>8, <1>10, <1>11, <1>12, <1>13, <1>16, ClearIs, DeleteIs, CleanupIs
     DEF CallStep, ClearDeadLetter, Delete, Cleanup
<1>17. QED
  BY <1>1, <1>2, <1>4, <1>5, <1>14, <1>15, <1>16 DEF Next, LoopStep, Boot

(* Only a boot makes a process of none.                                     *)
LEMMA OnlyBootsRevive ==
  ASSUME EngineInv, [Next]_vars, ~up, up'
  PROVE  Boot
<1>1. CASE \E r \in Run : RunStep(r)
  <2>1. up' = up \/ ~up'
    BY <1>1, RunStepEnds DEF Stays, Quits, Dies, ProcessGone
  <2>2. QED
    BY <2>1
<1>2. CASE \/ \E r \in Run : WatcherTick(r)
           \/ ImmediateFires \/ \E i \in JobId : RetryTimerFires(i)
  BY <1>2 DEF WatcherTick, ImmediateFires, RetryTimerFires
<1>3. CASE CallStep \/ Crash
  BY <1>3 DEF Crash, CallStep, ClearDeadLetter, Post, Resubmit, DirectNew,
              DirectExisting, Cancel, Delete, Cleanup, Resume
<1>4. CASE UNCHANGED vars
  BY <1>4 DEF vars, orchVars
<1>5. QED
  BY <1>1, <1>2, <1>3, <1>4 DEF Next, LoopStep

(* Whatever is called and whenever the process is killed: a living process  *)
(* never leaves a running entry behind that would hold the single-video     *)
(* lock for good; the only ones without a pipeline are those a boot found.  *)
THEOREM OnlyBootsLeaveStrandedJobs == Spec => OnlyBootsStrand
<1>1. EngineInv /\ [Next]_vars =>
        [up /\ up' => \A i \in JobId :
           registry'[i].status = "running" /\ RunsOf(i)' = {} =>
             registry[i].status = "running" /\ RunsOf(i) = {}]_vars
  <2>1. \A i \in JobId : RunsOf(i)' # {} <=> \E r \in Run : Drives(r, i)'
    BY DEF RunsOf, LiveRuns, Drives
  <2>2. QED
    BY <2>1, DrivenStep, DrivenIs DEF DrivenJob
<1>2. QED
  BY <1>1, EngineInvariant, PTL DEF Spec, OnlyBootsStrand

LEMMA AllDrivenStep ==
  ASSUME "boot" \notin Calls, EngineInv, Driven, [Next]_vars
  PROVE  Driven'
<1> SUFFICES ASSUME NEW i \in JobId, up' PROVE DrivenJob(i)'
  BY DEF Driven
<1>1. up
  BY OnlyBootsRevive DEF Boot
<1>2. QED
  BY <1>1, DrivenStep DEF Driven

(* No way out of runOrchestration leaves a running entry behind: while the  *)
(* process is not started again, every running job is driven.               *)
THEOREM RunningStaysDriven ==
  ASSUME "boot" \notin Calls
  PROVE  Spec => []RunningIsDriven
<1>1. Init => Driven
  BY DEF Init, QueueInit, NoJob, Driven, DrivenJob
<1>2. EngineInv /\ Driven /\ [Next]_vars => Driven'
  BY AllDrivenStep
<1>3. Driven => RunningIsDriven
  BY DrivenIs
<1>4. QED
  BY <1>1, <1>2, <1>3, EngineInvariant, PTL DEF Spec

-----------------------------------------------------------------------------
(* Without the direct routes and resumptions a pipeline has its job to      *)
(* itself, and the job is running unless it was cancelled, and perhaps      *)
(* removed, in the meantime.                                                *)
Grounds ==
  {"running"} \cup (IF "cancel" \notin Calls THEN {}
                    ELSE IF {"delete", "cleanup"} \cap Calls = {} THEN {"cancelled"}
                    ELSE {"cancelled", "absent"})

Alone ==
  /\ \A r \in Run : runs[r].pc # "free" => registry[runs[r].job].status \in Grounds
  /\ \A q, r \in Run :
       runs[q].pc # "free" /\ runs[r].pc # "free" /\ runs[q].job = runs[r].job => q = r

LEMMA GroundsIs ==
  /\ "running" \in Grounds
  /\ "cancel" \in Calls => "cancelled" \in Grounds
  /\ "cancel" \in Calls /\ {"delete", "cleanup"} \cap Calls # {} => "absent" \in Grounds
  /\ Grounds \subseteq {"running", "cancelled", "absent"}
  /\ "cancelled" \in Grounds => "cancel" \in Calls
  /\ "absent" \in Grounds => "cancel" \in Calls /\ {"delete", "cleanup"} \cap Calls # {}
  BY DEF Grounds

(* Pipelines that were there, over jobs whose status stays a ground.        *)
LEMMA AloneKept ==
  ASSUME Alone,
         \A r \in Run : \/ runs'[r].pc = "free"
                        \/ /\ runs[r].pc # "free" /\ runs'[r].job = runs[r].job
                           /\ \/ registry'[runs[r].job].status = registry[runs[r].job].status
                              \/ registry'[runs[r].job].status \in Grounds
  PROVE  Alone'
<1>1. \A r \in Run : runs'[r].pc # "free" => runs[r].pc # "free" /\ runs'[r].job = runs[r].job
  OBVIOUS
<1>2. \A r \in Run : runs'[r].pc # "free" => registry'[runs'[r].job].status \in Grounds
  BY DEF Alone
<1>3. QED
  BY <1>1, <1>2 DEF Alone, Grounds

(* clearDeadLetterJobs removes failed jobs only.                            *)
LEMMA ClearSpares ==
  ASSUME EngineInv, ClearDeadLetterJobs
  PROVE  \A k \in JobId : registry[k].status # "failed" => registry'[k] = registry[k]
  BY DEF ClearDeadLetterJobs, MapOnly, Persist, DeadLetters, InState, Without

LEMMA AloneStep ==
  ASSUME {"direct", "resume"} \cap Calls = {}, EngineInv, Alone, [Next]_vars
  PROVE  Alone'
<1>r. /\ runs \in [Run -> RunState] /\ issued \subseteq JobId
      /\ \A r \in Run : runs[r].pc # "free" => runs[r].job \in JobId /\ runs[r].job \in issued
      /\ \A r \in Run : runs[r].pc # "free" =>
           registry[runs[r].job].status \in {"running", "cancelled", "absent"}
  BY OrchVars, LiveRun, GroundsIs DEF Alone
<1>1. ASSUME NEW r \in Run, RunStep(r) PROVE Alone'
  <2>1. CASE Stays(r)
    BY <1>r, <1>1, <2>1, AloneKept, RunStepEnds DEF Stays
  <2>2. CASE Quits(r)
    <3>1. \A q \in Run \ {r} : runs[q].pc # "free" => registry'[runs[q].job] = registry[runs[q].job]
      BY <1>r, <1>1, <2>2, RunStepEnds DEF Quits, Alone
    <3>2. QED
      BY <2>2, <3>1, AloneKept, FreeRunType DEF Quits
  <2>3. CASE Dies(r)
    BY <2>3, FreeRunType, AloneKept DEF Dies, ProcessGone
  <2>4. QED
    BY <1>1, <2>1, <2>2, <2>3, RunStepEnds
<1>2. ASSUME NEW r \in Run, WatcherTick(r) PROVE Alone'
  <2>1. /\ registry' = registry
        /\ \A q \in Run : runs'[q].pc = runs[q].pc /\ runs'[q].job = runs[q].job
    BY <1>2, <1>r DEF WatcherTick, queueVars, RunState
  <2>2. QED
    BY <2>1, AloneKept
<1>3. ASSUME NEW i \in JobId, NEW caught \in BOOLEAN, StartAndRun(i, caught)
      PROVE  Alone'
  <2>1. CASE CanStart(registry, i)
    <3>1. PICK r \in Run : Begun(r, i, caught)
      BY <1>3, <2>1, StartAndRunIs DEF Launches
    <3>2. registry' = Started(registry, i) /\ registry[i].status = "queued"
      BY <1>3, <2>1, StartAndRunIs DEF Launches, CanStart
    <3>3. registry'[i].status = "running" /\ \A k \in JobId \ {i} : registry'[k] = registry[k]
      BY <3>2, StartedIs, OrchVars
    <3>4. \A q \in Run : runs[q].pc # "free" => runs[q].job # i
      BY <1>r, <3>2
    <3>5. \A q \in Run : runs'[q].pc # "free" => registry'[runs'[q].job].status \in Grounds
      BY <1>r, <3>1, <3>3, <3>4, GroundsIs DEF Begun, Alone
    <3>6. \A p, q \in Run :
            runs'[p].pc # "free" /\ runs'[q].pc # "free" /\ runs'[p].job = runs'[q].job => p = q
      BY <3>1, <3>4 DEF Begun, Alone
    <3>7. QED
      BY <3>5, <3>6 DEF Alone, Grounds
  <2>2. CASE ~CanStart(registry, i)
    BY <1>3, <2>2, StartAndRunIs, AloneKept DEF StaysPut
  <2>3. QED
    BY <2>1, <2>2
<1>4. ASSUME ImmediateFires PROVE Alone'
  <2>1. Head(immediates) \in JobId
    BY <1>4, OrchVars DEF ImmediateFires
  <2>2. QED
    BY <1>3, <1>4, <2>1 DEF ImmediateFires
<1>5. ASSUME NEW i \in JobId, RetryTimerFires(i) PROVE Alone'
  BY <1>3, <1>5 DEF RetryTimerFires
<1>6. ASSUME Removes, {"delete", "cleanup"} \cap Calls # {}, UNCHANGED orchVars PROVE Alone'
  <2>1. \A r \in Run : runs[r].pc # "free" =>
          \/ registry'[runs[r].job].status = registry[runs[r].job].status
          \/ registry'[runs[r].job].status \in Grounds
    <3> SUFFICES ASSUME NEW r \in Run, runs[r].pc # "free",
                        registry'[runs[r].job] # registry[runs[r].job]
                 PROVE  registry'[runs[r].job].status \in Grounds
      OBVIOUS
    <3>1. /\ registry[runs[r].job].status \in Terminal
          /\ registry'[runs[r].job].status = "absent"
      BY <1>6, <1>r DEF Removes, NoJob
    <3>2. registry[runs[r].job].status = "cancelled"
      BY <1>r, <3>1 DEF Terminal
    <3>3. "cancel" \in Calls
      BY <3>2, GroundsIs DEF Alone
    <3>4. QED
      BY <1>6, <3>1, <3>3, GroundsIs
  <2>2. QED
    BY <1>6, <2>1, AloneKept DEF orchVars
<1>7. ASSUME NEW i \in JobId, Post(i) PROVE Alone'
  <2>1. i \notin issued /\ \A k \in JobId \ {i} : registry'[k] = registry[k]
    BY <1>7, EnqueueIs DEF Post, Enqueued
  <2>2. QED
    BY <1>7, <1>r, <2>1, AloneKept DEF Post
<1>8. ASSUME NEW i \in JobId, Resubmit(i) PROVE Alone'
  BY <1>8, AloneKept DEF Resubmit, queueVars
<1>9. ASSUME NEW i \in JobId, Cancel(i) PROVE Alone'
  <2>1. Cancels(i) /\ "cancel" \in Calls
    BY <1>9, CancelIs DEF Cancel
  <2>2. \A q \in Run : runs'[q].pc = runs[q].pc /\ runs'[q].job = runs[q].job
    BY <1>9, <1>r DEF Cancel, RunState
  <2>3. \A q \in Run : runs[q].pc # "free" =>
          \/ registry'[runs[q].job].status = registry[runs[q].job].status
          \/ registry'[runs[q].job].status \in Grounds
    BY <1>r, <2>1, GroundsIs DEF Cancels
  <2>4. QED
    BY <2>2, <2>3, AloneKept
<1>10. ASSUME ClearDeadLetter PROVE Alone'
  <2>1. \A r \in Run : runs[r].pc # "free" => registry'[runs[r].job] = registry[runs[r].job]
    BY <1>10, <1>r, ClearSpares DEF ClearDeadLetter
  <2>2. QED
    BY <1>10, <2>1, AloneKept DEF ClearDeadLetter, orchVars
<1>11. ASSUME NEW i \in JobId, Delete(i) \/ Cleanup(i) PROVE Alone'
  BY <1>6, <1>11, DeleteIs, CleanupIs DEF Delete, Cleanup
<1>12. CASE Crash
  BY <1>12, FreeRunType, AloneKept DEF Crash, ProcessGone
<1>13. CASE Boot
  BY <1>13, RestartIs, AloneKept DEF Boot
<1>14. CASE UNCHANGED vars
  BY <1>14, AloneKept DEF vars, queueVars, orchVars
<1>15. ASSUME CallStep PROVE Alone'
  BY <1>7, <1>8, <1>9, <1>10, <1>11, <1>15 DEF CallStep, DirectNew, DirectExisting, Resume
<1>16. QED
  BY <1>1, <1>2, <1>4, <1>5, <1>12, <1>13, <1>14, <1>15 DEF Next, LoopStep

LEMMA AloneInvariant ==
  ASSUME {"direct", "resume"} \cap Calls = {}
  PROVE  Spec => []Alone
<1>1. Init => Alone
  BY FreeRunType DEF Init, Alone
<1>2. EngineInv /\ Alone /\ [Next]_vars => Alone'
  BY AloneStep
<1>3. QED
  BY <1>1, <1>2, EngineInvariant, PTL DEF Spec

(* Also when jobs are cancelled under their pipelines, removed, and the     *)
(* process is killed and booted: the pipelines that do not yet know of a    *)
(* cancellation go on beside the next job's, and no other does.             *)
THEOREM ActivePipelinesTakeTurns ==
  ASSUME {"direct", "resume"} \cap Calls = {}
  PROVE  Spec => []OneActivePipeline
<1> DEFINE S == {r \in LiveRuns : registry[runs[r].job].status \in Active}
<1>1. EngineInv /\ Alone => OneActivePipeline
  <2> SUFFICES ASSUME EngineInv, Alone PROVE Cardinality(S) <= 1
    BY DEF OneActivePipeline
  <2>1. \A r \in S : registry[runs[r].job].status = "running" /\ runs[r].job \in JobId
    BY LiveRun, GroundsIs DEF Alone, LiveRuns, Active
  <2>2. \A q, r \in S : q = r
    BY <2>1, OrchVars DEF Alone, LiveRuns, SoundMap, OneRunning
  <2> HIDE DEF S
  <2>3. CASE S = {}
    BY <2>3, FS_EmptySet
  <2>4. CASE S # {}
    <3>1. PICK r : r \in S
      BY <2>4
    <3>2. S = {r}
      BY <2>2, <3>1
    <3>3. Cardinality({r}) = 1
      BY FS_Singleton
    <3>4. QED
      BY <3>2, <3>3
  <2>5. QED
    BY <2>3, <2>4
<1>2. Spec => []Alone
  BY AloneInvariant
<1>3. QED
  BY <1>1, <1>2, EngineInvariant, PTL

(* The documented "one video at a time" of the queue: it holds of the       *)
(* pipelines themselves when nothing cancels, resumes or bypasses startJob. *)
THEOREM PipelinesTakeTurns ==
  ASSUME {"direct", "resume", "cancel"} \cap Calls = {}
  PROVE  Spec => []OnePipelineAtATime
<1>1. EngineInv /\ Alone /\ OneActivePipeline => OnePipelineAtATime
  <2> SUFFICES ASSUME EngineInv, Alone, OneActivePipeline PROVE OnePipelineAtATime
    OBVIOUS
  <2>1. \A r \in LiveRuns : registry[runs[r].job].status \in Active
    BY LiveRun, GroundsIs DEF Alone, LiveRuns, Active
  <2>2. {r \in LiveRuns : registry[runs[r].job].status \in Active} = LiveRuns
    BY <2>1
  <2>3. QED
    BY <2>2 DEF OneActivePipeline, OnePipelineAtATime
<1>2. {"direct", "resume"} \cap Calls = {}
  OBVIOUS
<1>3. Spec => []Alone
  BY <1>2, AloneInvariant
<1>4. Spec => []OneActivePipeline
  BY <1>2, ActivePipelinesTakeTurns
<1>5. QED
  BY <1>1, <1>3, <1>4, EngineInvariant, PTL

(* No error of a pipeline goes unhandled, though the one that a retry timer *)
(* starts has no catch handler: nobody else may end its job, except by a    *)
(* cancellation whose entry stays.                                          *)
THEOREM NoPipelineKillsTheProcess ==
  ASSUME {"direct", "resume", "crash"} \cap Calls = {},
         "cancel" \in Calls => {"delete", "cleanup"} \cap Calls = {}
  PROVE  Spec => []NoUnhandledRejection
<1>1. EngineInv /\ Alone /\ up /\ [Next]_vars => up'
  <2> SUFFICES ASSUME EngineInv, Alone, up, [Next]_vars PROVE up'
    OBVIOUS
  <2>1. ASSUME NEW r \in Run, RunStep(r) PROVE up'
    <3>1. runs[r].pc # "free" /\ registry[runs[r].job].status \in {"running", "cancelled"}
      BY <2>1, RunStepEnds, GroundsIs DEF Alone
    <3>2. ~Dies(r)
      BY <3>1 DEF Dies, Active
    <3>3. QED
      BY <2>1, <3>2, RunStepEnds DEF Stays, Quits
  <2>2. CASE \/ \E r \in Run : WatcherTick(r)
             \/ ImmediateFires \/ \E i \in JobId : RetryTimerFires(i)
    BY <2>2 DEF WatcherTick, ImmediateFires, RetryTimerFires
  <2>3. CASE CallStep
    BY <2>3 DEF CallStep, ClearDeadLetter, Post, Resubmit, DirectNew, DirectExisting,
                Cancel, Delete, Cleanup, Resume, orchVars
  <2>4. CASE Crash \/ Boot \/ UNCHANGED vars
    BY <2>4 DEF Crash, Boot, vars, orchVars
  <2>5. QED
    BY <2>1, <2>2, <2>3, <2>4 DEF Next, LoopStep
<1>2. Init => up
  BY DEF Init
<1>3. {"direct", "resume"} \cap Calls = {}
  OBVIOUS
<1>4. Spec => []Alone
  BY <1>3, AloneInvariant
<1>5. Spec => []up
  BY <1>1, <1>2, <1>4, EngineInvariant, PTL DEF Spec
<1>6. QED
  BY <1>5, PTL DEF NoUnhandledRejection

-----------------------------------------------------------------------------
(* Without resumptions a cancelled job never becomes active again, and a    *)
(* pipeline marked as cancelled is one whose job is not active.             *)
Marked ==
  \A r \in Run : runs[r].cancelled =>
    runs[r].pc # "free" /\ registry[runs[r].job].status \notin Active

Halted(r) ==
  runs'[r].cancelled =>
    /\ runs'[r].pc # "free" /\ runs'[r].job = runs[r].job
    /\ registry'[runs[r].job].status \notin Active
    /\ runs[r].cancelled => runs'[r].stage = runs[r].stage

LEMMA MarkedStep ==
  ASSUME "resume" \notin Calls, EngineInv, Marked, [Next]_vars
  PROVE  \A r \in Run : Halted(r)
<1>r. runs \in [Run -> RunState] /\ registry \in [JobId -> Job]
  BY OrchVars
<1>0. ASSUME \A r \in Run : \/ ~runs'[r].cancelled
                            \/ /\ runs'[r] = runs[r]
                               /\ \/ registry'[runs[r].job] = registry[runs[r].job]
                                  \/ registry'[runs[r].job].status \notin Active
      PROVE  \A r \in Run : Halted(r)
  BY <1>0 DEF Marked, Halted
<1>1. ASSUME NEW r \in Run, RunStep(r) PROVE \A q \in Run : Halted(q)
  <2>1. CASE Stays(r)
    <3>1. \A q \in Run : runs[q].cancelled => /\ runs[q].pc # "free"
                                             /\ registry'[runs[q].job].status \notin Active
      BY <2>1, LiveRun DEF Stays, Marked
    <3>2. \A q \in Run \ {r} : Halted(q)
      BY <2>1, <3>1 DEF Stays, Halted
    <3>3. Halted(r)
      <4>1. runs'[r].pc # "free" /\ runs'[r].job = runs[r].job
        BY <2>1 DEF Stays
      <4>2. runs'[r].cancelled = runs[r].cancelled
        BY <2>1 DEF Stays
      <4>3. runs[r].cancelled => runs'[r].stage = runs[r].stage
        BY <2>1 DEF Stays, Marked
      <4>4. QED
        BY <3>1, <4>1, <4>2, <4>3 DEF Halted
    <3>4. QED
      BY <3>2, <3>3
  <2>2. CASE Quits(r)
    <3>1. ~runs'[r].cancelled
      BY <2>2 DEF Quits, FreeRun
    <3>2. \A q \in Run \ {r} : runs[q].cancelled =>
            registry'[runs[q].job] = registry[runs[q].job]
      BY <2>2, LiveRun DEF Quits, Marked
    <3>3. QED
      BY <1>0, <2>2, <3>1, <3>2 DEF Quits
  <2>3. CASE Dies(r)
    BY <2>3 DEF Dies, ProcessGone, FreeRun, Halted
  <2>4. QED
    BY <1>1, <2>1, <2>2, <2>3, RunStepEnds
<1>2. ASSUME NEW r \in Run, WatcherTick(r) PROVE \A q \in Run : Halted(q)
  <2>1. /\ registry' = registry
        /\ \A q \in Run : /\ runs'[q].pc = runs[q].pc /\ runs'[q].job = runs[q].job
                          /\ runs'[q].stage = runs[q].stage
                          /\ runs'[q].cancelled = runs[q].cancelled
    BY <1>2, <1>r DEF WatcherTick, queueVars, RunState
  <2>2. QED
    BY <2>1 DEF Marked, Halted
<1>3. ASSUME NEW i \in JobId, NEW caught \in BOOLEAN, StartAndRun(i, caught)
      PROVE  \A r \in Run : Halted(r)
  <2>1. CASE CanStart(registry, i)
    <3>1. PICK r \in Run : Begun(r, i, caught)
      BY <1>3, <2>1, StartAndRunIs DEF Launches
    <3>2. registry' = Started(registry, i)
      BY <1>3, <2>1, StartAndRunIs DEF Launches
    <3>3. \A k \in JobId \ {i} : registry'[k] = registry[k]
      BY <3>2, <1>r, StartedIs
    <3>4. registry[i].status \in Active
      BY <2>1 DEF CanStart, Active
    <3>5. \A q \in Run : runs[q].cancelled => registry'[runs[q].job] = registry[runs[q].job]
      BY <3>3, <3>4, LiveRun DEF Marked
    <3>6. QED
      BY <1>0, <3>1, <3>5 DEF Begun
  <2>2. CASE ~CanStart(registry, i)
    BY <1>0, <1>3, <2>2, StartAndRunIs DEF StaysPut
  <2>3. QED
    BY <2>1, <2>2
<1>4. ASSUME ImmediateFires PROVE \A r \in Run : Halted(r)
  <2>1. Head(immediates) \in JobId
    BY <1>4, OrchVars DEF ImmediateFires
  <2>2. QED
    BY <1>3, <1>4, <2>1 DEF ImmediateFires
<1>5. ASSUME NEW i \in JobId, RetryTimerFires(i) PROVE \A r \in Run : Halted(r)
  BY <1>3, <1>5 DEF RetryTimerFires
<1>6. ASSUME Removes, runs' = runs PROVE \A r \in Run : Halted(r)
  <2>1. \A k \in JobId : registry'[k] = registry[k] \/ registry'[k].status \notin Active
    BY <1>6 DEF Removes, NoJob, Active
  <2>2. \A r \in Run : runs[r].cancelled => runs[r].job \in JobId
    BY LiveRun DEF Marked
  <2>3. QED
    BY <1>0, <1>6, <2>1, <2>2
<1>7. ASSUME NEW i \in JobId, Enqueued(i),
             \A r \in Run : runs'[r] = runs[r] \/ ~runs'[r].cancelled
      PROVE  \A r \in Run : Halted(r)
  <2>1. \A r \in Run : runs[r].cancelled => runs[r].job \in JobId \ {i}
    BY <1>7, LiveRun DEF Marked, Enqueued
  <2>2. QED
    BY <1>0, <1>7, <2>1 DEF Enqueued
<1>8. ASSUME NEW i \in JobId, Post(i) PROVE \A r \in Run : Halted(r)
  BY <1>7, <1>8, EnqueueIs DEF Post
<1>9. ASSUME NEW i \in JobId, DirectNew(i) PROVE \A r \in Run : Halted(r)
  <2>1. PICK r \in Run : Begun(r, i, TRUE)
    BY <1>9, BeginRunIs DEF DirectNew
  <2>2. \A q \in Run : runs'[q] = runs[q] \/ ~runs'[q].cancelled
    BY <2>1 DEF Begun
  <2>3. QED
    BY <1>7, <1>9, <2>2, EnqueueIs DEF DirectNew
<1>10. ASSUME NEW i \in JobId, DirectExisting(i) PROVE \A r \in Run : Halted(r)
  <2>1. PICK j \in Duplicates(registry, i) : BeginRun(j, TRUE)
    BY <1>10 DEF DirectExisting
  <2>2. j \in JobId
    BY <2>1 DEF Duplicates, InState
  <2>3. PICK r \in Run : Begun(r, j, TRUE)
    BY <2>1, <2>2, BeginRunIs
  <2>4. \A q \in Run : runs'[q] = runs[q] \/ ~runs'[q].cancelled
    BY <2>3 DEF Begun
  <2>5. registry' = registry
    BY <1>10 DEF DirectExisting, queueVars
  <2>6. QED
    BY <1>0, <2>4, <2>5
<1>11. ASSUME NEW i \in JobId, Cancel(i) PROVE \A r \in Run : Halted(r)
  <2>1. Cancels(i)
    BY <1>11, CancelIs DEF Cancel
  <2>2. \A q \in Run : /\ runs'[q].pc = runs[q].pc /\ runs'[q].job = runs[q].job
                       /\ runs'[q].stage = runs[q].stage
                       /\ runs'[q].cancelled => runs[q].cancelled \/ q \in RunsOf(i)
    BY <1>11, <1>r DEF Cancel, RunState
  <2>3. \A q \in RunsOf(i) : runs[q].pc # "free" /\ runs[q].job = i
    BY DEF RunsOf, LiveRuns
  <2>4. registry'[i].status \notin Active /\ \A k \in JobId \ {i} : registry'[k] = registry[k]
    BY <2>1 DEF Cancels, Active
  <2>5. \A q \in Run : runs[q].cancelled => runs[q].job \in JobId \ {i}
    BY <2>1, LiveRun DEF Cancels, Marked
  <2>6. QED
    BY <2>2, <2>3, <2>4, <2>5 DEF Marked, Halted
<1>12. CASE Crash
  BY <1>12 DEF Crash, ProcessGone, FreeRun, Halted
<1>13. CASE Boot
  BY <1>0, <1>13, RestartIs DEF Boot
<1>14. ASSUME NEW i \in JobId, Resubmit(i) PROVE \A r \in Run : Halted(r)
  BY <1>0, <1>14 DEF Resubmit, queueVars
<1>15. CASE UNCHANGED vars
  BY <1>0, <1>15 DEF vars, queueVars, orchVars
<1>16. ASSUME CallStep PROVE \A r \in Run : Halted(r)
  <2>1. UNCHANGED orchVars => runs' = runs
    BY DEF orchVars
  <2>2. QED
    BY <1>6, <1>8, <1>9, <1>10, <1>11, <1>14, <1>16, <2>1, ClearIs, DeleteIs, CleanupIs
       DEF CallStep, ClearDeadLetter, Delete, Cleanup, Resume
<1>17. QED
  BY <1>1, <1>2, <1>4, <1>5, <1>12, <1>13, <1>15, <1>16 DEF Next, LoopStep

(* A pipeline whose job was cancelled enters no further stage: the check    *)
(* against the Map in recordStageProgress stops it even before the watcher  *)
(* has raised the abort signal.  A resumption would make the job active     *)
(* again under the old pipeline.                                            *)
THEOREM CancelledPipelinesStop ==
  ASSUME "resume" \notin Calls
  PROVE  Spec => CancelledRunStops
<1>1. Init => Marked
  BY DEF Init, FreeRun, Marked
<1>2. EngineInv /\ Marked /\ [Next]_vars => Marked'
  BY MarkedStep DEF Marked, Halted
<1>3. EngineInv /\ Marked /\ [Next]_vars =>
        \A r \in Run : runs[r].cancelled /\ runs'[r].cancelled => runs'[r].stage = runs[r].stage
  BY MarkedStep DEF Halted
<1>4. QED
  BY <1>1, <1>2, <1>3, EngineInvariant, PTL DEF Spec, CancelledRunStops

-----------------------------------------------------------------------------
(* While its job is running, a pipeline in stage s has recorded every stage *)
(* before s: nobody else touches the records of its job.                    *)
StagesBehind(r) ==
  LET job == registry[runs[r].job] IN
  job.status = "running" =>
    /\ runs[r].pc = "stage" => \A s \in Stage : s < runs[r].stage => s \in job.done
    /\ runs[r].pc = "virality" => job.done = Stage

Progress ==
  /\ \A i \in JobId : registry[i].status = "completed" => registry[i].done = Stage
  /\ \A r \in Run : runs[r].pc # "free" => StagesBehind(r)

(* A pipeline that has not moved, or has no stage behind it.                *)
Rests(r) ==
  \/ runs'[r].pc \in {"free", "pressure", "backoff"}
  \/ /\ runs'[r].pc = runs[r].pc /\ runs'[r].stage = runs[r].stage
     /\ runs'[r].job = runs[r].job
     /\ \/ registry'[runs[r].job] = registry[runs[r].job]
        \/ registry'[runs[r].job].status # "running"

LEMMA ProgressKept ==
  ASSUME Progress,
         \A r \in Run : Rests(r) \/ StagesBehind(r)',
         \A i \in JobId : \/ registry'[i] = registry[i]
                          \/ registry'[i].status # "completed"
                          \/ registry'[i].done = Stage
  PROVE  Progress'
<1>1. \A i \in JobId : registry'[i].status = "completed" => registry'[i].done = Stage
  BY DEF Progress
<1>2. ASSUME NEW r \in Run, runs'[r].pc # "free" PROVE StagesBehind(r)'
  <2>1. CASE runs'[r].pc \in {"pressure", "backoff"}
    BY <2>1 DEF StagesBehind
  <2>2. CASE /\ runs'[r].pc = runs[r].pc /\ runs'[r].stage = runs[r].stage
             /\ runs'[r].job = runs[r].job
             /\ \/ registry'[runs[r].job] = registry[runs[r].job]
                \/ registry'[runs[r].job].status # "running"
    BY <1>2, <2>2 DEF Progress, StagesBehind
  <2>3. QED
    BY <1>2, <2>1, <2>2 DEF Rests
<1>3. QED
  BY <1>1, <1>2 DEF Progress

(* A turn of a pipeline.                                                    *)
LEMMA ProgressRun ==
  ASSUME EngineInv, Alone, Progress, NEW r \in Run, RunStep(r)
  PROVE  Progress'
<1> DEFINE i == runs[r].job
<1>1. /\ runs[r].pc # "free" /\ i \in JobId /\ registry \in [JobId -> Job]
      /\ runs \in [Run -> RunState]
  BY RunStepEnds, OrchVars
<1>2. registry[i].status \in Active => registry[i].status = "running"
  BY <1>1, GroundsIs DEF Alone, Active
<1>3. ASSUME \A q \in Run \ {r} : runs'[q] = runs[q],
             \A k \in JobId \ {i} : registry'[k] = registry[k]
      PROVE  \A q \in Run \ {r} : Rests(q)
  <2>1. \A q \in Run \ {r} : runs[q].pc = "free" \/ runs[q].job \in JobId \ {i}
    BY <1>1, LiveRun DEF Alone
  <2>2. QED
    BY <1>3, <2>1 DEF Rests
<1>4. CASE PressureHigh(r)
  <2>1. registry' = registry
    BY <1>4 DEF PressureHigh, queueVars
  <2>2. runs'[r].pc = "backoff" /\ \A q \in Run \ {r} : runs'[q] = runs[q]
    BY <1>1, <1>4 DEF PressureHigh, RunState
  <2>3. QED
    BY <2>1, <2>2, ProgressKept DEF Rests
<1>5. ASSUME NEW p \in {"stage", "virality"}, NEW s, Goes(r, p, s)
      PROVE  /\ \A q \in Run \ {r} : runs'[q] = runs[q]
             /\ runs'[r].pc = p /\ runs'[r].job = i /\ runs'[r].stage = s
  BY <1>1, <1>5 DEF Goes, RunState
<1>6. CASE Enters(r) /\ runs[r].pc \in {"pressure", "backoff"}
  <2>1. SetMap(StageBegun(registry, i, 1)) /\ Goes(r, "stage", 1)
    BY <1>6 DEF Enters
  <2>2. registry' = StageBegun(registry, i, 1)
    BY <2>1, SetMapKeeps
  <2>3. /\ \A k \in JobId \ {i} : registry'[k] = registry[k]
        /\ registry'[i].status = registry[i].status
    BY <1>1, <2>2, StageBegunIs, StageFacts
  <2>4. registry'[i].status # "completed"
    BY <1>6, <2>3 DEF Enters, Active
  <2>5. \A t \in Stage : ~ t < 1
    BY QueueAssumption DEF Stage
  <2>6. StagesBehind(r)'
    BY <1>5, <2>1, <2>5 DEF StagesBehind
  <2>7. QED
    BY <1>3, <1>5, <2>1, <2>3, <2>4, <2>6, ProgressKept
<1>7. CASE Enters(r) /\ runs[r].pc = "stage"
  <2> DEFINE s == runs[r].stage
             t == runs[r].stage + 1
             reg == StageEnded(registry, i, s)
  <2>1. /\ SetMap(StageBegun(reg, i, t)) /\ Goes(r, "stage", t)
        /\ s \in Stage /\ t \in Stage /\ \A u \in Stage : u < t => u < s \/ u = s
    <3>1. /\ SetMap(StageBegun(reg, i, t)) /\ Goes(r, "stage", t)
          /\ s \in Stage /\ t \in Stage
      BY <1>7, StageFacts DEF Enters, EngineInv, SlotSound
    <3>2. \A u \in Stage : u < t => u < s \/ u = s
      BY <3>1, StageFacts
    <3>3. QED
      BY <3>1, <3>2
  <2>t. \A u \in Stage : u < t => u # t
    BY <2>1, StageFacts
  <2>2. registry[i].status = "running" /\ \A u \in Stage : u < s => u \in registry[i].done
    BY <1>1, <1>2, <1>7 DEF Enters, Progress, StagesBehind
  <2> HIDE DEF s, t
  <2>3. /\ reg \in [JobId -> Job] /\ \A k \in JobId \ {i} : reg[k] = registry[k]
        /\ reg[i].status = registry[i].status /\ reg[i].done = registry[i].done \cup {s}
    BY <1>1, <2>1, StageEndedIs
  <2> HIDE DEF reg
  <2>4. registry' = StageBegun(reg, i, t) /\ i \in JobId /\ t \in Stage
    BY <1>1, <2>1, SetMapKeeps
  <2>5. /\ \A k \in JobId \ {i} : registry'[k] = reg[k]
        /\ registry'[i].status = reg[i].status
        /\ \A u \in reg[i].done : u # t => u \in registry'[i].done
    <3>1. \A k \in JobId \ {i} : registry'[k] = reg[k]
      BY <2>3, <2>4, StageBegunIs
    <3>2. registry'[i].status = reg[i].status
      BY <2>3, <2>4, StageBegunIs
    <3>3. \A u \in reg[i].done : u # t => u \in registry'[i].done
      BY <2>3, <2>4, StageBegunIs
    <3>4. QED
      BY <3>1, <3>2, <3>3
  <2>6. \A u \in Stage : u < t => u \in registry'[i].done
    BY <2>1, <2>t, <2>2, <2>3, <2>5
  <2>7. StagesBehind(r)'
    BY <1>5, <2>1, <2>6 DEF StagesBehind
  <2>8. \A k \in JobId : registry'[k] = registry[k] \/ registry'[k].status # "completed"
    BY <2>2, <2>3, <2>5
  <2>9. QED
    BY <1>3, <1>5, <2>1, <2>3, <2>5, <2>7, <2>8, ProgressKept
<1>8. CASE LastStageEnds(r)
  <2> DEFINE s == runs[r].stage
  <2>1. SetMap(StageEnded(registry, i, s)) /\ Goes(r, "virality", s) /\ s \in Stage
    BY <1>8 DEF LastStageEnds, EngineInv, SlotSound
  <2>2. registry[i].status = "running" /\ \A u \in Stage : u < s => u \in registry[i].done
    BY <1>1, <1>2, <1>8 DEF LastStageEnds, Progress, StagesBehind
  <2>3. registry' = StageEnded(registry, i, s)
    BY <2>1, SetMapKeeps
  <2>4. /\ registry' \in [JobId -> Job] /\ \A k \in JobId \ {i} : registry'[k] = registry[k]
        /\ registry'[i].status = registry[i].status
        /\ registry'[i].done = registry[i].done \cup {s}
    BY <1>1, <2>1, <2>3, StageEndedIs
  <2>5. \A u \in Stage : u < s \/ u = s
    BY <1>8, QueueAssumption DEF LastStageEnds, Stage
  <2>6. registry'[i].done \subseteq Stage
    BY <1>1, <2>4 DEF Job
  <2>7. registry'[i].done = Stage
    BY <2>2, <2>4, <2>5, <2>6
  <2>8. StagesBehind(r)'
    BY <1>5, <2>1, <2>7 DEF StagesBehind
  <2>9. QED
    BY <1>3, <1>5, <2>1, <2>2, <2>4, <2>8, ProgressKept
<1>9. CASE Quits(r) /\ Completes(r)
  <2>1. registry[i].done = Stage
    BY <1>1, <1>2, <1>9 DEF Completes, Progress, StagesBehind
  <2>2. registry' = Completed(registry, i)
    BY <1>9, SetMapKeeps DEF Completes
  <2>3. registry'[i].done = Stage
    BY <1>1, <2>1, <2>2, CompletedIs
  <2>4. /\ \A k \in JobId \ {i} : registry'[k] = registry[k]
        /\ \A q \in Run \ {r} : runs'[q] = runs[q]
        /\ runs'[r].pc = "free"
    BY <1>9, FreeRunType DEF Quits
  <2>5. QED
    BY <1>3, <2>3, <2>4, ProgressKept DEF Rests
<1>10. CASE Quits(r) /\ Settles(r)
  <2>1. /\ \A k \in JobId \ {i} : registry'[k] = registry[k]
        /\ \A q \in Run \ {r} : runs'[q] = runs[q]
        /\ runs'[r].pc = "free"
    BY <1>10, FreeRunType DEF Quits
  <2>2. registry'[i] = registry[i] \/ registry'[i].status # "completed"
    BY <1>10 DEF Settles, Retries, GivesUp, Leaves, Dies
  <2>3. QED
    BY <1>3, <2>1, <2>2, ProgressKept DEF Rests
<1>11. CASE Dies(r)
  BY <1>11, FreeRunType, ProgressKept DEF Dies, ProcessGone, Rests
<1>12. QED
  BY <1>4, <1>6, <1>7, <1>8, <1>9, <1>10, <1>11, RunStepEnds DEF Enters

LEMMA ProgressStep ==
  ASSUME {"direct", "resume"} \cap Calls = {}, EngineInv, Alone, Progress, [Next]_vars
  PROVE  Progress'
<1>r. runs \in [Run -> RunState] /\ registry \in [JobId -> Job]
  BY OrchVars
<1>2. ASSUME NEW r \in Run, WatcherTick(r) PROVE Progress'
  <2>1. /\ registry' = registry
        /\ \A q \in Run : /\ runs'[q].pc = runs[q].pc /\ runs'[q].job = runs[q].job
                          /\ runs'[q].stage = runs[q].stage
    BY <1>2, <1>r DEF WatcherTick, queueVars, RunState
  <2>2. QED
    BY <2>1, ProgressKept DEF Rests
<1>3. ASSUME NEW i \in JobId, NEW caught \in BOOLEAN, StartAndRun(i, caught)
      PROVE  Progress'
  <2>1. CASE CanStart(registry, i)
    <3>1. PICK r \in Run : Begun(r, i, caught)
      BY <1>3, <2>1, StartAndRunIs DEF Launches
    <3>2. registry' = Started(registry, i)
      BY <1>3, <2>1, StartAndRunIs DEF Launches
    <3>3. registry'[i].status = "running" /\ \A k \in JobId \ {i} : registry'[k] = registry[k]
      BY <3>2, <1>r, StartedIs
    <3>4. registry[i].status \notin Grounds
      BY <2>1, GroundsIs DEF CanStart
    <3>5. \A q \in Run : runs[q].pc = "free" \/ runs[q].job \in JobId \ {i}
      BY <3>4, LiveRun DEF Alone
    <3>6. \A q \in Run : Rests(q)
      BY <3>1, <3>3, <3>5 DEF Begun, Rests
    <3>7. QED
      BY <3>3, <3>6, ProgressKept
  <2>2. CASE ~CanStart(registry, i)
    BY <1>3, <2>2, StartAndRunIs, ProgressKept DEF StaysPut, Rests
  <2>3. QED
    BY <2>1, <2>2
<1>4. ASSUME ImmediateFires PROVE Progress'
  <2>1. Head(immediates) \in JobId
    BY <1>4, OrchVars DEF ImmediateFires
  <2>2. QED
    BY <1>3, <1>4, <2>1 DEF ImmediateFires
<1>5. ASSUME NEW i \in JobId, RetryTimerFires(i) PROVE Progress'
  BY <1>3, <1>5 DEF RetryTimerFires
<1>6. ASSUME Removes, UNCHANGED orchVars PROVE Progress'
  <2>1. \A k \in JobId : registry'[k] = registry[k] \/ registry'[k].status = "absent"
    BY <1>6 DEF Removes, NoJob
  <2>2. \A r \in Run : runs[r].pc = "free" \/ runs[r].job \in JobId
    BY LiveRun
  <2>3. \A r \in Run : Rests(r)
    BY <1>6, <2>1, <2>2 DEF Rests, orchVars
  <2>4. QED
    BY <2>1, <2>3, ProgressKept
<1>7. ASSUME NEW i \in JobId, Post(i) PROVE Progress'
  <2>1. Enqueued(i) /\ runs' = runs
    BY <1>7, EnqueueIs DEF Post
  <2>2. \A r \in Run : runs[r].pc = "free" \/ runs[r].job \in JobId \ {i}
    BY <2>1, LiveRun DEF Enqueued
  <2>3. \A r \in Run : Rests(r)
    BY <2>1, <2>2 DEF Rests, Enqueued
  <2>4. QED
    BY <2>1, <2>3, ProgressKept DEF Enqueued
<1>8. ASSUME NEW i \in JobId, Resubmit(i) PROVE Progress'
  BY <1>8, ProgressKept DEF Resubmit, queueVars, Rests
<1>9. ASSUME NEW i \in JobId, Cancel(i) PROVE Progress'
  <2>1. Cancels(i)
    BY <1>9, CancelIs DEF Cancel
  <2>2. \A q \in Run : /\ runs'[q].pc = runs[q].pc /\ runs'[q].job = runs[q].job
                       /\ runs'[q].stage = runs[q].stage
    BY <1>9, <1>r DEF Cancel, RunState
  <2>3. \A k \in JobId : registry'[k] = registry[k] \/ registry'[k].status = "cancelled"
    BY <2>1 DEF Cancels
  <2>4. \A r \in Run : runs[r].pc = "free" \/ runs[r].job \in JobId
    BY LiveRun
  <2>5. \A r \in Run : Rests(r)
    BY <2>2, <2>3, <2>4 DEF Rests
  <2>6. QED
    BY <2>3, <2>5, ProgressKept
<1>10. CASE Crash
  BY <1>10, FreeRunType, ProgressKept DEF Crash, ProcessGone, queueVars, Rests
<1>11. CASE Boot
  BY <1>11, RestartIs, ProgressKept DEF Boot, Rests
<1>12. CASE UNCHANGED vars
  BY <1>12, ProgressKept DEF vars, queueVars, orchVars, Rests
<1>13. ASSUME CallStep PROVE Progress'
  BY <1>6, <1>7, <1>8, <1>9, <1>13, ClearIs, DeleteIs, CleanupIs
     DEF CallStep, ClearDeadLetter, Delete, Cleanup, DirectNew, DirectExisting, Resume
<1>14. QED
  BY <1>2, <1>4, <1>5, <1>10, <1>11, <1>12, <1>13, ProgressRun DEF Next, LoopStep

(* A completed job has been through every stage since its records were last *)
(* reset, in one pipeline: nobody else records progress of its job.         *)
THEOREM CompletedJobsAreComplete ==
  ASSUME {"direct", "resume"} \cap Calls = {}
  PROVE  Spec => []CompletedIsComplete
<1>1. Init => Progress
  BY FreeRunType DEF Init, QueueInit, NoJob, Progress
<1>2. EngineInv /\ Alone /\ Progress /\ [Next]_vars => Progress'
  BY ProgressStep
<1>3. Spec => []Alone
  BY AloneInvariant
<1>4. Progress => CompletedIsComplete
  BY DEF Progress, CompletedIsComplete
<1>5. QED
  BY <1>1, <1>2, <1>3, <1>4, EngineInvariant, PTL DEF Spec

-----------------------------------------------------------------------------
(* A boot after a crash finds every job and every record of progress: each  *)
(* step writes the snapshot before it ends.                                 *)
THEOREM BootsRestoreTheRegistry == Spec => BootRestoresRegistry
<1>1. ASSUME EngineInv, [Next]_vars, ~up, up' PROVE registry' = registry
  BY <1>1, OnlyBootsRevive, RestartIs DEF Boot
<1>2. QED
  BY <1>1, EngineInvariant, PTL DEF Spec, BootRestoresRegistry

-----------------------------------------------------------------------------
(* nextQueuedJob finds a job when one is queued and none is running.        *)
LEMMA QueueHasNext ==
  ASSUME NEW reg \in [JobId -> Job], NEW i \in JobId, reg[i].status = "queued",
         \A k \in JobId : reg[k].status # "running"
  PROVE  NextJobs(reg) # {}
<1> DEFINE R == OpToRel(<, Nat)
           S == InState(reg, {"queued"})
           T == {reg[k].createdAt : k \in S}
<1>1. S \subseteq JobId /\ i \in S /\ \A k \in S : reg[k].createdAt \in Nat
  BY DEF InState, Job
<1>2. T \subseteq Nat /\ T # {}
  BY <1>1
<1>3. IsWellFoundedOn(R, Nat)
  BY NatLessThanWellFounded
<1> HIDE DEF R, T
<1>4. PICK least \in T : \A y \in T : ~ (<<y, least>> \in R)
  BY <1>2, <1>3, WFMin
<1>5. \A x, y \in Nat : <<x, y>> \in R <=> x < y
  BY DEF R, OpToRel
<1>6. PICK k \in S : least = reg[k].createdAt
  BY <1>4 DEF T
<1>7. \A j \in S : reg[k].createdAt <= reg[j].createdAt
  <2> SUFFICES ASSUME NEW j \in S PROVE reg[k].createdAt <= reg[j].createdAt
    OBVIOUS
  <2>1. reg[j].createdAt \in T /\ reg[j].createdAt \in Nat /\ least \in Nat
    BY <1>1, <1>2, <1>4 DEF T
  <2>2. ~ reg[j].createdAt < least
    BY <1>4, <1>5, <2>1
  <2>3. QED
    BY <1>6, <2>1, <2>2
<1>8. InState(reg, {"running"}) = {}
  BY DEF InState
<1>9. k \in NextJobs(reg)
  BY <1>6, <1>7, <1>8 DEF NextJobs
<1>10. QED
  BY <1>9

(* What will look at the queue again: a pipeline, a callback for a job that *)
(* is still queued, or such a job's retry timer.                            *)
Awaited ==
  \/ \E r \in Run : runs[r].pc # "free"
  \/ \E n \in 1..Len(immediates) : registry[immediates[n]].status = "queued"
  \/ \E k \in JobId : timers[k] > 0 /\ registry[k].status = "queued"

Pending == up /\ (\E i \in JobId : registry[i].status = "queued") => Awaited

(* A queued job waits for such a look at the queue, or for a running job,   *)
(* whose pipeline will look at it when it ends.                             *)
Blocked == \E k \in JobId : registry[k].status = "running"

Waits(i) == registry[i].status = "queued" => Awaited \/ Blocked

(* A step that leaves pipelines, callbacks, timers and jobs alone.          *)
LEMMA WaitsKept ==
  ASSUME EngineInv, NEW i \in JobId, Waits(i),
         \A r \in Run : runs'[r].pc = runs[r].pc,
         UNCHANGED <<immediates, timers>>,
         \A k \in JobId : \A s \in {"queued", "running"} :
           registry'[k].status = s <=> registry[k].status = s
  PROVE  Waits(i)'
<1>1. \A n \in 1..Len(immediates) : immediates[n] \in JobId
  BY OrchVars
<1>2. (Awaited => Awaited') /\ (Blocked => Blocked')
  BY <1>1 DEF Awaited, Blocked
<1>3. QED
  BY <1>2 DEF Waits

LEMMA WaitsStep ==
  ASSUME {"cancel", "resume"} \cap Calls = {},
         EngineInv, [Next]_vars, up, up', NEW i \in JobId, Waits(i)
  PROVE  Waits(i)' \/ (UseBullMQ /\ Post(i))
<1>r. /\ runs \in [Run -> RunState] /\ registry \in [JobId -> Job]
      /\ immediates \in Seq(JobId) /\ timers \in [JobId -> Nat]
  BY OrchVars
<1>0. ASSUME NEW r \in Run, runs'[r].pc # "free" PROVE Waits(i)'
  BY <1>0 DEF Waits, Awaited
<1>a. ASSUME NEW k \in JobId, immediates' = Append(immediates, k),
             registry'[k].status = "queued"
      PROVE  Waits(i)'
  <2>1. Len(immediates') = Len(immediates) + 1 /\ immediates'[Len(immediates')] = k
    BY <1>r, <1>a
  <2>2. Len(immediates') \in 1..Len(immediates')
    BY <1>r, <2>1
  <2>3. QED
    BY <1>a, <2>1, <2>2 DEF Waits, Awaited
<1>1. ASSUME NEW r \in Run, RunStep(r) PROVE Waits(i)'
  <2>1. CASE Stays(r)
    BY <1>0, <2>1 DEF Stays
  <2>2. CASE Quits(r) /\ Retries(r)
    <3>1. runs[r].job \in JobId /\ timers[runs[r].job] \in Nat
      BY <1>1, <1>r, RunStepEnds
    <3>2. timers'[runs[r].job] > 0 /\ registry'[runs[r].job].status = "queued"
      BY <1>r, <2>2, <3>1 DEF Retries
    <3>3. QED
      BY <3>1, <3>2 DEF Waits, Awaited
  <2>3. CASE Quits(r) /\ immediates' = ScheduleNext(registry')
    <3>1. CASE NextJobs(registry') = {}
      <4>1. registry' \in [JobId -> Job]
        BY EngineStep, OrchVars DEF EngineInv, OrchTypeOK, QueueTypeOK
      <4>2. QED
        BY <3>1, <4>1, QueueHasNext DEF Waits, Blocked
    <3>2. CASE NextJobs(registry') # {}
      <4>1. PICK k \in NextJobs(registry') : immediates' = Append(immediates, k)
        BY <1>r, <2>3, <3>2, ScheduleNextIs
      <4>2. k \in JobId /\ registry'[k].status = "queued"
        BY <4>1 DEF NextJobs, InState
      <4>3. QED
        BY <1>a, <4>1, <4>2
    <3>3. QED
      BY <3>1, <3>2
  <2>4. CASE Dies(r)
    BY <2>4 DEF Dies, ProcessGone
  <2>5. QED
    BY <1>1, <2>1, <2>2, <2>3, <2>4, RunStepEnds DEF Quits
<1>2. ASSUME NEW r \in Run, WatcherTick(r) PROVE Waits(i)'
  <2>1. /\ \A q \in Run : runs'[q].pc = runs[q].pc
        /\ UNCHANGED <<registry, immediates, timers>>
    BY <1>2, <1>r DEF WatcherTick, queueVars, RunState
  <2>2. QED
    BY <2>1, WaitsKept
<1>3. ASSUME NEW k \in JobId, NEW caught \in BOOLEAN, StartAndRun(k, caught),
             CanStart(registry, k)
      PROVE  Waits(i)'
  <2>1. PICK r \in Run : Begun(r, k, caught)
    BY <1>3, StartAndRunIs DEF Launches
  <2>2. QED
    BY <1>0, <2>1 DEF Begun
<1>4. ASSUME NEW k \in JobId, NEW caught \in BOOLEAN, StartAndRun(k, caught),
             ~CanStart(registry, k), registry[k].status = "queued"
      PROVE  Waits(i)'
  <2>1. registry' = registry
    BY <1>4, StartAndRunIs DEF StaysPut
  <2>2. Blocked
    BY <1>4 DEF CanStart, InState, Blocked
  <2>3. QED
    BY <2>1, <2>2 DEF Waits, Blocked
<1>5. ASSUME ImmediateFires PROVE Waits(i)'
  <2> DEFINE h == Head(immediates)
  <2>1. /\ h \in JobId /\ h = immediates[1] /\ StartAndRun(h, TRUE)
        /\ immediates' = Tail(immediates) /\ timers' = timers
    <3>1. immediates # <<>> /\ Head(immediates) \in JobId
      BY <1>5, <1>r DEF ImmediateFires
    <3>2. Head(immediates) = immediates[1]
      BY <1>r, <3>1
    <3>3. QED
      BY <1>5, <3>1, <3>2 DEF ImmediateFires
  <2>2. CASE ~CanStart(registry, h) /\ registry[h].status # "queued"
    <3>1. UNCHANGED <<registry, runs>>
      BY <2>1, <2>2, StartAndRunIs DEF StaysPut
    <3>2. ASSUME NEW n \in 1..Len(immediates), registry[immediates[n]].status = "queued"
          PROVE  n - 1 \in 1..Len(immediates') /\ immediates'[n - 1] = immediates[n]
      <4>1. n # 1
        BY <2>1, <2>2, <3>2
      <4>2. QED
        BY <1>r, <1>5, <2>1, <4>1 DEF ImmediateFires
    <3>3. Awaited => Awaited'
      BY <2>1, <3>1, <3>2 DEF Awaited
    <3>4. QED
      BY <3>1, <3>3 DEF Waits, Blocked
  <2>3. QED
    BY <1>3, <1>4, <2>1, <2>2
<1>6. ASSUME NEW k \in JobId, RetryTimerFires(k) PROVE Waits(i)'
  <2>1. /\ StartAndRun(k, FALSE) /\ immediates' = immediates
        /\ timers' = [timers EXCEPT ![k] = @ - 1]
    BY <1>6 DEF RetryTimerFires
  <2>2. CASE ~CanStart(registry, k) /\ registry[k].status # "queued"
    <3>1. UNCHANGED <<registry, runs>>
      BY <2>1, <2>2, StartAndRunIs DEF StaysPut
    <3>2. \A j \in JobId : registry[j].status = "queued" => timers'[j] = timers[j]
      BY <1>r, <2>1, <2>2
    <3>3. Awaited => Awaited'
      BY <2>1, <3>1, <3>2 DEF Awaited
    <3>4. QED
      BY <3>1, <3>3 DEF Waits, Blocked
  <2>3. QED
    BY <1>3, <1>4, <2>1, <2>2
<1>7. ASSUME Removes, UNCHANGED orchVars PROVE Waits(i)'
  <2>1. \A k \in JobId : \A s \in {"queued", "running"} :
          registry'[k].status = s <=> registry[k].status = s
    BY <1>7 DEF Removes, NoJob, Terminal
  <2>2. QED
    BY <1>7, <2>1, WaitsKept DEF orchVars
<1>8. ASSUME NEW k \in JobId, Post(k) PROVE Waits(i)' \/ (UseBullMQ /\ Post(i))
  <2>1. Enqueued(k)
    BY <1>8, EnqueueIs DEF Post
  <2>2. CASE ~UseBullMQ
    BY <1>8, <1>a, <2>1, <2>2 DEF Post, Enqueued
  <2>3. CASE UseBullMQ /\ i # k
    <3>1. /\ UNCHANGED <<runs, immediates, timers>> /\ registry'[i] = registry[i]
          /\ registry[k].status = "absent" /\ registry'[k].status = "queued"
          /\ \A j \in JobId \ {k} : registry'[j] = registry[j]
      BY <1>8, <2>1, <2>3 DEF Post, Enqueued
    <3>2. \A n \in 1..Len(immediates) : immediates[n] \in JobId
      BY <1>r
    <3>3. (Awaited => Awaited') /\ (Blocked => Blocked')
      BY <3>1, <3>2 DEF Awaited, Blocked
    <3>4. QED
      BY <3>1, <3>3 DEF Waits
  <2>4. QED
    BY <1>8, <2>2, <2>3
<1>9. ASSUME NEW k \in JobId, Resubmit(k) PROVE Waits(i)'
  <2>1. PICK j \in Duplicates(registry, k) : immediates' = Append(immediates, j)
    BY <1>9 DEF Resubmit
  <2>2. j \in JobId /\ UNCHANGED <<registry, runs, timers>>
    BY <1>9, <2>1 DEF Resubmit, queueVars, Duplicates, InState
  <2>3. \A n \in 1..Len(immediates) :
          n \in 1..Len(immediates') /\ immediates'[n] = immediates[n]
    BY <1>r, <2>1, <2>2
  <2>4. Awaited => Awaited'
    BY <2>2, <2>3 DEF Awaited
  <2>5. QED
    BY <2>2, <2>4 DEF Waits, Blocked
<1>10. ASSUME NEW k \in JobId, DirectNew(k) PROVE Waits(i)'
  <2>1. PICK r \in Run : Begun(r, k, TRUE)
    BY <1>10, BeginRunIs DEF DirectNew
  <2>2. QED
    BY <1>0, <2>1 DEF Begun
<1>11. ASSUME NEW k \in JobId, DirectExisting(k) PROVE Waits(i)'
  <2>1. PICK j \in Duplicates(registry, k) : BeginRun(j, TRUE)
    BY <1>11 DEF DirectExisting
  <2>2. j \in JobId
    BY <2>1 DEF Duplicates, InState
  <2>3. PICK r \in Run : Begun(r, j, TRUE)
    BY <2>1, <2>2, BeginRunIs
  <2>4. QED
    BY <1>0, <2>3 DEF Begun
<1>12. CASE Crash
  BY <1>12 DEF Crash, ProcessGone
<1>13. CASE UNCHANGED vars
  BY <1>13, WaitsKept DEF vars, queueVars, orchVars
<1>14. ASSUME CallStep PROVE Waits(i)' \/ (UseBullMQ /\ Post(i))
  BY <1>7, <1>8, <1>9, <1>10, <1>11, <1>14, ClearIs, DeleteIs, CleanupIs
     DEF CallStep, ClearDeadLetter, Delete, Cleanup, Cancel, Resume
<1>15. QED
  BY <1>1, <1>2, <1>5, <1>6, <1>12, <1>13, <1>14 DEF Next, LoopStep, Boot

LEMMA PendingStep ==
  ASSUME {"cancel", "resume", "boot"} \cap Calls = {}, ~UseBullMQ,
         EngineInv, Driven', Pending, [Next]_vars
  PROVE  Pending'
<1> SUFFICES ASSUME up', NEW i \in JobId, registry'[i].status = "queued"
             PROVE  Awaited'
  BY DEF Pending
<1>1. up /\ Waits(i)
  BY OnlyBootsRevive DEF Boot, Pending, Waits
<1>2. Awaited' \/ Blocked'
  BY <1>1, WaitsStep DEF Waits
<1>3. QED
  BY <1>2 DEF Awaited, Blocked, Driven, DrivenJob, Drives

(* No wake-up of the in-memory queue is lost: something that will look at   *)
(* it again is always due while a job waits.  A cancellation of the job     *)
(* whose timer the others wait for, a resumption and a boot would break it. *)
THEOREM NoWakeUpIsLost ==
  ASSUME {"cancel", "resume", "boot"} \cap Calls = {}, ~UseBullMQ
  PROVE  Spec => []DispatchPending
<1>1. Init => Driven /\ Pending
  BY DEF Init, QueueInit, NoJob, Driven, DrivenJob, Pending
<1>2. EngineInv /\ Driven /\ [Next]_vars => Driven'
  BY AllDrivenStep
<1>3. EngineInv /\ Driven' /\ Pending /\ [Next]_vars => Pending'
  BY PendingStep
<1>4. EngineInv /\ Pending => DispatchPending
  <2>1. EngineInv /\ (\E n \in 1..Len(immediates) : registry[immediates[n]].status = "queued")
          => immediates # <<>>
    <3>1. immediates = <<>> => 1..Len(immediates) = {}
      OBVIOUS
    <3>2. QED
      BY <3>1
  <2>2. QED
    BY <2>1 DEF Pending, Awaited, DispatchPending, LiveRuns
<1>5. QED
  BY <1>1, <1>2, <1>3, <1>4, EngineInvariant, PTL DEF Spec

-----------------------------------------------------------------------------
(* The engine implements the life cycle of a job: a turn of a pipeline that *)
(* ends one stage and begins the next changes no status, and one that       *)
(* settles moves its own job only.                                          *)
LEMMA SameStatuses ==
  ASSUME \A k \in JobId : registry'[k].status = registry[k].status
  PROVE  LifeStep
  BY DEF LifeStep, Statuses

LEMMA OneStatus ==
  ASSUME NEW i \in JobId, NEW to, registry'[i].status = to,
         \A k \in JobId \ {i} : registry'[k] = registry[k]
  PROVE  Statuses(registry') = [Statuses(registry) EXCEPT ![i] = to]
  BY DEF Statuses

LEMMA RemovesIsLifeStep ==
  ASSUME registry' \in [JobId -> Job], registry \in [JobId -> Job], Removes
  PROVE  LifeStep
<1> DEFINE S == {k \in JobId : registry'[k] # registry[k]}
<1>1. registry' = [k \in JobId |-> IF k \in S THEN NoJob ELSE registry[k]]
  BY DEF Removes
<1>2. registry' = Without(registry, S)
  BY <1>1 DEF Without
<1>3. QED
  BY <1>2, IsLifeRemove

LEMMA RunStepIsLifeStep ==
  ASSUME EngineInv, NEW r \in Run, RunStep(r)
  PROVE  LifeStep
<1> DEFINE i == runs[r].job
<1>1. i \in JobId /\ registry \in [JobId -> Job]
  BY RunStepEnds, OrchVars
<1> HIDE DEF i
<1>0. /\ \/ Stays(r) \/ (Quits(r) /\ (Completes(r) \/ Settles(r)))
         \/ registry' = registry
  BY RunStepEnds DEF Dies
<1>2. CASE Stays(r)
  BY <1>2, SameStatuses DEF Stays
<1>3. CASE registry' = registry
  BY <1>3, SameStatuses
<1>4. ASSUME Quits(r) PROVE \A k \in JobId \ {i} : registry'[k] = registry[k]
  BY <1>4 DEF Quits, i
<1>5. CASE Quits(r) /\ Completes(r)
  <2>1. registry' = Completed(registry, i) /\ registry[i].status \in Active
    BY <1>5, SetMapKeeps DEF Completes, i
  <2>2. Statuses(registry') = [Statuses(registry) EXCEPT ![i] = "completed"]
    BY <1>1, <2>1, StatusGiven
  <2>3. QED
    BY <1>1, <2>1, <2>2, IsLifeStep
<1>6. CASE Quits(r) /\ Settles(r)
  <2>1. CASE Retries(r)
    <3>1. registry[i].status \in Active /\ registry'[i].status = "queued"
      BY <2>1 DEF Retries, i
    <3>2. CASE registry[i].status = "queued"
      BY <1>4, <1>6, <3>1, <3>2, SameStatuses
    <3>3. CASE registry[i].status = "running"
      BY <1>1, <1>4, <1>6, <3>1, <3>3, OneStatus, IsLifeStep
    <3>4. QED
      BY <3>1, <3>2, <3>3 DEF Active
  <2>2. CASE GivesUp(r)
    <3>1. registry[i].status \in Active /\ registry'[i].status = "failed"
      BY <2>2 DEF GivesUp, i
    <3>2. QED
      BY <1>1, <1>4, <1>6, <3>1, OneStatus, IsLifeStep
  <2>3. CASE Leaves(r) \/ Dies(r)
    BY <1>3, <2>3 DEF Leaves, Dies
  <2>4. QED
    BY <1>6, <2>1, <2>2, <2>3 DEF Settles
<1>7. QED
  BY <1>0, <1>2, <1>3, <1>5, <1>6

LEMMA EngineStepIsLifeStep ==
  ASSUME EngineInv, [Next]_vars
  PROVE  LifeStep
<1>r. registry \in [JobId -> Job] /\ registry' \in [JobId -> Job]
  BY EngineStep, OrchVars DEF EngineInv, OrchTypeOK, QueueTypeOK
<1>0. ASSUME registry' = registry PROVE LifeStep
  BY <1>0, SameStatuses
<1>1. ASSUME NEW i \in JobId, NEW caught \in BOOLEAN, StartAndRun(i, caught)
      PROVE  LifeStep
  <2>1. CASE CanStart(registry, i)
    <3>1. registry' = Started(registry, i)
      BY <1>1, <2>1, StartAndRunIs DEF Launches
    <3>2. Statuses(registry') = [Statuses(registry) EXCEPT ![i] = "running"]
      BY <1>r, <3>1, StatusGiven
    <3>3. QED
      BY <2>1, <3>2, IsLifeStart
  <2>2. CASE ~CanStart(registry, i)
    BY <1>0, <1>1, <2>2, StartAndRunIs DEF StaysPut
  <2>3. QED
    BY <2>1, <2>2
<1>2. ASSUME ImmediateFires PROVE LifeStep
  <2>1. Head(immediates) \in JobId
    BY <1>2, OrchVars DEF ImmediateFires
  <2>2. QED
    BY <1>1, <1>2, <2>1 DEF ImmediateFires
<1>3. ASSUME NEW i \in JobId, RetryTimerFires(i) PROVE LifeStep
  BY <1>1, <1>3 DEF RetryTimerFires
<1>4. ASSUME NEW i \in JobId, Enqueue(i) PROVE LifeStep
  <2>1. Enqueued(i)
    BY <1>4, EnqueueIs
  <2>2. QED
    BY <2>1, OneStatus, IsLifeStep DEF Enqueued
<1>5. ASSUME NEW i \in JobId, CancelJob(i) PROVE LifeStep
  <2>1. Cancels(i)
    BY <1>5, CancelIs
  <2>2. QED
    BY <2>1, OneStatus, IsLifeStep DEF Cancels
<1>6. ASSUME NEW i \in JobId, NEW s \in Stage, ResumeJob(i, s) PROVE LifeStep
  <2>1. Resumes(i)
    BY <1>6, ResumeIs
  <2>2. QED
    BY <2>1, OneStatus, IsLifeStep DEF Resumes
<1>7. ASSUME CallStep PROVE LifeStep
  <2>1. ASSUME NEW i \in JobId, Resubmit(i) \/ DirectExisting(i) PROVE LifeStep
    BY <1>0, <2>1 DEF Resubmit, DirectExisting, queueVars
  <2>2. ASSUME NEW i \in JobId, Delete(i) \/ Cleanup(i) PROVE LifeStep
    BY <1>r, <2>2, DeleteIs, CleanupIs, RemovesIsLifeStep DEF Delete, Cleanup
  <2>3. ASSUME ClearDeadLetter PROVE LifeStep
    BY <1>r, <2>3, ClearIs, RemovesIsLifeStep DEF ClearDeadLetter
  <2>4. QED
    BY <1>4, <1>5, <1>6, <1>7, <2>1, <2>2, <2>3
       DEF CallStep, Post, DirectNew, Cancel, Resume
<1>8. CASE Crash \/ UNCHANGED vars
  BY <1>0, <1>8 DEF Crash, vars, queueVars
<1>9. CASE Boot
  BY <1>0, <1>9, RestartIs DEF Boot
<1>10. ASSUME NEW r \in Run, WatcherTick(r) PROVE LifeStep
  BY <1>0, <1>10 DEF WatcherTick, queueVars
<1>11. QED
  BY <1>2, <1>3, <1>7, <1>8, <1>9, <1>10, RunStepIsLifeStep DEF Next, LoopStep

(* The engine with its real callers implements the life cycle of a job: what *)
(* a turn does to several statuses is one abstract step or none.            *)
THEOREM EngineImplementsLifecycle == Spec => ImplementsLifecycle
<1>1. Init => Lifecycle!Init
  <2>1. NoJob.status = "absent"
    BY DEF NoJob
  <2>2. QED
    BY <2>1 DEF Init, QueueInit, Lifecycle!Init
<1>2. EngineInv /\ [Next]_vars => [Lifecycle!Next]_([i \in JobId |-> registry[i].status])
  BY EngineStepIsLifeStep DEF LifeStep, Statuses
<1>3. QED
  BY <1>1, <1>2, EngineInvariant, PTL DEF Spec, ImplementsLifecycle, Lifecycle!Spec

-----------------------------------------------------------------------------
(* The BullMQ deployment.  Whatever else a step does, a job of the registry *)
(* is active after it with a retry on its count, or was active before with  *)
(* the same count, or is new.                                               *)
Grows(k) ==
  registry'[k].status \in Active =>
    \/ registry'[k].retryCount > 0
    \/ /\ registry[k].status \in Active
       /\ registry'[k].retryCount = registry[k].retryCount
    \/ k \notin issued

(* A pipeline goes on with its job, or ends and leaves it ended or on a     *)
(* retry, or the process is gone.                                           *)
EndsWell(i) == registry'[i].status \in Active => registry'[i].retryCount > 0

Turns(r) ==
  runs[r].pc # "free" =>
    \/ ~up'
    \/ runs'[r].pc # "free" /\ runs'[r].job = runs[r].job
    \/ runs'[r].pc = "free" /\ EndsWell(runs[r].job)

LEMMA RunStepGrows ==
  ASSUME EngineInv, NEW r \in Run, RunStep(r)
  PROVE  /\ \A k \in JobId : Grows(k)
         /\ \A q \in Run : Turns(q)
         /\ remote' = remote
<1> DEFINE i == runs[r].job
<1>1. /\ runs[r].pc # "free" /\ i \in JobId /\ registry \in [JobId -> Job]
      /\ runs \in [Run -> RunState] /\ registry[i].retryCount \in Nat
  BY RunStepEnds, OrchVars DEF Job
<1>2. ASSUME NEW p \in {"stage", "virality"}, NEW s, Goes(r, p, s) PROVE remote' = remote
  BY <1>2 DEF Goes, QueueBookkeeping
<1>3. ASSUME Stays(r), registry'[i].retryCount = registry[i].retryCount
      PROVE  /\ \A k \in JobId : Grows(k)
             /\ \A q \in Run : Turns(q)
  BY <1>1, <1>3 DEF Stays, Grows, Turns
<1>4. CASE Stays(r) /\ PressureHigh(r)
  <2>1. registry' = registry /\ remote' = remote
    BY <1>4 DEF PressureHigh, queueVars
  <2>2. QED
    BY <1>3, <1>4, <2>1
<1>5. CASE Stays(r) /\ Enters(r) /\ runs[r].pc \in {"pressure", "backoff"}
  <2>1. SetMap(StageBegun(registry, i, 1)) /\ Goes(r, "stage", 1)
    BY <1>5 DEF Enters
  <2>2. registry' = StageBegun(registry, i, 1) /\ 1 \in Stage
    BY <2>1, SetMapKeeps, StageFacts
  <2>3. registry'[i].retryCount = registry[i].retryCount
    BY <1>1, <2>2, StageBegunIs
  <2>4. QED
    BY <1>2, <1>3, <1>5, <2>1, <2>3
<1>6. CASE Stays(r) /\ Enters(r) /\ runs[r].pc = "stage"
  <2> DEFINE s == runs[r].stage
             t == runs[r].stage + 1
             reg == StageEnded(registry, i, s)
  <2>1. /\ SetMap(StageBegun(reg, i, t)) /\ Goes(r, "stage", t)
        /\ s \in Stage /\ t \in Stage
    BY <1>6, StageFacts DEF Enters, EngineInv, SlotSound
  <2> HIDE DEF s, t
  <2>2. reg \in [JobId -> Job] /\ reg[i].retryCount = registry[i].retryCount
    BY <1>1, <2>1, StageEndedIs
  <2> HIDE DEF reg
  <2>3. registry' = StageBegun(reg, i, t) /\ i \in JobId /\ t \in Stage
    BY <1>1, <2>1, SetMapKeeps
  <2>4. registry'[i].retryCount = reg[i].retryCount
    BY <2>2, <2>3, StageBegunIs
  <2>5. QED
    BY <1>2, <1>3, <1>6, <2>1, <2>2, <2>4
<1>7. CASE Stays(r) /\ LastStageEnds(r)
  <2> DEFINE s == runs[r].stage
  <2>1. SetMap(StageEnded(registry, i, s)) /\ Goes(r, "virality", s) /\ s \in Stage
    BY <1>7 DEF LastStageEnds, EngineInv, SlotSound
  <2>2. registry' = StageEnded(registry, i, s)
    BY <2>1, SetMapKeeps
  <2>3. registry'[i].retryCount = registry[i].retryCount
    BY <1>1, <2>1, <2>2, StageEndedIs
  <2>4. QED
    BY <1>2, <1>3, <1>7, <2>1, <2>3
<1>8. ASSUME Quits(r), EndsWell(i)
      PROVE  /\ \A k \in JobId : Grows(k)
             /\ \A q \in Run : Turns(q)
  BY <1>1, <1>8, FreeRunType DEF Quits, EndsWell, Grows, Turns
<1>9. CASE Quits(r) /\ Completes(r)
  <2>1. registry' = Completed(registry, i)
    BY <1>9, SetMapKeeps DEF Completes
  <2>2. registry'[i].status = "completed"
    BY <1>1, <2>1, CompletedIs
  <2>3. remote' = remote
    BY <1>9 DEF Completes, QueueBookkeeping
  <2>4. QED
    BY <1>8, <1>9, <2>2, <2>3 DEF EndsWell, Active
<1>10. CASE Quits(r) /\ Settles(r)
  <2>1. EndsWell(i) \/ ~up'
    BY <1>1, <1>10 DEF Settles, Retries, GivesUp, Leaves, Dies, ProcessGone, EndsWell, Active
  <2>2. up' = up /\ remote' = remote
    BY <1>10 DEF Quits, Settles, QueueBookkeeping
  <2>3. CASE EndsWell(i)
    BY <1>8, <1>10, <2>2, <2>3
  <2>4. CASE ~up'
    <3>1. Dies(r) \/ EndsWell(i)
      BY <1>1, <1>10 DEF Settles, Retries, GivesUp, Leaves, EndsWell, Active
    <3>2. CASE Dies(r)
      BY <2>2, <2>4, <3>2 DEF Dies, Grows, Turns
    <3>3. QED
      BY <1>8, <1>10, <2>2, <3>1, <3>2
  <2>5. QED
    BY <2>1, <2>3, <2>4
<1>11. CASE Dies(r) /\ UNCHANGED <<issued, remote>>
  <2>1. registry' = registry /\ ~up'
    BY <1>11 DEF Dies, ProcessGone
  <2>2. QED
    BY <1>11, <2>1 DEF Grows, Turns
<1>12. QED
  BY <1>4, <1>5, <1>6, <1>7, <1>9, <1>10, <1>11, RunStepEnds DEF Enters

LEMMA StepGrows ==
  ASSUME EngineInv, [Next]_vars
  PROVE  /\ \A k \in JobId : Grows(k)
         /\ \A q \in Run : Turns(q)
         /\ issued \subseteq issued'
         /\ \A k \in JobId : remote'[k] # "none" => remote[k] # "none" \/ k \in issued'
<1> DEFINE Goal == /\ \A k \in JobId : Grows(k)
                   /\ \A q \in Run : Turns(q)
                   /\ issued \subseteq issued'
                   /\ \A k \in JobId : remote'[k] # "none" => remote[k] # "none" \/ k \in issued'
<1>r. runs \in [Run -> RunState] /\ registry \in [JobId -> Job]
  BY OrchVars
<1>0. ASSUME UNCHANGED <<issued, remote>>,
             \A q \in Run : runs[q].pc # "free" =>
                              runs'[q].pc # "free" /\ runs'[q].job = runs[q].job,
             \A k \in JobId : \/ registry'[k] = registry[k]
                              \/ registry'[k].status \notin Active
                              \/ registry'[k].retryCount > 0
      PROVE  Goal
  BY <1>0 DEF Grows, Turns
<1>1. ASSUME NEW r \in Run, RunStep(r) PROVE Goal
  <2>1. issued' = issued
    BY <1>1, RunStepEnds DEF Stays, Quits
  <2>2. QED
    BY <1>1, <2>1, RunStepGrows
<1>2. ASSUME NEW r \in Run, WatcherTick(r) PROVE Goal
  <2>1. /\ \A q \in Run : runs'[q].pc = runs[q].pc /\ runs'[q].job = runs[q].job
        /\ UNCHANGED <<registry, issued, remote>>
    BY <1>2, <1>r DEF WatcherTick, queueVars, RunState
  <2>2. QED
    BY <1>0, <2>1
<1>b. ASSUME NEW r \in Run, NEW i, NEW caught, Begun(r, i, caught)
      PROVE  \A q \in Run : runs[q].pc # "free" =>
                              runs'[q].pc # "free" /\ runs'[q].job = runs[q].job
  BY <1>b DEF Begun
<1>3. ASSUME NEW i \in JobId, NEW caught \in BOOLEAN, StartAndRun(i, caught),
             UNCHANGED QueueBookkeeping
      PROVE  Goal
  <2>0. UNCHANGED <<issued, remote>>
    BY <1>3 DEF QueueBookkeeping
  <2>1. CASE CanStart(registry, i)
    <3>1. PICK r \in Run : Begun(r, i, caught)
      BY <1>3, <2>1, StartAndRunIs DEF Launches
    <3>2. registry' = Started(registry, i)
      BY <1>3, <2>1, StartAndRunIs DEF Launches
    <3>3. /\ registry'[i].retryCount = registry[i].retryCount
          /\ \A k \in JobId \ {i} : registry'[k] = registry[k]
      BY <3>2, <1>r, StartedIs
    <3>4. registry[i].status \in Active
      BY <2>1 DEF CanStart, Active
    <3>5. \A k \in JobId : Grows(k)
      BY <3>3, <3>4 DEF Grows
    <3>6. QED
      BY <1>b, <2>0, <3>1, <3>5 DEF Turns
  <2>2. CASE ~CanStart(registry, i)
    BY <1>0, <1>3, <2>0, <2>2, StartAndRunIs DEF StaysPut
  <2>3. QED
    BY <2>1, <2>2
<1>4. ASSUME ImmediateFires PROVE Goal
  <2>1. Head(immediates) \in JobId
    BY <1>4, OrchVars DEF ImmediateFires
  <2>2. QED
    BY <1>3, <1>4, <2>1 DEF ImmediateFires
<1>5. ASSUME NEW i \in JobId, RetryTimerFires(i) PROVE Goal
  BY <1>3, <1>5 DEF RetryTimerFires
<1>6. ASSUME Removes, remote' = remote, UNCHANGED orchVars PROVE Goal
  <2>1. \A k \in JobId : registry'[k] = registry[k] \/ registry'[k].status \notin Active
    BY <1>6 DEF Removes, NoJob, Active
  <2>2. UNCHANGED <<issued, remote, runs>>
    BY <1>6 DEF Removes, orchVars
  <2>3. QED
    BY <1>0, <2>1, <2>2
<1>7. ASSUME NEW i \in JobId, Enqueue(i),
             \A q \in Run : runs[q].pc # "free" =>
                              runs'[q].pc # "free" /\ runs'[q].job = runs[q].job
      PROVE  Goal
  <2>1. Enqueued(i)
    BY <1>7, EnqueueIs
  <2>2. remote' = remote \/ remote' = [remote EXCEPT ![i] = "submitting"]
    BY <1>7 DEF Enqueue
  <2>3. \A k \in JobId : remote'[k] = remote[k] \/ k = i
    BY <2>2, OrchVars DEF EngineInv, OrchTypeOK, QueueTypeOK
  <2>4. QED
    BY <1>7, <2>1, <2>3 DEF Enqueued, Grows, Turns
<1>8. ASSUME NEW i \in JobId, Post(i) PROVE Goal
  BY <1>7, <1>8 DEF Post
<1>9. ASSUME NEW i \in JobId, DirectNew(i) PROVE Goal
  <2>1. PICK r \in Run : Begun(r, i, TRUE)
    BY <1>9, BeginRunIs DEF DirectNew
  <2>2. QED
    BY <1>7, <1>9, <1>b, <2>1 DEF DirectNew
<1>10. ASSUME NEW i \in JobId, DirectExisting(i) PROVE Goal
  <2>1. PICK j \in Duplicates(registry, i) : BeginRun(j, TRUE)
    BY <1>10 DEF DirectExisting
  <2>2. j \in JobId /\ UNCHANGED <<registry, issued, remote>>
    BY <1>10, <2>1 DEF Duplicates, InState, DirectExisting, queueVars
  <2>3. PICK r \in Run : Begun(r, j, TRUE)
    BY <2>1, <2>2, BeginRunIs
  <2>4. QED
    BY <1>0, <1>b, <2>2, <2>3
<1>11. ASSUME NEW i \in JobId, Cancel(i) PROVE Goal
  <2>1. Cancels(i) /\ remote' = remote
    BY <1>11, CancelIs DEF Cancel, CancelJob, MapOnly
  <2>2. \A q \in Run : runs'[q].pc = runs[q].pc /\ runs'[q].job = runs[q].job
    BY <1>11, <1>r DEF Cancel, RunState
  <2>3. \A k \in JobId : registry'[k] = registry[k] \/ registry'[k].status \notin Active
    BY <2>1 DEF Cancels, Active
  <2>4. QED
    BY <1>0, <2>1, <2>2, <2>3 DEF Cancels
<1>12. ASSUME NEW i \in JobId, NEW s \in Stage, Resume(i, s) PROVE Goal
  <2>1. Resumes(i) /\ remote' = remote /\ runs' = runs
    BY <1>12, ResumeIs DEF Resume, ResumeJob, orchVars
  <2>2. QED
    BY <1>0, <2>1 DEF Resumes
<1>13. ASSUME CallStep PROVE Goal
  <2>1. ASSUME NEW i \in JobId, Resubmit(i) PROVE Goal
    BY <1>0, <2>1 DEF Resubmit, queueVars
  <2>2. ASSUME NEW i \in JobId, Delete(i) PROVE Goal
    BY <1>6, <2>2, DeleteIs DEF Delete, DeleteJob
  <2>3. ASSUME NEW i \in JobId, Cleanup(i) PROVE Goal
    BY <1>6, <2>3, CleanupIs DEF Cleanup, CleanupFires
  <2>4. ASSUME ClearDeadLetter PROVE Goal
    BY <1>6, <2>4, ClearIs DEF ClearDeadLetter, ClearDeadLetterJobs, MapOnly
  <2>5. QED
    BY <1>8, <1>9, <1>10, <1>11, <1>12, <1>13, <2>1, <2>2, <2>3, <2>4 DEF CallStep
<1>14. CASE Crash
  BY <1>14 DEF Crash, ProcessGone, queueVars, Grows, Turns
<1>15. CASE Boot
  <2>1. UNCHANGED <<registry, issued, runs>>
    BY <1>15, RestartIs DEF Boot
  <2>2. \A k \in JobId : remote'[k] # "none" => remote[k] # "none"
    BY <1>15 DEF Boot, Restart
  <2>3. QED
    BY <2>1, <2>2 DEF Grows, Turns
<1>16. CASE UNCHANGED vars
  BY <1>0, <1>16 DEF vars, queueVars, orchVars
<1>17. QED
  BY <1>1, <1>2, <1>4, <1>5, <1>13, <1>14, <1>15, <1>16 DEF Next, LoopStep

(* The job in the worker's hand is the one its pipeline drives; what BullMQ *)
(* has begun or holds was created; what it was told is done has ended or is *)
(* on a retry.                                                              *)
InWorkersHand(i) ==
  bull[i].state = "active" =>
    slot # NoId /\ runs[slot].pc # "free" /\ runs[slot].job = i

DoneOrRetried(i) ==
  bull[i].state \in {"resolved", "completed"} /\ registry[i].status \in Active
    => registry[i].retryCount > 0

WorkerInv ==
  /\ EngineInv /\ WorkerTypeOK
  /\ \A i \in JobId : /\ remote[i] # "none" => i \in issued
                      /\ bull[i].state # "waiting" => i \in issued
                      /\ InWorkersHand(i) /\ DoneOrRetried(i)

LEMMA BullVars ==
  ASSUME WorkerInv
  PROVE  /\ bull \in [JobId -> BullJob] /\ slot \in Run \cup {NoId}
         /\ crashes \in 0..MaxCrashes /\ NoId \notin Run /\ dropped \subseteq JobId
         /\ runs \in [Run -> RunState] /\ registry \in [JobId -> Job]
  BY OrchVars, WorkerAssumption DEF WorkerInv, WorkerTypeOK

(* A step of the engine as BullMQ sees it.                                  *)
LEMMA ObservedStep ==
  ASSUME WorkerInv, [Next]_vars, Observed, crashes' \in 0..MaxCrashes
  PROVE  WorkerInv'
<1> DEFINE ended == slot # NoId /\ (~up' \/ runs'[slot].pc = "free")
<1>1. /\ EngineInv' /\ \A k \in JobId : Grows(k)
      /\ \A q \in Run : Turns(q)
      /\ issued \subseteq issued'
      /\ \A k \in JobId : remote'[k] # "none" => remote[k] # "none" \/ k \in issued'
  BY EngineStep, StepGrows DEF WorkerInv
<1>2. slot' = IF ended THEN NoId ELSE slot
  BY DEF Observed
<1>3. bull' = [i \in JobId |->
                 IF ~up' /\ bull[i].state \in InHand
                 THEN [bull[i] EXCEPT !.state = "orphaned"]
                 ELSE IF ended /\ bull[i].state = "active"
                 THEN [bull[i] EXCEPT !.state = Answer(i)]
                 ELSE bull[i]]
  BY DEF Observed
<1>4. \A i \in JobId : Answer(i) \in InHand \ {"active"}
  BY DEF Answer, InHand
<1> HIDE DEF ended
<1>5. bull' \in [JobId -> BullJob] /\ slot' \in Run \cup {NoId}
  <2>1. ASSUME NEW i \in JobId PROVE bull'[i] \in BullJob
    <3>1. bull[i] \in BullJob /\ Answer(i) \in InHand
      BY <1>4, BullVars
    <3>2. \A t \in {"orphaned"} \cup InHand : [bull[i] EXCEPT !.state = t] \in BullJob
      BY <3>1 DEF BullJob
    <3>3. QED
      BY <1>3, <3>1, <3>2
  <2>2. QED
    BY <1>2, <1>3, <2>1, BullVars
<1>6. WorkerTypeOK'
  <2>1. dropped' \subseteq JobId
    BY BullVars DEF Observed
  <2>2. QED
    BY <1>1, <1>5, <2>1 DEF WorkerTypeOK, EngineInv
<1>7. ASSUME NEW i \in JobId
      PROVE  /\ bull'[i].state # "waiting" => bull[i].state # "waiting"
             /\ bull'[i].state = "active" => bull[i].state = "active" /\ up' /\ ~ended
             /\ bull'[i].state \in {"resolved", "completed"} =>
                  \/ bull'[i] = bull[i]
                  \/ bull[i].state = "active" /\ ended /\ up'
  <2>1. bull[i] \in BullJob /\ Answer(i) \in InHand \ {"active"}
    BY <1>4, BullVars
  <2>2. \A t : [bull[i] EXCEPT !.state = t].state = t
    BY <2>1 DEF BullJob
  <2>3. CASE ~up' /\ bull[i].state \in InHand
    BY <1>3, <2>2, <2>3 DEF InHand
  <2>4. CASE ~(~up' /\ bull[i].state \in InHand) /\ ended /\ bull[i].state = "active"
    BY <1>3, <2>1, <2>2, <2>4 DEF InHand
  <2>5. CASE ~(~up' /\ bull[i].state \in InHand) /\ ~(ended /\ bull[i].state = "active")
    BY <1>3, <2>5 DEF InHand
  <2>6. QED
    BY <2>3, <2>4, <2>5
<1>8. ASSUME NEW i \in JobId
      PROVE  /\ remote'[i] # "none" => i \in issued'
             /\ bull'[i].state # "waiting" => i \in issued'
  BY <1>1, <1>7 DEF WorkerInv
<1>9. ASSUME NEW i \in JobId PROVE InWorkersHand(i)'
  <2> SUFFICES ASSUME bull'[i].state = "active"
               PROVE  slot' # NoId /\ runs'[slot'].pc # "free" /\ runs'[slot'].job = i
    BY DEF InWorkersHand
  <2>1. bull[i].state = "active" /\ up' /\ ~ended
    BY <1>7
  <2>2. slot' = slot /\ slot # NoId /\ runs[slot].pc # "free" /\ runs[slot].job = i
    BY <1>2, <2>1 DEF WorkerInv, InWorkersHand
  <2>3. slot \in Run /\ runs'[slot].pc # "free"
    BY <2>1, <2>2, BullVars DEF ended
  <2>4. QED
    BY <1>1, <2>1, <2>2, <2>3 DEF Turns
<1>10. ASSUME NEW i \in JobId PROVE DoneOrRetried(i)'
  <2> SUFFICES ASSUME bull'[i].state \in {"resolved", "completed"},
                      registry'[i].status \in Active
               PROVE  registry'[i].retryCount > 0
    BY DEF DoneOrRetried
  <2>1. CASE bull'[i] = bull[i]
    <3>1. i \in issued /\ DoneOrRetried(i)
      BY <2>1 DEF WorkerInv
    <3>2. QED
      BY <1>1, <2>1, <3>1 DEF Grows, DoneOrRetried
  <2>2. CASE bull[i].state = "active" /\ ended /\ up'
    <3>1. slot # NoId /\ runs[slot].pc # "free" /\ runs[slot].job = i
      BY <2>2 DEF WorkerInv, InWorkersHand
    <3>2. slot \in Run /\ runs'[slot].pc = "free"
      BY <2>2, <3>1, BullVars DEF ended
    <3>3. EndsWell(i)
      BY <1>1, <2>2, <3>1, <3>2 DEF Turns
    <3>4. QED
      BY <3>3 DEF EndsWell
  <2>3. QED
    BY <1>7, <2>1, <2>2
<1>11. QED
  BY <1>1, <1>6, <1>8, <1>9, <1>10 DEF WorkerInv

(* The worker takes a job.                                                  *)
LEMMA DeliverStep ==
  ASSUME WorkerInv, NEW i \in JobId, Deliver(i)
  PROVE  WorkerInv'
<1>1. EngineInv /\ i \in issued /\ remote[i] = "held"
  BY DEF WorkerInv, Deliver
<1>2. PICK r \in Run : Begun(r, i, TRUE)
  BY <1>1, BeginRunIs DEF Deliver
<1>3. /\ UNCHANGED <<remote, issued, up, immediates, timers, dropped, crashes>>
      /\ disk' = registry'
      /\ \A k \in JobId \ {i} : registry'[k] = registry[k]
      /\ QueueNext \/ UNCHANGED queueVars
  <2>1. CASE registry[i].status \in Active
    BY <1>1, <2>1 DEF Deliver, queueVars, EngineInv
  <2>2. CASE registry[i].status \notin Active
    <3>1. RestoreJobFromBullMQ(i)
      BY <2>2 DEF Deliver
    <3>2. registry' = [registry EXCEPT ![i] = FreshJob] /\ disk' = registry'
      BY <3>1, OrchestratorAssumption DEF RestoreJobFromBullMQ, Persist
    <3>3. \A k \in JobId \ {i} : registry'[k] = registry[k]
      BY <1>1, <3>2, OrchVars
    <3>4. QueueNext /\ UNCHANGED <<remote, issued>>
      BY <3>1 DEF QueueNext, RestoreJobFromBullMQ
    <3>5. QED
      BY <3>2, <3>3, <3>4 DEF Deliver
  <2>3. QED
    BY <2>1, <2>2
<1>4. OrchKept
  BY <1>1, <1>2, <1>3, BegunKept, OrchVars
<1>5. \A k \in JobId : registry'[k].status # "absent" => k \in issued'
  BY <1>1, <1>3 DEF EngineInv
<1>6. EngineInv'
  <2>1. CASE QueueNext
    BY <1>1, <1>3, <1>4, <1>5, <2>1, EngineCalled
  <2>2. CASE UNCHANGED queueVars
    BY <1>1, <1>3, <1>4, <2>2, EngineKept, OrchVars DEF queueVars, QueueBookkeeping, EngineInv
  <2>3. QED
    BY <1>3, <2>1, <2>2
<1>7. slot' = r
  <2>1. \A q \in Run : runs'[q] # runs[q] <=> q = r
    BY <1>2 DEF Begun
  <2>2. slot' = CHOOSE q \in Run : runs'[q] # runs[q]
    BY DEF Deliver
  <2>3. QED
    BY <2>1, <2>2
<1>8. /\ bull' = [bull EXCEPT ![i].state = "active"]
      /\ \A k \in JobId : bull[k].state # "active"
  BY DEF Deliver, InHand
<1>9. /\ bull' \in [JobId -> BullJob] /\ bull'[i].state = "active"
      /\ \A k \in JobId \ {i} : bull'[k] = bull[k]
  <2>1. bull \in [JobId -> BullJob]
    BY BullVars
  <2>2. [bull[i] EXCEPT !.state = "active"] \in BullJob
    BY <2>1 DEF BullJob, InHand
  <2>3. QED
    BY <1>8, <2>1, <2>2 DEF BullJob
<1>10. WorkerTypeOK'
  BY <1>3, <1>6, <1>7, <1>9, BullVars DEF WorkerTypeOK, EngineInv
<1>11. ASSUME NEW k \in JobId
       PROVE  /\ remote'[k] # "none" => k \in issued'
              /\ bull'[k].state # "waiting" => k \in issued'
              /\ InWorkersHand(k)' /\ DoneOrRetried(k)'
  <2>1. CASE k = i
    <3>1. slot' # NoId /\ runs'[slot'].pc # "free" /\ runs'[slot'].job = i
      BY <1>2, <1>7, BullVars DEF Begun
    <3>2. QED
      BY <1>1, <1>3, <1>9, <2>1, <3>1 DEF InWorkersHand, DoneOrRetried
  <2>2. CASE k # i
    <3>1. bull'[k] = bull[k] /\ registry'[k] = registry[k] /\ bull'[k].state # "active"
      BY <1>3, <1>8, <1>9, <2>2
    <3>2. QED
      BY <1>3, <3>1 DEF WorkerInv, InWorkersHand, DoneOrRetried
  <2>3. QED
    BY <2>1, <2>2
<1>12. QED
  BY <1>6, <1>10, <1>11 DEF WorkerInv

(* The answers of BullMQ.                                                   *)
LEMMA BullStep ==
  ASSUME WorkerInv, NEW i \in JobId, Acknowledge(i) \/ StalledCheck(i) \/ Submitted(i)
  PROVE  WorkerInv'
<1>1. EngineInv /\ bull \in [JobId -> BullJob] /\ slot \in Run \cup {NoId}
      /\ crashes \in 0..MaxCrashes /\ dropped \subseteq JobId
  BY BullVars DEF WorkerInv
<1>2. ASSUME UNCHANGED <<vars, slot, dropped, crashes>>, bull' \in [JobId -> BullJob],
             bull[i].state # "waiting", bull'[i].state # "active",
             bull'[i].state = "resolved" => bull[i].state = "resolved",
             bull'[i].state = "completed" => bull[i].state = "resolved",
             \A k \in JobId \ {i} : bull'[k] = bull[k]
      PROVE  WorkerInv'
  <2>1. EngineInv'
    BY <1>1, <1>2, EngineStep
  <2>2. UNCHANGED <<registry, remote, issued, runs>>
    BY <1>2 DEF vars, queueVars, orchVars
  <2>3. WorkerTypeOK'
    BY <1>1, <1>2, <2>1 DEF WorkerTypeOK, EngineInv
  <2>4. ASSUME NEW k \in JobId
        PROVE  /\ remote'[k] # "none" => k \in issued'
               /\ bull'[k].state # "waiting" => k \in issued'
               /\ InWorkersHand(k)' /\ DoneOrRetried(k)'
    BY <1>2, <2>2 DEF WorkerInv, InWorkersHand, DoneOrRetried
  <2>5. QED
    BY <2>1, <2>3, <2>4 DEF WorkerInv
<1>3. CASE Acknowledge(i)
  <2>1. bull[i] \in BullJob /\ bull[i].tries + 1 \in Nat
    BY <1>1 DEF BullJob
  <2>2. CASE /\ bull[i].state = "resolved"
             /\ bull' = [bull EXCEPT ![i].state = "completed"]
    <3>1. /\ [bull[i] EXCEPT !.state = "completed"] \in BullJob
          /\ [bull[i] EXCEPT !.state = "completed"].state = "completed"
      BY <2>1 DEF BullJob, BullEnded
    <3>2. QED
      BY <1>1, <1>2, <1>3, <2>2, <3>1 DEF Acknowledge
  <2>3. CASE /\ bull[i].state = "rejected"
             /\ bull' = [bull EXCEPT ![i].state = IF bull[i].tries < MaxRetries
                                                  THEN "waiting" ELSE "failed",
                                     ![i].tries = @ + 1]
    <3> DEFINE t == IF bull[i].tries < MaxRetries THEN "waiting" ELSE "failed"
               job == [bull[i] EXCEPT !.state = t, !.tries = @ + 1]
    <3>1. t \in {"waiting", "failed"}
      OBVIOUS
    <3>2. bull' = [bull EXCEPT ![i] = job]
      BY <1>1, <2>3
    <3> HIDE DEF t
    <3>3. job \in BullJob /\ job.state = t
      BY <2>1, <3>1, Zenon DEF BullJob, BullEnded
    <3> HIDE DEF job
    <3>4. QED
      BY <1>1, <1>2, <1>3, <2>3, <3>1, <3>2, <3>3 DEF Acknowledge
  <2>4. QED
    BY <1>3, <2>2, <2>3 DEF Acknowledge
<1>4. CASE StalledCheck(i)
  <2> DEFINE t == IF bull[i].stalls < MaxStalledCount THEN "waiting" ELSE "failed"
             job == [bull[i] EXCEPT !.state = t, !.stalls = @ + 1]
  <2>1. bull[i] \in BullJob /\ bull[i].stalls + 1 \in Nat /\ t \in {"waiting", "failed"}
    BY <1>1 DEF BullJob
  <2>2. bull[i].state = "orphaned" /\ bull' = [bull EXCEPT ![i] = job]
    BY <1>1, <1>4 DEF StalledCheck
  <2> HIDE DEF t
  <2>3. job \in BullJob /\ job.state = t
    BY <2>1, Zenon DEF BullJob, BullEnded
  <2> HIDE DEF job
  <2>4. QED
    BY <1>1, <1>2, <1>4, <2>1, <2>2, <2>3 DEF StalledCheck
<1>5. CASE Submitted(i)
  <2>1. /\ UNCHANGED <<up, runs, immediates, timers, bull, slot, crashes, issued>>
        /\ QueueNext /\ remote[i] = "submitting" /\ dropped' \subseteq JobId
        /\ \A k \in JobId \ {i} : remote'[k] = remote[k]
    BY <1>1, <1>5 DEF Submitted, orchVars, SubmitAccepted, SubmitRejected, QueueNext,
                      EngineInv, OrchTypeOK, QueueTypeOK
  <2>2. /\ disk' = registry'
        /\ \A k \in JobId : \/ registry'[k] = registry[k]
                            \/ registry'[k].status = "failed" /\ registry[k].status \in Active
    <3>1. CASE registry' = registry /\ disk' = disk
      BY <1>1, <3>1 DEF EngineInv
    <3>2. CASE Persist(Failed(registry, i, FALSE)) /\ registry[i].status \in Active
      <4>1. registry' = Failed(registry, i, FALSE) /\ disk' = registry'
        BY <3>2, OrchestratorAssumption DEF Persist
      <4> DEFINE job == [registry[i] EXCEPT !.status = "failed", !.retryAt = FALSE]
      <4>2. registry' = [registry EXCEPT ![i] = job]
        BY <1>1, <4>1, OrchVars DEF Failed, RetriesLeft
      <4>a. registry \in [JobId -> Job] /\ job.status = "failed"
        BY <1>1, OrchVars DEF Job
      <4> HIDE DEF job
      <4>3. /\ registry'[i].status = "failed"
            /\ \A k \in JobId \ {i} : registry'[k] = registry[k]
        BY <4>2, <4>a
      <4>4. QED
        BY <3>2, <4>1, <4>3
    <3>3. QED
      BY <1>5, <3>1, <3>2 DEF Submitted, SubmitAccepted, SubmitRejected
  <2>3. OrchKept
    BY <1>1, <2>1, SlotsKept, OrchVars DEF OrchKept
  <2>4. \A k \in JobId : registry'[k].status # "absent" => k \in issued'
    BY <1>1, <2>1, <2>2 DEF EngineInv, Active
  <2>5. EngineInv'
    BY <1>1, <2>1, <2>2, <2>3, <2>4, EngineCalled
  <2>6. WorkerTypeOK'
    BY <1>1, <2>1, <2>5 DEF WorkerTypeOK, EngineInv
  <2>7. ASSUME NEW k \in JobId
        PROVE  /\ remote'[k] # "none" => k \in issued'
               /\ bull'[k].state # "waiting" => k \in issued'
               /\ InWorkersHand(k)' /\ DoneOrRetried(k)'
    BY <2>1, <2>2 DEF WorkerInv, InWorkersHand, DoneOrRetried, Active
  <2>8. QED
    BY <2>5, <2>6, <2>7 DEF WorkerInv
<1>6. QED
  BY <1>3, <1>4, <1>5

LEMMA WorkerStep == WorkerInv /\ [WorkerNext]_workerVars => WorkerInv'
<1> SUFFICES ASSUME WorkerInv, [WorkerNext]_workerVars PROVE WorkerInv'
  OBVIOUS
<1>1. ASSUME Seen(LoopStep) \/ Seen(CallStep) \/ Seen(Boot) PROVE WorkerInv'
  BY <1>1, ObservedStep, BullVars DEF Seen, Next
<1>2. CASE Killed
  <2>1. crashes' \in 0..MaxCrashes
    BY <1>2, BullVars, WorkerAssumption DEF Killed
  <2>2. QED
    BY <1>2, <2>1, ObservedStep DEF Killed, Next
<1>3. CASE UNCHANGED workerVars
  <2>1. UNCHANGED <<vars, bull, slot, dropped, crashes>>
    BY <1>3 DEF workerVars
  <2>2. UNCHANGED <<registry, remote, issued, runs>>
    BY <2>1 DEF vars, queueVars, orchVars
  <2>3. EngineInv'
    BY <2>1, EngineStep DEF WorkerInv
  <2>4. WorkerTypeOK'
    BY <2>1, <2>3, BullVars DEF WorkerTypeOK, EngineInv
  <2>5. QED
    BY <2>1, <2>2, <2>3, <2>4 DEF WorkerInv, InWorkersHand, DoneOrRetried
<1>4. QED
  BY <1>1, <1>2, <1>3, DeliverStep, BullStep DEF WorkerNext

LEMMA WorkerInvariant == WorkerSpec => []WorkerInv
<1>1. WorkerInit => WorkerInv
  <2> SUFFICES ASSUME WorkerInit PROVE WorkerInv
    OBVIOUS
  <2>1. EngineInv
    BY EngineInit DEF WorkerInit
  <2>2. \A i \in JobId : bull[i].state = "waiting" /\ remote[i] = "none"
    BY DEF WorkerInit, Init, QueueInit
  <2>3. bull \in [JobId -> BullJob]
    BY DEF WorkerInit, BullJob
  <2>4. WorkerTypeOK
    BY <2>1, <2>3, WorkerAssumption DEF WorkerTypeOK, EngineInv, WorkerInit
  <2>5. QED
    BY <2>1, <2>2, <2>4 DEF WorkerInv, InWorkersHand, DoneOrRetried
<1>2. QED
  BY <1>1, WorkerStep, PTL DEF WorkerSpec

(* What BullMQ keeps is well typed.                                         *)
THEOREM WorkerTypeCorrect == WorkerSpec => []WorkerTypeOK
<1>1. WorkerInv => WorkerTypeOK
  BY DEF WorkerInv
<1>2. QED
  BY <1>1, WorkerInvariant, PTL

(* BullMQ is told that a job is done only when its entry has ended or was   *)
(* handed to a retry timer, whoever else ran, ended or reopened the job.    *)
THEOREM WorkerReportsNothingEarly == WorkerSpec => []CompletedEndsOrRetries
<1>1. WorkerInv => CompletedEndsOrRetries
  BY DEF WorkerInv, DoneOrRetried, CompletedEndsOrRetries
<1>2. QED
  BY <1>1, WorkerInvariant, PTL
(* The lock holds in the BullMQ deployment, where the worker drives jobs    *)
(* that startJob never saw.                                                 *)
THEOREM WorkerKeepsLock == WorkerSpec => []SingleVideoLock
<1>1. WorkerInv => SingleVideoLock
  BY DEF WorkerInv, EngineInv, QueueInv, SoundMap, SingleVideoLock
<1>2. QED
  BY <1>1, WorkerInvariant, PTL

(* What the worker and BullMQ's answers do to a status: a delivered job is  *)
(* reopened, one that BullMQ refused fails.                                 *)
LEMMA WorkerStepIsLifeStep ==
  ASSUME WorkerInv, [WorkerNext]_workerVars
  PROVE  LifeStep
<1>r. /\ registry \in [JobId -> Job] /\ clock \in Nat
      /\ \A i \in JobId : registry[i].status \in Status
  <2>1. registry \in [JobId -> Job] /\ clock \in Nat
    BY OrchVars DEF WorkerInv, EngineInv, OrchTypeOK, QueueTypeOK
  <2>2. QED
    BY <2>1 DEF Job
<1>0. ASSUME registry' = registry PROVE LifeStep
  BY <1>0, SameStatuses
<1>1. ASSUME Seen(LoopStep) \/ Seen(CallStep) \/ Seen(Boot) \/ Killed PROVE LifeStep
  BY <1>1, EngineStepIsLifeStep DEF Seen, Killed, Next, WorkerInv
<1>2. ASSUME NEW i \in JobId, Deliver(i) PROVE LifeStep
  <2>1. CASE registry[i].status \in Active
    BY <1>0, <1>2, <2>1 DEF Deliver, queueVars
  <2>2. CASE registry[i].status \notin Active
    <3>1. /\ registry' = [registry EXCEPT ![i] = FreshJob]
          /\ registry[i].status \in Terminal \/ registry[i].status \in {"absent"}
      BY <1>2, <2>2 DEF Deliver, RestoreJobFromBullMQ, Persist
    <3>2. Statuses(registry') = [Statuses(registry) EXCEPT ![i] = "queued"]
      BY <1>r, <3>1, StatusFresh
    <3>3. QED
      BY <3>1, <3>2, IsLifeStep
  <2>3. QED
    BY <2>1, <2>2
<1>3. ASSUME NEW i \in JobId, Acknowledge(i) \/ StalledCheck(i) \/ UNCHANGED workerVars
      PROVE  LifeStep
  BY <1>0, <1>3 DEF Acknowledge, StalledCheck, workerVars, vars, queueVars
<1>4. ASSUME NEW i \in JobId, Submitted(i) PROVE LifeStep
  <2>1. CASE registry[i].status \in Active /\ SubmitRejected(i)
    <3>1. registry' = Failed(registry, i, FALSE)
      BY <2>1 DEF SubmitRejected, Persist
    <3>2. registry' = [registry EXCEPT ![i].status = "failed", ![i].retryAt = FALSE]
      BY <3>1 DEF Failed, RetriesLeft
    <3>3. Statuses(registry') = [Statuses(registry) EXCEPT ![i] = "failed"]
      BY <1>r, <3>2 DEF Statuses, Job
    <3>4. QED
      BY <2>1, <3>3, IsLifeStep
  <2>2. CASE ~(registry[i].status \in Active /\ SubmitRejected(i))
    BY <1>0, <1>4, <2>2 DEF Submitted, SubmitAccepted, SubmitRejected
  <2>3. QED
    BY <2>1, <2>2
<1>5. QED
  <2>1. JobId # {}
    BY QueueAssumption
  <2>2. QED
    BY <1>1, <1>2, <1>3, <1>4, <2>1 DEF WorkerNext

(* The BullMQ deployment implements the life cycle of a job as well.        *)
THEOREM WorkerImplementsLifecycle == WorkerSpec => ImplementsLifecycle
<1>1. WorkerInit => Lifecycle!Init
  <2>1. NoJob.status = "absent"
    BY DEF NoJob
  <2>2. QED
    BY <2>1 DEF WorkerInit, Init, QueueInit, Lifecycle!Init
<1>2. WorkerInv /\ [WorkerNext]_workerVars
        => [Lifecycle!Next]_([i \in JobId |-> registry[i].status])
  BY WorkerStepIsLifeStep DEF LifeStep, Statuses
<1>3. QED
  BY <1>1, <1>2, WorkerInvariant, PTL DEF WorkerSpec, ImplementsLifecycle, Lifecycle!Spec

(* Attempts that throw and workers that die are both within their budget,   *)
(* and one job at a time is in the worker's hands.                          *)
OneInHand ==
  \A i, k \in JobId : bull[i].state \in InHand /\ bull[k].state \in InHand => i = k

LEMMA BudgetStep ==
  ASSUME WorkerInv, OneInHand, DeliveriesBounded, [WorkerNext]_workerVars
  PROVE  OneInHand' /\ DeliveriesBounded'
<1>1. /\ bull \in [JobId -> BullJob] /\ MaxRetries \in Nat
      /\ \A i \in JobId : bull[i] \in BullJob
  BY BullVars, QueueAssumption
<1>2. ASSUME \A i \in JobId : /\ bull'[i].tries = bull[i].tries
                              /\ bull'[i].stalls = bull[i].stalls
                              /\ bull'[i].state \in InHand => bull[i].state \in InHand
                              /\ bull[i].state \in BullEnded => bull'[i].state \in BullEnded
      PROVE  OneInHand' /\ DeliveriesBounded'
  BY <1>2 DEF OneInHand, DeliveriesBounded
<1>3. ASSUME Observed PROVE OneInHand' /\ DeliveriesBounded'
  <2> DEFINE ended == slot # NoId /\ (~up' \/ runs'[slot].pc = "free")
  <2>1. bull' = [i \in JobId |->
                   IF ~up' /\ bull[i].state \in InHand
                   THEN [bull[i] EXCEPT !.state = "orphaned"]
                   ELSE IF ended /\ bull[i].state = "active"
                   THEN [bull[i] EXCEPT !.state = Answer(i)]
                   ELSE bull[i]]
    BY <1>3 DEF Observed
  <2> HIDE DEF ended
  <2>2. ASSUME NEW i \in JobId
        PROVE  /\ bull'[i].tries = bull[i].tries
               /\ bull'[i].stalls = bull[i].stalls
               /\ bull'[i].state \in InHand => bull[i].state \in InHand
               /\ bull[i].state \in BullEnded => bull'[i].state \in BullEnded
    <3>1. /\ bull[i] \in BullJob
          /\ "active" \notin BullEnded /\ InHand \cap BullEnded = {}
          /\ "active" \in InHand
      BY <1>1 DEF InHand, BullEnded
    <3>2. \A t : /\ [bull[i] EXCEPT !.state = t].tries = bull[i].tries
                 /\ [bull[i] EXCEPT !.state = t].stalls = bull[i].stalls
                 /\ [bull[i] EXCEPT !.state = t].state = t
      BY <3>1 DEF BullJob
    <3>3. QED
      BY <2>1, <3>1, <3>2
  <2>3. QED
    BY <1>2, <2>2
<1>4. ASSUME NEW i \in JobId, NEW job,
             bull' = [bull EXCEPT ![i] = job],
             job.state \in InHand => \A k \in JobId \ {i} : bull[k].state \notin InHand,
             job.state \notin BullEnded =>
               job.tries <= MaxRetries /\ job.stalls <= MaxStalledCount
      PROVE  OneInHand' /\ DeliveriesBounded'
  <2>1. bull'[i] = job /\ \A k \in JobId \ {i} : bull'[k] = bull[k]
    BY <1>1, <1>4
  <2>2. QED
    BY <1>4, <2>1 DEF OneInHand, DeliveriesBounded
<1>5. ASSUME NEW i \in JobId, Deliver(i) PROVE OneInHand' /\ DeliveriesBounded'
  <2> DEFINE job == [bull[i] EXCEPT !.state = "active"]
  <2>1. /\ bull' = [bull EXCEPT ![i] = job] /\ bull[i].state \notin BullEnded
        /\ \A k \in JobId : bull[k].state \notin InHand
    BY <1>1, <1>5 DEF Deliver, BullEnded
  <2>2. job.tries = bull[i].tries /\ job.stalls = bull[i].stalls
    BY <1>1 DEF BullJob
  <2> HIDE DEF job
  <2>3. QED
    BY <1>4, <2>1, <2>2 DEF DeliveriesBounded
<1>6. ASSUME NEW i \in JobId, Acknowledge(i) PROVE OneInHand' /\ DeliveriesBounded'
  <2>1. CASE bull[i].state = "resolved" /\ bull' = [bull EXCEPT ![i].state = "completed"]
    <3> DEFINE job == [bull[i] EXCEPT !.state = "completed"]
    <3>1. bull' = [bull EXCEPT ![i] = job] /\ job.state = "completed"
      BY <1>1, <2>1 DEF BullJob
    <3> HIDE DEF job
    <3>2. QED
      BY <1>4, <3>1 DEF BullEnded, InHand
  <2>2. CASE /\ bull[i].state = "rejected"
             /\ bull' = [bull EXCEPT ![i].state = IF bull[i].tries < MaxRetries
                                                  THEN "waiting" ELSE "failed",
                                     ![i].tries = @ + 1]
    <3> DEFINE t == IF bull[i].tries < MaxRetries THEN "waiting" ELSE "failed"
               n == bull[i].tries + 1
               job == [bull[i] EXCEPT !.state = t, !.tries = n]
    <3>1. bull' = [bull EXCEPT ![i] = job]
      BY <1>1, <2>2
    <3>2. t \in {"waiting", "failed"} /\ (t = "waiting" => n <= MaxRetries)
      BY <1>1 DEF BullJob
    <3> HIDE DEF t, n
    <3>3. job.state = t /\ job.tries = n /\ job.stalls = bull[i].stalls
      BY <1>1, Zenon DEF BullJob
    <3> HIDE DEF job
    <3>4. QED
      BY <1>4, <2>2, <3>1, <3>2, <3>3 DEF DeliveriesBounded, BullEnded, InHand
  <2>3. QED
    BY <1>6, <2>1, <2>2 DEF Acknowledge
<1>7. ASSUME NEW i \in JobId, StalledCheck(i) PROVE OneInHand' /\ DeliveriesBounded'
  <2> DEFINE t == IF bull[i].stalls < MaxStalledCount THEN "waiting" ELSE "failed"
             n == bull[i].stalls + 1
             job == [bull[i] EXCEPT !.state = t, !.stalls = n]
  <2>1. bull[i].state = "orphaned" /\ bull' = [bull EXCEPT ![i] = job]
    BY <1>1, <1>7 DEF StalledCheck
  <2>2. t \in {"waiting", "failed"} /\ (t = "waiting" => n <= MaxStalledCount)
    BY <1>1 DEF BullJob, MaxStalledCount
  <2> HIDE DEF t, n
  <2>3. job.state = t /\ job.stalls = n /\ job.tries = bull[i].tries
    BY <1>1, Zenon DEF BullJob
  <2> HIDE DEF job
  <2>4. QED
    BY <1>4, <2>1, <2>2, <2>3 DEF DeliveriesBounded, BullEnded, InHand
<1>8. ASSUME UNCHANGED bull PROVE OneInHand' /\ DeliveriesBounded'
  BY <1>8 DEF OneInHand, DeliveriesBounded
<1>9. QED
  BY <1>3, <1>5, <1>6, <1>7, <1>8 DEF WorkerNext, Seen, Killed, Submitted, workerVars
(* The job in the worker's hands is one, and a live pipeline of the process *)
(* drives it: no delivery is pending for nothing.                           *)
THEOREM WorkerDrivesItsJob == WorkerSpec => []WorkerHoldsOneDriven
<1>1. WorkerInit => OneInHand /\ DeliveriesBounded
  BY QueueAssumption DEF WorkerInit, OneInHand, DeliveriesBounded, InHand, MaxStalledCount
<1>2. WorkerInv /\ OneInHand /\ DeliveriesBounded /\ [WorkerNext]_workerVars
        => (OneInHand /\ DeliveriesBounded)'
  BY BudgetStep
<1>3. WorkerInv /\ OneInHand => WorkerHoldsOneDriven
  BY BullVars DEF WorkerInv, InWorkersHand, OneInHand, WorkerHoldsOneDriven, LiveRuns, RunsOf
<1>4. QED
  BY <1>1, <1>2, <1>3, WorkerInvariant, PTL DEF WorkerSpec

(* BullMQ gives a job up after MAX_RETRIES + 1 attempts that threw or       *)
(* MaxStalledCount + 1 workers that died, whatever pipelines, users and     *)
(* crashes do to its entry in between.                                      *)
THEOREM WorkerDeliversWithinBudget == WorkerSpec => []DeliveriesBounded
<1>1. WorkerInit => OneInHand /\ DeliveriesBounded
  BY QueueAssumption DEF WorkerInit, OneInHand, DeliveriesBounded, InHand, MaxStalledCount
<1>2. WorkerInv /\ OneInHand /\ DeliveriesBounded /\ [WorkerNext]_workerVars
        => (OneInHand /\ DeliveriesBounded)'
  BY BudgetStep
<1>3. QED
  BY <1>1, <1>2, WorkerInvariant, PTL DEF WorkerSpec

(* With the worker too, a running job keeps its pipeline while the process  *)
(* lives.                                                                   *)
LEMMA WorkerDrivenStep ==
  ASSUME WorkerInv, [WorkerNext]_workerVars, up, up', NEW j \in JobId, DrivenJob(j)
  PROVE  DrivenJob(j)'
<1>1. CASE [Next]_vars
  BY <1>1, DrivenStep DEF WorkerInv
<1>2. ASSUME NEW i \in JobId, Deliver(i) PROVE DrivenJob(j)'
  <2>1. EngineInv /\ remote[i] = "held" /\ i \in issued
    BY <1>2 DEF WorkerInv, Deliver
  <2>2. PICK r \in Run : Begun(r, i, TRUE)
    BY <1>2, <2>1, BeginRunIs DEF Deliver
  <2>3. registry'[j].status = "running" => registry[j].status = "running"
    <3>1. CASE registry[i].status \in Active
      BY <1>2, <3>1 DEF Deliver, queueVars
    <3>2. CASE registry[i].status \notin Active
      BY <1>2, <2>1, <3>2, OrchVars DEF Deliver, RestoreJobFromBullMQ, Persist, FreshJob
    <3>3. QED
      BY <3>1, <3>2
  <2>4. QED
    BY <2>2, <2>3, DrivenKept DEF Begun, Drives
<1>3. ASSUME NEW i \in JobId, Submitted(i) PROVE DrivenJob(j)'
  <2>1. registry'[j].status = "running" => registry[j].status = "running"
    <3>1. CASE registry[i].status \in Active /\ SubmitRejected(i)
      BY <3>1, OrchVars DEF SubmitRejected, Persist, Failed, RetriesLeft, Job, WorkerInv
    <3>2. CASE ~(registry[i].status \in Active /\ SubmitRejected(i))
      BY <1>3, <3>2 DEF Submitted, SubmitAccepted, SubmitRejected
    <3>3. QED
      BY <3>1, <3>2
  <2>2. QED
    BY <1>3, <2>1, DrivenKept DEF Submitted, orchVars, Drives
<1>4. QED
  BY <1>1, <1>2, <1>3
     DEF WorkerNext, Seen, Killed, Next, Acknowledge, StalledCheck, workerVars

(* With the worker too, only a boot leaves a running entry without a        *)
(* pipeline: the delivery, the acknowledgements and the refusals of BullMQ  *)
(* take none away.                                                          *)
THEOREM OnlyBootsStrandWithWorker == WorkerSpec => OnlyBootsStrand
<1>1. WorkerInv /\ [WorkerNext]_workerVars =>
        [up /\ up' => \A i \in JobId :
           registry'[i].status = "running" /\ RunsOf(i)' = {} =>
             registry[i].status = "running" /\ RunsOf(i) = {}]_vars
  <2>1. \A i \in JobId : RunsOf(i)' # {} <=> \E r \in Run : Drives(r, i)'
    BY DEF RunsOf, LiveRuns, Drives
  <2>2. QED
    BY <2>1, DrivenIs, WorkerDrivenStep DEF DrivenJob
<1>2. QED
  BY <1>1, WorkerInvariant, PTL DEF WorkerSpec, OnlyBootsStrand

-----------------------------------------------------------------------------
(* What a step of the engine does to the submissions to BullMQ.             *)
LEMMA RemoteStep ==
  ASSUME EngineInv, [Next]_vars, NEW k \in JobId
  PROVE  /\ remote'[k] = "submitting" => remote[k] = "submitting" \/ k \notin issued
         /\ up /\ k \in issued => remote'[k] = remote[k]
<1>1. CASE remote' = remote
  BY <1>1
<1>2. ASSUME NEW i \in JobId, Enqueue(i)
      PROVE  k \in issued => remote'[k] = remote[k]
  <2>1. remote \in [JobId -> {"none", "submitting", "held"}]
    BY DEF EngineInv, OrchTypeOK, QueueTypeOK
  <2>2. QED
    BY <1>2, <2>1 DEF Enqueue
<1>3. CASE Boot
  BY <1>3 DEF Boot, Restart
<1>4. CASE LoopStep
  BY <1>4, <1>1, RunStepGrows
     DEF LoopStep, WatcherTick, ImmediateFires, RetryTimerFires, queueVars, QueueBookkeeping
<1>5. CASE CallStep
  BY <1>1, <1>2, <1>5
     DEF CallStep, ClearDeadLetter, ClearDeadLetterJobs, MapOnly, Post, Resubmit, DirectNew,
         DirectExisting, Cancel, CancelJob, Delete, DeleteJob, Cleanup, CleanupFires,
         Resume, ResumeJob, queueVars
<1>6. CASE Crash \/ UNCHANGED vars
  BY <1>1, <1>6 DEF Crash, queueVars, vars
<1>7. QED
  BY <1>2, <1>3, <1>4, <1>5, <1>6 DEF Next

(* While nothing was dropped, a running job has a pipeline or will be       *)
(* delivered, and a queued one waits for a look at the queue or is on its   *)
(* way to the worker.                                                       *)
Handed(i) == remote[i] = "submitting" \/ Deliverable(i)

Kept(i) == (DrivenJob(i) \/ Deliverable(i)) /\ (Waits(i) \/ Handed(i))

Unforgotten ==
  /\ \A i \in JobId : remote[i] = "submitting" => bull[i].state = "waiting"
  /\ up /\ dropped = {} => \A i \in JobId : Kept(i)

LEMMA UnforgottenEngine ==
  ASSUME {"cancel", "resume"} \cap Calls = {},
         WorkerInv, Unforgotten, [Next]_vars, Observed
  PROVE  Unforgotten'
<1>1. EngineInv
  BY DEF WorkerInv
<1>2. ASSUME NEW k \in JobId, bull[k].state \notin InHand PROVE bull'[k] = bull[k]
  BY <1>2 DEF Observed, InHand
<1>3. ASSUME NEW k \in JobId, remote'[k] = "submitting" PROVE bull'[k].state = "waiting"
  <2>1. bull[k].state = "waiting"
    BY <1>1, <1>3, RemoteStep DEF Unforgotten, WorkerInv
  <2>2. QED
    BY <1>2, <2>1 DEF InHand
<1>4. ASSUME ~up, up', dropped' = {}, NEW i \in JobId PROVE Kept(i)'
  <2>1. registry'[i].status \in Active => Deliverable(i)'
    BY <1>4 DEF Observed
  <2>2. QED
    BY <2>1 DEF Kept, Handed, Waits, DrivenJob, Active
<1>5. ASSUME up, up', dropped' = {}, NEW i \in JobId PROVE Kept(i)'
  <2>1. Kept(i)
    BY <1>5 DEF Observed, Unforgotten
  <2>2. (remote[i] = "submitting" => remote'[i] = "submitting")
        /\ (Deliverable(i) => Deliverable(i)')
    <3>1. remote[i] # "none" => remote'[i] = remote[i]
      BY <1>1, <1>5, RemoteStep DEF WorkerInv
    <3>2. QED
      BY <1>2, <3>1 DEF Deliverable, InHand
  <2>3. DrivenJob(i) => DrivenJob(i)'
    BY <1>1, <1>5, DrivenStep
  <2>4. Waits(i) => Waits(i)' \/ Handed(i)'
    <3>1. UseBullMQ /\ Post(i) => remote'[i] = "submitting"
      BY <1>1 DEF Post, Enqueue, EngineInv, OrchTypeOK, QueueTypeOK
    <3>2. QED
      BY <1>1, <1>5, <3>1, WaitsStep DEF Handed
  <2>5. QED
    BY <2>1, <2>2, <2>3, <2>4 DEF Kept, Handed
<1>6. QED
  BY <1>3, <1>4, <1>5 DEF Unforgotten

LEMMA UnforgottenDeliver ==
  ASSUME WorkerInv, Unforgotten, NEW i \in JobId, Deliver(i)
  PROVE  Unforgotten'
<1>1. /\ EngineInv /\ remote[i] = "held" /\ bull \in [JobId -> BullJob]
      /\ [WorkerNext]_workerVars
  BY BullVars DEF WorkerInv, Deliver, WorkerNext
<1>2. PICK r \in Run : Begun(r, i, TRUE)
  BY <1>1, BeginRunIs DEF Deliver
<1>3. UNCHANGED <<remote, up, dropped>>
  BY DEF Deliver, RestoreJobFromBullMQ, queueVars
<1>4. \A k \in JobId \ {i} : bull'[k] = bull[k]
  BY <1>1 DEF Deliver
<1>5. ASSUME NEW k \in JobId, remote'[k] = "submitting" PROVE bull'[k].state = "waiting"
  BY <1>1, <1>3, <1>4, <1>5 DEF Unforgotten
<1>6. ASSUME up', dropped' = {}, NEW k \in JobId PROVE Kept(k)'
  <2>1. Waits(k)'
    BY <1>2 DEF Waits, Awaited, Begun
  <2>2. CASE k = i
    BY <1>2, <2>1, <2>2 DEF Kept, DrivenJob, Drives, Begun
  <2>3. CASE k # i
    <3>1. Kept(k)
      BY <1>3, <1>6 DEF Unforgotten
    <3>2. Deliverable(k) => Deliverable(k)'
      BY <1>3, <1>4, <2>3 DEF Deliverable
    <3>3. DrivenJob(k) => DrivenJob(k)'
      BY <1>1, <1>3, <1>6, WorkerDrivenStep
    <3>4. QED
      BY <2>1, <3>1, <3>2, <3>3 DEF Kept
  <2>4. QED
    BY <2>2, <2>3
<1>7. QED
  BY <1>5, <1>6 DEF Unforgotten

(* An answer of BullMQ delivers more, never less.                           *)
LEMMA UnforgottenAnswer ==
  ASSUME WorkerInv, Unforgotten, NEW i \in JobId, Acknowledge(i) \/ StalledCheck(i)
  PROVE  Unforgotten'
<1>1. bull \in [JobId -> BullJob] /\ UNCHANGED <<vars, dropped>>
  BY BullVars DEF Acknowledge, StalledCheck
<1>2. UNCHANGED <<registry, remote, up, runs, immediates, timers>>
  BY <1>1 DEF vars, queueVars, orchVars
<1>3. bull[i].state # "waiting" /\ \A k \in JobId \ {i} : bull'[k] = bull[k]
  BY <1>1 DEF Acknowledge, StalledCheck
<1>4. ASSUME NEW k \in JobId, Deliverable(k) PROVE Deliverable(k)'
  <2>1. CASE k # i
    BY <1>2, <1>3, <1>4, <2>1 DEF Deliverable
  <2>2. CASE k = i
    <3>1. bull[i].state = "orphaned" /\ bull[i].stalls < MaxStalledCount /\ StalledCheck(i)
      BY <1>3, <1>4, <2>2 DEF Deliverable, Acknowledge
    <3>2. bull' = [bull EXCEPT ![i].state = "waiting", ![i].stalls = @ + 1]
      BY <3>1 DEF StalledCheck
    <3>3. bull'[i].state = "waiting"
      BY <1>1, <3>2, Zenon DEF BullJob
    <3>4. QED
      BY <1>2, <1>4, <2>2, <3>3 DEF Deliverable
  <2>3. QED
    BY <2>1, <2>2
<1>5. ASSUME NEW k \in JobId PROVE Kept(k) => Kept(k)'
  BY <1>2, <1>4 DEF Kept, Handed, Waits, Awaited, Blocked, DrivenJob, Drives
<1>6. ASSUME NEW k \in JobId, remote'[k] = "submitting" PROVE bull'[k].state = "waiting"
  BY <1>2, <1>3, <1>6 DEF Unforgotten
<1>7. QED
  BY <1>1, <1>2, <1>5, <1>6 DEF Unforgotten

(* A late rejection drops a job whose callback the others may wait for.     *)
LEMMA UnforgottenSubmitted ==
  ASSUME WorkerInv, Unforgotten, NEW i \in JobId, Submitted(i)
  PROVE  Unforgotten'
<1>1. /\ EngineInv /\ registry \in [JobId -> Job] /\ immediates \in Seq(JobId)
      /\ remote \in [JobId -> {"none", "submitting", "held"}] /\ remote[i] = "submitting"
      /\ UNCHANGED <<up, runs, immediates, timers, bull>>
  BY OrchVars DEF Submitted, SubmitAccepted, SubmitRejected, orchVars, WorkerInv, EngineInv,
                  OrchTypeOK, QueueTypeOK
<1>2. \A k \in JobId \ {i} : remote'[k] = remote[k]
  BY <1>1 DEF Submitted, SubmitAccepted, SubmitRejected
<1>3. ASSUME NEW k \in JobId, remote'[k] = "submitting" PROVE bull'[k].state = "waiting"
  <2>1. remote'[i] \in {"none", "held"}
    BY <1>1 DEF Submitted, SubmitAccepted, SubmitRejected
  <2>2. QED
    BY <1>1, <1>2, <1>3, <2>1 DEF Unforgotten
<1>4. CASE SubmitAccepted(i)
  <2>1. registry' = registry /\ remote'[i] = "held"
    BY <1>1, <1>4 DEF SubmitAccepted
  <2>2. Deliverable(i)' /\ \A k \in JobId : Handed(k) => Handed(k)'
    BY <1>1, <1>2, <2>1 DEF Unforgotten, Deliverable, Handed
  <2>3. \A k \in JobId : Deliverable(k) => Deliverable(k)'
    BY <1>1, <1>2, <2>2 DEF Deliverable
  <2>4. \A k \in JobId : Kept(k) => Kept(k)'
    BY <1>1, <2>1, <2>2, <2>3 DEF Kept, Waits, Awaited, Blocked, DrivenJob, Drives
  <2>5. dropped' = {} => dropped = {}
    BY DEF Submitted
  <2>6. QED
    BY <1>1, <1>3, <2>4, <2>5 DEF Unforgotten
<1>5. CASE SubmitRejected(i)
  <2>1. remote'[i] = "none" /\ ~Deliverable(i)
    BY <1>1, <1>5 DEF SubmitRejected, Deliverable
  <2>2. /\ registry'[i].status \notin Active
        /\ \A k \in JobId \ {i} : registry'[k] = registry[k]
    <3>1. CASE registry[i].status \in Active
      <4>1. registry' = [registry EXCEPT ![i] = [@ EXCEPT !.status = "failed", !.retryAt = FALSE]]
        BY <1>1, <1>5, <3>1 DEF SubmitRejected, Persist, Failed, RetriesLeft
      <4>2. QED
        BY <1>1, <4>1 DEF Job, Active
    <3>2. CASE registry[i].status \notin Active
      BY <1>5, <3>2 DEF SubmitRejected
    <3>3. QED
      BY <3>1, <3>2
  <2>3. ASSUME up', dropped' = {}, NEW k \in JobId PROVE Kept(k)'
    <3>1. up /\ dropped = {} /\ ~CallbackDue(i)
      BY <1>1, <2>1, <2>3 DEF Submitted
    <3>2. Kept(k) /\ Kept(i)
      BY <3>1 DEF Unforgotten
    <3>3. CASE k = i
      BY <2>2, <3>3 DEF Kept, DrivenJob, Waits, Active
    <3>4. CASE k # i
      <4>1. (Deliverable(k) => Deliverable(k)') /\ (Handed(k) => Handed(k)')
        BY <1>1, <1>2, <3>4 DEF Deliverable, Handed
      <4>2. DrivenJob(k) => DrivenJob(k)'
        BY <1>1, <2>2, <3>4 DEF DrivenJob, Drives
      <4>3. Awaited => Awaited'
        <5>1. /\ ~(timers[i] > 0) /\ \A n \in DOMAIN immediates : immediates[n] # i
              /\ DOMAIN immediates = 1..Len(immediates)
          BY <1>1, <3>1 DEF CallbackDue
        <5>2. \A n \in 1..Len(immediates) : immediates[n] \in JobId \ {i}
          BY <1>1, <5>1
        <5>3. QED
          BY <1>1, <2>2, <5>1, <5>2 DEF Awaited
      <4>4. Blocked => Blocked' \/ Awaited'
        <5>1. registry[i].status = "running" => Awaited'
          BY <1>1, <2>1, <3>2 DEF Kept, DrivenJob, Drives, Awaited
        <5>2. QED
          BY <2>2, <5>1 DEF Blocked
      <4>5. Waits(k) => Waits(k)'
        BY <2>2, <3>4, <4>3, <4>4 DEF Waits
      <4>6. QED
        BY <3>2, <4>1, <4>2, <4>5 DEF Kept
    <3>5. QED
      BY <3>3, <3>4
  <2>4. QED
    BY <1>3, <2>3 DEF Unforgotten
<1>6. QED
  BY <1>4, <1>5 DEF Submitted

LEMMA UnforgottenStep ==
  ASSUME {"cancel", "resume"} \cap Calls = {},
         WorkerInv, Unforgotten, [WorkerNext]_workerVars
  PROVE  Unforgotten'
<1>1. ASSUME Seen(LoopStep) \/ Seen(CallStep) \/ Seen(Boot) \/ Killed PROVE Unforgotten'
  BY <1>1, UnforgottenEngine DEF Seen, Killed, Next
<1>2. CASE UNCHANGED workerVars
  BY <1>2 DEF workerVars, vars, queueVars, orchVars, Unforgotten, Kept, Handed, Deliverable,
              Waits, Awaited, Blocked, DrivenJob, Drives
<1>3. QED
  BY <1>1, <1>2, UnforgottenDeliver, UnforgottenAnswer, UnforgottenSubmitted DEF WorkerNext

(* No accepted job is forgotten: while something active is left, something  *)
(* is due that nobody has to ask for, unless a job was dropped; however     *)
(* many jobs, pipelines, retry timers, rejections, kills and boots there    *)
(* are.  A cancellation of the job whose timer the others wait for and a    *)
(* resumption, which dispatches nothing, would break it.                    *)
THEOREM NobodyIsForgotten ==
  ASSUME {"cancel", "resume"} \cap Calls = {}
  PROVE  WorkerSpec => []NobodyForgotten
<1>1. WorkerInit => Unforgotten
  BY DEF WorkerInit, Init, QueueInit, NoJob, Unforgotten, Kept, Waits, DrivenJob
<1>2. WorkerInv /\ Unforgotten /\ [WorkerNext]_workerVars => Unforgotten'
  BY UnforgottenStep
<1>3. ASSUME WorkerInv, Unforgotten PROVE NobodyForgotten
  <2> SUFFICES ASSUME ~SomethingDue, dropped = {}, NEW i \in JobId,
                      registry[i].status \in Active
               PROVE  FALSE
    BY DEF NobodyForgotten
  <2>1. /\ up /\ immediates = <<>> /\ \A r \in Run : runs[r].pc = "free"
        /\ \A k \in JobId : ~(timers[k] > 0) /\ remote[k] # "submitting" /\ ~Deliverable(k)
    BY DEF SomethingDue, LiveRuns, Deliverable, BullEnded
  <2>2. ~Awaited
    <3>1. 1..Len(immediates) = {}
      BY <2>1
    <3>2. QED
      BY <2>1, <3>1 DEF Awaited
  <2>3. \A k \in JobId : Kept(k) /\ ~Handed(k)
    BY <1>3, <2>1 DEF Unforgotten, Handed
  <2>4. ~Blocked
    BY <2>1, <2>3 DEF Blocked, Kept, DrivenJob, Drives
  <2>5. QED
    BY <2>2, <2>3, <2>4 DEF Kept, Waits, Blocked, Active
<1>4. QED
  BY <1>1, <1>2, <1>3, WorkerInvariant, PTL DEF WorkerSpec
-----------------------------------------------------------------------------
(* What a step may do to a job that is live before and after it.            *)
Spends(k) ==
  registry[k].status \in Active /\ registry'[k].status \in Active =>
    \/ /\ registry'[k].retryCount = registry[k].retryCount
       /\ registry[k].status = "running" => registry'[k].status = "running"
    \/ /\ registry'[k].retryCount = registry[k].retryCount + 1
       /\ registry'[k].status = "queued" /\ registry[k].retryCount < MaxRetries

LEMMA RunStepSpends ==
  ASSUME EngineInv, NEW r \in Run, RunStep(r), NEW k \in JobId
  PROVE  Spends(k)
<1> DEFINE i == runs[r].job
<1>1. i \in JobId /\ registry \in [JobId -> Job] /\ runs \in [Run -> RunState]
  BY RunStepEnds, OrchVars
<1>2. ASSUME registry'[k] = registry[k] PROVE Spends(k)
  BY <1>2 DEF Spends
<1>3. CASE Stays(r)
  <2>1. registry'[i].retryCount = registry[i].retryCount
    <3>1. CASE PressureHigh(r)
      BY <3>1 DEF PressureHigh, queueVars
    <3>2. CASE Enters(r) /\ runs[r].pc \in {"pressure", "backoff"}
      <4>1. SetMap(StageBegun(registry, i, 1)) /\ 1 \in Stage
        BY <3>2, StageFacts DEF Enters
      <4>2. registry' = StageBegun(registry, i, 1)
        BY <4>1, SetMapKeeps
      <4>3. QED
        BY <1>1, <4>1, <4>2, StageBegunIs
    <3>3. CASE Enters(r) /\ runs[r].pc = "stage"
      <4> DEFINE s == runs[r].stage
                 t == runs[r].stage + 1
                 reg == StageEnded(registry, i, s)
      <4>1. SetMap(StageBegun(reg, i, t)) /\ s \in Stage /\ t \in Stage
        BY <3>3, StageFacts DEF Enters, EngineInv, SlotSound
      <4> HIDE DEF s, t
      <4>2. reg \in [JobId -> Job] /\ reg[i].retryCount = registry[i].retryCount
        BY <1>1, <4>1, StageEndedIs
      <4> HIDE DEF reg
      <4>3. registry' = StageBegun(reg, i, t)
        BY <1>1, <4>1, SetMapKeeps
      <4>4. registry'[i].retryCount = reg[i].retryCount
        BY <1>1, <4>1, <4>2, <4>3, StageBegunIs
      <4>5. QED
        BY <4>2, <4>4
    <3>4. CASE LastStageEnds(r)
      <4>1. SetMap(StageEnded(registry, i, runs[r].stage)) /\ runs[r].stage \in Stage
        BY <3>4 DEF LastStageEnds, EngineInv, SlotSound
      <4>2. registry' = StageEnded(registry, i, runs[r].stage)
        BY <4>1, SetMapKeeps
      <4>3. QED
        BY <1>1, <4>1, <4>2, StageEndedIs
    <3>5. CASE Completes(r) \/ Settles(r) \/ Dies(r)
      <4>1. runs'[r].pc \notin {"backoff", "stage", "virality"}
        BY <1>1, <3>5, FreeRunType DEF Completes, Settles, Retries, GivesUp, Leaves, Frees, Dies, ProcessGone, FreeRun
      <4>2. QED
        BY <1>3, <4>1 DEF Stays
    <3>6. QED
      BY <3>1, <3>2, <3>3, <3>4, <3>5, RunStepEnds DEF Enters
  <2>2. QED
    BY <1>2, <1>3, <2>1 DEF Stays, Spends
<1>4. CASE Quits(r) /\ Completes(r)
  <2>1. registry' = Completed(registry, i)
    BY <1>4, SetMapKeeps DEF Completes
  <2>2. registry'[i].status = "completed"
    BY <1>1, <2>1, CompletedIs
  <2>3. QED
    BY <1>2, <1>4, <2>2 DEF Quits, Spends, Active
<1>5. CASE Quits(r) /\ Settles(r)
  BY <1>2, <1>5 DEF Quits, Settles, Retries, GivesUp, Leaves, Dies, Spends, Active
<1>6. CASE Dies(r)
  BY <1>2, <1>6 DEF Dies
<1>7. QED
  BY <1>3, <1>4, <1>5, <1>6, RunStepEnds

LEMMA StepSpends ==
  ASSUME EngineInv, [Next]_vars, NEW k \in JobId
  PROVE  Spends(k)
<1>r. registry \in [JobId -> Job]
  BY OrchVars
<1>0. ASSUME \/ registry'[k] = registry[k]
             \/ registry[k].status \notin Active
             \/ registry'[k].status \notin Active
      PROVE  Spends(k)
  BY <1>0 DEF Spends
<1>1. ASSUME NEW i \in JobId, NEW caught \in BOOLEAN, StartAndRun(i, caught)
      PROVE  Spends(k)
  <2>1. CASE CanStart(registry, i)
    <3>1. registry' = Started(registry, i)
      BY <1>1, <2>1, StartAndRunIs DEF Launches
    <3>2. /\ registry'[i].status = "running" /\ registry'[i].retryCount = registry[i].retryCount
          /\ \A j \in JobId \ {i} : registry'[j] = registry[j]
      BY <1>r, <3>1, StartedIs
    <3>3. QED
      BY <1>0, <3>2 DEF Spends
  <2>2. CASE ~CanStart(registry, i)
    BY <1>0, <1>1, <2>2, StartAndRunIs DEF StaysPut
  <2>3. QED
    BY <2>1, <2>2
<1>2. ASSUME ImmediateFires PROVE Spends(k)
  <2>1. Head(immediates) \in JobId
    BY <1>2, OrchVars DEF ImmediateFires
  <2>2. QED
    BY <1>1, <1>2, <2>1 DEF ImmediateFires
<1>3. CASE LoopStep
  BY <1>0, <1>1, <1>2, <1>3, RunStepSpends DEF LoopStep, WatcherTick, RetryTimerFires, queueVars
<1>4. ASSUME NEW i \in JobId, Enqueue(i) PROVE Spends(k)
  BY <1>0, <1>4, EnqueueIs DEF Enqueued, Active
<1>5. CASE Removes
  BY <1>0, <1>5 DEF Removes, NoJob, Active
<1>6. ASSUME NEW i \in JobId, CancelJob(i) PROVE Spends(k)
  BY <1>0, <1>6, CancelIs DEF Cancels, Active
<1>7. ASSUME NEW i \in JobId, NEW s \in Stage, ResumeJob(i, s) PROVE Spends(k)
  BY <1>0, <1>7, ResumeIs DEF Resumes, Active, Terminal
<1>8. CASE CallStep
  <2>1. ASSUME NEW i \in JobId, Post(i) \/ DirectNew(i) PROVE Spends(k)
    BY <1>4, <2>1 DEF Post, DirectNew
  <2>2. ASSUME NEW i \in JobId, Resubmit(i) \/ DirectExisting(i) PROVE Spends(k)
    BY <1>0, <2>2 DEF Resubmit, DirectExisting, queueVars
  <2>3. ASSUME NEW i \in JobId, Delete(i) PROVE Spends(k)
    BY <1>5, <2>3, DeleteIs DEF Delete, DeleteJob
  <2>4. ASSUME NEW i \in JobId, Cleanup(i) PROVE Spends(k)
    BY <1>5, <2>4, CleanupIs DEF Cleanup, CleanupFires
  <2>5. ASSUME ClearDeadLetter PROVE Spends(k)
    BY <1>5, <2>5, ClearIs DEF ClearDeadLetter, ClearDeadLetterJobs, MapOnly
  <2>6. ASSUME NEW i \in JobId, Cancel(i) PROVE Spends(k)
    BY <1>6, <2>6 DEF Cancel
  <2>7. ASSUME NEW i \in JobId, NEW s \in Stage, Resume(i, s) PROVE Spends(k)
    BY <1>7, <2>7 DEF Resume
  <2>8. QED
    BY <1>8, <2>1, <2>2, <2>3, <2>4, <2>5, <2>6, <2>7 DEF CallStep
<1>9. CASE Crash \/ UNCHANGED vars
  BY <1>0, <1>9 DEF Crash, vars, queueVars
<1>10. CASE Boot
  BY <1>0, <1>10, RestartIs DEF Boot
<1>11. QED
  BY <1>3, <1>8, <1>9, <1>10 DEF Next

(* failJob is the only way back from the pipeline to the queue, and each    *)
(* time it takes one of the job's MAX_RETRIES, whatever several pipelines   *)
(* of one job, users and crashes do: between being accepted or resumed and  *)
(* its end a job goes back at most MaxRetries times.                        *)
THEOREM RequeuesSpendRetries == Spec => RetriesSpent
<1>1. EngineInv /\ [Next]_vars => [\A i \in JobId : Spends(i)]_vars
  BY StepSpends
<1>2. QED
  BY <1>1, EngineInvariant, PTL DEF Spec, RetriesSpent, Spends

(* The same with the worker: a delivery restores only entries that are gone *)
(* or have ended, and a refusal of Queue.add ends the job.                  *)
THEOREM WorkerSpendsRetries == WorkerSpec => RetriesSpent
<1>1. ASSUME WorkerInv, [WorkerNext]_workerVars, NEW k \in JobId
      PROVE  Spends(k)
  <2>r. registry \in [JobId -> Job]
    BY <1>1, OrchVars DEF WorkerInv
  <2>0. ASSUME registry' = registry PROVE Spends(k)
    BY <2>0 DEF Spends
  <2>1. CASE [Next]_vars
    BY <1>1, <2>1, StepSpends DEF WorkerInv
  <2>2. ASSUME NEW i \in JobId, Deliver(i) PROVE Spends(k)
    <3>1. CASE registry[i].status \in Active
      BY <2>0, <2>2, <3>1 DEF Deliver, queueVars
    <3>2. CASE registry[i].status \notin Active
      BY <2>r, <2>2, <3>2 DEF Deliver, RestoreJobFromBullMQ, Persist, Spends
    <3>3. QED
      BY <3>1, <3>2
  <2>3. ASSUME NEW i \in JobId, Submitted(i) PROVE Spends(k)
    <3>1. CASE registry[i].status \in Active /\ SubmitRejected(i)
      <4>1. registry' = [registry EXCEPT ![i].status = "failed", ![i].retryAt = FALSE]
        BY <3>1 DEF SubmitRejected, Persist, Failed, RetriesLeft
      <4>2. registry'[i].status = "failed" /\ \A j \in JobId \ {i} : registry'[j] = registry[j]
        BY <2>r, <4>1 DEF Job
      <4>3. QED
        BY <4>2 DEF Spends, Active
    <3>2. CASE ~(registry[i].status \in Active /\ SubmitRejected(i))
      BY <2>0, <2>3, <3>2 DEF Submitted, SubmitAccepted, SubmitRejected
    <3>3. QED
      BY <3>1, <3>2
  <2>4. QED
    BY <1>1, <2>1, <2>2, <2>3
       DEF WorkerNext, Seen, Killed, Next, Acknowledge, StalledCheck, workerVars
<1>2. WorkerInv /\ [WorkerNext]_workerVars => [\A i \in JobId : Spends(i)]_vars
  BY <1>1
<1>3. QED
  BY <1>2, WorkerInvariant, PTL DEF WorkerSpec, RetriesSpent, Spends

-----------------------------------------------------------------------------

(* An occupied slot has a number of awaits before it, none when it is free. *)
LEMMA TurnsAreFinite ==
  ASSUME EngineInv, NEW r \in Run
  PROVE  /\ TurnsLeft(r) \in Nat /\ StageCount \in Nat
         /\ TurnsLeft(r) = 0 <=> runs[r].pc = "free"
         /\ runs[r].pc = "stage" => TurnsLeft(r) = StageCount + 2 - runs[r].stage /\ TurnsLeft(r) >= 2
<1>1. runs[r] \in RunState /\ SlotSound(r)
  BY OrchVars DEF EngineInv
<1>2. StageCount \in Nat /\ \A s \in Stage : s \in 1..StageCount
  BY QueueAssumption DEF Stage
<1>3. QED
  BY <1>1, <1>2 DEF SlotSound, TurnsLeft, RunState

(* A pipeline whose await settles has fewer turns left.                     *)
LEMMA TurnsFall ==
  ASSUME EngineInv, NEW r \in Run, RunStep(r)
  PROVE  TurnsLeft(r)' < TurnsLeft(r)
<1>1. TurnsLeft(r) \in Nat /\ TurnsLeft(r) # 0
  BY RunStepEnds, TurnsAreFinite
<1>r. runs \in [Run -> RunState] /\ StageCount \in Nat
  BY OrchVars, TurnsAreFinite
<1>2. CASE runs'[r].pc = "free"
  <2>1. TurnsLeft(r)' = 0
    BY <1>2 DEF TurnsLeft
  <2>2. QED
    BY <1>1, <2>1
<1>3. CASE PressureHigh(r)
  <2>1. runs[r].pc = "pressure" /\ runs'[r].pc = "backoff"
    BY <1>3, <1>r DEF PressureHigh, RunState
  <2>2. QED
    BY <2>1, <1>r DEF TurnsLeft
<1>4. ASSUME NEW p, NEW s, Goes(r, p, s) PROVE runs'[r].pc = p /\ runs'[r].stage = s
  BY <1>4, <1>r DEF Goes, RunState
<1>5. CASE Enters(r)
  <2>1. CASE runs[r].pc \in {"pressure", "backoff"} /\ Goes(r, "stage", 1)
    BY <1>4, <1>r, <2>1 DEF TurnsLeft
  <2>2. CASE runs[r].pc = "stage" /\ Goes(r, "stage", runs[r].stage + 1)
    <3>1. runs[r].stage \in Int
      BY <2>2, QueueAssumption DEF EngineInv, SlotSound, Stage
    <3>2. QED
      BY <1>4, <1>r, <2>2, <3>1 DEF TurnsLeft
  <2>3. QED
    BY <1>5, <2>1, <2>2 DEF Enters
<1>6. CASE LastStageEnds(r)
  <2>1. runs[r].pc = "stage" /\ runs'[r].pc = "virality"
    BY <1>4, <1>6 DEF LastStageEnds
  <2>2. QED
    BY <2>1, TurnsAreFinite DEF TurnsLeft
<1>7. QED
  BY <1>2, <1>3, <1>5, <1>6, RunStepEnds, FreeRunType DEF Quits, Dies, ProcessGone, FreeRun

(* Nothing else moves it but what ends it.                                  *)
LEMMA TurnsStay ==
  ASSUME EngineInv, [Next]_vars, NEW r \in Run, runs[r].pc # "free", ~RunStep(r)
  PROVE  \/ runs'[r].pc = runs[r].pc /\ runs'[r].stage = runs[r].stage
         \/ runs'[r].pc = "free"
<1> DEFINE Same == \/ runs'[r].pc = runs[r].pc /\ runs'[r].stage = runs[r].stage
                   \/ runs'[r].pc = "free"
<1>r. runs \in [Run -> RunState]
  BY OrchVars
<1>1. ASSUME NEW q \in Run, RunStep(q) PROVE Same
  <2>1. q # r
    BY <1>1
  <2>2. CASE Stays(q) \/ Quits(q)
    BY <2>1, <2>2 DEF Stays, Quits
  <2>3. CASE Dies(q)
    BY <2>3, FreeRunType DEF Dies, ProcessGone
  <2>4. QED
    BY <1>1, <2>2, <2>3, RunStepEnds
<1>2. ASSUME NEW q \in Run, WatcherTick(q) PROVE Same
  BY <1>2, <1>r DEF WatcherTick, RunState
<1>3. ASSUME NEW q \in Run, NEW i, NEW caught, Begun(q, i, caught) PROVE Same
  BY <1>3 DEF Begun
<1>4. ASSUME NEW i \in JobId, NEW caught \in BOOLEAN, StartAndRun(i, caught) PROVE Same
  BY <1>3, <1>4, StartAndRunIs DEF Launches, StaysPut
<1>5. CASE ImmediateFires
  <2>1. Head(immediates) \in JobId
    BY <1>5, OrchVars DEF ImmediateFires
  <2>2. QED
    BY <1>4, <1>5, <2>1 DEF ImmediateFires
<1>6. ASSUME NEW i \in JobId, RetryTimerFires(i) PROVE Same
  BY <1>4, <1>6 DEF RetryTimerFires
<1>7. ASSUME NEW i \in JobId, DirectNew(i) PROVE Same
  BY <1>3, <1>7, BeginRunIs DEF DirectNew
<1>8. ASSUME NEW i \in JobId, DirectExisting(i) PROVE Same
  <2>1. PICK d \in Duplicates(registry, i) : BeginRun(d, TRUE)
    BY <1>8 DEF DirectExisting
  <2>2. d \in JobId
    BY <2>1 DEF Duplicates, InState
  <2>3. QED
    BY <1>3, <2>1, <2>2, BeginRunIs
<1>9. ASSUME NEW i \in JobId, Cancel(i) PROVE Same
  BY <1>9, <1>r DEF Cancel, RunState
<1>10. ASSUME CallStep PROVE Same
  <2>1. ASSUME runs' = runs PROVE Same
    BY <2>1
  <2>2. QED
    BY <1>7, <1>8, <1>9, <1>10, <2>1
       DEF CallStep, ClearDeadLetter, Post, Resubmit, Delete, Cleanup, Resume, orchVars
<1>11. CASE Crash
  BY <1>11 DEF Crash, ProcessGone, FreeRun
<1>12. CASE Boot \/ UNCHANGED vars
  BY <1>12 DEF Boot, vars, orchVars
<1>13. QED
  BY <1>1, <1>2, <1>5, <1>6, <1>10, <1>11, <1>12 DEF Next, LoopStep

(* A step leaves it where it is or takes it on.                             *)
LEMMA TurnsStayOrFall ==
  ASSUME EngineInv, [Next]_vars, NEW r \in Run, TurnsLeft(r) # 0
  PROVE  TurnsLeft(r)' = TurnsLeft(r) \/ TurnsLeft(r)' < TurnsLeft(r)
<1>1. CASE RunStep(r)
  BY <1>1, TurnsFall
<1>2. CASE ~RunStep(r)
  <2>1. TurnsLeft(r) \in Nat /\ runs[r].pc # "free"
    BY TurnsAreFinite
  <2>2. CASE runs'[r].pc = runs[r].pc /\ runs'[r].stage = runs[r].stage
    BY <2>2 DEF TurnsLeft
  <2>3. CASE runs'[r].pc = "free"
    <3>1. TurnsLeft(r)' = 0
      BY <2>3 DEF TurnsLeft
    <3>2. QED
      BY <2>1, <3>1
  <2>4. QED
    BY <1>2, <2>1, <2>2, <2>3, TurnsStay
<1>3. QED
  BY <1>1, <1>2

(* One pipeline: the rule for one fair action.                              *)
LEMMA PipelineAdvances ==
  ASSUME NEW r \in Run, NEW k \in Nat \ {0}
  PROVE  FairSpec /\ []Settleable => Advances(r, k)
<1> DEFINE There == TurnsLeft(r) = k
           Past == TurnsLeft(r) < k
<1>1. EngineInv /\ [Next]_vars /\ There => There' \/ Past'
  BY TurnsStayOrFall
<1>2. EngineInv /\ <<RunStep(r)>>_vars /\ There => Past'
  BY TurnsFall
<1>3. EngineInv /\ Settleable /\ There => ENABLED <<RunStep(r)>>_vars
  <2>1. EngineInv /\ There => r \in LiveRuns
    BY TurnsAreFinite DEF LiveRuns
  <2>2. QED
    BY <2>1 DEF Settleable
<1>4. FairSpec => Spec /\ Awaits(r)
  <2>1. RunsAreFair => Awaits(r)
    BY DEF RunsAreFair
  <2>2. QED
    BY <2>1, PTL DEF FairSpec, Fairness
<1> HIDE DEF There, Past
<1>5. FairSpec /\ []Settleable => (There ~> Past)
  BY <1>1, <1>2, <1>3, <1>4, EngineInvariant, PTL DEF Awaits, Spec
<1>6. QED
  BY <1>5 DEF There, Past, Advances

(* With fair awaits no pipeline stands still: as long as an await that is   *)
(* pending can settle (Settleable, which names ENABLED), every pipeline     *)
(* comes closer to its end, or is ended by a crash, for any number of       *)
(* pipelines, jobs and stages (runOrchestration's awaits and withTimeout).  *)
THEOREM PipelinesMoveOn == FairSpec /\ []Settleable => PipelinesAdvance
  BY PipelineAdvances DEF PipelinesAdvance

(* The same beside the worker, whose own steps begin a pipeline or answer   *)
(* BullMQ.                                                                  *)
LEMMA WorkerPipelineAdvances ==
  ASSUME NEW r \in Run, NEW k \in Nat \ {0}
  PROVE  WorkerFairSpec /\ []WorkerAble => Advances(r, k)
<1> DEFINE There == TurnsLeft(r) = k
           Past == TurnsLeft(r) < k
<1>1. WorkerInv /\ [WorkerNext]_workerVars /\ There => There' \/ Past'
  <2> SUFFICES ASSUME WorkerInv, [WorkerNext]_workerVars, There PROVE There' \/ Past'
    OBVIOUS
  <2>0. ASSUME runs'[r] = runs[r] PROVE There'
    BY <2>0 DEF TurnsLeft
  <2>1. CASE [Next]_vars
    BY <2>1, TurnsStayOrFall DEF WorkerInv
  <2>2. ASSUME NEW i \in JobId, Deliver(i) PROVE There'
    <3>1. PICK q \in Run : Begun(q, i, TRUE)
      BY <2>2, BeginRunIs DEF Deliver, WorkerInv
    <3>2. runs[r].pc # "free"
      BY TurnsAreFinite DEF WorkerInv
    <3>3. QED
      BY <2>0, <3>1, <3>2 DEF Begun
  <2>3. ASSUME NEW i \in JobId, Submitted(i) PROVE There'
    BY <2>0, <2>3 DEF Submitted, orchVars
  <2>4. QED
    BY <2>1, <2>2, <2>3
       DEF WorkerNext, Seen, Killed, Next, Acknowledge, StalledCheck, workerVars
<1>2. WorkerInv /\ <<Seen(RunStep(r))>>_workerVars /\ There => Past'
  BY TurnsFall DEF WorkerInv, Seen
<1>3. WorkerInv /\ WorkerAble /\ There => ENABLED <<Seen(RunStep(r))>>_workerVars
  <2>1. WorkerInv /\ There => r \in LiveRuns
    BY TurnsAreFinite DEF LiveRuns, WorkerInv
  <2>2. QED
    BY <2>1 DEF WorkerAble
<1>4. WorkerFairSpec => WorkerSpec /\ RunServed(r)
  <2>1. RunsServed => RunServed(r)
    BY DEF RunsServed
  <2>2. QED
    BY <2>1, PTL DEF WorkerFairSpec, WorkerFairness
<1> HIDE DEF There, Past
<1>5. WorkerFairSpec /\ []WorkerAble => (There ~> Past)
  BY <1>1, <1>2, <1>3, <1>4, WorkerInvariant, PTL DEF RunServed, WorkerSpec
<1>6. QED
  BY <1>5 DEF There, Past, Advances

(* PipelinesMoveOn with workers/video-worker.ts, through kills, deliveries  *)
(* and restorations: what a delivery or a retry timer began goes on.        *)
THEOREM WorkerPipelinesMoveOn == WorkerFairSpec /\ []WorkerAble => PipelinesAdvance
  BY WorkerPipelineAdvances DEF PipelinesAdvance

(* An attempt that ended keeps its answer until it is reported or its       *)
(* worker dies.                                                             *)
LEMMA ReportIsMade ==
  ASSUME NEW i \in JobId
  PROVE  WorkerFairSpec /\ []WorkerAble => ReportComes(i)
<1> DEFINE A == Answered(i)
<1>1. WorkerInv /\ <<Acknowledge(i)>>_workerVars => ~A'
  <2> SUFFICES ASSUME WorkerInv, Acknowledge(i) PROVE ~A'
    OBVIOUS
  <2>0. bull \in [JobId -> BullJob]
    BY BullVars
  <2>1. CASE bull[i].state = "resolved"
    <3>1. bull' = [bull EXCEPT ![i].state = "completed"]
      BY <2>1 DEF Acknowledge
    <3>2. bull'[i].state = "completed"
      BY <2>0, <3>1 DEF BullJob
    <3>3. QED
      BY <3>2 DEF Answered
  <2>2. CASE bull[i].state = "rejected"
    <3>1. bull' = [bull EXCEPT ![i].state = IF bull[i].tries < MaxRetries
                                            THEN "waiting" ELSE "failed",
                               ![i].tries = @ + 1]
      BY <2>2 DEF Acknowledge
    <3>2. bull'[i].state \in {"waiting", "failed"}
      BY <2>0, <3>1 DEF BullJob
    <3>3. QED
      BY <3>2 DEF Answered
  <2>3. QED
    BY <2>1, <2>2 DEF Acknowledge
<1>2. WorkerAble /\ A => ENABLED <<Acknowledge(i)>>_workerVars
  BY DEF WorkerAble
<1>3. WorkerFairSpec => WorkerSpec /\ Reports(i)
  <2>1. AllReport => Reports(i)
    BY DEF AllReport
  <2>2. QED
    BY <2>1, PTL DEF WorkerFairSpec, WorkerFairness
<1> HIDE DEF A
<1>4. WorkerFairSpec /\ []WorkerAble => (A ~> ~A)
  BY <1>1, <1>2, <1>3, WorkerInvariant, PTL DEF Reports, WorkerSpec
<1>5. QED
  BY <1>4 DEF A, ReportComes

(* processJob's promise: BullMQ learns how every attempt ended, or finds    *)
(* the worker dead; no answer is kept for ever.                             *)
THEOREM WorkerReportsComeBack == WorkerFairSpec /\ []WorkerAble => ReportsCome
  BY ReportIsMade DEF ReportsCome

=============================================================================
