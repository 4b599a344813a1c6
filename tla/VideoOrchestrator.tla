-------------------------- MODULE VideoOrchestrator --------------------------
(***************************************************************************)
(* The video engine: the job registry of VideoQueue, the pipelines of      *)
(* services/video-orchestrator.ts that drive jobs through it, and the      *)
(* routes that call both.  With UseBullMQ the routes leave the dispatch to *)
(* the worker that VideoWorker adds; without it this is all there is.      *)
(*                                                                         *)
(* JavaScript runs one callback at a time, so a step is what happens       *)
(* between two awaits.  A pipeline (one call of runOrchestration) lives in *)
(* a slot of runs; setImmediate callbacks wait in the FIFO immediates;     *)
(* retry timers are counted per job.  Several pipelines can be alive, also *)
(* for one job: nothing in runOrchestration prevents it.                   *)
(*                                                                         *)
(* Calls names the routes and faults the environment of an instance uses   *)
(* besides POST /jobs: "resubmit", "direct" (campaign and series routes),  *)
(* "cancel", "delete", "clear", "resume", "cleanup", "crash", and "boot"   *)
(* for a supervisor that starts the process again.                         *)
(***************************************************************************)
EXTENDS VideoQueue, Sequences

CONSTANTS
  Run,            \* slots for live pipelines (bound)
  NoId,           \* the job of a free slot
  Calls,          \* what the environment does, see above
  MaxImmediates,  \* bound: setImmediate callbacks waiting at once
  MaxTimers       \* bound: retry timers pending for one job

ASSUME OrchestratorAssumption ==
  /\ Run # {}
  /\ NoId \notin JobId
  /\ MaxImmediates \in Nat
  /\ MaxTimers \in Nat
  /\ DiskMayFail = FALSE

VARIABLES
  up,          \* the API process is alive
  runs,        \* the pipelines
  immediates,  \* setImmediate callbacks that will call startJob, in order
  timers       \* retry setTimeouts per job

orchVars == <<up, runs, immediates, timers>>
vars == <<queueVars, orchVars>>

RunState == [job       : JobId \cup {NoId},
             pc        : {"free", "pressure", "backoff", "stage", "virality"},
             stage     : {0} \cup Stage,
             aborted   : BOOLEAN,  \* jobAbortController.signal.aborted
             caught    : BOOLEAN,  \* the caller attached a catch handler
             cancelled : BOOLEAN]  \* history: its job was cancelled meanwhile

FreeRun == [job |-> NoId, pc |-> "free", stage |-> 0,
            aborted |-> FALSE, caught |-> FALSE, cancelled |-> FALSE]

LiveRuns == {r \in Run : runs[r].pc # "free"}
RunsOf(i) == {r \in LiveRuns : runs[r].job = i}

SetMap(reg) == IF reg = registry THEN UNCHANGED <<registry, disk>> ELSE Persist(reg)

QueueBookkeeping == <<ttl, remote, issued, clock, reopened>>

-----------------------------------------------------------------------------
(* Mutant: the finally block forgets the queue.                             *)
ScheduleNothing(reg) == immediates

(* scheduleNextQueuedJob on the Map as it is after the pipeline settled.    *)
ScheduleNext(reg) ==
  IF NextJobs(reg) = {} THEN immediates
  ELSE Append(immediates, CHOOSE i \in NextJobs(reg) : TRUE)

(* Mutant: the catch block returns early for errors that are not retryable. *)
SettleOutcomeEarlyReturn(reg, i, retryable) ==
  IF reg[i].status = "cancelled" \/ ~retryable THEN "cancelled"
  ELSE IF reg[i].status \notin Active THEN "rejected"
  ELSE IF RetriesLeft(reg, i, retryable) THEN "retry" ELSE "failed"

(* What the catch block of runOrchestration finds and does.                 *)
SettleOutcome(reg, i, retryable) ==
  IF reg[i].status = "cancelled" THEN "cancelled"
  ELSE IF reg[i].status \notin Active THEN "rejected"    \* failJob throws
  ELSE IF RetriesLeft(reg, i, retryable) THEN "retry" ELSE "failed"

SettledMap(reg, i, retryable) ==
  LET outcome == SettleOutcome(reg, i, retryable) IN
  IF outcome = "retry" THEN RetryScheduled(Failed(reg, i, retryable), i)
  ELSE IF outcome = "failed" THEN Failed(reg, i, retryable) ELSE reg

(* An exit of the process: callbacks, timers and pipelines are gone.        *)
ProcessGone ==
  /\ up' = FALSE
  /\ runs' = [r \in Run |-> FreeRun]
  /\ immediates' = <<>>
  /\ timers' = [i \in JobId |-> 0]

(* The catch and finally blocks, with the Map as reg when the error is      *)
(* thrown.  When failJob throws in a pipeline that a retry timer started,   *)
(* nobody handles the rejection and the process exits.                      *)
Settle(r, reg, retryable) ==
  LET i       == runs[r].job
      outcome == SettleOutcome(reg, i, retryable)
      after   == SettledMap(reg, i, retryable)
  IN  /\ SetMap(after)
      /\ UNCHANGED QueueBookkeeping
      /\ IF outcome = "rejected" /\ ~runs[r].caught
         THEN ProcessGone
         ELSE /\ runs' = [runs EXCEPT ![r] = FreeRun]
              /\ IF outcome = "retry"
                 THEN /\ timers[i] < MaxTimers
                      /\ timers' = [timers EXCEPT ![i] = @ + 1]
                      /\ UNCHANGED immediates
                 ELSE /\ immediates' = ScheduleNext(after)
                      /\ UNCHANGED timers
              /\ UNCHANGED up

(* Mutant: runStage checks neither the abort signal nor the job.            *)
EnterStageUnchecked(r, reg, s) ==
  /\ SetMap(Recorded(reg, runs[r].job, s, FALSE))
  /\ runs' = [runs EXCEPT ![r].pc = "stage", ![r].stage = s]
  /\ UNCHANGED <<QueueBookkeeping, up, immediates, timers>>

(* The start of runStage: the abort check, then recordStageProgress, which  *)
(* throws for a job that is gone or terminal.                               *)
EnterStage(r, reg, s) ==
  IF runs[r].aborted \/ reg[runs[r].job].status \notin Active
  THEN Settle(r, reg, FALSE)
  ELSE /\ SetMap(Recorded(reg, runs[r].job, s, FALSE))
       /\ runs' = [runs EXCEPT ![r].pc = "stage", ![r].stage = s]
       /\ UNCHANGED <<QueueBookkeeping, up, immediates, timers>>

(* runOrchestration up to its first await, in a free slot.                  *)
BeginRun(i, caught) ==
  \E r \in Run \ LiveRuns :
    runs' = [runs EXCEPT ![r] = [FreeRun EXCEPT !.job = i, !.pc = "pressure",
                                                !.caught = caught]]

-----------------------------------------------------------------------------
(* readPressure resolves.  Critical fails the job: the error class decides  *)
(* that PRESSURE_CRITICAL is never retryable, also after the back-off where *)
(* the thrower asks for a retry.                                            *)
PressureCritical(r) ==
  /\ runs[r].pc \in {"pressure", "backoff"}
  /\ Settle(r, registry, FALSE)

PressureHigh(r) ==
  /\ runs[r].pc = "pressure"
  /\ runs' = [runs EXCEPT ![r].pc = "backoff"]
  /\ UNCHANGED <<queueVars, up, immediates, timers>>

PressureAcceptable(r) ==
  /\ runs[r].pc \in {"pressure", "backoff"}
  /\ EnterStage(r, registry, 1)

(* Mutant: the completion is not recorded.                                  *)
StageDoneUnrecorded(r) ==
  /\ runs[r].pc = "stage"
  /\ IF registry[runs[r].job].status \notin Active THEN Settle(r, registry, FALSE)
     ELSE IF runs[r].stage < StageCount THEN EnterStage(r, registry, runs[r].stage + 1)
     ELSE /\ runs' = [runs EXCEPT ![r].pc = "virality"]
          /\ UNCHANGED <<queueVars, up, immediates, timers>>

(* The stage's work resolves: its completion is recorded and the next       *)
(* stage starts before any other callback can run.                          *)
StageDone(r) ==
  LET i == runs[r].job
      s == runs[r].stage
      recorded == Recorded(registry, i, s, TRUE)
  IN  /\ runs[r].pc = "stage"
      /\ IF registry[i].status \notin Active THEN Settle(r, registry, FALSE)
         ELSE IF s < StageCount THEN EnterStage(r, recorded, s + 1)
         ELSE /\ SetMap(recorded)
              /\ runs' = [runs EXCEPT ![r].pc = "virality"]
              /\ UNCHANGED <<QueueBookkeeping, up, immediates, timers>>

(* The stage's work rejects or withTimeout fires.                           *)
StageFails(r, retryable) ==
  /\ runs[r].pc = "stage"
  /\ Settle(r, registry, retryable)

(* Mutant: the job is completed whatever its status.                        *)
FinishUnchecked(r) ==
  /\ runs[r].pc = "virality"
  /\ SetMap(Completed(registry, runs[r].job))
  /\ runs' = [runs EXCEPT ![r] = FreeRun]
  /\ immediates' = ScheduleNext(Completed(registry, runs[r].job))
  /\ UNCHANGED <<QueueBookkeeping, up, timers>>

(* After the virality pass completeJob is called; it throws for a job that  *)
(* is gone or terminal.  There is no abort check on this path.              *)
Finish(r) ==
  LET i == runs[r].job
      completed == Completed(registry, i)
  IN  /\ runs[r].pc = "virality"
      /\ IF registry[i].status \notin Active THEN Settle(r, registry, FALSE)
         ELSE /\ SetMap(completed)
              /\ runs' = [runs EXCEPT ![r] = FreeRun]
              /\ immediates' = ScheduleNext(completed)
              /\ UNCHANGED <<QueueBookkeeping, up, timers>>

(* The 500 ms cancel watcher sees its job cancelled.                        *)
WatcherTick(r) ==
  /\ r \in LiveRuns
  /\ ~runs[r].aborted
  /\ registry[runs[r].job].status = "cancelled"
  /\ runs' = [runs EXCEPT ![r].aborted = TRUE]
  /\ UNCHANGED <<queueVars, up, immediates, timers>>

(* startJob, and a pipeline for the job if it could be started.             *)
StartAndRun(i, caught) ==
  IF CanStart(registry, i)
  THEN /\ SetMap(Started(registry, i))
       /\ BeginRun(i, caught)
  ELSE UNCHANGED <<registry, disk, runs>>

ImmediateFires ==
  /\ immediates # <<>>
  /\ StartAndRun(Head(immediates), TRUE)
  /\ immediates' = Tail(immediates)
  /\ UNCHANGED <<QueueBookkeeping, up, timers>>

RetryTimerFires(i) ==
  /\ timers[i] > 0
  /\ StartAndRun(i, FALSE)
  /\ timers' = [timers EXCEPT ![i] = @ - 1]
  /\ UNCHANGED <<QueueBookkeeping, up, immediates>>

-----------------------------------------------------------------------------
(* POST /jobs: enqueue, then setImmediate for the new or the existing job;  *)
(* with BullMQ enqueue hands the new job over and no callback is set.       *)
Post(i) ==
  /\ up
  /\ Enqueue(i)
  /\ IF UseBullMQ THEN UNCHANGED immediates
     ELSE /\ Len(immediates) < MaxImmediates
          /\ immediates' = Append(immediates, i)
  /\ UNCHANGED <<up, runs, timers>>

Resubmit(i) ==
  /\ up
  /\ ~UseBullMQ
  /\ "resubmit" \in Calls
  /\ Len(immediates) < MaxImmediates
  /\ EnqueueOutcome(registry, i) = "existing"
  /\ \E j \in Duplicates(registry, i) : immediates' = Append(immediates, j)
  /\ UNCHANGED <<queueVars, up, runs, timers>>

(* The campaign and series routes: enqueue, then runOrchestration at once,  *)
(* without startJob.                                                        *)
DirectNew(i) ==
  /\ up
  /\ "direct" \in Calls
  /\ Enqueue(i)
  /\ BeginRun(i, TRUE)
  /\ UNCHANGED <<up, immediates, timers>>

DirectExisting(i) ==
  /\ up
  /\ "direct" \in Calls
  /\ EnqueueOutcome(registry, i) = "existing"
  /\ \E j \in Duplicates(registry, i) : BeginRun(j, TRUE)
  /\ UNCHANGED <<queueVars, up, immediates, timers>>

(* POST /jobs/:id/cancel, and DELETE of a job that is not terminal.         *)
Cancel(i) ==
  /\ up
  /\ "cancel" \in Calls
  /\ CancelJob(i)
  /\ runs' = [r \in Run |-> IF r \in RunsOf(i)
                            THEN [runs[r] EXCEPT !.cancelled = TRUE] ELSE runs[r]]
  /\ UNCHANGED <<up, immediates, timers>>

(* DELETE of a terminal job.                                                *)
Delete(i) ==
  /\ up
  /\ "delete" \in Calls
  /\ registry[i].status \in Terminal
  /\ DeleteJob(i)
  /\ UNCHANGED orchVars

ClearDeadLetter ==
  up /\ "clear" \in Calls /\ ClearDeadLetterJobs /\ UNCHANGED orchVars

(* POST /jobs/:id/resume: re-queues the job and dispatches nothing.         *)
Resume(i, s) ==
  up /\ "resume" \in Calls /\ ResumeJob(i, s) /\ UNCHANGED orchVars

Cleanup(i) ==
  up /\ "cleanup" \in Calls /\ CleanupFires(i) /\ UNCHANGED orchVars

Crash ==
  /\ up
  /\ "crash" \in Calls
  /\ ProcessGone
  /\ UNCHANGED queueVars

(* A supervisor starts the process again: the registry is hydrated, nothing *)
(* is dispatched.                                                           *)
Boot ==
  /\ "boot" \in Calls
  /\ ~up
  /\ Restart
  /\ up' = TRUE
  /\ UNCHANGED <<runs, immediates, timers>>

Init ==
  /\ QueueInit
  /\ up = TRUE
  /\ runs = [r \in Run |-> FreeRun]
  /\ immediates = <<>>
  /\ timers = [i \in JobId |-> 0]

RunStep(r) ==
  \/ PressureCritical(r) \/ PressureHigh(r) \/ PressureAcceptable(r)
  \/ StageDone(r) \/ StageFails(r, TRUE) \/ StageFails(r, FALSE)
  \/ Finish(r)

CallStep ==
  \/ ClearDeadLetter
  \/ \E i \in JobId :
       \/ Post(i) \/ Resubmit(i) \/ DirectNew(i) \/ DirectExisting(i)
       \/ Cancel(i) \/ Delete(i) \/ Cleanup(i)
       \/ \E s \in Stage : Resume(i, s)

(* The callbacks of the event loop.                                         *)
LoopStep ==
  \/ \E r \in Run : RunStep(r) \/ WatcherTick(r)
  \/ ImmediateFires
  \/ \E i \in JobId : RetryTimerFires(i)

Next ==
  \/ LoopStep
  \/ CallStep
  \/ Crash
  \/ Boot

Spec == Init /\ [][Next]_vars

(* The event loop runs every callback that is due and every await settles:  *)
(* model calls and renders carry a timeout (withTimeout), timers fire.      *)
(* Nothing obliges a user to call a route, nor the process to crash.        *)
Awaits(r) == WF_vars(RunStep(r))
Watches(r) == WF_vars(WatcherTick(r))
RunsAreFair == \A r \in Run : Awaits(r) /\ Watches(r)
Fairness ==
  /\ RunsAreFair
  /\ WF_vars(ImmediateFires)
  /\ \A i \in JobId : WF_vars(RetryTimerFires(i))
  /\ WF_vars(Boot)

FairSpec == Spec /\ Fairness
-----------------------------------------------------------------------------
(* Type invariant of the pipelines, callbacks and timers.                   *)
OrchTypeOK ==
  /\ QueueTypeOK
  /\ up \in BOOLEAN
  /\ runs \in [Run -> RunState]
  /\ immediates \in Seq(JobId)
  /\ timers \in [JobId -> Nat]

(* A job is marked running only while some pipeline is working on it: no    *)
(* path out of runOrchestration, by completion, failure, retry,             *)
(* cancellation or deletion, leaves a running entry behind, which would     *)
(* block the single-video lock for good.                                    *)
RunningIsDriven ==
  \A i \in JobId : up /\ registry[i].status = "running" => RunsOf(i) # {}

(* A running entry without a pipeline is only ever one that a boot brought  *)
(* back: no step of a living process takes the last pipeline from a running *)
(* job, or marks a job running that has none.                               *)
OnlyBootsStrand ==
  [][ up /\ up' =>
        \A i \in JobId :
          registry'[i].status = "running" /\ RunsOf(i)' = {} =>
            registry[i].status = "running" /\ RunsOf(i) = {} ]_vars

(* A completed job has a completion record for every stage: the pipeline    *)
(* that completed it went through all of them since they were last reset.   *)
CompletedIsComplete ==
  \A i \in JobId : registry[i].status = "completed" => registry[i].done = Stage

(* No wake-up is lost: while a job is queued something is due that will     *)
(* look at the queue again, a pipeline that will settle, an immediate, or   *)
(* the retry timer of a job that is still queued.                           *)
DispatchPending ==
  (\E i \in JobId : up /\ registry[i].status = "queued") =>
     \/ LiveRuns # {}
     \/ immediates # <<>>
     \/ \E k \in JobId : timers[k] > 0 /\ registry[k].status = "queued"

(* The pipelines run one at a time, as the documentation of the queue says. *)
OnePipelineAtATime == Cardinality(LiveRuns) <= 1

(* At most one pipeline works on a job that is still live: the others have  *)
(* lost theirs to a cancellation they have not noticed yet.                 *)
OneActivePipeline ==
  Cardinality({r \in LiveRuns : registry[runs[r].job].status \in Active}) <= 1

(* A pipeline whose job was cancelled enters no further stage.              *)
CancelledRunStops ==
  [][ \A r \in Run :
        runs[r].cancelled /\ runs'[r].cancelled => runs'[r].stage = runs[r].stage ]_vars

(* A crash between any two steps costs no job and no recorded progress: the *)
(* registry after a boot is the registry at the moment of the crash.        *)
BootRestoresRegistry == [][ ~up /\ up' => registry' = registry ]_vars

(* The process never ends itself: no pipeline error goes unhandled.         *)
NoUnhandledRejection == up

(* Every queued job leaves the queue.                                       *)
QueueDrains ==
  \A i \in JobId : registry[i].status = "queued" ~> registry[i].status # "queued"

(* Every accepted job ends: retries are bounded and no job waits forever.   *)
EveryJobSettles ==
  \A i \in JobId : registry[i].status \in Active ~> registry[i].status \notin Active

(* What the ends of jobs rest on.  A live job never falls back for nothing: *)
(* it stays as it is, is started, or is queued again at the price of one of *)
(* its retries; ...                                                         *)
RetriesSpent ==
  [][ \A i \in JobId : registry[i].status \in Active /\ registry'[i].status \in Active =>
        \/ /\ registry'[i].retryCount = registry[i].retryCount
           /\ registry[i].status = "running" => registry'[i].status = "running"
        \/ /\ registry'[i].retryCount = registry[i].retryCount + 1
           /\ registry'[i].status = "queued" /\ registry[i].retryCount < MaxRetries ]_vars

(* ... and no await holds a pipeline for ever, each that settles takes it   *)
(* closer to its end.                                                       *)
TurnsLeft(r) ==
  CASE runs[r].pc = "free" -> 0
    [] runs[r].pc = "virality" -> 1
    [] runs[r].pc = "stage" -> StageCount + 2 - runs[r].stage
    [] runs[r].pc = "backoff" -> StageCount + 2
    [] runs[r].pc = "pressure" -> StageCount + 3
Advances(r, k) == TurnsLeft(r) = k ~> TurnsLeft(r) < k
PipelinesAdvance == \A r \in Run, k \in Nat \ {0} : Advances(r, k)

(* An await that is pending can settle.                                     *)
Settleable == \A r \in LiveRuns : ENABLED <<RunStep(r)>>_vars
=============================================================================
