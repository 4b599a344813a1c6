------------------------------ MODULE VideoQueue ------------------------------
(***************************************************************************)
(* The job registry of apps/swarmx-api/src/services/video-queue.ts: an     *)
(* in-memory Map of video jobs, the durable snapshot written after every   *)
(* change, the per-job clean-up timers and the hand-over to BullMQ.        *)
(*                                                                         *)
(* Every exported function runs to completion without awaiting (the one    *)
(* exception, reprioritizeQueue, changes nothing that is modelled here),   *)
(* so one call is one step.  The callers are unconstrained: any exported   *)
(* function may be called at any moment, which is what the invariants have *)
(* to survive.  VideoOrchestrator restricts the callers to the real ones.  *)
(*                                                                         *)
(* Abstracted data: progress percentages, time stamps other than the       *)
(* creation order, error records and outputs.  randomUUID never repeats,   *)
(* so the clientRequestId a job is created for is attached to the id it    *)
(* will draw (RequestOf); ids of one request are interchangeable.          *)
(***************************************************************************)
EXTENDS Integers, FiniteSets

CONSTANTS
  JobId,          \* the ids randomUUID may draw
  RequestOf,      \* the clientRequestId of the request each id serves
  NoRequest,      \* RequestOf[i] when the request carries no clientRequestId
  StageCount,     \* number of pipeline stages (VIDEO_JOB_STAGE_ORDER)
  MaxQueueSize,   \* SWARMX_VIDEO_QUEUE_MAX_SIZE
  MaxRetries,     \* SWARMX_VIDEO_MAX_RETRIES
  UseBullMQ,      \* isBullMQEnabled()
  DiskMayFail,    \* whether a snapshot write may fail (it is logged, not thrown)
  MaxClock,       \* bound: how many jobs are created or restored
  MaxRetryCount   \* bound: how far resumeJob may push retryCount

ASSUME QueueAssumption ==
  /\ JobId # {}
  /\ IsFiniteSet(JobId)
  /\ RequestOf \in [JobId -> {RequestOf[i] : i \in JobId}]
  /\ StageCount \in Nat \ {0}
  /\ MaxQueueSize \in Nat \ {0}
  /\ MaxRetries \in Nat
  /\ UseBullMQ \in BOOLEAN
  /\ DiskMayFail \in BOOLEAN
  /\ MaxClock \in Nat
  /\ MaxRetryCount \in Nat

VARIABLES
  registry,   \* the Map: a job record, or NoJob, for every id
  disk,       \* the last snapshot that reached the disk
  ttl,        \* pending scheduleCleanup timers per id
  remote,     \* BullMQ's view of the id: none, add() in flight, held
  issued,     \* ids randomUUID has drawn
  clock,      \* creation counter: the order of createdAt
  reopened    \* history: ids brought back by resumeJob or the BullMQ restore

queueVars == <<registry, disk, ttl, remote, issued, clock, reopened>>

Stage == 1..StageCount
Terminal == {"completed", "failed", "cancelled"}
Active == {"queued", "running"}
Status == Active \cup Terminal \cup {"absent"}

Job == [status     : Status,
        createdAt  : Nat,
        retryCount : Nat,
        done       : SUBSET Stage,    \* stages whose completedAt is set
        retryAt    : BOOLEAN,         \* nextRetryAt is set
        resumeFrom : {0} \cup Stage]  \* resumeFromStage, 0 when unset

NoJob == [status |-> "absent", createdAt |-> 0, retryCount |-> 0,
          done |-> {}, retryAt |-> FALSE, resumeFrom |-> 0]

FreshJob == [status |-> "queued", createdAt |-> clock + 1, retryCount |-> 0,
             done |-> {}, retryAt |-> FALSE, resumeFrom |-> 0]

-----------------------------------------------------------------------------
(* What each exported function does to the Map, as a function of the Map.   *)

InState(reg, S) == {i \in JobId : reg[i].status \in S}

Started(reg, i) == [reg EXCEPT ![i].status = "running", ![i].retryAt = FALSE]

(* Mutant: startJob forgets to count the running jobs.                      *)
CanStartUnlocked(reg, i) == reg[i].status = "queued"

CanStart(reg, i) == /\ reg[i].status = "queued"
                    /\ InState(reg, {"running"}) = {}

Recorded(reg, i, s, completed) ==
  [reg EXCEPT ![i].done = IF completed THEN @ \cup {s} ELSE @ \ {s}]

Completed(reg, i) == [reg EXCEPT ![i].status = "completed", ![i].retryAt = FALSE]

RetriesLeft(reg, i, retryable) == retryable /\ reg[i].retryCount < MaxRetries

Failed(reg, i, retryable) ==
  IF RetriesLeft(reg, i, retryable)
  THEN [reg EXCEPT ![i].status = "queued", ![i].retryCount = @ + 1,
                   ![i].done = {}, ![i].retryAt = FALSE]
  ELSE [reg EXCEPT ![i].status = "failed", ![i].retryAt = FALSE]

RetryScheduled(reg, i) == [reg EXCEPT ![i].retryAt = TRUE]

Cancelled(reg, i) == [reg EXCEPT ![i].status = "cancelled", ![i].retryAt = FALSE]

Without(reg, S) == [i \in JobId |-> IF i \in S THEN NoJob ELSE reg[i]]

(* Mutant: jobs on their last retry are taken for dead letters.             *)
DeadLettersAnyStatus(reg) ==
  {i \in JobId : reg[i].status # "absent" /\ reg[i].retryCount >= MaxRetries}

DeadLetters(reg) ==
  {i \in InState(reg, {"failed"}) : reg[i].retryCount >= MaxRetries}

CanResume(reg, i, s) == /\ reg[i].status \in Terminal
                        /\ s = 1 \/ s - 1 \in reg[i].done

Resumed(reg, i, s) ==
  [reg EXCEPT ![i].status = "queued", ![i].retryCount = @ + 1,
              ![i].retryAt = FALSE, ![i].resumeFrom = s]

(* The job dequeueNext picks: the oldest queued one while nothing runs.     *)
NextJobs(reg) ==
  IF InState(reg, {"running"}) # {} THEN {}
  ELSE {i \in InState(reg, {"queued"}) :
          \A j \in InState(reg, {"queued"}) : reg[i].createdAt <= reg[j].createdAt}

(* Non-terminal jobs that serve the same clientRequestId as id i.           *)
Duplicates(reg, i) ==
  {j \in InState(reg, Active) :
     /\ RequestOf[i] # NoRequest
     /\ RequestOf[j] = RequestOf[i]}

(* Mutants: no idempotency check; a capacity check that admits one too many. *)
EnqueueOutcomeNoDedup(reg, i) ==
  IF Cardinality(InState(reg, Active)) >= MaxQueueSize THEN "full" ELSE "new"
EnqueueOutcomeOneMore(reg, i) ==
  IF Cardinality(InState(reg, Active)) > MaxQueueSize THEN "full"
  ELSE IF Duplicates(reg, i) # {} THEN "existing" ELSE "new"

(* enqueue: the capacity check comes first, the idempotency check second.   *)
EnqueueOutcome(reg, i) ==
  IF Cardinality(InState(reg, Active)) >= MaxQueueSize THEN "full"
  ELSE IF Duplicates(reg, i) # {} THEN "existing" ELSE "new"

-----------------------------------------------------------------------------
(* Mutant: an operation that forgets to persist.                            *)
PersistForgotten(reg) == registry' = reg /\ UNCHANGED disk

(* persistJob / writeSnapshot: the whole Map is written; a failed write is  *)
(* logged and leaves the previous snapshot in place.                        *)
Persist(reg) ==
  /\ registry' = reg
  /\ disk' \in IF DiskMayFail THEN {reg, disk} ELSE {reg}

QueueInit ==
  /\ registry = [i \in JobId |-> NoJob]
  /\ disk = registry
  /\ ttl = [i \in JobId |-> 0]
  /\ remote = [i \in JobId |-> "none"]
  /\ issued = {}
  /\ clock = 0
  /\ reopened = {}

Enqueue(i) ==
  /\ i \notin issued
  /\ clock < MaxClock
  /\ EnqueueOutcome(registry, i) = "new"
  /\ Persist([registry EXCEPT ![i] = FreshJob])
  /\ ttl' = [ttl EXCEPT ![i] = @ + 1]
  /\ remote' = IF UseBullMQ THEN [remote EXCEPT ![i] = "submitting"] ELSE remote
  /\ issued' = issued \cup {i}
  /\ clock' = clock + 1
  /\ UNCHANGED reopened

(* The promise of Queue.add settles: BullMQ holds the job ...               *)
SubmitAccepted(i) ==
  /\ remote[i] = "submitting"
  /\ remote' = [remote EXCEPT ![i] = "held"]
  /\ UNCHANGED <<registry, disk, ttl, issued, clock, reopened>>

(* Mutant: the catch handler does not look at the status first.             *)
SubmitRejectedBlind(i) ==
  /\ remote[i] = "submitting"
  /\ remote' = [remote EXCEPT ![i] = "none"]
  /\ IF registry[i].status # "absent"
     THEN Persist(Failed(registry, i, FALSE))
     ELSE UNCHANGED <<registry, disk>>
  /\ UNCHANGED <<ttl, issued, clock, reopened>>

(* ... or its catch handler fails a job that is still there and not         *)
(* terminal.                                                                *)
SubmitRejected(i) ==
  /\ remote[i] = "submitting"
  /\ remote' = [remote EXCEPT ![i] = "none"]
  /\ IF registry[i].status \in Active
     THEN Persist(Failed(registry, i, FALSE))
     ELSE UNCHANGED <<registry, disk>>
  /\ UNCHANGED <<ttl, issued, clock, reopened>>

(* Operations that change nothing but the Map and its snapshot.             *)
MapOnly(reg) == Persist(reg) /\ UNCHANGED <<ttl, remote, issued, clock, reopened>>

StartJob(i) == CanStart(registry, i) /\ MapOnly(Started(registry, i))

RecordStageProgress(i, s, completed) ==
  registry[i].status \in Active /\ MapOnly(Recorded(registry, i, s, completed))

CompleteStage(i, s) ==
  registry[i].status \in Active /\ MapOnly(Recorded(registry, i, s, TRUE))

(* Mutant: completeJob without assertMutable.                               *)
CompleteJobUnchecked(i) ==
  registry[i].status # "absent" /\ MapOnly(Completed(registry, i))

CompleteJob(i) ==
  registry[i].status \in Active /\ MapOnly(Completed(registry, i))

FailJob(i, retryable) ==
  registry[i].status \in Active /\ MapOnly(Failed(registry, i, retryable))

SetRetrySchedule(i) ==
  registry[i].status = "queued" /\ MapOnly(RetryScheduled(registry, i))

CancelJob(i) ==
  registry[i].status \in Active /\ MapOnly(Cancelled(registry, i))

(* A live job is cancelled first, which writes a snapshot of its own: when  *)
(* the second write fails, that one may stay.                               *)
DeleteJob(i) ==
  /\ registry[i].status # "absent"
  /\ registry' = Without(registry, {i})
  /\ \/ disk' = registry'
     \/ DiskMayFail /\ disk' = disk
     \/ DiskMayFail /\ registry[i].status \in Active /\ disk' = Cancelled(registry, i)
  /\ UNCHANGED <<ttl, remote, issued, clock, reopened>>

ClearDeadLetterJobs ==
  DeadLetters(registry) # {} /\ MapOnly(Without(registry, DeadLetters(registry)))

ClearFailedJobs ==
  /\ InState(registry, {"failed"}) # {}
  /\ MapOnly(Without(registry, InState(registry, {"failed"})))

(* resumeJob puts no cap on retryCount; MaxRetryCount only bounds the model. *)
ResumeJob(i, s) ==
  /\ CanResume(registry, i, s)
  /\ registry[i].retryCount < MaxRetryCount
  /\ Persist(Resumed(registry, i, s))
  /\ reopened' = reopened \cup {i}
  /\ UNCHANGED <<ttl, remote, issued, clock>>

(* The worker found no usable entry for a job BullMQ delivered.             *)
RestoreJobFromBullMQ(i) ==
  /\ remote[i] = "held"
  /\ registry[i].status \in Terminal \cup {"absent"}
  /\ clock < MaxClock
  /\ Persist([registry EXCEPT ![i] = FreshJob])
  /\ ttl' = [ttl EXCEPT ![i] = @ + 1]
  /\ clock' = clock + 1
  /\ reopened' = reopened \cup {i}
  /\ UNCHANGED <<remote, issued>>

(* A scheduleCleanup timer: it fires once, and removes the job only when it *)
(* is terminal at that moment.                                              *)
CleanupFires(i) ==
  /\ ttl[i] > 0
  /\ ttl' = [ttl EXCEPT ![i] = @ - 1]
  /\ IF registry[i].status \in Terminal
     THEN Persist(Without(registry, {i}))
     ELSE UNCHANGED <<registry, disk>>
  /\ UNCHANGED <<remote, issued, clock, reopened>>

(* Mutant: hydration adds the snapshot to what is already in the Map.       *)
RestartMerging ==
  /\ registry' = [i \in JobId |-> IF disk[i].status = "absent" THEN registry[i] ELSE disk[i]]
  /\ ttl' = [i \in JobId |-> IF disk[i].status = "absent" THEN 0 ELSE 1]
  /\ UNCHANGED <<disk, remote, issued, clock, reopened>>

(* The process dies and hydrateVideoQueueFromDisk rebuilds the Map: timers  *)
(* are lost and one is set per restored job; an add() in flight may or may  *)
(* not have reached BullMQ.                                                 *)
Restart ==
  /\ registry' = disk
  /\ ttl' = [i \in JobId |-> IF disk[i].status = "absent" THEN 0 ELSE 1]
  /\ \E landed \in SUBSET {i \in JobId : remote[i] = "submitting"} :
       remote' = [i \in JobId |->
                    IF remote[i] # "submitting" THEN remote[i]
                    ELSE IF i \in landed THEN "held" ELSE "none"]
  /\ UNCHANGED <<disk, issued, clock, reopened>>

QueueNext ==
  \/ \E i \in JobId :
       \/ Enqueue(i) \/ SubmitAccepted(i) \/ SubmitRejected(i)
       \/ StartJob(i) \/ CompleteJob(i) \/ SetRetrySchedule(i)
       \/ CancelJob(i) \/ DeleteJob(i)
       \/ RestoreJobFromBullMQ(i) \/ CleanupFires(i)
       \/ \E retryable \in BOOLEAN : FailJob(i, retryable)
       \/ \E s \in Stage :
            \/ \E completed \in BOOLEAN : RecordStageProgress(i, s, completed)
            \/ CompleteStage(i, s)
            \/ ResumeJob(i, s)
  \/ ClearDeadLetterJobs
  \/ ClearFailedJobs
  \/ Restart

QueueSpec == QueueInit /\ [][QueueNext]_queueVars

-----------------------------------------------------------------------------
(* Type invariant: the registry, the snapshot and the book-keeping around   *)
(* them keep the shape the VideoJob type gives them.                        *)
QueueTypeOK ==
  /\ registry \in [JobId -> Job]
  /\ disk \in [JobId -> Job]
  /\ ttl \in [JobId -> Nat]
  /\ remote \in [JobId -> {"none", "submitting", "held"}]
  /\ issued \subseteq JobId
  /\ clock \in Nat
  /\ reopened \subseteq JobId

(* SINGLE-VIDEO LOCK: whatever the callers do, at most one registry entry   *)
(* is running, also in the snapshot a restart would bring back.             *)
OneRunning(reg) ==
  \A i, j \in JobId :
    (reg[i].status = "running" /\ reg[j].status = "running") => i = j

SingleVideoLock == OneRunning(registry) /\ OneRunning(disk)

(* nextRetryAt and nextRetryDelayMs are on a job only while it is queued:   *)
(* starting, completing, failing, cancelling and resuming all clear them.   *)
ScheduleOnlyQueued(reg) ==
  \A i \in JobId : reg[i].retryAt => reg[i].status = "queued"

RetryScheduleOnlyWhileQueued == ScheduleOnlyQueued(registry)

(* Idempotency: two live jobs serve the same clientRequestId only if one of *)
(* them was brought back from a terminal state by resumeJob or the BullMQ   *)
(* restore, neither of which looks for a duplicate.                         *)
OneLivePerRequest(reg, excused) ==
  \A i, j \in JobId :
    (i # j /\ reg[i].status \in Active /\ j \in Duplicates(reg, i))
       => (i \in excused \/ j \in excused)

LiveRequestsUnique == OneLivePerRequest(registry, reopened)

(* The retry budget: retryCount passes MAX_RETRIES only on a job somebody   *)
(* resumed by hand; failJob alone never overshoots it.                      *)
WithinBudget(reg, excused) ==
  \A i \in JobId : reg[i].retryCount > MaxRetries => i \in excused

RetryBudget == WithinBudget(registry, reopened)

(* Capacity: enqueue admits at most MAX_QUEUE_SIZE live jobs; every live    *)
(* job beyond that was reopened past the capacity check.                    *)
CapacityExceededOnlyByReopening ==
  Cardinality(InState(registry, Active) \ reopened) <= MaxQueueSize

(* Durability: unless a write failed, a crash between any two calls loses   *)
(* nothing, the snapshot always equals the Map.                             *)
SnapshotCurrent == DiskMayFail \/ disk = registry

(* A terminal job changes again only by being removed, resumed (one more on *)
(* its retry count) or restored as a fresh job; a late progress report, a   *)
(* late completion or failure, or a late BullMQ rejection never touches it. *)
TerminalIsFinal ==
  [][ \A i \in JobId :
        registry[i].status \in Terminal /\ registry'[i] # registry[i] =>
          \/ registry'[i] = NoJob
          \/ /\ registry'[i].status = "queued"
             /\ i \in reopened'
             /\ \/ registry'[i].retryCount = registry[i].retryCount + 1
                \/ registry'[i].createdAt > registry[i].createdAt
          \/ registry' = disk ]_queueVars

(* The status of every job follows JobLifecycle (with a reliable disk; a    *)
(* stale snapshot brings back several old statuses at once).                *)
Lifecycle == INSTANCE JobLifecycle WITH status <- [i \in JobId |-> registry[i].status]
ImplementsLifecycle == Lifecycle!Spec
=============================================================================
