--------------------------- MODULE VideoQueueProofs ---------------------------
(***************************************************************************)
(* Theorems about VideoQueue for every set of jobs, every assignment of    *)
(* requests, every limit and both deployments, with or without failing     *)
(* snapshot writes.                                                        *)
(*                                                                         *)
(* The argument: call a Map sound (SoundMap) when it is well typed, has at *)
(* most one running job, schedules retries only on queued jobs, has one    *)
(* live job per request and respects the retry budget, the last two up to  *)
(* the reopened jobs.  Every function of the registry maps sound Maps to   *)
(* sound Maps (the lemmas), so the registry and the snapshot, which is a   *)
(* former registry, are both sound in every state (QueueInv).  The         *)
(* snapshot has to be part of the invariant because a restart makes it the *)
(* registry.                                                               *)
(***************************************************************************)
EXTENDS VideoQueue, FiniteSetTheorems, TLAPS

SoundMap(reg, excused) ==
  /\ reg \in [JobId -> Job]
  /\ OneRunning(reg)
  /\ ScheduleOnlyQueued(reg)
  /\ OneLivePerRequest(reg, excused)
  /\ WithinBudget(reg, excused)

QueueInv ==
  /\ QueueTypeOK
  /\ SoundMap(registry, reopened)
  /\ SoundMap(disk, reopened)

(* The record of an id the Map does not hold, and of a job just created.    *)
LEMMA NoJobType == NoJob \in Job
  BY QueueAssumption DEF NoJob, Job, Status, Active, Terminal, Stage

LEMMA FreshJobType ==
  ASSUME clock \in Nat
  PROVE  /\ FreshJob \in Job
         /\ FreshJob.status = "queued" /\ FreshJob.retryAt = FALSE
         /\ FreshJob.retryCount = 0
         /\ FreshJob.createdAt = clock + 1
  BY QueueAssumption DEF FreshJob, NoJob, Job, Status, Active, Terminal, Stage

(* More excuses keep a Map sound.                                           *)
LEMMA SoundMonotone ==
  ASSUME NEW reg, NEW R, NEW S, SoundMap(reg, R), R \subseteq S
  PROVE  SoundMap(reg, S)
  BY DEF SoundMap, OneLivePerRequest, WithinBudget

(* The job an update may put in the place of job i: it makes nothing run    *)
(* beside a running job or live beside a live duplicate, and schedules and  *)
(* counts retries as the rules say.                                         *)
MayBecome(reg, R, i, job) ==
  /\ job.status = "running" => \A k \in JobId : reg[k].status = "running" => k = i
  /\ job.retryAt => job.status = "queued"
  /\ job.status \in Active =>
       reg[i].status \in Active \/ i \in R \/ Duplicates(reg, i) = {}
  /\ job.retryCount > MaxRetries => reg[i].retryCount > MaxRetries \/ i \in R

(* Such an update keeps a Map sound.                                        *)
LEMMA SoundUpdate ==
  ASSUME NEW reg, NEW R, SoundMap(reg, R),
         NEW i \in JobId, NEW job \in Job, MayBecome(reg, R, i, job),
         NEW new, new = [reg EXCEPT ![i] = job]
  PROVE  SoundMap(new, R)
<1>1. /\ new \in [JobId -> Job]
      /\ new[i] = job
      /\ \A k \in JobId : k # i => new[k] = reg[k]
  BY DEF SoundMap
<1>2. OneRunning(new)
  BY <1>1 DEF OneRunning, SoundMap, MayBecome
<1>3. ScheduleOnlyQueued(new)
  BY <1>1 DEF ScheduleOnlyQueued, SoundMap, MayBecome
<1>4. OneLivePerRequest(new, R)
  <2> SUFFICES ASSUME NEW a \in JobId, NEW b \in JobId, a # b,
                      new[a].status \in Active, b \in Duplicates(new, a)
               PROVE  a \in R \/ b \in R
    BY DEF OneLivePerRequest
  <2>1. /\ new[b].status \in Active
        /\ RequestOf[a] # NoRequest
        /\ RequestOf[b] = RequestOf[a]
    BY DEF Duplicates, InState
  <2>2. CASE a # i /\ b # i
    BY <1>1, <2>1, <2>2 DEF SoundMap, OneLivePerRequest, Duplicates, InState
  <2>3. CASE a = i
    <3>1. reg[b].status \in Active
      BY <1>1, <2>1, <2>3
    <3>2. b \in Duplicates(reg, i)
      BY <2>1, <2>3, <3>1 DEF Duplicates, InState
    <3>3. CASE reg[i].status \in Active
      BY <2>3, <3>2, <3>3 DEF SoundMap, OneLivePerRequest
    <3>4. QED
      BY <1>1, <2>3, <3>2, <3>3 DEF MayBecome
  <2>4. CASE b = i
    <3>1. reg[a].status \in Active
      BY <1>1, <2>4
    <3>2. a \in Duplicates(reg, i)
      BY <2>1, <2>4, <3>1 DEF Duplicates, InState
    <3>3. CASE reg[i].status \in Active
      BY <2>4, <3>2, <3>3 DEF SoundMap, OneLivePerRequest
    <3>4. QED
      BY <1>1, <2>1, <2>4, <3>2, <3>3 DEF MayBecome
  <2>5. QED
    BY <2>2, <2>3, <2>4
<1>5. WithinBudget(new, R)
  BY <1>1 DEF WithinBudget, SoundMap, MayBecome
<1>6. QED
  BY <1>1, <1>2, <1>3, <1>4, <1>5 DEF SoundMap

(* Removing jobs keeps a Map sound.                                         *)
LEMMA SoundWithout ==
  ASSUME NEW reg, NEW R, SoundMap(reg, R), NEW S
  PROVE  SoundMap(Without(reg, S), R)
<1>1. /\ NoJob.status = "absent" /\ NoJob.retryAt = FALSE /\ NoJob.retryCount = 0
      /\ NoJob \in Job
  BY NoJobType DEF NoJob
<1>2. \A k \in JobId : Without(reg, S)[k] = NoJob \/ Without(reg, S)[k] = reg[k]
  BY DEF Without
<1>3. Without(reg, S) \in [JobId -> Job]
  BY <1>1 DEF Without, SoundMap
<1>4. OneRunning(Without(reg, S)) /\ ScheduleOnlyQueued(Without(reg, S))
  BY <1>1, <1>2 DEF SoundMap, OneRunning, ScheduleOnlyQueued
<1>5. OneLivePerRequest(Without(reg, S), R)
  BY <1>1, <1>2 DEF SoundMap, OneLivePerRequest, Duplicates, InState, Active
<1>6. WithinBudget(Without(reg, S), R)
  BY <1>1, <1>2, QueueAssumption DEF SoundMap, WithinBudget
<1>7. QED
  BY <1>3, <1>4, <1>5, <1>6 DEF SoundMap

(* The functions of the registry that change one job keep a Map sound when  *)
(* they are called under the conditions their code checks.                  *)
LEMMA StartedSound ==
  ASSUME NEW reg, NEW R, SoundMap(reg, R), NEW i \in JobId, CanStart(reg, i)
  PROVE  SoundMap(Started(reg, i), R)
<1> DEFINE job == [reg[i] EXCEPT !.status = "running", !.retryAt = FALSE]
<1>1. reg \in [JobId -> Job] /\ reg[i] \in Job
  BY DEF SoundMap
<1>2. /\ job \in Job
      /\ job.status = "running" /\ job.retryAt = FALSE
      /\ job.retryCount = reg[i].retryCount
  BY <1>1 DEF Job, Status, Active
<1>3. Started(reg, i) = [reg EXCEPT ![i] = job]
  BY <1>1 DEF Started
<1>4. /\ reg[i].status = "queued"
      /\ \A k \in JobId : reg[k].status # "running"
  BY DEF CanStart, InState
<1> HIDE DEF job
<1>5. reg[i].status \in Active
  BY <1>4 DEF Active
<1>6. MayBecome(reg, R, i, job)
  BY <1>2, <1>4, <1>5 DEF MayBecome
<1>7. QED
  BY <1>2, <1>3, <1>6, SoundUpdate

LEMMA RecordedSound ==
  ASSUME NEW reg, NEW R, SoundMap(reg, R), NEW i \in JobId,
         NEW s \in Stage, NEW completed \in BOOLEAN
  PROVE  SoundMap(Recorded(reg, i, s, completed), R)
<1> DEFINE job == [reg[i] EXCEPT !.done = IF completed THEN @ \cup {s} ELSE @ \ {s}]
<1>1. reg \in [JobId -> Job] /\ reg[i] \in Job
  BY DEF SoundMap
<1>2. /\ job \in Job
      /\ job.status = reg[i].status /\ job.retryAt = reg[i].retryAt
      /\ job.retryCount = reg[i].retryCount
  BY <1>1 DEF Job
<1>3. Recorded(reg, i, s, completed) = [reg EXCEPT ![i] = job]
  BY <1>1 DEF Recorded
<1>4. /\ reg[i].status = "running" =>
            \A k \in JobId : reg[k].status = "running" => k = i
      /\ reg[i].retryAt => reg[i].status = "queued"
  BY DEF SoundMap, OneRunning, ScheduleOnlyQueued
<1> HIDE DEF job
<1>5. MayBecome(reg, R, i, job)
  BY <1>2, <1>4 DEF MayBecome
<1>6. QED
  BY <1>2, <1>3, <1>5, SoundUpdate

LEMMA FailedSound ==
  ASSUME NEW reg, NEW R, SoundMap(reg, R), NEW i \in JobId,
         reg[i].status \in Active, NEW retryable \in BOOLEAN
  PROVE  SoundMap(Failed(reg, i, retryable), R)
<1>1. reg \in [JobId -> Job] /\ reg[i] \in Job
  BY DEF SoundMap
<1>2. CASE RetriesLeft(reg, i, retryable)
  <2> DEFINE job == [reg[i] EXCEPT !.status = "queued", !.retryCount = @ + 1,
                                   !.done = {}, !.retryAt = FALSE]
  <2>0. reg[i].retryCount + 1 \in Nat
    BY <1>1 DEF Job
  <2>1. /\ job \in Job
        /\ job.status = "queued" /\ job.retryAt = FALSE
        /\ job.retryCount = reg[i].retryCount + 1
    BY <1>1, <2>0, Zenon DEF Job, Status, Active
  <2>2. Failed(reg, i, retryable) = [reg EXCEPT ![i] = job]
    BY <1>1, <1>2 DEF Failed
  <2> HIDE DEF job
  <2>3. reg[i].retryCount \in Nat /\ MaxRetries \in Nat
    BY <1>1, QueueAssumption DEF Job
  <2>4. ~ job.retryCount > MaxRetries
    BY <1>2, <2>1, <2>3 DEF RetriesLeft
  <2>5. MayBecome(reg, R, i, job)
    BY <2>1, <2>4 DEF MayBecome
  <2>6. QED
    BY <2>1, <2>2, <2>5, SoundUpdate
<1>3. CASE ~ RetriesLeft(reg, i, retryable)
  <2> DEFINE job == [reg[i] EXCEPT !.status = "failed", !.retryAt = FALSE]
  <2>1. /\ job \in Job
        /\ job.status = "failed" /\ job.retryAt = FALSE
        /\ job.retryCount = reg[i].retryCount
    BY <1>1 DEF Job, Status, Terminal
  <2>2. Failed(reg, i, retryable) = [reg EXCEPT ![i] = job]
    BY <1>1, <1>3 DEF Failed
  <2> HIDE DEF job
  <2>3. MayBecome(reg, R, i, job)
    BY <2>1 DEF MayBecome, Active
  <2>4. QED
    BY <2>1, <2>2, <2>3, SoundUpdate
<1>4. QED
  BY <1>2, <1>3

LEMMA CompletedSound ==
  ASSUME NEW reg, NEW R, SoundMap(reg, R), NEW i \in JobId
  PROVE  SoundMap(Completed(reg, i), R)
<1> DEFINE job == [reg[i] EXCEPT !.status = "completed", !.retryAt = FALSE]
<1>1. reg \in [JobId -> Job] /\ reg[i] \in Job
  BY DEF SoundMap
<1>2. /\ job \in Job
      /\ job.status = "completed" /\ job.retryAt = FALSE
      /\ job.retryCount = reg[i].retryCount
  BY <1>1 DEF Job, Status, Terminal
<1>3. Completed(reg, i) = [reg EXCEPT ![i] = job]
  BY <1>1 DEF Completed
<1> HIDE DEF job
<1>4. MayBecome(reg, R, i, job)
  BY <1>2 DEF MayBecome, Active
<1>5. QED
  BY <1>2, <1>3, <1>4, SoundUpdate

LEMMA CancelledSound ==
  ASSUME NEW reg, NEW R, SoundMap(reg, R), NEW i \in JobId
  PROVE  SoundMap(Cancelled(reg, i), R)
<1> DEFINE job == [reg[i] EXCEPT !.status = "cancelled", !.retryAt = FALSE]
<1>1. reg \in [JobId -> Job] /\ reg[i] \in Job
  BY DEF SoundMap
<1>2. /\ job \in Job
      /\ job.status = "cancelled" /\ job.retryAt = FALSE
      /\ job.retryCount = reg[i].retryCount
  BY <1>1 DEF Job, Status, Terminal
<1>3. Cancelled(reg, i) = [reg EXCEPT ![i] = job]
  BY <1>1 DEF Cancelled
<1> HIDE DEF job
<1>4. MayBecome(reg, R, i, job)
  BY <1>2 DEF MayBecome, Active
<1>5. QED
  BY <1>2, <1>3, <1>4, SoundUpdate

LEMMA RetryScheduledSound ==
  ASSUME NEW reg, NEW R, SoundMap(reg, R), NEW i \in JobId,
         reg[i].status = "queued"
  PROVE  SoundMap(RetryScheduled(reg, i), R)
<1> DEFINE job == [reg[i] EXCEPT !.retryAt = TRUE]
<1>1. reg \in [JobId -> Job] /\ reg[i] \in Job
  BY DEF SoundMap
<1>2. /\ job \in Job
      /\ job.status = "queued"
      /\ job.retryCount = reg[i].retryCount
  BY <1>1 DEF Job
<1>3. RetryScheduled(reg, i) = [reg EXCEPT ![i] = job]
  BY <1>1 DEF RetryScheduled
<1>4. reg[i].status \in Active
  BY DEF Active
<1> HIDE DEF job
<1>5. MayBecome(reg, R, i, job)
  BY <1>2, <1>4 DEF MayBecome
<1>6. QED
  BY <1>2, <1>3, <1>5, SoundUpdate

(* Resuming checks neither the retry budget nor for duplicates; the job is  *)
(* excused.                                                                 *)
LEMMA ResumedSound ==
  ASSUME NEW reg, NEW R, SoundMap(reg, R), NEW i \in JobId, i \in R,
         NEW s \in Stage
  PROVE  SoundMap(Resumed(reg, i, s), R)
<1> DEFINE job == [reg[i] EXCEPT !.status = "queued", !.retryCount = @ + 1,
                                 !.retryAt = FALSE, !.resumeFrom = s]
<1>1. reg \in [JobId -> Job] /\ reg[i] \in Job
  BY DEF SoundMap
<1>0. reg[i].retryCount + 1 \in Nat /\ s \in {0} \cup Stage
  BY <1>1 DEF Job
<1>2. job \in Job /\ job.status = "queued" /\ job.retryAt = FALSE
  BY <1>1, <1>0, Zenon DEF Job, Status, Active
<1>3. Resumed(reg, i, s) = [reg EXCEPT ![i] = job]
  BY <1>1 DEF Resumed
<1> HIDE DEF job
<1>4. MayBecome(reg, R, i, job)
  BY <1>2 DEF MayBecome
<1>5. QED
  BY <1>2, <1>3, <1>4, SoundUpdate

(* A new job may be added when nothing live serves its request, or when it  *)
(* is excused.                                                              *)
LEMMA FreshSound ==
  ASSUME NEW reg, NEW R, SoundMap(reg, R), NEW i \in JobId, clock \in Nat,
         i \in R \/ Duplicates(reg, i) = {}
  PROVE  SoundMap([reg EXCEPT ![i] = FreshJob], R)
<1>1. ~ FreshJob.retryCount > MaxRetries
  BY FreshJobType, QueueAssumption
<1>2. MayBecome(reg, R, i, FreshJob)
  BY <1>1, FreshJobType DEF MayBecome
<1>3. QED
  BY <1>2, FreshJobType, SoundUpdate

-----------------------------------------------------------------------------
(* Persisting a sound Map leaves the registry and the snapshot sound.       *)
LEMMA PersistSound ==
  ASSUME NEW reg, SoundMap(disk, reopened), reopened \subseteq reopened',
         SoundMap(reg, reopened'), Persist(reg)
  PROVE  SoundMap(registry', reopened') /\ SoundMap(disk', reopened')
<1>1. SoundMap(disk, reopened')
  BY SoundMonotone
<1>2. registry' = reg /\ (disk' = reg \/ disk' = disk)
  BY DEF Persist
<1>3. QED
  BY <1>1, <1>2

(* The same for the operations that change nothing but the Map.             *)
LEMMA MapOnlyInv ==
  ASSUME QueueInv, NEW reg, SoundMap(reg, reopened), MapOnly(reg)
  PROVE  QueueInv'
<1>1. /\ Persist(reg)
      /\ UNCHANGED <<ttl, remote, issued, clock, reopened>>
  BY DEF MapOnly
<1>2. SoundMap(registry', reopened') /\ SoundMap(disk', reopened')
  BY <1>1, PersistSound DEF QueueInv
<1>3. registry' \in [JobId -> Job] /\ disk' \in [JobId -> Job]
  BY <1>2 DEF SoundMap
<1>4. QueueTypeOK'
  BY <1>1, <1>3 DEF QueueTypeOK, QueueInv
<1>5. QED
  BY <1>2, <1>4 DEF QueueInv

(* No job exists initially.                                                 *)
LEMMA QueueInitInv == QueueInit => QueueInv
<1> SUFFICES ASSUME QueueInit PROVE QueueInv
  OBVIOUS
<1>1. NoJob.status = "absent" /\ NoJob.retryAt = FALSE /\ NoJob.retryCount = 0
  BY DEF NoJob
<1>2. /\ registry \in [JobId -> Job] /\ disk = registry
      /\ \A i \in JobId : registry[i] = NoJob
  BY NoJobType DEF QueueInit
<1>3. SoundMap(registry, reopened)
  BY <1>1, <1>2, QueueAssumption
     DEF SoundMap, OneRunning, ScheduleOnlyQueued, OneLivePerRequest,
         WithinBudget, Active
<1>4. QueueTypeOK
  BY <1>2 DEF QueueInit, QueueTypeOK
<1>5. QED
  BY <1>2, <1>3, <1>4 DEF QueueInv

(* Every operation, clean-up and restart keeps the invariant.               *)
LEMMA QueueStepInv == QueueInv /\ [QueueNext]_queueVars => QueueInv'
<1> SUFFICES ASSUME QueueInv, [QueueNext]_queueVars PROVE QueueInv'
  OBVIOUS
<1>a. /\ QueueTypeOK /\ reopened \subseteq JobId
      /\ SoundMap(registry, reopened) /\ SoundMap(disk, reopened)
  BY DEF QueueInv, QueueTypeOK
<1>1. ASSUME NEW i \in JobId, Enqueue(i) PROVE QueueInv'
  <2> DEFINE reg == [registry EXCEPT ![i] = FreshJob]
  <2>1. /\ Persist(reg) /\ reopened' = reopened
        /\ EnqueueOutcome(registry, i) = "new"
    BY <1>1 DEF Enqueue
  <2>2. Duplicates(registry, i) = {}
    BY <2>1 DEF EnqueueOutcome
  <2>3. SoundMap(reg, reopened')
    BY <1>a, <2>1, <2>2, FreshSound DEF QueueTypeOK
  <2> HIDE DEF reg
  <2>4. SoundMap(registry', reopened') /\ SoundMap(disk', reopened')
    BY <1>a, <2>1, <2>3, PersistSound
  <2>5. registry' \in [JobId -> Job] /\ disk' \in [JobId -> Job]
    BY <2>4 DEF SoundMap
  <2>6. QueueTypeOK'
    BY <1>1, <1>a, <2>5 DEF Enqueue, QueueTypeOK
  <2>7. QED
    BY <2>4, <2>6 DEF QueueInv
<1>2. ASSUME NEW i \in JobId, SubmitAccepted(i) PROVE QueueInv'
  <2>1. QueueTypeOK'
    BY <1>2, <1>a DEF SubmitAccepted, QueueTypeOK
  <2>2. registry' = registry /\ disk' = disk /\ reopened' = reopened
    BY <1>2 DEF SubmitAccepted
  <2>3. QED
    BY <1>a, <2>1, <2>2 DEF QueueInv
<1>3. ASSUME NEW i \in JobId, SubmitRejected(i) PROVE QueueInv'
  <2>1. reopened' = reopened
    BY <1>3 DEF SubmitRejected
  <2>2. SoundMap(registry', reopened') /\ SoundMap(disk', reopened')
    <3>1. CASE registry[i].status \in Active
      <4>1. Persist(Failed(registry, i, FALSE))
        BY <1>3, <3>1 DEF SubmitRejected
      <4>2. SoundMap(Failed(registry, i, FALSE), reopened)
        BY <1>a, <3>1, FailedSound
      <4>3. QED
        BY <1>a, <2>1, <4>1, <4>2, PersistSound
    <3>2. CASE registry[i].status \notin Active
      BY <1>3, <1>a, <2>1, <3>2 DEF SubmitRejected
    <3>3. QED
      BY <3>1, <3>2
  <2>3. registry' \in [JobId -> Job] /\ disk' \in [JobId -> Job]
    BY <2>2 DEF SoundMap
  <2>4. QueueTypeOK'
    BY <1>3, <1>a, <2>3 DEF SubmitRejected, QueueTypeOK
  <2>5. QED
    BY <2>2, <2>4 DEF QueueInv
<1>4. ASSUME NEW i \in JobId, StartJob(i) PROVE QueueInv'
  BY <1>4, <1>a, StartedSound, MapOnlyInv DEF StartJob
<1>5. ASSUME NEW i \in JobId, CompleteJob(i) PROVE QueueInv'
  BY <1>5, <1>a, CompletedSound, MapOnlyInv DEF CompleteJob
<1>6. ASSUME NEW i \in JobId, SetRetrySchedule(i) PROVE QueueInv'
  BY <1>6, <1>a, RetryScheduledSound, MapOnlyInv DEF SetRetrySchedule
<1>7. ASSUME NEW i \in JobId, CancelJob(i) PROVE QueueInv'
  BY <1>7, <1>a, CancelledSound, MapOnlyInv DEF CancelJob
<1>8. ASSUME NEW i \in JobId, DeleteJob(i) PROVE QueueInv'
  <2>1. /\ registry' = Without(registry, {i}) /\ reopened' = reopened
        /\ \/ disk' = registry'
           \/ disk' = disk
           \/ disk' = Cancelled(registry, i)
    BY <1>8 DEF DeleteJob
  <2>2. SoundMap(registry', reopened') /\ SoundMap(disk', reopened')
    BY <1>a, <2>1, SoundWithout, CancelledSound
  <2>3. registry' \in [JobId -> Job] /\ disk' \in [JobId -> Job]
    BY <2>2 DEF SoundMap
  <2>4. QueueTypeOK'
    BY <1>8, <1>a, <2>3 DEF DeleteJob, QueueTypeOK
  <2>5. QED
    BY <2>2, <2>4 DEF QueueInv
<1>9. ASSUME NEW i \in JobId, RestoreJobFromBullMQ(i) PROVE QueueInv'
  <2> DEFINE reg == [registry EXCEPT ![i] = FreshJob]
  <2>1. Persist(reg) /\ reopened' = reopened \cup {i}
    BY <1>9 DEF RestoreJobFromBullMQ
  <2>2. SoundMap(registry, reopened')
    BY <1>a, <2>1, SoundMonotone
  <2>3. SoundMap(reg, reopened')
    BY <1>a, <2>1, <2>2, FreshSound DEF QueueTypeOK
  <2> HIDE DEF reg
  <2>4. SoundMap(registry', reopened') /\ SoundMap(disk', reopened')
    BY <1>a, <2>1, <2>3, PersistSound
  <2>5. registry' \in [JobId -> Job] /\ disk' \in [JobId -> Job]
    BY <2>4 DEF SoundMap
  <2>6. QueueTypeOK'
    BY <1>9, <1>a, <2>5 DEF RestoreJobFromBullMQ, QueueTypeOK
  <2>7. QED
    BY <2>4, <2>6 DEF QueueInv
<1>10. ASSUME NEW i \in JobId, CleanupFires(i) PROVE QueueInv'
  <2>1. reopened' = reopened
    BY <1>10 DEF CleanupFires
  <2>2. SoundMap(registry', reopened') /\ SoundMap(disk', reopened')
    <3>1. CASE registry[i].status \in Terminal
      <4>1. Persist(Without(registry, {i}))
        BY <1>10, <3>1 DEF CleanupFires
      <4>2. SoundMap(Without(registry, {i}), reopened)
        BY <1>a, SoundWithout
      <4>3. QED
        BY <1>a, <2>1, <4>1, <4>2, PersistSound
    <3>2. CASE registry[i].status \notin Terminal
      BY <1>10, <1>a, <2>1, <3>2 DEF CleanupFires
    <3>3. QED
      BY <3>1, <3>2
  <2>3. registry' \in [JobId -> Job] /\ disk' \in [JobId -> Job]
    BY <2>2 DEF SoundMap
  <2>4. ttl' \in [JobId -> Nat]
    BY <1>10, <1>a DEF CleanupFires, QueueTypeOK
  <2>5. QueueTypeOK'
    BY <1>10, <1>a, <2>3, <2>4 DEF CleanupFires, QueueTypeOK
  <2>6. QED
    BY <2>2, <2>5 DEF QueueInv
<1>11. ASSUME NEW i \in JobId, NEW retryable \in BOOLEAN, FailJob(i, retryable)
       PROVE  QueueInv'
  BY <1>11, <1>a, FailedSound, MapOnlyInv DEF FailJob
<1>12. ASSUME NEW i \in JobId, NEW s \in Stage, NEW completed \in BOOLEAN,
              RecordStageProgress(i, s, completed)
       PROVE  QueueInv'
  BY <1>12, <1>a, RecordedSound, MapOnlyInv DEF RecordStageProgress
<1>13. ASSUME NEW i \in JobId, NEW s \in Stage, CompleteStage(i, s)
       PROVE  QueueInv'
  BY <1>13, <1>a, RecordedSound, MapOnlyInv DEF CompleteStage
<1>14. ASSUME NEW i \in JobId, NEW s \in Stage, ResumeJob(i, s)
       PROVE  QueueInv'
  <2>1. /\ Persist(Resumed(registry, i, s))
        /\ reopened' = reopened \cup {i}
    BY <1>14 DEF ResumeJob
  <2>2. SoundMap(registry, reopened')
    BY <1>a, <2>1, SoundMonotone
  <2>3. SoundMap(Resumed(registry, i, s), reopened')
    BY <2>1, <2>2, <1>14, ResumedSound
  <2>4. SoundMap(registry', reopened') /\ SoundMap(disk', reopened')
    BY <1>a, <2>1, <2>3, PersistSound
  <2>5. registry' \in [JobId -> Job] /\ disk' \in [JobId -> Job]
    BY <2>4 DEF SoundMap
  <2>6. QueueTypeOK'
    BY <1>14, <1>a, <2>5 DEF ResumeJob, QueueTypeOK
  <2>7. QED
    BY <2>4, <2>6 DEF QueueInv
<1>15. ASSUME ClearDeadLetterJobs PROVE QueueInv'
  BY <1>15, <1>a, SoundWithout, MapOnlyInv DEF ClearDeadLetterJobs
<1>16. ASSUME ClearFailedJobs PROVE QueueInv'
  BY <1>16, <1>a, SoundWithout, MapOnlyInv DEF ClearFailedJobs
<1>17. ASSUME Restart PROVE QueueInv'
  <2>1. registry' = disk /\ disk' = disk /\ reopened' = reopened
    BY <1>17 DEF Restart
  <2>2. ttl' \in [JobId -> Nat]
    BY <1>17 DEF Restart
  <2>3. remote' \in [JobId -> {"none", "submitting", "held"}]
    BY <1>17, <1>a DEF Restart, QueueTypeOK
  <2>4. QueueTypeOK'
    BY <1>17, <1>a, <2>1, <2>2, <2>3 DEF Restart, QueueTypeOK
  <2>5. QED
    BY <1>a, <2>1, <2>4 DEF QueueInv
<1>18. CASE UNCHANGED queueVars
  BY <1>18, <1>a DEF queueVars, QueueInv, QueueTypeOK
<1>19. QED
  BY <1>1, <1>2, <1>3, <1>4, <1>5, <1>6, <1>7, <1>8, <1>9, <1>10, <1>11,
     <1>12, <1>13, <1>14, <1>15, <1>16, <1>17, <1>18 DEF QueueNext

(* The inductive invariant holds in every state.                            *)
THEOREM QueueInvariant == QueueSpec => []QueueInv
  BY QueueInitInv, QueueStepInv, PTL DEF QueueSpec

(* Type correctness of the registry, the snapshot and their book-keeping.   *)
THEOREM QueueTypeCorrect == QueueSpec => []QueueTypeOK
<1>1. QueueInv => QueueTypeOK
  BY DEF QueueInv
<1>2. QED
  BY <1>1, QueueInvariant, PTL

(* startJob's lock: never two running entries, in the Map or the snapshot.  *)
THEOREM SingleVideoLockHolds == QueueSpec => []SingleVideoLock
<1>1. QueueInv => SingleVideoLock
  BY DEF QueueInv, SoundMap, SingleVideoLock
<1>2. QED
  BY <1>1, QueueInvariant, PTL

(* Every exit from the queued state clears nextRetryAt.                     *)
THEOREM RetryScheduleHolds == QueueSpec => []RetryScheduleOnlyWhileQueued
<1>1. QueueInv => RetryScheduleOnlyWhileQueued
  BY DEF QueueInv, SoundMap, RetryScheduleOnlyWhileQueued
<1>2. QED
  BY <1>1, QueueInvariant, PTL

(* Idempotency of enqueue, up to reopened jobs.                             *)
THEOREM LiveRequestsUniqueHolds == QueueSpec => []LiveRequestsUnique
<1>1. QueueInv => LiveRequestsUnique
  BY DEF QueueInv, SoundMap, LiveRequestsUnique
<1>2. QED
  BY <1>1, QueueInvariant, PTL

(* failJob never overshoots MAX_RETRIES; only resumeJob does.               *)
THEOREM RetryBudgetHolds == QueueSpec => []RetryBudget
<1>1. QueueInv => RetryBudget
  BY DEF QueueInv, SoundMap, RetryBudget
<1>2. QED
  BY <1>1, QueueInvariant, PTL

-----------------------------------------------------------------------------
(* Unless a write fails the snapshot equals the Map after every step: every *)
(* operation that changes the Map persists it.                              *)
LEMMA SnapshotStep == SnapshotCurrent /\ [QueueNext]_queueVars => SnapshotCurrent'
<1> SUFFICES ASSUME SnapshotCurrent, [QueueNext]_queueVars, ~ DiskMayFail
             PROVE  disk' = registry'
  BY DEF SnapshotCurrent
<1>1. disk = registry
  BY DEF SnapshotCurrent
<1>2. ASSUME NEW reg, Persist(reg) PROVE disk' = registry'
  BY <1>2 DEF Persist
<1>3. ASSUME NEW reg, MapOnly(reg) PROVE disk' = registry'
  BY <1>2, <1>3 DEF MapOnly
<1>4. ASSUME NEW i \in JobId,
             \/ Enqueue(i) \/ SubmitAccepted(i) \/ SubmitRejected(i)
             \/ RestoreJobFromBullMQ(i) \/ CleanupFires(i)
      PROVE  disk' = registry'
  BY <1>1, <1>2, <1>4 DEF Enqueue, SubmitAccepted, SubmitRejected,
                          RestoreJobFromBullMQ, CleanupFires
<1>5. ASSUME NEW i \in JobId,
             \/ StartJob(i) \/ CompleteJob(i) \/ SetRetrySchedule(i)
             \/ CancelJob(i) \/ DeleteJob(i)
             \/ \E retryable \in BOOLEAN : FailJob(i, retryable)
      PROVE  disk' = registry'
  BY <1>3, <1>5 DEF StartJob, CompleteJob, SetRetrySchedule, CancelJob,
                    DeleteJob, FailJob
<1>6. ASSUME NEW i \in JobId, NEW s \in Stage,
             \/ \E completed \in BOOLEAN : RecordStageProgress(i, s, completed)
             \/ CompleteStage(i, s)
             \/ ResumeJob(i, s)
      PROVE  disk' = registry'
  BY <1>2, <1>3, <1>6 DEF RecordStageProgress, CompleteStage, ResumeJob
<1>7. ASSUME ClearDeadLetterJobs \/ ClearFailedJobs PROVE disk' = registry'
  BY <1>3, <1>7 DEF ClearDeadLetterJobs, ClearFailedJobs
<1>8. CASE Restart
  BY <1>1, <1>8 DEF Restart
<1>9. CASE UNCHANGED queueVars
  BY <1>1, <1>9 DEF queueVars
<1>10. QED
  BY <1>4, <1>5, <1>6, <1>7, <1>8, <1>9 DEF QueueNext

(* Durability of the registry at every moment, with a disk that works.      *)
THEOREM SnapshotCurrentHolds == QueueSpec => []SnapshotCurrent
<1>1. QueueInit => SnapshotCurrent
  BY DEF QueueInit, SnapshotCurrent
<1>2. QED
  BY <1>1, SnapshotStep, PTL DEF QueueSpec

-----------------------------------------------------------------------------
(* Every job in the Map was created no later than now, under an id that was *)
(* drawn.                                                                   *)
Traced(reg, c, ids) ==
  \A i \in JobId : /\ reg[i].createdAt <= c
                   /\ reg[i].status # "absent" => i \in ids

(* The functions of the registry keep createdAt and add no job.             *)
LEMMA TracedKept ==
  ASSUME NEW reg \in [JobId -> Job], Traced(reg, clock, issued),
         NEW i \in JobId, reg[i].status # "absent"
  PROVE  /\ Traced(Started(reg, i), clock, issued)
         /\ Traced(Completed(reg, i), clock, issued)
         /\ Traced(Cancelled(reg, i), clock, issued)
         /\ Traced(RetryScheduled(reg, i), clock, issued)
         /\ \A retryable : Traced(Failed(reg, i, retryable), clock, issued)
         /\ \A s : Traced(Resumed(reg, i, s), clock, issued)
         /\ \A s, completed : Traced(Recorded(reg, i, s, completed), clock, issued)
<1>1. /\ \A k \in JobId : /\ reg[k] \in Job
                          /\ reg[k].createdAt <= clock
                          /\ reg[k].status # "absent" => k \in issued
      /\ i \in issued
  BY DEF Traced
<1>2. /\ Traced(Started(reg, i), clock, issued)
      /\ Traced(Completed(reg, i), clock, issued)
      /\ Traced(Cancelled(reg, i), clock, issued)
      /\ Traced(RetryScheduled(reg, i), clock, issued)
  BY <1>1 DEF Traced, Started, Completed, Cancelled, RetryScheduled, Job
<1>3. ASSUME NEW retryable PROVE Traced(Failed(reg, i, retryable), clock, issued)
  BY <1>1 DEF Traced, Failed, Job
<1>4. ASSUME NEW s PROVE Traced(Resumed(reg, i, s), clock, issued)
  BY <1>1 DEF Traced, Resumed, Job
<1>5. ASSUME NEW s, NEW completed
      PROVE  Traced(Recorded(reg, i, s, completed), clock, issued)
  BY <1>1 DEF Traced, Recorded, Job
<1>6. QED
  BY <1>2, <1>3, <1>4, <1>5

LEMMA TracedWithout ==
  ASSUME NEW reg, Traced(reg, clock, issued), clock \in Nat, NEW S
  PROVE  Traced(Without(reg, S), clock, issued)
<1>1. NoJob.createdAt = 0 /\ NoJob.status = "absent"
  BY DEF NoJob
<1>2. QED
  BY <1>1 DEF Traced, Without

LEMMA TracedFresh ==
  ASSUME NEW reg \in [JobId -> Job], NEW ids, Traced(reg, clock, ids),
         clock \in Nat, NEW i \in JobId, i \in ids
  PROVE  Traced([reg EXCEPT ![i] = FreshJob], clock + 1, ids)
<1>1. \A k \in JobId : reg[k].createdAt \in Nat /\ reg[k].createdAt <= clock
  BY DEF Traced, Job
<1>2. QED
  BY <1>1, FreshJobType DEF Traced

TraceInv == /\ Traced(registry, clock, issued)
            /\ Traced(disk, clock, issued)
            /\ \A i \in JobId : remote[i] # "none" => i \in issued

LEMMA TraceStep == QueueInv /\ TraceInv /\ [QueueNext]_queueVars => TraceInv'
<1> SUFFICES ASSUME QueueInv, TraceInv, [QueueNext]_queueVars
             PROVE  TraceInv'
  OBVIOUS
<1>1. /\ registry \in [JobId -> Job] /\ disk \in [JobId -> Job]
      /\ remote \in [JobId -> {"none", "submitting", "held"}]
      /\ Traced(registry, clock, issued) /\ Traced(disk, clock, issued)
      /\ \A i \in JobId : remote[i] # "none" => i \in issued
      /\ clock \in Nat
  BY DEF QueueInv, QueueTypeOK, TraceInv
<1>2. \A i \in JobId : registry[i].status \in Active \cup Terminal
                          => registry[i].status # "absent"
  BY DEF Active, Terminal
<1>3. ASSUME NEW reg, Persist(reg), Traced(reg, clock, issued), clock' = clock,
             issued' = issued, \A i \in JobId : remote'[i] # "none" => i \in issued
      PROVE  TraceInv'
  <2>1. Traced(registry', clock, issued) /\ Traced(disk', clock, issued)
    BY <1>1, <1>3 DEF Persist
  <2>2. QED
    BY <1>3, <2>1 DEF TraceInv
<1>4. ASSUME NEW reg, MapOnly(reg), Traced(reg, clock, issued) PROVE TraceInv'
  BY <1>1, <1>3, <1>4 DEF MapOnly
<1>5. ASSUME registry' = registry, disk' = disk, clock' = clock,
             issued' = issued, \A i \in JobId : remote'[i] # "none" => i \in issued
      PROVE  TraceInv'
  BY <1>1, <1>5 DEF TraceInv
<1>6. ASSUME NEW i \in JobId, Persist([registry EXCEPT ![i] = FreshJob]),
             clock' = clock + 1, issued' = issued \cup {i},
             \A k \in JobId : remote'[k] # "none" => k \in issued \cup {i}
      PROVE  TraceInv'
  <2>1. Traced(registry, clock, issued') /\ Traced(disk, clock, issued')
    BY <1>1, <1>6 DEF Traced
  <2>2. Traced([registry EXCEPT ![i] = FreshJob], clock + 1, issued')
    BY <1>1, <1>6, <2>1, TracedFresh
  <2>3. Traced(disk, clock + 1, issued')
    BY <1>1, <2>1 DEF Traced, Job
  <2>4. /\ registry' = [registry EXCEPT ![i] = FreshJob]
        /\ disk' = registry' \/ disk' = disk
    BY <1>6 DEF Persist
  <2>5. QED
    BY <1>6, <2>2, <2>3, <2>4 DEF TraceInv
<1>7. ASSUME NEW i \in JobId, Enqueue(i) PROVE TraceInv'
  <2>1. \A k \in JobId : remote'[k] # "none" => k \in issued \cup {i}
    BY <1>1, <1>7 DEF Enqueue
  <2>2. QED
    BY <1>6, <1>7, <2>1 DEF Enqueue
<1>8. ASSUME NEW i \in JobId, RestoreJobFromBullMQ(i) PROVE TraceInv'
  <2>1. /\ i \in issued /\ issued' = issued \cup {i}
        /\ \A k \in JobId : remote'[k] # "none" => k \in issued \cup {i}
    BY <1>1, <1>8 DEF RestoreJobFromBullMQ
  <2>2. QED
    BY <1>6, <1>8, <2>1 DEF RestoreJobFromBullMQ
<1>9. ASSUME NEW i \in JobId, SubmitAccepted(i) PROVE TraceInv'
  <2>1. \A k \in JobId : remote'[k] # "none" => k \in issued
    BY <1>1, <1>9 DEF SubmitAccepted
  <2>2. QED
    BY <1>5, <1>9, <2>1 DEF SubmitAccepted
<1>10. ASSUME NEW i \in JobId, SubmitRejected(i) PROVE TraceInv'
  <2>1. \A k \in JobId : remote'[k] # "none" => k \in issued
    BY <1>1, <1>10 DEF SubmitRejected
  <2>2. CASE registry[i].status \in Active
    BY <1>1, <1>2, <1>3, <1>10, <2>1, <2>2, TracedKept DEF SubmitRejected
  <2>3. CASE registry[i].status \notin Active
    BY <1>5, <1>10, <2>1, <2>3 DEF SubmitRejected
  <2>4. QED
    BY <2>2, <2>3
<1>11. ASSUME NEW i \in JobId, CleanupFires(i) PROVE TraceInv'
  BY <1>1, <1>3, <1>5, <1>11, TracedWithout DEF CleanupFires
<1>12. ASSUME NEW i \in JobId,
              \/ StartJob(i) \/ CompleteJob(i) \/ SetRetrySchedule(i)
              \/ CancelJob(i) \/ \E retryable \in BOOLEAN : FailJob(i, retryable)
       PROVE  TraceInv'
  <2>1. registry[i].status # "absent"
    BY <1>2, <1>12 DEF StartJob, CanStart, CompleteJob, SetRetrySchedule,
                       CancelJob, FailJob
  <2>2. QED
    BY <1>1, <1>4, <1>12, <2>1, TracedKept
       DEF StartJob, CompleteJob, SetRetrySchedule, CancelJob, FailJob
<1>13. ASSUME NEW i \in JobId, NEW s \in Stage,
              \/ \E completed \in BOOLEAN : RecordStageProgress(i, s, completed)
              \/ CompleteStage(i, s)
       PROVE  TraceInv'
  BY <1>1, <1>2, <1>4, <1>13, TracedKept DEF RecordStageProgress, CompleteStage
<1>14. ASSUME NEW i \in JobId, NEW s \in Stage, ResumeJob(i, s) PROVE TraceInv'
  BY <1>1, <1>2, <1>3, <1>14, TracedKept DEF ResumeJob, CanResume
<1>15. ASSUME NEW i \in JobId, DeleteJob(i) PROVE TraceInv'
  <2>1. /\ Traced(Without(registry, {i}), clock, issued)
        /\ registry[i].status # "absent" => Traced(Cancelled(registry, i), clock, issued)
    BY <1>1, TracedWithout, TracedKept
  <2>2. Traced(registry', clock, issued) /\ Traced(disk', clock, issued)
    BY <1>1, <1>15, <2>1 DEF DeleteJob
  <2>3. QED
    BY <1>1, <1>15, <2>2 DEF DeleteJob, TraceInv
<1>16. ASSUME ClearDeadLetterJobs \/ ClearFailedJobs PROVE TraceInv'
  BY <1>1, <1>4, <1>16, TracedWithout DEF ClearDeadLetterJobs, ClearFailedJobs
<1>17. CASE Restart
  <2>1. \A k \in JobId : remote'[k] # "none" => k \in issued
    BY <1>1, <1>17 DEF Restart
  <2>2. QED
    BY <1>1, <1>17, <2>1 DEF Restart, TraceInv
<1>18. CASE UNCHANGED queueVars
  BY <1>1, <1>5, <1>18 DEF queueVars
<1>19. QED
  BY <1>7, <1>8, <1>9, <1>10, <1>11, <1>12, <1>13, <1>14, <1>15, <1>16, <1>17,
     <1>18 DEF QueueNext

LEMMA TraceInvariant == QueueSpec => []TraceInv
<1>1. QueueInit => TraceInv
  <2> SUFFICES ASSUME QueueInit PROVE TraceInv
    OBVIOUS
  <2>1. NoJob.createdAt = 0 /\ NoJob.status = "absent"
    BY DEF NoJob
  <2>2. QED
    BY <2>1 DEF QueueInit, TraceInv, Traced
<1>2. QED
  BY <1>1, QueueInvariant, TraceStep, PTL DEF QueueSpec

-----------------------------------------------------------------------------
(* The functions of the registry change no other job.                       *)
LEMMA OthersKept ==
  ASSUME NEW reg \in [JobId -> Job], NEW i \in JobId, NEW k \in JobId, k # i
  PROVE  /\ Started(reg, i)[k] = reg[k]
         /\ Completed(reg, i)[k] = reg[k]
         /\ Cancelled(reg, i)[k] = reg[k]
         /\ RetryScheduled(reg, i)[k] = reg[k]
         /\ \A retryable : Failed(reg, i, retryable)[k] = reg[k]
         /\ \A s : Resumed(reg, i, s)[k] = reg[k]
         /\ \A s, completed : Recorded(reg, i, s, completed)[k] = reg[k]
<1>1. /\ Started(reg, i)[k] = reg[k]
      /\ Completed(reg, i)[k] = reg[k]
      /\ Cancelled(reg, i)[k] = reg[k]
      /\ RetryScheduled(reg, i)[k] = reg[k]
  BY DEF Started, Completed, Cancelled, RetryScheduled
<1>2. ASSUME NEW retryable PROVE Failed(reg, i, retryable)[k] = reg[k]
  BY DEF Failed
<1>3. ASSUME NEW s PROVE Resumed(reg, i, s)[k] = reg[k]
  BY DEF Resumed
<1>4. ASSUME NEW s, NEW completed PROVE Recorded(reg, i, s, completed)[k] = reg[k]
  BY DEF Recorded
<1>5. QED
  BY <1>1, <1>2, <1>3, <1>4

(* What a step may do to a job that is terminal.                            *)
MayFollowTerminal(k) ==
  \/ registry'[k] = registry[k]
  \/ registry'[k] = NoJob
  \/ /\ registry'[k].status = "queued"
     /\ k \in reopened'
     /\ \/ registry'[k].retryCount = registry[k].retryCount + 1
        \/ registry'[k].createdAt > registry[k].createdAt
  \/ registry' = disk

LEMMA TerminalStep ==
  ASSUME QueueInv, TraceInv, QueueNext, NEW k \in JobId,
         registry[k].status \in Terminal
  PROVE  MayFollowTerminal(k)
<1>1. /\ registry \in [JobId -> Job] /\ clock \in Nat
      /\ registry[k] \in Job
      /\ registry[k].createdAt <= clock /\ k \in issued
  BY DEF QueueInv, QueueTypeOK, TraceInv, Traced, Terminal
<1>2. registry[k].status \notin Active /\ registry[k].status # "queued"
  BY DEF Terminal, Active
<1>3. ASSUME NEW reg, Persist(reg), reg[k] = registry[k] \/ reg[k] = NoJob
      PROVE  MayFollowTerminal(k)
  BY <1>3 DEF Persist, MayFollowTerminal
<1>4. ASSUME NEW reg, MapOnly(reg), reg[k] = registry[k] \/ reg[k] = NoJob
      PROVE  MayFollowTerminal(k)
  BY <1>3, <1>4 DEF MapOnly
<1>5. ASSUME registry' = registry PROVE MayFollowTerminal(k)
  BY <1>5 DEF MayFollowTerminal
<1>6. \A S : Without(registry, S)[k] = registry[k] \/ Without(registry, S)[k] = NoJob
  BY DEF Without
<1>7. ASSUME NEW i \in JobId, Enqueue(i) PROVE MayFollowTerminal(k)
  <2>1. Persist([registry EXCEPT ![i] = FreshJob]) /\ i # k
    BY <1>1, <1>7 DEF Enqueue
  <2>2. QED
    BY <1>1, <1>3, <2>1
<1>8. ASSUME NEW i \in JobId, SubmitAccepted(i) PROVE MayFollowTerminal(k)
  BY <1>5, <1>8 DEF SubmitAccepted
<1>9. ASSUME NEW i \in JobId, SubmitRejected(i) PROVE MayFollowTerminal(k)
  <2>1. CASE registry[i].status \in Active
    <3>1. Persist(Failed(registry, i, FALSE)) /\ i # k
      BY <1>2, <1>9, <2>1 DEF SubmitRejected
    <3>2. Failed(registry, i, FALSE)[k] = registry[k]
      BY <1>1, <3>1 DEF Failed, RetriesLeft
    <3>3. QED
      BY <1>3, <3>1, <3>2
  <2>2. CASE registry[i].status \notin Active
    BY <1>5, <1>9, <2>2 DEF SubmitRejected
  <2>3. QED
    BY <2>1, <2>2
<1>10. ASSUME NEW i \in JobId,
              \/ StartJob(i) \/ CompleteJob(i) \/ SetRetrySchedule(i)
              \/ CancelJob(i) \/ \E retryable \in BOOLEAN : FailJob(i, retryable)
       PROVE  MayFollowTerminal(k)
  <2>1. i # k
    BY <1>2, <1>10 DEF StartJob, CanStart, CompleteJob, SetRetrySchedule,
                       CancelJob, FailJob
  <2>2. QED
    BY <1>1, <1>4, <1>10, <2>1, OthersKept
       DEF StartJob, CompleteJob, SetRetrySchedule, CancelJob, FailJob
<1>11. ASSUME NEW i \in JobId, NEW s \in Stage,
              \/ \E completed \in BOOLEAN : RecordStageProgress(i, s, completed)
              \/ CompleteStage(i, s)
       PROVE  MayFollowTerminal(k)
  <2>1. i # k
    BY <1>2, <1>11 DEF RecordStageProgress, CompleteStage
  <2>2. \A completed : Recorded(registry, i, s, completed)[k] = registry[k]
    BY <1>1, <2>1, OthersKept
  <2>3. ASSUME NEW completed, MapOnly(Recorded(registry, i, s, completed))
        PROVE  MayFollowTerminal(k)
    BY <1>4, <2>2, <2>3
  <2>4. QED
    BY <1>11, <2>3 DEF RecordStageProgress, CompleteStage
<1>12. ASSUME NEW i \in JobId, NEW s \in Stage, ResumeJob(i, s)
       PROVE  MayFollowTerminal(k)
  <2>1. registry' = Resumed(registry, i, s) /\ reopened' = reopened \cup {i}
    BY <1>12 DEF ResumeJob, Persist
  <2>2. CASE i = k
    <3>1. /\ registry'[k].status = "queued"
          /\ registry'[k].retryCount = registry[k].retryCount + 1
      BY <1>1, <2>1, <2>2 DEF Resumed, Job
    <3>2. QED
      BY <2>1, <2>2, <3>1 DEF MayFollowTerminal
  <2>3. CASE i # k
    BY <1>1, <2>1, <2>3, OthersKept DEF MayFollowTerminal
  <2>4. QED
    BY <2>2, <2>3
<1>13. ASSUME NEW i \in JobId, RestoreJobFromBullMQ(i) PROVE MayFollowTerminal(k)
  <2>1. /\ registry' = [registry EXCEPT ![i] = FreshJob]
        /\ reopened' = reopened \cup {i}
    BY <1>13 DEF RestoreJobFromBullMQ, Persist
  <2>2. CASE i = k
    <3>1. /\ registry'[k] = FreshJob
          /\ FreshJob.status = "queued" /\ FreshJob.createdAt = clock + 1
      BY <1>1, <2>1, <2>2, FreshJobType
    <3>2. registry'[k].createdAt > registry[k].createdAt
      <4>1. registry[k].createdAt \in Nat
        BY <1>1 DEF Job
      <4>2. QED
        BY <1>1, <3>1, <4>1
    <3>3. QED
      BY <2>1, <2>2, <3>1, <3>2 DEF MayFollowTerminal
  <2>3. CASE i # k
    BY <1>1, <2>1, <2>3 DEF MayFollowTerminal
  <2>4. QED
    BY <2>2, <2>3
<1>14. ASSUME NEW i \in JobId, CleanupFires(i) PROVE MayFollowTerminal(k)
  BY <1>3, <1>5, <1>6, <1>14 DEF CleanupFires
<1>15. ASSUME NEW i \in JobId, DeleteJob(i) PROVE MayFollowTerminal(k)
  BY <1>6, <1>15 DEF DeleteJob, MayFollowTerminal
<1>16. ASSUME ClearDeadLetterJobs \/ ClearFailedJobs PROVE MayFollowTerminal(k)
  BY <1>4, <1>6, <1>16 DEF ClearDeadLetterJobs, ClearFailedJobs
<1>17. CASE Restart
  BY <1>17 DEF Restart, MayFollowTerminal
<1>18. QED
  BY <1>7, <1>8, <1>9, <1>10, <1>11, <1>12, <1>13, <1>14, <1>15, <1>16, <1>17
     DEF QueueNext

(* assertMutable and the status checks of the late handlers: no late report *)
(* changes a job that has ended.                                            *)
THEOREM TerminalIsFinalHolds == QueueSpec => TerminalIsFinal
<1> DEFINE Step == \A i \in JobId :
              registry[i].status \in Terminal /\ registry'[i] # registry[i] =>
                \/ registry'[i] = NoJob
                \/ /\ registry'[i].status = "queued"
                   /\ i \in reopened'
                   /\ \/ registry'[i].retryCount = registry[i].retryCount + 1
                      \/ registry'[i].createdAt > registry[i].createdAt
                \/ registry' = disk
<1>1. QueueInv /\ TraceInv /\ [QueueNext]_queueVars => [Step]_queueVars
  <2>1. ASSUME QueueInv, TraceInv, QueueNext PROVE Step
    BY <2>1, TerminalStep DEF MayFollowTerminal
  <2>2. QED
    BY <2>1
<1>2. QED
  BY <1>1, QueueInvariant, TraceInvariant, PTL DEF QueueSpec, TerminalIsFinal

-----------------------------------------------------------------------------
(* The limit of enqueue on a Map, up to the reopened jobs.                  *)
FewLive(reg, excused) ==
  Cardinality(InState(reg, Active) \ excused) <= MaxQueueSize

CapacityInv == FewLive(registry, reopened) /\ FewLive(disk, reopened)

(* A Map without further live jobs stays within the limit.                  *)
LEMMA FewerLive ==
  ASSUME NEW reg, NEW new, NEW R, NEW S, R \subseteq S, FewLive(reg, R),
         \A k \in JobId :
           new[k].status \in Active => reg[k].status \in Active \/ k \in S
  PROVE  FewLive(new, S)
<1> DEFINE A == InState(reg, Active) \ R
           B == InState(new, Active) \ S
<1>1. A \subseteq JobId /\ B \subseteq A
  BY DEF InState
<1>2. IsFiniteSet(A)
  BY <1>1, QueueAssumption, FS_Subset
<1>3. /\ Cardinality(A) \in Nat /\ Cardinality(B) \in Nat
      /\ Cardinality(B) <= Cardinality(A)
  BY <1>1, <1>2, FS_Subset, FS_CardinalityType
<1>4. Cardinality(A) <= MaxQueueSize
  BY DEF FewLive
<1> HIDE DEF A, B
<1>5. Cardinality(B) <= MaxQueueSize
  BY <1>3, <1>4, QueueAssumption
<1>6. QED
  BY <1>5 DEF FewLive, B

(* A new job finds a place: enqueue counted less than the limit.            *)
LEMMA OneMoreLive ==
  ASSUME NEW R, NEW i \in JobId, NEW new,
         EnqueueOutcome(registry, i) = "new",
         \A k \in JobId : k # i => new[k] = registry[k]
  PROVE  FewLive(new, R)
<1> DEFINE A == InState(registry, Active)
           B == InState(new, Active) \ R
<1>1. A \subseteq JobId /\ B \subseteq A \cup {i}
  BY DEF InState
<1>2. IsFiniteSet(A)
  BY <1>1, QueueAssumption, FS_Subset
<1>3. ~ Cardinality(A) >= MaxQueueSize
  BY DEF EnqueueOutcome
<1> HIDE DEF A, B
<1>4. /\ IsFiniteSet(A \cup {i})
      /\ Cardinality(A) \in Nat
      /\ Cardinality(A \cup {i}) <= Cardinality(A) + 1
  <2>1. Cardinality(A) \in Nat
    BY <1>2, FS_CardinalityType
  <2>2. /\ IsFiniteSet(A \cup {i})
        /\ \/ Cardinality(A \cup {i}) = Cardinality(A)
           \/ Cardinality(A \cup {i}) = Cardinality(A) + 1
    BY <1>2, FS_AddElement, Zenon
  <2>3. QED
    BY <2>1, <2>2
<1>5. /\ Cardinality(B) <= Cardinality(A \cup {i})
      /\ Cardinality(B) \in Nat /\ Cardinality(A \cup {i}) \in Nat
  <2>1. IsFiniteSet(B) /\ Cardinality(B) <= Cardinality(A \cup {i})
    BY <1>1, <1>4, FS_Subset
  <2>2. QED
    BY <1>4, <2>1, FS_CardinalityType
<1>6. Cardinality(B) <= MaxQueueSize
  BY <1>3, <1>4, <1>5, QueueAssumption
<1>7. QED
  BY <1>6 DEF FewLive, B

(* Every operation keeps the limit, in the Map and in the snapshot.         *)
LEMMA CapacityStep ==
  QueueInv /\ CapacityInv /\ [QueueNext]_queueVars => CapacityInv'
<1> SUFFICES ASSUME QueueInv, CapacityInv, [QueueNext]_queueVars
             PROVE  CapacityInv'
  OBVIOUS
<1>1. registry \in [JobId -> Job]
  BY DEF QueueInv, QueueTypeOK
<1>2. ASSUME NEW reg, Persist(reg), reopened \subseteq reopened',
             FewLive(reg, reopened')
      PROVE  CapacityInv'
  <2>1. FewLive(disk, reopened')
    BY <1>2, FewerLive DEF CapacityInv
  <2>2. registry' = reg /\ (disk' = reg \/ disk' = disk)
    BY <1>2 DEF Persist
  <2>3. FewLive(registry', reopened') /\ FewLive(disk', reopened')
    BY <1>2, <2>1, <2>2
  <2>4. QED
    BY <2>3 DEF CapacityInv, FewLive, InState
<1>3. ASSUME NEW reg, Persist(reg), reopened \subseteq reopened',
             \A k \in JobId : reg[k].status \in Active =>
                registry[k].status \in Active \/ k \in reopened'
      PROVE  CapacityInv'
  <2>1. FewLive(reg, reopened')
    BY <1>3, FewerLive DEF CapacityInv
  <2>2. QED
    BY <1>2, <1>3, <2>1
<1>4. ASSUME NEW reg, MapOnly(reg), NEW i \in JobId, registry[i].status \in Active,
             \A k \in JobId : k # i => reg[k] = registry[k]
      PROVE  CapacityInv'
  BY <1>3, <1>4 DEF MapOnly
<1>5. ASSUME registry' = registry, disk' = disk, reopened' = reopened
      PROVE  CapacityInv'
  BY <1>5 DEF CapacityInv, FewLive, InState
<1>6. \A S : \A k \in JobId :
        Without(registry, S)[k].status \in Active => registry[k].status \in Active
  BY DEF Without, NoJob, Active
<1>7. ASSUME NEW i \in JobId, Enqueue(i) PROVE CapacityInv'
  <2>1. /\ Persist([registry EXCEPT ![i] = FreshJob]) /\ reopened' = reopened
        /\ EnqueueOutcome(registry, i) = "new"
    BY <1>7 DEF Enqueue
  <2>2. FewLive([registry EXCEPT ![i] = FreshJob], reopened')
    BY <1>1, <2>1, OneMoreLive
  <2>3. QED
    BY <1>2, <2>1, <2>2
<1>8. ASSUME NEW i \in JobId, SubmitAccepted(i) PROVE CapacityInv'
  BY <1>5, <1>8 DEF SubmitAccepted
<1>9. ASSUME NEW i \in JobId, SubmitRejected(i) PROVE CapacityInv'
  <2>1. CASE registry[i].status \in Active
    <3>1. Persist(Failed(registry, i, FALSE)) /\ reopened' = reopened
      BY <1>9, <2>1 DEF SubmitRejected
    <3>2. \A k \in JobId : k # i => Failed(registry, i, FALSE)[k] = registry[k]
      BY <1>1 DEF Failed, RetriesLeft
    <3>3. QED
      BY <1>3, <2>1, <3>1, <3>2
  <2>2. CASE registry[i].status \notin Active
    BY <1>5, <1>9, <2>2 DEF SubmitRejected
  <2>3. QED
    BY <2>1, <2>2
<1>10. ASSUME NEW i \in JobId,
              \/ StartJob(i) \/ CompleteJob(i) \/ SetRetrySchedule(i)
              \/ CancelJob(i) \/ \E retryable \in BOOLEAN : FailJob(i, retryable)
       PROVE  CapacityInv'
  <2>1. registry[i].status \in Active
    BY <1>10 DEF StartJob, CanStart, CompleteJob, SetRetrySchedule, CancelJob,
                 FailJob, Active
  <2>2. ASSUME NEW retryable \in BOOLEAN, FailJob(i, retryable) PROVE CapacityInv'
    BY <1>1, <1>4, <2>1, <2>2, OthersKept DEF FailJob
  <2>3. QED
    BY <1>1, <1>4, <1>10, <2>1, <2>2, OthersKept
       DEF StartJob, CompleteJob, SetRetrySchedule, CancelJob
<1>11. ASSUME NEW i \in JobId, NEW s \in Stage,
              \/ \E completed \in BOOLEAN : RecordStageProgress(i, s, completed)
              \/ CompleteStage(i, s)
       PROVE  CapacityInv'
  <2>1. registry[i].status \in Active
    BY <1>11 DEF RecordStageProgress, CompleteStage
  <2>2. ASSUME NEW completed, MapOnly(Recorded(registry, i, s, completed))
        PROVE  CapacityInv'
    BY <1>1, <1>4, <2>1, <2>2, OthersKept
  <2>3. QED
    BY <1>11, <2>2 DEF RecordStageProgress, CompleteStage
<1>12. ASSUME NEW i \in JobId, NEW s \in Stage, ResumeJob(i, s)
       PROVE  CapacityInv'
  <2>1. Persist(Resumed(registry, i, s)) /\ reopened' = reopened \cup {i}
    BY <1>12 DEF ResumeJob
  <2>2. \A k \in JobId : k # i => Resumed(registry, i, s)[k] = registry[k]
    BY <1>1, OthersKept
  <2>3. QED
    BY <1>3, <2>1, <2>2
<1>13. ASSUME NEW i \in JobId, RestoreJobFromBullMQ(i) PROVE CapacityInv'
  <2>1. /\ Persist([registry EXCEPT ![i] = FreshJob])
        /\ reopened' = reopened \cup {i}
    BY <1>13 DEF RestoreJobFromBullMQ
  <2>2. \A k \in JobId : k # i => [registry EXCEPT ![i] = FreshJob][k] = registry[k]
    BY <1>1
  <2>3. QED
    BY <1>3, <2>1, <2>2
<1>14. ASSUME NEW i \in JobId, CleanupFires(i) PROVE CapacityInv'
  BY <1>3, <1>5, <1>6, <1>14 DEF CleanupFires
<1>15. ASSUME NEW i \in JobId, DeleteJob(i) PROVE CapacityInv'
  <2>1. /\ registry' = Without(registry, {i}) /\ reopened' = reopened
        /\ \/ disk' = registry'
           \/ disk' = disk
           \/ disk' = Cancelled(registry, i)
    BY <1>15 DEF DeleteJob
  <2>2. FewLive(registry', reopened')
    BY <1>6, <2>1, FewerLive DEF CapacityInv
  <2>3. \A k \in JobId : Cancelled(registry, i)[k].status \in Active =>
                           registry[k].status \in Active
    BY <1>1 DEF Cancelled, Active, Job
  <2>4. FewLive(Cancelled(registry, i), reopened')
    BY <2>1, <2>3, FewerLive DEF CapacityInv
  <2>5. FewLive(disk', reopened')
    BY <2>1, <2>2, <2>4 DEF CapacityInv
  <2>6. QED
    BY <2>2, <2>5 DEF CapacityInv, FewLive, InState
<1>16. ASSUME ClearDeadLetterJobs \/ ClearFailedJobs PROVE CapacityInv'
  BY <1>3, <1>6, <1>16 DEF ClearDeadLetterJobs, ClearFailedJobs, MapOnly
<1>17. CASE Restart
  BY <1>17 DEF Restart, CapacityInv, FewLive, InState
<1>18. CASE UNCHANGED queueVars
  BY <1>5, <1>18 DEF queueVars
<1>19. QED
  BY <1>7, <1>8, <1>9, <1>10, <1>11, <1>12, <1>13, <1>14, <1>15, <1>16, <1>17,
     <1>18 DEF QueueNext

(* The capacity of the queue: however calls, late answers, failed writes    *)
(* and restarts follow each other, only jobs brought back by resumeJob or   *)
(* the BullMQ restore, which do not count, exceed MAX_QUEUE_SIZE.           *)
THEOREM CapacityHolds == QueueSpec => []CapacityExceededOnlyByReopening
<1>1. QueueInit => CapacityInv
  <2>1. ASSUME QueueInit
        PROVE  InState(registry, Active) = {} /\ InState(disk, Active) = {}
    BY <2>1 DEF QueueInit, InState, NoJob, Active
  <2>2. Cardinality({}) = 0
    BY FS_EmptySet
  <2>3. QED
    BY <2>1, <2>2, QueueAssumption DEF CapacityInv, FewLive
<1>2. CapacityInv => CapacityExceededOnlyByReopening
  BY DEF CapacityInv, FewLive, CapacityExceededOnlyByReopening
<1>3. QED
  BY <1>1, <1>2, QueueInvariant, CapacityStep, PTL DEF QueueSpec

-------------------------------------------------------------------------------
(***************************************************************************)
(* The registry implements JobLifecycle when snapshot writes do not fail:  *)
(* the map from a registry to the statuses of its jobs sends the initial   *)
(* state to the initial state and every step to one step of the life cycle *)
(* or to none.  A restart is invisible, because the snapshot equals the    *)
(* Map (SnapshotCurrent); a start respects the abstract lock, because      *)
(* CanStart counts the running jobs.                                       *)
(***************************************************************************)

Statuses(reg) == [i \in JobId |-> reg[i].status]

(* The status each function of the registry gives its job.                  *)
LEMMA StatusGiven ==
  ASSUME NEW reg \in [JobId -> Job], NEW i \in JobId
  PROVE  /\ Statuses(Started(reg, i)) = [Statuses(reg) EXCEPT ![i] = "running"]
         /\ Statuses(Completed(reg, i)) = [Statuses(reg) EXCEPT ![i] = "completed"]
         /\ Statuses(Cancelled(reg, i)) = [Statuses(reg) EXCEPT ![i] = "cancelled"]
         /\ Statuses(RetryScheduled(reg, i)) = Statuses(reg)
         /\ \A s : Statuses(Resumed(reg, i, s)) = [Statuses(reg) EXCEPT ![i] = "queued"]
         /\ \A s, completed : Statuses(Recorded(reg, i, s, completed)) = Statuses(reg)
<1>1. \A k \in JobId : reg[k] \in Job
  OBVIOUS
<1>2. Statuses(Started(reg, i)) = [Statuses(reg) EXCEPT ![i] = "running"]
  BY <1>1 DEF Statuses, Started, Job
<1>3. Statuses(Completed(reg, i)) = [Statuses(reg) EXCEPT ![i] = "completed"]
  BY <1>1 DEF Statuses, Completed, Job
<1>4. Statuses(Cancelled(reg, i)) = [Statuses(reg) EXCEPT ![i] = "cancelled"]
  BY <1>1 DEF Statuses, Cancelled, Job
<1>5. Statuses(RetryScheduled(reg, i)) = Statuses(reg)
  BY <1>1 DEF Statuses, RetryScheduled, Job
<1>6. ASSUME NEW s
      PROVE  Statuses(Resumed(reg, i, s)) = [Statuses(reg) EXCEPT ![i] = "queued"]
  BY <1>1 DEF Statuses, Resumed, Job
<1>7. ASSUME NEW s, NEW completed
      PROVE  Statuses(Recorded(reg, i, s, completed)) = Statuses(reg)
  BY <1>1 DEF Statuses, Recorded, Job
<1>8. QED
  BY <1>2, <1>3, <1>4, <1>5, <1>6, <1>7

(* failJob ends the job or puts it back in the queue.                       *)
LEMMA StatusFailed ==
  ASSUME NEW reg \in [JobId -> Job], NEW i \in JobId, NEW retryable
  PROVE  \/ Statuses(Failed(reg, i, retryable)) = [Statuses(reg) EXCEPT ![i] = "failed"]
         \/ Statuses(Failed(reg, i, retryable)) = [Statuses(reg) EXCEPT ![i] = "queued"]
<1>1. \A k \in JobId : reg[k] \in Job
  OBVIOUS
<1>2. CASE RetriesLeft(reg, i, retryable)
  BY <1>1, <1>2 DEF Statuses, Failed, Job
<1>3. CASE ~ RetriesLeft(reg, i, retryable)
  BY <1>1, <1>3 DEF Statuses, Failed, Job
<1>4. QED
  BY <1>2, <1>3

LEMMA StatusFresh ==
  ASSUME NEW reg \in [JobId -> Job], NEW i \in JobId, clock \in Nat
  PROVE  Statuses([reg EXCEPT ![i] = FreshJob]) = [Statuses(reg) EXCEPT ![i] = "queued"]
  BY FreshJobType DEF Statuses

LEMMA StatusWithout ==
  ASSUME NEW reg, NEW S
  PROVE  Statuses(Without(reg, S)) =
           [i \in JobId |-> IF i \in S THEN "absent" ELSE Statuses(reg)[i]]
<1>1. NoJob.status = "absent"
  BY DEF NoJob
<1>2. QED
  BY <1>1 DEF Statuses, Without

-----------------------------------------------------------------------------
(* A change of one status is a move of the life cycle.                      *)
LEMMA IsMove ==
  ASSUME NEW i \in JobId, NEW from, NEW to, registry[i].status \in from,
         Statuses(registry') = [Statuses(registry) EXCEPT ![i] = to]
  PROVE  Lifecycle!Move(i, from, to)
  BY DEF Lifecycle!Move, Statuses

LifeStep == Lifecycle!Next \/ Statuses(registry') = Statuses(registry)

(* The moves each kind of change is.                                        *)
LEMMA IsLifeStep ==
  ASSUME NEW i \in JobId
  PROVE  /\ /\ registry[i].status \in {"absent"}
            /\ Statuses(registry') = [Statuses(registry) EXCEPT ![i] = "queued"]
            => LifeStep
         /\ /\ registry[i].status \in Terminal
            /\ Statuses(registry') = [Statuses(registry) EXCEPT ![i] = "queued"]
            => LifeStep
         /\ /\ registry[i].status \in {"running"}
            /\ Statuses(registry') = [Statuses(registry) EXCEPT ![i] = "queued"]
            => LifeStep
         /\ /\ registry[i].status \in Active
            /\ Statuses(registry') = [Statuses(registry) EXCEPT ![i] = "completed"]
            => LifeStep
         /\ /\ registry[i].status \in Active
            /\ Statuses(registry') = [Statuses(registry) EXCEPT ![i] = "failed"]
            => LifeStep
         /\ /\ registry[i].status \in Active
            /\ Statuses(registry') = [Statuses(registry) EXCEPT ![i] = "cancelled"]
            => LifeStep
<1>1. Lifecycle!Ended = Terminal /\ Lifecycle!Live = Active
  BY DEF Lifecycle!Ended, Lifecycle!Live, Terminal, Active
<1>2. /\ Lifecycle!Move(i, {"absent"}, "queued") => LifeStep
      /\ Lifecycle!Move(i, Terminal, "queued") => LifeStep
      /\ Lifecycle!Move(i, {"running"}, "queued") => LifeStep
      /\ Lifecycle!Move(i, Active, "completed") => LifeStep
      /\ Lifecycle!Move(i, Active, "failed") => LifeStep
      /\ Lifecycle!Move(i, Active, "cancelled") => LifeStep
  BY <1>1 DEF LifeStep, Lifecycle!Next, Lifecycle!Submit, Lifecycle!Reopen,
              Lifecycle!Requeue, Lifecycle!Finish, Lifecycle!Cancel
<1>3. QED
  BY <1>2, IsMove

LEMMA IsLifeStart ==
  ASSUME NEW i \in JobId, CanStart(registry, i),
         Statuses(registry') = [Statuses(registry) EXCEPT ![i] = "running"]
  PROVE  LifeStep
<1>1. Lifecycle!Move(i, {"queued"}, "running")
  <2>1. registry[i].status \in {"queued"}
    BY DEF CanStart
  <2>2. QED
    BY <2>1 DEF Lifecycle!Move, Statuses
<1>2. \A j \in JobId : [k \in JobId |-> registry[k].status][j] # "running"
  BY DEF CanStart, InState
<1>3. Lifecycle!Start(i)
  BY <1>1, <1>2 DEF Lifecycle!Start
<1>4. QED
  BY <1>3 DEF LifeStep, Lifecycle!Next

LEMMA IsLifeRemove ==
  ASSUME NEW S \in SUBSET JobId, registry' = Without(registry, S)
  PROVE  LifeStep
<1>1. CASE S = {}
  <2>1. \A i \in JobId : registry'[i] = registry[i]
    BY <1>1 DEF Without
  <2>2. QED
    BY <2>1 DEF LifeStep, Statuses
<1>2. CASE S # {}
  <2>1. Lifecycle!Remove(S)
    BY <1>2, StatusWithout DEF Lifecycle!Remove, Statuses
  <2>2. QED
    BY <2>1 DEF LifeStep, Lifecycle!Next
<1>3. QED
  BY <1>1, <1>2

(* With a snapshot that is current, every step of the registry is a step of *)
(* the life cycle or changes no status.                                     *)
LEMMA QueueStepIsLifeStep ==
  ASSUME QueueInv, TraceInv, disk = registry, [QueueNext]_queueVars
  PROVE  LifeStep
<1>1. /\ registry \in [JobId -> Job] /\ clock \in Nat
      /\ \A i \in JobId : registry[i].status # "absent" => i \in issued
  BY DEF QueueInv, QueueTypeOK, TraceInv, Traced
<1>2. \A i \in JobId : registry[i].status \in Status
  BY <1>1 DEF Job
<1>3. ASSUME NEW reg, MapOnly(reg) PROVE registry' = reg
  BY <1>3 DEF MapOnly, Persist
<1>4. ASSUME registry' = registry PROVE LifeStep
  BY <1>4 DEF LifeStep
<1>5. ASSUME NEW i \in JobId, Enqueue(i) PROVE LifeStep
  <2>1. registry' = [registry EXCEPT ![i] = FreshJob] /\ i \notin issued
    BY <1>5 DEF Enqueue, Persist
  <2>2. registry[i].status \in {"absent"}
    BY <1>1, <2>1
  <2>3. Statuses(registry') = [Statuses(registry) EXCEPT ![i] = "queued"]
    BY <1>1, <2>1, StatusFresh
  <2>4. QED
    BY <2>2, <2>3, IsLifeStep
<1>6. ASSUME NEW i \in JobId, SubmitAccepted(i) PROVE LifeStep
  BY <1>4, <1>6 DEF SubmitAccepted
<1>7. ASSUME NEW i \in JobId, SubmitRejected(i) PROVE LifeStep
  <2>1. CASE registry[i].status \in Active
    <3>1. registry' = [registry EXCEPT ![i].status = "failed", ![i].retryAt = FALSE]
      BY <1>7, <2>1 DEF SubmitRejected, Persist, Failed, RetriesLeft
    <3>2. Statuses(registry') = [Statuses(registry) EXCEPT ![i] = "failed"]
      BY <1>1, <3>1 DEF Statuses, Job
    <3>3. QED
      BY <2>1, <3>2, IsLifeStep
  <2>2. CASE registry[i].status \notin Active
    BY <1>4, <1>7, <2>2 DEF SubmitRejected
  <2>3. QED
    BY <2>1, <2>2
<1>8. ASSUME NEW i \in JobId, StartJob(i) PROVE LifeStep
  <2>1. registry' = Started(registry, i) /\ CanStart(registry, i)
    BY <1>3, <1>8 DEF StartJob
  <2>2. Statuses(registry') = [Statuses(registry) EXCEPT ![i] = "running"]
    BY <1>1, <2>1, StatusGiven
  <2>3. QED
    BY <2>1, <2>2, IsLifeStart
<1>9. ASSUME NEW i \in JobId, CompleteJob(i) PROVE LifeStep
  <2>1. registry' = Completed(registry, i) /\ registry[i].status \in Active
    BY <1>3, <1>9 DEF CompleteJob
  <2>2. Statuses(registry') = [Statuses(registry) EXCEPT ![i] = "completed"]
    BY <1>1, <2>1, StatusGiven
  <2>3. QED
    BY <2>1, <2>2, IsLifeStep
<1>10. ASSUME NEW i \in JobId, SetRetrySchedule(i) PROVE LifeStep
  <2>1. registry' = RetryScheduled(registry, i)
    BY <1>3, <1>10 DEF SetRetrySchedule
  <2>2. Statuses(registry') = Statuses(registry)
    BY <1>1, <2>1, StatusGiven
  <2>3. QED
    BY <2>2 DEF LifeStep
<1>11. ASSUME NEW i \in JobId, CancelJob(i) PROVE LifeStep
  <2>1. registry' = Cancelled(registry, i) /\ registry[i].status \in Active
    BY <1>3, <1>11 DEF CancelJob
  <2>2. Statuses(registry') = [Statuses(registry) EXCEPT ![i] = "cancelled"]
    BY <1>1, <2>1, StatusGiven
  <2>3. QED
    BY <2>1, <2>2, IsLifeStep
<1>12. ASSUME NEW i \in JobId, NEW retryable \in BOOLEAN, FailJob(i, retryable)
       PROVE  LifeStep
  <2>1. /\ registry' = Failed(registry, i, retryable)
        /\ registry[i].status \in Active
    BY <1>3, <1>12 DEF FailJob
  <2>2. CASE Statuses(registry') = [Statuses(registry) EXCEPT ![i] = "failed"]
    BY <2>1, <2>2, IsLifeStep
  <2>3. CASE Statuses(registry') = [Statuses(registry) EXCEPT ![i] = "queued"]
    <3>1. CASE registry[i].status = "queued"
      <4>1. \A k \in JobId : registry'[k].status = registry[k].status
        BY <2>3, <3>1 DEF Statuses
      <4>2. QED
        BY <4>1 DEF LifeStep, Statuses
    <3>2. CASE registry[i].status = "running"
      BY <2>3, <3>2, IsLifeStep
    <3>3. QED
      BY <2>1, <3>1, <3>2 DEF Active
  <2>4. QED
    BY <1>1, <2>1, <2>2, <2>3, StatusFailed
<1>13. ASSUME NEW i \in JobId, NEW s \in Stage, NEW completed,
              registry' = Recorded(registry, i, s, completed)
       PROVE  LifeStep
  <2>1. Statuses(registry') = Statuses(registry)
    BY <1>1, <1>13, StatusGiven
  <2>2. QED
    BY <2>1 DEF LifeStep
<1>14. ASSUME NEW i \in JobId, NEW s \in Stage,
              \/ \E completed \in BOOLEAN : RecordStageProgress(i, s, completed)
              \/ CompleteStage(i, s)
       PROVE  LifeStep
  BY <1>3, <1>13, <1>14 DEF RecordStageProgress, CompleteStage
<1>15. ASSUME NEW i \in JobId, NEW s \in Stage, ResumeJob(i, s) PROVE LifeStep
  <2>1. /\ registry' = Resumed(registry, i, s)
        /\ registry[i].status \in Terminal
    BY <1>15 DEF ResumeJob, CanResume, Persist
  <2>2. Statuses(registry') = [Statuses(registry) EXCEPT ![i] = "queued"]
    BY <1>1, <2>1, StatusGiven
  <2>3. QED
    BY <2>1, <2>2, IsLifeStep
<1>16. ASSUME NEW i \in JobId, RestoreJobFromBullMQ(i) PROVE LifeStep
  <2>1. /\ registry' = [registry EXCEPT ![i] = FreshJob]
        /\ registry[i].status \in Terminal \/ registry[i].status \in {"absent"}
    BY <1>16 DEF RestoreJobFromBullMQ, Persist
  <2>2. Statuses(registry') = [Statuses(registry) EXCEPT ![i] = "queued"]
    BY <1>1, <2>1, StatusFresh
  <2>3. QED
    BY <2>1, <2>2, IsLifeStep
<1>17. ASSUME NEW i \in JobId, CleanupFires(i) PROVE LifeStep
  <2>1. registry' = Without(registry, {i}) \/ registry' = registry
    BY <1>17 DEF CleanupFires, Persist
  <2>2. QED
    BY <1>4, <2>1, IsLifeRemove
<1>18. ASSUME NEW i \in JobId, DeleteJob(i) PROVE LifeStep
  <2>1. registry' = Without(registry, {i})
    BY <1>18 DEF DeleteJob
  <2>2. QED
    BY <2>1, IsLifeRemove
<1>19. ASSUME ClearDeadLetterJobs \/ ClearFailedJobs PROVE LifeStep
  <2>1. /\ DeadLetters(registry) \in SUBSET JobId
        /\ InState(registry, {"failed"}) \in SUBSET JobId
    BY DEF DeadLetters, InState
  <2>2. \/ registry' = Without(registry, DeadLetters(registry))
        \/ registry' = Without(registry, InState(registry, {"failed"}))
    BY <1>3, <1>19 DEF ClearDeadLetterJobs, ClearFailedJobs
  <2>3. QED
    BY <2>1, <2>2, IsLifeRemove
<1>20. CASE Restart
  BY <1>4, <1>20 DEF Restart
<1>21. CASE UNCHANGED queueVars
  BY <1>4, <1>21 DEF queueVars
<1>22. QED
  BY <1>5, <1>6, <1>7, <1>8, <1>9, <1>10, <1>11, <1>12, <1>14, <1>15, <1>16,
     <1>17, <1>18, <1>19, <1>20, <1>21 DEF QueueNext

(* The registry implements the life cycle of a job, if the disk works.      *)
THEOREM LifecycleImplemented ==
  ASSUME ~ DiskMayFail
  PROVE  QueueSpec => ImplementsLifecycle
<1>1. QueueInit => Lifecycle!Init
  <2>1. NoJob.status = "absent"
    BY DEF NoJob
  <2>2. QED
    BY <2>1 DEF QueueInit, Lifecycle!Init
<1>2. QueueInv /\ TraceInv /\ SnapshotCurrent /\ [QueueNext]_queueVars
        => [Lifecycle!Next]_([i \in JobId |-> registry[i].status])
  BY QueueStepIsLifeStep DEF SnapshotCurrent, LifeStep, Statuses
<1>3. QED
  BY <1>1, <1>2, QueueInvariant, TraceInvariant, SnapshotCurrentHolds, PTL
     DEF QueueSpec, ImplementsLifecycle, Lifecycle!Spec
=============================================================================
