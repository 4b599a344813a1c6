# A verification project for the yap engine

TLA+ models of the stateful parts of this repository, TLC instances that check them, and TLAPS proofs of the
results that do not depend on the size of an instance. Paths such as `services/video-queue.ts` are relative
to `src/apps/swarmx-api/src/` unless they begin with `src/`.

1. [The system](#1-the-system) 2. [What is hard](#2-what-is-hard-in-this-code) 3. [The modules](#3-the-modules)
4. [Runs and bounds](#4-runs-bounds-and-what-they-show) 5. [Fairness](#5-fairness) 6. [Proofs](#6-proofs)
7. [Disagreements](#7-where-code-and-documents-disagree) 8. [Not modelled](#8-what-is-not-modelled-and-why) 9. [Plan](#9-plan)

## 1. The system

The yap engine turns a prompt into a short video with local models. A TypeScript service (Fastify,
`apps/swarmx-api`) holds the video engine and the publishing side; a Python control plane (`src/src/swarmx`)
plans and executes repository missions; `src/brain`, `src/agents` and `src/orchestration` are older Python
helpers; the rest is a dashboard, shared types and deployment.

| component | state | operations | talks to | what makes it correct |
|---|---|---|---|---|
| video job registry, `services/video-queue.ts` | Map of jobs, clean-up timers | enqueue, startJob, recordStageProgress, completeStage, completeJob, failJob, setRetrySchedule, cancelJob, deleteJob, clear…, resumeJob, restoreJobFromBullMQ, hydrate | snapshot store, BullMQ, everyone below | one running job; bounded queue and retries; ended jobs stay ended; nothing lost on a crash |
| durable snapshot store, `services/local-state-store.ts` | one JSON file per registry, an event journal | writeSnapshot (failure is logged), readSnapshot (failure counts as empty) | registries | the file is what a restart brings back |
| video orchestrator, `services/video-orchestrator.ts` | pipelines in flight, retry timers, cancel watchers | runOrchestration, runStage, scheduleNextQueuedJob | registry, models, renderer | every running job is driven; no wake-up lost; every job ends; cancelled work stops |
| video, series and campaign routes, `routes/video.ts`, `routes/series.ts`, `services/campaign-manager.ts` | none of their own | submit, cancel, delete, clear dead letters, resume, render an episode | registry, orchestrator | they only reach legal states |
| BullMQ worker, `workers/` | jobs held by Redis | processJob, stand-alone start | registry, orchestrator | every delivery is answered, no job is reported done and forgotten |
| process life cycle, `server-runtime.ts` | up or down | boot with hydration, exit on an unhandled rejection | all | no self-inflicted exit |
| memory mutex, `services/memory-mutex.ts` | phase, owner, waiters | acquirePhase, releasePhase, forceReset | renderer, publishing queue, Ollama | no phase is left behind, waiters are woken |
| model orchestrator, `services/model-orchestrator.ts` | resident and warming models | requestModel, unloadModel, unloadAllModels, getResidentModels | Ollama | at most one heavy model, memory really freed, no blocked eviction |
| series registry, planner, pre-production | one entry per series | plan, rerun a pass, pre-produce an episode, produce, delete | models, video engine | passes do not overlap, what is ready is whole, progress is driven |
| workflow routes, `routes/workflows.ts` | append-only file of rows | run, execute, cancel | Python runtime | one run per key, ordered history, every run settles |
| creative factory workflow, `services/creative-factory-workflow.ts` | runs with checkpoints | createWorkflowRun, checkpointWorkflowStage | snapshot store | completion is earned, one live run per key, saved runs stay |
| TikTok accounts and direct post, `services/tiktok-*.ts` | account row, BullMQ lane | refresh, login, publish, verify, disable | PostgreSQL, TikTok | status as decided, a usable token, one publication |
| control-plane queue and worker, `src/src/swarmx/queue.py`, `worker.py`, `server.py` | SQLite rows, JSONL mirror | append, update, claim, execute | storage, executor | a job is executed once, a running row is owned, a queued job ends |
| publishing queue, `services/publishing-queue.ts` | publish tasks | enqueue, processPublishTask | memory mutex, publishers | releases the phase it took |
| time-outs and breakers, pressure monitor, event streams, file clean-up, scoring | samples, windows, subscribers | | | not modelled, see section 8 |
| execution gate, policy, planner, memory, evolver, LLM client, brain, agents, legacy tools | Python helpers | | | not modelled, see section 8 |

**How a video is made.** `POST /jobs` enqueues a job and defers `startJob` with `setImmediate`; with BullMQ it
only enqueues, and the worker delivers. `startJob` refuses while a job is running, the *single-video lock*; the
worker does not call it. `runOrchestration` reads the memory pressure, runs six stages one after the other, scores
the result and calls `completeJob`. An error goes to `failJob`, which re-queues the job while it has retries left;
then a timer calls `startJob` again. When a pipeline settles without a retry it picks the next queued job and
defers its start. A 500 ms watcher turns a cancellation into an abort signal. Every change of the registry
rewrites the snapshot.

## 2. What is hard in this code

JavaScript runs one callback at a time, so a synchronous function cannot be interrupted; what interleaves is what
lies between two awaits. The Python control plane has real threads. The difficult points, each with its line in
`hazards`:

- **A reservation is used a turn later.** The queue picks a job, an immediate starts it; in between it may be
  cancelled, deleted, or running already.
- **The lock is a status, not a pipeline.** Ending a running entry frees the lock while its pipeline is still
  inside an await. Pipelines of the series and campaign routes and of the worker never take it.
- **Wake-ups.** A pipeline that schedules a retry does not wake the queue; only the timer is left.
- **Cancellation is sampled.** A job cancelled and resumed between two ticks never looks cancelled.
- **Error handling that fails.** `failJob` throws inside the catch block when the job has ended meanwhile.
- **Crashes.** A restart brings back the last snapshot that was written, with entries marked running, series marked
  planning, workflow runs marked running; nothing looks at them again. BullMQ delivers what its worker held once more.
- **Late answers.** The rejection of `Queue.add`, the clean-up timer, the answer of a runtime the API gave up on
  meet a job in another life.
- **The mutex awaits** between finding the lock idle and taking it, and between recognising its phase and
  freeing it; its callers ignore refusals.
- **A belief and its truth.** The model orchestrator decides on a table it refreshes across awaits; Ollama
  expires, loads and keeps generating on its own.
- **Read, await, write.** A token refresh writes the account status it read before the network call; a series pass
  writes into the entry it finds after its model call; a workflow request decides on a file it read before.
- **Two copies of one status.** A control-plane job has a column, a payload and a JSONL line, written by separate
  calls; different readers look at different ones.
- **Two guards for one exclusion.** The sequence of a pre-production looks at a status, the rerun of a pass at marks.

## 3. The modules

    JobLifecycle                  abstract: what a job's status may do
       ^            ^
       |implements  |implements
    VideoQueue <- VideoOrchestrator <- VideoWorker          (each EXTENDS the one before)
       ^                                   ^
    VideoQueueProofs  <------  VideoOrchestratorProofs

    MemoryMutex        <- MemoryMutexProofs         ModelOrchestrator  <- ModelOrchestratorProofs
    SeriesPlanning     <- SeriesPlanningProofs      TikTokAccounts     <- TikTokAccountsProofs
    ControlPlaneQueue  <- ControlPlaneQueueProofs   WorkflowRuns, CreativeWorkflow <- WorkflowProofs

Every specification has an `MC…` module with the values of its constants; the `.cfg` files set the bounds.
Definitions marked *Mutant* are plausible mistakes in the code; each property is known to be violated by one of them.

**`JobLifecycle`** says what the registry promises about statuses and nothing else: submit, start one at a
time, end, re-queue, reopen, remove. A job may end from the queue, because the direct routes run jobs they
never started.

**`VideoQueue`** is `services/video-queue.ts` with arbitrary callers: each exported function that changes a
job is one action, enabled when the function does not return early or throw. `registry` is the Map, `disk`
the last snapshot that reached the disk, `ttl` the pending `scheduleCleanup` timers, `remote` what BullMQ
knows of an id, `clock` the creation order. `reopened` is history: it names the jobs that `resumeJob` or
`restoreJobFromBullMQ` brought back, which pass both the capacity and the idempotency test by. What a
function does to the Map is an operator on Maps (`Failed`, `Resumed`, …), so that the orchestrator can apply
several in one step. `Persist` writes the whole Map, and with `DiskMayFail` may leave the old snapshot.
`RequestOf` attaches a `clientRequestId` to each id `randomUUID` may draw; ids are drawn once.

**`VideoOrchestrator`** extends it with the real callers. A *run* is one call of `runOrchestration` in a slot;
its `pc` is the await it is in: reading the pressure, the back-off, a stage, the virality pass. Everything between
two awaits is one step: `StageDone` records the completion and enters the next stage, `Settle` is the catch block
with the finally block and the pick of the next job. The abort signal is consulted where the code consults it, at the
start of a stage, and the registry where it throws. `immediates` is the FIFO of deferred starts, `timers` counts
the retry timers of a job. Several runs may be alive, also of one job; `caught` records whether the caller attached
a catch handler, which decides whether a rejection ends the process (`ProcessGone`). `Boot` hydrates and
dispatches nothing, as the start-up code does. The constant `Calls` selects which routes and faults the
environment of an instance uses.

**`VideoWorker`** extends it with `workers/video-worker.ts`, which runs inside the API process. `Deliver` is
`processJob` up to its first await: it restores an entry that is gone or has ended, and runs the pipeline without
`startJob`. Every step of `VideoOrchestrator` is a step here too, conjoined with what BullMQ sees of it
(`Observed`): the end of the worker's pipeline answers the delivery, the end of the process orphans it. BullMQ is
external: one job at a time, `MAX_RETRIES + 1` attempts, one redelivery of a job whose worker died. Retry timers and
dispatch do not ask who owns the queue, so they go on beside the worker; that is what its properties are about. `dropped` is
history: jobs that lost the only thing that would have driven them on, because a process ended while they waited for a retry
timer or for `Queue.add`, or because `Queue.add` was rejected after a timer or an immediate had been set for them.

**`MemoryMutex`** has the lock and its two clients, `renderWithFfmpeg` (phase `tts`, then `render`) and
`processPublishTask`. `acquirePhase` and `releasePhase` are two steps each, because they await between their
test and their assignment. `OwnerOf` lets two renders share an owner: an attempt that was timed out goes on
beside the retry of its job. A renderer ignores a refusal and works without the lock (`AfterRefusal`); a
publisher's task ends. `abandoned` is history: a memory check failed since the lock last changed.

**`ModelOrchestrator`** keeps the belief (`activeModels`, `active7BModel`, `inFlightEviction`) apart from the truth
(`resident`, what Ollama holds). A call walks through its awaits: the two halves of `syncFromOllama`, one step per eviction,
the load, the generation; `SyncFails` and `EvictFails` are the catch blocks. `PreloadBegun` is `startModelPreload` of
`routes/composer.ts`, which loads a model without asking the orchestrator, whatever else is resident, and waits for nothing: until
`AbandonedEnds` it may load at any time (`PreloadLands`). `Expire` and `AbandonedEnds` are Ollama's own. `disturbed` is history:
some call overlapped another or was given up, a preload was begun, or a sync or eviction failed, since the 7B lock was last sound.

**`SeriesPlanning`** is one series: its entry, the four planning passes, the four pre-production passes of each
episode, and the routes that start them. A pass is two steps, from the request to the model call and from its answer to
the last write; the writes after the answer are separate because the process may die between them. `guides` numbers the
world guides so that a cinematic lock can be told from a stale one; `overlapped` names the episodes whose
pre-production was started over a rerun in flight.

**`WorkflowRuns`** has the rows of `workflow-runs.jsonl`, the requests and their executions, the cancellations and
the Python runtime, each await a step. `overlapped` and `deserted` name the keys under which two requests
read the file before either wrote, or the API stopped waiting for a run that Python still executes.

**`CreativeWorkflow`** has the Map and the snapshot of the runs; `Create`, `Complete`, `Checkpoint` for any stage in any
order, `Restart`. The histories `earned`, `reopened`, `saved`, `misread` say what the properties compare with.

**`TikTokAccounts`** has the row of one account, the refresh tokens TikTok accepts, the posts of its BullMQ lane,
controlled verifications (another process, so no mutual exclusion with the lane), logins, the operator. A call
keeps the `copy` of the row it read; `stale` names the calls whose copy was overtaken and `spoiled` says that one
of them has written. `lost` is history: TikTok withdrew the stored token, and its answer or the write of the new one was lost
(an answer that never came or was incomplete, an upsert that failed, a crash). Each statement of a call may fail
(`StatementFails`, `LoginFails`), and nothing catches that. `ReadsRow` ends a call that finds a *fresh* access token, because the
code does (section 7): only a token near its end is refreshed, and only a refreshed token is posted with.

**`ControlPlaneQueue`** is `queue.py` with the worker thread of `worker.py` and the routes of `server.py`. A database
call is one step and a queue operation several. `db` has the column and the payload of each row, `file` the JSONL
mirror, which is read only while there is no row at all. `kind` says how a job is submitted, `window` how many of the newest
jobs `load_jobs` returns. The worker turns an exception of a job into its status (`Executes`); the routes `/api/run` and
`/api/evolve` do not (`RouteRaises`). `orphans` is history: jobs whose owner died or raised over a row that says running.

## 4. Runs, bounds and what they show

| run | states | shows |
|---|---|---|
| `queue_faults` | 729 k | BullMQ, room for one job, snapshot writes that fail, so a restart may bring back any earlier Map: only reopened jobs exceed the limit (`CapacityExceededOnlyByReopening`), one running entry (`SingleVideoLock`), late answers of `Queue.add` leave ended jobs alone (`TerminalIsFinal`) |
| `orch_plain` | 140 k | three jobs, resubmissions, retries, dismissals, fair event loop: `OnePipelineAtATime`, no wake-up lost (`DispatchPending`), no exit (`NoUnhandledRejection`), and every job ends (`EveryJobSettles`) |
| `orch_admin` | 805 k | cancel, delete, clear and resume between any two steps of queued and direct pipelines, also two of one job: no running entry without a pipeline (`RunningIsDriven`), and the refinement of `JobLifecycle` (`ImplementsLifecycle`) |
| `orch_restart` | 80 k | cancellations, clean-up timers, crashes, boots: a cancelled pipeline enters no further stage (`CancelledRunStops`), completed jobs are complete (`CompletedIsComplete`) |
| `worker_jobs` | 111 k | BullMQ deployment, two jobs, a kill at any moment: every delivery is answered (`DeliveriesEnd`), what BullMQ calls completed has ended or waits for a retry timer (`CompletedEndsOrRetries`), unless one was dropped, the engine does not come to rest over a live job (`NobodyForgotten`) and every job ends (`SettlesUnlessDropped`) |
| `mutex_shared` | 88 k | three renders, two with one owner, a publisher, time-outs, failed checks, a forced reset: no phase is left behind (`PhaseNotLeaked`), no wake-up lost (`WakePending`) |
| `models_calls` | 2.1 M | a caller that requests and one that requests, unloads, clears and asks for the status; time-outs, preloads, expiry, failing syncs and evictions: `EvictionsChained`, `SingleHeavyUndisturbed`, `HeadroomRespected`, `UnloadAllFrees` |
| `series_plans` | 232 k | a plan, reruns, pre-productions, productions, deletion and a crash between any two writes: `OnePassAtATime`, `ReadyIsWhole`, `InProgressIsDriven`, `PlanningEnds` |
| `workflow_requests` | 209 k | two requests under one key, two cancellations, time-outs, a crash: `OneInProgressPerKey`, `OneInPythonPerKey`, `RowsInOrder`, `RunsSettle` |
| `creative_runs` | 497 k | two runs, any checkpoint at any time, failing writes and reads, a restart: `CompletionEarned`, `OneLiveRunPerKey` |
| `tiktok_posts` | 978 k | two posts and a verification, logins, operator, expiries, failing statements, crash, fair worker: `StatusAsDecided`, `TokenUsable`, `PublishedOnce`, `PostsEnd` |
| `control_jobs` | 312 k | two jobs of all useful kinds, routes that raise, a worker, a crash between any two database or file steps: `ColumnsAgree`, `ExecutedOnce`, `RunningIsOwned`, `EndedStays`, `QueuedEnds` |

Type invariants are not run, because a theorem states each of them for every instance (`QueueTypeOK`, `OrchTypeOK`,
`WorkerTypeOK`, `MutexTypeOK`, `ModelTypeOK`, `SeriesTypeOK`, `RunsTypeOK`, `CreativeTypeOK`, `AccountTypeOK`, `ControlTypeOK`);
each also holds in the instances above when added to their `.cfg`. `RetryScheduleOnlyWhileQueued`, `LiveRequestsUnique`,
`RetryBudget`, `SnapshotCurrent` and `BootRestoresRegistry` of the registry, `SavedRunsStay` of the creative runs, `OnePostAtATime` of the lane, `OnlyBootsStrand`,
`OneActivePipeline` and `RetriesSpent` of the engine, `WorkerHoldsOneDriven` and `DeliveriesBounded` of the worker,
`LaneMoves`, `PipelinesAdvance`, `ReportsCome`, `OperationsEnd` and `RunningRowsEnd` are theorems and not run either; they too hold when added
to an instance with the calls their theorems allow (and with the numbers of that instance in place of `Nat`).

**Bounds of the video engine.** `MaxClock` limits the jobs created or restored, `MaxRetryCount` how far `resumeJob` may push
a count, `MaxImmediates` the submissions waiting at once, `MaxTimers` the retry timers of one job, `Run` the
pipelines alive, `MaxResets` the forced resets of the mutex, `MaxCrashes` the kills. Two jobs are what any race of the
registry needs, three what the order of a queue behind a running job needs. `MaxRetries` is 1, where a first failure and the
exhausted budget both occur, and 0 in `queue_faults`, where every failure is terminal; the default of the code is
larger and only repeats the same step. One stage suffices where no property speaks of stages and `orch_restart` has two,
so that there is a stage to enter after the first. A retry timer needs a failure that used up a retry, so `MaxTimers` never
blocks a step of these instances. Two slots are enough to overlap two pipelines; with both taken, a third start is
delayed until one is free. `queue_faults` is cut by the constraint `OneReopened` (one job that ever came back): with
failing writes the number of snapshots explodes, a second reopened job repeats the first, and it carries no liveness.
In `worker_jobs` `MaxClock` is never reached, so it blocks
no step: redelivery and the attempts of BullMQ restore a job a bounded number of times. `queue_faults` and `orch_admin` use
symmetry over ids of one request (and over slots): no definition tells them apart, creation order is a number in the job, and
they carry no liveness. `models_calls` uses it over the two 7B models.

**Two jobs or three at the worker.** Two jobs can end the process between them: the worker's pipeline ends a job under the
pipeline of its retry timer, which rejects. Only a third can then be waiting for its own timer or its `Queue.add`. `worker_jobs`
has two, because that every job ends needs fairness and therefore a small graph without symmetry; the excuse of its properties
names what is lost (`dropped`) and not who took it, so the third job adds no new way to break them. `NobodyForgotten` is a theorem
for any number of jobs, kills and exits, and TLC confirms it for three (`JobId <- MCJobId3`, `RequestOf <- MCAnonymous3`,
`MaxQueueSize = 3`, `SYMMETRY Symmetry3`, `WorkerSpec`): 2.37 M states without kills, 19.9 M with one.

**Bounds of the others.** The model orchestrator: two callers overlap in every way its awaits allow; one of them has no
abort signal, so that its generation can be abandoned; two 7B models and the router model; `MaxAbandoned` generations and
preloads nobody waits for. `series_plans`: one episode,
five requests in all, two passes in flight, one crash; an instance with two episodes and four requests holds too (408 k states).
`workflow_requests`: one key, since runs of different keys share nothing but the file. `creative_runs`: a mode that ends at
stage 2 and one that goes on to 3, which is where a stage behind the end, a last stage and a missing one exist.
`tiktok_posts`: the account starts active or verified, its token fresh or not; `MaxTokens` 2 lets it be replaced once, by a refresh
or a login (a refresh may also keep it), and `MaxExpiries` 2 lets it grow old twice, so that both posts can publish. Three tokens hold the three invariants too
(`Spec`, `SYMMETRY PostSymmetry`, 5.45 M states), and three posts, which move up twice, hold `PostsEnd` without verification and operator
(257 k). `control_jobs`: six combinations of kinds; windows of
one and two payloads, so that a job is inside and outside `load_jobs`. A wider `worker_jobs` holds `CompletedEndsOrRetries` with cancelling users
(`Calls <- CancelCalls`, 2.8 M) and with the direct routes (`DirectCalls`, 8.4 M).

`CHECK_DEADLOCK FALSE` is set where the instance really may stop: all ids are used and all jobs ended, or
the process has exited and nobody restarts it (orchestrator, worker); all posts, requests or restarts are used up
or the series is deleted (`tiktok_posts`, `workflow_requests`, `creative_runs`, `series_plans`).

## 5. Fairness

`VideoOrchestrator!FairSpec` asks weak fairness of every pipeline's steps, of the cancel watcher, of the deferred starts,
of each job's retry timers and of a boot. That is what the event loop gives: due callbacks run in turn, timers fire, and
no await lasts for ever because model calls, renders and stages carry time-outs (`withTimeout`, `readPressure`
aborts after 2 s). Nothing is asked of users, and a crash is never obliged. `EveryJobSettles` therefore
says: if the loop runs, submitted jobs end, by completion or after their last retry. It is stated for submissions,
resubmissions and dismissals; cancellations and direct dispatch break it (section 7).

`WorkerFairSpec` adds, per job, that Redis answers `Queue.add`, that the worker takes a job that waits, that it
reports how an attempt ended, and that the stalled check runs; BullMQ's loop does these as long as the process lives.
The exits the engine causes itself are followed by a boot. `SettlesUnlessDropped` excuses a job for no kill and no exit as
such, only once something that drove a live job is lost for good (`dropped`).

Elsewhere: threads of the control plane are scheduled and executions end (`Work`), since model calls have time-outs;
the timer of ten minutes and the appends of a workflow execution happen (`Execute`), while nothing makes the Python
runtime end; the worker of a TikTok lane takes posts while it runs (`Take`), and the one it is busy with goes on, its
requests being answered or broken off (`Works`: the worker is one process, so no fairness towards each post is assumed);
a series pass ends, both outcomes of its model call being handled (`Ends`). `CreativeWorkflow`, `MemoryMutex` and
`ModelOrchestrator` state no liveness: their progress is up to their callers.

The fairness of one actor has a name of its own (`Served`, `Awaits`, `Watches`, `Works`), because the proofs of section 6
use it actor by actor.

## 6. Proofs

All theorems are checked by TLAPS for every set of jobs, stages, clients, runs and callers and every value of the limits.
They assume only the named assumptions on constants, which TLC evaluates in the runs: limits are naturals, stand-in
values are none of the ids, and where a property counts, the set of ids is finite.

**Registry** (`VideoQueueProofs`). The inductive invariant is `QueueInv`: `QueueTypeOK`, and for *both* the registry
and the snapshot the same four facts, gathered in `SoundMap`: one running entry, a retry date only on a queued
job, live duplicates and overdrawn budgets only among reopened jobs. The registry alone is not inductive,
since `Restart` makes the snapshot the registry. Each operator on Maps has a lemma saying that it keeps a
sound Map sound, and each action then needs only its guard. `QueueInvariant` yields `QueueTypeCorrect`,
`SingleVideoLockHolds`, `RetryScheduleHolds`, `LiveRequestsUniqueHolds` and `RetryBudgetHolds`, with or without
failing writes. `SnapshotCurrentHolds` is its own induction. `TerminalIsFinalHolds` needs `TraceInv`, which bounds every
creation time by `clock`: that is why a restored job is newer than the one it replaces. `CapacityHolds` counts: both
Maps have at most `MaxQueueSize` live jobs that were never reopened; `FewerLive` and `OneMoreLive` say what a smaller
set of live jobs and one new job do to that number.

**Refinement** (end of `VideoQueueProofs`). `LifecycleImplemented`: with a reliable disk, `QueueSpec` implements
`JobLifecycle!Spec` under the mapping that forgets everything but statuses. Each action maps to the abstract move of the
same name; records of progress, schedules and answers of BullMQ are stutters; the clean-up and the clearing of
dead letters map to `Remove`; a restart is a stutter because the snapshot equals the Map. With writes that
fail a restart can bring back several old statuses at once, so the assumption is needed.

**Engine** (`VideoOrchestratorProofs`). `EngineInv` adds to `QueueInv` the types of pipelines, callbacks and timers, that the
snapshot is the Map, and that a slot and an entry name a job that was created. It holds whatever `Calls` allows, and with it
the lock (`EngineKeepsLock`): callers that write the Map without `startJob` still cannot make a second entry run. A
turn of a pipeline is one large step, so the proofs first reduce it to its few outcomes (`RunStepEnds`: it `Stays` with its
job, `Quits` it, or `Dies` with the process), and the calls to what each does to the Map. On `EngineInv` stand four further
invariants, each for one question:

- `Driven`, a running entry has a pipeline on its job. Every way out of `runOrchestration` ends or re-queues the job it leaves
  (`RunningStaysDriven`, without boots).
- `Alone`, pipelines drive different jobs and the job of each is in `Grounds`: running, or what a cancellation or a
  removal made of it. Since one entry runs, one pipeline lives (`PipelinesTakeTurns`, without cancellations, resumptions,
  direct dispatch), and the pipeline a retry timer starts never meets an ended job (`NoPipelineKillsTheProcess`). It also
  carries `Progress`: nobody else touches the records of its job, so the stages behind a pipeline are recorded
  (`CompletedJobsAreComplete`, without resumptions and direct dispatch).
- `Marked`, a cancelled pipeline's job is not active, so the Map stops it where the watcher is late
  (`CancelledPipelinesStop`, without resumptions).
- `Pending`, while a job waits something due will look at the queue: a pipeline, a deferred start or a timer of a job that is
  *still queued*. It is `Waits` with `Driven`, because a job passed over for a running one relies on that one's pipeline (`NoWakeUpIsLost`,
  without BullMQ, cancellations, resumptions and boots).

The calls a theorem excludes are those that break its property; section 7 has the counterexamples.
`BootsRestoreTheRegistry`, `EngineImplementsLifecycle`, `OnlyBootsLeaveStrandedJobs` and `RequeuesSpendRetries` exclude none:
every step changes one status, removes entries, or changes no status, and a boot changes none because the snapshot is the
Map. The last two are action properties, not run, that say what is left where the invariants fail: in a living process
no step takes the pipeline away from a running entry (`OnlyBootsStrand`), and a live job goes back to the queue only at the
price of one of its retries (`RetriesSpent`). `ActivePipelinesTakeTurns` is `Alone` without the sentence that cancellations
break: at most one pipeline works on a job that is still live, the others have lost theirs.

**Worker** (end of `VideoOrchestratorProofs`). `WorkerInv`: the job in the worker's hand is the one that the pipeline in its slot
drives, so only that pipeline's end answers the delivery, and what BullMQ calls done has ended or has used a retry, which no
later step takes back without removing the entry (`WorkerReportsNothingEarly`, with all calls, kills and redeliveries).
Every step of the worker is a step of the engine or touches one entry, so what holds of the engine whatever is called
carries over: the lock (`WorkerKeepsLock`), the refinement (`WorkerImplementsLifecycle`), `OnlyBootsStrandWithWorker`,
`WorkerSpendsRetries`. `WorkerDrivesItsJob` and `WorkerDeliversWithinBudget` bound what BullMQ holds and repeats.
`NobodyIsForgotten` is the wake-up argument for the whole deployment, boots included: `Unforgotten` says that, while `dropped` is empty,
a running job is driven or will be delivered, and a queued one waits for a look at the queue (`Waits`: something due, or a running
job), or is itself on its way to the worker. `WaitsStep`, which `NoWakeUpIsLost` uses as well, is the step of the engine. What the worker adds is
a boot, after which every live job is delivered or `dropped` names it, and a late rejection, which takes a wake-up from others only if a callback was
due for the rejected job, and then `dropped` names that one.

**Mutex** (`MemoryMutexProofs`). `MutexInv` = `MutexTypeOK`, `PhaseNotLeaked` and `WakePending` is inductive. The part of the
type invariant that carries the argument is `QueuedAreWaiting`: the queue holds exactly the waiting clients,
once each; without it a release could wake a client that has already given up. `PhaseNotLeakedHolds` is the
result a reader would not expect: owners overwrite one another and release locks they do not hold, yet a taken
phase always has a client that will release it.

**Models** (`ModelOrchestratorProofs`). `Base` holds of every call: its fields fit its place (`CallsSound`), and who queues behind
an eviction queues behind one in flight. `UndisturbedInv` says what a call may rely on while nothing disturbs it: it is
the only one, a generation or preload nobody waits for has loaded what it needs, and at each place of its sweep it knows enough of Ollama's memory. After a sync
everything resident is in the list it read; from the locking eviction on, no 7B model is resident that is neither its target nor
its victim; a call that clears memory has looked at every model but those in `rest`. Failed syncs leave the belief arbitrary,
so the invariant speaks of memory and of the list read, and of the belief only where the lock uses it. From it follow
`LockHoldsUndisturbed`, `HeadroomIsRespected` and `UnloadAllFreesMemory`.

**Series** (`SeriesPlanningProofs`). `SeriesInv` says of every pass in flight that its mark still stands, that the guide
it read is not from the future and that its prerequisites are there; to that come `Whole`, which is
`ReadyIsWhole` for the entry, `Alone`, which turns the two different guards of the routes into one exclusion, and `Driven`, which
holds while nothing has crashed. `PassesDoNotOverlap` needs all of them: a rerun is refused because of a mark, and
only the invariant says that a pass in flight has one.

**Workflows** (`WorkflowProofs`). `RunsInv` relates the place of a request to the rows it has written: before its
append there is none, after it one of each kind it has passed. Then the deduplication of a second request sees every run
under way unless it read before the row was there, which is what `overlapped` records. `KeyIsExclusive`,
`PythonIsExclusive`, `RowsAreInOrder`.

**Creative runs** (the second half of `WorkflowProofs`). `CreativeInv`: in the Map and in the snapshot, a complete stage has every
stage before it among those once complete. This is why looking one stage back is enough (`CompletionIsEarned`).

**TikTok** (`TikTokAccountsProofs`). `AccountInv` says what a call knows: unless it is overtaken its copy is the row, a token
it got is the newest, and a row whose token TikTok refuses has somebody about to store another, unless its loss is recorded:
each statement that may fail and each answer that may be lost is a case of the proof. `StatusIsDecided`,
`TokenSurvives`, `PostsAreCounted`, `LaneIsSequential`.

**Control plane** (`ControlPlaneQueueProofs`). `ControlInv` gives every place of a worker and of a submitter what the rows
then say (`WorkerWay`, `SubmitterWay`), and `OnceAt` how often a job can have been executed at that place.
A route that raises leaves its row to nobody, which is the case `orphans` records; while a row is not among them, who runs it
is at a place from which `OwnersEndTheirRows` follows. `OneWorkerExecutesOnce` is the hard one: the fall-back claims leave the row queued, and only because the same single worker
must first finish the job is it not claimed twice. A lemma on cardinalities says that a job outside the window has that many
newer ones (`Crowded`).

**Progress.** Eight theorems say what must eventually happen, from `FairSpec` (of the worker: `WorkerFairSpec`) and one hypothesis about enabledness. The provers
cannot derive that a step is possible (`ENABLED`), so each module states it as an invariant of its own, which TLC confirms on
the instance of the run: added to the `.cfg`, `Settleable`, `Workable`, `Executable`, `Answerable`, `WorkerLive` and `WorkerAble` hold in
every state. Each is plain from the actions (what awaits something can be answered); the theorems use nothing else on trust.

- `RunsAreSettled` is `RunsSettle`: an execution has four places to leave, in order, each by its own fair step.
- `PlansAreSettled` is `PlanningEnds`: by `SeriesInv` the pass that drives a plan is the first call, and it leaves pass 1 for 2,
  2 for 3, 3 for 4, or the plan is over. Reruns, productions and deletions cannot take it back.
- `OperationsComeBack`: an operation of the control plane is at most nine steps from its end (`StepsAt`), each of its own steps
  goes down and no other actor's goes up. `OwnersEndTheirRows` carries a running row down the same ladder.
- `PipelinesMoveOn`: the awaits before a pipeline (`TurnsLeft`, a number that depends on the stages) get fewer. With
  `RequeuesSpendRetries` and `NoWakeUpIsLost` these are the three steps of the argument for `EveryJobSettles`.
  `WorkerPipelinesMoveOn` says the same beside the worker, whose deliveries, kills and reports never send a pipeline back.
- `WorkerReportsComeBack`: BullMQ learns how each attempt ended, or the worker dies first. With `WorkerPipelinesMoveOn` and
  `WorkerDeliversWithinBudget` these are the steps of the argument for `DeliveriesEnd`.
- `PostsMoveUp`: a post under way ends, the head of the lane is taken, at every place behind it a post moves up.

**Only model-checked**: `EveryJobSettles`, `DeliveriesEnd`, `SettlesUnlessDropped`, `QueuedEnds`, `PostsEnd`. Each repeats a step a number of times that depends on the constants (stages and retries, attempts, older jobs, places in a lane), and joining
those steps is an induction over a temporal formula, which the installed provers cannot do; a ladder of fixed length
(above) is as far as they go. `QueuedEnds` also needs an owner that exists only at each moment. The other 35 properties of the
runs, all the safety properties among them, are theorems.

## 7. Where code and documents disagree

Every run of section 4 passes. The following statements of the documents and comments do not hold of the code. Each can be
reproduced with the named instance: put the formula into its `.cfg` in place of the properties (without `SYMMETRY` where
the formula is temporal or `FreshSpec` is used), change the constants as said, and TLC finds a counterexample.

| instance, formula | what happens | what is said |
|---|---|---|
| `orch_plain` with `Calls <- CancelCalls`, `OnePipelineAtATime` | cancelling a running job frees the lock, the next pipeline starts beside the cancelled one | `src/docs/VIDEO-GENERATION.md:72`, one video at a time |
| the same, `EveryJobSettles` | a job that waits for its retry is cancelled: the timer gives up and nobody looks at the jobs behind it | `VIDEO-GENERATION.md:72`, the queue drains |
| `orch_restart` with `Calls <- CancelResumeCalls`, `CancelledRunStops` | cancel, then resume within one tick of the watcher: the cancelled pipeline runs on | `VIDEO-GENERATION.md:833`, no further stages run |
| `orch_admin` with `Calls <- CrashCalls`, `RunningIsDriven` | a boot restores a running entry that no pipeline drives; it holds the lock | `SwarmXQ_APEX_Video_Factory_V4_Production_Directive.md:1595`, classify interrupted stages |
| `orch_admin` with `Calls <- DeleteCalls`, `NoUnhandledRejection` | a retried pipeline whose job was cancelled and deleted rejects with no handler and the process exits | `src/.ai/skills/backend-systems-auditor/SKILL.md:150`, "Zero unhandled promise rejections" |
| `mutex_shared`, `PhasesExclusive` | two renders pass the idle lock, or one ignores its refusal: speech synthesis and encoding overlap | `services/memory-mutex.ts:11`, "Never allow LLM models, Kokoro weights, and FFmpeg to occupy RAM concurrently" |
| `worker_jobs`, `OnePipelineAtATime` | dispatch and retry timers start a pipeline beside the worker's, with no user call but two posts | `workers/video-worker.ts:51`, "Mirrors MAX_CONCURRENT_JOBS — CPU inference is serial"; `routes/video.ts:458`, "the Worker handles dispatch instead" |
| `worker_jobs` with `MaxCrashes = 0`, `NoUnhandledRejection` | the pipeline of a retry timer rejects when the worker's pipeline has ended the job | `SKILL.md:150` as above |
| `models_calls` with `GoalsOf <- MCRequestsOnly` and `FreshSpec`, `SingleHeavyLock` | two requests for different 7B models overlap: both are loaded | `services/model-orchestrator.ts:9` and `:382`, never two 7B models |
| `workflow_requests`, `CancelAuthoritative` | a cancelled run succeeds afterwards, its row comes last | `routes/workflows.ts:500`, "The cancel record in JSONL is authoritative" |
| `series_plans`, `PreProductionExclusive` | a pre-production starts over a rerun in flight | `routes/series.ts:265`, "reject if already running" |

Not runs, because no property of a model states them:

- BullMQ's attempts never repeat a failed render, since failures do not rethrow; a job cancelled or deleted while it
  waits in BullMQ is restored and executed, although the comment (`workers/video-worker.ts:31`) speaks of retries only; the
  series and campaign routes run a job themselves *and* BullMQ delivers it (`routes/series.ts:221`,
  `services/campaign-manager.ts:278`), so it is rendered twice. BullMQ is told "completed" while the job waits for an
  in-memory retry timer; a kill then strands it.
- While the access token of a TikTok account is fresh, `getTikTokAccessToken` always throws: it passes the object that
  `mapSecretRow` has mapped to `mapRow` (`services/tiktok-accounts.ts:338`), which finds no `access_expires_at` in it and asks for the
  ISO form of an invalid date (`:49`). So an account can post or be verified only when its token is within fifteen minutes of
  its end, and once per refresh, although `src/docs/TIKTOK-CONTROLLED-VERIFICATION.md:225` says "the access token is resolved
  server-side and refreshed when necessary". A login whose upsert fails, or whose answer is lost, may leave the row with a
  token TikTok has withdrawn.
- `/api/run` and `/api/evolve` set their job to running and then call code that may raise, for instance
  `int(data.get("max_iterations"))` (`src/src/swarmx/server.py:625`): nothing catches it, and the row says running for ever. The
  worker thread handles the same exceptions (`src/src/swarmx/worker.py:237`).
- A preload for the composer starts while another 7B model is resident (`routes/composer.ts:1276`), so two are loaded without
  any call of the model orchestrator. With the worker, an entry left running by the end of a process lets no retry timer start
  a job; a retry timer that fires beside a running job is lost; and if that job then waits for a retry of its own when `Queue.add`
  rejects it, its timer finds a failed entry and the other job stays queued with nothing due.
- A crash leaves a series `planning`, a pass `running` and a workflow run `running` for ever. A lone rerun of pass A, B or C
  leaves its episode "prompting", "audio_assets" or "scoring", and the pre-production route then answers 409 for ever. A
  failed series whose passes were all repaired stays failed.
- A job submitted in the turn in which a pipeline ends can start before an older one (FIFO in `VIDEO-GENERATION.md:72`);
  a full queue refuses a resubmission it should answer with the existing job (`services/video-queue.ts:123`); a job that
  outlives its one clean-up timer is never removed (`CONFIG_REFERENCE.md:88`); `resumeFromStage` is stored and never read, so
  a resumed job starts over (`VIDEO-GENERATION.md:582`), and nothing dispatches it; `PRESSURE_CRITICAL` is thrown as
  retryable after the back-off (`services/video-orchestrator.ts:1379`) but classified as not retryable; two direct
  pipelines of one job may leave it queued for ever; a waiter of the mutex is not woken when the one before it fails
  its memory check.

## 8. What is not modelled, and why

In the modelled parts:

- Video engine: `reprioritizeQueue` (order among equals and BullMQ priorities; `Deliver` takes any waiting job),
  `subscribeToJob` and all events (nothing reads them back), the event journal, what stages compute, `onProgress` reports
  inside a stage, percentages and time stamps other than creation order, jobs created in the same millisecond, a crash *inside*
  one synchronous function, a change of `SWARMX_VIDEO_MAX_RETRIES` between restarts, `withPhase` (no caller), the phase `llm`
  (nobody takes it). Back-off lengths are arbitrary: a timer fires at any time after it was set. `VideoOrchestrator`
  leaves failing writes to `VideoQueue`.
- Registry: a snapshot that cannot be read at a boot (`services/local-state-store.ts:127`), after which the Map is empty.
- Worker: the stand-alone process of `start-worker.ts`, which has a registry of its own and writes the same snapshot
  file; the fall-back to memory when Redis is down at boot; Redis outages.
- Model orchestrator: `setMode` and `preloadNextSpecialist` (no caller), the opt-in preload, models outside `MODEL_REGISTRY`.
- Series: what the models are asked and answer; several series (they share only the snapshot file); failing writes.
  Campaigns keep a record of their episodes that no decision reads.
- Publishing queue: only its use of the mutex. No route and no start-up code calls `enqueuePublish` or starts its worker.
- Workflows: reading and writing workflow files, failing appends, a read of the file that fails and counts as no rows, the window of 500 rows. Creative runs: profiles,
  revisions, output references. TikTok: keys that are not configured, the end of a refresh token's own year, the lane limit, the quota limiter, the
  requester's wait. Control plane: what a job does; a database or a file of the queue that
  fails, which `queue.py` swallows and the routes do not; an `id` in the payload of `/api/queue/submit`, which re-queues the row of
  that id; several servers.
- The order of a graceful shutdown and the registration of plug-ins.

Without a model: scoring, prompt and planning heuristics, renderers and HTTP clients (only success, failure or time-out
matters to the engine, and that is a free choice in the models), the pressure monitor (likewise), event
streams and dashboard (nothing reads them back), video file clean-up (touches no registry), the evolver, the LLM client,
agents and skills (straight-line code around model calls), type declarations, scripts and infrastructure. Most of the
repository's lines are of these kinds, so the models stand for a small share of them.

Parts with a state machine that wait for the plan: adaptive time-outs and circuit breakers, the execution gate and policy,
`brain`, the legacy circuit breaker and rate limiter of `src/orchestration/tools.py`.

## 9. Plan

Done: registry, life cycle, orchestrator, worker, mutex, models, series, workflows, creative runs, TikTok, control-plane
queue; the proofs of section 6, which cover every safety property of the runs and two of the liveness properties.

Next, in this order:

1. `CircuitBreaker`: the automaton of `services/adaptive-timeout-config.ts` and of `src/orchestration/tools.py`, with
   overlapping probes and late answers.
2. The stand-alone worker process beside the API: two Maps, one snapshot file.
3. `ExecutionGate`: approvals of a mission against its commands; `brain`'s task graph.
