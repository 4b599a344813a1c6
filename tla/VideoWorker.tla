----------------------------- MODULE VideoWorker -----------------------------
(***************************************************************************)
(* The BullMQ deployment of the video engine: VideoOrchestrator with       *)
(* workers/video-worker.ts, which takes the jobs that enqueue handed to    *)
(* BullMQ and runs a pipeline for each, in the process of the API.         *)
(*                                                                         *)
(* What runs without BullMQ stays in place here: the retry timer of a      *)
(* failed pipeline and the dispatch of the next queued job do not ask who  *)
(* owns the queue, and the campaign and series routes start a pipeline for *)
(* a job that BullMQ holds as well.                                        *)
(*                                                                         *)
(* BullMQ itself is a library: of a job it holds it keeps a state, the     *)
(* attempts that ended in an exception and the times its worker died.  It  *)
(* gives jobs of equal priority in any order (the order can be changed at  *)
(* run time), one at a time (concurrency 1).  Redis is reachable.          *)
(***************************************************************************)
EXTENDS VideoOrchestrator

CONSTANT MaxCrashes  \* bound: how often the process is killed

ASSUME WorkerAssumption == NoId \notin Run /\ MaxCrashes \in Nat

VARIABLES
  bull,     \* what BullMQ keeps about every job it holds
  slot,     \* the slot of the worker's pipeline, NoId without one
  dropped,  \* history: jobs that lost what would have driven them on
  crashes   \* how often the process was killed

workerVars == <<vars, bull, slot, dropped, crashes>>

BullEnded == {"completed", "failed"}
InHand == {"active", "resolved", "rejected"}  \* with the worker of this process
BullJob == [state  : {"waiting", "orphaned"} \cup InHand \cup BullEnded,
            tries  : Nat,    \* attempts that threw
            stalls : Nat]    \* times its worker died

MaxStalledCount == 1

-----------------------------------------------------------------------------
(* Mutant: processJob does not await its pipeline.                          *)
DeliverNotAwaited(i) ==
  /\ up
  /\ remote[i] = "held"
  /\ bull[i].state = "waiting"
  /\ \A k \in JobId : bull[k].state \notin InHand
  /\ IF registry[i].status \in Active THEN UNCHANGED queueVars
     ELSE RestoreJobFromBullMQ(i)
  /\ BeginRun(i, TRUE)
  /\ bull' = [bull EXCEPT ![i].state = "resolved"]
  /\ UNCHANGED <<up, immediates, timers, slot, dropped, crashes>>

(* processJob up to the first await of its pipeline: an entry that is gone  *)
(* or terminal is replaced by a fresh one, another is used as it is; the    *)
(* pipeline runs without startJob.                                          *)
Deliver(i) ==
  /\ up
  /\ remote[i] = "held"
  /\ bull[i].state = "waiting"
  /\ \A k \in JobId : bull[k].state \notin InHand
  /\ IF registry[i].status \in Active THEN UNCHANGED queueVars
     ELSE RestoreJobFromBullMQ(i)
  /\ BeginRun(i, TRUE)
  /\ slot' = CHOOSE r \in Run : runs'[r] # runs[r]
  /\ bull' = [bull EXCEPT ![i].state = "active"]
  /\ UNCHANGED <<up, immediates, timers, dropped, crashes>>

(* What the promise of processJob does when its pipeline ends with the      *)
(* entry of job i as it is now: runOrchestration throws only where failJob  *)
(* does.                                                                    *)
Answer(i) == IF registry[i].status \in Active \cup {"cancelled"}
             THEN "resolved" ELSE "rejected"

(* A callback will take job i up.                                           *)
CallbackDue(i) == timers[i] > 0 \/ \E n \in DOMAIN immediates : immediates[n] = i

(* BullMQ will deliver job i, again if its worker has died.                 *)
Deliverable(i) ==
  /\ remote[i] = "held"
  /\ \/ bull[i].state = "waiting"
     \/ bull[i].state = "orphaned" /\ bull[i].stalls < MaxStalledCount

(* What a step of the pipelines and routes means to BullMQ: nothing, unless *)
(* it ends the worker's pipeline or the process.                            *)
Observed ==
  LET ended == slot # NoId /\ (~up' \/ runs'[slot].pc = "free")
  IN  /\ slot' = IF ended THEN NoId ELSE slot
      /\ bull' = [i \in JobId |->
                    IF ~up' /\ bull[i].state \in InHand
                    THEN [bull[i] EXCEPT !.state = "orphaned"]
                    ELSE IF ended /\ bull[i].state = "active"
                    THEN [bull[i] EXCEPT !.state = Answer(i)]
                    ELSE bull[i]]
      /\ dropped' = IF ~up /\ up'
                    THEN dropped \cup {i \in JobId :
                           registry'[i].status \in Active /\ ~Deliverable(i)'}
                    ELSE dropped

(* Mutant: an attempt that threw is reported to nobody.                     *)
AcknowledgeSuccessOnly(i) ==
  /\ up
  /\ bull[i].state = "resolved"
  /\ bull' = [bull EXCEPT ![i].state = "completed"]
  /\ UNCHANGED <<vars, slot, dropped, crashes>>

(* The worker tells BullMQ how the attempt ended.  An attempt that threw    *)
(* counts, and attempts = MAX_RETRIES + 1 are made.                         *)
Acknowledge(i) ==
  /\ up
  /\ \/ /\ bull[i].state = "resolved"
        /\ bull' = [bull EXCEPT ![i].state = "completed"]
     \/ /\ bull[i].state = "rejected"
        /\ bull' = [bull EXCEPT ![i].state = IF bull[i].tries < MaxRetries
                                             THEN "waiting" ELSE "failed",
                                ![i].tries = @ + 1]
  /\ UNCHANGED <<vars, slot, dropped, crashes>>

(* The lock of a worker that died runs out: the job waits again, once.      *)
StalledCheck(i) ==
  /\ up
  /\ bull[i].state = "orphaned"
  /\ bull' = [bull EXCEPT ![i].state = IF bull[i].stalls < MaxStalledCount
                                       THEN "waiting" ELSE "failed",
                          ![i].stalls = @ + 1]
  /\ UNCHANGED <<vars, slot, dropped, crashes>>

(* The promise of Queue.add settles.  When it is rejected late, after the   *)
(* entry was picked for a dispatch or has begun a retry, that callback      *)
(* finds a failed entry and takes up no other.                              *)
Submitted(i) ==
  /\ up
  /\ SubmitAccepted(i) \/ SubmitRejected(i)
  /\ dropped' = IF remote'[i] = "none" /\ CallbackDue(i) THEN dropped \cup {i} ELSE dropped
  /\ UNCHANGED <<orchVars, bull, slot, crashes>>

Killed ==
  /\ crashes < MaxCrashes
  /\ Crash
  /\ Observed
  /\ crashes' = crashes + 1

WorkerInit ==
  /\ Init
  /\ bull = [i \in JobId |-> [state |-> "waiting", tries |-> 0, stalls |-> 0]]
  /\ slot = NoId
  /\ dropped = {}
  /\ crashes = 0

(* A step of VideoOrchestrator other than Crash, as BullMQ sees it.         *)
Seen(A) == A /\ Observed /\ UNCHANGED crashes

WorkerNext ==
  \/ Seen(LoopStep) \/ Seen(CallStep) \/ Seen(Boot)
  \/ \E i \in JobId : Deliver(i) \/ Acknowledge(i) \/ StalledCheck(i) \/ Submitted(i)
  \/ Killed

WorkerSpec == WorkerInit /\ [][WorkerNext]_workerVars

(* As in VideoOrchestrator; the connection to Redis answers, and the worker *)
(* takes a job that waits.                                                  *)
RunServed(r) == WF_workerVars(Seen(RunStep(r)))
Reports(i) == WF_workerVars(Acknowledge(i))
RunsServed == \A r \in Run : RunServed(r)
AllReport == \A i \in JobId : Reports(i)
WorkerFairness ==
  /\ RunsServed /\ AllReport
  /\ \A r \in Run : WF_workerVars(Seen(WatcherTick(r)))
  /\ WF_workerVars(Seen(ImmediateFires))
  /\ WF_workerVars(Seen(Boot))
  /\ \A i \in JobId :
       /\ WF_workerVars(Seen(RetryTimerFires(i)))
       /\ WF_workerVars(Submitted(i))
       /\ WF_workerVars(Deliver(i))
       /\ WF_workerVars(StalledCheck(i))

WorkerFairSpec == WorkerSpec /\ WorkerFairness
-----------------------------------------------------------------------------
(* Type invariant of what BullMQ keeps and of the worker's slot.            *)
WorkerTypeOK ==
  /\ OrchTypeOK
  /\ bull \in [JobId -> BullJob]
  /\ slot \in Run \cup {NoId}
  /\ dropped \subseteq JobId
  /\ crashes \in 0..MaxCrashes

(* BullMQ is told that a job is done only when its entry has ended or its   *)
(* pipeline has handed it to a retry timer, the one kind of work that a     *)
(* crash loses and nothing delivers again.                                  *)
CompletedEndsOrRetries ==
  \A i \in JobId :
    remote[i] = "held" /\ bull[i].state = "completed" /\ registry[i].status \in Active
       => registry[i].retryCount > 0

(* The worker holds one job at a time, and while it awaits a pipeline that  *)
(* pipeline is alive and works for the job it was given.                    *)
WorkerHoldsOneDriven ==
  /\ \A i, k \in JobId :
       bull[i].state \in InHand /\ bull[k].state \in InHand => i = k
  /\ \A i \in JobId : bull[i].state = "active" => slot \in RunsOf(i)

(* BullMQ gives up in time: what it may deliver again has thrown at most    *)
(* MaxRetries times and lost at most MaxStalledCount workers.               *)
DeliveriesBounded ==
  \A i \in JobId :
    bull[i].state \notin BullEnded =>
      bull[i].tries <= MaxRetries /\ bull[i].stalls <= MaxStalledCount

(* Steps of DeliveriesEnd: PipelinesAdvance above, and how an attempt ended *)
(* is reported.                                                             *)
Answered(i) == bull[i].state \in {"resolved", "rejected"}
ReportComes(i) == Answered(i) ~> ~Answered(i)
ReportsCome == \A i \in JobId : ReportComes(i)

(* An await that is pending can settle, and an answer can be reported.      *)
WorkerAble ==
  /\ \A r \in LiveRuns : ENABLED <<Seen(RunStep(r))>>_workerVars
  /\ \A i \in JobId : Answered(i) => ENABLED <<Acknowledge(i)>>_workerVars

(* The worker is never stuck: every job BullMQ accepted is reported         *)
(* completed or failed, whatever other pipelines, users and crashes did to  *)
(* its entry in between.                                                    *)
DeliveriesEnd ==
  \A i \in JobId : remote[i] = "held" ~> bull[i].state \in BullEnded

(* Something will happen without a user: a callback, a pipeline, an answer  *)
(* of BullMQ, a delivery or a boot.                                         *)
SomethingDue ==
  \/ ~up \/ immediates # <<>> \/ LiveRuns # {}
  \/ \E i \in JobId :
       \/ timers[i] > 0 \/ remote[i] = "submitting"
       \/ remote[i] = "held" /\ bull[i].state \notin BullEnded

(* No accepted job is forgotten: whenever the engine comes to rest, every   *)
(* job has ended, by the worker's pipeline, by that of a retry timer or by  *)
(* the next dispatch, also when the process was killed or an unhandled      *)
(* rejection ended it on the way; unless some job was dropped: by a process *)
(* that ended while it waited for a retry timer or for its Queue.add or     *)
(* after its worker had died once, or by a late rejection.  One is enough:  *)
(* an entry left running lets no retry start.                               *)
NobodyForgotten ==
  SomethingDue \/ dropped # {} \/ \A i \in JobId : registry[i].status \notin Active

(* And the engine does come to rest for every job that is alive.            *)
SettlesUnlessDropped ==
  \A i \in JobId : registry[i].status \in Active ~>
                     registry[i].status \notin Active \/ dropped # {}
=============================================================================
