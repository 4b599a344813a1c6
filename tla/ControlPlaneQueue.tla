--------------------------- MODULE ControlPlaneQueue ---------------------------
(***************************************************************************)
(* src/swarmx/queue.py with its users: the job queue of the Python control *)
(* plane.  A job is kept three times: in a column of its SQLite row, in    *)
(* the JSON payload of that row, and in a JSONL file every operation       *)
(* rewrites as a whole.  Routes and commands append and update jobs, a     *)
(* worker thread claims them; each database call is atomic (_DB_LOCK), a   *)
(* queue operation made of several is not.                                 *)
(***************************************************************************)
EXTENDS Integers, FiniteSets

CONSTANTS
  Job,          \* numbered in the order of created_at
  KindsOf,      \* how each of them may be submitted
  Worker,       \* worker threads
  Windows,      \* sizes for load_jobs(limit=500)
  MaxCrashes,   \* bound on crashes of the server process
  None

ASSUME ControlAssumption ==
  /\ Job \subseteq Nat /\ IsFiniteSet(Job)
  /\ Worker \cap Job = {} /\ None \notin Job
  /\ Windows \subseteq Nat \ {0} /\ MaxCrashes \in Nat

VARIABLES
  kind,      \* how each job is submitted, chosen at the start
  window,    \* how many of the newest jobs an operation sees, likewise
  db,        \* SQLite: status column and status in the payload
  file,      \* jobs.jsonl
  op,        \* what each worker and each submitter is doing
  runs,      \* history: executions, 2 for more than one
  early,     \* history: jobs claimed before they had a row
  orphans,   \* history: jobs whose rows said running when the server died, or
             \* when a route that had one raised
  crashes

given == <<kind, window>>
history == <<runs, early, orphans>>
vars == <<kind, window, db, file, op, runs, early, orphans, crashes>>

Actor == Job \cup Worker
(* POST /api/queue/submit; /api/run and /api/evolve; /api/mission; resume.  *)
Kind == {"submit", "run", "mission", "resume"}
(* pending counts as queued; done, error, blocked and the status of a run   *)
(* record are "ended".                                                      *)
Status == {"absent", "queued", "running", "ended"}
Place == {"new", "appending", "upserting", "answered",
          "idle", "resumeFallback", "claiming", "nextFallback", "marking",
          "claimed", "updating", "writing", "patching"}

Nothing == [j \in Job |-> "absent"]
(* An operation under way: `to' is the status update_job writes, `snap' the *)
(* list of jobs read and about to be written back.                          *)
At(pc, j) == [pc |-> pc, job |-> j, to |-> "ended", snap |-> Nothing]

Init ==
  /\ kind \in [Job -> Kind] /\ \A j \in Job : kind[j] \in KindsOf[j]
  /\ window \in Windows
  /\ db = [j \in Job |-> [col |-> "absent", pay |-> "absent"]]
  /\ file = Nothing
  /\ op = [a \in Actor |-> IF a \in Job THEN At("new", a) ELSE At("idle", None)]
  /\ runs = [j \in Job |-> 0] /\ early = {} /\ orphans = {}
  /\ crashes = 0

Goes(a, next) == op' = [op EXCEPT ![a] = next]

(* load_jobs: the newest payloads, or the lines of the file when there is   *)
(* no row at all.  Once there is one nobody reads the file any more, and    *)
(* its contents, and those about to be written, are no longer followed.     *)
Newest(s) == [j \in Job |->
  IF Cardinality({k \in Job : k > j /\ s[k] # "absent"}) < window THEN s[j] ELSE "absent"]
NoRow == \A j \in Job : db[j].pay = "absent"
Loaded == Newest(IF NoRow THEN file ELSE [j \in Job |-> db[j].pay])
Followed(s) == IF NoRow THEN s ELSE Nothing

Oldest(S) == CHOOSE j \in S : \A k \in S : j <= k

(* append_job: load, write the file, insert the row.                        *)
AppendLoads(j) ==
  /\ op[j].pc = "new"
  /\ Goes(j, [At("appending", j) EXCEPT !.snap = Followed([Loaded EXCEPT ![j] = "queued"])])
  /\ UNCHANGED <<given, db, file, history, crashes>>

AppendWrites(j) ==
  /\ op[j].pc = "appending"
  /\ file' = Followed(op[j].snap)
  /\ Goes(j, At("upserting", j))
  /\ UNCHANGED <<given, db, history, crashes>>

(* What the submitter does with the job it appended.                        *)
AfterAppend(j) ==
  CASE kind[j] = "mission" -> [At("updating", j) EXCEPT !.to = "queued"]
    [] kind[j] = "run" -> [At("updating", j) EXCEPT !.to = "running"]
    [] OTHER -> At("answered", j)

Upserts(j) ==
  /\ op[j].pc = "upserting"
  /\ db' = [db EXCEPT ![j] = [col |-> "queued", pay |-> "queued"]]
  /\ file' = Nothing
  /\ Goes(j, AfterAppend(j))
  /\ UNCHANGED <<given, history, crashes>>

(* Mutant: the row of a finished resume job keeps its payload.              *)
StampedColumnOnly(a) ==
  [db EXCEPT ![op[a].job].col = op[a].to,
             ![op[a].job].pay = IF op[a].to = "ended" /\ a \in Worker THEN @ ELSE op[a].to]

(* Both places of the row get the patched status.                           *)
Stamped(a) == [db EXCEPT ![op[a].job] = [col |-> op[a].to, pay |-> op[a].to]]

(* Where an update leads: back to the loop, to the answer, or, when a run   *)
(* has been marked running, to its execution by the route itself.           *)
AfterUpdate(a) ==
  IF a \in Worker THEN At("idle", None)
  ELSE IF op[a].to = "running" THEN At("claimed", a)
  ELSE At("answered", a)

(* update_job: load, write the file, patch the row; a job that is not among *)
(* the ones loaded is not updated.                                          *)
UpdateLoads(a) ==
  /\ op[a].pc = "updating"
  /\ Goes(a, IF Loaded[op[a].job] = "absent" THEN AfterUpdate(a)
             ELSE [op[a] EXCEPT !.pc = "writing", !.snap = Followed([Loaded EXCEPT ![op[a].job] = op[a].to])])
  /\ UNCHANGED <<given, db, file, history, crashes>>

UpdateWrites(a) ==
  /\ op[a].pc = "writing"
  /\ file' = Followed(op[a].snap)
  /\ Goes(a, [op[a] EXCEPT !.pc = "patching", !.snap = Nothing])
  /\ UNCHANGED <<given, db, history, crashes>>

Patches(a) ==
  /\ op[a].pc = "patching"
  /\ db' = IF db[op[a].job].pay = "absent" THEN db ELSE Stamped(a)
  /\ Goes(a, AfterUpdate(a))
  /\ UNCHANGED <<given, file, history, crashes>>

(* Mutant: whatever does not run may be claimed.                            *)
QueuedRowsIdle(kinds) == {j \in Job : db[j].col \notin {"absent", "running"} /\ kind[j] \in kinds}

QueuedRows(kinds) == {j \in Job : db[j].col = "queued" /\ kind[j] \in kinds}

(* claim_resume_job: one UPDATE of the column of the oldest queued resume   *)
(* job; the payload keeps saying queued.                                    *)
ClaimResume(w) ==
  /\ op[w].pc = "idle"
  /\ LET rows == QueuedRows({"resume"})
     IN \/ /\ rows # {}
           /\ db' = [db EXCEPT ![Oldest(rows)].col = "running"]
           /\ Goes(w, At("claimed", Oldest(rows)))
        \/ /\ rows = {}
           /\ UNCHANGED db
           /\ Goes(w, At("resumeFallback", None))
  /\ UNCHANGED <<given, file, history, crashes>>

(* claim_next_job: the oldest queued row, column and payload.               *)
ClaimNext(w) ==
  /\ op[w].pc = "claiming"
  /\ LET rows == QueuedRows(Kind)
     IN \/ /\ rows # {}
           /\ db' = [db EXCEPT ![Oldest(rows)] = [col |-> "running", pay |-> "running"]]
           /\ Goes(w, At("claimed", Oldest(rows)))
        \/ /\ rows = {}
           /\ UNCHANGED db
           /\ Goes(w, At("nextFallback", None))
  /\ UNCHANGED <<given, file, history, crashes>>

(* Mutant: no fall-back.                                                    *)
FallbackNone(w, pc, kinds, next) ==
  /\ op[w].pc = pc
  /\ Goes(w, At(next, None))
  /\ UNCHANGED <<given, db, file, history, crashes>>

(* Both claims fall back on load_jobs, and then mark the job in the file    *)
(* only.                                                                    *)
Fallback(w, pc, kinds, next) ==
  /\ op[w].pc = pc
  /\ LET found == {j \in Job : Loaded[j] = "queued" /\ kind[j] \in kinds}
     IN IF found = {} THEN Goes(w, At(next, None))
        ELSE Goes(w, [At("marking", Oldest(found)) EXCEPT
                        !.snap = Followed([Loaded EXCEPT ![Oldest(found)] = "running"])])
  /\ UNCHANGED <<given, db, file, history, crashes>>

ResumeFallback(w) == Fallback(w, "resumeFallback", {"resume"}, "claiming")
NextFallback(w) == Fallback(w, "nextFallback", Kind, "idle")

MarksFile(w) ==
  /\ op[w].pc = "marking"
  /\ file' = Followed(op[w].snap)
  /\ early' = IF db[op[w].job].pay = "absent" THEN early \cup {op[w].job} ELSE early
  /\ Goes(w, At("claimed", op[w].job))
  /\ UNCHANGED <<given, db, runs, orphans, crashes>>

(* Mutant: the early return of the gate leaves the job as it is.            *)
ExecutesUngated(a) ==
  /\ op[a].pc = "claimed"
  /\ \E allowed \in BOOLEAN :
       /\ runs' = [runs EXCEPT ![op[a].job] = IF ~allowed THEN @ ELSE IF @ = 0 THEN 1 ELSE 2]
       /\ Goes(a, IF allowed THEN At("updating", op[a].job)
                  ELSE IF a \in Worker THEN At("idle", None) ELSE At("answered", a))
  /\ UNCHANGED <<given, db, file, early, orphans, crashes>>

(* The job is executed, or ends because the policy gate blocks it.          *)
Executes(a) ==
  /\ op[a].pc = "claimed"
  /\ \E allowed \in BOOLEAN :
       runs' = [runs EXCEPT ![op[a].job] = IF ~allowed THEN @ ELSE IF @ = 0 THEN 1 ELSE 2]
  /\ Goes(a, At("updating", op[a].job))
  /\ UNCHANGED <<given, db, file, early, orphans, crashes>>

(* An exception of /api/run or /api/evolve, before or after the execution   *)
(* began, ends the request and is caught by nobody: the row stays as it is. *)
(* The worker catches its own and ends the job with "error" (Executes).     *)
RouteRaises(j) ==
  /\ op[j].pc = "claimed"
  /\ \E begun \in BOOLEAN :
       runs' = [runs EXCEPT ![j] = IF ~begun THEN @ ELSE IF @ = 0 THEN 1 ELSE 2]
  /\ orphans' = orphans \cup (IF db[j].pay = "running" THEN {j} ELSE {})
  /\ Goes(j, At("answered", j))
  /\ UNCHANGED <<given, db, file, early, crashes>>

(* The server dies with its worker and its handlers; resume jobs are        *)
(* enqueued by a command of another process.                                *)
Crash ==
  /\ crashes < MaxCrashes /\ crashes' = crashes + 1
  /\ orphans' = orphans \cup {j \in Job : db[j].pay = "running"}
  /\ op' = [a \in Actor |->
       IF a \in Worker THEN At("idle", None)
       ELSE IF kind[a] # "resume" /\ op[a].pc # "new" THEN At("answered", a)
       ELSE op[a]]
  /\ UNCHANGED <<given, db, file, runs, early>>

Work(a) ==
  \/ /\ a \in Job
     /\ AppendWrites(a) \/ Upserts(a) \/ RouteRaises(a)
  \/ UpdateLoads(a) \/ UpdateWrites(a) \/ Patches(a) \/ Executes(a)
  \/ /\ a \in Worker
     /\ ClaimResume(a) \/ ResumeFallback(a) \/ ClaimNext(a) \/ NextFallback(a) \/ MarksFile(a)

Next == (\E j \in Job : AppendLoads(j)) \/ (\E a \in Actor : Work(a)) \/ Crash

Spec == Init /\ [][Next]_vars
(* Threads are scheduled and executions end (model calls have time-outs);   *)
(* nobody has to submit anything.                                           *)
Served(a) == WF_vars(Work(a))
FairSpec == Spec /\ \A a \in Actor : Served(a)
-----------------------------------------------------------------------------
Busy(a) == op[a].pc \in {"marking", "claimed", "updating", "writing", "patching"}
Crowded(j) == Cardinality({k \in Job : k > j /\ op[k].pc # "new"}) >= window
Alone == \A v, w \in Worker : v = w

Operation == [pc : Place, job : Job \cup {None}, to : Status \ {"absent"}, snap : [Job -> Status]]
JobAtHand(a) == (Busy(a) => op[a].job \in Job) /\ (a \in Job => op[a].job = a)

(* Type invariant: a busy actor has a job and a submitter keeps its own.    *)
ControlTypeOK ==
  /\ kind \in [Job -> Kind] /\ window \in Windows
  /\ db \in [Job -> [col : Status, pay : Status]]
  /\ file \in [Job -> Status]
  /\ op \in [Actor -> Operation] /\ \A a \in Actor : JobAtHand(a)
  /\ runs \in [Job -> 0..2] /\ early \subseteq Job /\ orphans \subseteq Job
  /\ crashes \in 0..MaxCrashes

(* The column the claims read and the payload everybody else reads differ   *)
(* only for a resume job that was claimed and has not ended.                *)
ColumnsAgree ==
  \A j \in Job : db[j].col # db[j].pay =>
    kind[j] = "resume" /\ db[j].col = "running" /\ db[j].pay = "queued"

(* With one worker, a submitted or resumed job is executed once, although   *)
(* the fall-back claims do not mark its row: unless the server died, the    *)
(* job was claimed from the file before its row was inserted, or it is      *)
(* older than what update_job looks at.                                     *)
ExecutedOnce ==
  Alone /\ crashes = 0 =>
    \A j \in Job : runs[j] = 2 => kind[j] \in {"run", "mission"} \/ j \in early \/ Crowded(j)

(* A row that says running has somebody who will end it, unless the server  *)
(* died or a route raised while it did, or the job is older than what       *)
(* update_job looks at.                                                     *)
RunningIsOwned ==
  \A j \in Job :
    db[j].pay = "running" => (\E a \in Actor : Busy(a) /\ op[a].job = j) \/ j \in orphans \/ Crowded(j)

(* An ended job is taken up again by nobody but its own submitter, whose    *)
(* update_job may come late.                                                *)
EndedStays ==
  [][\A j \in Job : db[j].pay = "ended" => db'[j].pay = "ended" \/ op[j].pc \in {"upserting", "patching"}]_vars

(* A queued job ends.  A crash of the server, or a route that raises, loses *)
(* a job that its row calls running, but neither one that waits nor, for a  *)
(* crash, a claimed resume job, whose payload still says queued.            *)
QueuedEnds ==
  \A j \in Job : db[j].pay = "queued" ~>
    db[j].pay = "ended" \/ j \in orphans \/ Crowded(j)

(* What QueuedEnds comes down to: an operation under way comes back to its  *)
(* answer or to the worker's loop, and whoever works on a row that says     *)
(* running brings it to an end, or has no hand in it any more.              *)
UnderWay(a) == op[a].pc \notin {"new", "answered", "idle"}
OperationEnds(a) == UnderWay(a) ~> ~UnderWay(a)
OperationsEnd == \A a \in Actor : OperationEnds(a)
Owns(a, j) == Busy(a) /\ op[a].job = j /\ db[j].pay = "running"
Settled(j) == db[j].pay # "running" \/ j \in orphans \/ Crowded(j)
RowEnds(a, j) == Owns(a, j) ~> Settled(j)
RunningRowsEnd == \A a \in Actor, j \in Job : RowEnds(a, j)

(* An operation under way can always take its next step.                    *)
Workable == \A a \in Actor : UnderWay(a) => ENABLED <<Work(a)>>_vars
=============================================================================
