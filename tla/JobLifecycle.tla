---------------------------- MODULE JobLifecycle ----------------------------
(***************************************************************************)
(* What the video job registry promises about job statuses, without Map,   *)
(* snapshot, timers or pipelines: the life of a job as the type            *)
(* VideoJobStatus and the state-transition list of the documentation give  *)
(* it.  VideoQueue and VideoOrchestrator are shown to implement it.        *)
(***************************************************************************)
CONSTANT JobId

VARIABLE status

Ended == {"completed", "failed", "cancelled"}
Live  == {"queued", "running"}

Move(i, from, to) == /\ status[i] \in from
                     /\ status' = [status EXCEPT ![i] = to]

Init == status = [i \in JobId |-> "absent"]

Submit(i) == Move(i, {"absent"}, "queued")

(* One video at a time: a job starts only while no other one is running.   *)
Start(i) == /\ \A j \in JobId : status[j] # "running"
            /\ Move(i, {"queued"}, "running")

(* A job may end from the queue too: the campaign and series routes run    *)
(* jobs they never started.                                                *)
Finish(i)  == Move(i, Live, "completed") \/ Move(i, Live, "failed")
Cancel(i)  == Move(i, Live, "cancelled")
Requeue(i) == Move(i, {"running"}, "queued")
Reopen(i)  == Move(i, Ended, "queued")

Remove(S) == /\ S # {}
             /\ status' = [i \in JobId |-> IF i \in S THEN "absent" ELSE status[i]]

Next == \/ \E i \in JobId : \/ Submit(i) \/ Start(i) \/ Finish(i) \/ Cancel(i)
                            \/ Requeue(i) \/ Reopen(i)
        \/ \E S \in SUBSET JobId : Remove(S)

Spec == Init /\ [][Next]_status
=============================================================================
