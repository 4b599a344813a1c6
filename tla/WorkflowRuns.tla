----------------------------- MODULE WorkflowRuns -----------------------------
(***************************************************************************)
(* apps/swarmx-api/src/routes/workflows.ts: workflow runs, started by POST *)
(* under an idempotency key, executed by the Python runtime and recorded   *)
(* in an append-only file of which the last row of a run is its state.     *)
(* Reading the file and appending to it are separate awaits, in the POST,  *)
(* in executeRun, which nobody waits for, and in the DELETE that cancels.  *)
(***************************************************************************)
EXTENDS Naturals, Sequences, FiniteSetsExt

CONSTANTS
  Post,         \* POST /api/workflows/:id/run requests; each may create one run
  KeyOf,        \* workflow and idempotency key of each
  Cancel,       \* DELETE /api/workflows/runs/:runId requests
  MaxCrashes,   \* bound on crashes of the API process
  None

ASSUME RunsAssumption ==
  /\ None \notin Post
  /\ DOMAIN KeyOf = Post
  /\ MaxCrashes \in Nat

VARIABLES
  journal,      \* the rows of workflow-runs.jsonl
  post,         \* where each request, and the execution of its run, is
  outcome,      \* what executeRun is about to report
  cancel,       \* where each cancellation is, and the run it is about
  python,       \* runs the Python runtime executes
  overlapped,   \* history: keys under which two requests found no run at once
  deserted,     \* history: keys of runs that ended, or were cut off, while Python went on
  crashes

vars == <<journal, post, outcome, cancel, python, overlapped, deserted, crashes>>

Key == {KeyOf[c] : c \in Post}
Status == {"queued", "running", "success", "failed", "cancelled"}
Final == {"success", "failed", "cancelled"}
Place == {"idle", "deduped", "appending", "starting", "sent", "reporting", "over"}
Waiting == [pc |-> "idle", run |-> None]
Done == [pc |-> "over", run |-> None]

Init ==
  /\ journal = <<>>
  /\ post = [c \in Post |-> "idle"]
  /\ outcome = [c \in Post |-> "failed"]
  /\ cancel = [d \in Cancel |-> Waiting]
  /\ python = {} /\ overlapped = {} /\ deserted = {}
  /\ crashes = 0

Appended(r, s) == journal' = Append(journal, [run |-> r, status |-> s])

(* The rows of some runs, and the last of them, looked for from the end.    *)
Rows(R) == {i \in DOMAIN journal : journal[i].run \in R}
Last(R) == journal[Max(Rows(R))]
Sharing(c) == {r \in Post : KeyOf[r] = KeyOf[c]}
Among(c) == {r \in Sharing(c) : post[r] = "appending"}

(* Mutant: only a run under way is an obstacle, as if `failed' were not the *)
(* one state that may be run again.                                         *)
MayRunUnlessLive(c) == Rows(Sharing(c)) # {} => Last(Sharing(c)).status # "queued"

(* latestRunByIdempotency found no run of the key, or a failed one.         *)
MayRun(c) == Rows(Sharing(c)) # {} => Last(Sharing(c)).status = "failed"

(* The POST reads the file and decides in the same turn.                    *)
PostReads(c) ==
  /\ post[c] = "idle"
  /\ post' = [post EXCEPT ![c] = IF MayRun(c) THEN "appending" ELSE "deduped"]
  /\ overlapped' = IF MayRun(c) /\ Among(c) # {} THEN overlapped \cup {KeyOf[c]} ELSE overlapped
  /\ UNCHANGED <<journal, outcome, cancel, python, deserted, crashes>>

PostAppends(c) ==
  /\ post[c] = "appending"
  /\ Appended(c, "queued")
  /\ post' = [post EXCEPT ![c] = "starting"]
  /\ UNCHANGED <<outcome, cancel, python, overlapped, deserted, crashes>>

(* executeRun: a row, the request to /api/run, and a row with its outcome.  *)
Send(c) ==
  /\ post[c] = "starting"
  /\ Appended(c, "running")
  /\ post' = [post EXCEPT ![c] = "sent"]
  /\ python' = python \cup {c}
  /\ UNCHANGED <<outcome, cancel, overlapped, deserted, crashes>>

Reports(c, result) ==
  /\ post' = [post EXCEPT ![c] = "reporting"]
  /\ outcome' = [outcome EXCEPT ![c] = result]

(* Mutant: the answer of a request that was given up is recorded too.       *)
PythonEndsLate(c) ==
  /\ c \in python
  /\ python' = python \ {c}
  /\ \E result \in {"success", "failed"} : Reports(c, result)
  /\ UNCHANGED <<journal, cancel, overlapped, deserted, crashes>>

(* The Python runtime ends; the API hears of it if it still waits.          *)
PythonEnds(c) ==
  /\ c \in python
  /\ python' = python \ {c}
  /\ IF post[c] = "sent" THEN \E result \in {"success", "failed"} : Reports(c, result)
     ELSE UNCHANGED <<post, outcome>>
  /\ UNCHANGED <<journal, cancel, overlapped, deserted, crashes>>

(* Ten minutes, or a broken connection: the run counts as failed, and the   *)
(* Python runtime goes on with it.                                          *)
TimesOut(c) ==
  /\ post[c] = "sent"
  /\ Reports(c, "failed")
  /\ deserted' = deserted \cup {KeyOf[c]}
  /\ UNCHANGED <<journal, cancel, python, overlapped, crashes>>

(* Mutant: the outcome of a run that failed is only logged.                 *)
ReportSuccessOnly(c) ==
  /\ post[c] = "reporting"
  /\ IF outcome[c] = "success" THEN Appended(c, "success") ELSE UNCHANGED journal
  /\ post' = [post EXCEPT ![c] = "over"]
  /\ UNCHANGED <<outcome, cancel, python, overlapped, deserted, crashes>>

(* The row is appended whatever the file says by then.                      *)
Report(c) ==
  /\ post[c] = "reporting"
  /\ Appended(c, outcome[c])
  /\ post' = [post EXCEPT ![c] = "over"]
  /\ UNCHANGED <<outcome, cancel, python, overlapped, deserted, crashes>>

(* DELETE of a run the file knows and has not seen end; of any other it     *)
(* changes nothing.  The cancelled row is appended one await later.  The    *)
(* Python runtime has no /api/cancel, so telling it changes nothing.        *)
CancelReads(d, r) ==
  /\ cancel[d].pc = "idle"
  /\ Rows({r}) # {} /\ Last({r}).status \notin Final
  /\ cancel' = [cancel EXCEPT ![d] = [pc |-> "appending", run |-> r]]
  /\ UNCHANGED <<journal, post, outcome, python, overlapped, deserted, crashes>>

CancelAppends(d) ==
  /\ cancel[d].pc = "appending"
  /\ Appended(cancel[d].run, "cancelled")
  /\ cancel' = [cancel EXCEPT ![d] = Done]
  /\ UNCHANGED <<post, outcome, python, overlapped, deserted, crashes>>

(* Whatever the API was doing is gone; nothing looks at the file at boot.   *)
Crash ==
  /\ crashes < MaxCrashes /\ crashes' = crashes + 1
  /\ post' = [c \in Post |-> IF post[c] = "idle" THEN "idle" ELSE "over"]
  /\ cancel' = [d \in Cancel |-> IF cancel[d].pc = "appending" THEN Done ELSE cancel[d]]
  /\ deserted' = deserted \cup {KeyOf[c] : c \in python}
  /\ UNCHANGED <<journal, outcome, python, overlapped>>

Execute(c) == PostAppends(c) \/ Send(c) \/ Report(c) \/ TimesOut(c)

Next ==
  \/ \E c \in Post : PostReads(c) \/ Execute(c) \/ PythonEnds(c)
  \/ \E d \in Cancel : CancelAppends(d) \/ \E r \in Post : CancelReads(d, r)
  \/ Crash

Spec == Init /\ [][Next]_vars
(* Timers fire and appends end; nothing makes the Python runtime end.       *)
Served(c) == WF_vars(Execute(c))
FairSpec == Spec /\ \A c \in Post : Served(c)
-----------------------------------------------------------------------------
(* Type invariant.                                                          *)
RunsTypeOK ==
  /\ journal \in Seq([run : Post, status : Status])
  /\ post \in [Post -> Place]
  /\ outcome \in [Post -> {"success", "failed"}]
  /\ cancel \in [Cancel -> [pc : {"idle", "appending", "over"}, run : Post \cup {None}]]
  /\ python \subseteq Post /\ overlapped \subseteq Key /\ deserted \subseteq Key
  /\ crashes \in 0..MaxCrashes

InProgress(c) == post[c] \in {"appending", "starting", "sent", "reporting"}

(* The idempotency key, as far as the code keeps it: two runs of one key    *)
(* are only under way together when their requests read the file before     *)
(* either had appended its row.  Late rows of cancelled or failed runs do   *)
(* not let a second one in.                                                 *)
OneInProgressPerKey ==
  \A a, b \in Post : KeyOf[a] = KeyOf[b] /\ InProgress(a) /\ InProgress(b) =>
    a = b \/ KeyOf[a] \in overlapped

(* In the Python runtime they also meet when the API gave up waiting, or    *)
(* died, while the first was executed.                                      *)
OneInPythonPerKey ==
  \A a, b \in python : KeyOf[a] = KeyOf[b] => a = b \/ KeyOf[a] \in overlapped \cup deserted

StatusRows(r, S) == {i \in Rows({r}) : journal[i].status \in S}

(* The history of every run reads in order, whatever is appended between:   *)
(* one queued row, then at most one running row, then at most one outcome.  *)
RowsInOrder ==
  \A r \in Post :
    /\ \A i \in Rows({r}) : \E k \in StatusRows(r, {"queued"}) : k <= i
    /\ \A i \in StatusRows(r, {"success", "failed"}) : \E k \in StatusRows(r, {"running"}) : k < i
    /\ \A s \in {{"queued"}, {"running"}, {"success", "failed"}} :
         \A i, k \in StatusRows(r, s) : i = k

(* A run that was recorded gets an outcome, unless the API dies.            *)
RunEnds(c) == Rows({c}) # {} ~> StatusRows(c, {"success", "failed"}) # {} \/ crashes > 0
RunsSettle == \A c \in Post : RunEnds(c)

(* Until its outcome is recorded an execution has a step to take: the       *)
(* append or the request it awaits, or the time-out of the latter.          *)
Executable == \A c \in Post : InProgress(c) => ENABLED <<Execute(c)>>_vars

(* A cancelled run stays cancelled: "The cancel record in JSONL is          *)
(* authoritative."                                                          *)
CancelAuthoritative ==
  \A r \in Post : StatusRows(r, {"cancelled"}) # {} => Last({r}).status = "cancelled"
=============================================================================
