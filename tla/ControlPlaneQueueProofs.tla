------------------------ MODULE ControlPlaneQueueProofs ------------------------
(***************************************************************************)
(* Proofs about ControlPlaneQueue for any number of jobs and workers, any  *)
(* window and any number of crashes.                                       *)
(***************************************************************************)
EXTENDS ControlPlaneQueue, FiniteSetTheorems, WellFoundedInduction, TLAPS

-----------------------------------------------------------------------------
Submitting == {"new", "appending", "upserting"}

(* A job has a row only after its submitter inserted it.                    *)
RowsSubmitted == \A k \in Job : db[k].pay # "absent" => op[k].pc \notin Submitting

(* What a submitter does depends on its kind, ...                           *)
SubmitterWay ==
  \A j \in Job : kind[j] \in {"submit", "resume"} =>
    op[j].pc \in Submitting \cup {"answered"}

(* ... and a worker updates a job only to end it.                           *)
WorkerWay ==
  \A w \in Worker : op[w].pc \notin Submitting /\ (Busy(w) => op[w].to = "ended")

Claiming(a) == op[a].pc \in {"marking", "claimed"}
Ending(a) == op[a].pc \in {"updating", "writing", "patching"}

(* Where the one execution of a job stands that the fall-back claims cannot *)
(* see twice.                                                               *)
OnceAt(j) ==
  /\ runs[j] \in {0, 1}
  /\ \A w \in Worker : op[w].job = j /\ Claiming(w) => runs[j] = 0
  /\ \A w \in Worker : op[w].job = j /\ op[w].pc = "claimed" => db[j].pay # "absent"
  /\ runs[j] = 1 =>
       /\ db[j].pay # "absent"
       /\ db[j].pay = "ended" \/ \E w \in Worker : op[w].job = j /\ Ending(w)

Watched(j) == kind[j] \in {"submit", "resume"} /\ j \notin early /\ ~Crowded(j)
OnceInv == Alone /\ crashes = 0 => \A j \in Job : Watched(j) => OnceAt(j)

ControlInv ==
  /\ ControlTypeOK
  /\ ColumnsAgree /\ RowsSubmitted /\ SubmitterWay /\ WorkerWay
  /\ RunningIsOwned /\ OnceInv

-----------------------------------------------------------------------------
(* A fresh operation is well formed.                                        *)
LEMMA AtFields ==
  ASSUME NEW pc \in Place, NEW j \in Job \cup {None}
  PROVE  /\ At(pc, j) \in Operation
         /\ At(pc, j).pc = pc /\ At(pc, j).job = j /\ At(pc, j).to = "ended"
BY DEF At, Nothing, Status, Operation

LEMMA LoadedType ==
  ASSUME ControlTypeOK
  PROVE  Loaded \in [Job -> Status]
<1>1. file \in [Job -> Status] /\ [j \in Job |-> db[j].pay] \in [Job -> Status]
  BY DEF ControlTypeOK
<1>2. \A s \in [Job -> Status] : Newest(s) \in [Job -> Status]
  BY DEF Newest, Status
<1> QED BY <1>1, <1>2 DEF Loaded

LEMMA FollowedType ==
  ASSUME NEW s \in [Job -> Status]
  PROVE  Followed(s) \in [Job -> Status]
BY DEF Followed, Nothing, Status

(* The newest jobs only grow in number.                                     *)
LEMMA CrowdedGrows ==
  ASSUME NEW j \in Job, window \in Nat, window' = window,
         \A k \in Job : op[k].pc # "new" => op'[k].pc # "new",
         Crowded(j)
  PROVE  Crowded(j)'
<1> DEFINE S == {k \in Job : k > j /\ op[k].pc # "new"}
           T == {k \in Job : k > j /\ op'[k].pc # "new"}
<1>1. IsFiniteSet(T) /\ S \subseteq T
  BY ControlAssumption, FS_Subset
<1>2. Cardinality(S) \in Nat /\ Cardinality(T) \in Nat /\ Cardinality(S) <= Cardinality(T)
  BY <1>1, FS_Subset, FS_CardinalityType
<1>3. Cardinality(S) >= window
  BY DEF Crowded
<1>4. Cardinality(T) >= window
  BY <1>2, <1>3
<1> QED BY <1>4 DEF Crowded

(* A job that has a row but is not among the ones loaded is crowded out.    *)
LEMMA SkippedIsCrowded ==
  ASSUME NEW j \in Job, window \in Nat, RowsSubmitted,
         db[j].pay # "absent", Loaded[j] = "absent"
  PROVE  Crowded(j)
<1> DEFINE S == {k \in Job : k > j /\ db[k].pay # "absent"}
           T == {k \in Job : k > j /\ op[k].pc # "new"}
<1>1. IsFiniteSet(T) /\ S \subseteq T
  BY ControlAssumption, FS_Subset DEF RowsSubmitted, Submitting
<1>2. IsFiniteSet(S) /\ Cardinality(S) \in Nat /\ Cardinality(T) \in Nat
      /\ Cardinality(S) <= Cardinality(T)
  BY <1>1, FS_Subset, FS_CardinalityType
<1>3. ~(Cardinality(S) < window)
  <2> DEFINE s == [k \in Job |-> db[k].pay]
  <2>1. Loaded = Newest(s)
    BY DEF Loaded, NoRow
  <2>2. S = {k \in Job : k > j /\ s[k] # "absent"}
    OBVIOUS
  <2>3. Newest(s)[j] = IF Cardinality(S) < window THEN s[j] ELSE "absent"
    BY <2>2 DEF Newest
  <2> QED BY <2>1, <2>3
<1>4. Cardinality(T) >= window
  BY <1>2, <1>3
<1> QED BY <1>4 DEF Crowded

LEMMA InitEstablishes == Init => ControlInv
<1> SUFFICES ASSUME Init PROVE ControlInv
  OBVIOUS
<1> USE DEF Init
<1>1. \A a \in Actor : op[a] = (IF a \in Job THEN At("new", a) ELSE At("idle", None))
  OBVIOUS
<1>2. \A a \in Actor : /\ op[a] \in Operation
                       /\ op[a].pc = (IF a \in Job THEN "new" ELSE "idle")
                       /\ op[a].job = (IF a \in Job THEN a ELSE None)
  BY <1>1, AtFields DEF Place
<1>3. ControlTypeOK
  <2>1. op \in [Actor -> Operation] /\ \A a \in Actor : JobAtHand(a)
    BY <1>2 DEF JobAtHand, Busy
  <2>2. file \in [Job -> Status] /\ db \in [Job -> [col : Status, pay : Status]]
    BY DEF Nothing, Status
  <2>3. runs \in [Job -> 0..2] /\ crashes \in 0..MaxCrashes
    BY ControlAssumption
  <2> QED BY <2>1, <2>2, <2>3 DEF ControlTypeOK
<1>4. ColumnsAgree /\ RowsSubmitted /\ RunningIsOwned
  BY DEF ColumnsAgree, RowsSubmitted, RunningIsOwned
<1>5. SubmitterWay /\ WorkerWay
  BY <1>2, ControlAssumption DEF SubmitterWay, WorkerWay, Submitting, Busy, Actor
<1>6. OnceInv
  <2>1. \A w \in Worker : op[w].pc = "idle"
    BY <1>2, ControlAssumption DEF Actor
  <2> QED BY <2>1 DEF OnceInv, OnceAt, Claiming
<1> QED BY <1>3, <1>4, <1>5, <1>6 DEF ControlInv

-----------------------------------------------------------------------------
(* An actor that goes on to a well-formed operation keeps the others.       *)
LEMMA GoesType ==
  ASSUME ControlTypeOK, NEW a \in Actor, NEW next \in Operation, Goes(a, next),
         next.pc \in {"marking", "claimed", "updating", "writing", "patching"} => next.job \in Job,
         a \in Job => next.job = a
  PROVE  /\ op' \in [Actor -> Operation] /\ op'[a] = next
         /\ \A b \in Actor \ {a} : op'[b] = op[b]
         /\ \A b \in Actor : JobAtHand(b)'
<1>1. /\ op' \in [Actor -> Operation] /\ op'[a] = next
      /\ \A b \in Actor \ {a} : op'[b] = op[b]
  BY DEF Goes, ControlTypeOK
<1>2. \A b \in Actor : JobAtHand(b)'
  BY <1>1 DEF ControlTypeOK, JobAtHand, Busy
<1> QED BY <1>1, <1>2

LEMMA OldestIn ==
  ASSUME NEW S \in SUBSET Job, S # {}
  PROVE  Oldest(S) \in S
<1> DEFINE R == {ss \in Nat \X Nat : ss[1] < ss[2]}
<1>1. IsWellFoundedOn(R, Nat) /\ S \subseteq Nat
  BY NatLessThanWellFounded, ControlAssumption DEF OpToRel
<1>2. PICK m \in S : \A k \in S : <<k, m>> \notin R
  BY <1>1, WFMin
<1>3. ASSUME NEW k \in S PROVE m <= k
  <2>1. k \in Nat /\ m \in Nat
    BY <1>1
  <2>2. k < m => <<k, m>> \in R
    <3>1. <<k, m>> \in Nat \X Nat /\ <<k, m>>[1] = k /\ <<k, m>>[2] = m
      BY <2>1
    <3> QED BY <3>1
  <2>3. <<k, m>> \notin R
    BY <1>2
  <2> HIDE DEF R
  <2> QED BY <2>1, <2>2, <2>3
<1> QED BY <1>3 DEF Oldest

LEMMA AfterAppendOK ==
  ASSUME NEW j \in Job
  PROVE  /\ AfterAppend(j) \in Operation /\ AfterAppend(j).job = j
         /\ AfterAppend(j).pc \in {"updating", "answered"}
         /\ AfterAppend(j).pc = "updating" => kind[j] \in {"run", "mission"}
<1>1. \A pc \in {"updating", "answered"} :
        At(pc, j) \in Operation /\ At(pc, j).pc = pc /\ At(pc, j).job = j
  BY AtFields DEF Place
<1>2. \A t \in {"queued", "running"} :
        LET next == [At("updating", j) EXCEPT !.to = t]
        IN  next \in Operation /\ next.pc = "updating" /\ next.job = j
  BY <1>1 DEF Operation, Status
<1> QED BY <1>1, <1>2 DEF AfterAppend

LEMMA AfterUpdateOK ==
  ASSUME ControlTypeOK, NEW a \in Actor
  PROVE  /\ AfterUpdate(a) \in Operation
         /\ a \in Worker => AfterUpdate(a) = At("idle", None)
         /\ a \in Job => AfterUpdate(a).job = a
         /\ a \in Job => AfterUpdate(a).pc = (IF op[a].to = "running" THEN "claimed" ELSE "answered")
         /\ AfterUpdate(a).to = "ended"
         /\ a \in Worker => AfterUpdate(a).pc = "idle"
<1>1. At("idle", None) \in Operation /\ At("idle", None).pc = "idle" /\ At("idle", None).to = "ended"
  BY AtFields DEF Place
<1>2. a \in Job => \A pc \in {"claimed", "answered"} :
        At(pc, a) \in Operation /\ At(pc, a).pc = pc /\ At(pc, a).job = a /\ At(pc, a).to = "ended"
  BY AtFields DEF Place
<1> QED BY <1>1, <1>2, ControlAssumption DEF AfterUpdate, Actor

(* The operation a claim leads to.                                          *)
LEMMA ClaimedOK ==
  ASSUME NEW j \in Job
  PROVE  /\ At("claimed", j) \in Operation /\ At("claimed", j).pc = "claimed"
         /\ At("claimed", j).job = j /\ At("claimed", j).to = "ended"
BY AtFields DEF Place

LEMMA NoJobOK ==
  ASSUME NEW pc \in {"idle", "resumeFallback", "claiming", "nextFallback"}
  PROVE  /\ At(pc, None) \in Operation /\ At(pc, None).pc = pc /\ At(pc, None).to = "ended"
BY AtFields DEF Place

-----------------------------------------------------------------------------
(* The steps of an operation that leave rows, executions and early claims   *)
(* alone, and where they lead.                                              *)
LEMMA AppendLoadsFacts ==
  ASSUME ControlTypeOK, NEW j \in Job, AppendLoads(j)
  PROVE  /\ ControlTypeOK' /\ UNCHANGED <<given, db, runs, early, orphans, crashes>>
         /\ op[j].pc = "new" /\ op'[j].pc = "appending"
         /\ \A b \in Actor \ {j} : op'[b] = op[b]
<1> DEFINE next == [At("appending", j) EXCEPT !.snap = Followed([Loaded EXCEPT ![j] = "queued"])]
<1>1. [Loaded EXCEPT ![j] = "queued"] \in [Job -> Status]
  BY LoadedType DEF Status
<1>2. next \in Operation /\ next.pc = "appending" /\ next.job = j
  <2>1. At("appending", j) \in Operation /\ At("appending", j).job = j
        /\ At("appending", j).pc = "appending"
    BY AtFields DEF Place
  <2>2. Followed([Loaded EXCEPT ![j] = "queued"]) \in [Job -> Status]
    BY <1>1, FollowedType
  <2> QED BY <2>1, <2>2 DEF Operation
<1>3. Goes(j, next) /\ UNCHANGED <<given, db, file, history, crashes>> /\ op[j].pc = "new" /\ j \in Actor
  BY DEF AppendLoads, Actor
<1>4. /\ op' \in [Actor -> Operation] /\ op'[j] = next
      /\ \A b \in Actor \ {j} : op'[b] = op[b]
      /\ \A b \in Actor : JobAtHand(b)'
  BY <1>2, <1>3, GoesType
<1> HIDE DEF next
<1> QED BY <1>2, <1>3, <1>4 DEF ControlTypeOK, given, history

LEMMA AppendWritesFacts ==
  ASSUME ControlTypeOK, NEW j \in Job, AppendWrites(j)
  PROVE  /\ ControlTypeOK' /\ UNCHANGED <<given, db, runs, early, orphans, crashes>>
         /\ op[j].pc = "appending" /\ op'[j].pc = "upserting"
         /\ \A b \in Actor \ {j} : op'[b] = op[b]
<1>1. At("upserting", j) \in Operation /\ At("upserting", j).pc = "upserting" /\ At("upserting", j).job = j
  BY AtFields DEF Place
<1>2. Goes(j, At("upserting", j)) /\ UNCHANGED <<given, db, history, crashes>> /\ op[j].pc = "appending" /\ j \in Actor
  BY DEF AppendWrites, Actor
<1>3. /\ op' \in [Actor -> Operation] /\ op'[j] = At("upserting", j)
      /\ \A b \in Actor \ {j} : op'[b] = op[b]
      /\ \A b \in Actor : JobAtHand(b)'
  BY <1>1, <1>2, GoesType
<1>4. file' \in [Job -> Status]
  BY FollowedType, <1>2 DEF AppendWrites, ControlTypeOK, Operation
<1> QED BY <1>1, <1>2, <1>3, <1>4 DEF ControlTypeOK, given, history

LEMMA UpdateLoadsFacts ==
  ASSUME ControlTypeOK, NEW a \in Actor, UpdateLoads(a)
  PROVE  /\ ControlTypeOK' /\ UNCHANGED <<given, db, runs, early, orphans, crashes>>
         /\ op[a].pc = "updating" /\ op[a].job \in Job
         /\ \/ Loaded[op[a].job] = "absent" /\ op'[a] = AfterUpdate(a)
            \/ op'[a].pc = "writing" /\ op'[a].job = op[a].job /\ op'[a].to = op[a].to
         /\ \A b \in Actor \ {a} : op'[b] = op[b]
<1> DEFINE j == op[a].job
           next == [op[a] EXCEPT !.pc = "writing", !.snap = Followed([Loaded EXCEPT ![j] = op[a].to])]
<1>1. op[a] \in Operation /\ op[a].pc = "updating" /\ j \in Job /\ (a \in Job => j = a)
  BY DEF ControlTypeOK, JobAtHand, Busy, UpdateLoads
<1>2. [Loaded EXCEPT ![j] = op[a].to] \in [Job -> Status]
  BY <1>1, LoadedType DEF Operation
<1>3. Followed([Loaded EXCEPT ![j] = op[a].to]) \in [Job -> Status]
  BY <1>2, FollowedType
<1>4. next \in Operation /\ next.pc = "writing" /\ next.job = j /\ next.to = op[a].to
  BY <1>1, <1>3 DEF Operation, Place
<1>5. UNCHANGED <<given, db, file, history, crashes>>
  BY DEF UpdateLoads
<1>6. CASE Loaded[j] = "absent"
  <2>1. Goes(a, AfterUpdate(a))
    BY <1>6 DEF UpdateLoads
  <2>2. /\ AfterUpdate(a).pc \in {"marking", "claimed", "updating", "writing", "patching"} => AfterUpdate(a).job \in Job
        /\ a \in Job => AfterUpdate(a).job = a
    BY AfterUpdateOK DEF Actor
  <2>3. /\ op' \in [Actor -> Operation] /\ op'[a] = AfterUpdate(a)
        /\ \A b \in Actor \ {a} : op'[b] = op[b]
        /\ \A b \in Actor : JobAtHand(b)'
    BY <2>1, <2>2, AfterUpdateOK, GoesType
  <2> QED BY <1>1, <1>5, <1>6, <2>3 DEF ControlTypeOK, given, history
<1>7. CASE Loaded[j] # "absent"
  <2>1. Goes(a, next)
    BY <1>7 DEF UpdateLoads
  <2> HIDE DEF next
  <2>2. /\ op' \in [Actor -> Operation] /\ op'[a] = next
        /\ \A b \in Actor \ {a} : op'[b] = op[b]
        /\ \A b \in Actor : JobAtHand(b)'
    BY <1>1, <1>4, <2>1, GoesType
  <2> QED BY <1>1, <1>4, <1>5, <2>2 DEF ControlTypeOK, given, history
<1> QED BY <1>6, <1>7

LEMMA UpdateWritesFacts ==
  ASSUME ControlTypeOK, NEW a \in Actor, UpdateWrites(a)
  PROVE  /\ ControlTypeOK' /\ UNCHANGED <<given, db, runs, early, orphans, crashes>>
         /\ op[a].pc = "writing" /\ op'[a].pc = "patching"
         /\ op'[a].job = op[a].job /\ op'[a].to = op[a].to
         /\ \A b \in Actor \ {a} : op'[b] = op[b]
<1> DEFINE next == [op[a] EXCEPT !.pc = "patching", !.snap = Nothing]
<1>1. op[a] \in Operation /\ op[a].pc = "writing" /\ op[a].job \in Job /\ (a \in Job => op[a].job = a)
  BY DEF ControlTypeOK, JobAtHand, Busy, UpdateWrites
<1>2. next \in Operation /\ next.pc = "patching" /\ next.job = op[a].job /\ next.to = op[a].to
  BY <1>1 DEF Operation, Place, Nothing, Status
<1>3. Goes(a, next) /\ UNCHANGED <<given, db, history, crashes>>
  BY DEF UpdateWrites
<1>4. file' \in [Job -> Status]
  BY <1>1, FollowedType DEF UpdateWrites, Operation
<1> HIDE DEF next
<1>5. /\ op' \in [Actor -> Operation] /\ op'[a] = next
      /\ \A b \in Actor \ {a} : op'[b] = op[b]
      /\ \A b \in Actor : JobAtHand(b)'
  BY <1>1, <1>2, <1>3, GoesType
<1> QED BY <1>1, <1>2, <1>3, <1>4, <1>5 DEF ControlTypeOK, given, history

LEMMA FallbackFacts ==
  ASSUME ControlTypeOK, NEW w \in Worker, NEW kinds, NEW pc, NEW next \in {"claiming", "idle"},
         Fallback(w, pc, kinds, next)
  PROVE  /\ ControlTypeOK' /\ UNCHANGED <<given, db, runs, early, orphans, crashes>>
         /\ op[w].pc = pc
         /\ \/ op'[w].pc = next
            \/ /\ op'[w].pc = "marking" /\ op'[w].job \in Job /\ Loaded[op'[w].job] = "queued"
               /\ op'[w].to = "ended"
         /\ \A b \in Actor \ {w} : op'[b] = op[b]
<1> DEFINE found == {j \in Job : Loaded[j] = "queued" /\ kind[j] \in kinds}
           o == Oldest(found)
           mark == [At("marking", o) EXCEPT !.snap = Followed([Loaded EXCEPT ![o] = "running"])]
<1>1. w \in Actor /\ w \notin Job /\ op[w].pc = pc /\ UNCHANGED <<given, db, file, history, crashes>>
  BY ControlAssumption DEF Fallback, Actor
<1>2. CASE found = {}
  <2>1. Goes(w, At(next, None))
    BY <1>2 DEF Fallback
  <2>2. At(next, None) \in Operation /\ At(next, None).pc = next
    BY NoJobOK
  <2>3. /\ op' \in [Actor -> Operation] /\ op'[w] = At(next, None)
        /\ \A b \in Actor \ {w} : op'[b] = op[b]
        /\ \A b \in Actor : JobAtHand(b)'
    BY <1>1, <2>1, <2>2, GoesType
  <2> QED BY <1>1, <2>2, <2>3 DEF ControlTypeOK, given, history
<1>3. CASE found # {}
  <2>1. o \in found /\ o \in Job
    BY <1>3, OldestIn
  <2>2. Followed([Loaded EXCEPT ![o] = "running"]) \in [Job -> Status]
    BY <2>1, LoadedType, FollowedType DEF Status
  <2>3. mark \in Operation /\ mark.pc = "marking" /\ mark.job = o /\ mark.to = "ended"
    <3>1. /\ At("marking", o) \in Operation /\ At("marking", o).pc = "marking"
          /\ At("marking", o).job = o /\ At("marking", o).to = "ended"
      BY <2>1, AtFields DEF Place
    <3> HIDE DEF o, found
    <3> QED BY <2>2, <3>1 DEF Operation
  <2>4. Goes(w, mark)
    BY <1>3 DEF Fallback
  <2>5. Loaded[o] = "queued"
    BY <2>1
  <2> HIDE DEF mark, o, found
  <2>6. /\ op' \in [Actor -> Operation] /\ op'[w] = mark
        /\ \A b \in Actor \ {w} : op'[b] = op[b]
        /\ \A b \in Actor : JobAtHand(b)'
    BY <1>1, <2>1, <2>3, <2>4, GoesType
  <2> QED BY <1>1, <2>1, <2>3, <2>5, <2>6 DEF ControlTypeOK, given, history
<1> QED BY <1>2, <1>3

(* The steps that change a row, an execution or an early claim.             *)
LEMMA MarksFileFacts ==
  ASSUME ControlTypeOK, NEW w \in Worker, MarksFile(w)
  PROVE  /\ ControlTypeOK' /\ UNCHANGED <<given, db, runs, orphans, crashes>>
         /\ op[w].pc = "marking" /\ op[w].job \in Job
         /\ op'[w].pc = "claimed" /\ op'[w].job = op[w].job /\ op'[w].to = "ended"
         /\ early' = (IF db[op[w].job].pay = "absent" THEN early \cup {op[w].job} ELSE early)
         /\ \A b \in Actor \ {w} : op'[b] = op[b]
<1> DEFINE j == op[w].job
<1>1. w \in Actor /\ w \notin Job /\ op[w] \in Operation /\ op[w].pc = "marking" /\ j \in Job
  BY ControlAssumption DEF MarksFile, Actor, ControlTypeOK, JobAtHand, Busy
<1>2. file' \in [Job -> Status]
  BY <1>1, FollowedType DEF MarksFile, Operation
<1>3. Goes(w, At("claimed", j)) /\ UNCHANGED <<given, db, runs, orphans, crashes>>
      /\ early' = (IF db[op[w].job].pay = "absent" THEN early \cup {op[w].job} ELSE early)
  BY DEF MarksFile
<1>4. /\ op' \in [Actor -> Operation] /\ op'[w] = At("claimed", j)
      /\ \A b \in Actor \ {w} : op'[b] = op[b]
      /\ \A b \in Actor : JobAtHand(b)'
  BY <1>1, <1>3, ClaimedOK, GoesType
<1> QED BY <1>1, <1>2, <1>3, <1>4, ClaimedOK DEF ControlTypeOK, given

LEMMA ExecutesFacts ==
  ASSUME ControlTypeOK, NEW a \in Actor, Executes(a)
  PROVE  /\ ControlTypeOK' /\ UNCHANGED <<given, db, early, orphans, crashes>>
         /\ op[a].pc = "claimed" /\ op[a].job \in Job
         /\ op'[a].pc = "updating" /\ op'[a].job = op[a].job /\ op'[a].to = "ended"
         /\ \A k \in Job \ {op[a].job} : runs'[k] = runs[k]
         /\ runs'[op[a].job] \in {runs[op[a].job], IF runs[op[a].job] = 0 THEN 1 ELSE 2}
         /\ \A b \in Actor \ {a} : op'[b] = op[b]
<1> DEFINE j == op[a].job
<1>1. op[a] \in Operation /\ op[a].pc = "claimed" /\ j \in Job /\ (a \in Job => j = a)
  BY DEF Executes, ControlTypeOK, JobAtHand, Busy
<1>2. At("updating", j) \in Operation /\ At("updating", j).pc = "updating"
      /\ At("updating", j).job = j /\ At("updating", j).to = "ended"
  BY <1>1, AtFields DEF Place
<1>3. Goes(a, At("updating", j)) /\ UNCHANGED <<given, db, file, early, orphans, crashes>>
  BY DEF Executes
<1>4. /\ op' \in [Actor -> Operation] /\ op'[a] = At("updating", j)
      /\ \A b \in Actor \ {a} : op'[b] = op[b]
      /\ \A b \in Actor : JobAtHand(b)'
  BY <1>1, <1>2, <1>3, GoesType
<1>5. /\ runs' \in [Job -> 0..2]
      /\ \A k \in Job \ {j} : runs'[k] = runs[k]
      /\ runs'[j] \in {runs[j], IF runs[j] = 0 THEN 1 ELSE 2}
  <2>1. PICK allowed \in BOOLEAN :
          runs' = [runs EXCEPT ![j] = IF ~allowed THEN @ ELSE IF @ = 0 THEN 1 ELSE 2]
    BY DEF Executes
  <2> QED BY <1>1, <2>1 DEF ControlTypeOK
<1> QED BY <1>1, <1>2, <1>3, <1>4, <1>5 DEF ControlTypeOK, given

LEMMA RouteRaisesFacts ==
  ASSUME ControlTypeOK, NEW j \in Job, RouteRaises(j)
  PROVE  /\ ControlTypeOK' /\ UNCHANGED <<given, db, early, crashes>>
         /\ op[j].pc = "claimed" /\ op[j].job = j /\ op'[j].pc = "answered"
         /\ \A k \in Job \ {j} : runs'[k] = runs[k]
         /\ orphans \subseteq orphans' /\ (db[j].pay = "running" => j \in orphans')
         /\ \A b \in Actor \ {j} : op'[b] = op[b]
<1>1. /\ op[j] \in Operation /\ op[j].pc = "claimed" /\ op[j].job = j /\ j \in Actor
      /\ Goes(j, At("answered", j)) /\ UNCHANGED <<given, db, file, early, crashes>>
      /\ orphans' = orphans \cup (IF db[j].pay = "running" THEN {j} ELSE {})
  BY DEF RouteRaises, ControlTypeOK, JobAtHand, Actor
<1>2. /\ At("answered", j) \in Operation /\ At("answered", j).pc = "answered"
      /\ At("answered", j).job = j
  BY AtFields DEF Place
<1>3. /\ op' \in [Actor -> Operation] /\ op'[j] = At("answered", j)
      /\ \A b \in Actor \ {j} : op'[b] = op[b]
      /\ \A b \in Actor : JobAtHand(b)'
  BY <1>1, <1>2, GoesType
<1>4. runs' \in [Job -> 0..2] /\ \A k \in Job \ {j} : runs'[k] = runs[k]
  <2>1. PICK begun \in BOOLEAN :
          runs' = [runs EXCEPT ![j] = IF ~begun THEN @ ELSE IF @ = 0 THEN 1 ELSE 2]
    BY DEF RouteRaises
  <2> QED BY <2>1 DEF ControlTypeOK
<1> QED BY <1>1, <1>2, <1>3, <1>4 DEF ControlTypeOK, given

LEMMA UpsertsFacts ==
  ASSUME ControlTypeOK, NEW j \in Job, Upserts(j)
  PROVE  /\ ControlTypeOK' /\ UNCHANGED <<given, runs, early, orphans, crashes>>
         /\ op[j].pc = "upserting" /\ op'[j] = AfterAppend(j)
         /\ db'[j] = [col |-> "queued", pay |-> "queued"]
         /\ \A k \in Job \ {j} : db'[k] = db[k]
         /\ \A b \in Actor \ {j} : op'[b] = op[b]
<1>1. Goes(j, AfterAppend(j)) /\ UNCHANGED <<given, history, crashes>> /\ j \in Actor
      /\ op[j].pc = "upserting" /\ file' = Nothing
      /\ db' = [db EXCEPT ![j] = [col |-> "queued", pay |-> "queued"]]
  BY DEF Upserts, Actor
<1>2. /\ op' \in [Actor -> Operation] /\ op'[j] = AfterAppend(j)
      /\ \A b \in Actor \ {j} : op'[b] = op[b]
      /\ \A b \in Actor : JobAtHand(b)'
  BY <1>1, AfterAppendOK, GoesType
<1>3. /\ db' \in [Job -> [col : Status, pay : Status]]
      /\ db'[j] = [col |-> "queued", pay |-> "queued"]
      /\ \A k \in Job \ {j} : db'[k] = db[k]
  BY <1>1 DEF ControlTypeOK, Status
<1>4. file' \in [Job -> Status]
  BY <1>1 DEF Nothing, Status
<1> QED BY <1>1, <1>2, <1>3, <1>4 DEF ControlTypeOK, given, history

LEMMA PatchesFacts ==
  ASSUME ControlTypeOK, NEW a \in Actor, Patches(a)
  PROVE  /\ ControlTypeOK' /\ UNCHANGED <<given, runs, early, orphans, crashes>>
         /\ op[a].pc = "patching" /\ op[a].job \in Job /\ op'[a] = AfterUpdate(a)
         /\ \/ db[op[a].job].pay = "absent" /\ db' = db
            \/ /\ db[op[a].job].pay # "absent"
               /\ db'[op[a].job].col = op[a].to /\ db'[op[a].job].pay = op[a].to
         /\ \A k \in Job \ {op[a].job} : db'[k] = db[k]
         /\ \A b \in Actor \ {a} : op'[b] = op[b]
<1> DEFINE j == op[a].job
<1>1. op[a] \in Operation /\ op[a].pc = "patching" /\ j \in Job /\ (a \in Job => j = a)
  BY DEF Patches, ControlTypeOK, JobAtHand, Busy
<1>2. Goes(a, AfterUpdate(a)) /\ UNCHANGED <<given, file, history, crashes>>
      /\ db' = (IF db[j].pay = "absent" THEN db ELSE Stamped(a))
  BY DEF Patches
<1>3. /\ op' \in [Actor -> Operation] /\ op'[a] = AfterUpdate(a)
      /\ \A b \in Actor \ {a} : op'[b] = op[b]
      /\ \A b \in Actor : JobAtHand(b)'
  <2>1. /\ AfterUpdate(a).pc \in {"marking", "claimed", "updating", "writing", "patching"} => AfterUpdate(a).job \in Job
        /\ a \in Job => AfterUpdate(a).job = a
    BY AfterUpdateOK DEF Actor
  <2> QED BY <1>2, <2>1, AfterUpdateOK, GoesType
<1>4. op[a].to \in Status
  BY <1>1 DEF Operation
<1>5. /\ db' \in [Job -> [col : Status, pay : Status]]
      /\ \/ db[j].pay = "absent" /\ db' = db
         \/ db[j].pay # "absent" /\ db'[j].col = op[a].to /\ db'[j].pay = op[a].to
      /\ \A k \in Job \ {j} : db'[k] = db[k]
  BY <1>1, <1>2, <1>4 DEF ControlTypeOK, Stamped
<1> QED BY <1>1, <1>2, <1>3, <1>5 DEF ControlTypeOK, given, history

LEMMA ClaimFacts ==
  ASSUME ControlTypeOK, NEW w \in Worker, ClaimResume(w) \/ ClaimNext(w)
  PROVE  /\ ControlTypeOK' /\ UNCHANGED <<given, runs, early, orphans, crashes>>
         /\ op[w].pc \in {"idle", "claiming"}
         /\ \/ db' = db /\ op'[w].pc \in {"resumeFallback", "nextFallback"}
            \/ \E j \in Job :
                 /\ op'[w].pc = "claimed" /\ op'[w].job = j /\ op'[w].to = "ended"
                 /\ db[j].col = "queued" /\ db'[j].col = "running"
                 /\ (db'[j].pay = db[j].pay /\ kind[j] = "resume") \/ db'[j].pay = "running"
                 /\ \A k \in Job \ {j} : db'[k] = db[k]
         /\ \A b \in Actor \ {w} : op'[b] = op[b]
<1>1. w \in Actor /\ w \notin Job /\ UNCHANGED <<given, file, history, crashes>>
  BY ControlAssumption DEF ClaimResume, ClaimNext, Actor
<1>2. ASSUME NEW j \in Job, Goes(w, At("claimed", j)), db[j].col = "queued",
             \/ db' = [db EXCEPT ![j].col = "running"] /\ kind[j] = "resume"
             \/ db' = [db EXCEPT ![j] = [col |-> "running", pay |-> "running"]]
      PROVE  /\ op' \in [Actor -> Operation] /\ op'[w] = At("claimed", j)
             /\ \A b \in Actor \ {w} : op'[b] = op[b]
             /\ \A b \in Actor : JobAtHand(b)'
             /\ db' \in [Job -> [col : Status, pay : Status]]
             /\ db'[j].col = "running"
             /\ (db'[j].pay = db[j].pay /\ kind[j] = "resume") \/ db'[j].pay = "running"
             /\ \A k \in Job \ {j} : db'[k] = db[k]
  <2>1. /\ op' \in [Actor -> Operation] /\ op'[w] = At("claimed", j)
        /\ \A b \in Actor \ {w} : op'[b] = op[b]
        /\ \A b \in Actor : JobAtHand(b)'
    BY <1>1, <1>2, ClaimedOK, GoesType
  <2>2. CASE db' = [db EXCEPT ![j].col = "running"] /\ kind[j] = "resume"
    BY <2>1, <2>2 DEF ControlTypeOK, Status
  <2>3. CASE db' = [db EXCEPT ![j] = [col |-> "running", pay |-> "running"]]
    BY <2>1, <2>3 DEF ControlTypeOK, Status
  <2> QED BY <1>2, <2>2, <2>3
<1>3. ASSUME NEW pc \in {"resumeFallback", "nextFallback"}, Goes(w, At(pc, None)), UNCHANGED db
      PROVE  /\ op' \in [Actor -> Operation] /\ op'[w].pc = pc
             /\ \A b \in Actor \ {w} : op'[b] = op[b]
             /\ \A b \in Actor : JobAtHand(b)'
  BY <1>1, <1>3, NoJobOK, GoesType
<1>4. CASE ClaimResume(w)
  <2> DEFINE rows == QueuedRows({"resume"})
             o == Oldest(rows)
  <2>1. CASE rows # {}
    <3>1. o \in Job /\ db[o].col = "queued" /\ kind[o] = "resume"
      BY <2>1, OldestIn DEF QueuedRows
    <3>2. Goes(w, At("claimed", o)) /\ db' = [db EXCEPT ![o].col = "running"]
      BY <1>4, <2>1 DEF ClaimResume
    <3> HIDE DEF o, rows
    <3>3. /\ op' \in [Actor -> Operation] /\ op'[w] = At("claimed", o)
          /\ \A b \in Actor \ {w} : op'[b] = op[b]
          /\ \A b \in Actor : JobAtHand(b)'
          /\ db' \in [Job -> [col : Status, pay : Status]]
          /\ db'[o].col = "running"
          /\ (db'[o].pay = db[o].pay /\ kind[o] = "resume") \/ db'[o].pay = "running"
          /\ \A k \in Job \ {o} : db'[k] = db[k]
      BY <1>2, <3>1, <3>2
    <3>4. op[w].pc \in {"idle", "claiming"}
      BY <1>4 DEF ClaimResume
    <3> QED BY <1>1, <3>1, <3>3, <3>4, ClaimedOK DEF ControlTypeOK, given, history
  <2>2. CASE rows = {}
    <3>1. Goes(w, At("resumeFallback", None)) /\ UNCHANGED db
      BY <1>4, <2>2 DEF ClaimResume
    <3> QED BY <1>1, <1>3, <1>4, <3>1 DEF ControlTypeOK, ClaimResume, given, history
  <2> QED BY <2>1, <2>2
<1>5. CASE ClaimNext(w)
  <2> DEFINE rows == QueuedRows(Kind)
             o == Oldest(rows)
  <2>1. CASE rows # {}
    <3>1. o \in Job /\ db[o].col = "queued"
      BY <2>1, OldestIn DEF QueuedRows
    <3>2. Goes(w, At("claimed", o)) /\ db' = [db EXCEPT ![o] = [col |-> "running", pay |-> "running"]]
      BY <1>5, <2>1 DEF ClaimNext
    <3> HIDE DEF o, rows
    <3>3. /\ op' \in [Actor -> Operation] /\ op'[w] = At("claimed", o)
          /\ \A b \in Actor \ {w} : op'[b] = op[b]
          /\ \A b \in Actor : JobAtHand(b)'
          /\ db' \in [Job -> [col : Status, pay : Status]]
          /\ db'[o].col = "running"
          /\ (db'[o].pay = db[o].pay /\ kind[o] = "resume") \/ db'[o].pay = "running"
          /\ \A k \in Job \ {o} : db'[k] = db[k]
      BY <1>2, <3>1, <3>2
    <3>4. op[w].pc \in {"idle", "claiming"}
      BY <1>5 DEF ClaimNext
    <3> QED BY <1>1, <3>1, <3>3, <3>4, ClaimedOK DEF ControlTypeOK, given, history
  <2>2. CASE rows = {}
    <3>1. Goes(w, At("nextFallback", None)) /\ UNCHANGED db
      BY <1>5, <2>2 DEF ClaimNext
    <3> QED BY <1>1, <1>3, <1>5, <3>1 DEF ControlTypeOK, ClaimNext, given, history
  <2> QED BY <2>1, <2>2
<1> QED BY <1>4, <1>5

LEMMA CrashFacts ==
  ASSUME ControlTypeOK, Crash
  PROVE  /\ ControlTypeOK' /\ UNCHANGED <<given, db, runs, early>> /\ crashes' # 0
         /\ orphans' = orphans \cup {j \in Job : db[j].pay = "running"}
         /\ \A w \in Worker : op'[w].pc = "idle"
         /\ \A j \in Job : op'[j] = op[j] \/ (op[j].pc # "new" /\ op'[j].pc = "answered")
<1>1. At("idle", None) \in Operation /\ At("idle", None).pc = "idle"
  BY NoJobOK
<1>2. \A j \in Job : At("answered", j) \in Operation /\ At("answered", j).pc = "answered"
                     /\ At("answered", j).job = j
  BY AtFields DEF Place
<1>3. \A a \in Actor :
        op'[a] = IF a \in Worker THEN At("idle", None)
                 ELSE IF kind[a] # "resume" /\ op[a].pc # "new" THEN At("answered", a)
                 ELSE op[a]
  BY DEF Crash
<1>4. \A w \in Worker : op'[w] = At("idle", None)
  BY <1>3 DEF Actor
<1>5. \A j \in Job : op'[j] = op[j] \/ (op[j].pc # "new" /\ op'[j] = At("answered", j))
  BY <1>3, ControlAssumption DEF Actor
<1>6. op' \in [Actor -> Operation]
  <2>1. \A a \in Actor : op'[a] \in Operation
    BY <1>1, <1>2, <1>4, <1>5 DEF Actor, ControlTypeOK
  <2>2. op' = [a \in Actor |->
                 IF a \in Worker THEN At("idle", None)
                 ELSE IF kind[a] # "resume" /\ op[a].pc # "new" THEN At("answered", a)
                 ELSE op[a]]
    BY DEF Crash
  <2> QED BY <2>1, <2>2
<1>7. \A a \in Actor : JobAtHand(a)'
  <2>1. \A w \in Worker : JobAtHand(w)'
    BY <1>1, <1>4, ControlAssumption DEF JobAtHand, Busy
  <2>2. \A j \in Job : JobAtHand(j)'
    BY <1>2, <1>5 DEF JobAtHand, Busy, ControlTypeOK, Actor
  <2> QED BY <2>1, <2>2 DEF Actor
<1>8. crashes' \in 0..MaxCrashes /\ crashes' # 0
  <2>1. crashes \in Nat /\ MaxCrashes \in Nat /\ crashes < MaxCrashes /\ crashes' = crashes + 1
    BY ControlAssumption DEF Crash, ControlTypeOK
  <2> QED BY <2>1
<1>9. UNCHANGED <<given, db, file, runs, early>>
      /\ orphans' = orphans \cup {j \in Job : db[j].pay = "running"}
  BY DEF Crash
<1>10. orphans' \subseteq Job
  BY <1>9 DEF ControlTypeOK
<1>11. ControlTypeOK'
  BY <1>6, <1>7, <1>8, <1>9, <1>10 DEF ControlTypeOK, given
<1> QED BY <1>1, <1>2, <1>4, <1>5, <1>8, <1>9, <1>11

-----------------------------------------------------------------------------
RestInv == ColumnsAgree /\ RowsSubmitted /\ SubmitterWay /\ WorkerWay /\ RunningIsOwned /\ OnceInv

(* What an actor's next operation must respect, whatever the step does.     *)
WellBehaved(a) ==
  /\ op'[a].pc # "new"
  /\ a \in Job => /\ op'[a].pc \in Submitting => op[a].pc \in Submitting
                  /\ kind[a] \in {"submit", "resume"} => op'[a].pc \in Submitting \cup {"answered"}
  /\ a \in Worker => op'[a].pc \notin Submitting /\ (Busy(a)' => op'[a].to = "ended")

LEMMA CrowdedKept ==
  ASSUME ControlTypeOK, UNCHANGED given, NEW a \in Actor, op'[a].pc # "new",
         \A b \in Actor \ {a} : op'[b] = op[b], NEW j \in Job, Crowded(j)
  PROVE  Crowded(j)'
<1>1. window \in Nat /\ window' = window
  BY ControlAssumption DEF ControlTypeOK, given
<1>2. \A k \in Job : op[k].pc # "new" => op'[k].pc # "new"
  BY DEF Actor
<1> QED BY <1>1, <1>2, CrowdedGrows

LEMMA WaysKept ==
  ASSUME ControlTypeOK, SubmitterWay, WorkerWay, UNCHANGED given, NEW a \in Actor, WellBehaved(a),
         \A b \in Actor \ {a} : op'[b] = op[b]
  PROVE  SubmitterWay' /\ WorkerWay'
<1>1. SubmitterWay'
  BY DEF SubmitterWay, WellBehaved, given, Actor
<1>2. WorkerWay'
  BY DEF WorkerWay, WellBehaved, Actor, Busy
<1> QED BY <1>1, <1>2

(* A step that leaves rows, executions and early claims alone.              *)
LEMMA QuietStep ==
  ASSUME ControlTypeOK, RestInv, NEW a \in Actor, WellBehaved(a),
         UNCHANGED <<given, db, runs, early, orphans, crashes>>,
         \A b \in Actor \ {a} : op'[b] = op[b],
         Busy(a) => \/ Busy(a)' /\ op'[a].job = op[a].job
                    \/ db[op[a].job].pay = "absent" \/ Crowded(op[a].job),
         Ending(a) => \/ Ending(a)' /\ op'[a].job = op[a].job
                      \/ db[op[a].job].pay = "absent" \/ Crowded(op[a].job)
                      \/ a \notin Worker,
         a \in Worker /\ Claiming(a)' =>
           /\ op'[a].pc = "marking"
           /\ Alone /\ crashes = 0 /\ Watched(op'[a].job) => runs[op'[a].job] = 0
  PROVE  RestInv'
<1> USE DEF RestInv
<1>1. ColumnsAgree'
  BY DEF ColumnsAgree, given
<1>2. RowsSubmitted'
  BY DEF RowsSubmitted, WellBehaved, Actor
<1>3. SubmitterWay' /\ WorkerWay'
  BY WaysKept
<1>4. \A j \in Job : Crowded(j) => Crowded(j)'
  BY CrowdedKept DEF WellBehaved
<1>5. RunningIsOwned'
  <2> SUFFICES ASSUME NEW j \in Job, db[j].pay = "running", j \notin orphans, ~Crowded(j)'
               PROVE  \E b \in Actor : Busy(b)' /\ op'[b].job = j
    BY DEF RunningIsOwned
  <2>1. PICK b \in Actor : Busy(b) /\ op[b].job = j
    BY <1>4 DEF RunningIsOwned
  <2>2. CASE b = a
    BY <1>4, <2>1, <2>2
  <2>3. CASE b # a
    BY <2>1, <2>3 DEF Busy
  <2> QED BY <2>2, <2>3
<1>6. OnceInv'
  <2> SUFFICES ASSUME Alone, crashes = 0, NEW j \in Job, Watched(j)'
               PROVE  OnceAt(j)'
    BY DEF OnceInv, Alone
  <2>1. Watched(j) /\ OnceAt(j)
    BY <1>4 DEF Watched, OnceInv, given
  <2>2. \A w \in Worker : op'[w].job = j /\ Claiming(w)' => runs[j] = 0
    <3> SUFFICES ASSUME NEW w \in Worker, op'[w].job = j, Claiming(w)' PROVE runs[j] = 0
      OBVIOUS
    <3>1. CASE w = a
      BY <2>1, <3>1
    <3>2. CASE w # a
      BY <2>1, <3>2 DEF OnceAt, Claiming, Actor
    <3> QED BY <3>1, <3>2
  <2>3. \A w \in Worker : op'[w].job = j /\ op'[w].pc = "claimed" => db[j].pay # "absent"
    BY <2>1 DEF OnceAt, Claiming, Actor
  <2>4. runs[j] = 1 => /\ db[j].pay # "absent"
                       /\ db[j].pay = "ended" \/ \E w \in Worker : op'[w].job = j /\ Ending(w)'
    <3> SUFFICES ASSUME runs[j] = 1, db[j].pay # "ended"
                 PROVE  \E w \in Worker : op'[w].job = j /\ Ending(w)'
      BY <2>1 DEF OnceAt
    <3>1. PICK w \in Worker : op[w].job = j /\ Ending(w)
      BY <2>1 DEF OnceAt
    <3>2. db[j].pay # "absent" /\ ~Crowded(j)
      BY <2>1 DEF OnceAt, Watched
    <3>3. CASE w = a
      BY <3>1, <3>2, <3>3
    <3>4. CASE w # a
      BY <3>1, <3>4 DEF Ending, Actor
    <3> QED BY <3>3, <3>4
  <2> QED BY <2>1, <2>2, <2>3, <2>4 DEF OnceAt
<1> QED BY <1>1, <1>2, <1>3, <1>5, <1>6

LEMMA AppendStep ==
  ASSUME ControlTypeOK, RestInv, NEW j \in Job, AppendLoads(j) \/ AppendWrites(j)
  PROVE  RestInv'
<1>1. /\ UNCHANGED <<given, db, runs, early, orphans, crashes>> /\ j \in Actor /\ j \notin Worker
      /\ op[j].pc \in {"new", "appending"} /\ op'[j].pc \in {"appending", "upserting"}
      /\ \A b \in Actor \ {j} : op'[b] = op[b]
  BY AppendLoadsFacts, AppendWritesFacts, ControlAssumption DEF Actor
<1>2. WellBehaved(j) /\ ~Busy(j) /\ ~Ending(j)
  BY <1>1 DEF WellBehaved, Submitting, Busy, Ending
<1> QED BY <1>1, <1>2, QuietStep

LEMMA UpdateStep ==
  ASSUME ControlTypeOK, RestInv, NEW a \in Actor, UpdateLoads(a) \/ UpdateWrites(a)
  PROVE  RestInv'
<1> DEFINE j == op[a].job
<1>1. /\ UNCHANGED <<given, db, runs, early, orphans, crashes>>
      /\ op[a].pc \in {"updating", "writing"} /\ j \in Job
      /\ \A b \in Actor \ {a} : op'[b] = op[b]
      /\ \/ Loaded[j] = "absent" /\ op'[a] = AfterUpdate(a)
         \/ /\ op'[a].pc \in {"writing", "patching"}
            /\ op'[a].job = j /\ op'[a].to = op[a].to
  BY UpdateLoadsFacts, UpdateWritesFacts DEF ControlTypeOK, JobAtHand, Busy
<1>2. a \in Job => a = j /\ kind[a] \notin {"submit", "resume"} /\ a \notin Worker
  BY <1>1, ControlAssumption DEF ControlTypeOK, JobAtHand, RestInv, SubmitterWay, Submitting
<1>3. a \in Worker => op[a].to = "ended"
  BY <1>1 DEF RestInv, WorkerWay, Busy
<1>4. CASE Loaded[j] = "absent" /\ op'[a] = AfterUpdate(a)
  <2>1. db[j].pay = "absent" \/ Crowded(j)
    BY <1>1, <1>4, SkippedIsCrowded, ControlAssumption DEF ControlTypeOK, RestInv
  <2>2. WellBehaved(a) /\ (a \in Worker => ~Claiming(a)')
    <3>1. CASE a \in Job
      <4>1. op'[a].pc \in {"claimed", "answered"}
        BY <1>4, <3>1, AfterUpdateOK
      <4> QED BY <1>2, <3>1, <4>1 DEF WellBehaved, Submitting
    <3>2. CASE a \in Worker
      <4>1. op'[a].pc = "idle" /\ a \notin Job
        BY <1>4, <3>2, AfterUpdateOK, ControlAssumption
      <4> QED BY <3>2, <4>1 DEF WellBehaved, Submitting, Claiming, Busy
    <3> QED BY <3>1, <3>2 DEF Actor
  <2> QED BY <1>1, <2>1, <2>2, QuietStep
<1>5. CASE op'[a].pc \in {"writing", "patching"} /\ op'[a].job = j /\ op'[a].to = op[a].to
  <2>1. WellBehaved(a) /\ ~Claiming(a)' /\ Busy(a)' /\ Ending(a)'
    BY <1>2, <1>3, <1>5 DEF WellBehaved, Submitting, Claiming, Busy, Ending
  <2> QED BY <1>1, <1>5, <2>1, QuietStep
<1> QED BY <1>1, <1>4, <1>5

(* A fall-back never takes a job that has been executed: of a watched job   *)
(* it would have to see a row that says queued.                             *)
LEMMA FallbackStep ==
  ASSUME ControlTypeOK, RestInv, NEW w \in Worker, ResumeFallback(w) \/ NextFallback(w)
  PROVE  RestInv'
<1>1. /\ UNCHANGED <<given, db, runs, early, orphans, crashes>> /\ w \in Actor /\ w \notin Job
      /\ op[w].pc \in {"resumeFallback", "nextFallback"}
      /\ \A b \in Actor \ {w} : op'[b] = op[b]
      /\ \/ op'[w].pc \in {"claiming", "idle"}
         \/ /\ op'[w].pc = "marking" /\ op'[w].job \in Job /\ Loaded[op'[w].job] = "queued"
            /\ op'[w].to = "ended"
  <2>1. w \in Actor /\ w \notin Job
    BY ControlAssumption DEF Actor
  <2>2. CASE ResumeFallback(w)
    <3>1. Fallback(w, "resumeFallback", {"resume"}, "claiming")
      BY <2>2 DEF ResumeFallback
    <3> QED BY <2>1, <3>1, FallbackFacts
  <2>3. CASE NextFallback(w)
    <3>1. Fallback(w, "nextFallback", Kind, "idle")
      BY <2>3 DEF NextFallback
    <3> QED BY <2>1, <3>1, FallbackFacts
  <2> QED BY <2>2, <2>3
<1>2. WellBehaved(w) /\ ~Busy(w) /\ ~Ending(w)
  BY <1>1 DEF WellBehaved, Submitting, Busy, Ending
<1>3. ASSUME Claiming(w)', Alone, crashes = 0, Watched(op'[w].job)
      PROVE  runs[op'[w].job] = 0
  <2> DEFINE j == op'[w].job
  <2>1. j \in Job /\ Loaded[j] = "queued" /\ OnceAt(j)
    BY <1>1, <1>3 DEF Claiming, RestInv, OnceInv
  <2> SUFFICES ASSUME runs[j] = 1 PROVE FALSE
    BY <2>1 DEF OnceAt
  <2>2. db[j].pay # "absent"
    BY <2>1 DEF OnceAt
  <2>3. Loaded = Newest([k \in Job |-> db[k].pay])
    BY <2>1, <2>2 DEF Loaded, NoRow
  <2>4. db[j].pay = "queued"
    BY <2>1, <2>3 DEF Newest
  <2>5. PICK v \in Worker : Ending(v)
    BY <2>1, <2>4 DEF OnceAt
  <2>6. v = w
    BY <1>3 DEF Alone
  <2> QED BY <1>2, <2>5, <2>6
<1>4. Claiming(w)' => op'[w].pc = "marking"
  BY <1>1 DEF Claiming
<1> QED BY <1>1, <1>2, <1>3, <1>4, QuietStep

LEMMA MarksFileStep ==
  ASSUME ControlTypeOK, RestInv, NEW w \in Worker, MarksFile(w)
  PROVE  RestInv'
<1> USE DEF RestInv
<1> DEFINE j == op[w].job
<1>1. /\ UNCHANGED <<given, db, runs, orphans, crashes>> /\ w \in Actor /\ w \notin Job /\ j \in Job
      /\ op[w].pc = "marking" /\ op'[w].pc = "claimed" /\ op'[w].job = j /\ op'[w].to = "ended"
      /\ early' = (IF db[j].pay = "absent" THEN early \cup {j} ELSE early)
      /\ \A b \in Actor \ {w} : op'[b] = op[b]
  BY MarksFileFacts, ControlAssumption DEF Actor
<1>2. WellBehaved(w)
  BY <1>1 DEF WellBehaved, Submitting
<1>3. ColumnsAgree' /\ SubmitterWay' /\ WorkerWay'
  BY <1>1, <1>2, WaysKept DEF ColumnsAgree, given
<1>4. RowsSubmitted'
  BY <1>1 DEF RowsSubmitted, Actor
<1>5. \A k \in Job : Crowded(k) => Crowded(k)'
  BY <1>1, CrowdedKept
<1>6. RunningIsOwned'
  BY <1>1, <1>5 DEF RunningIsOwned, Busy
<1>7. OnceInv'
  <2> SUFFICES ASSUME Alone, crashes = 0, NEW k \in Job, Watched(k)'
               PROVE  OnceAt(k)'
    BY <1>1 DEF OnceInv, Alone
  <2>1. Watched(k) /\ OnceAt(k)
    BY <1>1, <1>5 DEF Watched, OnceInv, given
  <2>2. k = j => runs[k] = 0 /\ db[k].pay # "absent"
    BY <1>1, <2>1 DEF OnceAt, Claiming, Watched
  <2> QED BY <1>1, <2>1, <2>2 DEF OnceAt, Claiming, Ending, Actor
<1> QED BY <1>3, <1>4, <1>6, <1>7

LEMMA ExecutesStep ==
  ASSUME ControlTypeOK, RestInv, NEW a \in Actor, Executes(a)
  PROVE  RestInv'
<1> USE DEF RestInv
<1> DEFINE j == op[a].job
<1>1. /\ UNCHANGED <<given, db, early, orphans, crashes>> /\ j \in Job
      /\ op[a].pc = "claimed" /\ op'[a].pc = "updating" /\ op'[a].job = j /\ op'[a].to = "ended"
      /\ \A k \in Job \ {j} : runs'[k] = runs[k]
      /\ runs'[j] \in {runs[j], IF runs[j] = 0 THEN 1 ELSE 2}
      /\ \A b \in Actor \ {a} : op'[b] = op[b]
  BY ExecutesFacts
<1>2. a \in Job => a = j /\ kind[a] \notin {"submit", "resume"} /\ a \notin Worker
  BY <1>1, ControlAssumption DEF ControlTypeOK, JobAtHand, SubmitterWay, Submitting
<1>3. WellBehaved(a)
  BY <1>1, <1>2 DEF WellBehaved, Submitting
<1>4. ColumnsAgree' /\ SubmitterWay' /\ WorkerWay'
  BY <1>1, <1>3, WaysKept DEF ColumnsAgree, given
<1>5. RowsSubmitted'
  BY <1>1 DEF RowsSubmitted, Actor, Submitting
<1>6. \A k \in Job : Crowded(k) => Crowded(k)'
  BY <1>1, CrowdedKept
<1>7. RunningIsOwned'
  BY <1>1, <1>6 DEF RunningIsOwned, Busy
<1>8. OnceInv'
  <2> SUFFICES ASSUME Alone, crashes = 0, NEW k \in Job, Watched(k)'
               PROVE  OnceAt(k)'
    BY <1>1 DEF OnceInv, Alone
  <2>1. Watched(k) /\ OnceAt(k)
    BY <1>1, <1>6 DEF Watched, OnceInv, given
  <2>2. CASE k = j
    <3>1. a \in Worker
      BY <1>2, <2>1, <2>2 DEF Watched, Actor
    <3>2. runs[j] = 0 /\ db[j].pay # "absent"
      BY <1>1, <2>1, <2>2, <3>1 DEF OnceAt, Claiming
    <3>3. \A w \in Worker : w = a
      BY <3>1 DEF Alone
    <3> QED BY <1>1, <2>2, <3>1, <3>2, <3>3 DEF OnceAt, Claiming, Ending
  <2>3. CASE k # j
    BY <1>1, <2>1, <2>3 DEF OnceAt, Claiming, Ending, Actor
  <2> QED BY <2>2, <2>3
<1> QED BY <1>4, <1>5, <1>7, <1>8

(* A route that raises leaves its row to nobody, and counts it an orphan.   *)
LEMMA RouteRaisesStep ==
  ASSUME ControlTypeOK, RestInv, NEW j \in Job, RouteRaises(j)
  PROVE  RestInv'
<1> USE DEF RestInv
<1>1. /\ UNCHANGED <<given, db, early, crashes>> /\ j \in Actor /\ j \notin Worker
      /\ op[j].pc = "claimed" /\ op[j].job = j /\ op'[j].pc = "answered"
      /\ \A k \in Job \ {j} : runs'[k] = runs[k]
      /\ orphans \subseteq orphans' /\ (db[j].pay = "running" => j \in orphans')
      /\ \A b \in Actor \ {j} : op'[b] = op[b]
  BY RouteRaisesFacts, ControlAssumption DEF Actor
<1>2. WellBehaved(j) /\ kind[j] \notin {"submit", "resume"}
  BY <1>1 DEF WellBehaved, Submitting, SubmitterWay
<1>3. ColumnsAgree' /\ SubmitterWay' /\ WorkerWay'
  BY <1>1, <1>2, WaysKept DEF ColumnsAgree, given
<1>4. RowsSubmitted'
  BY <1>1 DEF RowsSubmitted, Actor, Submitting
<1>5. \A k \in Job : Crowded(k) => Crowded(k)'
  BY <1>1, CrowdedKept
<1>6. RunningIsOwned'
  <2> SUFFICES ASSUME NEW k \in Job, db[k].pay = "running", k \notin orphans', ~Crowded(k)'
               PROVE  \E b \in Actor : Busy(b)' /\ op'[b].job = k
    BY <1>1 DEF RunningIsOwned
  <2>1. k # j
    BY <1>1
  <2>2. PICK b \in Actor : Busy(b) /\ op[b].job = k
    BY <1>1, <1>5 DEF RunningIsOwned
  <2> QED BY <1>1, <2>1, <2>2 DEF Busy
<1>7. OnceInv'
  <2> SUFFICES ASSUME Alone, crashes = 0, NEW k \in Job, Watched(k)'
               PROVE  OnceAt(k)'
    BY <1>1 DEF OnceInv, Alone
  <2>1. Watched(k) /\ OnceAt(k)
    BY <1>1, <1>5 DEF Watched, OnceInv, given
  <2>2. k # j /\ \A w \in Worker : op'[w] = op[w]
    BY <1>1, <1>2, <2>1 DEF Watched, Actor
  <2> QED BY <1>1, <2>1, <2>2 DEF OnceAt, Claiming, Ending
<1> QED BY <1>3, <1>4, <1>6, <1>7

LEMMA UpsertsStep ==
  ASSUME ControlTypeOK, RestInv, NEW j \in Job, Upserts(j)
  PROVE  RestInv'
<1> USE DEF RestInv
<1>1. /\ UNCHANGED <<given, runs, early, orphans, crashes>> /\ j \in Actor /\ j \notin Worker
      /\ op[j].pc = "upserting" /\ op[j].job = j
      /\ op'[j].pc \in {"updating", "answered"} /\ op'[j].job = j
      /\ op'[j].pc = "updating" => kind[j] \in {"run", "mission"}
      /\ db'[j].col = "queued" /\ db'[j].pay = "queued"
      /\ \A k \in Job \ {j} : db'[k] = db[k]
      /\ \A b \in Actor \ {j} : op'[b] = op[b]
  BY UpsertsFacts, AfterAppendOK, ControlAssumption DEF Actor, ControlTypeOK, JobAtHand
<1>2. WellBehaved(j) /\ db[j].pay = "absent"
  BY <1>1 DEF WellBehaved, Submitting, RowsSubmitted
<1>3. SubmitterWay' /\ WorkerWay'
  BY <1>1, <1>2, WaysKept
<1>4. ColumnsAgree'
  BY <1>1 DEF ColumnsAgree, given
<1>5. RowsSubmitted'
  BY <1>1 DEF RowsSubmitted, Actor, Submitting
<1>6. \A k \in Job : Crowded(k) => Crowded(k)'
  BY <1>1, CrowdedKept
<1>7. RunningIsOwned'
  <2> SUFFICES ASSUME NEW k \in Job, db'[k].pay = "running", k \notin orphans, ~Crowded(k)'
               PROVE  \E b \in Actor : Busy(b)' /\ op'[b].job = k
    BY <1>1 DEF RunningIsOwned
  <2>1. k # j /\ db[k].pay = "running"
    BY <1>1
  <2>2. PICK b \in Actor : Busy(b) /\ op[b].job = k
    BY <1>6, <2>1 DEF RunningIsOwned
  <2> QED BY <1>1, <2>1, <2>2 DEF Busy
<1>8. OnceInv'
  <2> SUFFICES ASSUME Alone, crashes = 0, NEW k \in Job, Watched(k)'
               PROVE  OnceAt(k)'
    BY <1>1 DEF OnceInv, Alone
  <2>1. Watched(k) /\ OnceAt(k)
    BY <1>1, <1>6 DEF Watched, OnceInv, given
  <2>2. \A w \in Worker : op'[w] = op[w]
    BY <1>1 DEF Actor
  <2>3. k = j => runs[k] = 0
    BY <1>2, <2>1 DEF OnceAt
  <2> QED BY <1>1, <2>1, <2>2, <2>3 DEF OnceAt, Claiming, Ending
<1> QED BY <1>3, <1>4, <1>5, <1>7, <1>8

(* The update of a row: of a worker it ends the job; of a submitter it may  *)
(* set it running, and then the submitter goes on to execute it.            *)
LEMMA PatchesStep ==
  ASSUME ControlTypeOK, RestInv, NEW a \in Actor, Patches(a)
  PROVE  RestInv'
<1> USE DEF RestInv
<1> DEFINE j == op[a].job
<1>1. /\ UNCHANGED <<given, runs, early, orphans, crashes>> /\ j \in Job
      /\ op[a].pc = "patching" /\ op'[a] = AfterUpdate(a)
      /\ \/ db[j].pay = "absent" /\ db' = db
         \/ db[j].pay # "absent" /\ db'[j].col = op[a].to /\ db'[j].pay = op[a].to
      /\ \A k \in Job \ {j} : db'[k] = db[k]
      /\ \A b \in Actor \ {a} : op'[b] = op[b]
  BY PatchesFacts
<1>2. a \in Job => /\ a = j /\ kind[a] \notin {"submit", "resume"} /\ a \notin Worker
                   /\ op'[a].job = a
                   /\ op'[a].pc = (IF op[a].to = "running" THEN "claimed" ELSE "answered")
  BY <1>1, AfterUpdateOK, ControlAssumption DEF ControlTypeOK, JobAtHand, SubmitterWay, Submitting
<1>3. a \in Worker => /\ a \notin Job /\ op[a].to = "ended" /\ op'[a].pc = "idle"
  BY <1>1, AfterUpdateOK, ControlAssumption DEF WorkerWay, Busy
<1>4. op[a].to # "absent"
  BY DEF ControlTypeOK, Operation
<1>5. WellBehaved(a)
  <2>1. CASE a \in Job
    <3>1. op'[a].pc \in {"claimed", "answered"}
      BY <1>2, <2>1
    <3> QED BY <1>2, <2>1, <3>1 DEF WellBehaved, Submitting
  <2>2. CASE a \in Worker
    BY <1>3, <2>2 DEF WellBehaved, Submitting, Busy
  <2> QED BY <2>1, <2>2 DEF Actor
<1>6. SubmitterWay' /\ WorkerWay'
  BY <1>1, <1>5, WaysKept
<1>7. ColumnsAgree'
  BY <1>1 DEF ColumnsAgree, given
<1>8. RowsSubmitted'
  <2> SUFFICES ASSUME NEW k \in Job, db'[k].pay # "absent" PROVE op'[k].pc \notin Submitting
    BY DEF RowsSubmitted
  <2>1. op[k].pc \notin Submitting
    BY <1>1 DEF RowsSubmitted
  <2> QED BY <1>1, <1>5, <2>1 DEF WellBehaved, Actor
<1>9. \A k \in Job : Crowded(k) => Crowded(k)'
  BY <1>1, <1>5, CrowdedKept DEF WellBehaved
<1>10. RunningIsOwned'
  <2> SUFFICES ASSUME NEW k \in Job, db'[k].pay = "running", k \notin orphans, ~Crowded(k)'
               PROVE  \E b \in Actor : Busy(b)' /\ op'[b].job = k
    BY <1>1 DEF RunningIsOwned
  <2>1. CASE k = j
    <3>1. op[a].to = "running"
      BY <1>1, <2>1
    <3>2. a \in Job /\ op'[a].pc = "claimed" /\ op'[a].job = j
      BY <1>2, <1>3, <3>1 DEF Actor
    <3> QED BY <2>1, <3>2 DEF Busy
  <2>2. CASE k # j
    <3>1. PICK b \in Actor : Busy(b) /\ op[b].job = k
      BY <1>1, <1>9, <2>2 DEF RunningIsOwned
    <3> QED BY <1>1, <2>2, <3>1 DEF Busy
  <2> QED BY <2>1, <2>2
<1>11. OnceInv'
  <2> SUFFICES ASSUME Alone, crashes = 0, NEW k \in Job, Watched(k)'
               PROVE  OnceAt(k)'
    BY <1>1 DEF OnceInv, Alone
  <2>1. Watched(k) /\ OnceAt(k)
    BY <1>1, <1>9 DEF Watched, OnceInv, given
  <2>2. \A w \in Worker : op'[w].pc = "idle" \/ op'[w] = op[w]
    BY <1>1, <1>3 DEF Actor
  <2>3. CASE k = j
    <3>1. a \in Worker
      BY <1>2, <2>1, <2>3 DEF Watched, Actor
    <3>2. db'[k].pay = "ended" \/ db[k].pay = "absent"
      BY <1>1, <1>3, <2>3, <3>1
    <3>3. db'[k].pay = "absent" <=> db[k].pay = "absent"
      BY <1>1, <1>4, <2>3
    <3> QED BY <1>1, <2>1, <2>2, <3>2, <3>3 DEF OnceAt, Claiming
  <2>4. CASE k # j
    <3>1. db'[k] = db[k]
      BY <1>1, <2>4
    <3>2. \A w \in Worker : op[w].job = k => op'[w] = op[w]
      BY <1>1, <2>4 DEF Actor
    <3> QED BY <1>1, <2>1, <2>2, <3>1, <3>2 DEF OnceAt, Claiming, Ending
  <2> QED BY <2>3, <2>4
<1> QED BY <1>6, <1>7, <1>8, <1>10, <1>11

(* A claim of a row takes a job whose payload says queued too, and of those *)
(* none has been executed unless its execution is about to end it.          *)
LEMMA ClaimStep ==
  ASSUME ControlTypeOK, RestInv, NEW w \in Worker, ClaimResume(w) \/ ClaimNext(w)
  PROVE  RestInv'
<1> USE DEF RestInv
<1>1. /\ UNCHANGED <<given, runs, early, orphans, crashes>> /\ w \in Actor /\ w \notin Job
      /\ op[w].pc \in {"idle", "claiming"}
      /\ \A b \in Actor \ {w} : op'[b] = op[b]
  BY ClaimFacts, ControlAssumption DEF Actor
<1>2. CASE db' = db /\ op'[w].pc \in {"resumeFallback", "nextFallback"}
  <2>1. WellBehaved(w) /\ ~Busy(w) /\ ~Ending(w) /\ ~Claiming(w)'
    BY <1>1, <1>2 DEF WellBehaved, Submitting, Busy, Ending, Claiming
  <2> QED BY <1>1, <1>2, <2>1, QuietStep
<1>3. ASSUME NEW j \in Job, op'[w].pc = "claimed", op'[w].job = j, op'[w].to = "ended",
             db[j].col = "queued", db'[j].col = "running",
             (db'[j].pay = db[j].pay /\ kind[j] = "resume") \/ db'[j].pay = "running",
             \A k \in Job \ {j} : db'[k] = db[k]
      PROVE  RestInv'
  <2>1. WellBehaved(w) /\ db[j].pay = "queued"
    BY <1>1, <1>3 DEF WellBehaved, Submitting, ColumnsAgree
  <2>2. SubmitterWay' /\ WorkerWay'
    BY <1>1, <2>1, WaysKept
  <2>3. ColumnsAgree'
    BY <1>1, <1>3, <2>1 DEF ColumnsAgree, given
  <2>4. RowsSubmitted'
    BY <1>1, <1>3, <2>1 DEF RowsSubmitted, Actor
  <2>5. \A k \in Job : Crowded(k) => Crowded(k)'
    BY <1>1, <1>3, CrowdedKept
  <2>6. RunningIsOwned'
    <3> SUFFICES ASSUME NEW k \in Job, db'[k].pay = "running", k \notin orphans, ~Crowded(k)'
                 PROVE  \E b \in Actor : Busy(b)' /\ op'[b].job = k
      BY <1>1 DEF RunningIsOwned
    <3>1. CASE k = j
      BY <1>1, <1>3, <3>1 DEF Busy
    <3>2. CASE k # j
      <4>1. PICK b \in Actor : Busy(b) /\ op[b].job = k
        BY <1>3, <2>5, <3>2 DEF RunningIsOwned
      <4> QED BY <1>1, <4>1 DEF Busy
    <3> QED BY <3>1, <3>2
  <2>7. OnceInv'
    <3> SUFFICES ASSUME Alone, crashes = 0, NEW k \in Job, Watched(k)'
                 PROVE  OnceAt(k)'
      BY <1>1 DEF OnceInv, Alone
    <3>1. Watched(k) /\ OnceAt(k)
      BY <1>1, <2>5 DEF Watched, OnceInv, given
    <3>2. \A v \in Worker : v = w
      BY DEF Alone
    <3>3. \A v \in Worker : ~Ending(v)
      BY <1>1, <3>2 DEF Ending
    <3>4. CASE k = j
      <4>1. runs[k] = 0
        BY <2>1, <3>1, <3>3, <3>4 DEF OnceAt
      <4>2. db'[k].pay # "absent"
        BY <1>3, <2>1, <3>4
      <4> QED BY <1>1, <4>1, <4>2 DEF OnceAt
    <3>5. CASE k # j
      <4>1. db'[k] = db[k] /\ \A v \in Worker : op'[v].job # k
        BY <1>3, <3>2, <3>5
      <4> QED BY <1>1, <3>1, <3>3, <4>1 DEF OnceAt
    <3> QED BY <3>4, <3>5
  <2> QED BY <2>2, <2>3, <2>4, <2>6, <2>7
<1> QED BY <1>2, <1>3, ClaimFacts

(* A crash leaves the rows and makes orphans of those that say running.     *)
LEMMA CrashStep ==
  ASSUME ControlTypeOK, RestInv, Crash
  PROVE  RestInv'
<1> USE DEF RestInv
<1>1. /\ UNCHANGED <<given, db, runs, early>> /\ crashes' # 0
      /\ orphans' = orphans \cup {j \in Job : db[j].pay = "running"}
      /\ \A w \in Worker : op'[w].pc = "idle"
      /\ \A j \in Job : op'[j] = op[j] \/ (op[j].pc # "new" /\ op'[j].pc = "answered")
  BY CrashFacts
<1>2. ColumnsAgree' /\ RowsSubmitted' /\ OnceInv'
  BY <1>1 DEF ColumnsAgree, RowsSubmitted, OnceInv, Submitting, given
<1>3. SubmitterWay' /\ WorkerWay'
  BY <1>1 DEF SubmitterWay, WorkerWay, Submitting, Busy, given
<1>4. RunningIsOwned'
  BY <1>1 DEF RunningIsOwned
<1> QED BY <1>2, <1>3, <1>4

LEMMA ControlStep == ControlInv /\ [Next]_vars => ControlInv'
<1> SUFFICES ASSUME ControlInv, [Next]_vars PROVE ControlInv'
  OBVIOUS
<1>1. ControlTypeOK /\ RestInv
  BY DEF ControlInv, RestInv
<1>2. SUFFICES ControlTypeOK' /\ RestInv'
  BY DEF ControlInv, RestInv
<1>3. CASE UNCHANGED vars
  <2>1. ControlTypeOK'
    BY <1>1, <1>3 DEF vars, ControlTypeOK, JobAtHand, Busy
  <2>2. ColumnsAgree' /\ RowsSubmitted' /\ SubmitterWay' /\ WorkerWay'
    BY <1>1, <1>3 DEF vars, RestInv, ColumnsAgree, RowsSubmitted, SubmitterWay, WorkerWay, Busy
  <2>3. RunningIsOwned' /\ OnceInv'
    BY <1>1, <1>3 DEF vars, RestInv, RunningIsOwned, OnceInv, OnceAt, Watched, Crowded, Claiming,
                      Ending, Busy, Alone
  <2> QED BY <2>1, <2>2, <2>3 DEF RestInv
<1>4. CASE Crash
  BY <1>1, <1>4, CrashFacts, CrashStep
<1>5. ASSUME NEW j \in Job, AppendLoads(j) PROVE ControlTypeOK' /\ RestInv'
  BY <1>1, <1>5, AppendLoadsFacts, AppendStep
<1>6. ASSUME NEW a \in Actor, Work(a) PROVE ControlTypeOK' /\ RestInv'
  <2>1. CASE a \in Job /\ AppendWrites(a)
    BY <1>1, <2>1, AppendWritesFacts, AppendStep
  <2>2. CASE a \in Job /\ Upserts(a)
    BY <1>1, <2>2, UpsertsFacts, UpsertsStep
  <2>3. CASE UpdateLoads(a)
    BY <1>1, <2>3, UpdateLoadsFacts, UpdateStep
  <2>4. CASE UpdateWrites(a)
    BY <1>1, <2>4, UpdateWritesFacts, UpdateStep
  <2>5. CASE Patches(a)
    BY <1>1, <2>5, PatchesFacts, PatchesStep
  <2>6. CASE Executes(a)
    BY <1>1, <2>6, ExecutesFacts, ExecutesStep
  <2>7. CASE a \in Worker /\ (ClaimResume(a) \/ ClaimNext(a))
    BY <1>1, <2>7, ClaimFacts, ClaimStep
  <2>8. CASE a \in Worker /\ ResumeFallback(a)
    <3>1. Fallback(a, "resumeFallback", {"resume"}, "claiming")
      BY <2>8 DEF ResumeFallback
    <3> QED BY <1>1, <2>8, <3>1, FallbackFacts, FallbackStep
  <2>9. CASE a \in Worker /\ NextFallback(a)
    <3>1. Fallback(a, "nextFallback", Kind, "idle")
      BY <2>9 DEF NextFallback
    <3> QED BY <1>1, <2>9, <3>1, FallbackFacts, FallbackStep
  <2>10. CASE a \in Worker /\ MarksFile(a)
    BY <1>1, <2>10, MarksFileFacts, MarksFileStep
  <2>11. CASE a \in Job /\ RouteRaises(a)
    BY <1>1, <2>11, RouteRaisesFacts, RouteRaisesStep
  <2> QED BY <1>6, <2>1, <2>2, <2>3, <2>4, <2>5, <2>6, <2>7, <2>8, <2>9, <2>10, <2>11 DEF Work
<1> QED BY <1>3, <1>4, <1>5, <1>6 DEF Next

(* The inductive invariant of the queue: the parts of src/swarmx/queue.py   *)
(* and worker.py that the properties below rest on.                         *)
THEOREM ControlInvariant == Spec => []ControlInv
<1> QED BY InitEstablishes, ControlStep, PTL DEF Spec

(* queue.py and worker.py: every busy actor has a job and every submitter   *)
(* its own, for any number of jobs and threads.                             *)
THEOREM ControlTypeCorrect == Spec => []ControlTypeOK
<1>1. ControlInv => ControlTypeOK
  BY DEF ControlInv
<1> QED BY <1>1, ControlInvariant, PTL

(* claim_resume_job (queue.py:196) updates the column only: the column and  *)
(* the payload differ for a claimed resume job and for no other.            *)
THEOREM ColumnsStayAgreed == Spec => []ColumnsAgree
<1>1. ControlInv => ColumnsAgree
  BY DEF ControlInv
<1> QED BY <1>1, ControlInvariant, PTL

(* worker.py _process_job and the routes of server.py: a row that says      *)
(* running has a thread or a route at work on it, but for crashes, routes   *)
(* that raised and jobs out of update_job's sight.                          *)
THEOREM RunningHasOwner == Spec => []RunningIsOwned
<1>1. ControlInv => RunningIsOwned
  BY DEF ControlInv
<1> QED BY <1>1, ControlInvariant, PTL

(* claim_next_job's fall-back (queue.py:94) marks the file and not the row, *)
(* and still a single worker executes no submitted or resumed job twice.    *)
THEOREM OneWorkerExecutesOnce == Spec => []ExecutedOnce
<1>1. ControlInv => ExecutedOnce
  <2> SUFFICES ASSUME ControlInv, Alone, crashes = 0, NEW j \in Job, runs[j] = 2,
                      kind[j] \notin {"run", "mission"}, j \notin early, ~Crowded(j)
               PROVE  FALSE
    BY DEF ExecutedOnce
  <2>1. Watched(j)
    BY DEF ControlInv, ControlTypeOK, Kind, Watched
  <2>2. OnceAt(j)
    BY <2>1 DEF ControlInv, OnceInv
  <2> QED BY <2>2 DEF OnceAt
<1> QED BY <1>1, ControlInvariant, PTL

(* update_job (queue.py:105) and the claims: only the submitter of an ended *)
(* job, whose second call comes late, ever writes another status for it.    *)
THEOREM EndedRowsStay == Spec => EndedStays
<1> DEFINE Stays == \A j \in Job :
             db[j].pay = "ended" => db'[j].pay = "ended" \/ op[j].pc \in {"upserting", "patching"}
<1>1. ControlInv /\ [Next]_vars => [Stays]_vars
  <2> SUFFICES ASSUME ControlInv, Next, NEW j \in Job, db[j].pay = "ended",
                      op[j].pc \notin {"upserting", "patching"}
               PROVE  db'[j].pay = "ended"
    OBVIOUS
  <2>1. ControlTypeOK /\ ColumnsAgree /\ WorkerWay
    BY DEF ControlInv
  <2>2. CASE Crash
    BY <2>2 DEF Crash
  <2>3. ASSUME NEW k \in Job, AppendLoads(k) PROVE db'[j].pay = "ended"
    BY <2>3 DEF AppendLoads
  <2>4. ASSUME NEW a \in Actor, Work(a) PROVE db'[j].pay = "ended"
    <3>1. CASE a \in Job /\ Upserts(a)
      BY <2>1, <3>1, UpsertsFacts
    <3>2. CASE Patches(a)
      <4>1. op[a].pc = "patching" /\ (a \in Job => op[a].job = a) /\ (a \in Worker => op[a].to = "ended")
        BY <2>1, <3>2, PatchesFacts DEF ControlTypeOK, JobAtHand, WorkerWay, Busy
      <4> QED BY <2>1, <3>2, <4>1, PatchesFacts DEF Actor
    <3>3. CASE a \in Worker /\ (ClaimResume(a) \/ ClaimNext(a))
      <4>1. db[j].col # "queued"
        BY <2>1 DEF ColumnsAgree
      <4> QED BY <2>1, <3>3, <4>1, ClaimFacts
    <3>4. CASE UNCHANGED db
      BY <3>4
    <3> QED BY <2>4, <3>1, <3>2, <3>3, <3>4
          DEF Work, AppendWrites, UpdateLoads, UpdateWrites, Executes, RouteRaises, ResumeFallback, NextFallback,
              Fallback, MarksFile
  <2> QED BY <2>2, <2>3, <2>4 DEF Next
<1> QED BY <1>1, ControlInvariant, PTL DEF Spec, EndedStays

-----------------------------------------------------------------------------

(* How many steps of its own an operation may still take.  A route that has *)
(* marked its run running executes it and updates it once more.             *)
StepsAt ==
  [new |-> 0, answered |-> 0, idle |-> 0, patching |-> 1, writing |-> 2, updating |-> 3,
   claimed |-> 4, marking |-> 5, nextFallback |-> 6, claiming |-> 7, resumeFallback |-> 8,
   upserting |-> 8, appending |-> 9]
StepsLeft(a) ==
  StepsAt[op[a].pc] + (IF op[a].pc \in {"updating", "writing", "patching"} /\ op[a].to = "running"
                       THEN 4 ELSE 0)

(* Its values, place by place.                                              *)
LEMMA StepsByPlace ==
  ASSUME ControlTypeOK, NEW a \in Actor
  PROVE  /\ StepsLeft(a) \in 0..9
         /\ StepsLeft(a) = 0 <=> ~UnderWay(a)
         /\ op[a].pc \in {"updating", "writing", "patching"} =>
              StepsLeft(a) = StepsAt[op[a].pc] + (IF op[a].to = "running" THEN 4 ELSE 0)
         /\ op[a].pc \notin {"updating", "writing", "patching"} => StepsLeft(a) = StepsAt[op[a].pc]
<1>1. op[a].pc \in Place
  BY DEF ControlTypeOK, Operation
<1>2. QED
  BY <1>1 DEF StepsLeft, StepsAt, UnderWay, Place

(* Each step of an operation under way leaves fewer of them, ...            *)
LEMMA StepsFall ==
  ASSUME ControlTypeOK, NEW a \in Actor, UnderWay(a), Work(a)
  PROVE  StepsLeft(a)' < StepsLeft(a)
<1> USE DEF StepsAt
<1>1. CASE a \in Job /\ AppendWrites(a)
  BY <1>1, AppendWritesFacts DEF StepsLeft
<1>2. CASE a \in Job /\ Upserts(a)
  <2>1. op[a].pc = "upserting" /\ op'[a].pc \in {"updating", "answered"}
    BY <1>2, UpsertsFacts, AfterAppendOK
  <2>2. QED
    BY <2>1 DEF StepsLeft
<1>3. CASE UpdateLoads(a)
  <2>1. CASE op'[a] = AfterUpdate(a)
    <3>1. op[a].pc = "updating"
      BY <1>3, UpdateLoadsFacts
    <3>2. op'[a].pc \in {"idle", "answered"} \/ (op[a].to = "running" /\ op'[a].pc = "claimed")
      BY <2>1, AfterUpdateOK DEF Actor
    <3>3. QED
      BY <3>1, <3>2 DEF StepsLeft
  <2>2. CASE op'[a] # AfterUpdate(a)
    BY <1>3, <2>2, UpdateLoadsFacts DEF StepsLeft
  <2>3. QED
    BY <2>1, <2>2
<1>4. CASE UpdateWrites(a)
  BY <1>4, UpdateWritesFacts DEF StepsLeft
<1>5. CASE Patches(a)
  <2>1. op[a].pc = "patching"
    BY <1>5, PatchesFacts
  <2>2. op'[a].pc \in {"idle", "answered"} \/ (op[a].to = "running" /\ op'[a].pc = "claimed")
    BY <1>5, PatchesFacts, AfterUpdateOK DEF Actor
  <2>3. QED
    BY <2>1, <2>2 DEF StepsLeft
<1>6. CASE Executes(a)
  BY <1>6, ExecutesFacts DEF StepsLeft
<1>7. CASE a \in Worker /\ (ClaimResume(a) \/ ClaimNext(a))
  <2>1. op[a].pc = "claiming" /\ op'[a].pc \in {"claimed", "nextFallback"}
    <3>1. op[a].pc = "claiming" /\ ClaimNext(a)
      <4>1. ClaimResume(a) => op[a].pc = "idle"
        BY Zenon DEF ClaimResume
      <4>2. op[a].pc # "idle" /\ (ClaimNext(a) => op[a].pc = "claiming")
        BY Zenon DEF UnderWay, ClaimNext
      <4>3. QED
        BY <1>7, <4>1, <4>2
    <3>2. op'[a] = At("nextFallback", None) \/ op'[a].pc = "claimed"
      <4>1. Goes(a, At("nextFallback", None)) \/ \E j \in Job : Goes(a, At("claimed", j))
        <5>1. QueuedRows(Kind) \subseteq Job
          BY DEF QueuedRows
        <5>2. QED
          BY <3>1, <5>1, OldestIn, Zenon DEF ClaimNext
      <4>2. QED
        BY <4>1, ClaimedOK DEF Goes, ControlTypeOK
    <3>3. QED
      BY <3>1, <3>2, NoJobOK
  <2>2. QED
    BY <2>1 DEF StepsLeft
<1>8. CASE a \in Worker /\ ResumeFallback(a)
  BY <1>8, FallbackFacts DEF ResumeFallback, StepsLeft
<1>9. CASE a \in Worker /\ NextFallback(a)
  BY <1>9, FallbackFacts DEF NextFallback, StepsLeft
<1>10. CASE a \in Worker /\ MarksFile(a)
  BY <1>10, MarksFileFacts DEF StepsLeft
<1>11. CASE a \in Job /\ RouteRaises(a)
  BY <1>11, RouteRaisesFacts DEF StepsLeft
<1>12. QED
  BY <1>1, <1>2, <1>3, <1>4, <1>5, <1>6, <1>7, <1>8, <1>9, <1>10, <1>11 DEF Work

(* ... and nobody else's adds to them.                                      *)
LEMMA OthersKeepAway ==
  ASSUME ControlTypeOK, NEW a \in Actor, NEW b \in Actor \ {a}, Work(b)
  PROVE  op'[a] = op[a]
<1> USE DEF ControlTypeOK, Goes
<1>1. CASE b \in Job /\ (AppendWrites(b) \/ Upserts(b) \/ RouteRaises(b))
  BY <1>1, AppendWritesFacts, UpsertsFacts, RouteRaisesFacts
<1>2. CASE UpdateLoads(b) \/ UpdateWrites(b) \/ Patches(b) \/ Executes(b)
  BY <1>2, UpdateLoadsFacts, UpdateWritesFacts, PatchesFacts, ExecutesFacts
<1>3. CASE b \in Worker /\ (ClaimResume(b) \/ ClaimNext(b) \/ MarksFile(b))
  BY <1>3, ClaimFacts, MarksFileFacts
<1>4. CASE b \in Worker /\ (ResumeFallback(b) \/ NextFallback(b))
  BY <1>4, FallbackFacts DEF ResumeFallback, NextFallback
<1>5. QED
  BY <1>1, <1>2, <1>3, <1>4 DEF Work

(* An operation under way moves by its own steps and ends in a crash.       *)
LEMMA StepsStay ==
  ASSUME ControlTypeOK, [Next]_vars, NEW a \in Actor, UnderWay(a)
  PROVE  \/ op'[a] = op[a]
         \/ Work(a)
         \/ Crash /\ op'[a].pc \in {"idle", "answered"}
<1>1. ASSUME NEW j \in Job, AppendLoads(j) PROVE op'[a] = op[a]
  BY <1>1, AppendLoadsFacts DEF UnderWay
<1>2. CASE Crash
  BY <1>2, CrashFacts DEF Actor
<1>3. QED
  BY <1>1, <1>2, OthersKeepAway DEF Next, vars

-----------------------------------------------------------------------------
(* Fairness and ENABLED of one actor, as the two theorems use them.         *)
LEMMA ActorServed ==
  ASSUME NEW a \in Actor
  PROVE  /\ FairSpec => Spec /\ Served(a)
         /\ Workable /\ UnderWay(a) => ENABLED <<Work(a)>>_vars
<1>1. (\A b \in Actor : Served(b)) => Served(a)
  OBVIOUS
<1>2. QED
  BY <1>1 DEF FairSpec, Workable

(* Rung by rung.                                                            *)
Falls(a, k) == StepsLeft(a) = k ~> StepsLeft(a) < k

LEMMA OperationFalls ==
  ASSUME NEW a \in Actor, NEW k \in 1..9
  PROVE  FairSpec /\ []Workable => Falls(a, k)
<1> DEFINE There == StepsLeft(a) = k
           Past == StepsLeft(a) < k
<1>1. ControlInv /\ There => UnderWay(a)
  BY StepsByPlace DEF ControlInv
<1>2. ControlInv /\ ControlInv' /\ [Next]_vars /\ There => There' \/ Past'
  <2> SUFFICES ASSUME ControlInv, ControlInv', [Next]_vars, There PROVE There' \/ Past'
    OBVIOUS
  <2>1. UnderWay(a) /\ ControlTypeOK
    BY <1>1 DEF ControlInv
  <2>2. CASE op'[a] = op[a]
    BY <2>2 DEF StepsLeft
  <2>3. CASE Work(a)
    BY <2>1, <2>3, StepsFall
  <2>4. CASE op'[a].pc \in {"idle", "answered"}
    BY <2>4 DEF StepsLeft, StepsAt
  <2>5. QED
    BY <2>1, <2>2, <2>3, <2>4, StepsStay
<1>3. ControlInv /\ <<Work(a)>>_vars /\ There => Past'
  BY <1>1, StepsFall DEF ControlInv
<1>4. ControlInv /\ Workable /\ There => ENABLED <<Work(a)>>_vars
  BY <1>1, ActorServed
<1>5. FairSpec => Spec /\ Served(a)
  BY ActorServed
<1> HIDE DEF There, Past
<1>6. FairSpec /\ []Workable => (There ~> Past)
  BY <1>2, <1>3, <1>4, <1>5, ControlInvariant, PTL DEF Served, Spec
<1>7. QED
  BY <1>6 DEF There, Past, Falls

(* At most nine steps, each of them taken.                                  *)
LEMMA OneOperationEnds ==
  ASSUME NEW a \in Actor
  PROVE  FairSpec /\ []Workable => OperationEnds(a)
<1> DEFINE N(k) == StepsLeft(a) = k
           L(k) == StepsLeft(a) < k
<1>1. FairSpec /\ []Workable =>
        /\ Falls(a, 1) /\ Falls(a, 2) /\ Falls(a, 3) /\ Falls(a, 4) /\ Falls(a, 5)
        /\ Falls(a, 6) /\ Falls(a, 7) /\ Falls(a, 8) /\ Falls(a, 9)
  BY OperationFalls
<1>2. ControlInv =>
        /\ UnderWay(a) => L(10)
        /\ L(1) => ~UnderWay(a)
        /\ L(2) => L(1) \/ N(1)
        /\ L(3) => L(2) \/ N(2)
        /\ L(4) => L(3) \/ N(3)
        /\ L(5) => L(4) \/ N(4)
        /\ L(6) => L(5) \/ N(5)
        /\ L(7) => L(6) \/ N(6)
        /\ L(8) => L(7) \/ N(7)
        /\ L(9) => L(8) \/ N(8)
        /\ L(10) => L(9) \/ N(9)
  <2>1. ControlInv => StepsLeft(a) \in 0..9 /\ (StepsLeft(a) = 0 <=> ~UnderWay(a))
    BY StepsByPlace DEF ControlInv
  <2>2. QED
    BY <2>1
<1>3. FairSpec => []ControlInv
  BY ControlInvariant DEF FairSpec
<1>4. FairSpec /\ []Workable =>
        /\ N(1) ~> L(1)
        /\ N(2) ~> L(2)
        /\ N(3) ~> L(3)
        /\ N(4) ~> L(4)
        /\ N(5) ~> L(5)
        /\ N(6) ~> L(6)
        /\ N(7) ~> L(7)
        /\ N(8) ~> L(8)
        /\ N(9) ~> L(9)
  BY <1>1 DEF Falls
<1> HIDE DEF N, L
<1>5. FairSpec /\ []Workable => (L(4) ~> L(1))
  BY <1>2, <1>3, <1>4, PTL
<1>6. FairSpec /\ []Workable => (L(7) ~> L(4))
  BY <1>2, <1>3, <1>4, PTL
<1>7. FairSpec /\ []Workable => (L(10) ~> L(7))
  BY <1>2, <1>3, <1>4, PTL
<1>8. FairSpec /\ []Workable => (UnderWay(a) ~> ~UnderWay(a))
  BY <1>2, <1>3, <1>5, <1>6, <1>7, PTL
<1>9. QED
  BY <1>8 DEF OperationEnds

(* Every append, update, claim and execution of queue.py and worker.py that *)
(* was begun is finished: the submitter is answered, the worker is back in  *)
(* its loop, for any number of jobs, threads and crashes, provided a step   *)
(* under way can always be taken (Workable, which names ENABLED).           *)
THEOREM OperationsComeBack == FairSpec /\ []Workable => OperationsEnd
  BY OneOperationEnds DEF OperationsEnd

-----------------------------------------------------------------------------
(* Whoever works on a running row keeps at it, unless the row is settled by *)
(* somebody else or by a crash.                                             *)
LEMMA OwnerKeepsAt ==
  ASSUME NEW a \in Actor, NEW j \in Job, ControlInv, [Next]_vars, Owns(a, j)
  PROVE  /\ Settled(j)' \/ Owns(a, j)'
         /\ Settled(j)' \/ op'[a] = op[a] \/ Work(a)
<1>1. ControlTypeOK /\ UnderWay(a) /\ RowsSubmitted /\ WorkerWay /\ op[a].job = j /\ Busy(a)
  BY DEF ControlInv, Owns, Busy, UnderWay
<1>2. CASE op'[a] = op[a]
  BY <1>2 DEF Owns, Busy, Settled
<1>3. CASE Crash
  <2>1. j \in orphans'
    BY <1>1, <1>3, CrashFacts DEF Owns
  <2>2. QED
    BY <2>1 DEF Settled
<1>4. CASE Work(a)
  <2>1. SUFFICES Settled(j)' \/ Owns(a, j)'
    BY <1>4
  <2>2. CASE UpdateLoads(a)
    <3>1. CASE Loaded[j] = "absent"
      <4>1. Crowded(j)
        BY <1>1, <3>1, SkippedIsCrowded, ControlAssumption DEF ControlTypeOK, Owns
      <4>2. op'[a].pc # "new"
        <5>1. op'[a].pc = "writing" \/ op'[a].pc \in {"idle", "claimed", "answered"}
          BY <1>1, <2>2, UpdateLoadsFacts, AfterUpdateOK DEF Actor
        <5>2. QED
          BY <5>1
      <4>3. Crowded(j)'
        BY <1>1, <2>2, <4>1, <4>2, UpdateLoadsFacts, CrowdedKept
      <4>4. QED
        BY <4>3 DEF Settled
    <3>2. CASE Loaded[j] # "absent"
      BY <1>1, <2>2, <3>2, UpdateLoadsFacts DEF Owns, Busy
    <3>3. QED
      BY <3>1, <3>2
  <2>3. CASE UpdateWrites(a)
    BY <1>1, <2>3, UpdateWritesFacts DEF Owns, Busy
  <2>4. CASE Patches(a)
    <3>1. db'[j].pay = op[a].to /\ op'[a] = AfterUpdate(a)
      BY <1>1, <2>4, PatchesFacts DEF Owns
    <3>2. CASE op[a].to # "running"
      BY <3>1, <3>2 DEF Settled
    <3>3. CASE op[a].to = "running"
      <4>1. a \in Job
        BY <1>1, <3>3 DEF WorkerWay, Actor
      <4>2. op'[a].pc = "claimed" /\ op'[a].job = a /\ j = a
        BY <1>1, <3>1, <3>3, <4>1, AfterUpdateOK DEF ControlTypeOK, JobAtHand
      <4>3. QED
        BY <3>1, <3>3, <4>2 DEF Owns, Busy
    <3>4. QED
      BY <3>2, <3>3
  <2>5. CASE Executes(a)
    BY <1>1, <2>5, ExecutesFacts DEF Owns, Busy
  <2>6. CASE a \in Worker /\ MarksFile(a)
    BY <1>1, <2>6, MarksFileFacts DEF Owns, Busy
  <2>7. ~(a \in Job /\ (AppendWrites(a) \/ Upserts(a)))
    BY <1>1, AppendWritesFacts, UpsertsFacts DEF Busy
  <2>8. ~(a \in Worker /\ (ClaimResume(a) \/ ClaimNext(a)))
    BY <1>1, ClaimFacts DEF Busy
  <2>9. ~(a \in Worker /\ (ResumeFallback(a) \/ NextFallback(a)))
    BY <1>1, FallbackFacts DEF Busy, ResumeFallback, NextFallback
  <2>10. CASE a \in Job /\ RouteRaises(a)
    BY <1>1, <2>10, RouteRaisesFacts DEF Owns, Settled
  <2>11. QED
    BY <1>4, <2>2, <2>3, <2>4, <2>5, <2>6, <2>7, <2>8, <2>9, <2>10 DEF Work
<1>5. QED
  BY <1>1, <1>2, <1>3, <1>4, StepsStay

(* Rung by rung, with the row in hand.                                      *)
Nears(a, j, k) ==
  Owns(a, j) /\ StepsLeft(a) = k ~> (Owns(a, j) /\ StepsLeft(a) < k) \/ Settled(j)

LEMMA OwnerNears ==
  ASSUME NEW a \in Actor, NEW j \in Job, NEW k \in 1..9
  PROVE  FairSpec /\ []Workable => Nears(a, j, k)
<1> DEFINE There == Owns(a, j) /\ StepsLeft(a) = k
           Past == (Owns(a, j) /\ StepsLeft(a) < k) \/ Settled(j)
<1>1. There => UnderWay(a)
  BY DEF Owns, Busy, UnderWay
<1>2. ControlInv /\ [Next]_vars /\ There => There' \/ Past'
  <2> SUFFICES ASSUME ControlInv, [Next]_vars, There PROVE There' \/ Past'
    OBVIOUS
  <2>1. CASE op'[a] = op[a]
    <3>1. StepsLeft(a)' = StepsLeft(a)
      BY <2>1 DEF StepsLeft
    <3>2. QED
      BY <3>1, OwnerKeepsAt
  <2>2. CASE Work(a)
    <3>1. StepsLeft(a)' < StepsLeft(a)
      BY <1>1, <2>2, StepsFall DEF ControlInv
    <3>2. QED
      BY <3>1, OwnerKeepsAt
  <2>3. QED
    BY <2>1, <2>2, OwnerKeepsAt
<1>3. ControlInv /\ <<Next /\ Work(a)>>_vars /\ There => Past'
  BY <1>1, StepsFall, OwnerKeepsAt DEF ControlInv
<1>4. Workable /\ There => ENABLED <<Work(a)>>_vars
  BY <1>1, ActorServed
<1>5. FairSpec => Spec /\ Served(a)
  BY ActorServed
<1> HIDE DEF There, Past
<1>6. FairSpec /\ []Workable => (There ~> Past)
  BY <1>2, <1>3, <1>4, <1>5, ControlInvariant, PTL DEF Served, Spec
<1>7. QED
  BY <1>6 DEF There, Past, Nears

(* At most seven steps lie between taking the row and its end.              *)
LEMMA OneRowEnds ==
  ASSUME NEW a \in Actor, NEW j \in Job
  PROVE  FairSpec /\ []Workable => RowEnds(a, j)
<1> DEFINE N(k) == Owns(a, j) /\ StepsLeft(a) = k
           L(k) == (Owns(a, j) /\ StepsLeft(a) < k) \/ Settled(j)
<1>1. FairSpec /\ []Workable =>
        /\ Nears(a, j, 1) /\ Nears(a, j, 2) /\ Nears(a, j, 3) /\ Nears(a, j, 4)
        /\ Nears(a, j, 5) /\ Nears(a, j, 6) /\ Nears(a, j, 7)
  BY OwnerNears
<1>2. ControlInv =>
        /\ Owns(a, j) => L(8)
        /\ L(1) => Settled(j)
        /\ L(2) => L(1) \/ N(1)
        /\ L(3) => L(2) \/ N(2)
        /\ L(4) => L(3) \/ N(3)
        /\ L(5) => L(4) \/ N(4)
        /\ L(6) => L(5) \/ N(5)
        /\ L(7) => L(6) \/ N(6)
        /\ L(8) => L(7) \/ N(7)
  <2>1. ControlInv /\ Owns(a, j) => StepsLeft(a) \in 1..7
    <3> SUFFICES ASSUME ControlInv, Owns(a, j) PROVE StepsLeft(a) \in 1..7
      OBVIOUS
    <3>1. op[a].pc \in {"marking", "claimed", "updating", "writing", "patching"}
      BY DEF Owns, Busy
    <3>2. QED
      BY <3>1 DEF StepsLeft, StepsAt
  <2>2. QED
    BY <2>1
<1>3. FairSpec => []ControlInv
  BY ControlInvariant DEF FairSpec
<1>4. FairSpec /\ []Workable =>
        /\ N(1) ~> L(1)
        /\ N(2) ~> L(2)
        /\ N(3) ~> L(3)
        /\ N(4) ~> L(4)
        /\ N(5) ~> L(5)
        /\ N(6) ~> L(6)
        /\ N(7) ~> L(7)
  BY <1>1 DEF Nears
<1> DEFINE Mine == Owns(a, j)
           Done == Settled(j)
<1>m. ControlInv => (Mine => L(8)) /\ (L(1) => Done)
  BY <1>2
<1> HIDE DEF N, L, Mine, Done
<1>5. FairSpec /\ []Workable => (L(3) ~> L(1))
  BY <1>2, <1>3, <1>4, PTL
<1>6. FairSpec /\ []Workable => (L(5) ~> L(3))
  BY <1>2, <1>3, <1>4, PTL
<1>7. FairSpec /\ []Workable => (L(8) ~> L(5))
  BY <1>2, <1>3, <1>4, PTL
<1>8. FairSpec /\ []Workable => (Mine ~> Done)
  BY <1>m, <1>3, <1>5, <1>6, <1>7, PTL
<1>9. QED
  BY <1>8 DEF RowEnds, Mine, Done

(* update_job at the end of _process_job and of the routes: whoever works   *)
(* on a row that says running brings it to an end, unless the server dies,  *)
(* the route raises or the job is older than what update_job looks at.      *)
THEOREM OwnersEndTheirRows == FairSpec /\ []Workable => RunningRowsEnd
  BY OneRowEnds DEF RunningRowsEnd
=============================================================================
