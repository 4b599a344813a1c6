---------------------------- MODULE WorkflowProofs ----------------------------
(***************************************************************************)
(* Theorems about the two kinds of workflow runs: WorkflowRuns, and, in    *)
(* the second part, CreativeWorkflow.  The modules share nothing.          *)
(*                                                                         *)
(* The first holds for every number of requests, keys, cancellations and   *)
(* crashes: RunsInv ties the rows a run has in the file to the place of    *)
(* its execution, and the last row of a key to the executions under way.   *)
(***************************************************************************)
EXTENDS WorkflowRuns, CreativeWorkflow, TLAPS

Row == [run : Post, status : Status]
Outcomes == {"success", "failed"}

(* Of the rows of any runs there is a last one.                             *)
LastExists ==
  \A R \in SUBSET Post : Rows(R) # {} => \E i \in Rows(R) : \A k \in Rows(R) : i >= k

(* What the file holds of a run, by the place of its execution.             *)
RowsOfPlace ==
  \A c \in Post :
    /\ post[c] \in {"idle", "deduped", "appending"} => Rows({c}) = {}
    /\ post[c] \in {"starting", "sent", "reporting"} =>
         StatusRows(c, {"queued"}) # {} /\ StatusRows(c, Outcomes) = {}
    /\ post[c] = "starting" => StatusRows(c, {"running"}) = {}
    /\ post[c] \in {"sent", "reporting"} => StatusRows(c, {"running"}) # {}

CancelledKnown ==
  \A d \in Cancel : cancel[d].pc = "appending" =>
    cancel[d].run \in Post /\ StatusRows(cancel[d].run, {"queued"}) # {}

InPython == \A c \in python : post[c] = "sent" \/ KeyOf[c] \in deserted

(* While an execution that met no other is under way, the last row of its   *)
(* key keeps further requests out.                                          *)
KeyHeld ==
  \A c \in Post : post[c] \in {"starting", "sent", "reporting"} /\ KeyOf[c] \notin overlapped =>
    Rows(Sharing(c)) # {} /\ Last(Sharing(c)).status # "failed"

RunsInv ==
  /\ RunsTypeOK /\ LastExists /\ RowsInOrder /\ RowsOfPlace /\ CancelledKnown
  /\ InPython /\ KeyHeld /\ OneInProgressPerKey

-----------------------------------------------------------------------------
(* Appending a row.                                                         *)

LEMMA AppendedRow ==
  ASSUME journal \in Seq(Row), NEW r \in Post, NEW s \in Status, Appended(r, s)
  PROVE  /\ journal' \in Seq(Row) /\ Len(journal) \in Nat
         /\ DOMAIN journal = 1..Len(journal) /\ DOMAIN journal' = 1..(Len(journal) + 1)
         /\ \A i \in DOMAIN journal : journal'[i] = journal[i] /\ journal[i] \in Row
         /\ journal'[Len(journal) + 1].run = r
         /\ journal'[Len(journal) + 1].status = s
<1> DEFINE new == [run |-> r, status |-> s]
<1>1. new \in Row /\ new.run = r /\ new.status = s
  BY DEF Row
<1>2. journal' = Append(journal, new)
  BY DEF Appended
<1> HIDE DEF new
<1>3. /\ journal' \in Seq(Row) /\ Len(journal) \in Nat
      /\ DOMAIN journal = 1..Len(journal) /\ DOMAIN journal' = 1..(Len(journal) + 1)
      /\ \A i \in DOMAIN journal : journal'[i] = journal[i] /\ journal[i] \in Row
      /\ journal'[Len(journal) + 1] = new
  BY <1>1, <1>2
<1> QED BY <1>1, <1>3

LEMMA AppendedRows ==
  ASSUME journal \in Seq(Row), NEW r \in Post, NEW s \in Status, Appended(r, s)
  PROVE  /\ \A R \in SUBSET Post :
              Rows(R)' = Rows(R) \cup (IF r \in R THEN {Len(journal) + 1} ELSE {})
         /\ \A x \in Post, T \in SUBSET Status :
              StatusRows(x, T)' = StatusRows(x, T) \cup
                (IF x = r /\ s \in T THEN {Len(journal) + 1} ELSE {})
         /\ \A R \in SUBSET Post : \A i \in Rows(R) : i \in 1..Len(journal)
         /\ \A x \in Post, T \in SUBSET Status : \A i \in StatusRows(x, T) : i \in Rows({x})
<1> DEFINE N == Len(journal) + 1
<1>0. /\ N \in Nat /\ N \notin DOMAIN journal /\ DOMAIN journal = 1..Len(journal)
      /\ DOMAIN journal' = DOMAIN journal \cup {N}
      /\ \A i \in DOMAIN journal : journal'[i] = journal[i]
      /\ journal'[N].run = r /\ journal'[N].status = s
  <2>1. /\ Len(journal) \in Nat
        /\ DOMAIN journal = 1..Len(journal) /\ DOMAIN journal' = 1..(Len(journal) + 1)
        /\ \A i \in DOMAIN journal : journal'[i] = journal[i]
    BY AppendedRow
  <2>2. journal'[N].run = r /\ journal'[N].status = s
    BY AppendedRow
  <2> QED BY <2>1, <2>2
<1> HIDE DEF N
<1>1. \A R \in SUBSET Post : \A i \in Rows(R) : i \in 1..Len(journal)
  BY <1>0 DEF Rows
<1>2. ASSUME NEW R \in SUBSET Post
      PROVE  Rows(R)' = Rows(R) \cup (IF r \in R THEN {N} ELSE {})
  <2>1. Rows(R)' = {i \in DOMAIN journal' : journal'[i].run \in R}
    BY DEF Rows
  <2>2. Rows(R) = {i \in DOMAIN journal : journal[i].run \in R}
    BY DEF Rows
  <2> QED BY <2>1, <2>2, <1>0
<1>3. ASSUME NEW x \in Post, NEW T \in SUBSET Status
      PROVE  StatusRows(x, T)' = StatusRows(x, T) \cup (IF x = r /\ s \in T THEN {N} ELSE {})
  <2>1. Rows({x})' = Rows({x}) \cup (IF r \in {x} THEN {N} ELSE {})
    BY <1>2
  <2>2. \A i \in Rows({x}) : i \in DOMAIN journal
    BY DEF Rows
  <2>3. /\ StatusRows(x, T)' = {i \in Rows({x})' : journal'[i].status \in T}
        /\ StatusRows(x, T) = {i \in Rows({x}) : journal[i].status \in T}
    BY DEF StatusRows
  <2> QED BY <2>1, <2>2, <2>3, <1>0
<1>4. \A x \in Post, T \in SUBSET Status : \A i \in StatusRows(x, T) : i \in Rows({x})
  BY DEF StatusRows
<1> QED BY <1>1, <1>2, <1>3, <1>4 DEF N

LEMMA AppendedLast ==
  ASSUME journal \in Seq(Row), LastExists, NEW r \in Post, NEW s \in Status, Appended(r, s)
  PROVE  /\ LastExists'
         /\ \A R \in SUBSET Post : r \in R => Last(R)'.status = s
         /\ \A R \in SUBSET Post : r \notin R /\ Rows(R) # {} => Last(R)' = Last(R)
<1> DEFINE N == Len(journal) + 1
<1>1. /\ \A R \in SUBSET Post : Rows(R)' = Rows(R) \cup (IF r \in R THEN {N} ELSE {})
      /\ \A R \in SUBSET Post : \A i \in Rows(R) : i \in 1..Len(journal)
  BY AppendedRows
<1>2. Len(journal) \in Nat
  BY AppendedRow
<1>3. ASSUME NEW R \in SUBSET Post, r \in R PROVE Max(Rows(R)') = N
  <2>1. N \in Rows(R)' /\ \A k \in Rows(R)' : N >= k
    BY <1>1, <1>2, <1>3
  <2>2. \A i \in Rows(R)' : (\A k \in Rows(R)' : i >= k) => i = N
    BY <2>1, <1>1, <1>2, <1>3
  <2> QED BY <2>1, <2>2 DEF Max
<1>4. ASSUME NEW R \in SUBSET Post, r \in R PROVE Last(R)'.status = s
  <2>1. Last(R)' = journal'[N]
    BY <1>3, <1>4 DEF Last
  <2>2. journal'[N].status = s
    BY AppendedRow
  <2> QED BY <2>1, <2>2
<1>5. ASSUME NEW R \in SUBSET Post, r \notin R, Rows(R) # {} PROVE Last(R)' = Last(R)
  <2>1. Rows(R)' = Rows(R)
    BY <1>1, <1>5
  <2>2. Max(Rows(R)) \in Rows(R)
    BY <1>5 DEF LastExists, Max
  <2>3. Max(Rows(R)) \in DOMAIN journal
    BY <2>2 DEF Rows
  <2>4. journal'[Max(Rows(R))] = journal[Max(Rows(R))]
    BY <2>3, AppendedRow
  <2> QED BY <2>1, <2>4 DEF Last
<1>6. LastExists'
  <2> SUFFICES ASSUME NEW R \in SUBSET Post, Rows(R)' # {}
               PROVE  \E i \in Rows(R)' : \A k \in Rows(R)' : i >= k
    BY DEF LastExists
  <2>1. CASE r \in R
    <3>1. N \in Rows(R)' /\ \A k \in Rows(R)' : N >= k
      BY <2>1, <1>1, <1>2
    <3> QED BY <3>1
  <2>2. CASE r \notin R
    BY <2>2, <1>1 DEF LastExists
  <2> QED BY <2>1, <2>2
<1> QED BY <1>4, <1>5, <1>6

LEMMA AppendedInOrder ==
  ASSUME journal \in Seq(Row), RowsInOrder, NEW r \in Post, NEW s \in Status, Appended(r, s),
         s = "queued" => Rows({r}) = {},
         s # "queued" => StatusRows(r, {"queued"}) # {},
         s = "running" => StatusRows(r, {"running"}) = {},
         s \in Outcomes => StatusRows(r, {"running"}) # {} /\ StatusRows(r, Outcomes) = {}
  PROVE  RowsInOrder'
<1> DEFINE N == Len(journal) + 1
<1> USE DEF Outcomes
<1>1. N \in Nat /\ Len(journal) \in Nat
  BY AppendedRow
<1>2. /\ {"queued"} \in SUBSET Status /\ {"running"} \in SUBSET Status
      /\ {"success", "failed"} \in SUBSET Status
  BY DEF Status
<1>3. \A x \in Post : Rows({x})' = Rows({x}) \cup (IF x = r THEN {N} ELSE {})
  <2>1. \A x \in Post : {x} \in SUBSET Post
    OBVIOUS
  <2> QED BY <2>1, AppendedRows
<1>4. \A x \in Post, T \in {{"queued"}, {"running"}, {"success", "failed"}} :
        StatusRows(x, T)' = StatusRows(x, T) \cup (IF x = r /\ s \in T THEN {N} ELSE {})
  BY <1>2, AppendedRows
<1>5. /\ \A x \in Post : \A i \in Rows({x}) : i \in 1..Len(journal)
      /\ \A x \in Post, T \in {{"queued"}, {"running"}, {"success", "failed"}} :
           StatusRows(x, T) \subseteq Rows({x})
  BY <1>2, AppendedRows
<1> SUFFICES ASSUME NEW x \in Post
             PROVE  /\ \A i \in Rows({x})' : \E k \in StatusRows(x, {"queued"})' : k <= i
                    /\ \A i \in StatusRows(x, Outcomes)' : \E k \in StatusRows(x, {"running"})' : k < i
                    /\ \A T \in {{"queued"}, {"running"}, {"success", "failed"}} :
                         \A i, k \in StatusRows(x, T)' : i = k
  BY DEF RowsInOrder
<1>6. /\ \A i \in Rows({x}) : \E k \in StatusRows(x, {"queued"}) : k <= i
      /\ \A i \in StatusRows(x, {"success", "failed"}) : \E k \in StatusRows(x, {"running"}) : k < i
      /\ \A T \in {{"queued"}, {"running"}, {"success", "failed"}} :
           \A i, k \in StatusRows(x, T) : i = k
  BY DEF RowsInOrder
<1>7. CASE x # r
  BY <1>3, <1>4, <1>6, <1>7
<1>8. CASE x = r
  <2>1. \A i \in Rows({x})' : \E k \in StatusRows(x, {"queued"})' : k <= i
    <3>1. ASSUME NEW i \in Rows({x}) PROVE \E k \in StatusRows(x, {"queued"})' : k <= i
      BY <1>4, <1>6, <3>1
    <3>2. CASE s = "queued"
      BY <3>1, <3>2, <1>1, <1>3, <1>4, <1>8
    <3>3. CASE s # "queued"
      <4>1. PICK k \in StatusRows(x, {"queued"}) : k \in 1..Len(journal)
        BY <3>3, <1>5, <1>8
      <4>2. k \in StatusRows(x, {"queued"})' /\ k <= N
        BY <4>1, <1>1, <1>4
      <4> QED BY <3>1, <4>2, <1>3, <1>8
    <3> QED BY <3>2, <3>3
  <2>2. \A i \in StatusRows(x, Outcomes)' : \E k \in StatusRows(x, {"running"})' : k < i
    <3>1. CASE s \in Outcomes
      <4>1. PICK k \in StatusRows(x, {"running"}) : k \in 1..Len(journal)
        BY <3>1, <1>5, <1>8
      <4>2. k \in StatusRows(x, {"running"})' /\ k < N
        BY <4>1, <1>1, <1>4
      <4>3. StatusRows(x, Outcomes)' = {N}
        BY <3>1, <1>4, <1>8
      <4> QED BY <4>2, <4>3
    <3>2. CASE s \notin Outcomes
      BY <3>2, <1>4, <1>6
    <3> QED BY <3>1, <3>2
  <2>3. ASSUME NEW T \in {{"queued"}, {"running"}, {"success", "failed"}}
        PROVE  \A i, k \in StatusRows(x, T)' : i = k
    <3>1. s \in T => StatusRows(x, T) = {}
      BY <1>5, <1>8
    <3>2. StatusRows(x, T)' = StatusRows(x, T) \cup (IF s \in T THEN {N} ELSE {})
      BY <1>4, <1>8
    <3>3. \A i, k \in StatusRows(x, T) : i = k
      BY <1>6
    <3> HIDE DEF N
    <3> QED BY <3>1, <3>2, <3>3
  <2> QED BY <2>1, <2>2, <2>3
<1> QED BY <1>7, <1>8

LEMMA Unwritten ==
  ASSUME LastExists, RowsInOrder, journal' = journal
  PROVE  /\ LastExists' /\ RowsInOrder'
         /\ \A R : Rows(R)' = Rows(R) /\ Last(R)' = Last(R)
         /\ \A x, T : StatusRows(x, T)' = StatusRows(x, T)
<1>1. \A R : Rows(R)' = Rows(R)
  BY DEF Rows
<1>2. \A R : Last(R)' = Last(R)
  BY <1>1 DEF Last
<1>3. \A x, T : StatusRows(x, T)' = StatusRows(x, T)
  BY <1>1 DEF StatusRows
<1>4. LastExists' /\ RowsInOrder'
  BY <1>1, <1>3 DEF LastExists, RowsInOrder
<1> QED BY <1>1, <1>2, <1>3, <1>4

LEMMA SharedKey ==
  /\ \A c \in Post : Sharing(c) \in SUBSET Post
  /\ \A a, c \in Post : a \in Sharing(c) <=> KeyOf[a] = KeyOf[c]
  /\ \A a, c \in Post : KeyOf[a] = KeyOf[c] => Sharing(a) = Sharing(c)
BY DEF Sharing

-----------------------------------------------------------------------------
(* The steps.                                                               *)

LEMMA InitEstablishes == Init => RunsInv
<1> SUFFICES ASSUME Init PROVE RunsInv
  OBVIOUS
<1> USE DEF Init
<1>1. \A R : Rows(R) = {}
  BY DEF Rows
<1>2. \A x, T : StatusRows(x, T) = {}
  BY <1>1 DEF StatusRows
<1>3. RunsTypeOK
  BY RunsAssumption DEF RunsTypeOK, Place, Waiting
<1>4. LastExists /\ RowsInOrder /\ RowsOfPlace
  BY <1>1, <1>2 DEF LastExists, RowsInOrder, RowsOfPlace
<1>5. CancelledKnown /\ InPython /\ KeyHeld /\ OneInProgressPerKey
  BY DEF CancelledKnown, InPython, KeyHeld, OneInProgressPerKey, InProgress, Waiting
<1> QED BY <1>3, <1>4, <1>5 DEF RunsInv

LEMMA PostReadsPreserves ==
  ASSUME RunsInv, NEW c \in Post, PostReads(c) PROVE RunsInv'
<1> USE DEF RunsInv
<1>1. /\ UNCHANGED <<journal, outcome, cancel, python, deserted, crashes>>
      /\ post \in [Post -> Place] /\ post[c] = "idle"
      /\ post' = [post EXCEPT ![c] = IF MayRun(c) THEN "appending" ELSE "deduped"]
      /\ \A x \in Post : x # c => post'[x] = post[x]
      /\ post'[c] = IF MayRun(c) THEN "appending" ELSE "deduped"
  BY DEF PostReads, RunsTypeOK
<1>2. /\ LastExists' /\ RowsInOrder'
      /\ \A R : Rows(R)' = Rows(R) /\ Last(R)' = Last(R)
      /\ \A x, T : StatusRows(x, T)' = StatusRows(x, T)
  BY <1>1, Unwritten
<1>3. RunsTypeOK'
  BY <1>1 DEF PostReads, RunsTypeOK, Place, Key
<1>4. RowsOfPlace'
  BY <1>1, <1>2 DEF RowsOfPlace
<1>5. CancelledKnown' /\ InPython'
  BY <1>1, <1>2 DEF CancelledKnown, InPython, RunsTypeOK
<1>6. overlapped \subseteq overlapped'
  BY DEF PostReads
<1>7. KeyHeld'
  BY <1>1, <1>2, <1>6 DEF KeyHeld
<1>8. OneInProgressPerKey'
  <2>1. ASSUME NEW b \in Post, b # c, KeyOf[b] = KeyOf[c], InProgress(b), InProgress(c)'
        PROVE  KeyOf[c] \in overlapped'
    <3>1. MayRun(c)
      BY <1>1, <2>1 DEF InProgress
    <3>2. CASE post[b] = "appending"
      BY <3>1, <3>2, <2>1 DEF PostReads, Among, Sharing
    <3>3. CASE post[b] \in {"starting", "sent", "reporting"}
      <4>1. Sharing(b) = Sharing(c)
        BY <2>1, SharedKey
      <4>2. KeyOf[c] \in overlapped
        BY <3>1, <3>3, <2>1, <4>1 DEF MayRun, KeyHeld
      <4> QED BY <4>2, <1>6
    <3> QED BY <2>1, <3>2, <3>3 DEF InProgress
  <2>2. \A x \in Post : x # c => (InProgress(x)' <=> InProgress(x))
    BY <1>1 DEF InProgress
  <2> QED BY <2>1, <2>2, <1>6 DEF OneInProgressPerKey
<1> QED BY <1>2, <1>3, <1>4, <1>5, <1>7, <1>8

(* A row of an execution under way, after which it is under way or over.    *)
LEMMA RowPreserves ==
  ASSUME RunsInv, NEW c \in Post, NEW s \in Status, NEW p \in {"starting", "sent", "over"},
         Appended(c, s), post' = [post EXCEPT ![c] = p], InProgress(c),
         s = "failed" => p = "over",
         UNCHANGED overlapped
  PROVE  LastExists' /\ KeyHeld' /\ OneInProgressPerKey'
<1> USE DEF RunsInv
<1>1. journal \in Seq(Row) /\ post \in [Post -> Place]
  BY DEF RunsTypeOK, Row
<1>2. /\ post'[c] = p
      /\ \A x \in Post : x # c => post'[x] = post[x]
      /\ \A x \in Post : InProgress(x)' => InProgress(x)
  BY <1>1 DEF InProgress
<1>3. OneInProgressPerKey'
  BY <1>2 DEF OneInProgressPerKey
<1>4. /\ LastExists'
      /\ \A R \in SUBSET Post : c \in R => Last(R)'.status = s
      /\ \A R \in SUBSET Post : c \notin R /\ Rows(R) # {} => Last(R)' = Last(R)
  BY <1>1, AppendedLast
<1>5. \A R \in SUBSET Post : Rows(R)' = Rows(R) \cup (IF c \in R THEN {Len(journal) + 1} ELSE {})
  BY <1>1, AppendedRows
<1>6. KeyHeld'
  <2> SUFFICES ASSUME NEW x \in Post, post'[x] \in {"starting", "sent", "reporting"},
                      KeyOf[x] \notin overlapped
               PROVE  Rows(Sharing(x))' # {} /\ Last(Sharing(x))'.status # "failed"
    BY DEF KeyHeld, Sharing
  <2>1. Sharing(x) \in SUBSET Post /\ (c \in Sharing(x) <=> KeyOf[c] = KeyOf[x])
    BY SharedKey
  <2>2. CASE KeyOf[c] = KeyOf[x]
    <3>1. x = c
      BY <2>2, <1>2 DEF OneInProgressPerKey, InProgress
    <3>2. s # "failed"
      BY <3>1, <1>2
    <3> QED BY <2>1, <2>2, <3>2, <1>4, <1>5
  <2>3. CASE KeyOf[c] # KeyOf[x]
    <3>1. x # c /\ post[x] \in {"starting", "sent", "reporting"}
      BY <2>3, <1>2
    <3>2. Rows(Sharing(x)) # {} /\ Last(Sharing(x)).status # "failed"
      BY <3>1 DEF KeyHeld
    <3> QED BY <2>1, <2>3, <3>2, <1>4, <1>5
  <2> QED BY <2>2, <2>3
<1> QED BY <1>3, <1>4, <1>6

(* What the rows of every run are after one was appended to run r.          *)
LEMMA RowsGrow ==
  ASSUME RunsInv, NEW r \in Post, NEW s \in Status, Appended(r, s)
  PROVE  /\ Rows({r})' # {}
         /\ \A x \in Post : x # r => Rows({x})' = Rows({x})
         /\ \A x \in Post, T \in {{"queued"}, {"running"}, Outcomes} :
              /\ StatusRows(x, T) # {} => StatusRows(x, T)' # {}
              /\ x # r \/ s \notin T => StatusRows(x, T)' = StatusRows(x, T)
         /\ \A T \in {{"queued"}, {"running"}, Outcomes} : s \in T => StatusRows(r, T)' # {}
<1>1. journal \in Seq(Row)
  BY DEF RunsInv, RunsTypeOK, Row
<1>2. \A T \in {{"queued"}, {"running"}, Outcomes} : T \in SUBSET Status
  BY DEF Status, Outcomes
<1>3. /\ \A R \in SUBSET Post :
            Rows(R)' = Rows(R) \cup (IF r \in R THEN {Len(journal) + 1} ELSE {})
      /\ \A x \in Post, T \in SUBSET Status :
            StatusRows(x, T)' = StatusRows(x, T) \cup
              (IF x = r /\ s \in T THEN {Len(journal) + 1} ELSE {})
  BY <1>1, AppendedRows
<1>4. \A x \in Post : {x} \in SUBSET Post
  OBVIOUS
<1>5. \A x \in Post : Rows({x})' = Rows({x}) \cup (IF x = r THEN {Len(journal) + 1} ELSE {})
  BY <1>3, <1>4
<1>6. \A x \in Post, T \in {{"queued"}, {"running"}, Outcomes} :
        StatusRows(x, T)' = StatusRows(x, T) \cup
          (IF x = r /\ s \in T THEN {Len(journal) + 1} ELSE {})
  BY <1>2, <1>3
<1> HIDE DEF Outcomes
<1>7. Rows({r})' # {} /\ \A x \in Post : x # r => Rows({x})' = Rows({x})
  BY <1>5
<1>8. \A x \in Post, T \in {{"queued"}, {"running"}, Outcomes} :
        /\ StatusRows(x, T) # {} => StatusRows(x, T)' # {}
        /\ x # r \/ s \notin T => StatusRows(x, T)' = StatusRows(x, T)
  BY <1>6
<1>9. \A T \in {{"queued"}, {"running"}, Outcomes} : s \in T => StatusRows(r, T)' # {}
  BY <1>6
<1> QED BY <1>7, <1>8, <1>9

LEMMA JournalTyped ==
  ASSUME RunsInv, NEW r \in Post, NEW s \in Status, Appended(r, s)
  PROVE  journal' \in Seq(Row)
<1>1. journal \in Seq(Row)
  BY DEF RunsInv, RunsTypeOK, Row
<1> QED BY <1>1, AppendedRow

LEMMA PostAppendsPreserves ==
  ASSUME RunsInv, NEW c \in Post, PostAppends(c) PROVE RunsInv'
<1> USE DEF RunsInv
<1>1. /\ Appended(c, "queued") /\ post[c] = "appending" /\ "queued" \in Status
      /\ UNCHANGED <<outcome, cancel, python, overlapped, deserted, crashes>>
      /\ post \in [Post -> Place] /\ post' = [post EXCEPT ![c] = "starting"]
      /\ \A x \in Post : x # c => post'[x] = post[x]
      /\ post'[c] = "starting"
  BY DEF PostAppends, RunsTypeOK, Status
<1>2. Rows({c}) = {} /\ InProgress(c) /\ journal \in Seq(Row)
  BY <1>1 DEF RowsOfPlace, InProgress, RunsTypeOK, Row
<1>3. \A T : StatusRows(c, T) = {}
  BY <1>2 DEF StatusRows
<1>4. RowsInOrder'
  BY <1>1, <1>2, AppendedInOrder DEF Outcomes
<1>5. LastExists' /\ KeyHeld' /\ OneInProgressPerKey'
  BY <1>1, <1>2, RowPreserves
<1>6. RunsTypeOK'
  BY <1>1, JournalTyped DEF RunsTypeOK, Row, Place
<1>7. RowsOfPlace'
  <2>1. "queued" \notin Outcomes /\ StatusRows(c, {"running"}) = {} /\ StatusRows(c, Outcomes) = {}
    BY <1>3 DEF Outcomes
  <2>2. /\ StatusRows(c, {"queued"})' # {}
        /\ StatusRows(c, {"running"})' = {} /\ StatusRows(c, Outcomes)' = {}
    BY <2>1, <1>1, RowsGrow
  <2>3. \A x \in Post : x # c =>
          /\ Rows({x})' = Rows({x})
          /\ \A T \in {{"queued"}, {"running"}, Outcomes} : StatusRows(x, T)' = StatusRows(x, T)
    BY <1>1, RowsGrow
  <2> QED BY <2>2, <2>3, <1>1 DEF RowsOfPlace
<1>8. CancelledKnown' /\ InPython'
  BY <1>1, RowsGrow DEF CancelledKnown, InPython, RunsTypeOK
<1> QED BY <1>4, <1>5, <1>6, <1>7, <1>8

LEMMA SendPreserves ==
  ASSUME RunsInv, NEW c \in Post, Send(c) PROVE RunsInv'
<1> USE DEF RunsInv
<1>1. /\ Appended(c, "running") /\ post[c] = "starting" /\ "running" \in Status
      /\ UNCHANGED <<outcome, cancel, overlapped, deserted, crashes>>
      /\ python' = python \cup {c}
      /\ post \in [Post -> Place] /\ post' = [post EXCEPT ![c] = "sent"]
      /\ \A x \in Post : x # c => post'[x] = post[x]
      /\ post'[c] = "sent"
  BY DEF Send, RunsTypeOK, Status
<1>2. /\ StatusRows(c, {"queued"}) # {} /\ StatusRows(c, {"running"}) = {}
      /\ StatusRows(c, Outcomes) = {}
      /\ InProgress(c) /\ journal \in Seq(Row)
  BY <1>1 DEF RowsOfPlace, InProgress, RunsTypeOK, Row
<1>3. RowsInOrder'
  BY <1>1, <1>2, AppendedInOrder DEF Outcomes
<1>4. LastExists' /\ KeyHeld' /\ OneInProgressPerKey'
  BY <1>1, <1>2, RowPreserves
<1>5. RunsTypeOK'
  BY <1>1, JournalTyped DEF RunsTypeOK, Row, Place
<1>6. RowsOfPlace'
  BY <1>1, <1>2, RowsGrow DEF RowsOfPlace, Outcomes
<1>7. CancelledKnown' /\ InPython'
  BY <1>1, RowsGrow DEF CancelledKnown, InPython, RunsTypeOK
<1> QED BY <1>3, <1>4, <1>5, <1>6, <1>7

LEMMA ReportPreserves ==
  ASSUME RunsInv, NEW c \in Post, Report(c) PROVE RunsInv'
<1> USE DEF RunsInv
<1>1. /\ Appended(c, outcome[c]) /\ post[c] = "reporting"
      /\ outcome[c] \in Outcomes /\ outcome[c] \in Status
      /\ UNCHANGED <<outcome, cancel, python, overlapped, deserted, crashes>>
      /\ post \in [Post -> Place] /\ post' = [post EXCEPT ![c] = "over"]
      /\ \A x \in Post : x # c => post'[x] = post[x]
      /\ post'[c] = "over"
  BY DEF Report, RunsTypeOK, Status, Outcomes
<1>2. /\ StatusRows(c, {"queued"}) # {} /\ StatusRows(c, {"running"}) # {}
      /\ StatusRows(c, Outcomes) = {}
      /\ InProgress(c) /\ journal \in Seq(Row)
  BY <1>1 DEF RowsOfPlace, InProgress, RunsTypeOK, Row
<1>3. RowsInOrder'
  BY <1>1, <1>2, AppendedInOrder DEF Outcomes
<1>4. LastExists' /\ KeyHeld' /\ OneInProgressPerKey'
  BY <1>1, <1>2, RowPreserves
<1>5. RunsTypeOK'
  BY <1>1, JournalTyped DEF RunsTypeOK, Row, Place
<1>6. RowsOfPlace'
  BY <1>1, RowsGrow DEF RowsOfPlace
<1>7. CancelledKnown' /\ InPython'
  BY <1>1, RowsGrow DEF CancelledKnown, InPython, RunsTypeOK
<1> QED BY <1>3, <1>4, <1>5, <1>6, <1>7

(* Not a row of the run itself: it leaves the places alone, and is no       *)
(* "failed" that would let a request of the key in.                         *)
LEMMA CancelAppendsPreserves ==
  ASSUME RunsInv, NEW d \in Cancel, CancelAppends(d) PROVE RunsInv'
<1> USE DEF RunsInv
<1> DEFINE r == cancel[d].run
<1>1. /\ r \in Post /\ StatusRows(r, {"queued"}) # {}
      /\ Appended(r, "cancelled") /\ "cancelled" \in Status
      /\ UNCHANGED <<post, outcome, python, overlapped, deserted, crashes>>
      /\ journal \in Seq(Row)
  BY DEF CancelAppends, CancelledKnown, Status, RunsTypeOK, Row
<1>2. cancel' \in [Cancel -> [pc : {"idle", "appending", "over"}, run : Post \cup {None}]]
  BY DEF CancelAppends, RunsTypeOK, Done
<1>3. \A x \in Cancel : cancel'[x].pc = "appending" => cancel'[x] = cancel[x]
  BY DEF CancelAppends, RunsTypeOK, Done
<1> HIDE DEF r
<1>4. RowsInOrder'
  BY <1>1, AppendedInOrder DEF Outcomes
<1>5. /\ LastExists'
      /\ \A R \in SUBSET Post : r \in R => Last(R)'.status = "cancelled"
      /\ \A R \in SUBSET Post : r \notin R /\ Rows(R) # {} => Last(R)' = Last(R)
  BY <1>1, AppendedLast
<1>6. \A R \in SUBSET Post : Rows(R)' = Rows(R) \cup (IF r \in R THEN {Len(journal) + 1} ELSE {})
  BY <1>1, AppendedRows
<1>7. KeyHeld'
  <2> SUFFICES ASSUME NEW x \in Post, post[x] \in {"starting", "sent", "reporting"},
                      KeyOf[x] \notin overlapped
               PROVE  Rows(Sharing(x))' # {} /\ Last(Sharing(x))'.status # "failed"
    BY <1>1 DEF KeyHeld, Sharing
  <2>1. Sharing(x) \in SUBSET Post
    BY SharedKey
  <2>2. Rows(Sharing(x)) # {} /\ Last(Sharing(x)).status # "failed"
    BY DEF KeyHeld
  <2> QED BY <2>1, <2>2, <1>5, <1>6
<1>8. OneInProgressPerKey' /\ InPython'
  BY <1>1 DEF OneInProgressPerKey, InProgress, InPython
<1>9. RunsTypeOK'
  BY <1>1, <1>2, JournalTyped DEF RunsTypeOK, Row
<1>10. RowsOfPlace'
  <2>1. Rows({r}) # {} /\ "cancelled" \notin Outcomes
    BY <1>1 DEF StatusRows, Outcomes
  <2>2. \A x \in Post : Rows({x}) = {} => Rows({x})' = {}
    BY <2>1, <1>1, RowsGrow
  <2>3. \A x \in Post, T \in {{"queued"}, {"running"}, Outcomes} : StatusRows(x, T)' = StatusRows(x, T)
    BY <2>1, <1>1, RowsGrow
  <2> QED BY <2>2, <2>3, <1>1 DEF RowsOfPlace
<1>11. CancelledKnown'
  BY <1>1, <1>3, RowsGrow DEF CancelledKnown
<1> QED BY <1>4, <1>5, <1>7, <1>8, <1>9, <1>10, <1>11

(* Steps that leave the file alone and no execution that was over under way.*)
LEMMA UnwrittenPreserves ==
  ASSUME RunsInv, RunsTypeOK', CancelledKnown', InPython', UNCHANGED <<journal, overlapped>>,
         \A x \in Post : \/ post'[x] = post[x] \/ post'[x] = "over"
                         \/ post[x] = "sent" /\ post'[x] = "reporting"
  PROVE  RunsInv'
<1> USE DEF RunsInv
<1>1. /\ LastExists' /\ RowsInOrder'
      /\ \A R : Rows(R)' = Rows(R) /\ Last(R)' = Last(R)
      /\ \A x, T : StatusRows(x, T)' = StatusRows(x, T)
  BY Unwritten
<1>2. RowsOfPlace'
  BY <1>1 DEF RowsOfPlace
<1>3. KeyHeld'
  BY <1>1 DEF KeyHeld, Sharing
<1>4. OneInProgressPerKey'
  BY DEF OneInProgressPerKey, InProgress
<1> QED BY <1>1, <1>2, <1>3, <1>4

LEMMA StatusRowsKept ==
  ASSUME journal' = journal PROVE \A x, T : StatusRows(x, T)' = StatusRows(x, T)
BY DEF StatusRows, Rows

LEMMA PythonEndsPreserves ==
  ASSUME RunsInv, NEW c \in Post, PythonEnds(c) PROVE RunsInv'
<1> USE DEF RunsInv
<1>1. /\ UNCHANGED <<journal, cancel, overlapped, deserted, crashes>>
      /\ python' = python \ {c} /\ post \in [Post -> Place]
  BY DEF PythonEnds, RunsTypeOK
<1>2. \/ post[c] = "sent" /\ post' = [post EXCEPT ![c] = "reporting"]
      \/ post' = post
  BY DEF PythonEnds, Reports
<1>3. outcome' \in [Post -> {"success", "failed"}]
  BY DEF PythonEnds, Reports, RunsTypeOK
<1>4. RunsTypeOK'
  BY <1>1, <1>2, <1>3 DEF RunsTypeOK, Place
<1>5. CancelledKnown' /\ InPython'
  BY <1>1, <1>2, StatusRowsKept DEF CancelledKnown, InPython, RunsTypeOK
<1>6. \A x \in Post : post'[x] = post[x] \/ (post[x] = "sent" /\ post'[x] = "reporting")
  BY <1>1, <1>2
<1> QED BY <1>1, <1>4, <1>5, <1>6, UnwrittenPreserves

LEMMA TimesOutPreserves ==
  ASSUME RunsInv, NEW c \in Post, TimesOut(c) PROVE RunsInv'
<1> USE DEF RunsInv
<1>1. /\ UNCHANGED <<journal, cancel, python, overlapped, crashes>>
      /\ post \in [Post -> Place] /\ post[c] = "sent"
      /\ post' = [post EXCEPT ![c] = "reporting"]
      /\ deserted' = deserted \cup {KeyOf[c]}
  BY DEF TimesOut, Reports, RunsTypeOK
<1>2. RunsTypeOK'
  BY <1>1 DEF TimesOut, Reports, RunsTypeOK, Place, Key
<1>3. CancelledKnown' /\ InPython'
  BY <1>1, StatusRowsKept DEF CancelledKnown, InPython, RunsTypeOK
<1>4. \A x \in Post : post'[x] = post[x] \/ (post[x] = "sent" /\ post'[x] = "reporting")
  BY <1>1
<1> QED BY <1>1, <1>2, <1>3, <1>4, UnwrittenPreserves

LEMMA CancelReadsPreserves ==
  ASSUME RunsInv, NEW d \in Cancel, NEW r \in Post, CancelReads(d, r) PROVE RunsInv'
<1> USE DEF RunsInv
<1>1. UNCHANGED <<journal, post, outcome, python, overlapped, deserted, crashes>>
  BY DEF CancelReads
<1>2. RunsTypeOK'
  <2>1. [pc |-> "appending", run |-> r]
          \in [pc : {"idle", "appending", "over"}, run : Post \cup {None}]
    OBVIOUS
  <2>2. cancel' = [cancel EXCEPT ![d] = [pc |-> "appending", run |-> r]]
    BY DEF CancelReads
  <2>3. cancel' \in [Cancel -> [pc : {"idle", "appending", "over"}, run : Post \cup {None}]]
    BY <2>1, <2>2 DEF RunsTypeOK
  <2> QED BY <1>1, <2>3 DEF RunsTypeOK
<1>3. StatusRows(r, {"queued"}) # {}
  BY DEF CancelReads, RowsInOrder
<1>4. CancelledKnown'
  BY <1>1, <1>3, StatusRowsKept DEF CancelReads, CancelledKnown, RunsTypeOK
<1>5. InPython'
  BY <1>1 DEF InPython
<1> QED BY <1>1, <1>2, <1>4, <1>5, UnwrittenPreserves

LEMMA CrashPreserves == ASSUME RunsInv, Crash PROVE RunsInv'
<1> USE DEF RunsInv
<1>1. /\ UNCHANGED <<journal, outcome, python, overlapped>>
      /\ post' = [c \in Post |-> IF post[c] = "idle" THEN "idle" ELSE "over"]
      /\ deserted' = deserted \cup {KeyOf[c] : c \in python}
  BY DEF Crash
<1>2. /\ cancel' \in [Cancel -> [pc : {"idle", "appending", "over"}, run : Post \cup {None}]]
      /\ \A d \in Cancel : cancel'[d].pc # "appending"
  <2> DEFINE C == [pc : {"idle", "appending", "over"}, run : Post \cup {None}]
  <2>1. Done \in C /\ Done.pc = "over"
    BY DEF Done
  <2>2. cancel \in [Cancel -> C]
    BY DEF RunsTypeOK
  <2>3. cancel' = [d \in Cancel |-> IF cancel[d].pc = "appending" THEN Done ELSE cancel[d]]
    BY DEF Crash
  <2> HIDE DEF C
  <2>4. cancel' \in [Cancel -> C] /\ \A d \in Cancel : cancel'[d].pc # "appending"
    BY <2>1, <2>2, <2>3
  <2> QED BY <2>4 DEF C
<1>3. crashes' \in 0..MaxCrashes
  BY RunsAssumption DEF Crash, RunsTypeOK
<1>4. RunsTypeOK'
  BY <1>1, <1>2, <1>3 DEF RunsTypeOK, Place, Key
<1>5. CancelledKnown' /\ InPython'
  BY <1>1, <1>2 DEF CancelledKnown, InPython, RunsTypeOK
<1> QED BY <1>1, <1>4, <1>5, UnwrittenPreserves

LEMMA StepPreserves == RunsInv /\ [Next]_vars => RunsInv'
<1> SUFFICES ASSUME RunsInv, [Next]_vars PROVE RunsInv'
  OBVIOUS
<1>1. ASSUME NEW c \in Post, PostReads(c) \/ Execute(c) \/ PythonEnds(c) PROVE RunsInv'
  BY <1>1, PostReadsPreserves, PostAppendsPreserves, SendPreserves, ReportPreserves,
     TimesOutPreserves, PythonEndsPreserves DEF Execute
<1>2. ASSUME NEW d \in Cancel, CancelAppends(d) \/ \E r \in Post : CancelReads(d, r) PROVE RunsInv'
  BY <1>2, CancelAppendsPreserves, CancelReadsPreserves
<1>3. CASE Crash
  BY <1>3, CrashPreserves
<1>4. CASE UNCHANGED vars
  <2>1. RunsTypeOK' /\ InPython'
    BY <1>4 DEF vars, RunsInv, RunsTypeOK, InPython
  <2>2. CancelledKnown'
    BY <1>4, StatusRowsKept DEF vars, RunsInv, CancelledKnown
  <2> QED BY <1>4, <2>1, <2>2, UnwrittenPreserves DEF vars
<1> QED BY <1>1, <1>2, <1>3, <1>4 DEF Next

THEOREM RunsInvariant == Spec => []RunsInv
BY InitEstablishes, StepPreserves, PTL DEF Spec

(* Every reachable state of WorkflowRuns is well typed.                     *)
THEOREM RunsTypeCorrect == Spec => []RunsTypeOK
<1>1. RunsInv => RunsTypeOK
  BY DEF RunsInv
<1> QED BY <1>1, RunsInvariant, PTL

(* Two executions of one key are under way together only after two requests *)
(* read the file before either had appended its row.                        *)
THEOREM KeyIsExclusive == Spec => []OneInProgressPerKey
<1>1. RunsInv => OneInProgressPerKey
  BY DEF RunsInv
<1> QED BY <1>1, RunsInvariant, PTL

(* The Python runtime executes two runs of one key only then, or after the  *)
(* API gave up or died while it executed the first.                         *)
THEOREM PythonIsExclusive == Spec => []OneInPythonPerKey
<1>1. RunsInv => OneInPythonPerKey
  BY DEF RunsInv, RunsTypeOK, InPython, OneInProgressPerKey, OneInPythonPerKey, InProgress
<1> QED BY <1>1, RunsInvariant, PTL

(* The rows of every run read in order, whoever appended them.              *)
THEOREM RowsAreInOrder == Spec => []RowsInOrder
<1>1. RunsInv => RowsInOrder
  BY DEF RunsInv
<1> QED BY <1>1, RunsInvariant, PTL

-----------------------------------------------------------------------------
(***************************************************************************)
(* Under FairSpec a run that is recorded is settled.  An execution goes    *)
(* through its places in order, and each of the last three is left.        *)
(***************************************************************************)
Settled(c) == StatusRows(c, Outcomes) # {} \/ crashes > 0

(* An execution is over only when the run has its outcome.                  *)
OverIsSettled == \A c \in Post : post[c] = "over" => Settled(c)

(* An outcome stays in the file.                                            *)
LEMMA SettledStays ==
  ASSUME RunsInv, [Next]_vars, NEW c \in Post, Settled(c) PROVE Settled(c)'
<1>1. ASSUME NEW r \in Post, NEW s \in Status, Appended(r, s), crashes' = crashes
      PROVE  Settled(c)'
  <2>1. StatusRows(c, Outcomes) \subseteq StatusRows(c, Outcomes)'
    BY <1>1, AppendedRows DEF RunsInv, RunsTypeOK, Row, Outcomes, Status
  <2>2. QED
    BY <1>1, <2>1 DEF Settled
<1>2. ASSUME journal' = journal, crashes' = crashes PROVE Settled(c)'
  BY <1>2, StatusRowsKept DEF Settled
<1>3. CASE Crash
  BY <1>3 DEF Crash, Settled, RunsInv, RunsTypeOK
<1>4. ASSUME NEW d \in Cancel, CancelAppends(d) PROVE Settled(c)'
  BY <1>1, <1>4 DEF CancelAppends, RunsInv, CancelledKnown, Status
<1>5. ASSUME NEW x \in Post, Execute(x) PROVE Settled(c)'
  BY <1>1, <1>2, <1>5
     DEF Execute, PostAppends, Send, Report, TimesOut, RunsInv, RunsTypeOK, Status
<1>6. QED
  BY <1>2, <1>3, <1>4, <1>5 DEF Next, PostReads, PythonEnds, CancelReads, vars

(* The places an execution goes through, unless the process dies.           *)
LEMMA PlacesInOrder ==
  ASSUME RunsInv, [Next]_vars, NEW c \in Post
  PROVE  \/ crashes' > 0
         \/ post'[c] = post[c]
         \/ post[c] = "idle" /\ post'[c] \in {"appending", "deduped"}
         \/ post[c] = "appending" /\ post'[c] = "starting"
         \/ post[c] = "starting" /\ post'[c] = "sent"
         \/ post[c] = "sent" /\ post'[c] = "reporting"
         \/ post[c] = "reporting" /\ post'[c] = "over" /\ Report(c)
<1>1. post \in [Post -> Place] /\ crashes \in Nat
  BY DEF RunsInv, RunsTypeOK
<1>2. ASSUME NEW x \in Post, PostReads(x) \/ Execute(x) \/ PythonEnds(x)
      PROVE  \/ post'[c] = post[c]
             \/ post[c] = "idle" /\ post'[c] \in {"appending", "deduped"}
             \/ post[c] = "appending" /\ post'[c] = "starting"
             \/ post[c] = "starting" /\ post'[c] = "sent"
             \/ post[c] = "sent" /\ post'[c] = "reporting"
             \/ post[c] = "reporting" /\ post'[c] = "over" /\ Report(c)
  <2>1. CASE x = c
    BY <1>1, <1>2, <2>1
       DEF PostReads, Execute, PythonEnds, PostAppends, Send, Report, TimesOut, Reports
  <2>2. CASE x # c
    BY <1>1, <1>2, <2>2
       DEF PostReads, Execute, PythonEnds, PostAppends, Send, Report, TimesOut, Reports
  <2>3. QED
    BY <2>1, <2>2
<1>3. CASE Crash
  BY <1>1, <1>3 DEF Crash
<1>4. QED
  BY <1>2, <1>3 DEF Next, CancelReads, CancelAppends, vars

(* The last append of an execution is its outcome.                          *)
LEMMA ReportSettles ==
  ASSUME RunsInv, NEW c \in Post, Report(c) PROVE Settled(c)'
<1>1. journal \in Seq(Row) /\ outcome[c] \in Outcomes /\ Appended(c, outcome[c])
  BY DEF RunsInv, RunsTypeOK, Row, Outcomes, Report
<1>2. StatusRows(c, Outcomes)' # {}
  BY <1>1, AppendedRows DEF Outcomes, Status
<1>3. QED
  BY <1>2 DEF Settled

LEMMA OverStep == RunsInv /\ OverIsSettled /\ [Next]_vars => OverIsSettled'
<1> SUFFICES ASSUME RunsInv, OverIsSettled, [Next]_vars, NEW c \in Post, post'[c] = "over"
             PROVE  Settled(c)'
  BY DEF OverIsSettled
<1>1. \/ crashes' > 0 \/ post[c] = "over" \/ Report(c)
  BY PlacesInOrder
<1>2. QED
  BY <1>1, SettledStays, ReportSettles DEF OverIsSettled, Settled

(* What executeRun does of its own at each place.                           *)
LEMMA ExecuteMoves ==
  ASSUME RunsInv, NEW c \in Post, Execute(c)
  PROVE  /\ post[c] = "starting" => post'[c] = "sent"
         /\ post[c] = "sent" => post'[c] = "reporting"
         /\ post[c] = "reporting" => Settled(c)'
<1>1. post \in [Post -> Place]
  BY DEF RunsInv, RunsTypeOK
<1>2. QED
  BY <1>1, ReportSettles DEF Execute, PostAppends, Send, Report, TimesOut, Reports

(* One run: from each place it moves on to the next, and the last of them   *)
(* is left with the outcome recorded.                                       *)
LEMMA RunSettles ==
  ASSUME NEW c \in Post
  PROVE  FairSpec /\ []Executable => (Rows({c}) # {} ~> Settled(c))
<1> DEFINE Over == RunsInv /\ OverIsSettled
           Start == post[c] = "starting"
           Sent == post[c] = "sent"
           Reporting == post[c] = "reporting"
<1>1. Spec => []Over
  <2>1. Init => OverIsSettled
    BY DEF Init, OverIsSettled
  <2>2. QED
    BY <2>1, OverStep, RunsInvariant, PTL DEF Spec
<1>2. FairSpec => Spec /\ Served(c)
  <2>1. (\A x \in Post : Served(x)) => Served(c)
    OBVIOUS
  <2>2. QED
    BY <2>1 DEF FairSpec
<1>3. Executable /\ (Start \/ Sent \/ Reporting) => ENABLED <<Execute(c)>>_vars
  BY DEF Executable, InProgress
<1>4. Over /\ Rows({c}) # {} => Start \/ Sent \/ Reporting \/ Settled(c)
  BY DEF RunsInv, RunsTypeOK, RowsOfPlace, OverIsSettled, Place
<1>5. Over /\ [Next]_vars =>
        /\ Start => Start' \/ Sent' \/ Settled(c)'
        /\ Sent => Sent' \/ Reporting' \/ Settled(c)'
        /\ Reporting => Reporting' \/ Settled(c)'
  BY PlacesInOrder, ReportSettles DEF Settled
<1>6. Over /\ <<Execute(c)>>_vars =>
        (Start => Sent') /\ (Sent => Reporting') /\ (Reporting => Settled(c)')
  BY ExecuteMoves
<1> HIDE DEF Over, Start, Sent, Reporting
<1>7. FairSpec /\ []Executable => (Reporting ~> Settled(c))
  BY <1>1, <1>2, <1>3, <1>5, <1>6, PTL DEF Served, Spec
<1>8. FairSpec /\ []Executable => (Sent ~> Reporting \/ Settled(c))
  BY <1>1, <1>2, <1>3, <1>5, <1>6, PTL DEF Served, Spec
<1>9. FairSpec /\ []Executable => (Start ~> Sent \/ Settled(c))
  BY <1>1, <1>2, <1>3, <1>5, <1>6, PTL DEF Served, Spec
<1>10. QED
  BY <1>1, <1>2, <1>4, <1>7, <1>8, <1>9, PTL DEF FairSpec

(* RunsSettle: a run that has a row in runs.jsonl gets its outcome, whether *)
(* Python answers, fails or hangs, as long as the appends end and the timer *)
(* of the request fires; Executable says that one of them always can.       *)
THEOREM RunsAreSettled == FairSpec /\ []Executable => RunsSettle
<1>1. ASSUME NEW c \in Post PROVE FairSpec /\ []Executable => RunEnds(c)
  BY RunSettles, PTL DEF Settled, Outcomes, RunEnds
<1>2. QED
  BY <1>1 DEF RunsSettle

-----------------------------------------------------------------------------
(***************************************************************************)
(* Theorems about CreativeWorkflow for every set of runs, keys and modes.  *)
(* What is required of the Map is required of the snapshot too: a restart  *)
(* turns the one into the other.                                           *)
(***************************************************************************)

(* What a table of runs may hold, given the histories.                      *)
EarnedIn(t, e) ==
  \A r \in Run : Exists(t, r) =>
    /\ t[r].complete \subseteq e[r]
    /\ t[r].status = "complete" => 1..LastOf[t[r].mode] \subseteq e[r]
OneLiveIn(t, o) ==
  \A k \in RunKey : \A a, b \in Live(t, k) : a = b \/ {a, b} \cap o # {}
(* The stages a run has earned have no gap before them.                     *)
NoGap(e) == \A r \in Run : \A s \in e[r] : 1..s \subseteq e[r]
KeptIn(t) == \A r \in saved : Exists(t, r) \/ misread

CreativeInv ==
  /\ CreativeTypeOK /\ NoGap(earned)
  /\ EarnedIn(runs, earned) /\ EarnedIn(snapshot, earned)
  /\ OneLiveIn(runs, reopened) /\ OneLiveIn(snapshot, reopened)
  /\ KeptIn(runs) /\ KeptIn(snapshot)

(* Every stage lies in the natural numbers, from 1.                         *)
LEMMA StageNat == Stage \subseteq Nat \ {0}
BY CreativeAssumption DEF Stage

LEMMA CreativeInitEstablishes == CreativeInit => CreativeInv
<1> SUFFICES ASSUME CreativeInit PROVE CreativeInv
  OBVIOUS
<1> USE DEF CreativeInit
<1>1. CreativeTypeOK
  <2>1. Empty \in Table /\ [r \in Run |-> {}] \in [Run -> SUBSET Stage]
    BY DEF Empty, Table
  <2>2. restarts \in 0..MaxRestarts /\ faults \in 0..MaxFaults
    BY CreativeAssumption
  <2>3. misread \in BOOLEAN /\ reopened \subseteq Run /\ saved \subseteq Run
    OBVIOUS
  <2> QED BY <2>1, <2>2, <2>3 DEF CreativeTypeOK
<1>2. \A r \in Run : ~Exists(runs, r) /\ ~Exists(snapshot, r)
  BY DEF Exists, Empty
<1>3. EarnedIn(runs, earned) /\ EarnedIn(snapshot, earned) /\ NoGap(earned)
  BY <1>2 DEF EarnedIn, NoGap
<1>4. OneLiveIn(runs, reopened) /\ OneLiveIn(snapshot, reopened)
  BY <1>2 DEF OneLiveIn, Live
<1>5. KeptIn(runs) /\ KeptIn(snapshot)
  BY DEF KeptIn
<1> QED BY <1>1, <1>3, <1>4, <1>5 DEF CreativeInv

(* A step that changes the Map and writes it, or fails to: it is enough     *)
(* that the new Map is as it should be and that the histories only grow.    *)
LEMMA PersistPreserves ==
  ASSUME CreativeInv, Persist,
         runs' \in Table, EarnedIn(runs', earned'), OneLiveIn(runs', reopened'),
         \A r \in Run : Exists(runs, r) => Exists(runs', r),
         earned' \in [Run -> SUBSET Stage], NoGap(earned'),
         \A r \in Run : earned[r] \subseteq earned'[r],
         reopened \subseteq reopened', reopened' \subseteq Run,
         UNCHANGED <<misread, restarts>>
  PROVE  CreativeInv'
<1> USE DEF CreativeInv
<1>1. snapshot' = runs' \/ snapshot' = snapshot
  BY DEF Persist
<1>2. CreativeTypeOK'
  BY CreativeAssumption DEF CreativeTypeOK, Persist
<1>3. EarnedIn(snapshot, earned') /\ OneLiveIn(snapshot, reopened')
  <2>1. EarnedIn(snapshot, earned')
    BY DEF EarnedIn
  <2>2. OneLiveIn(snapshot, reopened')
    BY DEF OneLiveIn
  <2> QED BY <2>1, <2>2
<1>4. EarnedIn(snapshot', earned') /\ OneLiveIn(snapshot', reopened')
  BY <1>1, <1>3
<1>5. KeptIn(runs)' /\ KeptIn(snapshot)'
  <2>1. CASE UNCHANGED <<snapshot, saved>>
    BY <2>1 DEF KeptIn, CreativeTypeOK, Exists
  <2>2. CASE snapshot' = runs' /\ saved' = saved \cup {r \in Run : Exists(runs', r)}
    BY <2>2 DEF KeptIn, CreativeTypeOK, Exists
  <2> QED BY <2>1, <2>2 DEF Persist
<1>6. EarnedIn(runs, earned)' /\ EarnedIn(snapshot, earned)' /\ NoGap(earned)'
  BY <1>4 DEF EarnedIn, NoGap, Exists
<1>7. OneLiveIn(runs, reopened)' /\ OneLiveIn(snapshot, reopened)'
  BY <1>4 DEF OneLiveIn, Live, Exists, Ended
<1> QED BY <1>2, <1>5, <1>6, <1>7

LEMMA CreatePreserves ==
  ASSUME CreativeInv, NEW r \in Run, NEW k \in RunKey, NEW m \in Mode, Create(r, k, m)
  PROVE  CreativeInv'
<1> DEFINE new == [mode |-> m, key |-> k, status |-> "queued", complete |-> {}]
<1> USE DEF CreativeInv
<1>1. new \in Record /\ new # NoRun
  BY NoRunAssumption DEF Record, RunStatus
<1>2. runs \in [Run -> Record \cup {NoRun}] /\ runs' = [runs EXCEPT ![r] = new]
  BY DEF Create, CreativeTypeOK, Table
<1>3. /\ runs' \in Table /\ runs'[r] = new
      /\ \A x \in Run : x # r => runs'[x] = runs[x]
  BY <1>1, <1>2 DEF Table
<1>4. EarnedIn(runs', earned')
  BY <1>3 DEF Create, EarnedIn, Exists
<1>5. OneLiveIn(runs', reopened')
  <2> SUFFICES ASSUME NEW j \in RunKey, NEW a \in Live(runs', j), NEW b \in Live(runs', j), a # b
               PROVE  {a, b} \cap reopened' # {}
    BY DEF OneLiveIn
  <2>1. \A x \in Live(runs', j) : x # r => x \in Live(runs, j)
    BY <1>3 DEF Live, Exists, Ended
  <2>2. r \in Live(runs', j) => j = k
    BY <1>3 DEF Live
  <2>3. Live(runs, k) = {} /\ reopened' = reopened
    BY DEF Create
  <2> QED BY <2>1, <2>2, <2>3 DEF OneLiveIn
<1>6. \A x \in Run : Exists(runs, x) => Exists(runs', x)
  BY <1>1, <1>3 DEF Exists
<1> QED BY <1>3, <1>4, <1>5, <1>6, PersistPreserves DEF Create, CreativeTypeOK

(* What a checkpoint may make of a run: no more stages complete than were   *)
(* earned without a gap, and "complete" only with all the mode requires.    *)
LEMMA BecomesPreserves ==
  ASSUME CreativeInv, NEW r \in Run, NEW status \in RunStatus, NEW done \in SUBSET Stage,
         Exists(runs, r), Becomes(r, status, done),
         \A s \in done : 1..s \subseteq earned[r] \cup done,
         status = "complete" => 1..LastOf[runs[r].mode] \subseteq earned[r] \cup done
  PROVE  CreativeInv'
<1> USE DEF CreativeInv
<1>1. runs \in [Run -> Record \cup {NoRun}] /\ runs[r] \in Record
  BY DEF CreativeTypeOK, Table, Exists
<1> DEFINE new == [runs[r] EXCEPT !.status = status, !.complete = done]
<1>2. /\ new \in Record /\ new # NoRun
      /\ new.mode = runs[r].mode /\ new.key = runs[r].key
      /\ new.status = status /\ new.complete = done
  BY <1>1, NoRunAssumption DEF Record
<1>3. runs' = [runs EXCEPT ![r] = new]
  BY <1>1 DEF Becomes
<1>4. /\ runs' \in Table /\ runs'[r] = new
      /\ \A x \in Run : x # r => runs'[x] = runs[x]
  BY <1>1, <1>2, <1>3 DEF Table
<1>5. /\ earned' \in [Run -> SUBSET Stage]
      /\ earned'[r] = earned[r] \cup done
      /\ \A x \in Run : x # r => earned'[x] = earned[x]
  BY DEF Becomes, CreativeTypeOK
<1>6. \A x \in Run : earned[x] \subseteq earned'[x]
  BY <1>5
<1>7. NoGap(earned')
  BY <1>5 DEF NoGap
<1>8. EarnedIn(runs', earned')
  <2> SUFFICES ASSUME NEW x \in Run, Exists(runs', x)
               PROVE  /\ runs'[x].complete \subseteq earned'[x]
                      /\ runs'[x].status = "complete" => 1..LastOf[runs'[x].mode] \subseteq earned'[x]
    BY DEF EarnedIn
  <2>1. CASE x = r
    BY <2>1, <1>2, <1>4, <1>5
  <2>2. CASE x # r
    BY <2>2, <1>4, <1>5 DEF EarnedIn, Exists
  <2> QED BY <2>1, <2>2
<1>9. reopened \subseteq reopened' /\ reopened' \subseteq Run
  BY DEF Becomes, CreativeTypeOK
<1>10. OneLiveIn(runs', reopened')
  <2> SUFFICES ASSUME NEW j \in RunKey, NEW a \in Live(runs', j), NEW b \in Live(runs', j), a # b
               PROVE  {a, b} \cap reopened' # {}
    BY DEF OneLiveIn
  <2>1. \A x \in Live(runs', j) : x \in Live(runs, j) \/ x \in reopened'
    <3> SUFFICES ASSUME NEW x \in Live(runs', j) PROVE x \in Live(runs, j) \/ x \in reopened'
      OBVIOUS
    <3>1. CASE x = r
      <4>1. runs[r].key = j /\ status \notin {"complete", "failed"}
        BY <3>1, <1>2, <1>4 DEF Live, Ended
      <4>2. CASE Ended(runs, r)
        BY <4>1, <4>2, <3>1 DEF Becomes
      <4>3. CASE ~Ended(runs, r)
        BY <4>1, <4>3, <3>1 DEF Live
      <4> QED BY <4>2, <4>3
    <3>2. CASE x # r
      BY <3>2, <1>4 DEF Live, Exists, Ended
    <3> QED BY <3>1, <3>2
  <2> QED BY <2>1, <1>9 DEF OneLiveIn
<1>11. \A x \in Run : Exists(runs, x) => Exists(runs', x)
  BY <1>2, <1>4 DEF Exists
<1> QED BY <1>4, <1>5, <1>6, <1>7, <1>8, <1>9, <1>10, <1>11, PersistPreserves DEF Becomes

LEMMA CompletePreserves ==
  ASSUME CreativeInv, NEW r \in Run, NEW s \in Stage, Complete(r, s) PROVE CreativeInv'
<1> USE DEF CreativeInv
<1>1. Exists(runs, r) /\ runs[r] \in Record /\ runs[r].complete \in SUBSET Stage
  BY DEF Complete, CreativeTypeOK, Table, Exists, Record
<1>2. /\ runs[r].complete \subseteq earned[r] /\ s \in Nat \ {0}
      /\ \A x \in earned[r] : 1..x \subseteq earned[r]
  BY <1>1, StageNat DEF EarnedIn, NoGap
<1>3. CASE Prerequisite(r, s)
  <2> DEFINE done == runs[r].complete \cup {s}
             status == IF s = LastOf[runs[r].mode] THEN "complete" ELSE "running"
  <2>1. 1..s \subseteq earned[r] \cup done
    <3>1. CASE s = 1
      BY <3>1
    <3>2. CASE s - 1 \in runs[r].complete
      <4>1. 1..(s - 1) \subseteq earned[r]
        BY <3>2, <1>2
      <4>2. 1..s = 1..(s - 1) \cup {s}
        BY <1>2
      <4> QED BY <4>1, <4>2
    <3> QED BY <1>3, <3>1, <3>2 DEF Prerequisite
  <2>2. \A x \in done : 1..x \subseteq earned[r] \cup done
    BY <2>1, <1>2
  <2>3. status = "complete" => 1..LastOf[runs[r].mode] \subseteq earned[r] \cup done
    BY <2>1
  <2>4. Becomes(r, status, done) /\ status \in RunStatus /\ done \in SUBSET Stage
    BY <1>1, <1>3 DEF Complete, RunStatus
  <2> HIDE DEF done, status
  <2> QED BY <2>2, <2>3, <2>4, <1>1, BecomesPreserves
<1>4. CASE ~Prerequisite(r, s)
  <2> DEFINE done == runs[r].complete \ {s}
  <2>1. Becomes(r, "blocked", done) /\ "blocked" \in RunStatus /\ done \in SUBSET Stage
    BY <1>1, <1>4 DEF Complete, RunStatus
  <2>2. \A x \in done : 1..x \subseteq earned[r] \cup done
    BY <1>2
  <2> HIDE DEF done
  <2> QED BY <2>1, <2>2, <1>1, BecomesPreserves
<1> QED BY <1>3, <1>4

LEMMA CheckpointPreserves ==
  ASSUME CreativeInv, NEW r \in Run, NEW s \in Stage,
         NEW status \in {"running", "failed", "blocked"}, Checkpoint(r, s, status)
  PROVE  CreativeInv'
<1> USE DEF CreativeInv
<1> DEFINE done == runs[r].complete \ {s}
<1>1. Exists(runs, r) /\ runs[r] \in Record /\ done \in SUBSET Stage
  BY DEF Checkpoint, CreativeTypeOK, Table, Exists, Record
<1>2. \A x \in done : 1..x \subseteq earned[r] \cup done
  BY <1>1 DEF EarnedIn, NoGap
<1>3. Becomes(r, status, done) /\ status \in RunStatus /\ status # "complete"
  BY DEF Checkpoint, RunStatus
<1> HIDE DEF done
<1> QED BY <1>1, <1>2, <1>3, BecomesPreserves

LEMMA RestartPreserves == CreativeInv /\ Restart => CreativeInv'
<1> SUFFICES ASSUME CreativeInv, Restart PROVE CreativeInv'
  OBVIOUS
<1> USE DEF CreativeInv, Restart
<1>1. Empty \in Table /\ \A r \in Run : ~Exists(Empty, r)
  BY DEF Empty, Table, Exists
<1>2. EarnedIn(Empty, earned) /\ OneLiveIn(Empty, reopened)
  BY <1>1 DEF EarnedIn, OneLiveIn, Live
<1>3. CreativeTypeOK'
  <2>1. runs' \in Table /\ snapshot' \in Table
    BY <1>1 DEF CreativeTypeOK
  <2>2. restarts' \in 0..MaxRestarts /\ faults' \in 0..MaxFaults
    BY CreativeAssumption DEF CreativeTypeOK
  <2>3. misread' \in BOOLEAN /\ reopened' \subseteq Run /\ saved' \subseteq Run
    BY DEF CreativeTypeOK
  <2>4. earned' \in [Run -> SUBSET Stage]
    BY DEF CreativeTypeOK
  <2> QED BY <2>1, <2>2, <2>3, <2>4 DEF CreativeTypeOK
<1>4. EarnedIn(runs, earned)' /\ EarnedIn(snapshot, earned)' /\ NoGap(earned)'
  BY <1>2 DEF EarnedIn, NoGap, Exists
<1>5. OneLiveIn(runs, reopened)' /\ OneLiveIn(snapshot, reopened)'
  BY <1>2 DEF OneLiveIn, Live, Exists, Ended
<1>6. KeptIn(runs)' /\ KeptIn(snapshot)'
  BY DEF KeptIn, Exists
<1> QED BY <1>3, <1>4, <1>5, <1>6

LEMMA CreativeStepPreserves == CreativeInv /\ [CreativeNext]_creativeVars => CreativeInv'
<1> SUFFICES ASSUME CreativeInv, [CreativeNext]_creativeVars PROVE CreativeInv'
  OBVIOUS
<1>1. CASE \E r \in Run, k \in RunKey, m \in Mode : Create(r, k, m)
  BY <1>1, CreatePreserves
<1>2. CASE \E r \in Run, s \in Stage : Complete(r, s)
  BY <1>2, CompletePreserves
<1>3. CASE \E r \in Run, s \in Stage, status \in {"running", "failed", "blocked"} : Checkpoint(r, s, status)
  BY <1>3, CheckpointPreserves
<1>4. CASE Restart
  BY <1>4, RestartPreserves
<1>5. CASE UNCHANGED creativeVars
  BY <1>5 DEF creativeVars, CreativeInv, CreativeTypeOK, EarnedIn, OneLiveIn, Live, Exists, Ended, NoGap, KeptIn
<1> QED BY <1>1, <1>2, <1>3, <1>4, <1>5 DEF CreativeNext

THEOREM CreativeInvariant == CreativeSpec => []CreativeInv
BY CreativeInitEstablishes, CreativeStepPreserves, PTL DEF CreativeSpec

(* Checkpoints that look one stage back are enough: whatever their order, a *)
(* run is complete only when each stage of its mode has been.               *)
THEOREM CompletionIsEarned == CreativeSpec => []CompletionEarned
<1>1. CreativeInv => CompletionEarned
  BY DEF CreativeInv, CompletionEarned, EarnedIn
<1> QED BY <1>1, CreativeInvariant, PTL

(* Two live runs of a key take a checkpoint that reopened one of them.      *)
THEOREM KeyIsGuarded == CreativeSpec => []OneLiveRunPerKey
<1>1. CreativeInv => OneLiveRunPerKey
  BY DEF CreativeInv, OneLiveRunPerKey, OneLiveIn
<1> QED BY <1>1, CreativeInvariant, PTL

(* Only a boot that could not read the snapshot loses runs it held.         *)
THEOREM SavedRunsAreKept == CreativeSpec => []SavedRunsStay
<1>1. CreativeInv => SavedRunsStay
  BY DEF CreativeInv, SavedRunsStay, KeptIn
<1> QED BY <1>1, CreativeInvariant, PTL

(* Every reachable state of CreativeWorkflow is well typed.                 *)
THEOREM CreativeTypeCorrect == CreativeSpec => []CreativeTypeOK
<1>1. CreativeInv => CreativeTypeOK
  BY DEF CreativeInv
<1> QED BY <1>1, CreativeInvariant, PTL
=============================================================================
