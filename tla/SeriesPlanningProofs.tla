------------------------- MODULE SeriesPlanningProofs -------------------------
(***************************************************************************)
(* Proofs about SeriesPlanning, for any episodes, calls and bounds.  The   *)
(* inductive invariant says of every pass in flight what it may rely on    *)
(* when its model answers: its mark, the guide it read, the parts its      *)
(* episode has.                                                            *)
(***************************************************************************)
EXTENDS SeriesPlanning, TLAPS

Going(calls, x) == {c \in Call : calls[c] # None /\ calls[c].of = x}

(* ReadyIsWhole and InProgressIsDriven of an entry and the passes in flight *)
(* that a write may leave.                                                  *)
Whole(s, over) ==
  /\ s.status \in Ready => s.guide # 0 /\ s.roadmap
  /\ s.grade \in {0, s.guide}
  /\ \A e \in Episode \ over :
       s.pre[e] # None /\ s.pre[e].status = "complete" => s.pre[e].has = Part

Driven(s, calls) ==
  /\ s.status = "planning" => \E c \in Going(calls, Plan) : calls[c].chain
  /\ \A p \in Pass : s.marks[p] = "running" => \E c \in Going(calls, Plan) : calls[c].pass = p
  /\ \A e \in Episode, p \in Pass :
       s.pre[e] # None /\ s.pre[e].marks[p] = "running"
         => \E c \in Going(calls, e) : calls[c].pass = p

(* What a planning pass relies on.                                          *)
PlanSound(s, f) ==
  /\ s.marks[f.pass] = "running"
  /\ f.pass = 4 => f.guide = s.guide
  /\ f.chain /\ f.pass \in {2, 3, 4} => s.guide # 0
  /\ f.chain /\ f.pass \in {3, 4} => s.roadmap

(* What a pass of an episode relies on.                                     *)
EpisodeSound(s, f, over) ==
  /\ s.pre[f.of] # None
  /\ f.of \notin over => /\ s.pre[f.of].marks[f.pass] = "running"
                         /\ f.pass = 4 => s.pre[f.of].has = Part

Alone(calls, over) ==
  \A x \in (Episode \cup {Plan}) \ over : \A a, b \in Going(calls, x) : a = b
PlansSound(s, calls) == \A c \in Going(calls, Plan) : PlanSound(s, calls[c])
EpisodesSound(s, calls, over) ==
  \A e \in Episode : \A c \in Going(calls, e) : EpisodeSound(s, calls[c], over)
Sound(s, calls, over) == PlansSound(s, calls) /\ EpisodesSound(s, calls, over)

SeriesInv ==
  /\ SeriesTypeOK
  /\ Alone(call, overlapped)
  /\ series # None => Whole(series, overlapped) /\ Sound(series, call, overlapped)
  /\ series # None /\ crashes = 0 => Driven(series, call)
  /\ requests = 0 => series = None /\ \A c \in Call : call[c] = None
-----------------------------------------------------------------------------
(* The entry after a mark on the series or on an episode.                   *)
LEMMA MarkedPlan ==
  ASSUME NEW s \in Series, NEW p \in Pass, NEW k \in Mark
  PROVE  LET t == Marked(s, Plan, p, k)
         IN  /\ t \in Series
             /\ t.status = s.status /\ t.guide = s.guide /\ t.grade = s.grade
             /\ t.roadmap = s.roadmap /\ t.pre = s.pre
             /\ t.marks[p] = k /\ \A q \in Pass \ {p} : t.marks[q] = s.marks[q]
  BY DEF Marked, Series, Marks

LEMMA MarkedEpisode ==
  ASSUME NEW s \in Series, NEW e \in Episode, NEW p \in Pass, NEW k \in Mark, s.pre[e] # None
  PROVE  LET t == Marked(s, e, p, k)
         IN  /\ t \in Series
             /\ t.status = s.status /\ t.guide = s.guide /\ t.grade = s.grade
             /\ t.roadmap = s.roadmap /\ t.marks = s.marks
             /\ \A d \in Episode \ {e} : t.pre[d] = s.pre[d]
             /\ t.pre[e] # None
             /\ t.pre[e].status = s.pre[e].status /\ t.pre[e].has = s.pre[e].has
             /\ t.pre[e].marks[p] = k
             /\ \A q \in Pass \ {p} : t.pre[e].marks[q] = s.pre[e].marks[q]
<1> DEFINE new == [s.pre[e] EXCEPT !.marks[p] = k]
           t == Marked(s, e, p, k)
<1>1. s.pre[e] \in PreProduction BY DEF Series
<1>2. new \in PreProduction BY <1>1 DEF PreProduction, Marks
<1>3. t = [s EXCEPT !.pre[e] = new] BY SeriesAssumption DEF Marked
<1>4. t.pre = [s.pre EXCEPT ![e] = new] BY <1>3 DEF Series
<1>5. s.pre \in [Episode -> PreProduction \cup {None}] BY DEF Series
<1>6. t \in Series BY <1>2, <1>3 DEF Series
<1>7. t.pre[e] = new /\ \A d \in Episode \ {e} : t.pre[d] = s.pre[d] BY <1>4, <1>5
<1>8. new.marks[p] = k /\ \A q \in Pass \ {p} : new.marks[q] = s.pre[e].marks[q]
  BY <1>1 DEF PreProduction, Marks
<1>9. new.status = s.pre[e].status /\ new.has = s.pre[e].has BY <1>1 DEF PreProduction
<1>10. new # None BY <1>2, NothingAssumption
<1>11. t.status = s.status /\ t.guide = s.guide /\ t.grade = s.grade
       /\ t.roadmap = s.roadmap /\ t.marks = s.marks
  BY <1>3 DEF Series
<1> QED BY <1>6, <1>7, <1>8, <1>9, <1>10, <1>11

(* The entry after the answer to a planning pass or to one of an episode.   *)
AfterPlanAnswer(s, f, ok, t) ==
  /\ t \in Series /\ t.marks = s.marks /\ t.pre = s.pre
  /\ \/ /\ f.pass = 1 /\ ok
        /\ t.status = s.status /\ t.guide = guides + 1 /\ t.grade = 0 /\ t.roadmap = s.roadmap
     \/ /\ f.pass = 2 /\ ok
        /\ t.status = s.status /\ t.guide = s.guide /\ t.grade = s.grade /\ t.roadmap = TRUE
     \/ /\ f.pass \in {1, 2} /\ ~ok
        /\ t.status = "failed" /\ t.guide = s.guide /\ t.grade = s.grade
        /\ t.roadmap = s.roadmap
     \/ /\ f.pass = 4 /\ ok
        /\ t.status = s.status /\ t.guide = s.guide /\ t.grade = f.guide
        /\ t.roadmap = s.roadmap
     \/ f.pass \in {3, 4} /\ t = s

LEMMA PlanAnswer ==
  ASSUME NEW s \in Series, NEW f \in InFlight, NEW ok \in BOOLEAN, guides \in Nat
  PROVE  AfterPlanAnswer(s, f, ok, PlanAnswered(s, f, ok))
<1> DEFINE t == PlanAnswered(s, f, ok)
<1> SUFFICES AfterPlanAnswer(s, f, ok, t) OBVIOUS
<1> HIDE DEF t
<1>0. f.pass \in 1..4 /\ f.guide \in Nat BY DEF InFlight, Pass
<1>1. CASE f.pass = 1 /\ ok
  <2>1. t = [s EXCEPT !.guide = guides + 1, !.grade = 0]
    BY <1>1 DEF PlanAnswered, t
  <2> DEFINE u == [s EXCEPT !.guide = guides + 1]
  <2>2. u \in Series /\ u.marks = s.marks /\ u.pre = s.pre /\ u.status = s.status
        /\ u.guide = guides + 1 /\ u.roadmap = s.roadmap
    BY DEF Series
  <2>3. t = [u EXCEPT !.grade = 0] BY <2>1
  <2> HIDE DEF u
  <2>4. t \in Series /\ t.marks = u.marks /\ t.pre = u.pre /\ t.status = u.status
        /\ t.guide = u.guide /\ t.grade = 0 /\ t.roadmap = u.roadmap
    BY <2>2, <2>3 DEF Series
  <2> QED BY <1>1, <2>2, <2>4 DEF AfterPlanAnswer
<1>2. CASE f.pass = 2 /\ ok
  <2>1. t = [s EXCEPT !.roadmap = TRUE] BY <1>2 DEF PlanAnswered, t
  <2>2. t \in Series BY <2>1 DEF Series
  <2>3. t.marks = s.marks /\ t.pre = s.pre /\ t.status = s.status /\ t.guide = s.guide
        /\ t.grade = s.grade /\ t.roadmap = TRUE
    BY <2>1 DEF Series
  <2> QED BY <1>2, <2>2, <2>3 DEF AfterPlanAnswer
<1>3. CASE f.pass \in {1, 2} /\ ~ok
  <2>1. t = [s EXCEPT !.status = "failed"] BY <1>3 DEF PlanAnswered, t
  <2>2. t \in Series BY <2>1 DEF Series
  <2>3. t.marks = s.marks /\ t.pre = s.pre /\ t.status = "failed" /\ t.guide = s.guide
        /\ t.grade = s.grade /\ t.roadmap = s.roadmap
    BY <2>1 DEF Series
  <2> QED BY <1>3, <2>2, <2>3 DEF AfterPlanAnswer
<1>4. CASE f.pass = 4 /\ ok
  <2>1. t = [s EXCEPT !.grade = f.guide] BY <1>4 DEF PlanAnswered, t
  <2>2. t \in Series BY <1>0, <2>1 DEF Series
  <2>3. t.marks = s.marks /\ t.pre = s.pre /\ t.status = s.status /\ t.guide = s.guide
        /\ t.grade = f.guide /\ t.roadmap = s.roadmap
    BY <2>1 DEF Series
  <2> QED BY <1>4, <2>2, <2>3 DEF AfterPlanAnswer
<1>5. CASE f.pass = 3 \/ (f.pass = 4 /\ ~ok)
  <2>1. t = s BY <1>5 DEF PlanAnswered, t
  <2> QED BY <1>5, <2>1 DEF Series, AfterPlanAnswer
<1>6. (f.pass = 1 /\ ok) \/ (f.pass = 2 /\ ok) \/ (f.pass \in {1, 2} /\ ~ok)
      \/ (f.pass = 4 /\ ok) \/ f.pass = 3 \/ (f.pass = 4 /\ ~ok)
  BY <1>0
<1> QED BY <1>1, <1>2, <1>3, <1>4, <1>5, <1>6

LEMMA EpisodeAnswer ==
  ASSUME NEW s \in Series, NEW f \in InFlight, NEW ok \in BOOLEAN,
         f.of \in Episode, s.pre[f.of] # None
  PROVE  LET t == EpisodeAnswered(s, f, ok)
             e == f.of
         IN  /\ t \in Series
             /\ t.status = s.status /\ t.guide = s.guide /\ t.grade = s.grade
             /\ t.roadmap = s.roadmap /\ t.marks = s.marks
             /\ \A d \in Episode \ {e} : t.pre[d] = s.pre[d]
             /\ t.pre[e] # None /\ t.pre[e].marks = s.pre[e].marks
             /\ s.pre[e].has \subseteq t.pre[e].has
             /\ t.pre[e].status = "complete" => f.pass = 4
<1> DEFINE t == EpisodeAnswered(s, f, ok)
           e == f.of
           old == s.pre[e]
<1>1. old \in PreProduction BY DEF Series
<1>2. \E new \in PreProduction :
        /\ t = [s EXCEPT !.pre[e] = new]
        /\ new.marks = old.marks /\ old.has \subseteq new.has
        /\ new.status = "complete" => f.pass = 4
  <2>0. f.pass \in 1..4 BY DEF InFlight, Pass
  <2>1. ASSUME NEW part \in Part, NEW status \in Busy
        PROVE  LET new == [old EXCEPT !.has = @ \cup {part}, !.status = status]
               IN  /\ new \in PreProduction /\ new.marks = old.marks
                   /\ old.has \subseteq new.has /\ new.status # "complete"
                   /\ [s EXCEPT !.pre[e].has = @ \cup {part}, !.pre[e].status = status]
                        = [s EXCEPT !.pre[e] = new]
    BY <1>1 DEF PreProduction, Series, Busy
  <2>2. ASSUME NEW status \in {"complete", "failed"}
        PROVE  LET new == [old EXCEPT !.status = status]
               IN  /\ new \in PreProduction /\ new.marks = old.marks /\ old.has = new.has
                   /\ new.status = status
                   /\ [s EXCEPT !.pre[e].status = status] = [s EXCEPT !.pre[e] = new]
    BY <1>1 DEF PreProduction, Series
  <2>3. CASE f.pass = 1 /\ ok
    <3>1. t = [s EXCEPT !.pre[e].has = @ \cup {"script"}, !.pre[e].status = "prompting"]
      BY <2>3 DEF EpisodeAnswered
    <3>2. "script" \in Part /\ "prompting" \in Busy BY DEF Part, Busy
    <3> HIDE DEF t, e, old
    <3> QED BY <2>1, <3>1, <3>2
  <2>4. CASE f.pass = 2 /\ ok
    <3>1. t = [s EXCEPT !.pre[e].has = @ \cup {"prompts"}, !.pre[e].status = "audio_assets"]
      BY <2>4 DEF EpisodeAnswered
    <3>2. "prompts" \in Part /\ "audio_assets" \in Busy BY DEF Part, Busy
    <3> HIDE DEF t, e, old
    <3> QED BY <2>1, <3>1, <3>2
  <2>5. CASE f.pass = 3 /\ ok
    <3>1. t = [s EXCEPT !.pre[e].has = @ \cup {"audio"}, !.pre[e].status = "scoring"]
      BY <2>5 DEF EpisodeAnswered
    <3>2. "audio" \in Part /\ "scoring" \in Busy BY DEF Part, Busy
    <3> HIDE DEF t, e, old
    <3> QED BY <2>1, <3>1, <3>2
  <2>6. CASE f.pass = 4 /\ ok
    <3>1. t = [s EXCEPT !.pre[e].status = "complete"] BY <2>6 DEF EpisodeAnswered
    <3> HIDE DEF t, e, old
    <3> QED BY <2>2, <2>6, <3>1
  <2>7. CASE ~ok
    <3>1. t = [s EXCEPT !.pre[e].status = "failed"] BY <2>7 DEF EpisodeAnswered
    <3> HIDE DEF t, e, old
    <3> QED BY <2>2, <3>1
  <2> QED BY <2>0, <2>3, <2>4, <2>5, <2>6, <2>7
<1>3. PICK new \in PreProduction :
        /\ t = [s EXCEPT !.pre[e] = new]
        /\ new.marks = old.marks /\ old.has \subseteq new.has
        /\ new.status = "complete" => f.pass = 4
  BY <1>2
<1>4. s.pre \in [Episode -> PreProduction \cup {None}] BY DEF Series
<1>5. t.pre = [s.pre EXCEPT ![e] = new] BY <1>3 DEF Series
<1>6. t \in Series BY <1>3 DEF Series
<1>7. t.pre[e] = new /\ \A d \in Episode \ {e} : t.pre[d] = s.pre[d] BY <1>4, <1>5
<1>8. new # None BY NothingAssumption
<1>9. t.status = s.status /\ t.guide = s.guide /\ t.grade = s.grade
      /\ t.roadmap = s.roadmap /\ t.marks = s.marks
  BY <1>3 DEF Series
<1> QED BY <1>3, <1>6, <1>7, <1>8, <1>9
-----------------------------------------------------------------------------
(* What a write does, given the entries it may leave and the last of them.  *)
Wrote(earlier, last, calls) ==
  \/ series' = last /\ call' = calls /\ UNCHANGED crashes
  \/ /\ crashes < MaxCrashes /\ crashes' = crashes + 1
     /\ series' \in earlier /\ call' = [c \in Call |-> None]

LEMMA WriteOne ==
  ASSUME NEW a, NEW calls, Write(<<a>>, calls) PROVE Wrote({}, a, calls)
<1> DEFINE entries == <<a>>
<1>1. Len(entries) = 1 /\ entries[1] = a OBVIOUS
<1>2. Write(entries, calls) OBVIOUS
<1> HIDE DEF entries
<1> QED BY <1>1, <1>2 DEF Write, Wrote

LEMMA WriteTwo ==
  ASSUME NEW a, NEW b, NEW calls, Write(<<a, b>>, calls) PROVE Wrote({a}, b, calls)
<1> DEFINE entries == <<a, b>>
<1>1. Len(entries) = 2 /\ entries[1] = a /\ entries[2] = b OBVIOUS
<1>2. Write(entries, calls) OBVIOUS
<1> HIDE DEF entries
<1> QED BY <1>1, <1>2 DEF Write, Wrote

LEMMA WriteThree ==
  ASSUME NEW a, NEW b, NEW d, NEW calls, Write(<<a, b, d>>, calls)
  PROVE  Wrote({a, b}, d, calls)
<1> DEFINE entries == <<a, b, d>>
<1>1. Len(entries) = 3 /\ entries[1] = a /\ entries[2] = b /\ entries[3] = d OBVIOUS
<1>2. Write(entries, calls) OBVIOUS
<1>3. \A i \in 1..2 : i = 1 \/ i = 2 OBVIOUS
<1> HIDE DEF entries
<1> QED BY <1>1, <1>2, <1>3 DEF Write, Wrote

(* A write keeps the invariant if all its entries are whole and the last    *)
(* one suits the passes in flight after it.                                 *)
LEMMA WriteKeeps ==
  ASSUME SeriesTypeOK, NEW earlier, NEW last, NEW calls, NEW over,
         Wrote(earlier, last, calls), overlapped' = over,
         \A s \in earlier \cup {last} : s \in Series /\ Whole(s, over),
         calls \in [Call -> InFlight \cup {None}],
         Alone(calls, over), PlansSound(last, calls), EpisodesSound(last, calls, over),
         crashes = 0 => Driven(last, calls),
         guides' \in Nat, over \subseteq Episode, requests' \in 1..MaxRequests
  PROVE  SeriesInv'
<1>0. requests' # 0 BY SeriesAssumption
<1>1. CASE series' = last /\ call' = calls /\ UNCHANGED crashes
  <2>1. SeriesTypeOK' BY <1>1, SeriesAssumption DEF SeriesTypeOK
  <2>2. Whole(series', overlapped') /\ Alone(call', overlapped')
        /\ PlansSound(series', call') /\ EpisodesSound(series', call', overlapped')
    BY <1>1
  <2>3. crashes' = 0 => Driven(series', call') BY <1>1
  <2> QED BY <1>0, <2>1, <2>2, <2>3 DEF SeriesInv, Sound
<1>2. CASE /\ crashes < MaxCrashes /\ crashes' = crashes + 1
           /\ series' \in earlier /\ call' = [c \in Call |-> None]
  <2>1. series' \in Series /\ Whole(series', overlapped') BY <1>2
  <2>2. crashes' \in 0..MaxCrashes /\ crashes' # 0
    BY <1>2, SeriesAssumption DEF SeriesTypeOK
  <2>3. \A x : Going(call', x) = {} BY <1>2 DEF Going
  <2>4. /\ Alone(call', overlapped') /\ PlansSound(series', call')
        /\ EpisodesSound(series', call', overlapped')
    BY <2>3 DEF Alone, PlansSound, EpisodesSound
  <2>5. call' \in [Call -> InFlight \cup {None}] BY <1>2
  <2>6. SeriesTypeOK' BY <2>1, <2>2, <2>5, SeriesAssumption DEF SeriesTypeOK
  <2> QED BY <1>0, <2>1, <2>2, <2>4, <2>6 DEF SeriesInv, Sound
<1> QED BY <1>1, <1>2 DEF Wrote
-----------------------------------------------------------------------------
(* A series that is created has its first pass in flight, and no other.     *)
LEMMA CreateKeeps ==
  ASSUME SeriesInv, NEW c \in Call, Create(c)
  PROVE  SeriesInv'
<1> DEFINE f == [of |-> Plan, pass |-> 1, chain |-> TRUE, guide |-> Fresh.guide]
           n == Marked(Fresh, Plan, 1, "running")
           calls == [call EXCEPT ![c] = f]
<1>1. Fresh \in Series
  BY DEF Fresh, Series, Marks, Pass, Mark, Idle
<1>2. /\ n \in Series /\ n.status = "planning" /\ n.guide = 0 /\ n.grade = 0
      /\ n.pre = [e \in Episode |-> None]
      /\ n.marks[1] = "running" /\ \A q \in Pass \ {1} : n.marks[q] = "idle"
  <2>1. 1 \in Pass /\ "running" \in Mark BY DEF Pass, Mark
  <2>2. /\ n \in Series /\ n.status = Fresh.status /\ n.guide = Fresh.guide
        /\ n.grade = Fresh.grade /\ n.pre = Fresh.pre
        /\ n.marks[1] = "running" /\ \A q \in Pass \ {1} : n.marks[q] = Fresh.marks[q]
    BY <1>1, <2>1, MarkedPlan
  <2>3. \A q \in Pass : Fresh.marks[q] = "idle" BY DEF Fresh, Idle
  <2>4. Fresh.status = "planning" /\ Fresh.guide = 0 /\ Fresh.grade = 0
        /\ Fresh.pre = [e \in Episode |-> None]
    BY DEF Fresh
  <2> HIDE DEF n
  <2> QED BY <2>2, <2>3, <2>4
<1>3. \A d \in Call : call[d] = None BY DEF SeriesInv, Create
<1>4. f \in InFlight
  <2>1. Fresh.guide = 0 BY DEF Fresh
  <2> QED BY <2>1 DEF InFlight, Pass
<1>5. calls \in [Call -> InFlight \cup {None}] /\ calls[c] = f
      /\ \A d \in Call \ {c} : calls[d] = None
  BY <1>3, <1>4 DEF SeriesInv, SeriesTypeOK
<1>6. f # None BY <1>4, NothingAssumption
<1> HIDE DEF n, calls
<1>7. Going(calls, Plan) = {c} /\ \A e \in Episode : Going(calls, e) = {}
  BY <1>5, <1>6, SeriesAssumption DEF Going
<1>8. Alone(calls, overlapped) BY <1>7 DEF Alone
<1>9. Whole(Fresh, overlapped) /\ Whole(n, overlapped)
  BY <1>2 DEF Whole, Fresh, Ready
<1>10. PlansSound(n, calls) BY <1>2, <1>5, <1>7 DEF PlansSound, PlanSound
<1>11. EpisodesSound(n, calls, overlapped) BY <1>7 DEF EpisodesSound
<1>12. Driven(n, calls)
  BY <1>2, <1>5, <1>7 DEF Driven
<1>13. Write(<<Fresh, n>>, calls)
  <2>1. Joined(Fresh, c, Plan, 1, TRUE) = calls BY DEF Joined, calls
  <2>2. Begun(Fresh, Plan, 1) = n BY DEF Begun, n
  <2> QED BY <2>1, <2>2 DEF Create
<1>14. guides' \in Nat /\ overlapped' = overlapped /\ overlapped \subseteq Episode
       /\ requests' \in 1..MaxRequests
  BY SeriesAssumption DEF Create, Request, SeriesInv, SeriesTypeOK
<1>15. Wrote({Fresh}, n, calls) BY <1>13, WriteTwo
<1> QED
  BY <1>1, <1>2, <1>5, <1>8, <1>9, <1>10, <1>11, <1>12, <1>14, <1>15, WriteKeeps DEF SeriesInv

(* A pass that begins: the passes in flight after it.                       *)
With(c, f) == [call EXCEPT ![c] = f]

LEMMA OneMore ==
  ASSUME SeriesInv, NEW c \in Call, call[c] = None, NEW f \in InFlight
  PROVE  LET calls == With(c, f)
         IN  /\ calls \in [Call -> InFlight \cup {None}]
             /\ calls[c] = f
             /\ Going(calls, f.of) = Going(call, f.of) \cup {c}
             /\ \A y : y # f.of => Going(calls, y) = Going(call, y)
             /\ \A y : \A d \in Going(call, y) : calls[d] = call[d]
<1>1. f # None BY NothingAssumption
<1> QED BY <1>1 DEF With, SeriesInv, SeriesTypeOK, Going

(* A pass of the plan that is run again.                                    *)
LEMMA RerunPlanKeeps ==
  ASSUME SeriesInv, NEW c \in Call, NEW p \in Pass, Rerun(c, Plan, p)
  PROVE  SeriesInv'
<1> DEFINE f == [of |-> Plan, pass |-> p, chain |-> FALSE, guide |-> series.guide]
           n == Marked(series, Plan, p, "running")
           calls == With(c, f)
<1>1. series \in Series /\ series # None /\ call[c] = None
  BY NothingAssumption DEF SeriesInv, SeriesTypeOK, Rerun, Unused
<1>2. \A q \in Pass : series.marks[q] # "running" BY DEF Rerun, MayRerun, Running
<1>3. f \in InFlight BY <1>1 DEF InFlight, Series
<1>4. /\ n \in Series /\ n.status = series.status /\ n.guide = series.guide
      /\ n.grade = series.grade /\ n.roadmap = series.roadmap /\ n.pre = series.pre
      /\ n.marks[p] = "running" /\ \A q \in Pass \ {p} : n.marks[q] = series.marks[q]
  BY <1>1, MarkedPlan DEF Mark
<1>5. f.of = Plan /\ f.pass = p /\ f.chain = FALSE /\ f.guide = series.guide OBVIOUS
<1>6. Write(<<n>>, calls) BY DEF Rerun, Begun, Joined, With
<1> HIDE DEF n, f
<1>7. /\ calls \in [Call -> InFlight \cup {None}] /\ calls[c] = f
      /\ Going(calls, Plan) = Going(call, Plan) \cup {c}
      /\ \A e \in Episode : Going(calls, e) = Going(call, e)
      /\ \A x : \A d \in Going(call, x) : calls[d] = call[d]
  <2>1. /\ calls \in [Call -> InFlight \cup {None}] /\ calls[c] = f
        /\ Going(calls, f.of) = Going(call, f.of) \cup {c}
        /\ \A y : y # f.of => Going(calls, y) = Going(call, y)
        /\ \A y : \A d \in Going(call, y) : calls[d] = call[d]
    BY <1>1, <1>3, OneMore
  <2>2. f.of = Plan BY <1>5
  <2> HIDE DEF calls
  <2> QED BY <2>1, <2>2, SeriesAssumption
<1> HIDE DEF calls
<1>8. Going(call, Plan) = {}
  <2> SUFFICES ASSUME NEW d \in Going(call, Plan) PROVE FALSE OBVIOUS
  <2>1. call[d].pass \in Pass
    BY NothingAssumption DEF Going, SeriesInv, SeriesTypeOK, InFlight
  <2>2. series.marks[call[d].pass] = "running"
    BY <1>1 DEF SeriesInv, Sound, PlansSound, PlanSound
  <2> QED BY <1>2, <2>1, <2>2
<1>9. Alone(calls, overlapped)
  BY <1>7, <1>8, SeriesAssumption DEF SeriesInv, Alone
<1>10. Whole(n, overlapped) BY <1>1, <1>4 DEF SeriesInv, Whole
<1>11. PlansSound(n, calls) BY <1>4, <1>5, <1>7, <1>8 DEF PlansSound, PlanSound
<1>12. EpisodesSound(n, calls, overlapped)
  BY <1>1, <1>4, <1>7 DEF SeriesInv, Sound, EpisodesSound, EpisodeSound
<1>13. ASSUME crashes = 0 PROVE Driven(n, calls)
  <2>1. Driven(series, call) BY <1>1, <1>13 DEF SeriesInv
  <2>2. series.status # "planning" BY <1>8, <2>1 DEF Driven
  <2> QED BY <1>2, <1>4, <1>5, <1>7, <2>1, <2>2 DEF Driven
<1>14. guides' \in Nat /\ overlapped' = overlapped /\ overlapped \subseteq Episode
       /\ requests' \in 1..MaxRequests
  BY SeriesAssumption DEF Rerun, Request, SeriesInv, SeriesTypeOK
<1>15. Wrote({}, n, calls) BY <1>6, WriteOne
<1> QED
  BY <1>4, <1>7, <1>9, <1>10, <1>11, <1>12, <1>13, <1>14, <1>15, WriteKeeps DEF SeriesInv

(* A pass of an episode that is run again.                                  *)
LEMMA RerunEpisodeKeeps ==
  ASSUME SeriesInv, NEW c \in Call, NEW e \in Episode, NEW p \in Pass, Rerun(c, e, p)
  PROVE  SeriesInv'
<1> DEFINE f == [of |-> e, pass |-> p, chain |-> FALSE, guide |-> series.guide]
           n == Marked(series, e, p, "running")
           calls == With(c, f)
<1>0. e # Plan BY SeriesAssumption
<1>1. series \in Series /\ series # None /\ call[c] = None /\ series.pre[e] # None
  BY <1>0, NothingAssumption DEF SeriesInv, SeriesTypeOK, Rerun, Unused
<1>2. \A q \in Pass : series.pre[e].marks[q] # "running" BY <1>0 DEF Rerun, MayRerun, Running
<1>3. f \in InFlight BY <1>1 DEF InFlight, Series
<1>4. /\ n \in Series /\ n.status = series.status /\ n.guide = series.guide
      /\ n.grade = series.grade /\ n.roadmap = series.roadmap /\ n.marks = series.marks
      /\ \A d \in Episode \ {e} : n.pre[d] = series.pre[d]
      /\ n.pre[e] # None
      /\ n.pre[e].status = series.pre[e].status /\ n.pre[e].has = series.pre[e].has
      /\ n.pre[e].marks[p] = "running"
      /\ \A q \in Pass \ {p} : n.pre[e].marks[q] = series.pre[e].marks[q]
  BY <1>1, MarkedEpisode DEF Mark
<1>5. f.of = e /\ f.pass = p /\ f.chain = FALSE OBVIOUS
<1>6. Write(<<n>>, calls) BY DEF Rerun, Begun, Joined, With
<1>a. p = 4 => series.pre[e].has = Part BY <1>0 DEF Rerun, Startable
<1> HIDE DEF n, f
<1>7. /\ calls \in [Call -> InFlight \cup {None}] /\ calls[c] = f
      /\ Going(calls, e) = Going(call, e) \cup {c}
      /\ \A x : x # e => Going(calls, x) = Going(call, x)
      /\ \A x : \A d \in Going(call, x) : calls[d] = call[d]
  <2>1. /\ calls \in [Call -> InFlight \cup {None}] /\ calls[c] = f
        /\ Going(calls, f.of) = Going(call, f.of) \cup {c}
        /\ \A y : y # f.of => Going(calls, y) = Going(call, y)
        /\ \A y : \A d \in Going(call, y) : calls[d] = call[d]
    BY <1>1, <1>3, OneMore
  <2>2. f.of = e BY <1>5
  <2> HIDE DEF calls
  <2> QED BY <2>1, <2>2
<1> HIDE DEF calls
<1>8. ASSUME e \notin overlapped PROVE Going(call, e) = {}
  <2> SUFFICES ASSUME NEW d \in Going(call, e) PROVE FALSE OBVIOUS
  <2>1. call[d].pass \in Pass /\ call[d].of = e
    BY NothingAssumption DEF Going, SeriesInv, SeriesTypeOK, InFlight
  <2>2. series.pre[e].marks[call[d].pass] = "running"
    BY <1>1, <1>8, <2>1 DEF SeriesInv, Sound, EpisodesSound, EpisodeSound
  <2> QED BY <1>2, <2>1, <2>2
<1>9. Alone(calls, overlapped)
  BY <1>7, <1>8 DEF SeriesInv, Alone
<1>10. Whole(n, overlapped) BY <1>1, <1>4 DEF SeriesInv, Whole
<1>11. PlansSound(n, calls)
  BY <1>0, <1>1, <1>4, <1>7 DEF SeriesInv, Sound, PlansSound, PlanSound
<1>12. EpisodesSound(n, calls, overlapped)
  <2> SUFFICES ASSUME NEW x \in Episode, NEW d \in Going(calls, x)
               PROVE  EpisodeSound(n, calls[d], overlapped)
    BY DEF EpisodesSound
  <2>1. CASE d = c
    <3>1. x = e BY <1>5, <1>7, <2>1 DEF Going
    <3> QED BY <1>4, <1>5, <1>7, <1>a, <2>1 DEF EpisodeSound
  <2>2. CASE d # c
    <3>1. d \in Going(call, x) /\ calls[d] = call[d] BY <1>7, <2>2
    <3>2. call[d].of = x /\ EpisodeSound(series, call[d], overlapped)
      BY <1>1, <3>1 DEF SeriesInv, Sound, EpisodesSound, Going
    <3>3. x = e => e \in overlapped BY <1>8, <3>1
    <3> QED BY <1>4, <3>1, <3>2, <3>3 DEF EpisodeSound
  <2> QED BY <2>1, <2>2
<1>13. ASSUME crashes = 0 PROVE Driven(n, calls)
  <2>1. Driven(series, call) BY <1>1, <1>13 DEF SeriesInv
  <2>2. n.status = "planning" => \E d \in Going(calls, Plan) : calls[d].chain
    BY <1>0, <1>4, <1>7, <2>1 DEF Driven
  <2>3. \A q \in Pass : n.marks[q] = "running" => \E d \in Going(calls, Plan) : calls[d].pass = q
    BY <1>0, <1>4, <1>7, <2>1 DEF Driven
  <2>4. ASSUME NEW x \in Episode, NEW q \in Pass, n.pre[x] # None, n.pre[x].marks[q] = "running"
        PROVE  \E d \in Going(calls, x) : calls[d].pass = q
    <3>1. CASE x = e BY <1>2, <1>4, <1>5, <1>7, <2>4, <3>1
    <3>2. CASE x # e BY <1>4, <1>7, <2>1, <2>4, <3>2 DEF Driven
    <3> QED BY <3>1, <3>2
  <2> QED BY <2>2, <2>3, <2>4 DEF Driven
<1>14. guides' \in Nat /\ overlapped' = overlapped /\ overlapped \subseteq Episode
       /\ requests' \in 1..MaxRequests
  BY SeriesAssumption DEF Rerun, Request, SeriesInv, SeriesTypeOK
<1>15. Wrote({}, n, calls) BY <1>6, WriteOne
<1> QED
  BY <1>4, <1>7, <1>9, <1>10, <1>11, <1>12, <1>13, <1>14, <1>15, WriteKeeps DEF SeriesInv

(* A pre-production that begins: over a pass in flight it is overlapped.    *)
LEMMA PreProduceKeeps ==
  ASSUME SeriesInv, NEW c \in Call, NEW e \in Episode, PreProduce(c, e)
  PROVE  SeriesInv'
<1> DEFINE blank == [status |-> "scripting", marks |-> Idle, has |-> {}]
           new == [series EXCEPT !.pre[e] = blank]
           f == [of |-> e, pass |-> 1, chain |-> TRUE, guide |-> new.guide]
           n == Marked(new, e, 1, "running")
           calls == With(c, f)
           over == overlapped'
<1>0. e # Plan BY SeriesAssumption
<1>1. series \in Series /\ series # None /\ call[c] = None
  BY NothingAssumption DEF SeriesInv, SeriesTypeOK, PreProduce, Unused
<1>2. blank \in PreProduction /\ blank # None
  <2>1. blank \in PreProduction
    BY DEF PreProduction, Busy, Marks, Idle, Pass, Mark
  <2> QED BY <2>1, NothingAssumption
<1>3. /\ new \in Series /\ new.status = series.status /\ new.guide = series.guide
      /\ new.grade = series.grade /\ new.roadmap = series.roadmap
      /\ new.marks = series.marks
      /\ new.pre[e] = blank /\ \A d \in Episode \ {e} : new.pre[d] = series.pre[d]
  <2> HIDE DEF blank
  <2>1. series.pre \in [Episode -> PreProduction \cup {None}] BY <1>1 DEF Series
  <2>2. new.pre = [series.pre EXCEPT ![e] = blank] BY <1>1 DEF Series
  <2>3. new \in Series BY <1>1, <1>2 DEF Series
  <2>4. new.pre[e] = blank /\ \A d \in Episode \ {e} : new.pre[d] = series.pre[d] BY <2>1, <2>2
  <2> QED BY <1>1, <2>3, <2>4 DEF Series
<1>4. f \in InFlight /\ f.of = e /\ f.pass = 1
  <2>1. new.guide \in Nat BY <1>1, <1>3 DEF Series
  <2> HIDE DEF new
  <2> QED BY <2>1 DEF InFlight, Pass
<1>5. Write(<<new, n>>, calls) BY DEF PreProduce, Begun, Joined, With
<1> HIDE DEF f, new
<1>6. /\ n \in Series /\ n.status = series.status /\ n.guide = series.guide
      /\ n.grade = series.grade /\ n.roadmap = series.roadmap /\ n.marks = series.marks
      /\ \A d \in Episode \ {e} : n.pre[d] = series.pre[d]
      /\ n.pre[e] # None /\ n.pre[e].status = "scripting"
      /\ n.pre[e].marks[1] = "running"
      /\ \A q \in Pass \ {1} : n.pre[e].marks[q] = "idle"
  <2>1. 1 \in Pass /\ "running" \in Mark BY DEF Pass, Mark
  <2>2. new.pre[e] # None BY <1>2, <1>3
  <2>3. /\ n \in Series /\ n.status = new.status /\ n.guide = new.guide
        /\ n.grade = new.grade /\ n.roadmap = new.roadmap /\ n.marks = new.marks
        /\ \A d \in Episode \ {e} : n.pre[d] = new.pre[d]
        /\ n.pre[e] # None
        /\ n.pre[e].status = new.pre[e].status /\ n.pre[e].marks[1] = "running"
        /\ \A q \in Pass \ {1} : n.pre[e].marks[q] = new.pre[e].marks[q]
    BY <1>3, <2>1, <2>2, MarkedEpisode
  <2>4. blank.status = "scripting" /\ \A q \in Pass : blank.marks[q] = "idle" BY DEF Idle
  <2> HIDE DEF n, blank
  <2> QED BY <1>3, <2>3, <2>4
<1>7. /\ calls \in [Call -> InFlight \cup {None}] /\ calls[c] = f
      /\ Going(calls, e) = Going(call, e) \cup {c}
      /\ \A x : x # e => Going(calls, x) = Going(call, x)
      /\ \A x : \A d \in Going(call, x) : calls[d] = call[d]
  <2>1. /\ calls \in [Call -> InFlight \cup {None}] /\ calls[c] = f
        /\ Going(calls, f.of) = Going(call, f.of) \cup {c}
        /\ \A y : y # f.of => Going(calls, y) = Going(call, y)
        /\ \A y : \A d \in Going(call, y) : calls[d] = call[d]
    BY <1>1, <1>4, OneMore
  <2>2. f.of = e BY <1>4
  <2> HIDE DEF calls
  <2> QED BY <2>1, <2>2
<1>8. /\ over \subseteq Episode
      /\ \A x \in Episode \ {e} : x \in over <=> x \in overlapped
      /\ e \notin over => Going(call, e) = {}
  <2>1. over = IF Going(call, e) = {} THEN overlapped \ {e} ELSE overlapped \cup {e}
    BY DEF PreProduce, CallsOf, Going
  <2> HIDE DEF over
  <2> QED BY <2>1 DEF SeriesInv, SeriesTypeOK
<1>9. blank.status = "scripting" OBVIOUS
<1>10. overlapped' = over OBVIOUS
<1>11. guides' \in Nat /\ requests' \in 1..MaxRequests
  BY SeriesAssumption DEF PreProduce, Request, SeriesInv, SeriesTypeOK
<1> HIDE DEF n, calls, over, blank
<1>12. Whole(new, over) /\ Whole(n, over)
  <2>1. Whole(series, overlapped) BY <1>1 DEF SeriesInv
  <2> QED BY <1>3, <1>6, <1>8, <1>9, <2>1 DEF Whole
<1>13. Alone(calls, over)
  <2> SUFFICES ASSUME NEW x \in (Episode \cup {Plan}) \ over, NEW a \in Going(calls, x),
                      NEW b \in Going(calls, x)
               PROVE  a = b
    BY DEF Alone
  <2>1. CASE x = e BY <1>7, <1>8, <2>1
  <2>2. CASE x # e
    <3>1. x \notin overlapped BY <1>8, <2>2, SeriesAssumption DEF SeriesInv, SeriesTypeOK
    <3> QED BY <1>7, <2>2, <3>1 DEF SeriesInv, Alone
  <2> QED BY <2>1, <2>2
<1>14. PlansSound(n, calls)
  BY <1>0, <1>1, <1>6, <1>7 DEF SeriesInv, Sound, PlansSound, PlanSound
<1>15. EpisodesSound(n, calls, over)
  <2> SUFFICES ASSUME NEW x \in Episode, NEW d \in Going(calls, x)
               PROVE  EpisodeSound(n, calls[d], over)
    BY DEF EpisodesSound
  <2>1. CASE d = c
    <3>1. x = e BY <1>4, <1>7, <2>1 DEF Going
    <3> QED BY <1>4, <1>6, <1>7, <2>1 DEF EpisodeSound
  <2>2. CASE d # c
    <3>1. d \in Going(call, x) /\ calls[d] = call[d] BY <1>7, <2>2
    <3>2. call[d].of = x /\ EpisodeSound(series, call[d], overlapped)
      BY <1>1, <3>1 DEF SeriesInv, Sound, EpisodesSound, Going
    <3>3. x = e => e \in over BY <1>8, <3>1
    <3> QED BY <1>6, <1>8, <3>1, <3>2, <3>3 DEF EpisodeSound
  <2> QED BY <2>1, <2>2
<1>16. ASSUME crashes = 0 PROVE Driven(n, calls)
  <2>1. Driven(series, call) BY <1>1, <1>16 DEF SeriesInv
  <2>2. n.status = "planning" => \E d \in Going(calls, Plan) : calls[d].chain
    BY <1>0, <1>6, <1>7, <2>1 DEF Driven
  <2>3. \A q \in Pass : n.marks[q] = "running" => \E d \in Going(calls, Plan) : calls[d].pass = q
    BY <1>0, <1>6, <1>7, <2>1 DEF Driven
  <2>4. ASSUME NEW x \in Episode, NEW q \in Pass, n.pre[x] # None, n.pre[x].marks[q] = "running"
        PROVE  \E d \in Going(calls, x) : calls[d].pass = q
    <3>1. CASE x = e BY <1>4, <1>6, <1>7, <2>4, <3>1
    <3>2. CASE x # e BY <1>6, <1>7, <2>1, <2>4, <3>2 DEF Driven
    <3> QED BY <3>1, <3>2
  <2> QED BY <2>2, <2>3, <2>4 DEF Driven
<1>17. Wrote({new}, n, calls) BY <1>5, WriteTwo
<1> QED
  BY <1>3, <1>6, <1>7, <1>8, <1>10, <1>11, <1>12, <1>13, <1>14, <1>15, <1>16, <1>17, WriteKeeps
  DEF SeriesInv

LEMMA ProduceKeeps ==
  ASSUME SeriesInv, NEW e \in Episode, Produce(e)
  PROVE  SeriesInv'
<1>1. series \in Series /\ series # None BY DEF SeriesInv, SeriesTypeOK, Produce
<1>2. PICK status \in {"completed", "producing"}, produced \in SUBSET Episode :
        series' = [series EXCEPT !.produced = produced, !.status = status]
  BY <1>1 DEF Produce, Series
<1> DEFINE u == [series EXCEPT !.produced = produced]
<1>3. u \in Series /\ u.guide = series.guide /\ u.grade = series.grade
      /\ u.roadmap = series.roadmap /\ u.pre = series.pre /\ u.marks = series.marks
  BY <1>1 DEF Series
<1>4. series' = [u EXCEPT !.status = status] BY <1>2
<1> HIDE DEF u
<1>5. /\ series' \in Series /\ series'.status = status /\ series'.guide = u.guide
      /\ series'.grade = u.grade /\ series'.roadmap = u.roadmap
      /\ series'.pre = u.pre /\ series'.marks = u.marks
  BY <1>3, <1>4 DEF Series, Ready
<1>6. UNCHANGED <<call, guides, overlapped, requests, crashes>>
      /\ series.status \in Ready
  BY DEF Produce
<1>7. SeriesTypeOK' BY <1>5, <1>6 DEF SeriesInv, SeriesTypeOK
<1>8. Whole(series, overlapped) /\ Sound(series, call, overlapped) BY <1>1 DEF SeriesInv
<1>9. Whole(series', overlapped') BY <1>3, <1>5, <1>6, <1>8 DEF Whole
<1>10. Sound(series', call', overlapped')
  BY <1>3, <1>5, <1>6, <1>8
  DEF Sound, PlansSound, PlanSound, EpisodesSound, EpisodeSound
<1>11. crashes' = 0 => Driven(series', call')
  <2>1. crashes = 0 => Driven(series, call) BY <1>1 DEF SeriesInv
  <2>2. series'.status # "planning" BY <1>5
  <2> QED BY <1>3, <1>5, <1>6, <2>1, <2>2 DEF Driven
<1>12. requests' # 0 BY <1>1, <1>6 DEF SeriesInv
<1>13. Alone(call', overlapped') BY <1>6 DEF SeriesInv
<1> QED BY <1>7, <1>9, <1>10, <1>11, <1>12, <1>13 DEF SeriesInv

LEMMA DeleteKeeps ==
  ASSUME SeriesInv, Delete PROVE SeriesInv'
<1>1. requests # 0 BY DEF SeriesInv, Delete
<1> QED BY <1>1 DEF SeriesInv, SeriesTypeOK, Delete

LEMMA CrashKeeps ==
  ASSUME SeriesInv, Crash PROVE SeriesInv'
<1>1. \A x : Going(call', x) = {} BY DEF Crash, Going
<1>2. Alone(call', overlapped') BY <1>1 DEF Alone
<1>3. Sound(series', call', overlapped') BY <1>1 DEF Sound, PlansSound, EpisodesSound
<1>4. crashes' \in 1..MaxCrashes /\ crashes' # 0
  BY SeriesAssumption DEF Crash, SeriesInv, SeriesTypeOK
<1>5. UNCHANGED <<series, guides, overlapped, requests>> BY DEF Crash
<1>6. call' \in [Call -> InFlight \cup {None}] /\ \A c \in Call : call'[c] = None
  BY DEF Crash
<1>7. SeriesTypeOK' BY <1>4, <1>5, <1>6 DEF SeriesInv, SeriesTypeOK
<1>8. series' # None => Whole(series', overlapped') BY <1>5 DEF SeriesInv
<1>9. requests' = 0 => series' = None BY <1>5 DEF SeriesInv
<1> QED BY <1>2, <1>3, <1>4, <1>6, <1>7, <1>8, <1>9 DEF SeriesInv
-----------------------------------------------------------------------------
(* A pass that ends, and one that goes on as another of the same sequence:  *)
(* the passes in flight after it.                                           *)
LEMMA Left ==
  ASSUME SeriesInv, NEW c \in Call
  PROVE  LET calls == With(c, None)
         IN  /\ calls \in [Call -> InFlight \cup {None}]
             /\ \A y : Going(calls, y) = Going(call, y) \ {c}
             /\ \A y : \A d \in Going(call, y) \ {c} : calls[d] = call[d]
  BY DEF With, SeriesInv, SeriesTypeOK, Going

LEMMA Replaced ==
  ASSUME SeriesInv, NEW c \in Call, call[c] # None, NEW f \in InFlight, f.of = call[c].of
  PROVE  LET calls == With(c, f)
         IN  /\ calls \in [Call -> InFlight \cup {None}]
             /\ calls[c] = f
             /\ \A y : Going(calls, y) = Going(call, y)
             /\ \A y : \A d \in Going(call, y) \ {c} : calls[d] = call[d]
<1>1. f # None BY NothingAssumption
<1> QED BY <1>1 DEF With, SeriesInv, SeriesTypeOK, Going

(* A planning pass whose model has answered.                                *)
LEMMA EndPlanKeeps ==
  ASSUME SeriesInv, NEW c \in Call, NEW ok \in BOOLEAN, End(c, ok),
         series # None, call[c].of = Plan
  PROVE  SeriesInv'
<1> DEFINE f == call[c]
           t == PlanAnswered(series, f, ok)
           m == Marked(t, Plan, f.pass, Outcome(ok))
           w == [m EXCEPT !.status = "planned"]
           g == [of |-> Plan, pass |-> f.pass + 1, chain |-> TRUE, guide |-> m.guide]
           n == Marked(m, Plan, f.pass + 1, "running")
           free == With(c, None)
           on == With(c, g)
<1>1. series \in Series /\ f \in InFlight /\ f # None /\ f.of = Plan
  BY DEF End, SeriesInv, SeriesTypeOK
<1>2. f.pass \in 1..4 /\ f.guide \in Nat /\ f.chain \in BOOLEAN BY <1>1 DEF InFlight, Pass
<1>3. Whole(series, overlapped) /\ PlansSound(series, call)
      /\ EpisodesSound(series, call, overlapped) /\ Alone(call, overlapped)
  BY DEF SeriesInv, Sound
<1>4. c \in Going(call, Plan) BY <1>1 DEF Going
<1>5. PlanSound(series, f) BY <1>3, <1>4 DEF PlansSound
<1>6. Plan \notin overlapped /\ Plan \notin Episode
  BY SeriesAssumption DEF SeriesInv, SeriesTypeOK
<1>7. Going(call, Plan) = {c} BY <1>3, <1>4, <1>6 DEF Alone
<1>8. guides \in Nat BY DEF SeriesInv, SeriesTypeOK
<1>9. AfterPlanAnswer(series, f, ok, t) BY <1>1, <1>8, PlanAnswer
<1>10. Outcome(ok) \in Mark /\ Outcome(ok) # "running" BY DEF Outcome, Mark
<1>11. f.pass \in Pass BY <1>2 DEF Pass
<1>12. /\ m \in Series /\ m.status = t.status /\ m.guide = t.guide /\ m.grade = t.grade
       /\ m.roadmap = t.roadmap /\ m.pre = t.pre
       /\ m.marks[f.pass] = Outcome(ok)
       /\ \A q \in Pass \ {f.pass} : m.marks[q] = t.marks[q]
  <2> HIDE DEF t, f
  <2> QED BY <1>9, <1>10, <1>11, MarkedPlan DEF AfterPlanAnswer
<1>13. /\ guides' \in Nat /\ overlapped' = overlapped /\ overlapped \subseteq Episode
       /\ requests' \in 1..MaxRequests
  <2>1. requests # 0 BY DEF SeriesInv
  <2>2. guides' \in {guides, guides + 1} BY DEF End
  <2> QED BY <1>8, <2>1, <2>2, SeriesAssumption DEF End, SeriesInv, SeriesTypeOK
<1>14. /\ free \in [Call -> InFlight \cup {None}] /\ Going(free, Plan) = {}
       /\ \A e \in Episode : Going(free, e) = Going(call, e)
       /\ \A e \in Episode : \A d \in Going(call, e) : free[d] = call[d]
  <2>1. \A e \in Episode : c \notin Going(call, e) BY <1>1, <1>6 DEF Going
  <2>2. /\ free \in [Call -> InFlight \cup {None}]
        /\ \A y : Going(free, y) = Going(call, y) \ {c}
        /\ \A y : \A d \in Going(call, y) \ {c} : free[d] = call[d]
    BY Left
  <2> HIDE DEF free
  <2> QED BY <1>7, <2>1, <2>2
<1> HIDE DEF t, m
<1>15. Whole(t, overlapped) /\ Whole(m, overlapped)
  <2>1. t.status \in Ready => t.guide # 0 /\ t.roadmap
    BY <1>3, <1>8, <1>9 DEF Whole, Ready, AfterPlanAnswer
  <2>2. t.grade \in {0, t.guide} BY <1>3, <1>5, <1>9 DEF Whole, PlanSound, AfterPlanAnswer
  <2> QED BY <1>3, <1>9, <1>12, <2>1, <2>2 DEF Whole, AfterPlanAnswer
<1>16. \A s, calls : /\ s.pre = series.pre
                     /\ \A e \in Episode : Going(calls, e) = Going(call, e)
                     /\ \A e \in Episode : \A d \in Going(call, e) : calls[d] = call[d]
                     => EpisodesSound(s, calls, overlapped)
  BY <1>3 DEF EpisodesSound, EpisodeSound
<1>17. ASSUME crashes = 0
       PROVE  /\ series.status = "planning" => f.chain
              /\ \A q \in Pass : m.marks[q] # "running"
              /\ \A e \in Episode, p \in Pass :
                   series.pre[e] # None /\ series.pre[e].marks[p] = "running"
                     => \E d \in Going(call, e) : call[d].pass = p
  <2>1. Driven(series, call) BY <1>17 DEF SeriesInv
  <2>2. \A q \in Pass : series.marks[q] = "running" => q = f.pass BY <1>7, <2>1 DEF Driven
  <2>3. \A q \in Pass : m.marks[q] # "running" BY <1>9, <1>10, <1>12, <2>2 DEF AfterPlanAnswer
  <2> QED BY <1>7, <2>1, <2>3 DEF Driven
<1>18. m.pre = series.pre BY <1>9, <1>12 DEF AfterPlanAnswer
<1>19. CASE GoesOn(f, ok) /\ Startable(m, Plan, f.pass + 1)
  <2>1. f.chain /\ f.pass \in 1..3 /\ (ok \/ f.pass = 3) BY <1>2, <1>19 DEF GoesOn
  <2>2. f.pass + 1 \in 2..4 /\ f.pass + 1 \in Pass BY <2>1 DEF Pass
  <2>3. g \in InFlight /\ g.of = Plan /\ g.pass = f.pass + 1 /\ g.chain /\ g.guide = m.guide
    <3>1. m.guide \in Nat BY <1>12 DEF Series
    <3> QED BY <2>2, <3>1 DEF InFlight
  <2>4. /\ n \in Series /\ n.status = m.status /\ n.guide = m.guide /\ n.grade = m.grade
        /\ n.roadmap = m.roadmap /\ n.pre = m.pre
        /\ n.marks[f.pass + 1] = "running"
        /\ \A q \in Pass \ {f.pass + 1} : n.marks[q] = m.marks[q]
    <3>1. "running" \in Mark BY DEF Mark
    <3> HIDE DEF f
    <3> QED BY <1>12, <2>2, <3>1, MarkedPlan
  <2>5. Write(<<t, m, n>>, on)
    <3>1. Answered(series, f, ok) = t BY <1>1 DEF Answered, t
    <3>2. Marked(t, f.of, f.pass, Outcome(ok)) = m BY <1>1 DEF m
    <3>3. Begun(m, f.of, f.pass + 1) = n BY <1>1 DEF Begun
    <3>4. Joined(m, c, f.of, f.pass + 1, TRUE) = on BY <1>1 DEF Joined, With
    <3>5. GoesOn(f, ok) /\ Startable(m, f.of, f.pass + 1) BY <1>1, <1>19
    <3>6. ~(f.of = Plan /\ f.chain /\ f.pass = 4) BY <1>2, <1>19 DEF GoesOn
    <3> HIDE DEF n, on
    <3> QED BY <3>1, <3>2, <3>3, <3>4, <3>5, <3>6 DEF End
  <2>6. Wrote({t, m}, n, on) BY <2>5, WriteThree
  <2> HIDE DEF g, n
  <2>7. /\ on \in [Call -> InFlight \cup {None}] /\ on[c] = g
        /\ \A y : Going(on, y) = Going(call, y)
        /\ \A y : \A d \in Going(call, y) \ {c} : on[d] = call[d]
    BY <1>1, <2>3, Replaced
  <2> HIDE DEF on, f
  <2>8. \A e \in Episode : \A d \in Going(call, e) : on[d] = call[d]
    BY <1>1, <1>6, <2>7 DEF Going, f
  <2>9. EpisodesSound(n, on, overlapped) BY <1>16, <1>18, <2>4, <2>7, <2>8
  <2>10. Alone(on, overlapped) BY <1>3, <2>7 DEF Alone
  <2>11. PlanSound(n, g)
    BY <1>5, <1>8, <1>9, <1>12, <2>1, <2>3, <2>4 DEF PlanSound, AfterPlanAnswer
  <2>12. PlansSound(n, on) BY <1>7, <2>7, <2>11 DEF PlansSound
  <2>13. Whole(n, overlapped) BY <1>15, <2>4 DEF Whole
  <2>14. ASSUME crashes = 0 PROVE Driven(n, on)
    BY <1>7, <1>17, <1>18, <2>3, <2>4, <2>7, <2>8, <2>14 DEF Driven
  <2> QED
    BY <1>9, <1>12, <1>13, <1>15, <2>4, <2>6, <2>7, <2>9, <2>10, <2>12, <2>13, <2>14, WriteKeeps
    DEF SeriesInv, AfterPlanAnswer
<1>20. Alone(free, overlapped) BY <1>3, <1>14 DEF Alone
<1>21. \A s : PlansSound(s, free) BY <1>14 DEF PlansSound
<1>22. CASE ~(GoesOn(f, ok) /\ Startable(m, Plan, f.pass + 1)) /\ f.chain /\ f.pass = 4
  <2>1. /\ w \in Series /\ w.status = "planned" /\ w.guide = m.guide /\ w.grade = m.grade
        /\ w.roadmap = m.roadmap /\ w.pre = m.pre /\ w.marks = m.marks
    BY <1>12 DEF Series, Ready
  <2>2. Write(<<t, m, w>>, free)
    BY <1>1, <1>22 DEF End, Answered, With, t, m
  <2>3. Wrote({t, m}, w, free) BY <2>2, WriteThree
  <2> HIDE DEF w, free, f
  <2>4. EpisodesSound(w, free, overlapped) BY <1>14, <1>16, <1>18, <2>1
  <2>5. m.guide # 0 /\ m.roadmap BY <1>5, <1>9, <1>12, <1>22 DEF PlanSound, AfterPlanAnswer
  <2>6. Whole(w, overlapped) BY <1>15, <2>1, <2>5 DEF Whole
  <2>7. ASSUME crashes = 0 PROVE Driven(w, free)
    BY <1>14, <1>17, <1>18, <2>1, <2>7 DEF Driven
  <2> QED
    BY <1>9, <1>12, <1>13, <1>14, <1>15, <1>20, <1>21, <2>1, <2>3, <2>4, <2>6, <2>7, WriteKeeps
    DEF SeriesInv, AfterPlanAnswer
<1>23. CASE /\ ~(GoesOn(f, ok) /\ Startable(m, Plan, f.pass + 1))
            /\ ~(f.chain /\ f.pass = 4)
  <2>1. Write(<<t, m>>, free)
    BY <1>1, <1>23 DEF End, Answered, With, t, m
  <2>2. Wrote({t}, m, free) BY <2>1, WriteTwo
  <2> HIDE DEF free, f
  <2>3. EpisodesSound(m, free, overlapped) BY <1>14, <1>16, <1>18
  <2>4. f.chain => f.pass \in {1, 2} /\ ~ok
    <3> SUFFICES ASSUME f.chain, ~(f.pass \in {1, 2} /\ ~ok) PROVE FALSE OBVIOUS
    <3>1. f.pass \in {1, 2, 3} /\ (ok \/ f.pass = 3) BY <1>2, <1>23
    <3>2. GoesOn(f, ok) BY <1>1, <3>1 DEF GoesOn
    <3>3. m.guide # 0 \/ f.pass = 2 BY <1>5, <1>8, <1>9, <1>12, <3>1 DEF PlanSound, AfterPlanAnswer
    <3>4. f.pass = 2 => m.roadmap BY <1>9, <1>12, <3>1 DEF AfterPlanAnswer
    <3>5. Startable(m, Plan, f.pass + 1)
      <4>1. CASE f.pass = 1 BY <3>3, <4>1 DEF Startable
      <4>2. CASE f.pass = 2 BY <3>4, <4>2 DEF Startable
      <4>3. CASE f.pass = 3 BY <3>3, <4>3 DEF Startable
      <4> QED BY <3>1, <4>1, <4>2, <4>3
    <3> QED BY <1>23, <3>2, <3>5
  <2>5. ASSUME crashes = 0 PROVE Driven(m, free)
    <3>1. m.status # "planning" BY <1>9, <1>12, <1>17, <2>4, <2>5 DEF AfterPlanAnswer
    <3> QED BY <1>14, <1>17, <1>18, <2>5, <3>1 DEF Driven
  <2> QED
    BY <1>9, <1>12, <1>13, <1>14, <1>15, <1>20, <1>21, <2>2, <2>3, <2>5, WriteKeeps
    DEF SeriesInv, AfterPlanAnswer
<1> QED BY <1>19, <1>22, <1>23

(* A pass of an episode whose model has answered.                           *)
LEMMA EndEpisodeKeeps ==
  ASSUME SeriesInv, NEW c \in Call, NEW ok \in BOOLEAN, End(c, ok),
         series # None, call[c].of # Plan
  PROVE  SeriesInv'
<1> DEFINE f == call[c]
           e == f.of
           t == EpisodeAnswered(series, f, ok)
           m == Marked(t, e, f.pass, Outcome(ok))
           g == [of |-> e, pass |-> f.pass + 1, chain |-> TRUE, guide |-> m.guide]
           n == Marked(m, e, f.pass + 1, "running")
           free == With(c, None)
           on == With(c, g)
<1>1. series \in Series /\ f \in InFlight /\ f # None /\ e \in Episode /\ e # Plan
  <2>1. series \in Series /\ f \in InFlight /\ f # None BY DEF End, SeriesInv, SeriesTypeOK
  <2> QED BY <2>1 DEF InFlight
<1>2. f.pass \in Pass /\ f.pass \in 1..4 BY <1>1 DEF InFlight, Pass
<1>3. Whole(series, overlapped) /\ PlansSound(series, call)
      /\ EpisodesSound(series, call, overlapped) /\ Alone(call, overlapped)
  BY DEF SeriesInv, Sound
<1>4. c \in Going(call, e) BY <1>1 DEF Going
<1>5. EpisodeSound(series, f, overlapped) BY <1>1, <1>3, <1>4 DEF EpisodesSound
<1>6. series.pre[e] # None BY <1>5 DEF EpisodeSound
<1>7. /\ t \in Series
      /\ t.status = series.status /\ t.guide = series.guide /\ t.grade = series.grade
      /\ t.roadmap = series.roadmap /\ t.marks = series.marks
      /\ \A d \in Episode \ {e} : t.pre[d] = series.pre[d]
      /\ t.pre[e] # None /\ t.pre[e].marks = series.pre[e].marks
      /\ series.pre[e].has \subseteq t.pre[e].has
      /\ t.pre[e].status = "complete" => f.pass = 4
  <2> HIDE DEF f
  <2> QED BY <1>1, <1>6, EpisodeAnswer
<1>8. Outcome(ok) \in Mark /\ Outcome(ok) # "running" BY DEF Outcome, Mark
<1> HIDE DEF t
<1>9. /\ m \in Series /\ m.status = series.status /\ m.guide = series.guide
      /\ m.grade = series.grade /\ m.roadmap = series.roadmap /\ m.marks = series.marks
      /\ \A d \in Episode \ {e} : m.pre[d] = series.pre[d]
      /\ m.pre[e] # None /\ m.pre[e].status = t.pre[e].status /\ m.pre[e].has = t.pre[e].has
      /\ m.pre[e].marks[f.pass] = Outcome(ok)
      /\ \A q \in Pass \ {f.pass} : m.pre[e].marks[q] = series.pre[e].marks[q]
  <2>1. /\ m \in Series
        /\ m.status = t.status /\ m.guide = t.guide /\ m.grade = t.grade
        /\ m.roadmap = t.roadmap /\ m.marks = t.marks
        /\ \A d \in Episode \ {e} : m.pre[d] = t.pre[d]
        /\ m.pre[e] # None
        /\ m.pre[e].status = t.pre[e].status /\ m.pre[e].has = t.pre[e].has
        /\ m.pre[e].marks[f.pass] = Outcome(ok)
        /\ \A q \in Pass \ {f.pass} : m.pre[e].marks[q] = t.pre[e].marks[q]
    <3> HIDE DEF e, f
    <3> QED BY <1>1, <1>2, <1>7, <1>8, MarkedEpisode
  <2> HIDE DEF m, e, f
  <2> QED BY <1>7, <2>1
<1>10. /\ guides' \in Nat /\ overlapped' = overlapped /\ overlapped \subseteq Episode
       /\ requests' \in 1..MaxRequests
  <2>1. requests # 0 BY DEF SeriesInv
  <2>2. guides' = guides BY <1>1 DEF End
  <2> QED BY <2>1, <2>2, SeriesAssumption DEF End, SeriesInv, SeriesTypeOK
<1>11. Answered(series, f, ok) = t BY <1>1 DEF Answered, t
<1>12. \A d \in Going(call, e) : d = c \/ e \in overlapped BY <1>1, <1>3, <1>4 DEF Alone
<1>13. c \notin Going(call, Plan) /\ \A x \in Episode \ {e} : c \notin Going(call, x)
  BY DEF Going
<1> HIDE DEF m
<1>14. Whole(t, overlapped) /\ Whole(m, overlapped)
  <2>1. ASSUME e \notin overlapped, t.pre[e].status = "complete" PROVE t.pre[e].has = Part
    <3>1. t.pre[e] \in PreProduction BY <1>1, <1>7 DEF Series
    <3>2. t.pre[e].has \subseteq Part BY <3>1 DEF PreProduction
    <3>3. series.pre[e].has = Part BY <1>5, <1>7, <2>1 DEF EpisodeSound
    <3> QED BY <1>7, <3>2, <3>3
  <2> HIDE DEF e
  <2> QED BY <1>3, <1>7, <1>9, <2>1 DEF Whole
<1>15. ASSUME NEW s, NEW calls, s.marks = series.marks, s.guide = series.guide,
              s.roadmap = series.roadmap, Going(calls, Plan) = Going(call, Plan),
              \A d \in Going(call, Plan) : calls[d] = call[d]
       PROVE  PlansSound(s, calls)
  BY <1>3, <1>15 DEF PlansSound, PlanSound
<1>16. ASSUME NEW s, NEW calls, \A x \in Episode \ {e} : s.pre[x] = series.pre[x],
              s.pre[e] # None,
              \A y : \A d \in Going(calls, y) \ {c} : d \in Going(call, y) /\ calls[d] = call[d],
              c \in Going(calls, e) => EpisodeSound(s, calls[c], overlapped),
              \A x \in Episode \ {e} : c \notin Going(calls, x)
       PROVE  EpisodesSound(s, calls, overlapped)
  <2> SUFFICES ASSUME NEW x \in Episode, NEW d \in Going(calls, x)
               PROVE  EpisodeSound(s, calls[d], overlapped)
    BY DEF EpisodesSound
  <2> HIDE DEF e
  <2>1. CASE d = c BY <1>16, <2>1
  <2>2. CASE d # c
    <3>1. d \in Going(call, x) /\ calls[d] = call[d] BY <1>16, <2>2
    <3>2. call[d].of = x /\ EpisodeSound(series, call[d], overlapped)
      BY <1>3, <3>1 DEF EpisodesSound, Going
    <3>3. x = e => e \in overlapped BY <1>12, <2>2, <3>1
    <3> QED BY <1>16, <3>1, <3>2, <3>3 DEF EpisodeSound
  <2> QED BY <2>1, <2>2
<1>17. ASSUME NEW s, NEW calls, crashes = 0, s.status = series.status, s.marks = series.marks,
              \A x \in Episode \ {e} : s.pre[x] = series.pre[x], s.pre[e] # None,
              \A y : \A d \in Going(call, y) \ {c} : d \in Going(calls, y) /\ calls[d] = call[d],
              \A q \in Pass : s.pre[e].marks[q] = "running" =>
                \/ q # f.pass /\ series.pre[e].marks[q] = "running"
                \/ \E d \in Going(calls, e) : calls[d].pass = q
       PROVE  Driven(s, calls)
  <2>1. Driven(series, call) BY <1>1, <1>17 DEF SeriesInv
  <2>2. Going(call, Plan) \ {c} = Going(call, Plan) BY <1>13
  <2>3. s.status = "planning" => \E d \in Going(calls, Plan) : calls[d].chain
    BY <1>17, <2>1, <2>2 DEF Driven
  <2>4. \A q \in Pass : s.marks[q] = "running" => \E d \in Going(calls, Plan) : calls[d].pass = q
    BY <1>17, <2>1, <2>2 DEF Driven
  <2>5. ASSUME NEW x \in Episode, NEW q \in Pass, s.pre[x] # None, s.pre[x].marks[q] = "running"
        PROVE  \E d \in Going(calls, x) : calls[d].pass = q
    <3>1. CASE x = e
      <4>1. CASE \E d \in Going(calls, e) : calls[d].pass = q BY <3>1, <4>1
      <4>2. CASE q # f.pass /\ series.pre[e].marks[q] = "running"
        <5>1. PICK d \in Going(call, e) : call[d].pass = q BY <1>1, <1>6, <2>1, <4>2 DEF Driven
        <5>2. d # c BY <4>2, <5>1
        <5> QED BY <1>17, <3>1, <5>1, <5>2
      <4> QED BY <1>17, <2>5, <3>1, <4>1, <4>2
    <3>2. CASE x # e
      <4>1. PICK d \in Going(call, x) : call[d].pass = q BY <1>17, <2>1, <2>5, <3>2 DEF Driven
      <4>2. d # c BY <1>13, <3>2
      <4> QED BY <1>17, <4>1, <4>2
    <3> QED BY <3>1, <3>2
  <2> QED BY <2>3, <2>4, <2>5 DEF Driven
<1>18. \A q \in Pass : m.pre[e].marks[q] = "running" =>
         q # f.pass /\ series.pre[e].marks[q] = "running"
  <2> HIDE DEF e, f
  <2> QED BY <1>8, <1>9
<1>19. CASE GoesOn(f, ok) /\ Startable(m, e, f.pass + 1)
  <2>1. f.pass + 1 \in Pass /\ f.pass + 1 \in 2..4 BY <1>2, <1>19 DEF GoesOn, Pass
  <2>2. g \in InFlight /\ g.of = e /\ g.pass = f.pass + 1
    <3>1. m.guide \in Nat BY <1>9 DEF Series
    <3> HIDE DEF e
    <3> QED BY <1>1, <2>1, <3>1 DEF InFlight
  <2>3. /\ n \in Series /\ n.status = m.status /\ n.guide = m.guide /\ n.grade = m.grade
        /\ n.roadmap = m.roadmap /\ n.marks = m.marks
        /\ \A d \in Episode \ {e} : n.pre[d] = m.pre[d]
        /\ n.pre[e] # None
        /\ n.pre[e].status = m.pre[e].status /\ n.pre[e].has = m.pre[e].has
        /\ n.pre[e].marks[f.pass + 1] = "running"
        /\ \A q \in Pass \ {f.pass + 1} : n.pre[e].marks[q] = m.pre[e].marks[q]
    <3>1. "running" \in Mark BY DEF Mark
    <3> HIDE DEF f, e
    <3> QED BY <1>1, <1>9, <2>1, <3>1, MarkedEpisode
  <2>4. Write(<<t, m, n>>, on)
    <3>1. Answered(series, f, ok) = t BY <1>11
    <3>2. Marked(t, f.of, f.pass, Outcome(ok)) = m BY <1>1 DEF m
    <3>3. Begun(m, f.of, f.pass + 1) = n BY <1>1 DEF Begun
    <3>4. Joined(m, c, f.of, f.pass + 1, TRUE) = on BY <1>1 DEF Joined, With
    <3>5. GoesOn(f, ok) /\ Startable(m, f.of, f.pass + 1) BY <1>1, <1>19
    <3>6. ~(f.of = Plan /\ f.chain /\ f.pass = 4) BY <1>2, <1>19 DEF GoesOn
    <3> HIDE DEF n, on, g, free, e
    <3> QED BY <3>1, <3>2, <3>3, <3>4, <3>5, <3>6 DEF End
  <2>5. Wrote({t, m}, n, on) BY <2>4, WriteThree
  <2>6. ASSUME f.pass + 1 = 4 PROVE n.pre[e].has = Part
    <3> HIDE DEF n, e
    <3>1. Startable(m, e, 4) BY <1>19, <2>6
    <3>2. m.pre[e].has = Part BY <1>1, <3>1 DEF Startable
    <3> QED BY <2>3, <3>2
  <2> HIDE DEF g, n
  <2>7. /\ on \in [Call -> InFlight \cup {None}] /\ on[c] = g
        /\ \A y : Going(on, y) = Going(call, y)
        /\ \A y : \A d \in Going(call, y) \ {c} : on[d] = call[d]
    BY <1>1, <2>2, Replaced
  <2> HIDE DEF on
  <2>8. EpisodeSound(n, g, overlapped) BY <2>2, <2>3, <2>6 DEF EpisodeSound
  <2> HIDE DEF e
  <2>9. EpisodesSound(n, on, overlapped) BY <1>9, <1>13, <1>16, <2>3, <2>7, <2>8
  <2>10. PlansSound(n, on) BY <1>9, <1>13, <1>15, <2>3, <2>7
  <2>11. Alone(on, overlapped) BY <1>3, <2>7 DEF Alone
  <2>12. Whole(n, overlapped) BY <1>14, <2>3, <1>9 DEF Whole
  <2>13. ASSUME crashes = 0 PROVE Driven(n, on)
    <3>1. \A q \in Pass : n.pre[e].marks[q] = "running" =>
            \/ q # f.pass /\ series.pre[e].marks[q] = "running"
            \/ \E d \in Going(on, e) : on[d].pass = q
      BY <1>4, <1>18, <2>2, <2>3, <2>7
    <3>2. \A x \in Episode \ {e} : n.pre[x] = series.pre[x] BY <1>9, <2>3
    <3>3. n.status = series.status /\ n.marks = series.marks BY <1>9, <2>3
    <3>4. \A y : \A d \in Going(call, y) \ {c} : d \in Going(on, y) /\ on[d] = call[d] BY <2>7
    <3> QED BY <1>17, <2>3, <2>13, <3>1, <3>2, <3>3, <3>4
  <2> QED
    BY <1>7, <1>9, <1>10, <1>14, <2>3, <2>5, <2>7, <2>9, <2>10, <2>11, <2>12, <2>13, WriteKeeps
    DEF SeriesInv
<1>20. CASE ~(GoesOn(f, ok) /\ Startable(m, e, f.pass + 1))
  <2>1. Write(<<t, m>>, free)
    BY <1>1, <1>11, <1>20 DEF End, With, m
  <2>2. Wrote({t}, m, free) BY <2>1, WriteTwo
  <2>3. /\ free \in [Call -> InFlight \cup {None}]
        /\ \A y : Going(free, y) = Going(call, y) \ {c}
        /\ \A y : \A d \in Going(call, y) \ {c} : free[d] = call[d]
    BY Left
  <2> HIDE DEF free, e
  <2>4. EpisodesSound(m, free, overlapped) BY <1>9, <1>16, <2>3
  <2>5. PlansSound(m, free) BY <1>9, <1>13, <1>15, <2>3
  <2>6. Alone(free, overlapped) BY <1>3, <2>3 DEF Alone
  <2>7. ASSUME crashes = 0 PROVE Driven(m, free)
    BY <1>9, <1>17, <1>18, <2>3, <2>7
  <2> QED
    BY <1>7, <1>9, <1>10, <1>14, <2>2, <2>3, <2>4, <2>5, <2>6, <2>7, WriteKeeps DEF SeriesInv
<1> QED BY <1>19, <1>20

(* The answer to a pass of a series that has been deleted.                  *)
LEMMA EndOfDeletedKeeps ==
  ASSUME SeriesInv, NEW c \in Call, NEW ok \in BOOLEAN, End(c, ok), series = None
  PROVE  SeriesInv'
<1> DEFINE free == With(c, None)
<1>1. /\ series' = None /\ call' = free
      /\ UNCHANGED <<crashes, guides, overlapped, requests>>
  BY DEF End, With
<1>2. free \in [Call -> InFlight \cup {None}] /\ \A y : Going(free, y) \subseteq Going(call, y)
  BY Left
<1>3. requests # 0 BY DEF End, SeriesInv
<1> HIDE DEF free
<1>4. Alone(free, overlapped) BY <1>2 DEF SeriesInv, Alone
<1> QED BY <1>1, <1>2, <1>3, <1>4 DEF SeriesInv, SeriesTypeOK
-----------------------------------------------------------------------------
LEMMA SeriesInvariant == Spec => []SeriesInv
<1>1. Init => SeriesInv
  <2> SUFFICES ASSUME Init PROVE SeriesInv OBVIOUS
  <2>1. \A x : Going(call, x) = {} BY DEF Init, Going
  <2>2. Alone(call, overlapped) BY <2>1 DEF Alone
  <2> QED BY <2>2, SeriesAssumption DEF Init, SeriesInv, SeriesTypeOK
<1>2. SeriesInv /\ [Next]_vars => SeriesInv'
  <2> SUFFICES ASSUME SeriesInv, [Next]_vars PROVE SeriesInv' OBVIOUS
  <2>1. ASSUME NEW c \in Call, Create(c) PROVE SeriesInv' BY <2>1, CreateKeeps
  <2>2. ASSUME NEW c \in Call, NEW x \in Episode \cup {Plan}, NEW p \in Pass, Rerun(c, x, p)
        PROVE  SeriesInv'
    BY <2>2, RerunPlanKeeps, RerunEpisodeKeeps
  <2>3. ASSUME NEW c \in Call, NEW e \in Episode, PreProduce(c, e) PROVE SeriesInv'
    BY <2>3, PreProduceKeeps
  <2>4. ASSUME NEW c \in Call, NEW ok \in BOOLEAN, End(c, ok) PROVE SeriesInv'
    BY <2>4, EndPlanKeeps, EndEpisodeKeeps, EndOfDeletedKeeps
  <2>5. ASSUME NEW e \in Episode, Produce(e) PROVE SeriesInv' BY <2>5, ProduceKeeps
  <2>6. CASE Delete BY <2>6, DeleteKeeps
  <2>7. CASE Crash BY <2>7, CrashKeeps
  <2>8. CASE UNCHANGED vars
    BY <2>8 DEF vars, SeriesInv, SeriesTypeOK, Alone, Going, Whole, Sound, PlansSound, PlanSound,
                EpisodesSound, EpisodeSound, Driven
  <2> QED BY <2>1, <2>2, <2>3, <2>4, <2>5, <2>6, <2>7, <2>8 DEF Next
<1> QED BY <1>1, <1>2, PTL DEF Spec

(* Every variable keeps its type.                                           *)
THEOREM SeriesTypeCorrect == Spec => []SeriesTypeOK
<1>1. SeriesInv => SeriesTypeOK BY DEF SeriesInv
<1> QED BY <1>1, SeriesInvariant, PTL

(* The passes of the series, and those of an episode, do not overlap unless *)
(* a pre-production was started over one in flight.                         *)
THEOREM PassesDoNotOverlap == Spec => []OnePassAtATime
<1>1. SeriesInv => OnePassAtATime
  BY DEF SeriesInv, Alone, OnePassAtATime, Going, CallsOf
<1> QED BY <1>1, SeriesInvariant, PTL

(* What is ready to be produced, graded or complete is whole.               *)
THEOREM ReadyStaysWhole == Spec => []ReadyIsWhole
<1>1. SeriesInv => ReadyIsWhole BY DEF SeriesInv, Whole, ReadyIsWhole
<1> QED BY <1>1, SeriesInvariant, PTL

(* What is shown in progress is worked on until the process dies.           *)
THEOREM ProgressIsDriven == Spec => []InProgressIsDriven
<1>1. SeriesInv => InProgressIsDriven
  BY DEF SeriesInv, Driven, InProgressIsDriven, Going, CallsOf
<1> QED BY <1>1, SeriesInvariant, PTL
-----------------------------------------------------------------------------
(***************************************************************************)
(* Under FairSpec planning ends.  The planner's passes follow each other   *)
(* in one call, and the others leave that call alone.                      *)
(***************************************************************************)
(* Calls are taken in a fixed order, so planSeries has the first of them.   *)
First == CHOOSE c \in Call : TRUE
Plans(c) == call[c] # None /\ call[c].of = Plan /\ call[c].chain
PlanIsFirst == \A c \in Call : Plans(c) => c = First

(* The call that the first request takes.                                   *)
LEMMA FirstUnused ==
  ASSUME NEW c \in Call, \A d \in Call : call[d] = None, Unused(c) PROVE c = First
<1>1. \A d : (d \in Call /\ call[d] = None) <=> (d \in Call /\ TRUE)
  OBVIOUS
<1>2. (CHOOSE d : d \in Call /\ call[d] = None) = (CHOOSE d : d \in Call /\ TRUE)
  BY <1>1, Zenon
<1>3. QED
  BY <1>2, Zenon DEF Unused, First

(* A write leaves the passes in flight that it names, or none.              *)
LEMMA CallsWritten ==
  ASSUME NEW entries, NEW calls, Write(entries, calls)
  PROVE  call' = calls \/ \A d \in Call : call'[d] = None
  BY DEF Write

(* A pass that begins leaves the others alone.                              *)
LEMMA OthersStay ==
  ASSUME SeriesInv, NEW c \in Call, NEW d \in Call, NEW f, call[d] = None, c # d,
         NEW entries, Write(entries, [call EXCEPT ![d] = f]), call'[c] # None
  PROVE  call'[c] = call[c]
  BY CallsWritten DEF SeriesInv, SeriesTypeOK

(* The pass that goes on after one that has ended.                          *)
Follows(g, f) ==
  f.chain /\ f.pass < 4
  /\ g = [of |-> f.of, pass |-> f.pass + 1, chain |-> TRUE, guide |-> g.guide]

(* The end of a pass frees its call or begins the next pass in it.          *)
LEMMA EndMoves ==
  ASSUME SeriesInv, NEW c \in Call, NEW d \in Call, NEW ok \in BOOLEAN, End(d, ok),
         call'[c] # None
  PROVE  (c # d => call'[c] = call[c]) /\ (c = d => Follows(call'[c], call[c]))
<1>1. call \in [Call -> InFlight \cup {None}]
  BY DEF SeriesInv, SeriesTypeOK
<1> DEFINE f == call[d]
           free == [call EXCEPT ![d] = None]
<1>2. \/ call' = free \/ \A x \in Call : call'[x] = None
      \/ \E m : GoesOn(f, ok) /\ call' = Joined(m, d, f.of, f.pass + 1, TRUE)
  <2> DEFINE written == Answered(series, f, ok)
             marked == Marked(written, f.of, f.pass, Outcome(ok))
  <2> HIDE DEF written, marked
  <2>1. \/ call' = free
        \/ GoesOn(f, ok) /\ \E e : Write(e, Joined(marked, d, f.of, f.pass + 1, TRUE))
        \/ \E e : Write(e, free)
    BY DEF End, written, marked
  <2>2. QED
    BY <2>1, CallsWritten
<1>3. free[d] = None /\ \A x \in Call \ {d} : free[x] = call[x]
  BY <1>1
<1>4. ASSUME NEW m, GoesOn(f, ok), call' = Joined(m, d, f.of, f.pass + 1, TRUE)
      PROVE  (c # d => call'[c] = call[c]) /\ (c = d => Follows(call'[c], call[c]))
  <2> DEFINE g == [of |-> f.of, pass |-> f.pass + 1, chain |-> TRUE, guide |-> m.guide]
  <2>1. call' = [call EXCEPT ![d] = g]
    BY <1>4 DEF Joined
  <2>2. Follows(g, f)
    BY <1>4 DEF GoesOn, Follows
  <2> HIDE DEF g, f
  <2>3. call'[d] = g /\ \A x \in Call \ {d} : call'[x] = call[x]
    BY <1>1, <2>1
  <2>4. QED
    BY <2>2, <2>3 DEF f
<1> HIDE DEF f, free
<1>5. CASE call' = free
  BY <1>3, <1>5
<1>6. CASE \E m : GoesOn(f, ok) /\ call' = Joined(m, d, f.of, f.pass + 1, TRUE)
  BY <1>4, <1>6
<1>7. QED
  BY <1>2, <1>5, <1>6

(* What a step does to a pass that was in flight.                           *)
LEMMA PassMoves ==
  ASSUME SeriesInv, [Next]_vars, NEW c \in Call, call[c] # None, call'[c] # None
  PROVE  call'[c] = call[c] \/ Follows(call'[c], call[c])
<1>1. ASSUME NEW d \in Call, Create(d) \/ (\E x \in Episode \cup {Plan}, p \in Pass : Rerun(d, x, p))
                               \/ (\E e \in Episode : PreProduce(d, e))
      PROVE  call'[c] = call[c]
  <2>1. call[d] = None /\ c # d
    BY <1>1 DEF Create, Rerun, PreProduce, Unused
  <2>2. \E e, f : Write(e, [call EXCEPT ![d] = f])
    <3>1. CASE Create(d)
      BY <3>1 DEF Create, Joined
    <3>2. ASSUME NEW x \in Episode \cup {Plan}, NEW p \in Pass, Rerun(d, x, p)
          PROVE  \E e, f : Write(e, [call EXCEPT ![d] = f])
      BY <3>2 DEF Rerun, Joined
    <3>3. ASSUME NEW e \in Episode, PreProduce(d, e)
          PROVE  \E u, f : Write(u, [call EXCEPT ![d] = f])
      BY <3>3 DEF PreProduce, Joined
    <3>4. QED
      BY <1>1, <3>1, <3>2, <3>3
  <2>3. QED
    BY <2>1, <2>2, OthersStay
<1>2. ASSUME NEW d \in Call, NEW ok \in BOOLEAN, End(d, ok)
      PROVE  call'[c] = call[c] \/ Follows(call'[c], call[c])
  BY <1>2, EndMoves
<1>3. CASE UNCHANGED vars \/ Delete \/ \E e \in Episode : Produce(e)
  BY <1>3 DEF vars, Delete, Produce
<1>4. CASE Crash
  BY <1>4 DEF Crash
<1>5. QED
  BY <1>1, <1>2, <1>3, <1>4 DEF Next

(* No sequence of the planner begins but the one of createSeries.           *)
LEMMA PlanStaysFirst == SeriesInv /\ PlanIsFirst /\ [Next]_vars => PlanIsFirst'
<1> SUFFICES ASSUME SeriesInv, PlanIsFirst, [Next]_vars, NEW c \in Call, Plans(c)'
             PROVE  c = First
  BY DEF PlanIsFirst
<1>1. CASE call[c] # None
  <2>1. call'[c] # None /\ call'[c].of = Plan /\ call'[c].chain
    BY DEF Plans
  <2>2. CASE call'[c] = call[c]
    BY <1>1, <2>1, <2>2 DEF Plans, PlanIsFirst
  <2>3. CASE Follows(call'[c], call[c])
    <3>1. call'[c].of = call[c].of /\ call[c].chain
      BY <2>3 DEF Follows
    <3>2. QED
      BY <1>1, <2>1, <3>1 DEF Plans, PlanIsFirst
  <2>4. QED
    BY <1>1, <2>1, <2>2, <2>3, PassMoves
<1>2. CASE call[c] = None
  <2>1. ASSUME NEW d \in Call, NEW ok \in BOOLEAN, End(d, ok) PROVE FALSE
    <3>1. call'[c] # None
      BY DEF Plans
    <3>2. call[d] # None
      BY <2>1 DEF End
    <3>3. QED
      BY <1>2, <2>1, <3>1, <3>2, EndMoves
  <2>2. ASSUME NEW d \in Call, Create(d) PROVE c = First
    <3>1. \A x \in Call : call[x] = None
      BY <2>2 DEF Create, SeriesInv
    <3>2. d = First
      BY <2>2, <3>1, FirstUnused DEF Create
    <3>3. \E e, f : Write(e, [call EXCEPT ![d] = f])
      BY <2>2 DEF Create, Joined
    <3>4. QED
      BY <1>2, <3>1, <3>2, <3>3, OthersStay DEF Plans
  <2>3. ASSUME NEW d \in Call, NEW x \in Episode \cup {Plan}, NEW p \in Pass, Rerun(d, x, p)
        PROVE  FALSE
    <3> DEFINE f == [of |-> x, pass |-> p, chain |-> FALSE, guide |-> series.guide]
    <3>1. call[d] = None /\ \E e : Write(e, [call EXCEPT ![d] = f])
      BY <2>3 DEF Rerun, Joined, Unused
    <3> HIDE DEF f
    <3>2. c = d
      BY <1>2, <3>1, OthersStay DEF Plans
    <3>3. call'[c] = f
      BY <3>1, <3>2, CallsWritten DEF SeriesInv, SeriesTypeOK, Plans
    <3>4. QED
      BY <3>3 DEF Plans, f
  <2>4. ASSUME NEW d \in Call, NEW e \in Episode, PreProduce(d, e) PROVE FALSE
    <3>1. call[d] = None
      BY <2>4 DEF PreProduce, Unused
    <3>2. PICK f, u : f.of = e /\ Write(u, [call EXCEPT ![d] = f])
      BY <2>4 DEF PreProduce, Joined
    <3>3. c = d
      BY <1>2, <3>1, <3>2, OthersStay DEF Plans
    <3>4. call'[c] = f
      BY <3>2, <3>3, CallsWritten DEF SeriesInv, SeriesTypeOK, Plans
    <3>5. QED
      BY <3>2, <3>4, SeriesAssumption DEF Plans
  <2>5. CASE UNCHANGED vars \/ Delete \/ \E e \in Episode : Produce(e)
    BY <1>2, <2>5 DEF vars, Delete, Produce, Plans
  <2>6. CASE Crash
    BY <2>6 DEF Crash, Plans
  <2>7. QED
    BY <2>1, <2>2, <2>3, <2>4, <2>5, <2>6 DEF Next
<1>3. QED
  BY <1>1, <1>2


(* The planner is at the pass p of its sequence.                            *)
PlannerAt(c, p) == Planning /\ crashes = 0 /\ Plans(c) /\ call[c].pass = p

(* A series in planning has its planner at some pass: ProgressIsDriven.     *)
LEMMA PlannerSomewhere ==
  ASSUME NEW c \in Call, c = First
  PROVE  SeriesInv /\ PlanIsFirst /\ Planning /\ crashes = 0 => \E p \in Pass : PlannerAt(c, p)
<1> SUFFICES ASSUME SeriesInv, PlanIsFirst, Planning, crashes = 0
             PROVE  \E p \in Pass : PlannerAt(c, p)
  OBVIOUS
<1>1. PICK d \in Going(call, Plan) : call[d].chain
  BY DEF SeriesInv, Driven, Planning
<1>2. d \in Call /\ Plans(d)
  BY <1>1 DEF Going, Plans
<1>3. d = c
  BY <1>2 DEF PlanIsFirst
<1>4. call[d].pass \in Pass
  BY <1>2 DEF Plans, SeriesInv, SeriesTypeOK, InFlight
<1>5. QED
  BY <1>2, <1>3, <1>4 DEF PlannerAt

(* A step keeps it there or takes it to the next pass, and the end of the   *)
(* pass does the latter.                                                    *)
LEMMA PlannerMoves ==
  ASSUME NEW c \in Call, NEW p \in Pass, SeriesInv, [Next]_vars, PlannerAt(c, p),
         NEW q \in Pass, PlannerAt(c, q)'
  PROVE  /\ q = p \/ (q = p + 1 /\ p < 4)
         /\ Ends(c) => q = p + 1 /\ p < 4
<1>1. call[c] # None /\ call'[c] # None /\ call[c].pass = p /\ call'[c].pass = q
  BY DEF PlannerAt, Plans
<1>2. call'[c] = call[c] \/ Follows(call'[c], call[c])
  BY <1>1, PassMoves
<1>3. ASSUME Ends(c) PROVE Follows(call'[c], call[c])
  BY <1>1, <1>3, EndMoves DEF Ends
<1>4. Follows(call'[c], call[c]) => q = p + 1 /\ p < 4
  BY <1>1 DEF Follows
<1>5. QED
  BY <1>1, <1>2, <1>3, <1>4

(* Four passes, each of them left for the next or for the end.             *)
LEMMA FirstPassesEnd ==
  ASSUME NEW c \in Call, c = First
  PROVE  FairSpec /\ []Answerable => PlanningEnds
<1> DEFINE I == SeriesInv /\ PlanIsFirst
           Over == ~Planning \/ crashes > 0
           P1 == PlannerAt(c, 1)
           P2 == PlannerAt(c, 2)
           P3 == PlannerAt(c, 3)
           P4 == PlannerAt(c, 4)
<1>1. Spec => []I
  <2>1. Init => PlanIsFirst
    BY DEF Init, PlanIsFirst, Plans
  <2>2. QED
    BY <2>1, PlanStaysFirst, SeriesInvariant, PTL DEF Spec
<1>2. FairSpec => Spec /\ Served(c)
  <2>1. (\A d \in Call : Served(d)) => Served(c)
    OBVIOUS
  <2>2. QED
    BY <2>1 DEF FairSpec, Fairness
<1>3. Answerable /\ (P1 \/ P2 \/ P3 \/ P4) => ENABLED <<Ends(c)>>_vars
  BY DEF Answerable, PlannerAt, Plans
<1>4. I => Over \/ P1 \/ P2 \/ P3 \/ P4
  <2>1. I /\ ~Over => \E p \in Pass : PlannerAt(c, p)
    BY PlannerSomewhere DEF SeriesInv, SeriesTypeOK
  <2>2. QED
    BY <2>1 DEF Pass
<1>5. I' => Over' \/ P1' \/ P2' \/ P3' \/ P4'
  BY <1>4, PTL
<1>6. I /\ I' /\ [Next]_vars =>
        /\ P1 => P1' \/ P2' \/ Over'
        /\ P2 => P2' \/ P3' \/ Over'
        /\ P3 => P3' \/ P4' \/ Over'
        /\ P4 => P4' \/ Over'
        /\ Ends(c) => /\ P1 => P2' \/ Over'
                      /\ P2 => P3' \/ Over'
                      /\ P3 => P4' \/ Over'
                      /\ P4 => Over'
  <2> SUFFICES ASSUME I, I', [Next]_vars, ~Over'
               PROVE  /\ P1 => P1' \/ P2'
                      /\ P2 => P2' \/ P3'
                      /\ P3 => P3' \/ P4'
                      /\ P4 => P4'
                      /\ Ends(c) => (P1 => P2') /\ (P2 => P3') /\ (P3 => P4') /\ ~P4
    OBVIOUS
  <2>1. \E q \in Pass : PlannerAt(c, q)'
    BY <1>5 DEF Pass
  <2>2. PICK q \in Pass : PlannerAt(c, q)'
    BY <2>1
  <2>3. \A p \in Pass : PlannerAt(c, p) => /\ q = p \/ (q = p + 1 /\ p < 4)
                                           /\ Ends(c) => q = p + 1 /\ p < 4
    BY <2>2, PlannerMoves
  <2>4. QED
    BY <2>2, <2>3 DEF Pass
<1> HIDE DEF I, P1, P2, P3, P4, Over
<1>7. FairSpec /\ []Answerable => (P4 ~> Over)
  BY <1>1, <1>2, <1>3, <1>6, PTL DEF Served, Spec
<1>8. FairSpec /\ []Answerable => (P3 ~> P4 \/ Over)
  BY <1>1, <1>2, <1>3, <1>6, PTL DEF Served, Spec
<1>9. FairSpec /\ []Answerable => (P2 ~> P3 \/ Over)
  BY <1>1, <1>2, <1>3, <1>6, PTL DEF Served, Spec
<1>10. FairSpec /\ []Answerable => (P1 ~> P2 \/ Over)
  BY <1>1, <1>2, <1>3, <1>6, PTL DEF Served, Spec
<1>11. FairSpec /\ []Answerable => (Planning ~> Over)
  BY <1>1, <1>2, <1>4, <1>7, <1>8, <1>9, <1>10, PTL
<1>12. QED
  BY <1>11 DEF PlanningEnds, Over

(* PlanningEnds: a series is not left in "planning" while the process       *)
(* lives, whatever is run again, produced or deleted meanwhile, as long as  *)
(* each model call ends; Answerable says that it always can.                *)
THEOREM PlansAreSettled == FairSpec /\ []Answerable => PlanningEnds
<1>1. CASE Call = {}
  <2>1. SeriesInv => ~Planning \/ crashes > 0
    BY <1>1 DEF SeriesInv, Driven, Going, Planning, SeriesTypeOK
  <2>2. QED
    BY <2>1, SeriesInvariant, PTL DEF PlanningEnds, FairSpec
<1>2. CASE Call # {}
  <2>1. First \in Call
    BY <1>2 DEF First
  <2>2. QED
    BY <2>1, FirstPassesEnd
<1>3. QED
  BY <1>1, <1>2
=============================================================================
