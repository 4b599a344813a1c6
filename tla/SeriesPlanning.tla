---------------------------- MODULE SeriesPlanning ----------------------------
(***************************************************************************)
(* One video series: its entry in services/series-registry.ts, the four    *)
(* planning passes of services/video-series-planner.ts, the four passes of *)
(* an episode's pre-production (services/video-episode-preproducer.ts,     *)
(* A to D here 1 to 4) and the routes of routes/series.ts that start them. *)
(* A pass runs from its request to the await of the model call, and from   *)
(* there to its last write; between the two, anything may happen.          *)
(***************************************************************************)
EXTENDS Naturals, Sequences

CONSTANTS
  Episode,      \* the episodes of the roadmap
  Plan,         \* stands for the series itself where an episode is expected
  Call,         \* ids of the passes in flight
  MaxRequests,  \* bound on requests that start a pass
  MaxCrashes,   \* bound on crashes
  None

ASSUME SeriesAssumption ==
  /\ Plan \notin Episode
  /\ MaxRequests \in Nat /\ MaxCrashes \in Nat

VARIABLES
  series,       \* the entry of the registry, which every change writes to disk
  call,         \* the passes in flight
  guides,       \* how many world guides have been made
  overlapped,   \* history: episodes started anew over a pass still in flight
  requests, crashes

vars == <<series, call, guides, overlapped, requests, crashes>>

Pass == 1..4
Part == {"script", "prompts", "audio"}
Mark == {"idle", "running", "complete", "failed"}
Marks == [Pass -> Mark]
Idle == [p \in Pass |-> "idle"]

Busy == {"scripting", "prompting", "audio_assets", "scoring"}
PreProduction == [status : Busy \cup {"complete", "failed"}, marks : Marks, has : SUBSET Part]
Ready == {"planned", "producing", "completed"}
Series == [status : Ready \cup {"planning", "failed"}, marks : Marks,
           guide : Nat,           \* which guide; 0 before there is one
           grade : Nat,           \* the guide its cinematic lock was made for
           roadmap : BOOLEAN,
           produced : SUBSET Episode,
           pre : [Episode -> PreProduction \cup {None}]]

(* A pass in flight: of the series or an episode, alone or as part of the   *)
(* whole sequence, and the guide it read before its await.                  *)
InFlight == [of : Episode \cup {Plan}, pass : Pass, chain : BOOLEAN, guide : Nat]
ASSUME NothingAssumption == None \notin Series \cup PreProduction \cup InFlight

CallsOf(x) == {c \in Call : call[c] # None /\ call[c].of = x}
Running(marks) == \E p \in Pass : marks[p] = "running"

Init ==
  /\ series = None /\ call = [c \in Call |-> None]
  /\ guides = 0 /\ overlapped = {} /\ requests = 0 /\ crashes = 0
-----------------------------------------------------------------------------
(* A handler's successive writes of the entry; the process may die after    *)
(* any but the last of them, and the next one hydrates what was written.    *)
Write(entries, inFlight) ==
  \/ /\ series' = entries[Len(entries)] /\ call' = inFlight
     /\ UNCHANGED crashes
  \/ /\ crashes < MaxCrashes /\ crashes' = crashes + 1
     /\ \E i \in 1..(Len(entries) - 1) : series' = entries[i]
     /\ call' = [c \in Call |-> None]

(* updateSeriesPassStatus and updateEpisodePassStatus.                      *)
Marked(s, x, p, mark) ==
  IF x = Plan THEN [s EXCEPT !.marks[p] = mark] ELSE [s EXCEPT !.pre[x].marks[p] = mark]

(* What the first lines of a pass ask of the registry.                      *)
Startable(s, x, p) ==
  IF x = Plan
  THEN CASE p = 1 -> TRUE [] p \in {2, 4} -> s.guide # 0 [] p = 3 -> s.roadmap
  ELSE CASE p = 1 -> s.roadmap [] p \in {2, 3} -> "script" \in s.pre[x].has
         [] p = 4 -> s.pre[x].has = Part

(* A pass up to its await: the entry it leaves, and the passes in flight.   *)
Begun(s, x, p) == Marked(s, x, p, "running")
Joined(s, c, x, p, chain) ==
  [call EXCEPT ![c] = [of |-> x, pass |-> p, chain |-> chain, guide |-> s.guide]]

Request == requests < MaxRequests /\ requests' = requests + 1
Unused(c) == call[c] = None /\ c = CHOOSE d \in Call : call[d] = None

(* POST / : createSeries, and planSeries up to its first await.             *)
Fresh == [status |-> "planning", marks |-> Idle, guide |-> 0, grade |-> 0,
          roadmap |-> FALSE, produced |-> {}, pre |-> [e \in Episode |-> None]]
Create(c) ==
  /\ requests = 0 /\ Request /\ Unused(c)
  /\ Write(<<Fresh, Begun(Fresh, Plan, 1)>>, Joined(Fresh, c, Plan, 1, TRUE))
  /\ UNCHANGED <<guides, overlapped>>

(* Mutant: only the same pass counts as one in progress.                    *)
MayRerunOther(marks, p) == marks[p] # "running"

(* The check of the two rerun routes: no pass is in progress.               *)
MayRerun(marks, p) == ~Running(marks)

(* POST /:id/rerun-pass/:pass and POST /:id/episodes/:n/rerun-pass/:pass.   *)
Rerun(c, x, p) ==
  /\ series # None /\ Request /\ Unused(c)
  /\ x # Plan => series.pre[x] # None
  /\ MayRerun(IF x = Plan THEN series.marks ELSE series.pre[x].marks, p)
  /\ Startable(series, x, p)
  /\ Write(<<Begun(series, x, p)>>, Joined(series, c, x, p, FALSE))
  /\ UNCHANGED <<guides, overlapped>>

(* POST /:id/episodes/:n/preproduction: a new record replaces the old one,  *)
(* and runEpisodePreProduction begins.  The route looks at the status only, *)
(* which a pass that is run again does not change until it ends.            *)
PreProduce(c, e) ==
  /\ series # None /\ series.status \in Ready /\ series.roadmap
  /\ Request /\ Unused(c)
  /\ series.pre[e] # None => series.pre[e].status \notin Busy
  /\ LET new == [series EXCEPT !.pre[e] =
                   [status |-> "scripting", marks |-> Idle, has |-> {}]]
     IN Write(<<new, Begun(new, e, 1)>>, Joined(new, c, e, 1, TRUE))
  /\ overlapped' = IF CallsOf(e) = {} THEN overlapped \ {e} ELSE overlapped \cup {e}
  /\ UNCHANGED guides

(* POST /:id/episodes/:n/produce: a video job is recorded for the episode.  *)
Produce(e) ==
  /\ series # None /\ series.status \in Ready /\ series.roadmap
  /\ LET produced == series.produced \cup {e}
     IN series' = [series EXCEPT !.produced = produced,
                     !.status = IF produced = Episode THEN "completed" ELSE "producing"]
  /\ UNCHANGED <<call, guides, overlapped, requests, crashes>>

(* DELETE /:id, and runCleanup once the series is older than its TTL.       *)
Delete ==
  /\ series # None /\ series' = None
  /\ UNCHANGED <<call, guides, overlapped, requests, crashes>>
-----------------------------------------------------------------------------
(* Mutant: a new guide is merged into the old one and keeps its lock.       *)
PlanAnsweredMerged(s, f, ok) ==
  CASE f.pass = 1 /\ ok -> [s EXCEPT !.guide = guides + 1]
    [] f.pass = 2 /\ ok -> [s EXCEPT !.roadmap = TRUE]
    [] f.pass \in {1, 2} /\ ~ok -> [s EXCEPT !.status = "failed"]
    [] f.pass = 4 /\ ok -> [s EXCEPT !.grade = f.guide]
    [] OTHER -> s

(* What a planning pass writes when its model has answered.  The first two  *)
(* are fatal; the fourth adds its lock to the guide it finds then.          *)
PlanAnswered(s, f, ok) ==
  CASE f.pass = 1 /\ ok -> [s EXCEPT !.guide = guides + 1, !.grade = 0]
    [] f.pass = 2 /\ ok -> [s EXCEPT !.roadmap = TRUE]
    [] f.pass \in {1, 2} /\ ~ok -> [s EXCEPT !.status = "failed"]
    [] f.pass = 4 /\ ok -> [s EXCEPT !.grade = f.guide]
    [] OTHER -> s

(* What a pass of an episode writes; the fourth completes the episode if    *)
(* it passes the quality gate.                                              *)
EpisodeAnswered(s, f, ok) ==
  LET e == f.of
      kept(part, status) ==
        [s EXCEPT !.pre[e].has = @ \cup {part}, !.pre[e].status = status]
  IN CASE f.pass = 1 /\ ok -> kept("script", "prompting")
       [] f.pass = 2 /\ ok -> kept("prompts", "audio_assets")
       [] f.pass = 3 /\ ok -> kept("audio", "scoring")
       [] f.pass = 4 /\ ok -> [s EXCEPT !.pre[e].status = "complete"]
       [] OTHER -> [s EXCEPT !.pre[e].status = "failed"]

Answered(s, f, ok) == IF f.of = Plan THEN PlanAnswered(s, f, ok) ELSE EpisodeAnswered(s, f, ok)

(* Mutant: a pass that fails reports nothing.                               *)
OutcomeIfAny(ok) == IF ok THEN "complete" ELSE "running"

(* The mark a pass leaves.                                                  *)
Outcome(ok) == IF ok THEN "complete" ELSE "failed"

(* Mutant: the third pass of the plan is fatal, too.                        *)
GoesOnAfterSuccess(f, ok) == f.chain /\ f.pass < 4 /\ ok

(* The planner goes on after a failure of its last two passes, the          *)
(* pre-production only after a success.                                     *)
GoesOn(f, ok) == f.chain /\ f.pass < 4 /\ (ok \/ (f.of = Plan /\ f.pass = 3))

(* A pass after its await, with an answer that is usable or not: results,   *)
(* mark, then the next pass of the sequence or, after the planner's last,   *)
(* "planned".  Of a deleted series nothing is written and nothing goes on.  *)
End(c, ok) ==
  LET f == call[c]
      free == [call EXCEPT ![c] = None]
      written == Answered(series, f, ok)
      marked == Marked(written, f.of, f.pass, Outcome(ok))
      goesOn == GoesOn(f, ok) /\ Startable(marked, f.of, f.pass + 1)
      last == f.of = Plan /\ f.chain /\ f.pass = 4
  IN /\ f # None
     /\ guides' = IF series # None /\ f.of = Plan /\ f.pass = 1 /\ ok THEN guides + 1 ELSE guides
     /\ \/ series = None /\ series' = None /\ call' = free /\ UNCHANGED crashes
        \/ /\ series # None /\ goesOn
           /\ Write(<<written, marked, Begun(marked, f.of, f.pass + 1)>>,
                    Joined(marked, c, f.of, f.pass + 1, TRUE))
        \/ /\ series # None /\ last
           /\ Write(<<written, marked, [marked EXCEPT !.status = "planned"]>>, free)
        \/ /\ series # None /\ ~goesOn /\ ~last
           /\ Write(<<written, marked>>, free)
     /\ UNCHANGED <<overlapped, requests>>

(* The process dies between two steps; the next one hydrates the entry.     *)
Crash ==
  /\ crashes < MaxCrashes /\ crashes' = crashes + 1
  /\ call' = [c \in Call |-> None]
  /\ UNCHANGED <<series, guides, overlapped, requests>>

Next ==
  \/ \E c \in Call :
       \/ Create(c)
       \/ \E x \in Episode \cup {Plan}, p \in Pass : Rerun(c, x, p)
       \/ \E e \in Episode : PreProduce(c, e)
       \/ \E ok \in BOOLEAN : End(c, ok)
  \/ \E e \in Episode : Produce(e)
  \/ Delete \/ Crash

Spec == Init /\ [][Next]_vars

(* A model call ends: it has a time-out, and both outcomes are handled.     *)
Ends(c) == \E ok \in BOOLEAN : End(c, ok)
Served(c) == WF_vars(Ends(c))
Fairness == \A c \in Call : Served(c)
FairSpec == Spec /\ Fairness
-----------------------------------------------------------------------------
(* Type invariant.                                                          *)
SeriesTypeOK ==
  /\ series \in Series \cup {None}
  /\ call \in [Call -> InFlight \cup {None}]
  /\ guides \in Nat /\ overlapped \subseteq Episode
  /\ requests \in 0..MaxRequests /\ crashes \in 0..MaxCrashes

(* The passes of one series do not overlap, nor do those of one episode,    *)
(* although the sequences and the reruns guard themselves with different    *)
(* checks of different fields; except on an episode whose pre-production    *)
(* was started over a rerun in flight, which its route does not see.        *)
OnePassAtATime ==
  \A x \in (Episode \cup {Plan}) \ overlapped : \A a, b \in CallsOf(x) : a = b

(* A series that may be produced has its guide and its roadmap; the         *)
(* cinematic lock in a guide was made for that very guide, although pass 4  *)
(* reads one before its await and writes into the one it finds after; and   *)
(* an episode that is complete has its script, prompts and audio, unless a  *)
(* pass of an earlier pre-production wrote into its record.  All this       *)
(* whatever was run again, failed, deleted or cut off between two writes.   *)
ReadyIsWhole ==
  series # None =>
    /\ series.status \in Ready => series.guide # 0 /\ series.roadmap
    /\ series.grade \in {0, series.guide}
    /\ \A e \in Episode \ overlapped :
         series.pre[e] # None /\ series.pre[e].status = "complete" => series.pre[e].has = Part

(* What is shown in progress, and locks the reruns and the production out,  *)
(* is worked on until the process dies: a plan by planSeries, and a running *)
(* mark by a pass in flight, on overlapped episodes too.                    *)
InProgressIsDriven ==
  crashes = 0 /\ series # None =>
    /\ series.status = "planning" => \E c \in CallsOf(Plan) : call[c].chain
    /\ \A p \in Pass : series.marks[p] = "running" => \E c \in CallsOf(Plan) : call[c].pass = p
    /\ \A e \in Episode, p \in Pass :
         series.pre[e] # None /\ series.pre[e].marks[p] = "running"
           => \E c \in CallsOf(e) : call[c].pass = p

(* A series that is being planned is planned, fails or is deleted, unless   *)
(* the process dies: then it is being planned for ever, and only Delete is  *)
(* left.                                                                    *)
Planning == series # None /\ series.status = "planning"
PlanningEnds == Planning ~> (~Planning \/ crashes > 0)

(* A pass in flight can always be answered.                                 *)
Answerable == \A c \in Call : call[c] # None => ENABLED <<Ends(c)>>_vars

(* What the comment "reject if already running" of the route promises.      *)
PreProductionExclusive == \A e \in Episode : \A a, b \in CallsOf(e) : a = b
=============================================================================
