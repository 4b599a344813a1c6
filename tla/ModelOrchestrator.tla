--------------------------- MODULE ModelOrchestrator ---------------------------
(***************************************************************************)
(* apps/swarmx-api/src/services/model-orchestrator.ts: which language      *)
(* models the API believes Ollama holds in memory, and the requests that   *)
(* evict some of them before another is loaded.                            *)
(*                                                                         *)
(* The truth is Ollama's (external): `resident', changed by the loads and  *)
(* unloads the API asks for, by keep-alive expiry, and by the preloads of  *)
(* the composer route, which go past this module.  The belief is           *)
(* activeModels and active7BModel.  Every await of the code is a place where another caller *)
(* runs: the two halves of syncFromOllama, each eviction, the call itself. *)
(***************************************************************************)
EXTENDS Integers, FiniteSets

CONSTANTS
  Caller,       \* concurrent users of the orchestrator
  GoalsOf,      \* what each of them asks for
  NoSignal,     \* those that use withTimeout without an abort signal
  Model,        \* the canonical tags of MODEL_REGISTRY
  Heavy,        \* those with is7B
  None,
  MaxAbandoned  \* bound on the models Ollama is busy with for nobody

ASSUME ModelAssumption ==
  /\ Heavy \subseteq Model
  /\ None \notin Model \cup Caller
  /\ GoalsOf \in [Caller -> SUBSET {"request", "unloadAll", "unload", "status"}]
  /\ NoSignal \subseteq Caller
  /\ MaxAbandoned \in Nat

VARIABLES
  activeModels, active7BModel, inFlightEviction,
  call,       \* what each caller is doing
  resident,   \* external: the models Ollama holds
  abandoned,  \* external: models it loads or generates with for nobody who waits
  disturbed   \* history: see Quiet

belief == <<activeModels, active7BModel>>
ollama == <<resident, abandoned>>
vars == <<activeModels, active7BModel, inFlightEviction,
          call, resident, abandoned, disturbed>>

Goal == {"request", "unloadAll", "unload", "status"}
Place == {"idle", "asking", "answered", "queued", "evicting", "sweeping",
          "confirming", "confirmed", "loading", "generating"}

(* A call in progress: `seen' is the answer of /api/ps on its way back,     *)
(* `rest' the models evictIncompatible or unloadAllModels still has to look *)
(* at, `tight' whether projectedAvailableMb is short of what the target     *)
(* needs, `locking' whether the victim is the one of policy 1.              *)
Idle == [pc |-> "idle", goal |-> "status", target |-> None, seen |-> {}, rest |-> {},
         tight |-> FALSE, victim |-> None, locking |-> FALSE, waitsFor |-> None]

AtMostOneHeavy == \A m, n \in resident \cap Heavy : m = n

Init ==
  /\ activeModels = {} /\ active7BModel = None
  /\ inFlightEviction = None
  /\ call = [c \in Caller |-> Idle]
  /\ resident \in SUBSET Model
  /\ abandoned = {}
  /\ disturbed = ~AtMostOneHeavy

Running(c) == call[c].pc # "idle"
InUse(m) == m \in abandoned \/ \E c \in Caller : call[c].pc = "generating" /\ call[c].target = m

(* Nothing else is going on when c starts: its call alone decides what      *)
(* becomes of the resident models, and finds the lock respected.            *)
Quiet(c) == /\ \A d \in Caller \ {c} : ~Running(d)
            /\ abandoned = {}
            /\ AtMostOneHeavy

(* Mutant: the lock is not given up with its model.                         *)
EvictedKeeping(m) == activeModels' = activeModels \ {m} /\ UNCHANGED active7BModel

(* What onModelEvicted leaves, and what a sync makes of an answer.          *)
Evicted(m) == /\ activeModels' = activeModels \ {m}
              /\ active7BModel' = IF active7BModel = m THEN None ELSE active7BModel
Believe(names) ==
  /\ activeModels' = names
  /\ IF names \cap Heavy = {} THEN active7BModel' = None
     ELSE active7BModel' \in names \cap Heavy

(* _evictModel up to its first await: an eviction in flight is awaited.     *)
EvictBegun(c, r, m) ==
  /\ call' = [call EXCEPT ![c] =
       IF inFlightEviction = None
       THEN [r EXCEPT !.pc = "evicting", !.victim = m]
       ELSE [r EXCEPT !.pc = "queued", !.victim = m, !.waitsFor = inFlightEviction]]
  /\ inFlightEviction' = IF inFlightEviction = None THEN c ELSE inFlightEviction

(* requestModel, unloadAllModels, getResidentModels: all ask Ollama first.  *)
Start(c, g, m) ==
  /\ ~Running(c)
  /\ g \in GoalsOf[c] \ {"unload"} /\ (m # None <=> g = "request")
  /\ call' = [call EXCEPT ![c] = [Idle EXCEPT !.pc = "asking", !.goal = g, !.target = m]]
  /\ disturbed' = ~Quiet(c)
  /\ UNCHANGED <<belief, inFlightEviction, ollama>>

(* unloadModel evicts without asking.                                       *)
StartUnload(c, m) ==
  /\ ~Running(c)
  /\ "unload" \in GoalsOf[c]
  /\ EvictBegun(c, [Idle EXCEPT !.goal = "unload"], m)
  /\ disturbed' = ~Quiet(c)
  /\ UNCHANGED <<belief, ollama>>

(* Ollama answers /api/ps; the answer reaches the API later (Synced).       *)
PsAnswers(c) ==
  /\ call[c].pc \in {"asking", "confirming"}
  /\ call' = [call EXCEPT ![c].pc = IF call[c].pc = "asking" THEN "answered" ELSE "confirmed",
                          ![c].seen = resident]
  /\ UNCHANGED <<belief, inFlightEviction, ollama, disturbed>>

(* The memory read from /proc/meminfo may or may not do for the target.     *)
ShortAtFirst(r) == IF r.goal = "request" THEN BOOLEAN ELSE {FALSE}

(* What follows a sync, decided in the same turn on the belief it left.     *)
AfterSync(c, active, heavy) ==
  LET r == [call[c] EXCEPT !.seen = {}]
      sweep == [r EXCEPT !.pc = "sweeping", !.rest = active]
  IN IF r.goal = "status" \/ r.pc \in {"confirming", "confirmed"}
     THEN call' = [call EXCEPT ![c] = Idle] /\ UNCHANGED inFlightEviction
     ELSE IF r.goal = "request" /\ r.target \notin Heavy
     THEN call' = [call EXCEPT ![c] = [sweep EXCEPT !.rest = {}]] /\ UNCHANGED inFlightEviction
     ELSE IF r.goal = "request" /\ heavy \notin {None, r.target}
     THEN EvictBegun(c, [r EXCEPT !.locking = TRUE], heavy)
     ELSE /\ \E short \in ShortAtFirst(r) : call' = [call EXCEPT ![c] = [sweep EXCEPT !.tight = short]]
          /\ UNCHANGED inFlightEviction

(* Mutant: the request decides on what it believed before, as if the sync   *)
(* had been dropped from evictIncompatible.                                 *)
SyncedTooLate(c) ==
  /\ call[c].pc \in {"answered", "confirmed"}
  /\ Believe(call[c].seen)
  /\ AfterSync(c, activeModels, active7BModel)
  /\ UNCHANGED <<ollama, disturbed>>

Synced(c) ==
  /\ call[c].pc \in {"answered", "confirmed"}
  /\ Believe(call[c].seen)
  /\ AfterSync(c, activeModels', active7BModel')
  /\ UNCHANGED <<ollama, disturbed>>

(* No answer within 3 s, or an error: the belief stays and is acted upon.   *)
SyncFails(c) ==
  /\ call[c].pc \in {"asking", "confirming"}
  /\ UNCHANGED belief
  /\ AfterSync(c, activeModels, active7BModel)
  /\ disturbed' = TRUE
  /\ UNCHANGED <<ollama>>

(* Mutant: needsHeadroom is not looked at.                                  *)
MustGoLowRamOnly(c, m, lowRam) ==
  LET r == call[c]
  IN r.goal = "request" => m # r.target /\ lowRam /\ m \notin Heavy

(* The conditions under which the sweep evicts m; the mode may change while *)
(* a sweep waits for an eviction.                                           *)
MustGo(c, m, lowRam) ==
  LET r == call[c]
  IN r.goal = "request" => m # r.target /\ (r.tight \/ (lowRam /\ m \notin Heavy))

(* The sweep goes on to the next model it evicts, passing over the others.  *)
SweepEvicts(c) ==
  /\ call[c].pc = "sweeping"
  /\ \E lowRam \in BOOLEAN, passed \in SUBSET call[c].rest : \E m \in call[c].rest \ passed :
       /\ \A p \in passed : ~MustGo(c, p, lowRam)
       /\ MustGo(c, m, lowRam)
       /\ EvictBegun(c, [call[c] EXCEPT !.rest = @ \ (passed \cup {m})], m)
  /\ UNCHANGED <<belief, ollama, disturbed>>

(* Nothing (more) to evict: requestModel records its target and returns,    *)
(* unloadAllModels syncs once more.                                         *)
SweepEnds(c) ==
  /\ call[c].pc = "sweeping"
  /\ \E lowRam \in BOOLEAN : \A m \in call[c].rest : ~MustGo(c, m, lowRam)
  /\ IF call[c].goal = "request"
     THEN /\ call' = [call EXCEPT ![c].pc = "loading", ![c].rest = {}]
          /\ activeModels' = activeModels \cup {call[c].target}
          /\ active7BModel' = IF call[c].target \in Heavy THEN call[c].target ELSE active7BModel
     ELSE /\ call' = [call EXCEPT ![c].pc = "confirming", ![c].rest = {}]
          /\ UNCHANGED belief
  /\ UNCHANGED <<inFlightEviction, ollama, disturbed>>

(* Where c may go on when its eviction is over: the sweep starts after the  *)
(* victim of policy 1, continues after one of its own with that much more   *)
(* memory to reckon with, and unloadModel ends.                             *)
AfterEviction(c) ==
  LET r == call[c]
      back == [r EXCEPT !.pc = "sweeping", !.victim = None, !.locking = FALSE]
  IN IF r.goal = "unload" THEN {Idle}
     ELSE IF r.locking
     THEN {[back EXCEPT !.rest = activeModels', !.tight = short] : short \in BOOLEAN}
     ELSE {[back EXCEPT !.tight = short] : short \in {FALSE, r.tight}}

Awaiting(c) == {d \in Caller : call[d].pc = "queued" /\ call[d].waitsFor = c}

(* Mutant: those that awaited the eviction in flight are not resumed.       *)
EvictionDeaf(c) ==
  /\ Evicted(call[c].victim)
  /\ \E next \in AfterEviction(c) : call' = [call EXCEPT ![c] = next]
  /\ inFlightEviction' = None

(* The finally block: the belief drops the victim, whatever Ollama did;     *)
(* inFlightEviction is cleared even when it is another's; every caller that *)
(* awaited this eviction starts its own, and the last of them is remembered.*)
EvictionOver(c) ==
  /\ Evicted(call[c].victim)
  /\ \E next \in AfterEviction(c) : call' = [d \in Caller |->
       IF d = c THEN next
       ELSE IF d \in Awaiting(c) THEN [call[d] EXCEPT !.pc = "evicting", !.waitsFor = None]
       ELSE call[d]]
  /\ IF Awaiting(c) = {} THEN inFlightEviction' = None
     ELSE inFlightEviction' \in Awaiting(c)

(* Ollama unloads the victim, unless it is generating with it.              *)
EvictSucceeds(c) ==
  /\ call[c].pc = "evicting"
  /\ ~InUse(call[c].victim)
  /\ resident' = resident \ {call[c].victim}
  /\ EvictionOver(c)
  /\ UNCHANGED <<abandoned, disturbed>>

(* Aborted after 5 s (a model in use is unloaded too late), or refused: the *)
(* error is swallowed.                                                      *)
EvictFails(c) ==
  /\ call[c].pc = "evicting"
  /\ EvictionOver(c)
  /\ disturbed' = TRUE
  /\ UNCHANGED <<ollama>>

(* The caller sends its prompt and Ollama loads the model ...               *)
Load(c) ==
  /\ call[c].pc = "loading"
  /\ resident' = resident \cup {call[c].target}
  /\ call' = [call EXCEPT ![c].pc = "generating"]
  /\ UNCHANGED <<belief, inFlightEviction, abandoned, disturbed>>

(* ... and answers, or fails, or the caller's abort signal ends it.         *)
CallEnds(c) ==
  /\ call[c].pc \in {"loading", "generating"}
  /\ call' = [call EXCEPT ![c] = Idle]
  /\ UNCHANGED <<belief, inFlightEviction, ollama, disturbed>>

(* A caller that uses withTimeout without a signal (composer, captions,     *)
(* virality) gives up; Ollama goes on generating.                           *)
CallTimesOut(c) ==
  /\ c \in NoSignal /\ Cardinality(abandoned) < MaxAbandoned
  /\ call[c].pc = "generating"
  /\ abandoned' = abandoned \cup {call[c].target}
  /\ call' = [call EXCEPT ![c] = Idle]
  /\ UNCHANGED <<belief, inFlightEviction, resident, disturbed>>

AbandonedEnds(m) ==
  /\ m \in abandoned
  /\ abandoned' = abandoned \ {m}
  /\ UNCHANGED <<belief, inFlightEviction, call, resident, disturbed>>

(* External: the keep-alive of an unused model expires.                     *)
Expire(m) ==
  /\ m \in resident /\ ~InUse(m)
  /\ resident' = resident \ {m}
  /\ UNCHANGED <<belief, inFlightEviction, call, abandoned, disturbed>>

(* startModelPreload: the composer found its model missing in an answer of  *)
(* /api/ps, an await ago and whatever else was resident, and asks Ollama to *)
(* load it and generate a token.  Nobody waits for that, and the            *)
(* orchestrator is not told.                                                *)
PreloadBegun(m) ==
  /\ m \notin abandoned /\ Cardinality(abandoned) < MaxAbandoned
  /\ abandoned' = abandoned \cup {m}
  /\ disturbed' = TRUE
  /\ UNCHANGED <<belief, inFlightEviction, call, resident>>

(* External: the model is in memory, unless AbandonedEnds comes first.      *)
PreloadLands(m) ==
  /\ m \in abandoned
  /\ resident' = resident \cup {m}
  /\ UNCHANGED <<belief, inFlightEviction, call, abandoned, disturbed>>

Progress(c) ==
  \/ PsAnswers(c) \/ Synced(c) \/ SyncFails(c)
  \/ SweepEvicts(c) \/ SweepEnds(c) \/ EvictSucceeds(c) \/ EvictFails(c)
  \/ Load(c) \/ CallEnds(c) \/ CallTimesOut(c)

Next ==
  \/ \E c \in Caller :
       \/ Progress(c)
       \/ \E g \in Goal, m \in Model \cup {None} : Start(c, g, m)
       \/ \E m \in Model : StartUnload(c, m)
  \/ \E m \in Model : AbandonedEnds(m) \/ Expire(m) \/ PreloadBegun(m) \/ PreloadLands(m)

Spec == Init /\ [][Next]_vars
-----------------------------------------------------------------------------
CallRecord ==
  [pc : Place, goal : Goal, target : Model \cup {None},
   seen : SUBSET Model, rest : SUBSET Model, tight : BOOLEAN,
   victim : Model \cup {None}, locking : BOOLEAN, waitsFor : Caller \cup {None}]

(* Type invariant.  The resident 7B model the orchestrator remembers is one *)
(* of the active models it remembers, although the two are written by       *)
(* syncs, evictions, requests and the preload in any order.                 *)
ModelTypeOK ==
  /\ activeModels \subseteq Model
  /\ active7BModel \in (activeModels \cap Heavy) \cup {None}
  /\ inFlightEviction \in Caller \cup {None}
  /\ call \in [Caller -> CallRecord]
  /\ resident \subseteq Model /\ abandoned \subseteq Model
  /\ disturbed \in BOOLEAN

(* The serialisation of evictions cannot block: whoever waits for an        *)
(* eviction waits for one that is still under way, and the eviction the     *)
(* orchestrator remembers is under way, although its finally block clears   *)
(* the field without looking whose it is.                                   *)
EvictionsChained ==
  /\ \A c \in Caller : call[c].pc = "queued" =>
        call[c].waitsFor \in Caller /\ call[call[c].waitsFor].pc = "evicting"
  /\ inFlightEviction # None => call[inFlightEviction].pc = "evicting"

(* SINGLE-7B LOCK, as far as the code keeps it: however wrong its belief is *)
(* when it starts, a request that nothing disturbs (no overlapping call, no *)
(* failed sync or eviction, no preload or abandoned generation) never       *)
(* leaves two 7B models resident, at any moment.                            *)
SingleHeavyUndisturbed == ~disturbed => AtMostOneHeavy

(* When such a request has its 7B model loaded, the other models it left    *)
(* resident fit beside it by its own accounting.                            *)
HeadroomRespected ==
  \A c \in Caller :
    /\ ~disturbed /\ call[c].pc = "generating" /\ call[c].target \in Heavy
    /\ resident # {call[c].target}
    => ~call[c].tight

(* What speech synthesis and rendering rely on: unloadAllModels, when       *)
(* nothing disturbs it, returns only with no model resident and none        *)
(* believed to be.                                                          *)
UnloadAllFrees ==
  [][\A c \in Caller :
       call[c].goal = "unloadAll" /\ Running(c) /\ ~Running(c)' /\ ~disturbed'
       => resident' = {} /\ activeModels' = {}]_vars

(* The promise of the header: never two 7B models resident simultaneously.  *)
SingleHeavyLock == AtMostOneHeavy
=============================================================================
