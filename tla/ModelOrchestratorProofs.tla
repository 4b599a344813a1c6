------------------------ MODULE ModelOrchestratorProofs ------------------------
(***************************************************************************)
(* Proofs about ModelOrchestrator for any callers, goals and models.  What *)
(* holds of every call is in Base; what a call may rely on while nothing   *)
(* disturbs it, from the answer of Ollama to the load, in UndisturbedInv.  *)
(***************************************************************************)
EXTENDS ModelOrchestrator, TLAPS

(* What the place of a call says about the rest of it.                      *)
CallSound(r) ==
  /\ r.goal = "request" /\ r.pc # "idle" => r.target \in Model
  /\ r.goal # "request" => r.target = None
  /\ r.pc \in {"loading", "generating"} => r.goal = "request"
  /\ r.pc \in {"confirming", "confirmed"} => r.goal = "unloadAll"
  /\ r.pc \in {"asking", "answered"} => r.goal # "unload"
  /\ r.pc \in {"evicting", "queued"} => r.victim \in Model /\ r.goal # "status"
  /\ r.pc = "sweeping" => r.goal \in {"request", "unloadAll"}
  /\ r.locking => /\ r.pc \in {"evicting", "queued"}
                  /\ r.goal = "request" /\ r.target \in Heavy
  /\ r.goal = "request" /\ r.target \notin Heavy => ~r.tight
CallsSound == \A c \in Caller : CallSound(call[c])

Base == ModelTypeOK /\ CallsSound /\ EvictionsChained

(* A call that has to evict every model but its target.                     *)
Clears(r) == r.goal = "unloadAll" \/ (r.goal = "request" /\ r.tight)

(* What a call that nothing disturbs may rely on: Ollama holds no model it  *)
(* was not told of, at most one 7B model that is neither its target nor its *)
(* victim, and, when the call clears, no model it has already looked at.    *)
Sound(r) ==
  /\ r.pc \in {"answered", "confirmed"} =>
       resident \subseteq r.seen /\ \A m, n \in r.seen \cap Heavy : m = n
  /\ r.pc = "evicting" /\ r.locking =>
       resident \cap Heavy \subseteq {r.victim} /\ resident \subseteq activeModels
  /\ /\ r.goal = "request" /\ r.target \in Heavy /\ ~r.locking
     /\ r.pc \in {"sweeping", "evicting", "loading", "generating"}
     => resident \cap Heavy \subseteq {r.target}
  /\ Clears(r) =>
       /\ r.pc = "sweeping" => resident \subseteq r.rest \cup {r.target}
       /\ r.pc = "evicting" /\ ~r.locking =>
            resident \subseteq r.rest \cup {r.target, r.victim}
       /\ r.pc \in {"loading", "generating"} => resident \subseteq {r.target}
       /\ r.pc \in {"confirming", "confirmed"} => resident = {}
  /\ r.pc = "generating" => r.target \in resident
  /\ r.pc = "confirmed" => r.seen = {}

UndisturbedInv ==
  ~disturbed =>
    /\ AtMostOneHeavy /\ abandoned \subseteq resident
    /\ \A c, d \in Caller : Running(c) /\ Running(d) => c = d
    /\ \A c \in Caller : Running(c) => abandoned = {} /\ Sound(call[c])

ModelInv == Base /\ UndisturbedInv

-----------------------------------------------------------------------------
(* The one caller that moves.                                               *)
LEMMA OwnMove ==
  ASSUME Base, NEW c \in Caller, NEW r \in CallRecord, CallSound(r),
         call[c].pc # "evicting", r.pc \notin {"evicting", "queued"},
         call' = [call EXCEPT ![c] = r], UNCHANGED inFlightEviction
  PROVE  /\ call' \in [Caller -> CallRecord] /\ CallsSound' /\ EvictionsChained'
         /\ inFlightEviction' \in Caller \cup {None}
<1>1. call \in [Caller -> CallRecord] /\ inFlightEviction \in Caller \cup {None}
  BY DEF Base, ModelTypeOK
<1>2. /\ call' \in [Caller -> CallRecord] /\ call'[c] = r
      /\ \A d \in Caller \ {c} : call'[d] = call[d]
  BY <1>1
<1>3. CallsSound'
  BY <1>2 DEF Base, CallsSound, CallSound
<1>4. EvictionsChained'
  BY <1>1, <1>2, ModelAssumption DEF Base, EvictionsChained
<1>5. QED
  BY <1>1, <1>2, <1>3, <1>4

(* What a call that begins an eviction is.                                  *)
Evicts(r) ==
  /\ r.goal = "request" => r.target \in Model
  /\ r.goal # "request" => r.target = None
  /\ r.goal # "status"
  /\ r.locking => r.goal = "request" /\ r.target \in Heavy
  /\ r.goal = "request" /\ r.target \notin Heavy => ~r.tight

(* A caller begins an eviction or queues behind the one in flight.          *)
LEMMA BegunMove ==
  ASSUME Base, NEW c \in Caller, NEW r \in CallRecord, NEW m \in Model,
         call[c].pc \notin {"evicting", "queued"}, Evicts(r), EvictBegun(c, r, m)
  PROVE  /\ call' \in [Caller -> CallRecord] /\ CallsSound' /\ EvictionsChained'
         /\ inFlightEviction' \in Caller \cup {None}
         /\ \A d \in Caller \ {c} : call'[d] = call[d]
         /\ inFlightEviction = None =>
              /\ call'[c].pc = "evicting" /\ call'[c].victim = m
              /\ call'[c].goal = r.goal /\ call'[c].target = r.target
              /\ call'[c].locking = r.locking /\ call'[c].tight = r.tight
              /\ call'[c].rest = r.rest
<1>1. call \in [Caller -> CallRecord] /\ inFlightEviction \in Caller \cup {None}
  BY DEF Base, ModelTypeOK
<1> DEFINE begun == [r EXCEPT !.pc = "evicting", !.victim = m]
           waits == [r EXCEPT !.pc = "queued", !.victim = m, !.waitsFor = inFlightEviction]
<1>2. begun \in CallRecord /\ waits \in CallRecord
  BY <1>1 DEF CallRecord, Place
<1>3. /\ begun.pc = "evicting" /\ waits.pc = "queued"
      /\ waits.waitsFor = inFlightEviction
      /\ CallSound(begun) /\ CallSound(waits)
      /\ begun.victim = m /\ begun.goal = r.goal /\ begun.target = r.target
      /\ begun.locking = r.locking /\ begun.tight = r.tight /\ begun.rest = r.rest
  BY DEF CallRecord, CallSound, Evicts
<1>4. /\ \A d \in Caller \ {c} : call'[d] = call[d]
      /\ call'[c] = IF inFlightEviction = None THEN begun ELSE waits
      /\ call' \in [Caller -> CallRecord]
      /\ inFlightEviction' = IF inFlightEviction = None THEN c ELSE inFlightEviction
  BY <1>1, <1>2 DEF EvictBegun
<1> HIDE DEF begun, waits
<1>5. CallsSound'
  BY <1>3, <1>4 DEF Base, CallsSound, CallSound
<1>6. EvictionsChained'
  BY <1>1, <1>3, <1>4, ModelAssumption DEF Base, EvictionsChained
<1>7. QED
  BY <1>1, <1>3, <1>4, <1>5, <1>6

(* An eviction ends: its caller goes on, and whoever awaited it begins.     *)
LEMMA OverMove ==
  ASSUME Base, NEW c \in Caller, call[c].pc = "evicting", EvictionOver(c),
         resident' \subseteq Model, UNCHANGED abandoned, disturbed' \in BOOLEAN
  PROVE  /\ Base'
         /\ \E next \in AfterEviction(c) : call'[c] = next
         /\ \A d \in Caller \ {c} : d \notin Awaiting(c) => call'[d] = call[d]
<1>1. /\ call \in [Caller -> CallRecord] /\ inFlightEviction \in Caller \cup {None}
      /\ activeModels \subseteq Model
      /\ active7BModel \in (activeModels \cap Heavy) \cup {None}
  BY DEF Base, ModelTypeOK
<1>2. /\ activeModels' \subseteq Model
      /\ active7BModel' \in (activeModels' \cap Heavy) \cup {None}
  BY <1>1 DEF EvictionOver, Evicted
<1>3. CallSound(call[c]) /\ call[c] \in CallRecord
  BY <1>1 DEF Base, CallsSound
<1>4. PICK next \in AfterEviction(c) :
        call' = [d \in Caller |->
          IF d = c THEN next
          ELSE IF d \in Awaiting(c) THEN [call[d] EXCEPT !.pc = "evicting", !.waitsFor = None]
          ELSE call[d]]
  BY DEF EvictionOver
<1>5. next \in CallRecord /\ next.pc \in {"idle", "sweeping"} /\ CallSound(next)
  <2>1. CASE call[c].goal = "unload"
    <3>1. next = Idle
      BY <1>4, <2>1 DEF AfterEviction
    <3>2. Idle \in CallRecord /\ CallSound(Idle)
      BY DEF Idle, CallRecord, Place, Goal, CallSound
    <3>3. QED
      BY <3>1, <3>2 DEF Idle
  <2>2. CASE call[c].goal # "unload" /\ call[c].locking
    <3>1. PICK short \in BOOLEAN :
            next = [[call[c] EXCEPT !.pc = "sweeping", !.victim = None, !.locking = FALSE]
                      EXCEPT !.rest = activeModels', !.tight = short]
      BY <1>4, <2>2 DEF AfterEviction
    <3>2. next \in CallRecord
      BY <1>2, <1>3, <3>1 DEF CallRecord, Place
    <3>3. /\ next.pc = "sweeping" /\ next.goal = call[c].goal /\ ~next.locking
          /\ next.target = call[c].target
      BY <1>3, <3>1 DEF CallRecord
    <3>4. QED
      BY <1>3, <2>2, <3>2, <3>3 DEF CallSound
  <2>3. CASE call[c].goal # "unload" /\ ~call[c].locking
    <3>1. PICK short \in {FALSE, call[c].tight} :
            next = [[call[c] EXCEPT !.pc = "sweeping", !.victim = None, !.locking = FALSE]
                      EXCEPT !.tight = short]
      BY <1>4, <2>3 DEF AfterEviction
    <3>2. short \in BOOLEAN /\ (short => call[c].tight)
      BY <1>3, <3>1 DEF CallRecord
    <3>3. next \in CallRecord
      BY <1>3, <3>1, <3>2 DEF CallRecord, Place
    <3>4. /\ next.pc = "sweeping" /\ next.goal = call[c].goal /\ ~next.locking
          /\ next.target = call[c].target /\ next.tight = short
      BY <1>3, <3>1 DEF CallRecord
    <3>5. QED
      BY <1>3, <2>3, <3>2, <3>3, <3>4 DEF CallSound, CallRecord, Goal
  <2>4. QED
    BY <2>1, <2>2, <2>3
<1> DEFINE woken(d) == [call[d] EXCEPT !.pc = "evicting", !.waitsFor = None]
<1>6. ASSUME NEW d \in Awaiting(c)
      PROVE  /\ d \in Caller \ {c} /\ woken(d) \in CallRecord
             /\ woken(d).pc = "evicting" /\ CallSound(woken(d))
  <2>1. d \in Caller /\ call[d].pc = "queued" /\ call[d] \in CallRecord /\ CallSound(call[d])
    BY <1>1, <1>6 DEF Awaiting, Base, CallsSound
  <2>2. woken(d) \in CallRecord
    BY <2>1 DEF CallRecord, Place
  <2>3. /\ woken(d).pc = "evicting" /\ woken(d).goal = call[d].goal
        /\ woken(d).target = call[d].target /\ woken(d).victim = call[d].victim
        /\ woken(d).locking = call[d].locking /\ woken(d).tight = call[d].tight
    BY <2>1 DEF CallRecord
  <2>4. CallSound(woken(d))
    BY <2>1, <2>3 DEF CallSound
  <2>5. QED
    BY <2>1, <2>2, <2>3, <2>4
<1>7. /\ call'[c] = next
      /\ \A d \in Awaiting(c) : call'[d] = woken(d)
      /\ \A d \in Caller \ {c} : d \notin Awaiting(c) => call'[d] = call[d]
  BY <1>4, <1>6
<1> HIDE DEF woken
<1>8. call' \in [Caller -> CallRecord]
  <2>1. \A d \in Caller : call'[d] \in CallRecord
    BY <1>1, <1>5, <1>6, <1>7
  <2>2. QED
    BY <1>4, <2>1
<1>9. CallsSound'
  <2>1. \A d \in Caller : CallSound(call'[d])
    BY <1>5, <1>6, <1>7 DEF Base, CallsSound
  <2>2. QED
    BY <2>1 DEF CallsSound, CallSound
<1>10. EvictionsChained' /\ inFlightEviction' \in Caller \cup {None}
  <2>1. inFlightEviction' \in Awaiting(c) \cup {None}
    BY DEF EvictionOver
  <2>2. ASSUME NEW d \in Caller, call'[d].pc = "queued"
        PROVE  call'[d].waitsFor \in Caller /\ call'[call'[d].waitsFor].pc = "evicting"
    <3>1. d # c /\ d \notin Awaiting(c) /\ call'[d] = call[d]
      BY <1>5, <1>6, <1>7, <2>2
    <3>2. /\ call[d].waitsFor \in Caller \ {c}
          /\ call[call[d].waitsFor].pc = "evicting"
      BY <2>2, <3>1 DEF Base, EvictionsChained, Awaiting
    <3>3. QED
      BY <1>6, <1>7, <3>1, <3>2
  <2>3. QED
    BY <1>6, <1>7, <2>1, <2>2, ModelAssumption DEF EvictionsChained
<1>11. Base'
  BY <1>2, <1>8, <1>9, <1>10 DEF Base, ModelTypeOK
<1>12. QED
  BY <1>7, <1>11

-----------------------------------------------------------------------------
LEMMA InitEstablishes == Init => ModelInv
<1> SUFFICES ASSUME Init PROVE ModelInv
  OBVIOUS
<1>1. Idle \in CallRecord /\ CallSound(Idle) /\ Idle.pc = "idle"
  BY DEF Idle, CallRecord, Place, Goal, CallSound
<1>2. call \in [Caller -> CallRecord] /\ \A c \in Caller : call[c] = Idle
  BY <1>1 DEF Init
<1>3. Base
  BY <1>1, <1>2 DEF Init, Base, ModelTypeOK, CallsSound, EvictionsChained
<1>4. UndisturbedInv
  BY <1>1, <1>2 DEF Init, UndisturbedInv, Running
<1>5. QED
  BY <1>3, <1>4 DEF ModelInv

(* A caller that nothing disturbs is alone, and its eviction the only one.  *)
LEMMA SoleCaller ==
  ASSUME ModelInv, NEW c \in Caller, Running(c), ~disturbed
  PROVE  /\ \A d \in Caller \ {c} : call[d].pc = "idle"
         /\ call[c].pc # "queued" /\ Awaiting(c) = {}
         /\ call[c].pc # "evicting" => inFlightEviction = None
         /\ abandoned = {} /\ AtMostOneHeavy /\ Sound(call[c])
<1>1. \A d \in Caller \ {c} : call[d].pc = "idle"
  BY DEF ModelInv, UndisturbedInv, Running
<1>2. call[c].pc # "queued"
  BY <1>1 DEF ModelInv, Base, EvictionsChained
<1>3. Awaiting(c) = {}
  BY <1>1, <1>2 DEF Awaiting
<1>4. call[c].pc # "evicting" => inFlightEviction = None
  BY <1>1 DEF ModelInv, Base, EvictionsChained, ModelTypeOK
<1>5. QED
  BY <1>1, <1>2, <1>3, <1>4 DEF ModelInv, UndisturbedInv

(* What is left to show of a step of such a caller.                         *)
LEMMA SoleMove ==
  ASSUME NEW c \in Caller, \A d \in Caller \ {c} : call'[d].pc = "idle",
         AtMostOneHeavy', abandoned' \subseteq resident', Running(c)' => abandoned' = {} /\ Sound(call[c])'
  PROVE  UndisturbedInv'
BY DEF UndisturbedInv, Running

-----------------------------------------------------------------------------
LEMMA StartKeeps ==
  ASSUME ModelInv, NEW c \in Caller, NEW g \in Goal, NEW m \in Model \cup {None},
         Start(c, g, m)
  PROVE  ModelInv'
<1> DEFINE r == [Idle EXCEPT !.pc = "asking", !.goal = g, !.target = m]
<1>1. /\ r \in CallRecord /\ r.pc = "asking" /\ r.goal = g /\ r.target = m
      /\ ~r.locking /\ ~r.tight
  BY DEF Idle, CallRecord, Place, Goal
<1>2. CallSound(r)
  BY <1>1, ModelAssumption DEF Start, CallSound
<1>3. /\ call' = [call EXCEPT ![c] = r] /\ call[c].pc = "idle"
      /\ UNCHANGED <<belief, inFlightEviction, ollama>>
  BY DEF Start, Running
<1> HIDE DEF r
<1>4. Base /\ Base'
  <2>1. /\ call' \in [Caller -> CallRecord] /\ CallsSound' /\ EvictionsChained'
        /\ inFlightEviction' \in Caller \cup {None}
    BY <1>1, <1>2, <1>3, OwnMove DEF ModelInv
  <2>2. disturbed' \in BOOLEAN
    BY DEF Start, Quiet
  <2>3. QED
    BY <1>3, <2>1, <2>2 DEF ModelInv, Base, ModelTypeOK, belief, ollama
<1>5. ASSUME Quiet(c) PROVE UndisturbedInv'
  <2>1. call'[c] = r /\ \A d \in Caller \ {c} : call'[d].pc = "idle"
    BY <1>3, <1>4, <1>5 DEF Quiet, Running, Base, ModelTypeOK
  <2>2. AtMostOneHeavy' /\ abandoned' = {}
    BY <1>3, <1>5 DEF Quiet, AtMostOneHeavy, ollama
  <2>3. Sound(call[c])'
    BY <1>1, <2>1 DEF Sound
  <2>4. QED
    BY <2>1, <2>2, <2>3, SoleMove
<1>6. QED
  BY <1>4, <1>5 DEF ModelInv, Start, UndisturbedInv

LEMMA StartUnloadKeeps ==
  ASSUME ModelInv, NEW c \in Caller, NEW m \in Model, StartUnload(c, m)
  PROVE  ModelInv'
<1> DEFINE r == [Idle EXCEPT !.goal = "unload"]
<1>1. /\ r \in CallRecord /\ r.goal = "unload" /\ r.target = None
      /\ ~r.locking /\ ~r.tight
  BY DEF Idle, CallRecord, Place, Goal
<1>2. /\ EvictBegun(c, r, m) /\ call[c].pc = "idle"
      /\ UNCHANGED <<belief, ollama>>
  BY DEF StartUnload, Running
<1>3. /\ call' \in [Caller -> CallRecord] /\ CallsSound' /\ EvictionsChained'
      /\ inFlightEviction' \in Caller \cup {None}
      /\ \A d \in Caller \ {c} : call'[d] = call[d]
      /\ inFlightEviction = None =>
           /\ call'[c].pc = "evicting" /\ call'[c].goal = r.goal
           /\ call'[c].locking = r.locking
  <2>1. Evicts(r)
    BY <1>1 DEF Evicts
  <2>2. QED
    BY <1>1, <1>2, <2>1, BegunMove DEF ModelInv
<1> HIDE DEF r
<1>4. Base /\ Base'
  <2>1. disturbed' \in BOOLEAN
    BY DEF StartUnload, Quiet
  <2>2. QED
    BY <1>2, <1>3, <2>1 DEF ModelInv, Base, ModelTypeOK, belief, ollama
<1>5. ASSUME Quiet(c) PROVE UndisturbedInv'
  <2>1. \A d \in Caller \ {c} : call'[d].pc = "idle"
    BY <1>3, <1>5 DEF Quiet, Running
  <2>2. AtMostOneHeavy' /\ abandoned' = {}
    BY <1>2, <1>5 DEF Quiet, AtMostOneHeavy, ollama
  <2>3. inFlightEviction = None
    BY <1>2, <1>4, <1>5 DEF Quiet, Running, Base, EvictionsChained, ModelTypeOK
  <2>4. /\ call'[c].pc = "evicting" /\ call'[c].goal = "unload" /\ ~call'[c].locking
    BY <1>1, <1>3, <2>3 DEF CallRecord
  <2>5. Sound(call[c])'
    BY <2>4 DEF Sound, Clears
  <2>6. QED
    BY <2>1, <2>2, <2>5, SoleMove
<1>6. QED
  BY <1>4, <1>5 DEF ModelInv, StartUnload, UndisturbedInv

LEMMA PsAnswersKeeps ==
  ASSUME ModelInv, NEW c \in Caller, PsAnswers(c)
  PROVE  ModelInv'
<1> DEFINE p == IF call[c].pc = "asking" THEN "answered" ELSE "confirmed"
           r == [call[c] EXCEPT !.pc = p, !.seen = resident]
<1>1. /\ call \in [Caller -> CallRecord] /\ call[c] \in CallRecord
      /\ CallSound(call[c]) /\ resident \subseteq Model
  BY DEF ModelInv, Base, ModelTypeOK, CallsSound
<1>2. /\ call[c].pc \in {"asking", "confirming"}
      /\ UNCHANGED <<belief, inFlightEviction, ollama, disturbed>>
      /\ call' = [call EXCEPT ![c] = r]
  BY <1>1 DEF PsAnswers
<1>3. /\ r \in CallRecord /\ r.pc = p /\ r.goal = call[c].goal /\ r.target = call[c].target
      /\ r.locking = call[c].locking /\ r.tight = call[c].tight /\ r.seen = resident
  BY <1>1 DEF CallRecord, Place
<1>4. CallSound(r)
  BY <1>1, <1>2, <1>3 DEF CallSound
<1>5. p \in {"answered", "confirmed"} /\ (p = "confirmed" => call[c].pc = "confirming")
  BY <1>2
<1> HIDE DEF r, p
<1>6. Base /\ Base'
  <2>1. /\ call' \in [Caller -> CallRecord] /\ CallsSound' /\ EvictionsChained'
        /\ inFlightEviction' \in Caller \cup {None}
    BY <1>2, <1>3, <1>4, <1>5, OwnMove DEF ModelInv
  <2>2. QED
    BY <1>2, <2>1 DEF ModelInv, Base, ModelTypeOK, belief, ollama
<1>7. ASSUME ~disturbed' PROVE UndisturbedInv'
  <2>1. Running(c) /\ ~disturbed
    BY <1>2, <1>7 DEF Running
  <2>2. /\ \A d \in Caller \ {c} : call[d].pc = "idle"
        /\ abandoned = {} /\ AtMostOneHeavy /\ Sound(call[c])
    BY <2>1, SoleCaller
  <2>3. call'[c] = r /\ \A d \in Caller \ {c} : call'[d].pc = "idle"
    BY <1>1, <1>2, <2>2
  <2>4. AtMostOneHeavy' /\ abandoned' = {} /\ resident' = resident
    BY <1>2, <2>2 DEF AtMostOneHeavy, ollama
  <2>5. p = "confirmed" => resident = {}
    BY <1>1, <1>5, <2>2 DEF Sound, Clears, CallSound
  <2>6. Sound(call[c])'
    BY <1>3, <1>5, <2>2, <2>3, <2>4, <2>5 DEF Sound, AtMostOneHeavy
  <2>7. QED
    BY <2>3, <2>4, <2>6, SoleMove
<1>8. QED
  BY <1>6, <1>7 DEF ModelInv, UndisturbedInv

-----------------------------------------------------------------------------
(* What follows a sync that left this belief.                               *)
LEMMA AfterSyncMove ==
  ASSUME Base, NEW c \in Caller,
         call[c].pc \in {"asking", "confirming", "answered", "confirmed"},
         NEW active \in SUBSET Model, NEW heavy \in (active \cap Heavy) \cup {None},
         AfterSync(c, active, heavy)
  PROVE  /\ call' \in [Caller -> CallRecord] /\ CallsSound' /\ EvictionsChained'
         /\ inFlightEviction' \in Caller \cup {None}
         /\ \A d \in Caller \ {c} : call'[d] = call[d]
         /\ \/ /\ call'[c].pc = "idle"
               /\ call[c].goal = "status" \/ call[c].pc \in {"confirming", "confirmed"}
            \/ /\ call[c].goal = "request" /\ call[c].target \notin Heavy
               /\ call'[c].pc = "sweeping" /\ ~Clears(call'[c])
               /\ call'[c].goal = "request" /\ call'[c].target = call[c].target
            \/ /\ call[c].goal = "request" /\ heavy \in Heavy \ {call[c].target}
               /\ inFlightEviction = None =>
                    /\ call'[c].pc = "evicting" /\ call'[c].locking
                    /\ call'[c].victim = heavy
            \/ /\ call[c].goal = "request" => call[c].target \in Heavy /\ heavy \in {None, call[c].target}
               /\ call'[c].pc = "sweeping" /\ ~call'[c].locking
               /\ call'[c].rest = active
               /\ call'[c].goal = call[c].goal /\ call'[c].target = call[c].target
<1> DEFINE r == [call[c] EXCEPT !.seen = {}]
           sweep == [r EXCEPT !.pc = "sweeping", !.rest = active]
           locks == [r EXCEPT !.locking = TRUE]
<1>1. /\ call \in [Caller -> CallRecord] /\ call[c] \in CallRecord
      /\ CallSound(call[c]) /\ inFlightEviction \in Caller \cup {None}
      /\ ~call[c].locking
  BY DEF Base, ModelTypeOK, CallsSound, CallSound
<1>2. /\ r \in CallRecord /\ r.pc = call[c].pc /\ r.goal = call[c].goal
      /\ r.target = call[c].target /\ ~r.locking /\ r.tight = call[c].tight
  BY <1>1 DEF CallRecord
<1>3. /\ sweep \in CallRecord /\ sweep.pc = "sweeping" /\ sweep.goal = call[c].goal
      /\ sweep.target = call[c].target /\ ~sweep.locking /\ sweep.tight = call[c].tight
      /\ sweep.rest = active
  BY <1>1, <1>2 DEF CallRecord, Place
<1>4. /\ locks \in CallRecord /\ locks.pc = call[c].pc /\ locks.goal = call[c].goal
      /\ locks.target = call[c].target /\ locks.locking /\ locks.tight = call[c].tight
  BY <1>1, <1>2 DEF CallRecord
<1>5. CASE r.goal = "status" \/ r.pc \in {"confirming", "confirmed"}
  <2>1. call' = [call EXCEPT ![c] = Idle] /\ UNCHANGED inFlightEviction
    BY <1>5 DEF AfterSync
  <2>2. Idle \in CallRecord /\ CallSound(Idle) /\ Idle.pc = "idle"
    BY DEF Idle, CallRecord, Place, Goal, CallSound
  <2>3. QED
    BY <1>1, <1>2, <1>5, <2>1, <2>2, OwnMove
<1>6. CASE /\ ~(r.goal = "status" \/ r.pc \in {"confirming", "confirmed"})
           /\ r.goal = "request" /\ r.target \notin Heavy
  <2> DEFINE s == [sweep EXCEPT !.rest = {}]
  <2>1. call' = [call EXCEPT ![c] = s] /\ UNCHANGED inFlightEviction
    BY <1>6 DEF AfterSync
  <2>2. /\ s \in CallRecord /\ s.pc = "sweeping" /\ s.goal = call[c].goal
        /\ s.target = call[c].target /\ ~s.locking /\ s.tight = call[c].tight
    BY <1>3 DEF CallRecord
  <2> HIDE DEF s, sweep, locks, r
  <2>3. CallSound(s) /\ ~Clears(s)
    BY <1>1, <1>2, <1>6, <2>2 DEF CallSound, Clears
  <2>4. QED
    BY <1>1, <1>2, <1>6, <2>1, <2>2, <2>3, OwnMove
<1>7. CASE /\ ~(r.goal = "status" \/ r.pc \in {"confirming", "confirmed"})
           /\ ~(r.goal = "request" /\ r.target \notin Heavy)
           /\ r.goal = "request" /\ heavy \notin {None, r.target}
  <2>1. EvictBegun(c, locks, heavy)
    BY <1>7 DEF AfterSync
  <2> HIDE DEF sweep, locks, r
  <2>2. heavy \in Model /\ heavy \in Heavy
    BY <1>7
  <2>3. /\ call' \in [Caller -> CallRecord] /\ CallsSound' /\ EvictionsChained'
        /\ inFlightEviction' \in Caller \cup {None}
        /\ \A d \in Caller \ {c} : call'[d] = call[d]
        /\ inFlightEviction = None =>
             /\ call'[c].pc = "evicting" /\ call'[c].locking = locks.locking
             /\ call'[c].victim = heavy
    <3>1. Evicts(locks)
      BY <1>1, <1>2, <1>4, <1>7 DEF CallSound, Evicts
    <3>2. QED
      BY <1>4, <2>1, <2>2, <3>1, BegunMove
  <2>4. QED
    BY <1>2, <1>4, <1>7, <2>2, <2>3
<1>8. CASE /\ ~(r.goal = "status" \/ r.pc \in {"confirming", "confirmed"})
           /\ ~(r.goal = "request" /\ r.target \notin Heavy)
           /\ ~(r.goal = "request" /\ heavy \notin {None, r.target})
  <2>1. PICK short \in ShortAtFirst(r) : call' = [call EXCEPT ![c] = [sweep EXCEPT !.tight = short]]
    BY <1>8 DEF AfterSync
  <2>2. UNCHANGED inFlightEviction
    BY <1>8 DEF AfterSync
  <2> DEFINE s == [sweep EXCEPT !.tight = short]
  <2>3. short \in BOOLEAN
    BY DEF ShortAtFirst
  <2>4. /\ s \in CallRecord /\ s.pc = "sweeping" /\ s.goal = call[c].goal
        /\ s.target = call[c].target /\ ~s.locking /\ s.rest = active
    BY <1>3, <2>3 DEF CallRecord
  <2>5. call' = [call EXCEPT ![c] = s]
    BY <2>1
  <2> HIDE DEF s, sweep, locks, r
  <2>6. CallSound(s)
    BY <1>1, <1>2, <1>8, <2>4 DEF CallSound, CallRecord, Goal
  <2>7. QED
    BY <1>1, <1>2, <1>8, <2>2, <2>4, <2>5, <2>6, OwnMove
<1>9. QED
  BY <1>5, <1>6, <1>7, <1>8

LEMMA SyncedKeeps ==
  ASSUME ModelInv, NEW c \in Caller, Synced(c)
  PROVE  ModelInv'
<1> DEFINE seen == call[c].seen
<1>1. /\ call \in [Caller -> CallRecord] /\ call[c] \in CallRecord
      /\ CallSound(call[c]) /\ seen \in SUBSET Model
  BY DEF ModelInv, Base, ModelTypeOK, CallsSound, CallRecord
<1>2. /\ call[c].pc \in {"answered", "confirmed"} /\ UNCHANGED <<ollama, disturbed>>
      /\ activeModels' = seen
      /\ IF seen \cap Heavy = {} THEN active7BModel' = None
         ELSE active7BModel' \in seen \cap Heavy
      /\ AfterSync(c, activeModels', active7BModel')
  BY DEF Synced, Believe
<1> HIDE DEF seen
<1>3. active7BModel' \in (activeModels' \cap Heavy) \cup {None}
  BY <1>2
<1>4. /\ call' \in [Caller -> CallRecord] /\ CallsSound' /\ EvictionsChained'
      /\ inFlightEviction' \in Caller \cup {None}
      /\ \A d \in Caller \ {c} : call'[d] = call[d]
      /\ \/ /\ call'[c].pc = "idle"
            /\ call[c].goal = "status" \/ call[c].pc \in {"confirming", "confirmed"}
         \/ /\ call[c].goal = "request" /\ call[c].target \notin Heavy
            /\ call'[c].pc = "sweeping" /\ ~Clears(call'[c])
            /\ call'[c].goal = "request" /\ call'[c].target = call[c].target
         \/ /\ call[c].goal = "request" /\ active7BModel' \in Heavy \ {call[c].target}
            /\ inFlightEviction = None =>
                 /\ call'[c].pc = "evicting" /\ call'[c].locking
                 /\ call'[c].victim = active7BModel'
         \/ /\ call[c].goal = "request" =>
                 call[c].target \in Heavy /\ active7BModel' \in {None, call[c].target}
            /\ call'[c].pc = "sweeping" /\ ~call'[c].locking
            /\ call'[c].rest = activeModels'
            /\ call'[c].goal = call[c].goal /\ call'[c].target = call[c].target
  <2> DEFINE active == activeModels'
             heavy == active7BModel'
  <2>1. active \in SUBSET Model /\ heavy \in (active \cap Heavy) \cup {None}
    BY <1>1, <1>2, <1>3
  <2>2. AfterSync(c, active, heavy)
    BY <1>2
  <2> HIDE DEF active, heavy
  <2>3. /\ call[c].pc \in {"asking", "confirming", "answered", "confirmed"}
        /\ Base
    BY <1>2 DEF ModelInv
  <2> USE <2>1, <2>2, <2>3
  <2>4. QED
    BY AfterSyncMove DEF active, heavy
<1>5. Base'
  BY <1>1, <1>2, <1>3, <1>4 DEF ModelInv, Base, ModelTypeOK, ollama
<1>6. ASSUME ~disturbed' PROVE UndisturbedInv'
  <2>1. Running(c) /\ ~disturbed
    BY <1>2, <1>6 DEF Running
  <2>2. /\ \A d \in Caller \ {c} : call[d].pc = "idle"
        /\ abandoned = {} /\ AtMostOneHeavy /\ Sound(call[c])
        /\ inFlightEviction = None
    BY <1>2, <2>1, SoleCaller
  <2>3. /\ \A d \in Caller \ {c} : call'[d].pc = "idle"
        /\ AtMostOneHeavy' /\ abandoned' = {} /\ resident' = resident
    BY <1>2, <1>4, <2>2 DEF AtMostOneHeavy, ollama
  <2>4. resident \subseteq seen /\ \A m, n \in seen \cap Heavy : m = n
    BY <1>2, <2>2 DEF Sound, seen
  <2>5. ASSUME call'[c].pc # "idle" PROVE Sound(call[c])'
    <3>1. CASE /\ call[c].goal = "request" /\ call[c].target \notin Heavy
               /\ call'[c].pc = "sweeping" /\ ~Clears(call'[c])
               /\ call'[c].goal = "request" /\ call'[c].target = call[c].target
      BY <3>1 DEF Sound, Clears
    <3>2. CASE /\ call[c].goal = "request" /\ active7BModel' \in Heavy \ {call[c].target}
               /\ call'[c].pc = "evicting" /\ call'[c].locking
               /\ call'[c].victim = active7BModel'
      <4>1. active7BModel' \in seen \cap Heavy
        BY <1>1, <1>2, <3>2, ModelAssumption
      <4>2. resident' \cap Heavy \subseteq {call'[c].victim} /\ resident' \subseteq activeModels'
        BY <1>2, <2>3, <2>4, <3>2, <4>1
      <4>3. QED
        BY <3>2, <4>2 DEF Sound, Clears
    <3>3. CASE /\ call[c].goal = "request" =>
                    call[c].target \in Heavy /\ active7BModel' \in {None, call[c].target}
               /\ call'[c].pc = "sweeping" /\ ~call'[c].locking
               /\ call'[c].rest = activeModels'
               /\ call'[c].goal = call[c].goal /\ call'[c].target = call[c].target
      <4>1. resident' \subseteq call'[c].rest
        BY <1>2, <2>3, <2>4, <3>3
      <4>2. call'[c].goal = "request" => resident' \cap Heavy \subseteq {call'[c].target}
        BY <1>1, <1>2, <2>3, <2>4, <3>3, ModelAssumption
      <4>3. QED
        BY <3>3, <4>1, <4>2 DEF Sound
    <3>4. QED
      BY <1>4, <2>2, <2>5, <3>1, <3>2, <3>3
  <2>6. QED
    BY <2>3, <2>5, SoleMove DEF Running
<1>7. QED
  BY <1>5, <1>6 DEF ModelInv, UndisturbedInv

LEMMA SyncFailsKeeps ==
  ASSUME ModelInv, NEW c \in Caller, SyncFails(c)
  PROVE  ModelInv'
<1>1. /\ activeModels \in SUBSET Model
      /\ active7BModel \in (activeModels \cap Heavy) \cup {None}
  BY DEF ModelInv, Base, ModelTypeOK
<1>2. /\ call[c].pc \in {"asking", "confirming"} /\ UNCHANGED <<belief, ollama>>
      /\ disturbed' = TRUE /\ AfterSync(c, activeModels, active7BModel)
  BY DEF SyncFails
<1>3. /\ call' \in [Caller -> CallRecord] /\ CallsSound' /\ EvictionsChained'
      /\ inFlightEviction' \in Caller \cup {None}
  BY <1>1, <1>2, AfterSyncMove DEF ModelInv
<1>4. QED
  BY <1>2, <1>3 DEF ModelInv, Base, ModelTypeOK, UndisturbedInv, belief, ollama

LEMMA SweepEvictsKeeps ==
  ASSUME ModelInv, NEW c \in Caller, SweepEvicts(c)
  PROVE  ModelInv'
<1>1. PICK lowRam \in BOOLEAN, passed \in SUBSET call[c].rest : \E m \in call[c].rest \ passed :
        /\ \A p \in passed : ~MustGo(c, p, lowRam)
        /\ MustGo(c, m, lowRam)
        /\ EvictBegun(c, [call[c] EXCEPT !.rest = @ \ (passed \cup {m})], m)
  BY DEF SweepEvicts
<1>2. PICK m \in call[c].rest \ passed :
        /\ \A p \in passed : ~MustGo(c, p, lowRam)
        /\ MustGo(c, m, lowRam)
        /\ EvictBegun(c, [call[c] EXCEPT !.rest = @ \ (passed \cup {m})], m)
  BY <1>1
<1>3. /\ call \in [Caller -> CallRecord] /\ call[c] \in CallRecord
      /\ CallSound(call[c]) /\ call[c].rest \subseteq Model /\ call[c].pc = "sweeping"
      /\ UNCHANGED <<belief, ollama, disturbed>>
  BY DEF ModelInv, Base, ModelTypeOK, CallsSound, CallRecord, SweepEvicts
<1> DEFINE r == [call[c] EXCEPT !.rest = @ \ (passed \cup {m})]
<1>4. /\ r \in CallRecord /\ r.goal = call[c].goal /\ r.target = call[c].target
      /\ r.locking = call[c].locking /\ r.tight = call[c].tight
      /\ r.rest = call[c].rest \ (passed \cup {m})
  BY <1>3 DEF CallRecord
<1>5. EvictBegun(c, r, m) /\ m \in Model
  BY <1>2, <1>3
<1> HIDE DEF r
<1>6. /\ call' \in [Caller -> CallRecord] /\ CallsSound' /\ EvictionsChained'
      /\ inFlightEviction' \in Caller \cup {None}
      /\ \A d \in Caller \ {c} : call'[d] = call[d]
      /\ inFlightEviction = None =>
           /\ call'[c].pc = "evicting" /\ call'[c].victim = m
           /\ call'[c].goal = call[c].goal /\ call'[c].target = call[c].target
           /\ ~call'[c].locking /\ call'[c].tight = call[c].tight
           /\ call'[c].rest = call[c].rest \ (passed \cup {m})
  <2>1. Evicts(r) /\ ~r.locking
    BY <1>3, <1>4 DEF Evicts, CallSound
  <2>2. QED
    BY <1>3, <1>4, <1>5, <2>1, BegunMove DEF ModelInv
<1>7. Base'
  BY <1>3, <1>6 DEF ModelInv, Base, ModelTypeOK, belief, ollama
<1>8. ASSUME ~disturbed' PROVE UndisturbedInv'
  <2>1. Running(c) /\ ~disturbed
    BY <1>3, <1>8 DEF Running
  <2>2. /\ \A d \in Caller \ {c} : call[d].pc = "idle"
        /\ abandoned = {} /\ AtMostOneHeavy /\ Sound(call[c])
        /\ inFlightEviction = None
    BY <1>3, <2>1, SoleCaller
  <2>3. /\ \A d \in Caller \ {c} : call'[d].pc = "idle"
        /\ AtMostOneHeavy' /\ abandoned' = {} /\ resident' = resident
    BY <1>3, <1>6, <2>2 DEF AtMostOneHeavy, ollama
  <2>4. ASSUME Clears(call[c])
        PROVE  resident \subseteq call'[c].rest \cup {call[c].target, m}
    <3>1. \A p \in passed : p = call[c].target
      BY <1>2, <2>4 DEF MustGo, Clears
    <3>2. resident \subseteq call[c].rest \cup {call[c].target}
      BY <1>3, <2>2, <2>4 DEF Sound
    <3>3. QED
      BY <1>6, <2>2, <3>1, <3>2
  <2>5. call[c].goal = "request" /\ call[c].target \in Heavy =>
          resident \cap Heavy \subseteq {call[c].target}
    BY <1>3, <2>2 DEF Sound, CallSound
  <2>6. Clears(call'[c]) <=> Clears(call[c])
    BY <1>6, <2>2 DEF Clears
  <2>7. Sound(call[c])'
    BY <1>6, <2>2, <2>3, <2>4, <2>5, <2>6 DEF Sound, Clears
  <2>8. QED
    BY <2>3, <2>7, SoleMove
<1>9. QED
  BY <1>7, <1>8 DEF ModelInv, UndisturbedInv

LEMMA SweepEndsKeeps ==
  ASSUME ModelInv, NEW c \in Caller, SweepEnds(c)
  PROVE  ModelInv'
<1> DEFINE p == IF call[c].goal = "request" THEN "loading" ELSE "confirming"
           r == [call[c] EXCEPT !.pc = p, !.rest = {}]
<1>1. /\ call \in [Caller -> CallRecord] /\ call[c] \in CallRecord
      /\ CallSound(call[c]) /\ call[c].pc = "sweeping"
      /\ UNCHANGED <<inFlightEviction, ollama, disturbed>>
  BY DEF ModelInv, Base, ModelTypeOK, CallsSound, SweepEnds
<1>2. call' = [call EXCEPT ![c] = r]
  BY <1>1 DEF SweepEnds
<1>3. /\ r \in CallRecord /\ r.pc = p /\ r.goal = call[c].goal /\ r.target = call[c].target
      /\ r.locking = call[c].locking /\ r.tight = call[c].tight
  BY <1>1 DEF CallRecord, Place
<1>4. CallSound(r) /\ p \in {"loading", "confirming"}
  BY <1>1, <1>3 DEF CallSound
<1>5. p = "loading" <=> call[c].goal = "request"
  OBVIOUS
<1> HIDE DEF r, p
<1>6. Base'
  <2>1. /\ call' \in [Caller -> CallRecord] /\ CallsSound' /\ EvictionsChained'
        /\ inFlightEviction' \in Caller \cup {None}
    BY <1>1, <1>2, <1>3, <1>4, OwnMove DEF ModelInv
  <2>2. /\ activeModels' \subseteq Model
        /\ active7BModel' \in (activeModels' \cap Heavy) \cup {None}
    BY <1>1 DEF SweepEnds, ModelInv, Base, ModelTypeOK, CallSound, belief
  <2>3. QED
    BY <1>1, <2>1, <2>2 DEF ModelInv, Base, ModelTypeOK, ollama
<1>7. ASSUME ~disturbed' PROVE UndisturbedInv'
  <2>1. Running(c) /\ ~disturbed
    BY <1>1, <1>7 DEF Running
  <2>2. /\ \A d \in Caller \ {c} : call[d].pc = "idle"
        /\ abandoned = {} /\ AtMostOneHeavy /\ Sound(call[c])
    BY <2>1, SoleCaller
  <2>3. /\ call'[c] = r /\ \A d \in Caller \ {c} : call'[d].pc = "idle"
        /\ AtMostOneHeavy' /\ abandoned' = {} /\ resident' = resident
    BY <1>1, <1>2, <2>2 DEF AtMostOneHeavy, ollama
  <2>4. ASSUME Clears(call[c]) PROVE resident \subseteq {call[c].target}
    <3>1. \A m \in call[c].rest : m = call[c].target
      BY <2>4 DEF SweepEnds, MustGo, Clears
    <3>2. QED
      BY <1>1, <2>2, <2>4, <3>1 DEF Sound
  <2>5. p = "confirming" => resident = {}
    <3>1. ASSUME p = "confirming" PROVE Clears(call[c]) /\ call[c].target = None
      BY <1>1, <1>5, <3>1 DEF CallSound, Clears
    <3>2. QED
      BY <2>4, <3>1, ModelAssumption DEF ModelInv, Base, ModelTypeOK
  <2>6. call[c].goal = "request" /\ call[c].target \in Heavy =>
          resident \cap Heavy \subseteq {call[c].target}
    BY <1>1, <2>2 DEF Sound, CallSound
  <2>7. Clears(r) <=> Clears(call[c])
    BY <1>3 DEF Clears
  <2>8. Sound(call[c])'
    BY <1>3, <1>4, <1>5, <2>3, <2>4, <2>5, <2>6, <2>7 DEF Sound, Clears
  <2>9. QED
    BY <2>3, <2>8, SoleMove
<1>8. QED
  BY <1>6, <1>7 DEF ModelInv, UndisturbedInv

LEMMA EvictSucceedsKeeps ==
  ASSUME ModelInv, NEW c \in Caller, EvictSucceeds(c)
  PROVE  ModelInv'
<1>1. /\ call \in [Caller -> CallRecord] /\ call[c] \in CallRecord
      /\ CallSound(call[c]) /\ call[c].pc = "evicting"
      /\ resident' = resident \ {call[c].victim} /\ EvictionOver(c)
      /\ UNCHANGED <<abandoned, disturbed>>
  BY DEF ModelInv, Base, ModelTypeOK, CallsSound, EvictSucceeds
<1>2. /\ Base'
      /\ \E next \in AfterEviction(c) : call'[c] = next
      /\ \A d \in Caller \ {c} : d \notin Awaiting(c) => call'[d] = call[d]
  <2>1. resident' \subseteq Model /\ disturbed' \in BOOLEAN
    BY <1>1 DEF ModelInv, Base, ModelTypeOK
  <2>2. QED
    BY <1>1, <2>1, OverMove DEF ModelInv
<1>3. ASSUME ~disturbed' PROVE UndisturbedInv'
  <2>1. Running(c) /\ ~disturbed
    BY <1>1, <1>3 DEF Running
  <2>2. /\ \A d \in Caller \ {c} : call[d].pc = "idle"
        /\ Awaiting(c) = {}
        /\ abandoned = {} /\ AtMostOneHeavy /\ Sound(call[c])
    BY <2>1, SoleCaller
  <2>3. /\ \A d \in Caller \ {c} : call'[d].pc = "idle"
        /\ AtMostOneHeavy' /\ abandoned' = {}
    BY <1>1, <1>2, <2>2 DEF AtMostOneHeavy
  <2>4. activeModels' = activeModels \ {call[c].victim}
    BY <1>1 DEF EvictionOver, Evicted
  <2>5. CASE call[c].goal = "unload"
    <3>1. call'[c] = Idle
      BY <1>2, <2>5 DEF AfterEviction
    <3>2. QED
      BY <2>3, <3>1, SoleMove DEF Running, Idle
  <2>6. CASE call[c].goal # "unload" /\ call[c].locking
    <3>1. PICK short \in BOOLEAN :
            call'[c] = [[call[c] EXCEPT !.pc = "sweeping", !.victim = None, !.locking = FALSE]
                          EXCEPT !.rest = activeModels', !.tight = short]
      BY <1>2, <2>6 DEF AfterEviction
    <3>2. /\ call'[c].pc = "sweeping" /\ call'[c].goal = call[c].goal
          /\ call'[c].target = call[c].target /\ call'[c].rest = activeModels'
      BY <1>1, <3>1 DEF CallRecord
    <3>3. resident' \cap Heavy = {} /\ resident' \subseteq activeModels'
      BY <1>1, <2>2, <2>4, <2>6 DEF Sound
    <3>4. Sound(call[c])'
      BY <3>2, <3>3 DEF Sound
    <3>5. QED
      BY <2>3, <3>4, SoleMove
  <2>7. CASE call[c].goal # "unload" /\ ~call[c].locking
    <3>1. PICK short \in {FALSE, call[c].tight} :
            call'[c] = [[call[c] EXCEPT !.pc = "sweeping", !.victim = None, !.locking = FALSE]
                          EXCEPT !.tight = short]
      BY <1>2, <2>7 DEF AfterEviction
    <3>2. /\ call'[c].pc = "sweeping" /\ call'[c].goal = call[c].goal
          /\ call'[c].target = call[c].target /\ call'[c].rest = call[c].rest
          /\ call'[c].tight => call[c].tight
      BY <1>1, <3>1 DEF CallRecord
    <3>3. Clears(call'[c]) => Clears(call[c])
      BY <3>2 DEF Clears
    <3>4. Clears(call[c]) => resident' \subseteq call[c].rest \cup {call[c].target}
      BY <1>1, <2>2, <2>7 DEF Sound
    <3>5. call[c].goal = "request" /\ call[c].target \in Heavy =>
            resident' \cap Heavy \subseteq {call[c].target}
      BY <1>1, <2>2, <2>7 DEF Sound
    <3>6. Sound(call[c])'
      BY <3>2, <3>3, <3>4, <3>5 DEF Sound, Clears
    <3>7. QED
      BY <2>3, <3>6, SoleMove
  <2>8. QED
    BY <2>5, <2>6, <2>7
<1>4. QED
  BY <1>2, <1>3 DEF ModelInv, UndisturbedInv

LEMMA EvictFailsKeeps ==
  ASSUME ModelInv, NEW c \in Caller, EvictFails(c)
  PROVE  ModelInv'
<1>1. /\ call[c].pc = "evicting" /\ EvictionOver(c) /\ disturbed' = TRUE
      /\ UNCHANGED ollama /\ resident \subseteq Model
  BY DEF EvictFails, ModelInv, Base, ModelTypeOK
<1>2. Base'
  BY <1>1, OverMove DEF ModelInv, ollama
<1>3. QED
  BY <1>1, <1>2 DEF ModelInv, UndisturbedInv

LEMMA LoadKeeps ==
  ASSUME ModelInv, NEW c \in Caller, Load(c)
  PROVE  ModelInv'
<1> DEFINE r == [call[c] EXCEPT !.pc = "generating"]
<1>1. /\ call \in [Caller -> CallRecord] /\ call[c] \in CallRecord
      /\ CallSound(call[c]) /\ call[c].pc = "loading"
      /\ resident' = resident \cup {call[c].target}
      /\ UNCHANGED <<belief, inFlightEviction, abandoned, disturbed>>
      /\ call' = [call EXCEPT ![c] = r]
  BY DEF ModelInv, Base, ModelTypeOK, CallsSound, Load
<1>2. /\ r \in CallRecord /\ r.pc = "generating" /\ r.goal = call[c].goal
      /\ r.target = call[c].target /\ r.locking = call[c].locking /\ r.tight = call[c].tight
  BY <1>1 DEF CallRecord, Place
<1>3. CallSound(r) /\ r.goal = "request" /\ call[c].target \in Model
  BY <1>1, <1>2 DEF CallSound
<1> HIDE DEF r
<1>4. Base'
  <2>1. /\ call' \in [Caller -> CallRecord] /\ CallsSound' /\ EvictionsChained'
        /\ inFlightEviction' \in Caller \cup {None}
    BY <1>1, <1>2, <1>3, OwnMove DEF ModelInv
  <2>2. QED
    BY <1>1, <1>3, <2>1 DEF ModelInv, Base, ModelTypeOK, belief
<1>5. ASSUME ~disturbed' PROVE UndisturbedInv'
  <2>1. Running(c) /\ ~disturbed
    BY <1>1, <1>5 DEF Running
  <2>2. /\ \A d \in Caller \ {c} : call[d].pc = "idle"
        /\ abandoned = {} /\ AtMostOneHeavy /\ Sound(call[c])
    BY <2>1, SoleCaller
  <2>3. /\ call'[c] = r /\ \A d \in Caller \ {c} : call'[d].pc = "idle"
        /\ abandoned' = {}
    BY <1>1, <2>2
  <2>4. r.target \in Heavy => resident \cap Heavy \subseteq {r.target}
    BY <1>1, <1>2, <1>3, <2>2 DEF Sound, CallSound
  <2>5. AtMostOneHeavy'
    <3>1. CASE r.target \in Heavy
      BY <1>1, <1>2, <2>4, <3>1 DEF AtMostOneHeavy
    <3>2. CASE r.target \notin Heavy
      BY <1>1, <1>2, <2>2, <3>2 DEF AtMostOneHeavy
    <3>3. QED
      BY <3>1, <3>2
  <2>6. Clears(r) => resident \subseteq {r.target}
    BY <1>1, <1>2, <2>2 DEF Sound, Clears
  <2>7. Sound(call[c])'
    BY <1>1, <1>2, <1>3, <2>3, <2>4, <2>6 DEF Sound
  <2>8. QED
    BY <2>3, <2>5, <2>7, SoleMove
<1>6. QED
  BY <1>4, <1>5 DEF ModelInv, UndisturbedInv

(* The caller that gives up leaves Ollama generating.                       *)
LEMMA CallOverKeeps ==
  ASSUME ModelInv, NEW c \in Caller, CallEnds(c) \/ CallTimesOut(c)
  PROVE  ModelInv'
<1>1. /\ call \in [Caller -> CallRecord] /\ call[c].pc \in {"loading", "generating"}
      /\ call' = [call EXCEPT ![c] = Idle] /\ CallSound(call[c])
      /\ UNCHANGED <<belief, inFlightEviction, resident, disturbed>>
      /\ abandoned' \subseteq abandoned \cup {call[c].target}
  BY DEF ModelInv, Base, ModelTypeOK, CallsSound, CallEnds, CallTimesOut, ollama
<1>2. Idle \in CallRecord /\ CallSound(Idle) /\ Idle.pc = "idle"
  BY DEF Idle, CallRecord, Place, Goal, CallSound
<1>3. call[c].target \in Model
  BY <1>1 DEF CallSound
<1>4. Base'
  <2>1. /\ call' \in [Caller -> CallRecord] /\ CallsSound' /\ EvictionsChained'
        /\ inFlightEviction' \in Caller \cup {None}
    BY <1>1, <1>2, OwnMove DEF ModelInv
  <2>2. QED
    BY <1>1, <1>3, <2>1 DEF ModelInv, Base, ModelTypeOK, belief
<1>5. ASSUME ~disturbed' PROVE UndisturbedInv'
  <2>1. Running(c) /\ ~disturbed
    BY <1>1, <1>5 DEF Running
  <2>2. /\ \A d \in Caller \ {c} : call[d].pc = "idle"
        /\ AtMostOneHeavy /\ abandoned = {} /\ Sound(call[c])
    BY <2>1, SoleCaller
  <2>3. \A d \in Caller : call'[d].pc = "idle"
    BY <1>1, <1>2, <2>2
  <2>4. abandoned' \subseteq resident'
    BY <1>1, <2>2 DEF CallEnds, CallTimesOut, ollama, Sound
  <2>5. QED
    BY <1>1, <2>2, <2>3, <2>4 DEF UndisturbedInv, AtMostOneHeavy, Running
<1>6. QED
  BY <1>4, <1>5 DEF ModelInv, UndisturbedInv

(* What Ollama does of itself, and the preloads.                            *)
LEMMA OllamaKeeps ==
  ASSUME ModelInv, NEW m \in Model,
         AbandonedEnds(m) \/ Expire(m) \/ PreloadBegun(m) \/ PreloadLands(m)
  PROVE  ModelInv'
<1>1. UNCHANGED <<belief, inFlightEviction, call>>
  BY DEF AbandonedEnds, Expire, PreloadBegun, PreloadLands
<1>2. Base'
  <2>1. /\ resident' \subseteq Model /\ abandoned' \subseteq Model /\ disturbed' \in BOOLEAN
    BY DEF AbandonedEnds, Expire, PreloadBegun, PreloadLands, ModelInv, Base, ModelTypeOK
  <2>2. QED
    BY <1>1, <2>1 DEF ModelInv, Base, ModelTypeOK, CallsSound, CallSound, EvictionsChained, belief
<1>3. CASE PreloadBegun(m)
  BY <1>2, <1>3 DEF PreloadBegun, ModelInv, UndisturbedInv
<1>4. CASE AbandonedEnds(m) \/ Expire(m) \/ PreloadLands(m)
  <2>1. UNCHANGED disturbed
    BY <1>4 DEF AbandonedEnds, Expire, PreloadLands
  <2>2. ASSUME ~disturbed
        PROVE  /\ resident' \subseteq resident /\ abandoned' \subseteq abandoned
               /\ abandoned' \subseteq resident'
               /\ \A c \in Caller : call[c].pc = "generating" /\ call[c].target \in resident
                                       => call[c].target \in resident'
    <3>1. abandoned \subseteq resident
      BY <2>2 DEF ModelInv, UndisturbedInv
    <3>2. QED
      BY <1>4, <3>1 DEF AbandonedEnds, Expire, PreloadLands, InUse
  <2>3. ASSUME ~disturbed, NEW c \in Caller, Sound(call[c])
        PROVE  Sound(call[c])'
    BY <1>1, <2>2, <2>3 DEF Sound, Clears, belief
  <2>4. ~disturbed /\ AtMostOneHeavy => AtMostOneHeavy'
    BY <2>2 DEF AtMostOneHeavy
  <2>5. UndisturbedInv'
    BY <1>1, <2>1, <2>2, <2>3, <2>4 DEF ModelInv, UndisturbedInv, Running
  <2>6. QED
    BY <1>2, <2>5 DEF ModelInv
<1>5. QED
  BY <1>3, <1>4

LEMMA StutterKeeps == ModelInv /\ UNCHANGED vars => ModelInv'
BY DEF vars, belief, ollama, ModelInv, Base, ModelTypeOK, CallsSound, CallSound, EvictionsChained,
       UndisturbedInv, AtMostOneHeavy, Running, Sound, Clears

LEMMA StepKeeps == ModelInv /\ [Next]_vars => ModelInv'
<1> SUFFICES ASSUME ModelInv, [Next]_vars PROVE ModelInv'
  OBVIOUS
<1>1. ASSUME NEW c \in Caller, Progress(c) PROVE ModelInv'
  BY <1>1, PsAnswersKeeps, SyncedKeeps, SyncFailsKeeps, SweepEvictsKeeps, SweepEndsKeeps,
     EvictSucceedsKeeps, EvictFailsKeeps, LoadKeeps, CallOverKeeps DEF Progress
<1>2. ASSUME NEW c \in Caller, NEW g \in Goal, NEW m \in Model \cup {None}, Start(c, g, m)
      PROVE  ModelInv'
  BY <1>2, StartKeeps
<1>3. ASSUME NEW c \in Caller, NEW m \in Model, StartUnload(c, m) PROVE ModelInv'
  BY <1>3, StartUnloadKeeps
<1>4. ASSUME NEW m \in Model,
             AbandonedEnds(m) \/ Expire(m) \/ PreloadBegun(m) \/ PreloadLands(m)
      PROVE  ModelInv'
  BY <1>4, OllamaKeeps
<1>5. QED
  BY <1>1, <1>2, <1>3, <1>4, StutterKeeps DEF Next

-----------------------------------------------------------------------------
LEMMA ModelInvariant == Spec => []ModelInv
<1>1. Init => ModelInv
  BY InitEstablishes
<1>2. ModelInv /\ [Next]_vars => ModelInv'
  BY StepKeeps
<1>3. QED
  BY <1>1, <1>2, PTL DEF Spec

(* Belief, calls and Ollama are well typed in every state; the 7B model the *)
(* orchestrator remembers is always one of the active models it remembers.  *)
THEOREM ModelTypeCorrect == Spec => []ModelTypeOK
<1>1. ModelInv => ModelTypeOK
  BY DEF ModelInv, Base
<1>2. QED
  BY <1>1, ModelInvariant, PTL

(* For any number of callers, nobody waits for an eviction that is over.    *)
THEOREM EvictionsNeverBlock == Spec => []EvictionsChained
<1>1. ModelInv => EvictionsChained
  BY DEF ModelInv, Base
<1>2. QED
  BY <1>1, ModelInvariant, PTL

(* For any number of models and callers and however wrong the belief is, a  *)
(* request that nothing disturbs never leaves two 7B models resident.       *)
THEOREM LockHoldsUndisturbed == Spec => []SingleHeavyUndisturbed
<1>1. ModelInv => SingleHeavyUndisturbed
  BY DEF ModelInv, UndisturbedInv, SingleHeavyUndisturbed
<1>2. QED
  BY <1>1, ModelInvariant, PTL

(* ... and a 7B model is loaded beside others only when they fit.           *)
THEOREM HeadroomIsRespected == Spec => []HeadroomRespected
<1>1. ASSUME ModelInv, NEW c \in Caller, ~disturbed, call[c].pc = "generating",
             call[c].target \in Heavy, resident # {call[c].target}
      PROVE  ~call[c].tight
  <2>1. Sound(call[c]) /\ CallSound(call[c])
    BY <1>1 DEF ModelInv, Base, CallsSound, UndisturbedInv, Running
  <2>2. call[c].goal = "request" /\ call[c].target \in resident
    BY <1>1, <2>1 DEF Sound, CallSound
  <2>3. ~Clears(call[c])
    BY <1>1, <2>1, <2>2 DEF Sound
  <2>4. QED
    BY <2>2, <2>3 DEF Clears
<1>2. ModelInv => HeadroomRespected
  BY <1>1 DEF HeadroomRespected
<1>3. QED
  BY <1>2, ModelInvariant, PTL

(* A call ends by a step of its own.                                        *)
LEMMA OwnEnd ==
  ASSUME ModelInv, [Next]_vars, NEW c \in Caller, Running(c), ~Running(c)'
  PROVE  \/ Synced(c) \/ SyncFails(c) \/ EvictSucceeds(c) \/ EvictFails(c)
         \/ CallEnds(c) \/ CallTimesOut(c)
<1>1. call \in [Caller -> CallRecord] /\ call[c] \in CallRecord /\ Base
  BY DEF ModelInv, Base, ModelTypeOK
<1>2. call'[c] # call[c] /\ call'[c].pc = "idle"
  BY DEF Running
<1>3. ASSUME NEW d \in Caller, NEW r, call' = [call EXCEPT ![d] = r] PROVE d = c /\ r.pc = "idle"
  BY <1>1, <1>2, <1>3
<1>4. ASSUME NEW d \in Caller, NEW r \in CallRecord, NEW m, EvictBegun(d, r, m) PROVE FALSE
  <2> DEFINE begun == [r EXCEPT !.pc = "evicting", !.victim = m]
             waits == [r EXCEPT !.pc = "queued", !.victim = m, !.waitsFor = inFlightEviction]
  <2>1. begun.pc = "evicting" /\ waits.pc = "queued"
    BY DEF CallRecord
  <2>2. call' = [call EXCEPT ![d] = IF inFlightEviction = None THEN begun ELSE waits]
    BY <1>4 DEF EvictBegun
  <2> HIDE DEF begun, waits
  <2>3. QED
    BY <1>3, <2>1, <2>2
<1>5. ASSUME NEW d \in Caller, EvictionOver(d) PROVE d = c
  <2>1. PICK next \in AfterEviction(d) :
          call' = [e \in Caller |->
            IF e = d THEN next
            ELSE IF e \in Awaiting(d) THEN [call[e] EXCEPT !.pc = "evicting", !.waitsFor = None]
            ELSE call[e]]
    BY <1>5 DEF EvictionOver
  <2>2. [call[c] EXCEPT !.pc = "evicting", !.waitsFor = None].pc = "evicting"
    BY <1>1 DEF CallRecord
  <2>3. QED
    BY <1>2, <2>1, <2>2
<1>6. ASSUME NEW d \in Caller, Synced(d) \/ SyncFails(d) PROVE d = c
  <2>1. ASSUME d # c PROVE FALSE
    <3>1. /\ Base /\ call[d].pc \in {"asking", "confirming", "answered", "confirmed"}
          /\ call[d].seen \in SUBSET Model
          /\ activeModels \in SUBSET Model
          /\ active7BModel \in (activeModels \cap Heavy) \cup {None}
      BY <1>1, <1>6 DEF Synced, SyncFails, Base, ModelTypeOK, CallRecord
    <3>2. CASE SyncFails(d)
      BY <1>2, <2>1, <3>1, <3>2, AfterSyncMove DEF SyncFails
    <3>3. CASE Synced(d)
      <4> DEFINE active == activeModels'
                 heavy == active7BModel'
      <4>1. active \in SUBSET Model /\ heavy \in (active \cap Heavy) \cup {None}
        BY <3>1, <3>3 DEF Synced, Believe
      <4>2. AfterSync(d, active, heavy)
        BY <3>3 DEF Synced
      <4> HIDE DEF active, heavy
      <4>3. QED
        BY <1>2, <2>1, <3>1, <4>1, <4>2, AfterSyncMove
    <3>4. QED
      BY <1>6, <3>2, <3>3
  <2>2. QED
    BY <2>1
<1>7. ASSUME NEW d \in Caller, Progress(d) PROVE
         \/ Synced(c) \/ SyncFails(c) \/ EvictSucceeds(c) \/ EvictFails(c)
         \/ CallEnds(c) \/ CallTimesOut(c)
  <2>1. CASE PsAnswers(d)
    <3> DEFINE r == [call[d] EXCEPT !.pc = IF call[d].pc = "asking" THEN "answered" ELSE "confirmed",
                                    !.seen = resident]
    <3>1. call' = [call EXCEPT ![d] = r] /\ r.pc \in {"answered", "confirmed"}
      BY <1>1, <2>1 DEF PsAnswers, CallRecord
    <3> HIDE DEF r
    <3>2. QED
      BY <1>3, <3>1
  <2>2. CASE SweepEvicts(d)
    <3>1. PICK passed, m : EvictBegun(d, [call[d] EXCEPT !.rest = @ \ (passed \cup {m})], m)
      BY <2>2 DEF SweepEvicts
    <3>2. [call[d] EXCEPT !.rest = @ \ (passed \cup {m})] \in CallRecord
      BY <1>1 DEF CallRecord
    <3>3. QED
      BY <1>4, <3>1, <3>2
  <2>3. CASE SweepEnds(d) \/ Load(d)
    <3>1. \E p \in {"loading", "confirming", "generating"} :
            \/ call' = [call EXCEPT ![d] = [call[d] EXCEPT !.pc = p, !.rest = {}]]
            \/ call' = [call EXCEPT ![d] = [call[d] EXCEPT !.pc = p]]
      BY <1>1, <2>3 DEF SweepEnds, Load
    <3>2. \A p : /\ [call[d] EXCEPT !.pc = p, !.rest = {}].pc = p
                 /\ [call[d] EXCEPT !.pc = p].pc = p
      BY <1>1 DEF CallRecord
    <3>3. QED
      BY <1>3, <3>1, <3>2
  <2>4. CASE CallEnds(d) \/ CallTimesOut(d)
    BY <1>3, <2>4 DEF CallEnds, CallTimesOut
  <2>5. CASE EvictSucceeds(d) \/ EvictFails(d)
    BY <1>5, <2>5 DEF EvictSucceeds, EvictFails
  <2>6. QED
    BY <1>6, <1>7, <2>1, <2>2, <2>3, <2>4, <2>5 DEF Progress
<1>8. ASSUME NEW d \in Caller, NEW g \in Goal, NEW m \in Model \cup {None}, Start(d, g, m)
      PROVE  FALSE
  <2>1. [Idle EXCEPT !.pc = "asking", !.goal = g, !.target = m].pc = "asking"
    BY DEF Idle
  <2>2. QED
    BY <1>3, <1>8, <2>1 DEF Start
<1>9. ASSUME NEW d \in Caller, NEW m \in Model, StartUnload(d, m) PROVE FALSE
  <2>1. [Idle EXCEPT !.goal = "unload"] \in CallRecord
    BY DEF Idle, CallRecord, Place, Goal
  <2>2. QED
    BY <1>4, <1>9, <2>1 DEF StartUnload
<1>10. ~ \E m \in Model : AbandonedEnds(m) \/ Expire(m) \/ PreloadBegun(m) \/ PreloadLands(m)
  BY <1>2 DEF AbandonedEnds, Expire, PreloadBegun, PreloadLands
<1>11. QED
  BY <1>2, <1>7, <1>8, <1>9, <1>10 DEF Next, vars

(* Speech synthesis and rendering may rely on unloadAllModels: undisturbed, *)
(* it returns with no model resident and none believed to be.               *)
THEOREM UnloadAllFreesMemory == Spec => UnloadAllFrees
<1> DEFINE Freed ==
      \A c \in Caller :
        call[c].goal = "unloadAll" /\ Running(c) /\ ~Running(c)' /\ ~disturbed'
        => resident' = {} /\ activeModels' = {}
<1>1. ASSUME ModelInv, [Next]_vars, NEW c \in Caller,
             call[c].goal = "unloadAll", Running(c), ~Running(c)', ~disturbed'
      PROVE  resident' = {} /\ activeModels' = {}
  <2>1. CallSound(call[c])
    BY <1>1 DEF ModelInv, Base, CallsSound
  <2>2. ~(CallEnds(c) \/ CallTimesOut(c))
    BY <1>1, <2>1 DEF CallEnds, CallTimesOut, CallSound
  <2>3. ~SyncFails(c) /\ ~EvictFails(c)
    BY <1>1 DEF SyncFails, EvictFails
  <2>4. ~EvictSucceeds(c)
    <3>1. ASSUME EvictSucceeds(c) PROVE FALSE
      <4>1. PICK next \in AfterEviction(c) : call'[c] = next
        BY <3>1 DEF EvictSucceeds, EvictionOver
      <4>2. \E short, rest :
              \/ next = [[call[c] EXCEPT !.pc = "sweeping", !.victim = None, !.locking = FALSE]
                           EXCEPT !.rest = rest, !.tight = short]
              \/ next = [[call[c] EXCEPT !.pc = "sweeping", !.victim = None, !.locking = FALSE]
                           EXCEPT !.tight = short]
        BY <1>1, <4>1 DEF AfterEviction
      <4>3. call[c] \in CallRecord
        BY <1>1 DEF ModelInv, Base, ModelTypeOK
      <4>4. next.pc = "sweeping"
        BY <4>2, <4>3 DEF CallRecord
      <4>5. QED
        BY <1>1, <4>1, <4>4 DEF Running
    <3>2. QED
      BY <3>1
  <2>5. Synced(c)
    BY <1>1, <2>2, <2>3, <2>4, OwnEnd
  <2>6. ~disturbed /\ resident' = resident /\ activeModels' = call[c].seen
        /\ call[c].pc \in {"answered", "confirmed"}
    BY <1>1, <2>5 DEF Synced, ollama, Believe
  <2>7. call[c].pc = "confirmed"
    <3> DEFINE active == activeModels'
               heavy == active7BModel'
    <3>1. active \in SUBSET Model /\ heavy \in (active \cap Heavy) \cup {None}
      BY <1>1, <2>5 DEF Synced, Believe, ModelInv, Base, ModelTypeOK, CallRecord
    <3>2. AfterSync(c, active, heavy) /\ Base
      BY <1>1, <2>5 DEF Synced, ModelInv
    <3> HIDE DEF active, heavy
    <3>3. call'[c].pc = "idle"
      BY <1>1 DEF Running
    <3>4. QED
      BY <1>1, <2>6, <3>1, <3>2, <3>3, AfterSyncMove
  <2>8. Sound(call[c])
    BY <1>1, <2>6, SoleCaller
  <2>9. QED
    BY <1>1, <2>6, <2>7, <2>8 DEF Sound, Clears
<1>2. ModelInv /\ [Next]_vars => [Freed]_vars
  BY <1>1
<1>3. QED
  BY <1>2, ModelInvariant, PTL DEF Spec, UnloadAllFrees
=============================================================================
