------------------------------ MODULE MemoryMutex ------------------------------
(***************************************************************************)
(* apps/swarmx-api/src/services/memory-mutex.ts, the lock that keeps       *)
(* speech synthesis, rendering and publishing from filling the memory      *)
(* together, with the two clients that take it: renderWithFfmpeg (phase    *)
(* "tts", then phase "render") and processPublishTask ("publishing").      *)
(* No code takes the phase "llm".                                          *)
(*                                                                         *)
(* acquirePhase and releasePhase await between looking at the lock and     *)
(* changing it, so each of them is two steps here.  A renderer swallows    *)
(* every error of the lock and goes on; a publisher does not.              *)
(***************************************************************************)
EXTENDS Naturals, Sequences

CONSTANTS
  Renderer,   \* concurrent executions of renderWithFfmpeg
  Publisher,  \* concurrent executions of processPublishTask
  OwnerOf,    \* the owner they pass: attempts of one job pass the same id
  NoOwner,    \* activeOwner of the free lock
  MaxResets   \* bound: calls of forceReset

Client == Renderer \cup Publisher

ASSUME MutexAssumption ==
  /\ Renderer \cap Publisher = {}
  /\ OwnerOf \in [Client -> {OwnerOf[c] : c \in Client}]
  /\ NoOwner \notin {OwnerOf[c] : c \in Client}
  /\ MaxResets \in Nat

VARIABLES
  currentPhase,
  activeOwner,
  phaseWaiters,  \* clients whose acquirePhase is queued, in order
  pc,            \* where each client is
  want,          \* the phase each client acquires, uses or releases
  abandoned,     \* history: a memory check failed since the lock last changed
  resets         \* history: number of forceReset calls

vars == <<currentPhase, activeOwner, phaseWaiters, pc, want, abandoned, resets>>

Phase == {"tts", "render", "publishing"}
Place == {"ready", "waiting", "checking", "using", "cleaning", "releasing", "done"}

FirstPhase(c) == IF c \in Renderer THEN "tts" ELSE "publishing"

Init ==
  /\ currentPhase = "idle"
  /\ activeOwner = NoOwner
  /\ phaseWaiters = <<>>
  /\ pc = [c \in Client |-> "ready"]
  /\ want = [c \in Client |-> FirstPhase(c)]
  /\ abandoned = FALSE
  /\ resets = 0

Lock == <<currentPhase, activeOwner>>

(* acquirePhase rejects: the renderer goes on without the lock, the         *)
(* publisher's task ends before its try block.                              *)
AfterRefusal(c) == IF c \in Renderer THEN "using" ELSE "done"

(* acquirePhase up to its first await.                                      *)
Acquire(c) ==
  /\ pc[c] = "ready"
  /\ IF currentPhase = want[c] /\ activeOwner = OwnerOf[c]
     THEN /\ pc' = [pc EXCEPT ![c] = "using"]
          /\ UNCHANGED phaseWaiters
     ELSE IF currentPhase # "idle"
     THEN /\ pc' = [pc EXCEPT ![c] = "waiting"]
          /\ phaseWaiters' = Append(phaseWaiters, c)
     ELSE /\ pc' = [pc EXCEPT ![c] = "checking"]
          /\ UNCHANGED phaseWaiters
  /\ UNCHANGED <<Lock, want, abandoned, resets>>

WithoutPlace(k) == [i \in 1..(Len(phaseWaiters) - 1) |->
                      IF i < k THEN phaseWaiters[i] ELSE phaseWaiters[i + 1]]

(* A queued call gives up after its time-out.                               *)
WaitTimesOut(c) ==
  /\ pc[c] = "waiting"
  /\ \E k \in 1..Len(phaseWaiters) :
       /\ phaseWaiters[k] = c
       /\ phaseWaiters' = WithoutPlace(k)
  /\ pc' = [pc EXCEPT ![c] = AfterRefusal(c)]
  /\ UNCHANGED <<Lock, want, abandoned, resets>>

(* _prePhaseCheck resolves: the phase is entered, whatever happened to the  *)
(* lock during the check (acquirePhase returns a log line later) ...        *)
CheckPasses(c) ==
  /\ pc[c] = "checking"
  /\ currentPhase' = want[c]
  /\ activeOwner' = OwnerOf[c]
  /\ abandoned' = FALSE
  /\ pc' = [pc EXCEPT ![c] = "using"]
  /\ UNCHANGED <<phaseWaiters, want, resets>>

(* Mutant: the phase is entered before the check and kept when it throws.   *)
CheckFailsHolding(c) ==
  /\ pc[c] = "checking"
  /\ currentPhase' = want[c]
  /\ activeOwner' = OwnerOf[c]
  /\ abandoned' = TRUE
  /\ pc' = [pc EXCEPT ![c] = AfterRefusal(c)]
  /\ UNCHANGED <<phaseWaiters, want, resets>>

(* ... or throws: the resident set is over the ceiling, or unloading the    *)
(* models failed.  The waiters are not told.                                *)
CheckFails(c) ==
  /\ pc[c] = "checking"
  /\ abandoned' = TRUE
  /\ pc' = [pc EXCEPT ![c] = AfterRefusal(c)]
  /\ UNCHANGED <<Lock, phaseWaiters, want, resets>>

(* A renderer fails between two phases, or before the first; its finally    *)
(* block releases the phase "render", which it never entered.               *)
Fail(c) ==
  /\ c \in Renderer
  /\ pc[c] = "ready"
  /\ pc' = [pc EXCEPT ![c] = "cleaning"]
  /\ want' = [want EXCEPT ![c] = "render"]
  /\ UNCHANGED <<Lock, phaseWaiters, abandoned, resets>>

(* Where a client goes once releasePhase has returned.                      *)
AfterRelease(c) == IF want[c] = "tts" THEN "ready" ELSE "done"
WantAfterRelease(c) == IF want[c] = "tts" THEN "render" ELSE want[c]

(* The work of the phase ends, well or badly, and releasePhase is called:   *)
(* it looks at the phase and not at the owner.                              *)
Release(c) ==
  /\ pc[c] \in {"using", "cleaning"}
  /\ IF currentPhase # want[c]
     THEN /\ pc' = [pc EXCEPT ![c] = AfterRelease(c)]
          /\ want' = [want EXCEPT ![c] = WantAfterRelease(c)]
     ELSE /\ pc' = [pc EXCEPT ![c] = "releasing"]
          /\ UNCHANGED want
  /\ UNCHANGED <<Lock, phaseWaiters, abandoned, resets>>

(* Mutant: releasePhase forgets to wake the next waiter.                    *)
ReleaseDoneSilent(c) ==
  /\ pc[c] = "releasing"
  /\ currentPhase' = "idle"
  /\ activeOwner' = NoOwner
  /\ abandoned' = FALSE
  /\ want' = [want EXCEPT ![c] = WantAfterRelease(c)]
  /\ pc' = [pc EXCEPT ![c] = AfterRelease(c)]
  /\ UNCHANGED <<phaseWaiters, resets>>

(* After the clean-up of the phase the lock is freed, whoever holds it now, *)
(* and the first waiter goes on to its memory check.                        *)
ReleaseDone(c) ==
  /\ pc[c] = "releasing"
  /\ currentPhase' = "idle"
  /\ activeOwner' = NoOwner
  /\ abandoned' = FALSE
  /\ want' = [want EXCEPT ![c] = WantAfterRelease(c)]
  /\ IF phaseWaiters = <<>>
     THEN /\ pc' = [pc EXCEPT ![c] = AfterRelease(c)]
          /\ UNCHANGED phaseWaiters
     ELSE /\ pc' = [pc EXCEPT ![c] = AfterRelease(c),
                              ![Head(phaseWaiters)] = "checking"]
          /\ phaseWaiters' = Tail(phaseWaiters)
  /\ UNCHANGED resets

(* The next attempt or the next job.                                        *)
Again(c) ==
  /\ pc[c] = "done"
  /\ pc' = [pc EXCEPT ![c] = "ready"]
  /\ want' = [want EXCEPT ![c] = FirstPhase(c)]
  /\ UNCHANGED <<Lock, phaseWaiters, abandoned, resets>>

(* forceReset rejects every waiter and frees the lock.                      *)
ForceReset ==
  /\ resets < MaxResets
  /\ currentPhase' = "idle"
  /\ activeOwner' = NoOwner
  /\ phaseWaiters' = <<>>
  /\ pc' = [c \in Client |-> IF pc[c] = "waiting" THEN AfterRefusal(c) ELSE pc[c]]
  /\ abandoned' = FALSE
  /\ resets' = resets + 1
  /\ UNCHANGED want

Next ==
  \/ \E c \in Client :
       \/ Acquire(c) \/ WaitTimesOut(c) \/ CheckPasses(c) \/ CheckFails(c)
       \/ Fail(c) \/ Release(c) \/ ReleaseDone(c) \/ Again(c)
  \/ ForceReset

Spec == Init /\ [][Next]_vars
-----------------------------------------------------------------------------
(* Type invariant.  The queue holds every waiting call once and no call     *)
(* that has already returned, and the lock has an owner when it is taken.   *)
QueuedAreWaiting ==
  /\ \A c \in Client : pc[c] = "waiting" => \E k \in 1..Len(phaseWaiters) : phaseWaiters[k] = c
  /\ \A k \in 1..Len(phaseWaiters) : pc[phaseWaiters[k]] = "waiting"
  /\ \A k, l \in 1..Len(phaseWaiters) : phaseWaiters[k] = phaseWaiters[l] => k = l

MutexTypeOK ==
  /\ currentPhase \in Phase \cup {"idle"}
  /\ activeOwner \in {OwnerOf[c] : c \in Client} \cup {NoOwner}
  /\ currentPhase = "idle" <=> activeOwner = NoOwner
  /\ phaseWaiters \in Seq(Client)
  /\ pc \in [Client -> Place]
  /\ want \in [Client -> Phase]
  /\ abandoned \in BOOLEAN
  /\ resets \in Nat
  /\ QueuedAreWaiting

(* A phase is never left behind: although checks overlap, owners overwrite  *)
(* one another and releases free a lock they do not hold, a lock that is    *)
(* taken belongs to a client that is still using that phase, or on its way  *)
(* out of releasePhase.                                                     *)
PhaseNotLeaked ==
  currentPhase # "idle" =>
    \E c \in Client : /\ pc[c] \in {"using", "releasing"}
                      /\ want[c] = currentPhase
                      /\ OwnerOf[c] = activeOwner

(* No lost wake-up: nobody queues at a free lock unless a client is about   *)
(* to take it, or the last one woken failed its memory check.               *)
WakePending ==
  currentPhase = "idle" /\ phaseWaiters # <<>> =>
    abandoned \/ \E c \in Client : pc[c] = "checking"

(* The promise of the module: speech synthesis, rendering and publishing    *)
(* never fill the memory at the same time.                                  *)
PhasesExclusive ==
  \A c, d \in Client :
    pc[c] = "using" /\ pc[d] = "using" => want[c] = want[d]
=============================================================================
