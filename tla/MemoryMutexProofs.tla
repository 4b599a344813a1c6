--------------------------- MODULE MemoryMutexProofs ---------------------------
(***************************************************************************)
(* Theorems about MemoryMutex for every number of clients and every choice *)
(* of owners.  MutexInv is inductive: the places of the clients, the lock  *)
(* and the queue determine one another closely enough to carry every step. *)
(***************************************************************************)
EXTENDS MemoryMutex, TLAPS

MutexInv == MutexTypeOK /\ PhaseNotLeaked /\ WakePending

LEMMA InitEstablishes == Init => MutexInv
<1>1. ASSUME Init PROVE MutexTypeOK
  <2>1. phaseWaiters = <<>> /\ phaseWaiters \in Seq(Client) /\ Len(phaseWaiters) = 0
    BY <1>1 DEF Init
  <2>2. \A c \in Client : pc[c] = "ready"
    BY <1>1 DEF Init
  <2>3. QueuedAreWaiting
    BY <2>1, <2>2 DEF QueuedAreWaiting
  <2>4. pc \in [Client -> Place] /\ want \in [Client -> Phase]
    BY <1>1 DEF Init, Place, Phase, FirstPhase
  <2>5. /\ currentPhase = "idle" /\ activeOwner = NoOwner
        /\ abandoned \in BOOLEAN /\ resets \in Nat
    BY <1>1 DEF Init
  <2> QED BY <2>1, <2>3, <2>4, <2>5 DEF MutexTypeOK
<1>2. ASSUME Init PROVE PhaseNotLeaked /\ WakePending
  BY <1>2 DEF Init, PhaseNotLeaked, WakePending
<1> QED BY <1>1, <1>2 DEF MutexInv

LEMMA AcquirePreserves ==
  ASSUME MutexInv, NEW c \in Client, Acquire(c) PROVE MutexInv'
<1> USE MutexAssumption DEF MutexInv, Lock
<1>1. CASE currentPhase = want[c] /\ activeOwner = OwnerOf[c]
  <2>1. pc' = [pc EXCEPT ![c] = "using"] /\ UNCHANGED phaseWaiters
    BY <1>1 DEF Acquire
  <2>2. MutexTypeOK'
    BY <2>1 DEF Acquire, MutexTypeOK, QueuedAreWaiting, Place
  <2>3. PhaseNotLeaked'
    BY <2>1, <1>1 DEF Acquire, MutexTypeOK, PhaseNotLeaked
  <2>4. WakePending'
    BY <2>1 DEF Acquire, MutexTypeOK, WakePending
  <2> QED BY <2>2, <2>3, <2>4
<1>2. CASE ~(currentPhase = want[c] /\ activeOwner = OwnerOf[c]) /\ currentPhase # "idle"
  <2>1. pc' = [pc EXCEPT ![c] = "waiting"] /\ phaseWaiters' = Append(phaseWaiters, c)
    BY <1>2 DEF Acquire
  <2>2. /\ phaseWaiters' \in Seq(Client)
        /\ Len(phaseWaiters') = Len(phaseWaiters) + 1
        /\ \A k \in 1..Len(phaseWaiters) : phaseWaiters'[k] = phaseWaiters[k]
        /\ phaseWaiters'[Len(phaseWaiters) + 1] = c
        /\ Len(phaseWaiters) \in Nat
    BY <2>1 DEF MutexTypeOK
  <2>3. \A k \in 1..Len(phaseWaiters) : phaseWaiters[k] # c
    BY DEF Acquire, MutexTypeOK, QueuedAreWaiting
  <2>4. QueuedAreWaiting'
    BY <2>1, <2>2, <2>3 DEF Acquire, MutexTypeOK, QueuedAreWaiting
  <2>5. MutexTypeOK'
    BY <2>1, <2>2, <2>4 DEF Acquire, MutexTypeOK, Place
  <2>6. PhaseNotLeaked'
    BY <2>1 DEF Acquire, MutexTypeOK, PhaseNotLeaked
  <2>7. WakePending'
    BY <1>2 DEF Acquire, WakePending
  <2> QED BY <2>5, <2>6, <2>7
<1>3. CASE ~(currentPhase = want[c] /\ activeOwner = OwnerOf[c]) /\ currentPhase = "idle"
  <2>1. pc' = [pc EXCEPT ![c] = "checking"] /\ UNCHANGED phaseWaiters
    BY <1>3 DEF Acquire
  <2>2. MutexTypeOK'
    BY <2>1 DEF Acquire, MutexTypeOK, QueuedAreWaiting, Place
  <2>3. PhaseNotLeaked'
    BY <1>3 DEF Acquire, PhaseNotLeaked
  <2>4. WakePending'
    BY <2>1 DEF Acquire, MutexTypeOK, WakePending
  <2> QED BY <2>2, <2>3, <2>4
<1> QED BY <1>1, <1>2, <1>3

LEMMA WaitTimesOutPreserves ==
  ASSUME MutexInv, NEW c \in Client, WaitTimesOut(c) PROVE MutexInv'
<1> USE MutexAssumption DEF MutexInv, Lock
<1>1. PICK k \in 1..Len(phaseWaiters) :
        phaseWaiters[k] = c /\ phaseWaiters' = WithoutPlace(k)
  BY DEF WaitTimesOut
<1> DEFINE n == Len(phaseWaiters)
<1>2. /\ n \in Nat /\ k \in 1..n
      /\ phaseWaiters' = [i \in 1..(n - 1) |->
                            IF i < k THEN phaseWaiters[i] ELSE phaseWaiters[i + 1]]
      /\ \A i \in 1..n : phaseWaiters[i] \in Client
  BY <1>1 DEF WithoutPlace, MutexTypeOK
<1> HIDE DEF n
<1>3. /\ phaseWaiters' \in Seq(Client)
      /\ Len(phaseWaiters') = n - 1
  <2>1. n - 1 \in Nat
    BY <1>2
  <2>2. ASSUME NEW i \in 1..(n - 1) PROVE phaseWaiters'[i] \in Client
    <3>1. i \in 1..n /\ i + 1 \in 1..n
      BY <1>2
    <3> QED BY <3>1, <1>2
  <2>3. phaseWaiters' \in [1..(n - 1) -> Client]
    BY <2>2, <1>2
  <2> QED BY <2>1, <2>3, <1>2
<1>4. \A i \in 1..(n - 1) :
        \E j \in 1..n : j # k /\ phaseWaiters'[i] = phaseWaiters[j] /\ j = (IF i < k THEN i ELSE i + 1)
  BY <1>2
<1>5. \A j \in 1..n : j # k => \E i \in 1..(n - 1) : phaseWaiters'[i] = phaseWaiters[j]
  <2> SUFFICES ASSUME NEW j \in 1..n, j # k
               PROVE \E i \in 1..(n - 1) : phaseWaiters'[i] = phaseWaiters[j]
    OBVIOUS
  <2>1. CASE j < k
    <3>1. j \in 1..(n - 1) /\ phaseWaiters'[j] = phaseWaiters[j]
      BY <2>1, <1>2
    <3> QED BY <3>1
  <2>2. CASE j > k
    <3>1. j - 1 \in 1..(n - 1) /\ phaseWaiters'[j - 1] = phaseWaiters[j]
      BY <2>2, <1>2
    <3> QED BY <3>1
  <2> QED BY <2>1, <2>2, <1>2
<1>6. pc' = [pc EXCEPT ![c] = AfterRefusal(c)] /\ AfterRefusal(c) \in {"using", "done"}
  BY DEF WaitTimesOut, AfterRefusal
<1>7. QueuedAreWaiting
  BY DEF MutexTypeOK
<1>8. QueuedAreWaiting'
  <2>1. \A d \in Client : pc'[d] = "waiting" =>
          \E i \in 1..(n - 1) : phaseWaiters'[i] = d
    <3> SUFFICES ASSUME NEW d \in Client, pc'[d] = "waiting"
                 PROVE \E i \in 1..(n - 1) : phaseWaiters'[i] = d
      OBVIOUS
    <3>1. d # c /\ pc[d] = "waiting"
      BY <1>6 DEF MutexTypeOK
    <3>2. PICK j \in 1..n : phaseWaiters[j] = d
      BY <3>1, <1>7 DEF QueuedAreWaiting, n
    <3>3. j # k
      BY <3>1, <3>2, <1>1
    <3> QED BY <3>2, <3>3, <1>5
  <2>2. \A i \in 1..(n - 1) : pc'[phaseWaiters'[i]] = "waiting"
    <3> SUFFICES ASSUME NEW i \in 1..(n - 1) PROVE pc'[phaseWaiters'[i]] = "waiting"
      OBVIOUS
    <3>1. PICK j \in 1..n : j # k /\ phaseWaiters'[i] = phaseWaiters[j]
      BY <1>4
    <3>2. phaseWaiters[j] # c /\ pc[phaseWaiters[j]] = "waiting"
      BY <3>1, <1>1, <1>7 DEF QueuedAreWaiting, n
    <3> QED BY <3>1, <3>2, <1>2, <1>6 DEF MutexTypeOK
  <2>3. \A i, l \in 1..(n - 1) : phaseWaiters'[i] = phaseWaiters'[l] => i = l
    <3> SUFFICES ASSUME NEW i \in 1..(n - 1), NEW l \in 1..(n - 1),
                        phaseWaiters'[i] = phaseWaiters'[l]
                 PROVE i = l
      OBVIOUS
    <3>1. PICK a \in 1..n : phaseWaiters'[i] = phaseWaiters[a] /\ a = (IF i < k THEN i ELSE i + 1)
      BY <1>4
    <3>2. PICK b \in 1..n : phaseWaiters'[l] = phaseWaiters[b] /\ b = (IF l < k THEN l ELSE l + 1)
      BY <1>4
    <3>3. a = b
      BY <3>1, <3>2, <1>7 DEF QueuedAreWaiting, n
    <3> QED BY <3>1, <3>2, <3>3, <1>2
  <2> QED BY <2>1, <2>2, <2>3, <1>3 DEF QueuedAreWaiting
<1>9. MutexTypeOK'
  BY <1>3, <1>6, <1>8 DEF WaitTimesOut, MutexTypeOK, Place
<1>10. PhaseNotLeaked'
  BY <1>6 DEF WaitTimesOut, MutexTypeOK, PhaseNotLeaked
<1>11. WakePending'
  <2>1. phaseWaiters # <<>>
    BY <1>2 DEF n
  <2> QED BY <2>1, <1>6 DEF WaitTimesOut, MutexTypeOK, WakePending
<1> QED BY <1>9, <1>10, <1>11

LEMMA CheckPassesPreserves ==
  ASSUME MutexInv, NEW c \in Client, CheckPasses(c) PROVE MutexInv'
<1> USE MutexAssumption DEF MutexInv
<1>1. want[c] \in Phase /\ want[c] # "idle" /\ OwnerOf[c] # NoOwner
  BY DEF MutexTypeOK, Phase
<1>2. MutexTypeOK'
  <2>1. /\ currentPhase' \in Phase \cup {"idle"}
        /\ activeOwner' \in {OwnerOf[d] : d \in Client} \cup {NoOwner}
        /\ currentPhase' # "idle" /\ activeOwner' # NoOwner
    BY <1>1 DEF CheckPasses
  <2>2. QueuedAreWaiting' /\ pc' \in [Client -> Place]
    BY DEF CheckPasses, MutexTypeOK, QueuedAreWaiting, Place
  <2> QED BY <2>1, <2>2 DEF CheckPasses, MutexTypeOK
<1>3. PhaseNotLeaked'
  BY DEF CheckPasses, MutexTypeOK, PhaseNotLeaked
<1>4. WakePending'
  BY <1>1 DEF CheckPasses, WakePending
<1> QED BY <1>2, <1>3, <1>4

LEMMA CheckFailsPreserves ==
  ASSUME MutexInv, NEW c \in Client, CheckFails(c) PROVE MutexInv'
<1> USE MutexAssumption DEF MutexInv, Lock
<1>1. MutexTypeOK'
  BY DEF CheckFails, MutexTypeOK, QueuedAreWaiting, Place, AfterRefusal
<1>2. PhaseNotLeaked'
  BY DEF CheckFails, MutexTypeOK, PhaseNotLeaked
<1>3. WakePending'
  BY DEF CheckFails, WakePending
<1> QED BY <1>1, <1>2, <1>3

LEMMA FailPreserves ==
  ASSUME MutexInv, NEW c \in Client, Fail(c) PROVE MutexInv'
<1> USE MutexAssumption DEF MutexInv, Lock
<1>1. MutexTypeOK'
  BY DEF Fail, MutexTypeOK, QueuedAreWaiting, Place, Phase
<1>2. PhaseNotLeaked'
  BY DEF Fail, MutexTypeOK, PhaseNotLeaked
<1>3. WakePending'
  BY DEF Fail, MutexTypeOK, WakePending
<1> QED BY <1>1, <1>2, <1>3

LEMMA ReleasePreserves ==
  ASSUME MutexInv, NEW c \in Client, Release(c) PROVE MutexInv'
<1> USE MutexAssumption DEF MutexInv, Lock
<1>1. MutexTypeOK'
  BY DEF Release, MutexTypeOK, QueuedAreWaiting, Place, Phase, AfterRelease,
     WantAfterRelease
<1>2. PhaseNotLeaked'
  BY DEF Release, MutexTypeOK, PhaseNotLeaked
<1>3. WakePending'
  BY DEF Release, MutexTypeOK, WakePending, AfterRelease
<1> QED BY <1>1, <1>2, <1>3

LEMMA ReleaseDonePreserves ==
  ASSUME MutexInv, NEW c \in Client, ReleaseDone(c) PROVE MutexInv'
<1> USE MutexAssumption DEF MutexInv
<1>1. PhaseNotLeaked'
  BY DEF ReleaseDone, PhaseNotLeaked
<1>2. /\ AfterRelease(c) \in {"ready", "done"}
      /\ want' \in [Client -> Phase]
  BY DEF ReleaseDone, MutexTypeOK, AfterRelease, WantAfterRelease, Phase
<1>3. CASE phaseWaiters = <<>>
  <2>1. pc' = [pc EXCEPT ![c] = AfterRelease(c)] /\ UNCHANGED phaseWaiters
    BY <1>3 DEF ReleaseDone
  <2>2. QueuedAreWaiting' /\ pc' \in [Client -> Place]
    BY <2>1, <1>2 DEF ReleaseDone, MutexTypeOK, QueuedAreWaiting, Place
  <2>3. MutexTypeOK'
    BY <2>1, <2>2, <1>2 DEF ReleaseDone, MutexTypeOK
  <2>4. WakePending'
    BY <2>1, <1>3 DEF WakePending
  <2> QED BY <2>3, <2>4, <1>1
<1>4. CASE phaseWaiters # <<>>
  <2> DEFINE h == Head(phaseWaiters)
             n == Len(phaseWaiters)
  <2>1. /\ pc' = [pc EXCEPT ![c] = AfterRelease(c), ![h] = "checking"]
        /\ phaseWaiters' = Tail(phaseWaiters)
    BY <1>4 DEF ReleaseDone
  <2>2. /\ n \in Nat /\ n >= 1
        /\ h = phaseWaiters[1] /\ h \in Client
        /\ phaseWaiters' \in Seq(Client) /\ Len(phaseWaiters') = n - 1
        /\ \A k \in 1..(n - 1) : phaseWaiters'[k] = phaseWaiters[k + 1]
        /\ \A k \in 1..n : phaseWaiters[k] \in Client
    BY <2>1, <1>4 DEF MutexTypeOK
  <2>3. QueuedAreWaiting /\ pc[c] = "releasing" /\ pc \in [Client -> Place]
    BY DEF MutexTypeOK, ReleaseDone
  <2>4. pc[h] = "waiting" /\ h # c
    BY <2>2, <2>3 DEF QueuedAreWaiting
  <2>5. /\ pc' \in [Client -> Place]
        /\ pc'[h] = "checking"
        /\ pc'[c] = AfterRelease(c)
        /\ \A d \in Client : d # h /\ d # c => pc'[d] = pc[d]
    BY <2>1, <2>2, <2>3, <2>4, <1>2 DEF Place
  <2> HIDE DEF h, n
  <2>6. QueuedAreWaiting'
    <3>1. \A d \in Client : pc'[d] = "waiting" =>
            \E k \in 1..(n - 1) : phaseWaiters'[k] = d
      <4> SUFFICES ASSUME NEW d \in Client, pc'[d] = "waiting"
                   PROVE \E k \in 1..(n - 1) : phaseWaiters'[k] = d
        OBVIOUS
      <4>1. d # h /\ d # c /\ pc[d] = "waiting"
        BY <2>5, <1>2
      <4>2. PICK j \in 1..n : phaseWaiters[j] = d
        BY <4>1, <2>3 DEF QueuedAreWaiting, n
      <4>3. j - 1 \in 1..(n - 1) /\ phaseWaiters'[j - 1] = d
        BY <4>1, <4>2, <2>2
      <4> QED BY <4>3
    <3>2. \A k \in 1..(n - 1) : pc'[phaseWaiters'[k]] = "waiting"
      <4> SUFFICES ASSUME NEW k \in 1..(n - 1) PROVE pc'[phaseWaiters'[k]] = "waiting"
        OBVIOUS
      <4>1. /\ k + 1 \in 1..n /\ 1 \in 1..n /\ k + 1 # 1
            /\ phaseWaiters'[k] = phaseWaiters[k + 1]
            /\ phaseWaiters[k + 1] \in Client
        BY <2>2
      <4>2. pc[phaseWaiters[k + 1]] = "waiting" /\ phaseWaiters[k + 1] # h
        BY <4>1, <2>2, <2>3 DEF QueuedAreWaiting, n
      <4> QED BY <4>1, <4>2, <2>3, <2>5
    <3>3. \A k, l \in 1..(n - 1) : phaseWaiters'[k] = phaseWaiters'[l] => k = l
      <4> SUFFICES ASSUME NEW k \in 1..(n - 1), NEW l \in 1..(n - 1),
                          phaseWaiters'[k] = phaseWaiters'[l]
                   PROVE k = l
        OBVIOUS
      <4>1. k + 1 \in 1..n /\ l + 1 \in 1..n /\ phaseWaiters[k + 1] = phaseWaiters[l + 1]
        BY <2>2
      <4>2. k + 1 = l + 1
        BY <4>1, <2>3 DEF QueuedAreWaiting, n
      <4> QED BY <4>2, <2>2
    <3> QED BY <3>1, <3>2, <3>3, <2>2 DEF QueuedAreWaiting
  <2>7. MutexTypeOK'
    BY <2>2, <2>5, <2>6, <1>2 DEF ReleaseDone, MutexTypeOK
  <2>8. WakePending'
    BY <2>2, <2>5 DEF WakePending
  <2> QED BY <2>7, <2>8, <1>1
<1> QED BY <1>3, <1>4

LEMMA AgainPreserves ==
  ASSUME MutexInv, NEW c \in Client, Again(c) PROVE MutexInv'
<1> USE MutexAssumption DEF MutexInv, Lock
<1>1. MutexTypeOK'
  BY DEF Again, MutexTypeOK, QueuedAreWaiting, Place, Phase, FirstPhase
<1>2. PhaseNotLeaked'
  BY DEF Again, MutexTypeOK, PhaseNotLeaked
<1>3. WakePending'
  BY DEF Again, MutexTypeOK, WakePending
<1> QED BY <1>1, <1>2, <1>3

LEMMA ForceResetPreserves == ASSUME MutexInv, ForceReset PROVE MutexInv'
<1> USE MutexAssumption DEF MutexInv
<1>1. \A c \in Client : pc'[c] \in Place /\ pc'[c] # "waiting"
  BY DEF ForceReset, MutexTypeOK, AfterRefusal, Place
<1>2. phaseWaiters' = <<>> /\ phaseWaiters' \in Seq(Client) /\ Len(phaseWaiters') = 0
  BY DEF ForceReset
<1>3. QueuedAreWaiting'
  BY <1>1, <1>2 DEF QueuedAreWaiting
<1>4. MutexTypeOK'
  <2>1. pc' \in [Client -> Place]
    BY <1>1 DEF ForceReset
  <2>2. currentPhase' = "idle" /\ activeOwner' = NoOwner /\ abandoned' = FALSE
    BY DEF ForceReset
  <2>3. resets' \in Nat
    BY DEF ForceReset, MutexTypeOK
  <2>4. want' \in [Client -> Phase]
    BY DEF ForceReset, MutexTypeOK
  <2> QED BY <1>2, <1>3, <2>1, <2>2, <2>3, <2>4 DEF MutexTypeOK
<1>5. PhaseNotLeaked' /\ WakePending'
  BY <1>2 DEF ForceReset, PhaseNotLeaked, WakePending
<1> QED BY <1>4, <1>5

(* The invariant behind the three theorems below holds in every state.      *)
THEOREM MutexInvariant == Spec => []MutexInv
<1>1. Init => MutexInv
  BY InitEstablishes
<1>2. MutexInv /\ [Next]_vars => MutexInv'
  <2> SUFFICES ASSUME MutexInv, [Next]_vars PROVE MutexInv'
    OBVIOUS
  <2>1. CASE UNCHANGED vars
    BY <2>1 DEF vars, MutexInv, MutexTypeOK, QueuedAreWaiting, PhaseNotLeaked, WakePending
  <2>2. ASSUME NEW c \in Client,
               \/ Acquire(c) \/ WaitTimesOut(c) \/ CheckPasses(c) \/ CheckFails(c)
               \/ Fail(c) \/ Release(c) \/ ReleaseDone(c) \/ Again(c)
        PROVE MutexInv'
    BY <2>2, AcquirePreserves, WaitTimesOutPreserves, CheckPassesPreserves,
       CheckFailsPreserves, FailPreserves, ReleasePreserves, ReleaseDonePreserves,
       AgainPreserves
  <2>3. CASE ForceReset
    BY <2>3, ForceResetPreserves
  <2> QED BY <2>1, <2>2, <2>3 DEF Next
<1> QED BY <1>1, <1>2, PTL DEF Spec

(* The queue of waiting calls and the lock keep their shape.                *)
THEOREM MutexTypeCorrect == Spec => []MutexTypeOK
<1>1. MutexInv => MutexTypeOK
  BY DEF MutexInv
<1> QED BY <1>1, MutexInvariant, PTL

(* A taken phase always belongs to a client that will release it.           *)
THEOREM PhaseNotLeakedHolds == Spec => []PhaseNotLeaked
<1>1. MutexInv => PhaseNotLeaked
  BY DEF MutexInv
<1> QED BY <1>1, MutexInvariant, PTL

(* Nobody queues at a free lock without a wake-up under way, except after a *)
(* failed memory check.                                                     *)
THEOREM WakePendingHolds == Spec => []WakePending
<1>1. MutexInv => WakePending
  BY DEF MutexInv
<1> QED BY <1>1, MutexInvariant, PTL
=============================================================================
