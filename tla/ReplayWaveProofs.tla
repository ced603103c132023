-------------------------- MODULE ReplayWaveProofs --------------------------
(***************************************************************************)
(* Proofs about ReplayWave for every number of sessions, workers and       *)
(* permits and every combination of faults.                                *)
(***************************************************************************)
EXTENDS MCReplayWave, FiniteSetTheorems, TLAPS

(***************************************************************************)
(* The inductive invariant.  A wave is Opened from the moment the last     *)
(* worker arrives at the barrier.                                          *)
(***************************************************************************)
\* States in which a worker has left its preparation without raising.
Prepared == {"recording", "arriving", "waiting", "released", "announcing",
             "reading", "replaying"}
\* States in which a worker has passed the barrier and not raised.
PastBarrier == {"released", "announcing", "reading", "replaying"}
BeforeBarrier == {"loading", "preparing", "recording", "arriving", "absent"}

ReadyOrLater == {"ready", "failed"} \cup Started

Opened ==
  \/ barrier = "draining"
  \/ \E w \in WaveWorkers(wave) : pc[w] \in PastBarrier
  \/ \E s \in WaveSessions(wave) : sess[s] \in Started

\* Workers and their state belong to the current wave.
WaveInv ==
  /\ wave * Concurrency < NumSessions
  /\ \A w \in WorkerIds : w \notin WaveWorkers(wave) <=> pc[w] = "absent"
  /\ \A s \in Sessions : WaveStart(wave) + Concurrency <= s => sess[s] = "queued"
  /\ \A w \in WorkerIds : pc[w] = "loading" =>
       \A s \in MyChunk(w) : sess[s] = "queued"

HeldInv ==
  /\ \A w \in WorkerIds : held[w] \subseteq MyChunk(w)
  /\ \A w \in WorkerIds : pc[w] \in {"absent", "loading", "preparing", "done", "failed"}
       => held[w] = {}
  /\ \A w \in WorkerIds : \A s \in held[w] : sess[s] \in {"ready"} \cup Started

BarrierInv ==
  /\ inside = {w \in WorkerIds : pc[w] = "waiting"}
  /\ \A w \in WorkerIds : pc[w] \in Prepared =>
       \A s \in MyChunk(w) : sess[s] \in ReadyOrLater
  /\ Opened => \A w \in WaveWorkers(wave) :
       /\ pc[w] \notin BeforeBarrier
       /\ \A s \in MyChunk(w) : sess[s] \in ReadyOrLater

IInv == TypeOK /\ WaveInv /\ HeldInv /\ BarrierInv
-----------------------------------------------------------------------------
(* How a wave is cut into chunks.                                          *)

\* Every wave that holds a session has between one and MaxWorkers workers,
\* never more than sessions (_partition_worker_inputs: no chunk is empty).
LEMMA WaveShape ==
  ASSUME NEW k \in Nat, WaveStart(k) < NumSessions
  PROVE  /\ WaveStart(k) \in Nat
         /\ WaveSize(k) \in Nat \ {0}
         /\ WorkerCount(k) \in Nat \ {0}
         /\ WorkerCount(k) <= MaxWorkers
         /\ WorkerCount(k) <= WaveSize(k)
         /\ WaveWorkers(k) = 0 .. WorkerCount(k) - 1
         /\ WaveWorkers(k) \subseteq WorkerIds
<1> USE ReplayWaveAssumption
<1>1. WaveStart(k) \in Nat
  BY DEF WaveStart
<1>2. WaveSize(k) \in Nat \ {0}
  BY <1>1 DEF WaveSize, Smaller
<1>3. /\ WorkerCount(k) \in Nat \ {0}
      /\ WorkerCount(k) <= MaxWorkers
      /\ WorkerCount(k) <= WaveSize(k)
  BY <1>2 DEF WorkerCount, Smaller
<1>4. WaveWorkers(k) = 0 .. WorkerCount(k) - 1
  BY <1>3 DEF WaveWorkers, WorkerIds
<1>5. QED
  BY <1>1, <1>2, <1>3, <1>4 DEF WorkerIds

\* A number lies in one of c consecutive blocks of q elements.
LEMMA BlockOf ==
  ASSUME NEW q \in Nat \ {0}, NEW j \in Nat
  PROVE  \E w \in Nat : w * q <= j /\ j < (w + 1) * q
<1>1. (j \div q) \in Nat /\ j = q * (j \div q) + (j % q) /\ j % q \in 0 .. q - 1
  OBVIOUS
<1>2. QED
  BY <1>1

\* The chunks of a wave cover it: no manifest entry is left to nobody.
LEMMA ChunksCover ==
  ASSUME NEW k \in Nat, WaveStart(k) < NumSessions,
         NEW s \in WaveSessions(k)
  PROVE  \E w \in WaveWorkers(k) : s \in Chunk(k, w)
<1> DEFINE c == WorkerCount(k)
           n == WaveSize(k)
           q == n \div c
           r == n % c
           i == s - WaveStart(k)
<1>1. c \in Nat \ {0} /\ n \in Nat \ {0} /\ c <= n
  BY WaveShape
<1>2. q \in Nat \ {0} /\ r \in 0 .. c - 1 /\ n = c * q + r
  BY <1>1
<1>3. s \in Int /\ WaveStart(k) \in Nat /\ i \in 0 .. n - 1
  BY WaveShape, ReplayWaveAssumption
  DEF WaveSessions, Sessions, WaveSize, Smaller, WaveStart
<1>4. ASSUME NEW w \in Nat, w < c,
             w * q + Smaller(w, r) <= i,
             i < (w + 1) * q + Smaller(w + 1, r)
      PROVE  \E v \in WaveWorkers(k) : s \in Chunk(k, v)
  <2>1. w \in WaveWorkers(k)
    BY <1>1, <1>4, WaveShape
  <2>2. /\ ChunkStart(k, w) = WaveStart(k) + w * q + Smaller(w, r)
        /\ ChunkStart(k, w + 1) = WaveStart(k) + (w + 1) * q + Smaller(w + 1, r)
    BY DEF ChunkStart
  <2> HIDE DEF q, r
  <2>3. w * q \in Int /\ (w + 1) * q \in Int
    BY <1>2
  <2>4. Smaller(w, r) \in Int /\ Smaller(w + 1, r) \in Int
    BY <1>2 DEF Smaller
  <2>5. ChunkStart(k, w) <= s /\ s < ChunkStart(k, w + 1)
    BY <1>3, <1>4, <2>2, <2>3, <2>4
  <2>6. QED
    BY <2>1, <2>5 DEF Chunk
<1> HIDE DEF c, n, q, r, i
<1>5. CASE i < r * (q + 1)
  <2>1. PICK w \in Nat : w * (q + 1) <= i /\ i < (w + 1) * (q + 1)
    <3>1. q + 1 \in Nat \ {0} /\ i \in Nat
      BY <1>1, <1>2, <1>3
    <3>2. QED
      BY <3>1, BlockOf
  <2>2. w < r
    <3>1. ASSUME r <= w PROVE FALSE
      <4>1. r * (q + 1) <= w * (q + 1)
        BY <3>1, <1>2
      <4>2. r * (q + 1) \in Int /\ w * (q + 1) \in Int
        BY <1>2
      <4>3. QED
        BY <4>1, <4>2, <2>1, <1>3, <1>5
    <3>2. QED
      BY <3>1, <1>2
  <2>3. w * (q + 1) = w * q + w /\ (w + 1) * (q + 1) = (w + 1) * q + (w + 1)
    BY <1>2
  <2>4. Smaller(w, r) = w /\ Smaller(w + 1, r) = w + 1
    BY <1>2, <2>2 DEF Smaller
  <2>5. w < c
    BY <1>1, <1>2, <2>2
  <2>6. w * q + Smaller(w, r) <= i /\ i < (w + 1) * q + Smaller(w + 1, r)
    BY <2>1, <2>3, <2>4
  <2>7. QED
    BY <1>4, <2>5, <2>6
<1>6. CASE r * (q + 1) <= i
  <2>1. i - r \in Nat /\ r * q <= i - r
    <3>1. r * (q + 1) = r * q + r /\ r * q \in Nat
      BY <1>2
    <3>2. QED
      BY <3>1, <1>2, <1>3, <1>6
  <2>2. PICK w \in Nat : w * q <= i - r /\ i - r < (w + 1) * q
    BY <2>1, <1>2, BlockOf
  <2>3. r <= w
    <3>1. ASSUME w + 1 <= r PROVE FALSE
      <4>1. (w + 1) * q <= r * q
        BY <3>1, <1>2
      <4>2. (w + 1) * q \in Int /\ r * q \in Int
        BY <1>2
      <4>3. QED
        BY <4>1, <4>2, <2>1, <2>2
    <3>2. QED
      BY <3>1, <1>2
  <2>4. w < c
    <3>1. i - r < c * q
      <4>1. c * q \in Int
        BY <1>1, <1>2
      <4>2. QED
        BY <4>1, <1>1, <1>2, <1>3
    <3>2. ASSUME c <= w PROVE FALSE
      <4>1. c * q <= w * q
        BY <3>2, <1>1, <1>2
      <4>2. c * q \in Int /\ w * q \in Int
        BY <1>1, <1>2
      <4>3. QED
        BY <4>1, <4>2, <3>1, <2>1, <2>2
    <3>3. QED
      BY <3>2, <1>1
  <2>5. Smaller(w, r) = r /\ Smaller(w + 1, r) = r
    BY <1>2, <2>3 DEF Smaller
  <2>6. w * q + Smaller(w, r) <= i /\ i < (w + 1) * q + Smaller(w + 1, r)
    <3>1. w * q \in Int /\ (w + 1) * q \in Int
      BY <1>2
    <3>2. QED
      BY <3>1, <1>2, <1>3, <2>2, <2>5
  <2>7. QED
    BY <1>4, <2>4, <2>6
<1>7. r * (q + 1) \in Int
  BY <1>2
<1>8. QED
  BY <1>3, <1>5, <1>6, <1>7

\* No manifest entry is given to two workers.
LEMMA ChunksDisjoint ==
  ASSUME NEW k \in Nat, WaveStart(k) < NumSessions,
         NEW v \in WorkerIds, NEW w \in WorkerIds, v # w
  PROVE  Chunk(k, v) \cap Chunk(k, w) = {}
<1> USE ReplayWaveAssumption
<1> DEFINE q == WaveSize(k) \div WorkerCount(k)
           r == WaveSize(k) % WorkerCount(k)
<1>1. q \in Nat /\ r \in Nat
  BY WaveShape
<1>2. ASSUME NEW a \in WorkerIds, NEW b \in WorkerIds, a < b
      PROVE  ChunkStart(k, a + 1) <= ChunkStart(k, b)
  <2>1. (a + 1) * q <= b * q
    BY <1>1, <1>2 DEF WorkerIds
  <2>2. Smaller(a + 1, r) <= Smaller(b, r)
    BY <1>1, <1>2 DEF WorkerIds, Smaller
  <2> HIDE DEF q, r
  <2>3. (a + 1) * q \in Int /\ b * q \in Int
    BY <1>1 DEF WorkerIds
  <2>4. WaveStart(k) \in Nat
    BY WaveShape
  <2>5. ChunkStart(k, a + 1) = WaveStart(k) + (a + 1) * q + Smaller(a + 1, r)
    BY DEF ChunkStart, q, r
  <2>6. ChunkStart(k, b) = WaveStart(k) + b * q + Smaller(b, r)
    BY DEF ChunkStart, q, r
  <2>7. Smaller(a + 1, r) \in Int /\ Smaller(b, r) \in Int
    BY <1>1 DEF WorkerIds, Smaller
  <2>8. QED
    BY <2>1, <2>2, <2>3, <2>4, <2>5, <2>6, <2>7
<1>3. \A a \in WorkerIds : ChunkStart(k, a + 1) \in Int /\ ChunkStart(k, a) \in Int
  <2>1. SUFFICES ASSUME NEW a \in WorkerIds
                 PROVE  ChunkStart(k, a + 1) \in Int /\ ChunkStart(k, a) \in Int
    OBVIOUS
  <2>2. a \in Int /\ WaveStart(k) \in Int
    BY <2>1, WaveShape DEF WorkerIds
  <2> USE DEF Smaller
  <2> HIDE DEF q, r
  <2>3. /\ ChunkStart(k, a + 1) = WaveStart(k) + (a + 1) * q + Smaller(a + 1, r)
        /\ ChunkStart(k, a) = WaveStart(k) + a * q + Smaller(a, r)
    BY DEF ChunkStart, q, r
  <2>4. (a + 1) * q \in Int /\ a * q \in Int
    BY <1>1, <2>2
  <2>5. QED
    BY <1>1, <2>2, <2>3, <2>4
<1>4. QED
  BY <1>2, <1>3 DEF Chunk, WorkerIds, WaveSessions, Sessions
-----------------------------------------------------------------------------
(* Type correctness.                                                       *)

\* Submitting a wave assigns a state to every worker.
LEMMA SubmittedType == \A k : Submitted(k) \in [WorkerIds -> WorkerStates]
  BY DEF Submitted, WorkerStates

\* The parent submits the first wave with every variable of its type.
LEMMA TypeCorrectInit == Init => TypeOK
<1> USE ReplayWaveAssumption
<1>1. PrepLimit \in Nat
  BY DEF PrepLimit, DefaultPrepConcurrency, Smaller
<1>2. ASSUME Init PROVE pc \in [WorkerIds -> WorkerStates]
  BY <1>2, SubmittedType DEF Init
<1>3. ASSUME Init PROVE inside \in SUBSET WorkerIds /\ failing \in SUBSET WorkerIds
  BY <1>3 DEF Init
<1>4. ASSUME Init PROVE startEvent \in BOOLEAN
  BY <1>4 DEF Init
<1>5. ASSUME Init PROVE startTime \in {0, 1} /\ wave \in Nat
  BY <1>5 DEF Init
<1>6. ASSUME Init PROVE /\ sess \in [Sessions -> SessionStates]
    /\ box \in [Sessions -> BoxStates]
    /\ held \in [WorkerIds -> SUBSET Sessions]
  BY <1>6 DEF Init, SessionStates, BoxStates
<1>7. QED
  BY <1>1, <1>2, <1>3, <1>4, <1>5, <1>6 DEF Init, TypeOK

\* Every step of every process keeps the types.
LEMMA TypeCorrectStep == TypeOK /\ [Next]_vars => TypeOK'
<1> USE ReplayWaveAssumption
<1> SUFFICES ASSUME TypeOK, [Next]_vars PROVE TypeOK'
  OBVIOUS
<1> USE DEF TypeOK, WorkerStates, SessionStates, BoxStates, sharedVars, sessionVars
<1>1. ASSUME NEW w \in WorkerIds, WorkerStep(w) PROVE TypeOK'
  <2>1. CASE Load(w) BY <2>1 DEF Load, Go
  <2>2. CASE LoadFails(w) BY <2>2 DEF LoadFails, Go
  <2>3. CASE CollectPreparations(w)
    <3>1. held' \in [WorkerIds -> SUBSET Sessions]
      BY <2>3 DEF CollectPreparations, MyChunk, Chunk, WaveSessions
    <3>2. QED
      BY <2>3, <3>1 DEF CollectPreparations, Go, Abort
  <2>4. CASE RecordFailures(w) BY <2>4 DEF RecordFailures, Go
  <2>5. CASE RecordingFails(w) BY <2>5 DEF RecordingFails, Go, Abort
  <2>6. CASE Arrive(w) BY <2>6 DEF Arrive, Go
  <2>7. CASE ArriveBroken(w) BY <2>7 DEF ArriveBroken, Go, Abort
  <2>8. CASE Leave(w) BY <2>8 DEF Leave, Go
  <2>9. CASE LeaveBroken(w) BY <2>9 DEF LeaveBroken, Go, Abort
  <2>10. CASE SetStartTime(w) BY <2>10 DEF SetStartTime, Go
  <2>11. CASE SetStartEvent(w) BY <2>11 DEF SetStartEvent, Go
  <2>12. CASE AwaitStartEvent(w) BY <2>12 DEF AwaitStartEvent, Go
  <2>13. CASE BeginReplay(w) BY <2>13 DEF BeginReplay, Go
  <2>14. CASE NoTimeZero(w) BY <2>14 DEF NoTimeZero, Go, Abort
  <2>15. CASE StartFails(w) BY <2>15 DEF StartFails, Go, Abort
  <2>16. CASE AbortBarrier(w) BY <2>16 DEF AbortBarrier, Go
  <2>17. CASE ReleasePeers(w) BY <2>17 DEF ReleasePeers, Go
  <2>18. CASE GatherReplays(w) BY <2>18 DEF GatherReplays, Go
  <2>19. CASE FinalizeSession(w) BY <2>19 DEF FinalizeSession, StopSucceeds
  <2>20. CASE FinalizeFails(w)
    BY <2>20 DEF FinalizeFails, StopFaults, StopSucceeds, StopFails
  <2>21. CASE WorkerReturns(w) BY <2>21 DEF WorkerReturns, Go
  <2>22. QED
    BY <1>1, <2>1, <2>2, <2>3, <2>4, <2>5, <2>6, <2>7, <2>8, <2>9, <2>10, <2>11,
       <2>12, <2>13, <2>14, <2>15, <2>16, <2>17, <2>18, <2>19, <2>20, <2>21
    DEF WorkerStep
<1>2. ASSUME NEW s \in Sessions, SessionStep(s) PROVE TypeOK'
  <2>1. CASE AcquirePermit(s) BY <2>1 DEF AcquirePermit
  <2>2. CASE StartContainer(s) BY <2>2 DEF StartContainer
  <2>3. CASE PrepareHost(s) BY <2>3 DEF PrepareHost, Release
  <2>4. CASE PrepareFailsEarly(s)
    BY <2>4 DEF PrepareFailsEarly, Release, FailedResults
  <2>5. CASE FinishPreparation(s) BY <2>5 DEF FinishPreparation, Release
  <2>6. CASE PrepareFailsLate(s)
    BY <2>6 DEF PrepareFailsLate, Release, FailedResults, StopFaults, StopSucceeds, StopFails
  <2>7. CASE FinishReplay(s) BY <2>7 DEF FinishReplay
  <2>8. QED
    BY <1>2, <2>1, <2>2, <2>3, <2>4, <2>5, <2>6, <2>7 DEF SessionStep
<1>3. ASSUME ParentStep PROVE TypeOK'
  <2>1. CASE WaveFails BY <2>1 DEF WaveFails
  <2>2. CASE NextWave
    <3>1. pc' \in [WorkerIds -> WorkerStates]
      BY ONLY <2>2, SubmittedType DEF NextWave
    <3>2. inside' \in SUBSET WorkerIds
      BY ONLY <2>2 DEF NextWave
    <3>3. reported' \in [Sessions -> {"none", "prep_error", "replayed"}]
      BY <2>2 DEF NextWave, Collect, StatOf
    <3>4. wave' \in Nat
      BY <2>2 DEF NextWave
    <3>5. QED
      BY <2>2, <3>1, <3>2, <3>3, <3>4 DEF NextWave
  <2>3. CASE RunCompletes BY <2>3 DEF RunCompletes, Collect, StatOf
  <2>4. QED
    BY <1>3, <2>1, <2>2, <2>3 DEF ParentStep
<1>4. CASE UNCHANGED vars
  BY <1>4 DEF vars
<1>5. QED
  BY <1>1, <1>2, <1>3, <1>4 DEF Next, Terminated

\* Every variable keeps its type through every step of every process.
THEOREM TypeCorrect == Spec => []TypeOK
  BY TypeCorrectInit, TypeCorrectStep, PTL DEF Spec
-----------------------------------------------------------------------------
(* The inductive invariant.                                                *)

\* What the current wave looks like, from the two lemmas on chunks.
LEMMA CurrentWave ==
  ASSUME TypeOK, WaveInv
  PROVE  /\ WaveStart(wave) < NumSessions
         /\ WaveWorkers(wave) \subseteq WorkerIds
         /\ 0 \in WaveWorkers(wave)
         /\ \A w \in WorkerIds : MyChunk(w) \subseteq WaveSessions(wave)
         /\ WaveSessions(wave) \subseteq Sessions
         /\ \A v, w \in WorkerIds : v # w => MyChunk(v) \cap MyChunk(w) = {}
         /\ \A s \in WaveSessions(wave) : \E w \in WaveWorkers(wave) : s \in MyChunk(w)
         /\ \A s \in WaveSessions(wave) : s < WaveStart(wave) + Concurrency
<1>1. wave \in Nat /\ WaveStart(wave) < NumSessions
  BY DEF TypeOK, WaveInv, WaveStart
<1>2. WaveWorkers(wave) \subseteq WorkerIds /\ 0 \in WaveWorkers(wave)
  BY <1>1, WaveShape
<1>3. /\ \A w \in WorkerIds : MyChunk(w) \subseteq WaveSessions(wave)
      /\ WaveSessions(wave) \subseteq Sessions
      /\ \A s \in WaveSessions(wave) : s < WaveStart(wave) + Concurrency
  BY DEF MyChunk, Chunk, WaveSessions
<1>4. \A v, w \in WorkerIds : v # w => MyChunk(v) \cap MyChunk(w) = {}
  BY <1>1, ChunksDisjoint DEF MyChunk
<1>5. \A s \in WaveSessions(wave) : \E w \in WaveWorkers(wave) : s \in MyChunk(w)
  BY <1>1, ChunksCover DEF MyChunk
<1>6. QED
  BY <1>1, <1>2, <1>3, <1>4, <1>5

\* The last worker to arrive finds all its peers inside the barrier.
LEMMA LastToArrive ==
  ASSUME NEW k \in Nat, WaveStart(k) < NumSessions,
         NEW S \in SUBSET WaveWorkers(k), Cardinality(S) = WorkerCount(k)
  PROVE  S = WaveWorkers(k)
<1>1. /\ WaveWorkers(k) = 0 .. WorkerCount(k) - 1
      /\ WorkerCount(k) \in Nat \ {0}
  BY WaveShape
<1>2. /\ IsFiniteSet(WaveWorkers(k))
      /\ Cardinality(WaveWorkers(k)) = WorkerCount(k)
  BY <1>1, FS_Interval
<1>3. QED
  BY <1>2, FS_Subset

\* Where the next wave begins.
LEMMA NextWaveStart ==
  ASSUME NEW k \in Nat, k + 1 < WaveCount
  PROVE  /\ (k + 1) * Concurrency < NumSessions
         /\ WaveStart(k + 1) = WaveStart(k) + Concurrency
         /\ WaveStart(k) \in Nat
<1> USE ReplayWaveAssumption
<1> DEFINE n == WaveCount
<1>1. n \in Nat /\ Concurrency * n <= NumSessions + Concurrency - 1
  BY DEF WaveCount
<1> HIDE DEF n
<1>2. (k + 2) * Concurrency <= n * Concurrency
  BY <1>1 DEF n
<1>3. (k + 2) * Concurrency = (k + 1) * Concurrency + Concurrency
  OBVIOUS
<1>4. (k + 1) * Concurrency \in Nat /\ Concurrency * n = n * Concurrency
  BY <1>1
<1>5. (k + 1) * Concurrency < NumSessions
  BY <1>1, <1>2, <1>3, <1>4
<1>6. QED
  BY <1>5 DEF WaveStart

\* The workers of the next wave find all its sessions untouched.
LEMMA WaveInvStep ==
  ASSUME IInv, [Next]_vars
  PROVE  WaveInv'
<1> USE DEF IInv, TypeOK, WaveInv, MyChunk, sharedVars, sessionVars
<1>1. ASSUME NEW w \in WorkerIds, WorkerStep(w) PROVE WaveInv'
  <2>1. CASE Load(w)
    <3>1. pc'[w] = "preparing"
      BY <2>1 DEF Load, Go
    <3>2. \A v \in WorkerIds : v # w => pc'[v] = pc[v]
      BY <2>1 DEF Load, Go
    <3>3. \A s \in Sessions : s \notin MyChunk(w) => sess'[s] = sess[s]
      BY <2>1 DEF Load
    <3>4. \A s \in Sessions : WaveStart(wave) + Concurrency <= s => s \notin MyChunk(w)
      <4>1. WaveStart(wave) \in Nat /\ Concurrency \in Nat /\ Sessions \subseteq Int
        BY ReplayWaveAssumption DEF WaveStart, Sessions
      <4>2. QED
        BY <4>1, CurrentWave
    <3>5. wave' = wave /\ pc[w] = "loading"
      BY <2>1 DEF Load, Go
    <3>6. \A v \in WorkerIds : v # w => \A s \in MyChunk(v) : sess'[s] = sess[s]
      BY <3>3, CurrentWave
    <3>7. QED
      BY <3>1, <3>2, <3>3, <3>4, <3>5, <3>6
  <2>2. CASE LoadFails(w) BY <2>2, CurrentWave DEF LoadFails, Go
  <2>3. CASE CollectPreparations(w) BY <2>3, CurrentWave DEF CollectPreparations, Go, Abort
  <2>4. CASE RecordFailures(w) BY <2>4, CurrentWave DEF RecordFailures, Go
  <2>5. CASE RecordingFails(w) BY <2>5, CurrentWave DEF RecordingFails, Go, Abort
  <2>6. CASE Arrive(w) BY <2>6, CurrentWave DEF Arrive, Go
  <2>7. CASE ArriveBroken(w) BY <2>7, CurrentWave DEF ArriveBroken, Go, Abort
  <2>8. CASE Leave(w) BY <2>8, CurrentWave DEF Leave, Go
  <2>9. CASE LeaveBroken(w) BY <2>9, CurrentWave DEF LeaveBroken, Go, Abort
  <2>10. CASE SetStartTime(w) BY <2>10, CurrentWave DEF SetStartTime, Go
  <2>11. CASE SetStartEvent(w) BY <2>11, CurrentWave DEF SetStartEvent, Go
  <2>12. CASE AwaitStartEvent(w) BY <2>12, CurrentWave DEF AwaitStartEvent, Go
  <2>13. CASE BeginReplay(w)
    <3>1. \A s \in Sessions : s \notin held[w] => sess'[s] = sess[s]
      BY <2>13 DEF BeginReplay
    <3>2. \A s \in held[w] : sess[s] # "queued"
      BY DEF HeldInv, Started
    <3>3. QED
      BY <2>13, <3>1, <3>2, CurrentWave DEF BeginReplay, Go
  <2>14. CASE NoTimeZero(w) BY <2>14, CurrentWave DEF NoTimeZero, Go, Abort
  <2>15. CASE StartFails(w) BY <2>15, CurrentWave DEF StartFails, Go, Abort
  <2>16. CASE AbortBarrier(w) BY <2>16, CurrentWave DEF AbortBarrier, Go
  <2>17. CASE ReleasePeers(w) BY <2>17, CurrentWave DEF ReleasePeers, Go
  <2>18. CASE GatherReplays(w) BY <2>18, CurrentWave DEF GatherReplays, Go
  <2>19. CASE FinalizeSession(w) BY <2>19, CurrentWave DEF FinalizeSession, IsNextHeld
  <2>20. CASE FinalizeFails(w) BY <2>20, CurrentWave DEF FinalizeFails, IsNextHeld
  <2>21. CASE WorkerReturns(w) BY <2>21, CurrentWave DEF WorkerReturns, Go
  <2>22. QED
    BY <1>1, <2>1, <2>2, <2>3, <2>4, <2>5, <2>6, <2>7, <2>8, <2>9, <2>10, <2>11, <2>12, <2>13, <2>14, <2>15, <2>16, <2>17, <2>18, <2>19, <2>20, <2>21
    DEF WorkerStep
<1>2. ASSUME NEW s \in Sessions, SessionStep(s) PROVE WaveInv'
  <2>1. CASE AcquirePermit(s) BY <2>1, CurrentWave DEF AcquirePermit
  <2>2. CASE StartContainer(s) BY <2>2, CurrentWave DEF StartContainer
  <2>3. CASE PrepareHost(s) BY <2>3, CurrentWave DEF PrepareHost, Release
  <2>4. CASE PrepareFailsEarly(s) BY <2>4, CurrentWave DEF PrepareFailsEarly, Release, FailedResults
  <2>5. CASE FinishPreparation(s) BY <2>5, CurrentWave DEF FinishPreparation, Release
  <2>6. CASE PrepareFailsLate(s) BY <2>6, CurrentWave DEF PrepareFailsLate, Release, FailedResults
  <2>7. CASE FinishReplay(s) BY <2>7, CurrentWave DEF FinishReplay
  <2>8. QED
    BY <1>2, <2>1, <2>2, <2>3, <2>4, <2>5, <2>6, <2>7 DEF SessionStep
<1>3. ASSUME ParentStep PROVE WaveInv'
  <2>1. CASE WaveFails BY <2>1, CurrentWave DEF WaveFails
  <2>2. CASE NextWave
    <3>1. /\ wave' = wave + 1
          /\ pc' = Submitted(wave + 1)
          /\ sess' = sess
          /\ wave + 1 < WaveCount
      BY <2>2 DEF NextWave
    <3>2. /\ (wave + 1) * Concurrency < NumSessions
          /\ WaveStart(wave + 1) = WaveStart(wave) + Concurrency
          /\ WaveStart(wave) \in Nat
      BY <3>1, NextWaveStart
    <3>3. \A w \in WorkerIds : w \notin WaveWorkers(wave + 1) <=> pc'[w] = "absent"
      BY <3>1 DEF Submitted
    <3>4. \A s \in Sessions : WaveStart(wave + 1) <= s => sess'[s] = "queued"
      BY <3>1, <3>2
    <3>5. \A w \in WorkerIds : \A s \in Chunk(wave + 1, w) :
            s \in Sessions /\ WaveStart(wave + 1) <= s
      BY DEF Chunk, WaveSessions
    <3>6. \A s \in Sessions : WaveStart(wave + 1) + Concurrency <= s
            => WaveStart(wave + 1) <= s
      BY <3>2, ReplayWaveAssumption DEF Sessions
    <3>7. QED
      BY <3>1, <3>2, <3>3, <3>4, <3>5, <3>6
  <2>3. CASE RunCompletes BY <2>3, CurrentWave DEF RunCompletes
  <2>4. QED
    BY <1>3, <2>1, <2>2, <2>3 DEF ParentStep
<1>4. CASE UNCHANGED vars
  BY <1>4 DEF vars
<1>5. QED
  BY <1>1, <1>2, <1>3, <1>4 DEF Next, Terminated
\* Workers hold prepared sessions of their own chunk, and only until they end.
LEMMA HeldInvStep ==
  ASSUME IInv, [Next]_vars
  PROVE  HeldInv'
<1> USE DEF IInv, TypeOK, HeldInv, MyChunk, Started, sharedVars, sessionVars
<1>1. ASSUME NEW w \in WorkerIds, WorkerStep(w) PROVE HeldInv'
  <2>1. CASE Load(w) BY <2>1, CurrentWave DEF Load, Go
  <2>2. CASE LoadFails(w) BY <2>2, CurrentWave DEF LoadFails, Go
  <2>3. CASE CollectPreparations(w) BY <2>3, CurrentWave DEF CollectPreparations, Go, Abort
  <2>4. CASE RecordFailures(w) BY <2>4, CurrentWave DEF RecordFailures, Go
  <2>5. CASE RecordingFails(w) BY <2>5, CurrentWave DEF RecordingFails, Go, Abort
  <2>6. CASE Arrive(w) BY <2>6, CurrentWave DEF Arrive, Go
  <2>7. CASE ArriveBroken(w) BY <2>7, CurrentWave DEF ArriveBroken, Go, Abort
  <2>8. CASE Leave(w) BY <2>8, CurrentWave DEF Leave, Go
  <2>9. CASE LeaveBroken(w) BY <2>9, CurrentWave DEF LeaveBroken, Go, Abort
  <2>10. CASE SetStartTime(w) BY <2>10, CurrentWave DEF SetStartTime, Go
  <2>11. CASE SetStartEvent(w) BY <2>11, CurrentWave DEF SetStartEvent, Go
  <2>12. CASE AwaitStartEvent(w) BY <2>12, CurrentWave DEF AwaitStartEvent, Go
  <2>13. CASE BeginReplay(w) BY <2>13, CurrentWave DEF BeginReplay, Go
  <2>14. CASE NoTimeZero(w) BY <2>14, CurrentWave DEF NoTimeZero, Go, Abort
  <2>15. CASE StartFails(w) BY <2>15, CurrentWave DEF StartFails, Go, Abort
  <2>16. CASE AbortBarrier(w) BY <2>16, CurrentWave DEF AbortBarrier, Go
  <2>17. CASE ReleasePeers(w) BY <2>17, CurrentWave DEF ReleasePeers, Go
  <2>18. CASE GatherReplays(w) BY <2>18, CurrentWave DEF GatherReplays, Go
  <2>19. CASE FinalizeSession(w) BY <2>19, CurrentWave DEF FinalizeSession, IsNextHeld
  <2>20. CASE FinalizeFails(w) BY <2>20, CurrentWave DEF FinalizeFails, IsNextHeld
  <2>21. CASE WorkerReturns(w) BY <2>21, CurrentWave DEF WorkerReturns, Go
  <2>22. QED
    BY <1>1, <2>1, <2>2, <2>3, <2>4, <2>5, <2>6, <2>7, <2>8, <2>9, <2>10, <2>11, <2>12, <2>13, <2>14, <2>15, <2>16, <2>17, <2>18, <2>19, <2>20, <2>21
    DEF WorkerStep
<1>2. ASSUME NEW s \in Sessions, SessionStep(s) PROVE HeldInv'
  <2>1. CASE AcquirePermit(s) BY <2>1, CurrentWave DEF AcquirePermit
  <2>2. CASE StartContainer(s) BY <2>2, CurrentWave DEF StartContainer
  <2>3. CASE PrepareHost(s) BY <2>3, CurrentWave DEF PrepareHost, Release
  <2>4. CASE PrepareFailsEarly(s) BY <2>4, CurrentWave DEF PrepareFailsEarly, Release, FailedResults
  <2>5. CASE FinishPreparation(s) BY <2>5, CurrentWave DEF FinishPreparation, Release
  <2>6. CASE PrepareFailsLate(s) BY <2>6, CurrentWave DEF PrepareFailsLate, Release, FailedResults
  <2>7. CASE FinishReplay(s) BY <2>7, CurrentWave DEF FinishReplay
  <2>8. QED
    BY <1>2, <2>1, <2>2, <2>3, <2>4, <2>5, <2>6, <2>7 DEF SessionStep
<1>3. ASSUME ParentStep PROVE HeldInv'
  <2>1. CASE WaveFails BY <2>1, CurrentWave DEF WaveFails
  <2>2. CASE NextWave
    <3>1. \A w \in WorkerIds : held[w] = {}
      BY <2>2 DEF NextWave, WaveOver, Ended
    <3>2. held' = held
      BY <2>2 DEF NextWave
    <3>3. QED
      BY <3>1, <3>2
  <2>3. CASE RunCompletes BY <2>3, CurrentWave DEF RunCompletes
  <2>4. QED
    BY <1>3, <2>1, <2>2, <2>3 DEF ParentStep
<1>4. CASE UNCHANGED vars
  BY <1>4 DEF vars
<1>5. QED
  BY <1>1, <1>2, <1>3, <1>4 DEF Next, Terminated
\* The barrier opens only when the whole wave is prepared, and what was true of
\* the wave when it opened stays true.
LEMMA BarrierInvStep ==
  ASSUME IInv, [Next]_vars
  PROVE  BarrierInv'
<1> USE DEF IInv, TypeOK, BarrierInv, MyChunk, Started, sharedVars, sessionVars, ReadyOrLater, Opened, Prepared, PastBarrier, BeforeBarrier
<1>1. ASSUME NEW w \in WorkerIds, WorkerStep(w) PROVE BarrierInv'
  <2>1. CASE Load(w) BY <2>1, CurrentWave DEF Load, Go
  <2>2. CASE LoadFails(w) BY <2>2, CurrentWave DEF LoadFails, Go
  <2>3. CASE CollectPreparations(w)
    <3>1. /\ pc[w] = "preparing" /\ sess' = sess /\ wave' = wave
          /\ inside' = inside /\ barrier' = barrier
          /\ \A s \in MyChunk(w) : sess[s] \in Settled
      BY <2>3 DEF CollectPreparations, Go, Abort
    <3>2. \/ /\ pc' = [pc EXCEPT ![w] = "recording"]
             /\ \A s \in MyChunk(w) : sess[s] # "raised"
          \/ pc' = [pc EXCEPT ![w] = "aborting"]
      BY <2>3 DEF CollectPreparations, Go, Abort
    <3>3. w \in WaveWorkers(wave)
      BY <3>1 DEF WaveInv
    <3>4. ~ Opened
      BY <3>1, <3>3
    <3>5. ~ Opened'
      <4>1. \A v \in WorkerIds : pc'[v] \in PastBarrier => pc[v] \in PastBarrier
        BY <3>2
      <4>2. QED
        BY <3>1, <3>4, <4>1, CurrentWave
    <3>6. inside' = {v \in WorkerIds : pc'[v] = "waiting"}
      BY <3>1, <3>2
    <3>7. ASSUME NEW v \in WorkerIds, pc'[v] \in Prepared
          PROVE  \A s \in MyChunk(v)' : sess'[s] \in ReadyOrLater
      <4>1. CASE v = w
        BY <3>1, <3>2, <3>7, <4>1, CurrentWave DEF Settled
      <4>2. CASE v # w
        BY <3>1, <3>2, <3>7, <4>2
      <4>3. QED
        BY <4>1, <4>2
    <3>8. QED
      BY <3>5, <3>6, <3>7
  <2>4. CASE RecordFailures(w) BY <2>4, CurrentWave DEF RecordFailures, Go
  <2>5. CASE RecordingFails(w) BY <2>5, CurrentWave DEF RecordingFails, Go, Abort
  <2>6. CASE Arrive(w)
    <3>1. /\ pc[w] = "arriving" /\ pc' = [pc EXCEPT ![w] = "waiting"]
          /\ sess' = sess /\ wave' = wave
          /\ inside' = inside \cup {w}
          /\ barrier = "filling"
          /\ barrier' = "draining" => Cardinality(inside') = WorkerCount(wave)
      BY <2>6 DEF Arrive, Go
    <3>2. inside' = {v \in WorkerIds : pc'[v] = "waiting"}
      BY <3>1
    <3>3. w \in WaveWorkers(wave)
      BY <3>1 DEF WaveInv
    <3>4. ~ Opened
      BY <3>1, <3>3
    <3>5. CASE barrier' = "draining"
      <4>1. inside' \subseteq WaveWorkers(wave)
        BY <3>1, <3>3 DEF WaveInv
      <4>2. inside' = WaveWorkers(wave)
        BY <3>1, <3>5, <4>1, CurrentWave, LastToArrive
      <4>3. \A v \in WaveWorkers(wave) : pc'[v] = "waiting" /\ pc[v] \in {"waiting", "arriving"}
        BY <3>1, <3>2, <4>2
      <4>4. QED
        BY <3>1, <3>2, <4>3, CurrentWave
    <3>6. CASE barrier' # "draining"
      <4>1. ~ Opened'
        BY <3>1, <3>4, <3>6, CurrentWave
      <4>2. QED
        BY <3>1, <3>2, <4>1
    <3>7. QED
      BY <3>5, <3>6
  <2>7. CASE ArriveBroken(w) BY <2>7, CurrentWave DEF ArriveBroken, Go, Abort
  <2>8. CASE Leave(w) BY <2>8, CurrentWave DEF Leave, Go
  <2>9. CASE LeaveBroken(w) BY <2>9, CurrentWave DEF LeaveBroken, Go, Abort
  <2>10. CASE SetStartTime(w) BY <2>10, CurrentWave DEF SetStartTime, Go
  <2>11. CASE SetStartEvent(w) BY <2>11, CurrentWave DEF SetStartEvent, Go
  <2>12. CASE AwaitStartEvent(w) BY <2>12, CurrentWave DEF AwaitStartEvent, Go
  <2>13. CASE BeginReplay(w)
    <3>1. /\ pc[w] = "reading" /\ pc' = [pc EXCEPT ![w] = "replaying"]
          /\ wave' = wave /\ inside' = inside /\ barrier' = barrier
          /\ \A s \in Sessions : sess'[s] = sess[s] \/ sess'[s] = "replaying"
      BY <2>13 DEF BeginReplay, Go
    <3>2. Opened
      BY <3>1 DEF WaveInv
    <3>3. \A v \in WaveWorkers(wave) :
            /\ pc'[v] \notin BeforeBarrier
            /\ \A s \in MyChunk(v) : sess'[s] \in ReadyOrLater
      BY <3>1, <3>2, CurrentWave
    <3>4. \A v \in WorkerIds : pc'[v] \in Prepared => v \in WaveWorkers(wave)
      BY <3>1 DEF WaveInv
    <3>5. inside' = {v \in WorkerIds : pc'[v] = "waiting"}
      BY <3>1
    <3>6. QED
      BY <3>1, <3>3, <3>4, <3>5
  <2>14. CASE NoTimeZero(w) BY <2>14, CurrentWave DEF NoTimeZero, Go, Abort
  <2>15. CASE StartFails(w) BY <2>15, CurrentWave DEF StartFails, Go, Abort
  <2>16. CASE AbortBarrier(w) BY <2>16, CurrentWave DEF AbortBarrier, Go
  <2>17. CASE ReleasePeers(w) BY <2>17, CurrentWave DEF ReleasePeers, Go
  <2>18. CASE GatherReplays(w) BY <2>18, CurrentWave DEF GatherReplays, Go
  <2>19. CASE FinalizeSession(w) BY <2>19, CurrentWave DEF FinalizeSession, IsNextHeld
  <2>20. CASE FinalizeFails(w) BY <2>20, CurrentWave DEF FinalizeFails, IsNextHeld
  <2>21. CASE WorkerReturns(w) BY <2>21, CurrentWave DEF WorkerReturns, Go
  <2>22. QED
    BY <1>1, <2>1, <2>2, <2>3, <2>4, <2>5, <2>6, <2>7, <2>8, <2>9, <2>10, <2>11, <2>12, <2>13, <2>14, <2>15, <2>16, <2>17, <2>18, <2>19, <2>20, <2>21
    DEF WorkerStep
<1>2. ASSUME NEW s \in Sessions, SessionStep(s) PROVE BarrierInv'
  <2>1. CASE AcquirePermit(s) BY <2>1, CurrentWave DEF AcquirePermit
  <2>2. CASE StartContainer(s) BY <2>2, CurrentWave DEF StartContainer
  <2>3. CASE PrepareHost(s) BY <2>3, CurrentWave DEF PrepareHost, Release
  <2>4. CASE PrepareFailsEarly(s) BY <2>4, CurrentWave DEF PrepareFailsEarly, Release, FailedResults
  <2>5. CASE FinishPreparation(s) BY <2>5, CurrentWave DEF FinishPreparation, Release
  <2>6. CASE PrepareFailsLate(s) BY <2>6, CurrentWave DEF PrepareFailsLate, Release, FailedResults
  <2>7. CASE FinishReplay(s) BY <2>7, CurrentWave DEF FinishReplay
  <2>8. QED
    BY <1>2, <2>1, <2>2, <2>3, <2>4, <2>5, <2>6, <2>7 DEF SessionStep
<1>3. ASSUME ParentStep PROVE BarrierInv'
  <2>1. CASE WaveFails BY <2>1, CurrentWave DEF WaveFails
  <2>2. CASE NextWave
    <3>1. /\ inside' = {} /\ barrier' = "filling" /\ sess' = sess
          /\ wave' = wave + 1 /\ pc' = Submitted(wave + 1)
          /\ wave + 1 < WaveCount
      BY <2>2 DEF NextWave
    <3>2. \A v \in WorkerIds : pc'[v] \in {"loading", "absent"}
      BY <3>1 DEF Submitted
    <3>3. \A s \in WaveSessions(wave + 1) : sess'[s] = "queued"
      <4>1. WaveStart(wave + 1) = WaveStart(wave) + Concurrency
        BY <3>1, NextWaveStart
      <4>2. QED
        BY <3>1, <4>1 DEF WaveInv, WaveSessions
    <3>4. WaveWorkers(wave + 1) \subseteq WorkerIds
      BY DEF WaveWorkers
    <3>5. ~ Opened'
      BY <3>1, <3>2, <3>3, <3>4
    <3>6. QED
      BY <3>1, <3>2, <3>5
  <2>3. CASE RunCompletes BY <2>3, CurrentWave DEF RunCompletes
  <2>4. QED
    BY <1>3, <2>1, <2>2, <2>3 DEF ParentStep
<1>4. CASE UNCHANGED vars
  BY <1>4 DEF vars
<1>5. QED
  BY <1>1, <1>2, <1>3, <1>4 DEF Next, Terminated

\* The inductive invariant holds of every reachable state.
LEMMA Invariance == Spec => []IInv
<1>1. Init => IInv
  <2> SUFFICES ASSUME Init PROVE IInv
    OBVIOUS
  <2>1. TypeOK
    BY TypeCorrectInit
  <2>2. /\ wave = 0 /\ pc = Submitted(0) /\ inside = {} /\ barrier = "filling"
        /\ \A s \in Sessions : sess[s] = "queued"
        /\ \A w \in WorkerIds : held[w] = {}
    BY DEF Init
  <2>3. \A w \in WorkerIds : /\ pc[w] \in {"loading", "absent"}
                             /\ w \notin WaveWorkers(wave) <=> pc[w] = "absent"
    BY <2>2 DEF Submitted
  <2>4. WaveSessions(wave) \subseteq Sessions
    BY DEF WaveSessions
  <2>5. WaveInv
    BY <2>2, <2>3, <2>4, ReplayWaveAssumption DEF WaveInv, MyChunk, Chunk
  <2>6. HeldInv
    BY <2>2 DEF HeldInv
  <2>7. ~ Opened
    BY <2>2, <2>3, <2>4 DEF Opened, PastBarrier, Started, WaveWorkers
  <2>8. BarrierInv
    BY <2>2, <2>3, <2>7 DEF BarrierInv, Prepared
  <2>9. QED
    BY <2>1, <2>5, <2>6, <2>8 DEF IInv
<1>2. IInv /\ [Next]_vars => IInv'
  BY TypeCorrectStep, WaveInvStep, HeldInvStep, BarrierInvStep DEF IInv
<1>3. QED
  BY <1>1, <1>2, PTL DEF Spec

\* A session replays only in a wave whose every session, in every process, is
\* prepared or recorded as failed: for any number of workers and any faults.
THEOREM AllReadyStartCorrect == Spec => []AllReadyStart
<1>1. IInv => AllReadyStart
  <2> SUFFICES ASSUME IInv, NEW s \in WaveSessions(wave), NEW t \in WaveSessions(wave),
                      sess[s] \in Started
               PROVE  sess[t] \notin Unprepared \cup {"raised"}
    BY DEF AllReadyStart
  <2>1. Opened
    BY DEF Opened
  <2>2. PICK w \in WaveWorkers(wave) : t \in MyChunk(w)
    BY CurrentWave DEF IInv
  <2>3. sess[t] \in ReadyOrLater
    BY <2>1, <2>2 DEF IInv, BarrierInv
  <2>4. QED
    BY <2>3 DEF ReadyOrLater, Started, Unprepared
<1>2. QED
  BY <1>1, Invariance, PTL
-----------------------------------------------------------------------------
(* The preparation throttle.                                               *)

\* Entering and leaving the set of sessions being prepared.
LEMMA PreparingCount ==
  ASSUME IInv
  PROVE  /\ IsFiniteSet(Preparing)
         /\ Cardinality(Preparing) \in Nat
         /\ \A s \in Sessions :
              /\ s \notin Preparing =>
                   Cardinality(Preparing \cup {s}) = Cardinality(Preparing) + 1
              /\ s \in Preparing =>
                   Cardinality(Preparing \ {s}) = Cardinality(Preparing) - 1
<1>1. IsFiniteSet(Sessions)
  BY ReplayWaveAssumption, FS_Interval DEF Sessions
<1>2. IsFiniteSet(Preparing)
  BY <1>1, FS_Subset DEF Preparing
<1>3. QED
  BY <1>2, FS_CardinalityType, FS_AddElement, FS_RemoveElement

\* No path out of a preparation loses or duplicates a permit of the shared
\* semaphore, so at most PrepLimit sessions are in preparation system-wide.
THEOREM PermitsBalancedCorrect == Spec => []PermitsBalanced
<1>1. Init => PermitsBalanced
  <2> SUFFICES ASSUME Init PROVE PermitsBalanced
    OBVIOUS
  <2>1. Preparing = {}
    BY DEF Init, Preparing
  <2>2. PrepLimit \in Nat
    BY ReplayWaveAssumption DEF PrepLimit, DefaultPrepConcurrency, Smaller
  <2>3. QED
    BY <2>1, <2>2, FS_EmptySet DEF Init, PermitsBalanced
<1>2. IInv /\ PermitsBalanced /\ [Next]_vars => PermitsBalanced'
  <2> SUFFICES ASSUME IInv, PermitsBalanced, [Next]_vars PROVE PermitsBalanced'
    OBVIOUS
  <2>1. /\ permits \in Nat /\ sess \in [Sessions -> SessionStates]
        /\ Preparing' = {s \in Sessions : sess'[s] \in {"starting", "up"}}
    BY DEF IInv, TypeOK, Preparing
  <2>2. CASE permits' = permits /\ Preparing' = Preparing
    BY <2>2 DEF PermitsBalanced, PrepLimit
  <2>3. ASSUME NEW s \in Sessions, s \notin Preparing,
               permits' = permits - 1, Preparing' = Preparing \cup {s}
        PROVE  PermitsBalanced'
    BY <2>1, <2>3, PreparingCount DEF PermitsBalanced
  <2>4. ASSUME NEW s \in Sessions, s \in Preparing,
               permits' = permits + 1, Preparing' = Preparing \ {s}
        PROVE  PermitsBalanced'
    BY <2>1, <2>4, PreparingCount DEF PermitsBalanced
  <2>5. ASSUME NEW s \in Sessions, SessionStep(s) PROVE PermitsBalanced'
    <3>1. CASE AcquirePermit(s)
      BY <2>1, <2>3, <3>1 DEF AcquirePermit, Preparing
    <3>2. ASSUME sess[s] \in {"starting", "up"},
                 \E r \in {"ready", "failed", "raised"} : Release(s, r)
          PROVE  PermitsBalanced'
      <4>1. s \in Preparing /\ Preparing' = Preparing \ {s} /\ permits' = permits + 1
        BY <2>1, <3>2 DEF Release, Preparing
      <4>2. QED
        BY <2>4, <4>1
    <3>3. CASE StartContainer(s) \/ FinishReplay(s)
      BY <2>1, <2>2, <3>3 DEF StartContainer, FinishReplay, Preparing
    <3>4. CASE PrepareHost(s) \/ FinishPreparation(s)
      BY <3>2, <3>4 DEF PrepareHost, FinishPreparation
    <3>5. CASE PrepareFailsEarly(s) \/ PrepareFailsLate(s)
      BY <3>2, <3>5 DEF PrepareFailsEarly, PrepareFailsLate, FailedResults
    <3>6. QED
      BY <2>5, <3>1, <3>3, <3>4, <3>5 DEF SessionStep
  <2>6. ASSUME NEW w \in WorkerIds, WorkerStep(w) PROVE PermitsBalanced'
    <3>1. CASE Load(w)
      BY <2>1, <2>2, <3>1 DEF Load, Go, IInv, WaveInv, Preparing, sharedVars
    <3>2. CASE BeginReplay(w)
      BY <2>1, <2>2, <3>2 DEF BeginReplay, IInv, HeldInv, Started, Preparing
    <3>3. CASE UNCHANGED <<sess, permits>>
      BY <2>2, <3>3 DEF Preparing
    <3>4. QED
      BY <2>6, <3>1, <3>2, <3>3
      DEF WorkerStep, LoadFails, CollectPreparations, RecordFailures, RecordingFails,
          Arrive, ArriveBroken, Leave, LeaveBroken, SetStartTime, SetStartEvent,
          AwaitStartEvent, NoTimeZero, StartFails, AbortBarrier, ReleasePeers,
          GatherReplays, FinalizeSession, FinalizeFails, WorkerReturns, sessionVars
  <2>7. CASE ParentStep \/ UNCHANGED vars
    <3>1. UNCHANGED <<sess, permits>>
      BY <2>7 DEF ParentStep, WaveFails, NextWave, RunCompletes, sessionVars, vars
    <3>2. QED
      BY <2>2, <3>1 DEF Preparing
  <2>8. QED
    BY <2>5, <2>6, <2>7 DEF Next, Terminated
<1>3. QED
  BY <1>1, <1>2, Invariance, PTL DEF Spec

-----------------------------------------------------------------------------
(***************************************************************************)
(* What a worker does with the sessions of its chunk after the all-ready   *)
(* start, for every number of sessions, workers and permits and every      *)
(* combination of faults: on top of the invariant above.                   *)
(***************************************************************************)

Final == {"failed", "replayed"}

\* What a worker holds, and what has become of its chunk when it returns.
OwnInv ==
  /\ \A w \in WorkerIds : pc[w] \in Prepared =>
       \A s \in MyChunk(w) : sess[s] = "failed" \/ s \in held[w]
  /\ \A w \in WorkerIds :
       pc[w] \in (Prepared \ {"replaying"}) \cup {"aborting", "signalling"} =>
         \A s \in held[w] : sess[s] = "ready"
  /\ \A w \in WorkerIds : pc[w] = "replaying" => \A s \in held[w] : sess[s] \in Started
  /\ \A w \in WorkerIds : pc[w] # "replaying" => \A s \in MyChunk(w) : sess[s] # "replaying"
  /\ \A w \in WorkerIds : pc[w] \in {"aborting", "signalling"} => w \in failing
  /\ \A w \in WorkerIds : pc[w] = "done" => w \notin failing
  /\ \A w \in WorkerIds :
       pc[w] = "done" \/ (pc[w] = "finalizing" /\ w \notin failing) =>
         \A s \in MyChunk(w) : sess[s] \in Final

\* The sessions of earlier waves, and all of them in the end, are reported.
ReportInv ==
  \A s \in Sessions : s < WaveStart(wave) \/ run = "completed" =>
    sess[s] \in Final /\ reported[s] = StatOf(s)

\* Where a running container is: being prepared, held, or left behind.
BoxInv ==
  /\ run # "running" => WaveOver
  /\ \A s \in Sessions : sess[s] \in {"queued", "waiting", "starting"} => box[s] = "none"
  /\ \A s \in Sessions \ HostSessions :
       sess[s] \in {"up", "ready"} \cup Started => box[s] # "none"
  /\ \A w \in WorkerIds : pc[w] \notin {"loading", "preparing"} =>
       \A s \in MyChunk(w) : sess[s] \notin {"waiting", "starting", "up"}
  /\ \A s \in Sessions : box[s] = "running" =>
       /\ sess[s] \in {"up", "ready"} \cup Started
       /\ \E w \in WaveWorkers(wave) :
            /\ s \in MyChunk(w)
            /\ \/ pc[w] = "preparing" \/ s \in held[w]
               \/ w \in failing /\ LeftBehind(w, s)

\* A worker that returns has had every session of its chunk replayed or failed.
LEMMA OwnInvStep ==
  ASSUME IInv, OwnInv, [Next]_vars
  PROVE  OwnInv'
<1> USE DEF IInv, TypeOK, OwnInv, WaveInv, HeldInv, MyChunk, Started, Final, Settled, Prepared, sharedVars, sessionVars
<1>1. ASSUME NEW w \in WorkerIds, WorkerStep(w) PROVE OwnInv'
  <2>1. CASE Load(w) BY <2>1, CurrentWave DEF Load, Go
  <2>2. CASE LoadFails(w) BY <2>2, CurrentWave DEF LoadFails, Go
  <2>3. CASE CollectPreparations(w) BY <2>3, CurrentWave DEF CollectPreparations, Go, Abort
  <2>4. CASE RecordFailures(w) BY <2>4, CurrentWave DEF RecordFailures, Go
  <2>5. CASE RecordingFails(w) BY <2>5, CurrentWave DEF RecordingFails, Go, Abort
  <2>6. CASE Arrive(w) BY <2>6, CurrentWave DEF Arrive, Go
  <2>7. CASE ArriveBroken(w) BY <2>7, CurrentWave DEF ArriveBroken, Go, Abort
  <2>8. CASE Leave(w) BY <2>8, CurrentWave DEF Leave, Go
  <2>9. CASE LeaveBroken(w) BY <2>9, CurrentWave DEF LeaveBroken, Go, Abort
  <2>10. CASE SetStartTime(w) BY <2>10, CurrentWave DEF SetStartTime, Go
  <2>11. CASE SetStartEvent(w) BY <2>11, CurrentWave DEF SetStartEvent, Go
  <2>12. CASE AwaitStartEvent(w) BY <2>12, CurrentWave DEF AwaitStartEvent, Go
  <2>13. CASE BeginReplay(w) BY <2>13, CurrentWave DEF BeginReplay, Go
  <2>14. CASE NoTimeZero(w) BY <2>14, CurrentWave DEF NoTimeZero, Go, Abort
  <2>15. CASE StartFails(w) BY <2>15, CurrentWave DEF StartFails, Go, Abort
  <2>16. CASE AbortBarrier(w) BY <2>16, CurrentWave DEF AbortBarrier, Go
  <2>17. CASE ReleasePeers(w) BY <2>17, CurrentWave DEF ReleasePeers, Go
  <2>18. CASE GatherReplays(w) BY <2>18, CurrentWave DEF GatherReplays, Go
  <2>19. CASE FinalizeSession(w) BY <2>19, CurrentWave DEF FinalizeSession, IsNextHeld, StopSucceeds
  <2>20. CASE FinalizeFails(w) BY <2>20, CurrentWave DEF FinalizeFails, IsNextHeld, StopFaults, StopSucceeds, StopFails
  <2>21. CASE WorkerReturns(w) BY <2>21, CurrentWave DEF WorkerReturns, Go
  <2>22. QED
    BY <1>1, <2>1, <2>2, <2>3, <2>4, <2>5, <2>6, <2>7, <2>8, <2>9, <2>10, <2>11, <2>12, <2>13, <2>14, <2>15, <2>16, <2>17, <2>18, <2>19, <2>20, <2>21
    DEF WorkerStep
<1>2. ASSUME NEW s \in Sessions, SessionStep(s) PROVE OwnInv'
  <2>1. CASE AcquirePermit(s) BY <2>1, CurrentWave DEF AcquirePermit
  <2>2. CASE StartContainer(s) BY <2>2, CurrentWave DEF StartContainer
  <2>3. CASE PrepareHost(s) BY <2>3, CurrentWave DEF PrepareHost, Release
  <2>4. CASE PrepareFailsEarly(s) BY <2>4, CurrentWave DEF PrepareFailsEarly, Release, FailedResults
  <2>5. CASE FinishPreparation(s) BY <2>5, CurrentWave DEF FinishPreparation, Release
  <2>6. CASE PrepareFailsLate(s) BY <2>6, CurrentWave DEF PrepareFailsLate, Release, FailedResults, StopFaults, StopSucceeds, StopFails
  <2>7. CASE FinishReplay(s) BY <2>7, CurrentWave DEF FinishReplay
  <2>8. QED
    BY <1>2, <2>1, <2>2, <2>3, <2>4, <2>5, <2>6, <2>7
    DEF SessionStep
<1>3. ASSUME ParentStep PROVE OwnInv'
  <2>1. CASE WaveFails BY <2>1, CurrentWave DEF WaveFails, WaveOver
  <2>2. CASE NextWave
    <3>1. \A w \in WorkerIds : pc'[w] \in {"loading", "absent"}
      BY <2>2 DEF NextWave, Submitted
    <3>2. wave' = wave + 1 /\ sess' = sess /\ wave + 1 < WaveCount
      BY <2>2 DEF NextWave
    <3>3. \A s \in WaveSessions(wave + 1) : s \in Sessions /\ WaveStart(wave) + Concurrency <= s
      BY <3>2, NextWaveStart DEF WaveSessions
    <3>4. \A w \in WorkerIds : \A s \in Chunk(wave + 1, w) : sess[s] = "queued"
      BY <3>3 DEF Chunk
    <3>5. QED
      BY <3>1, <3>2, <3>4
  <2>3. CASE RunCompletes BY <2>3, CurrentWave DEF RunCompletes, WaveOver, Ended, Collect, StatOf
  <2>4. QED
    BY <1>3, <2>1, <2>2, <2>3
    DEF ParentStep
<1>4. CASE UNCHANGED vars
  BY <1>4 DEF vars, StatOf, LeftBehind, WaveOver
<1>5. QED
  BY <1>1, <1>2, <1>3, <1>4 DEF Next, Terminated

\* The last wave reaches to the end of the manifest.
LEMMA LastWaveEnd ==
  ASSUME NEW k \in Nat, k + 1 = WaveCount
  PROVE  \A s \in Sessions : s < WaveStart(k) + Concurrency
<1> USE ReplayWaveAssumption
<1> DEFINE n == WaveCount
           m == NumSessions + Concurrency - 1
<1>1. n \in Nat /\ m = Concurrency * n + (m % Concurrency) /\ m % Concurrency <= Concurrency - 1
  BY DEF WaveCount
<1>2. Concurrency * n \in Nat /\ m % Concurrency \in Nat
  BY <1>1
<1> HIDE DEF n
<1>3. NumSessions <= Concurrency * n
  BY <1>1, <1>2
<1>4. n = k + 1
  BY DEF n
<1>5. Concurrency * n = k * Concurrency + Concurrency /\ k * Concurrency \in Nat
  BY <1>4
<1>6. QED
  BY <1>3, <1>5 DEF WaveStart, Sessions

\* When every worker has returned, the parent reports the sessions of the wave
\* and leaves those of earlier waves alone.
LEMMA CollectReports ==
  ASSUME IInv, OwnInv, ReportInv, WaveOver, Collect,
         \A w \in WorkerIds : pc[w] # "failed",
         NEW s \in Sessions, s < WaveStart(wave) + Concurrency
  PROVE  sess[s] \in Final /\ reported'[s] = StatOf(s)
<1>1. CASE s < WaveStart(wave)
  <2>1. \A w \in WaveWorkers(wave) : s \notin MyChunk(w)
    BY <1>1, ReplayWaveAssumption
    DEF MyChunk, Chunk, WaveSessions, WaveStart, IInv, TypeOK, Sessions
  <2>2. QED
    BY <1>1, <2>1 DEF Collect, ReportInv
<1>2. CASE WaveStart(wave) <= s
  <2>1. s \in WaveSessions(wave)
    BY <1>2 DEF WaveSessions
  <2>2. PICK w \in WaveWorkers(wave) : s \in MyChunk(w)
    BY <2>1, CurrentWave DEF IInv
  <2>3. pc[w] = "done"
    BY <2>2, CurrentWave DEF IInv, WaveInv, WaveOver, Ended
  <2>4. sess[s] \in Final
    BY <2>2, <2>3, CurrentWave DEF IInv, OwnInv
  <2>5. QED
    BY <2>2, <2>4 DEF Collect
<1>3. WaveStart(wave) \in Int /\ s \in Int
  BY ReplayWaveAssumption DEF WaveStart, IInv, TypeOK, Sessions
<1>4. QED
  BY <1>1, <1>2, <1>3

\* Only the parent reports, and what it has reported does not change any more.
LEMMA ReportInvStep ==
  ASSUME IInv, OwnInv, ReportInv, [Next]_vars
  PROVE  ReportInv'
<1> USE DEF IInv, TypeOK, OwnInv, ReportInv, WaveInv, HeldInv, MyChunk, StatOf, Started, Final, Prepared, sharedVars, sessionVars
<1>1. ASSUME NEW w \in WorkerIds, WorkerStep(w) PROVE ReportInv'
  <2>1. CASE Load(w) BY <2>1, CurrentWave DEF Load, Go
  <2>2. CASE LoadFails(w) BY <2>2, CurrentWave DEF LoadFails, Go
  <2>3. CASE CollectPreparations(w) BY <2>3, CurrentWave DEF CollectPreparations, Go, Abort
  <2>4. CASE RecordFailures(w) BY <2>4, CurrentWave DEF RecordFailures, Go
  <2>5. CASE RecordingFails(w) BY <2>5, CurrentWave DEF RecordingFails, Go, Abort
  <2>6. CASE Arrive(w) BY <2>6, CurrentWave DEF Arrive, Go
  <2>7. CASE ArriveBroken(w) BY <2>7, CurrentWave DEF ArriveBroken, Go, Abort
  <2>8. CASE Leave(w) BY <2>8, CurrentWave DEF Leave, Go
  <2>9. CASE LeaveBroken(w) BY <2>9, CurrentWave DEF LeaveBroken, Go, Abort
  <2>10. CASE SetStartTime(w) BY <2>10, CurrentWave DEF SetStartTime, Go
  <2>11. CASE SetStartEvent(w) BY <2>11, CurrentWave DEF SetStartEvent, Go
  <2>12. CASE AwaitStartEvent(w) BY <2>12, CurrentWave DEF AwaitStartEvent, Go
  <2>13. CASE BeginReplay(w) BY <2>13, CurrentWave DEF BeginReplay, Go
  <2>14. CASE NoTimeZero(w) BY <2>14, CurrentWave DEF NoTimeZero, Go, Abort
  <2>15. CASE StartFails(w) BY <2>15, CurrentWave DEF StartFails, Go, Abort
  <2>16. CASE AbortBarrier(w) BY <2>16, CurrentWave DEF AbortBarrier, Go
  <2>17. CASE ReleasePeers(w) BY <2>17, CurrentWave DEF ReleasePeers, Go
  <2>18. CASE GatherReplays(w) BY <2>18, CurrentWave DEF GatherReplays, Go
  <2>19. CASE FinalizeSession(w) BY <2>19, CurrentWave DEF FinalizeSession, IsNextHeld, StopSucceeds
  <2>20. CASE FinalizeFails(w) BY <2>20, CurrentWave DEF FinalizeFails, IsNextHeld, StopFaults, StopSucceeds, StopFails
  <2>21. CASE WorkerReturns(w) BY <2>21, CurrentWave DEF WorkerReturns, Go
  <2>22. QED
    BY <1>1, <2>1, <2>2, <2>3, <2>4, <2>5, <2>6, <2>7, <2>8, <2>9, <2>10, <2>11, <2>12, <2>13, <2>14, <2>15, <2>16, <2>17, <2>18, <2>19, <2>20, <2>21
    DEF WorkerStep
<1>2. ASSUME NEW s \in Sessions, SessionStep(s) PROVE ReportInv'
  <2>1. CASE AcquirePermit(s) BY <2>1, CurrentWave DEF AcquirePermit
  <2>2. CASE StartContainer(s) BY <2>2, CurrentWave DEF StartContainer
  <2>3. CASE PrepareHost(s) BY <2>3, CurrentWave DEF PrepareHost, Release
  <2>4. CASE PrepareFailsEarly(s) BY <2>4, CurrentWave DEF PrepareFailsEarly, Release, FailedResults
  <2>5. CASE FinishPreparation(s) BY <2>5, CurrentWave DEF FinishPreparation, Release
  <2>6. CASE PrepareFailsLate(s) BY <2>6, CurrentWave DEF PrepareFailsLate, Release, FailedResults, StopFaults, StopSucceeds, StopFails
  <2>7. CASE FinishReplay(s) BY <2>7, CurrentWave DEF FinishReplay
  <2>8. QED
    BY <1>2, <2>1, <2>2, <2>3, <2>4, <2>5, <2>6, <2>7
    DEF SessionStep
<1>3. ASSUME ParentStep PROVE ReportInv'
  <2>1. CASE WaveFails BY <2>1, CurrentWave DEF WaveFails, WaveOver
  <2>2. CASE NextWave
    <3>1. /\ run' = "running" /\ wave' = wave + 1 /\ sess' = sess
          /\ wave + 1 < WaveCount
      BY <2>2 DEF NextWave
    <3>2. WaveStart(wave + 1) = WaveStart(wave) + Concurrency
      BY <3>1, NextWaveStart
    <3>3. ASSUME NEW s \in Sessions, s < WaveStart(wave + 1)
          PROVE  sess[s] \in Final /\ reported'[s] = StatOf(s)
      BY <2>2, <3>2, <3>3, CollectReports DEF NextWave
    <3>4. QED
      BY <3>1, <3>3
  <2>3. CASE RunCompletes
    <3>1. sess' = sess /\ wave' = wave /\ wave + 1 = WaveCount
      BY <2>3 DEF RunCompletes
    <3>2. \A s \in Sessions : s < WaveStart(wave) + Concurrency
      BY <3>1, LastWaveEnd
    <3>3. ASSUME NEW s \in Sessions
          PROVE  sess[s] \in Final /\ reported'[s] = StatOf(s)
      BY <2>3, <3>2, <3>3, CollectReports DEF RunCompletes
    <3>4. QED
      BY <3>1, <3>3
  <2>4. QED
    BY <1>3, <2>1, <2>2, <2>3
    DEF ParentStep
<1>4. CASE UNCHANGED vars
  BY <1>4 DEF vars, StatOf, LeftBehind, WaveOver
<1>5. QED
  BY <1>1, <1>2, <1>3, <1>4 DEF Next, Terminated

-----------------------------------------------------------------------------
(* Containers.                                                             *)

\* A container runs while its session is prepared or held; after that it has
\* been tried to stop, or the session is left behind.
LEMMA BoxInvStep ==
  ASSUME IInv, OwnInv, ReportInv, BoxInv, [Next]_vars
  PROVE  BoxInv'
<1> USE DEF IInv, TypeOK, OwnInv, ReportInv, BoxInv, WaveInv, HeldInv, MyChunk, LeftBehind, WaveOver, Ended, Started, Final, Settled, Prepared, sharedVars, sessionVars
<1>1. ASSUME NEW w \in WorkerIds, WorkerStep(w) PROVE BoxInv'
  <2>1. CASE Load(w) BY <2>1, CurrentWave DEF Load, Go
  <2>2. CASE LoadFails(w) BY <2>2, CurrentWave DEF LoadFails, Go
  <2>3. CASE CollectPreparations(w)
    <3>1. /\ UNCHANGED <<sess, box, wave, run>> /\ pc[w] = "preparing"
          /\ pc' \in {[pc EXCEPT ![w] = "recording"], [pc EXCEPT ![w] = "aborting"]}
          /\ failing \subseteq failing'
      BY <2>3 DEF CollectPreparations, Go, Abort
    <3>2. \A v \in WorkerIds : v # w => held'[v] = held[v]
      BY <2>3 DEF CollectPreparations
    <3>3. ASSUME NEW s \in MyChunk(w), box[s] = "running"
          PROVE  s \in held'[w] \/ (w \in failing' /\ LeftBehind(w, s))
      <4>1. sess[s] = "ready"
        BY <2>3, <3>3, CurrentWave DEF CollectPreparations
      <4>2. CASE \A r \in MyChunk(w) : sess[r] = "raised" => s < r
        BY <2>3, <3>3, <4>1, <4>2 DEF CollectPreparations
      <4>3. CASE \E r \in MyChunk(w) : sess[r] = "raised" /\ ~ (s < r)
        <5>1. PICK r \in MyChunk(w) : sess[r] = "raised" /\ ~ (s < r)
          BY <4>3
        <5>2. r < s
          BY <3>3, <4>1, <5>1, CurrentWave, ReplayWaveAssumption DEF Sessions
        <5>3. w \in failing'
          BY <2>3, <5>1 DEF CollectPreparations, Abort
        <5>4. QED
          BY <5>1, <5>2, <5>3
      <4>4. QED
        BY <4>2, <4>3
    <3>4. \A s \in MyChunk(w) : sess[s] \in Settled
      BY <2>3 DEF CollectPreparations
    <3>5. ASSUME NEW s \in Sessions, box[s] = "running"
          PROVE  \E v \in WaveWorkers(wave) :
                   /\ s \in MyChunk(v)
                   /\ pc'[v] = "preparing" \/ s \in held'[v] \/ (v \in failing' /\ LeftBehind(v, s))
      <4>1. PICK v \in WaveWorkers(wave) :
              /\ s \in MyChunk(v)
              /\ pc[v] = "preparing" \/ s \in held[v] \/ (v \in failing /\ LeftBehind(v, s))
        BY <3>5
      <4>2. CASE v = w
        BY <3>3, <3>5, <4>1, <4>2
      <4>3. CASE v # w
        BY <3>1, <3>2, <4>1, <4>3, CurrentWave
      <4>4. QED
        BY <4>2, <4>3
    <3>6. QED
      BY <3>1, <3>4, <3>5, CurrentWave
  <2>4. CASE RecordFailures(w) BY <2>4, CurrentWave DEF RecordFailures, Go
  <2>5. CASE RecordingFails(w) BY <2>5, CurrentWave DEF RecordingFails, Go, Abort
  <2>6. CASE Arrive(w) BY <2>6, CurrentWave DEF Arrive, Go
  <2>7. CASE ArriveBroken(w) BY <2>7, CurrentWave DEF ArriveBroken, Go, Abort
  <2>8. CASE Leave(w) BY <2>8, CurrentWave DEF Leave, Go
  <2>9. CASE LeaveBroken(w) BY <2>9, CurrentWave DEF LeaveBroken, Go, Abort
  <2>10. CASE SetStartTime(w) BY <2>10, CurrentWave DEF SetStartTime, Go
  <2>11. CASE SetStartEvent(w) BY <2>11, CurrentWave DEF SetStartEvent, Go
  <2>12. CASE AwaitStartEvent(w) BY <2>12, CurrentWave DEF AwaitStartEvent, Go
  <2>13. CASE BeginReplay(w)
    <3>1. \A t \in Sessions :
            sess'[t] = sess[t] \/ (sess[t] = "ready" /\ sess'[t] = "replaying")
      BY <2>13 DEF BeginReplay, Go
    <3>2. \A v \in WorkerIds : MyChunk(v) \subseteq Sessions
      BY CurrentWave
    <3>3. \A v \in WorkerIds, s \in Sessions : LeftBehind(v, s) => LeftBehind(v, s)'
      BY <2>13, <3>1, <3>2 DEF BeginReplay
    <3>4. /\ UNCHANGED <<box, held, failing, wave, run>>
          /\ pc[w] = "reading" /\ pc' = [pc EXCEPT ![w] = "replaying"]
      BY <2>13 DEF BeginReplay, Go
    <3> HIDE DEF LeftBehind
    <3>5. \A s \in Sessions : box'[s] = "running" =>
            \E v \in WaveWorkers(wave) :
              /\ s \in MyChunk(v)
              /\ \/ pc'[v] = "preparing" \/ s \in held'[v]
                 \/ v \in failing' /\ LeftBehind(v, s)'
      BY <3>3, <3>4, CurrentWave
    <3>6. QED
      BY <3>1, <3>2, <3>4, <3>5
  <2>14. CASE NoTimeZero(w) BY <2>14, CurrentWave DEF NoTimeZero, Go, Abort
  <2>15. CASE StartFails(w) BY <2>15, CurrentWave DEF StartFails, Go, Abort
  <2>16. CASE AbortBarrier(w) BY <2>16, CurrentWave DEF AbortBarrier, Go
  <2>17. CASE ReleasePeers(w) BY <2>17, CurrentWave DEF ReleasePeers, Go
  <2>18. CASE GatherReplays(w) BY <2>18, CurrentWave DEF GatherReplays, Go
  <2>19. CASE FinalizeSession(w) BY <2>19, CurrentWave DEF FinalizeSession, IsNextHeld, StopSucceeds
  <2>20. CASE FinalizeFails(w)
    <3>1. PICK s \in Sessions :
            /\ IsNextHeld(w, s)
            /\ \E b \in StopFaults(s) : box' = [box EXCEPT ![s] = b]
      BY <2>20 DEF FinalizeFails
    <3>2. /\ UNCHANGED <<sess, pc, wave, run>> /\ pc[w] = "finalizing"
          /\ held' = [held EXCEPT ![w] = {}] /\ failing' = failing \cup {w}
      BY <2>20 DEF FinalizeFails
    <3>3. s \in MyChunk(w) /\ sess[s] \in {"ready"} \cup Started /\ "stop" \in FaultKinds
      BY <3>1 DEF IsNextHeld, StopFaults
    <3>4. s \in HostSessions \/ box'[s] \in {"stopped", "stuck"}
      <4>1. s \notin HostSessions => box[s] # "none"
        BY <3>3
      <4>2. PICK b \in StopFaults(s) : box' = [box EXCEPT ![s] = b]
        BY <3>1
      <4>3. box[s] # "none" => b \in {"stopped", "stuck"}
        BY <4>2 DEF StopFaults, StopSucceeds, StopFails, BoxStates
      <4>4. QED
        BY <4>1, <4>2, <4>3
    <3>5. \A t \in Sessions :
            box'[t] = box[t] \/ (box[t] = "running" /\ box'[t] \in {"stopped", "stuck"})
      BY <3>1 DEF StopFaults, StopSucceeds, StopFails
    <3>6. \A v \in WorkerIds : MyChunk(v) \subseteq Sessions
      BY CurrentWave
    <3>7. \A v \in WorkerIds, t \in Sessions : LeftBehind(v, t) => LeftBehind(v, t)'
      BY <3>2, <3>5, <3>6
    <3>8. ASSUME NEW t \in held[w], box'[t] = "running"
          PROVE  LeftBehind(w, t)'
      <4>1. t \in Sessions /\ t # s /\ s <= t
        BY <3>1, <3>6, <3>8 DEF IsNextHeld, StopFaults, StopSucceeds, StopFails
      <4>2. s < t
        BY <4>1, ReplayWaveAssumption DEF Sessions
      <4>3. QED
        BY <3>2, <3>3, <3>4, <4>2
    <3> HIDE DEF LeftBehind
    <3>9. ASSUME NEW t \in Sessions, box'[t] = "running"
          PROVE  \E v \in WaveWorkers(wave) :
                   /\ t \in MyChunk(v)
                   /\ pc'[v] = "preparing" \/ t \in held'[v] \/ (v \in failing' /\ LeftBehind(v, t)')
      <4>1. PICK v \in WaveWorkers(wave) :
              /\ t \in MyChunk(v)
              /\ pc[v] = "preparing" \/ t \in held[v] \/ (v \in failing /\ LeftBehind(v, t))
        BY <3>5, <3>9
      <4>2. QED
        BY <3>2, <3>7, <3>8, <3>9, <4>1, CurrentWave
    <3>10. QED
      BY <3>2, <3>5, <3>9
  <2>21. CASE WorkerReturns(w) BY <2>21, CurrentWave DEF WorkerReturns, Go
  <2>22. QED
    BY <1>1, <2>1, <2>2, <2>3, <2>4, <2>5, <2>6, <2>7, <2>8, <2>9, <2>10, <2>11, <2>12, <2>13, <2>14, <2>15, <2>16, <2>17, <2>18, <2>19, <2>20, <2>21
    DEF WorkerStep
<1>2. ASSUME NEW s \in Sessions, SessionStep(s) PROVE BoxInv'
  <2>1. CASE AcquirePermit(s) BY <2>1, CurrentWave DEF AcquirePermit
  <2>2. CASE StartContainer(s)
    <3>1. /\ sess[s] = "starting" /\ s \notin HostSessions
          /\ box' = [box EXCEPT ![s] = "running"] /\ sess' = [sess EXCEPT ![s] = "up"]
          /\ UNCHANGED <<pc, held, failing, wave, run>>
      BY <2>2 DEF StartContainer
    <3>2. s \in WaveSessions(wave)
      BY <3>1, ReplayWaveAssumption DEF WaveSessions, WaveStart, Sessions
    <3>3. PICK w \in WaveWorkers(wave) : s \in MyChunk(w)
      BY <3>2, CurrentWave
    <3>4. pc[w] = "preparing"
      BY <3>1, <3>3, CurrentWave
    <3>5. \A v \in WorkerIds : MyChunk(v) \subseteq Sessions
      BY CurrentWave
    <3>6. \A v \in WorkerIds, t \in Sessions : LeftBehind(v, t) => LeftBehind(v, t)'
      BY <3>1, <3>5
    <3> HIDE DEF LeftBehind
    <3>7. \A t \in Sessions : box'[t] = "running" =>
            \E v \in WaveWorkers(wave) :
              /\ t \in MyChunk(v)
              /\ \/ pc'[v] = "preparing" \/ t \in held'[v]
                 \/ v \in failing' /\ LeftBehind(v, t)'
      BY <3>1, <3>3, <3>4, <3>6, CurrentWave
    <3>8. \A v \in WorkerIds : pc[v] \notin {"loading", "preparing"} => s \notin MyChunk(v)
      BY <3>1
    <3>9. QED
      BY <3>1, <3>5, <3>7, <3>8
  <2>3. CASE PrepareHost(s) BY <2>3, CurrentWave DEF PrepareHost, Release
  <2>4. CASE PrepareFailsEarly(s) BY <2>4, CurrentWave DEF PrepareFailsEarly, Release, FailedResults
  <2>5. CASE FinishPreparation(s) BY <2>5, CurrentWave DEF FinishPreparation, Release
  <2>6. CASE PrepareFailsLate(s) BY <2>6, CurrentWave DEF PrepareFailsLate, Release, FailedResults, StopFaults, StopSucceeds, StopFails
  <2>7. CASE FinishReplay(s) BY <2>7, CurrentWave DEF FinishReplay
  <2>8. QED
    BY <1>2, <2>1, <2>2, <2>3, <2>4, <2>5, <2>6, <2>7
    DEF SessionStep
<1>3. ASSUME ParentStep PROVE BoxInv'
  <2>1. CASE WaveFails BY <2>1, CurrentWave DEF WaveFails, WaveOver
  <2>2. CASE NextWave
    <3>1. /\ UNCHANGED <<sess, box, run>> /\ run = "running" /\ wave' = wave + 1
          /\ wave + 1 < WaveCount /\ pc' = Submitted(wave + 1)
          /\ \A w \in WorkerIds : pc[w] \in {"absent", "done"}
      BY <2>2 DEF NextWave
    <3>2. \A s \in Sessions : box[s] # "running"
      BY <3>1, CurrentWave
    <3>3. \A w \in WorkerIds : pc'[w] \notin {"loading", "preparing"} => w \notin WaveWorkers(wave + 1)
      BY <3>1 DEF Submitted
    <3>4. \A s \in Sessions : sess[s] \notin {"waiting", "starting", "up"}
      <4>1. ASSUME NEW s \in WaveSessions(wave) PROVE sess[s] \in Final
        BY <3>1, CurrentWave
      <4>2. QED
        BY <4>1, ReplayWaveAssumption DEF WaveSessions, WaveStart, Sessions
    <3>5. \A w \in WorkerIds : Chunk(wave + 1, w) \subseteq Sessions
      BY DEF Chunk, WaveSessions
    <3>6. QED
      BY <3>1, <3>2, <3>4, <3>5
  <2>3. CASE RunCompletes BY <2>3, CurrentWave DEF RunCompletes, WaveOver, Ended, Collect, StatOf
  <2>4. QED
    BY <1>3, <2>1, <2>2, <2>3
    DEF ParentStep
<1>4. CASE UNCHANGED vars
  BY <1>4 DEF vars, StatOf, LeftBehind, WaveOver
<1>5. QED
  BY <1>1, <1>2, <1>3, <1>4 DEF Next, Terminated

\* What the first wave starts with.
LEMMA ResultsInit == Init => OwnInv /\ ReportInv /\ BoxInv
<1> SUFFICES ASSUME Init PROVE OwnInv /\ ReportInv /\ BoxInv
  OBVIOUS
<1>1. /\ wave = 0 /\ run = "running"
      /\ \A s \in Sessions : sess[s] = "queued" /\ box[s] = "none"
      /\ \A w \in WorkerIds : pc[w] \in {"loading", "absent"}
  BY DEF Init, Submitted
<1>2. \A w \in WorkerIds : MyChunk(w) \subseteq Sessions
  BY DEF MyChunk, Chunk, WaveSessions
<1>3. \A s \in Sessions : ~ (s < WaveStart(wave))
  BY <1>1, ReplayWaveAssumption DEF WaveStart, Sessions
<1>4. OwnInv
  BY <1>1, <1>2 DEF OwnInv, Prepared
<1>5. ReportInv
  BY <1>1, <1>3 DEF ReportInv
<1>6. BoxInv
  BY <1>1, <1>2 DEF BoxInv, Started
<1>7. QED
  BY <1>4, <1>5, <1>6

\* All of it holds of every reachable state.
LEMMA ResultsInvariance == Spec => [](IInv /\ OwnInv /\ ReportInv /\ BoxInv)
<1>1. IInv /\ OwnInv /\ ReportInv /\ BoxInv /\ IInv' /\ [Next]_vars
        => OwnInv' /\ ReportInv' /\ BoxInv'
  BY OwnInvStep, ReportInvStep, BoxInvStep
<1>2. QED
  BY <1>1, ResultsInit, Invariance, PTL DEF Spec

\* A run that completes has reported every manifest entry, and as what happened
\* to it, although each worker returns the statistics of its own chunk only.
THEOREM EverySessionReportedCorrect == Spec => []EverySessionReported
<1>1. ReportInv => EverySessionReported
  BY DEF ReportInv, EverySessionReported, StatOf, Final
<1>2. QED
  BY <1>1, ResultsInvariance, PTL

\* Whatever fails, in whichever process and order: a container that was started
\* is not left running by the whole run, unless its session is left behind.
THEOREM ContainersFinalizedCorrect == Spec => []ContainersFinalized
<1>1. IInv /\ OwnInv /\ BoxInv => ContainersFinalized
  <2> SUFFICES ASSUME IInv, OwnInv, BoxInv, run # "running",
                      NEW s \in Sessions, box[s] = "running"
               PROVE  \E w \in WaveWorkers(wave) :
                        s \in MyChunk(w) /\ pc[w] = "failed" /\ LeftBehind(w, s)
    BY DEF ContainersFinalized
  <2>1. PICK w \in WaveWorkers(wave) :
          /\ s \in MyChunk(w)
          /\ pc[w] = "preparing" \/ s \in held[w] \/ (w \in failing /\ LeftBehind(w, s))
    BY DEF BoxInv
  <2>2. w \in WorkerIds
    BY CurrentWave DEF IInv
  <2>3. pc[w] \in {"done", "failed"}
    BY <2>2 DEF BoxInv, WaveOver, Ended, IInv, WaveInv
  <2>4. s \notin held[w]
    BY <2>2, <2>3 DEF IInv, HeldInv
  <2>5. QED
    BY <2>1, <2>2, <2>3, <2>4 DEF OwnInv
<1>2. QED
  BY <1>1, ResultsInvariance, PTL

-----------------------------------------------------------------------------
(***************************************************************************)
(* The worker processes with their semaphore, barrier, event and containers *)
(* implement the all-ready replay of AllReadyReplay, for every number of   *)
(* sessions, workers and permits and every combination of faults.          *)
(***************************************************************************)

\* What the proofs above show of every reachable state.
AllInv == IInv /\ OwnInv /\ ReportInv /\ BoxInv

-----------------------------------------------------------------------------
(* The abstract wave is the concrete one.                                  *)

LEMMA WaveIsBlock ==
  ASSUME NEW k \in Nat
  PROVE  AllReady!InWave(k) = WaveSessions(k)
<1> USE ReplayWaveAssumption
<1>1. ASSUME NEW s \in Sessions
      PROVE  s \div Concurrency = k <=> (WaveStart(k) <= s /\ s < WaveStart(k) + Concurrency)
  <2> DEFINE d == s \div Concurrency
  <2>1. d \in Nat /\ d * Concurrency <= s /\ s < d * Concurrency + Concurrency
    BY DEF Sessions
  <2> HIDE DEF d
  <2>2. k * Concurrency \in Nat /\ d * Concurrency \in Nat /\ s \in Nat
    BY <2>1 DEF Sessions
  <2>3. CASE d < k
    <3>1. (d + 1) * Concurrency <= k * Concurrency
      BY <2>1, <2>3
    <3>2. (d + 1) * Concurrency = d * Concurrency + Concurrency
      BY <2>1
    <3>3. QED
      BY <2>1, <2>2, <2>3, <3>1, <3>2 DEF WaveStart, d
  <2>4. CASE k < d
    <3>1. (k + 1) * Concurrency <= d * Concurrency
      BY <2>1, <2>4
    <3>2. (k + 1) * Concurrency = k * Concurrency + Concurrency
      OBVIOUS
    <3>3. QED
      BY <2>1, <2>2, <2>4, <3>1, <3>2 DEF WaveStart, d
  <2>5. CASE d = k
    BY <2>1, <2>5 DEF WaveStart, d
  <2>6. QED
    BY <2>1, <2>3, <2>4, <2>5
<1>2. QED
  BY <1>1 DEF AllReady!InWave, AllReady!Sessions, WaveSessions, Sessions

LEMMA LastWaveIs == AllReady!LastWave = WaveCount - 1
<1> USE ReplayWaveAssumption
<1> DEFINE n == (NumSessions - 1) \div Concurrency
<1>1. n \in Nat
  OBVIOUS
<1>2. (NumSessions + Concurrency - 1) = (NumSessions - 1) + Concurrency
  OBVIOUS
<1>3. (NumSessions + Concurrency - 1) \div Concurrency = n + 1
  OBVIOUS
<1>4. QED
  BY <1>1, <1>3 DEF AllReady!LastWave, WaveCount

\* The worker a session belongs to is the one whose chunk it is in.
LEMMA OwnerIs ==
  ASSUME TypeOK, WaveInv, NEW w \in WaveWorkers(wave), NEW s \in MyChunk(w)
  PROVE  OwnerIn(wave, s) = w
<1>1. \A v \in WaveWorkers(wave) : s \in Chunk(wave, v) => v = w
  BY CurrentWave DEF MyChunk
<1>2. s \in Chunk(wave, w)
  BY DEF MyChunk
<1>3. QED
  BY <1>1, <1>2 DEF OwnerIn

\* Within a wave, a session is abandoned when its worker has given up.
LEMMA AbandonedIs ==
  ASSUME TypeOK, WaveInv, wave' = wave
  PROVE  /\ \A w \in WaveWorkers(wave) : \A s \in MyChunk(w) :
              (Abandoned(s) <=> pc[w] \in GaveUp) /\ (Abandoned(s)' <=> pc'[w] \in GaveUp)
         /\ \A s \in Sessions \ WaveSessions(wave) : ~ Abandoned(s) /\ ~ Abandoned(s)'
<1>1. ASSUME NEW w \in WaveWorkers(wave), NEW s \in MyChunk(w)
      PROVE  (Abandoned(s) <=> pc[w] \in GaveUp) /\ (Abandoned(s)' <=> pc'[w] \in GaveUp)
  <2>1. OwnerIn(wave, s) = w
    BY OwnerIs
  <2>2. OwnerIn(wave', s) = w
    BY <2>1
  <2>3. s \in WaveSessions(wave) /\ s \in WaveSessions(wave')
    BY CurrentWave
  <2>4. QED
    BY <2>1, <2>2, <2>3 DEF Abandoned
<1>2. QED
  BY <1>1 DEF Abandoned

-----------------------------------------------------------------------------
(* Steps.                                                                  *)

\* Sessions of the current wave that leave one phase together make a step of
\* the abstract specification, or no step when there are none.
LEMMA MoveStep ==
  ASSUME TypeOK, WaveInv, wave' = wave, run' = run,
         NEW S \in SUBSET WaveSessions(wave), NEW from, NEW to,
         \A s \in S : PhaseOf(s) = from /\ PhaseOf(s)' \in to,
         \A s \in Sessions \ S : PhaseOf(s)' = PhaseOf(s)
  PROVE  AllReady!Move(S, from, to) \/ UNCHANGED AllReady!vars
<1> DEFINE ph == [s \in Sessions |-> PhaseOf(s)]
           f == [s \in S |-> PhaseOf(s)']
<1>1. wave \in Nat /\ S \subseteq Sessions
  BY CurrentWave DEF TypeOK
<1>2. CASE S = {}
  BY <1>2 DEF AllReady!vars
<1>3. CASE S # {}
  <2>1. f \in [S -> to]
    OBVIOUS
  <2>2. ph' = [s \in Sessions |-> IF s \in S THEN f[s] ELSE ph[s]]
    OBVIOUS
  <2>3. \A s \in S : s \in AllReady!InWave(wave) /\ ph[s] = from
    BY <1>1, WaveIsBlock
  <2>4. AllReady!Sessions = Sessions
    BY DEF AllReady!Sessions, Sessions
  <2>5. QED
    BY <1>3, <2>1, <2>2, <2>3, <2>4 DEF AllReady!Move
<1>4. QED
  BY <1>2, <1>3

\* A step of one worker disturbs no other worker's sessions; within its chunk,
\* the sessions it does not replay are over when it has given up.
LEMMA WorkerRefines ==
  ASSUME AllInv, NEW w \in WorkerIds, WorkerStep(w)
  PROVE  AllReady!Next \/ UNCHANGED AllReady!vars
<1> USE DEF AllInv, IInv, TypeOK, OwnInv, WaveInv, HeldInv, BarrierInv, Started, Final, Prepared, sharedVars, sessionVars, GaveUp, Settled
<1> DEFINE C == MyChunk(w)
           Ready == {s \in C : sess[s] = "ready"}
<1>1. /\ wave' = wave /\ run' = run
      /\ pc' = [pc EXCEPT ![w] = pc'[w]]
      /\ \A s \in Sessions \ C : sess'[s] = sess[s]
  <2>1. CASE Load(w) BY <2>1 DEF Load, Go
  <2>2. CASE BeginReplay(w) BY <2>2 DEF BeginReplay, Go
  <2>3. CASE ~ Load(w) /\ ~ BeginReplay(w)
    BY <2>3 DEF WorkerStep, LoadFails, CollectPreparations, RecordFailures, RecordingFails, Arrive, ArriveBroken, Leave, LeaveBroken, SetStartTime, SetStartEvent, AwaitStartEvent, NoTimeZero, StartFails, AbortBarrier, ReleasePeers, GatherReplays, FinalizeSession, FinalizeFails, WorkerReturns, Go, Abort
  <2>4. QED
    BY <2>1, <2>2, <2>3
<1>2. w \in WaveWorkers(wave)
  <2>1. pc[w] # "absent"
    BY DEF WorkerStep, Load, LoadFails, CollectPreparations, RecordFailures, RecordingFails, Arrive, ArriveBroken, Leave, LeaveBroken, SetStartTime, SetStartEvent, AwaitStartEvent, BeginReplay, NoTimeZero, StartFails, AbortBarrier, ReleasePeers, GatherReplays, FinalizeSession, FinalizeFails, WorkerReturns, Go, Abort
  <2>2. QED
    BY <2>1
<1>3. C \subseteq WaveSessions(wave) /\ WaveSessions(wave) \subseteq Sessions
  BY CurrentWave
<1>4. \A s \in C : (Abandoned(s) <=> pc[w] \in GaveUp) /\ (Abandoned(s)' <=> pc'[w] \in GaveUp)
  BY <1>1, <1>2, AbandonedIs
<1>5. \A s \in Sessions \ C : PhaseOf(s)' = PhaseOf(s)
  <2>1. ASSUME NEW s \in Sessions \ C PROVE Abandoned(s)' <=> Abandoned(s)
    <3>1. CASE s \in WaveSessions(wave)
      <4>1. PICK v \in WaveWorkers(wave) : s \in MyChunk(v)
        BY <3>1, CurrentWave
      <4>2. v # w /\ v \in WorkerIds
        BY <2>1, <4>1, CurrentWave
      <4>3. pc'[v] = pc[v]
        BY <1>1, <4>2
      <4>4. QED
        BY <1>1, <4>1, <4>3, AbandonedIs
    <3>2. CASE s \notin WaveSessions(wave)
      BY <1>1, <3>2, AbandonedIs
    <3>3. QED
      BY <3>1, <3>2
  <2>2. QED
    BY <1>1, <2>1 DEF PhaseOf
<1> HIDE DEF C
<1>6. ASSUME \A s \in C : PhaseOf(s)' = PhaseOf(s)
      PROVE  UNCHANGED AllReady!vars
  <2>1. \A s \in Sessions : PhaseOf(s)' = PhaseOf(s)
    BY <1>5, <1>6
  <2>2. QED
    BY ONLY <1>1, <2>1 DEF AllReady!vars
<1>7. ASSUME \A s \in C : IF sess[s] = "ready" THEN PhaseOf(s) = "ready" /\ PhaseOf(s)' = "over"
                                              ELSE PhaseOf(s)' = PhaseOf(s)
      PROVE  AllReady!Next \/ UNCHANGED AllReady!vars
  <2>1. \A s \in Ready : PhaseOf(s) = "ready" /\ PhaseOf(s)' \in {"over"}
    BY <1>7
  <2>2. \A s \in Sessions \ Ready : PhaseOf(s)' = PhaseOf(s)
    BY <1>5, <1>7
  <2>3. Ready \in SUBSET WaveSessions(wave)
    BY <1>3
  <2> HIDE DEF Ready
  <2>4. AllReady!Move(Ready, "ready", {"over"}) \/ UNCHANGED AllReady!vars
    BY <1>1, <2>1, <2>2, <2>3, MoveStep
  <2>5. Ready \in SUBSET AllReady!InWave(wave)
    BY <2>3, WaveIsBlock
  <2>6. QED
    BY <2>4, <2>5 DEF AllReady!Next, AllReady!GiveUp
<1>8. ASSUME NEW from, Abort(w, from), UNCHANGED sess,
             from = "preparing" => \A s \in C : sess[s] \in Settled,
             from \in {"preparing", "recording", "arriving", "waiting", "released", "announcing", "reading"}
      PROVE  AllReady!Next \/ UNCHANGED AllReady!vars
  <2>1. pc[w] \notin GaveUp /\ pc'[w] \in GaveUp
    BY <1>8 DEF Abort, Go
  <2>2. \A s \in C : sess[s] \in {"ready", "failed", "raised"} /\ sess'[s] = sess[s]
    <3>1. CASE from = "preparing"
      BY <1>8, <3>1
    <3>2. CASE from # "preparing"
      BY <1>8, <3>2 DEF Abort, Go, C
    <3>3. QED
      BY <3>1, <3>2
  <2>3. QED
    BY <1>4, <1>7, <2>1, <2>2 DEF PhaseOf
<1>9. CASE Load(w)
  BY <1>1, <1>3, <1>4, <1>6, <1>9 DEF Load, Go, PhaseOf, C
<1>10. CASE LoadFails(w)
  <2>1. \A s \in C : PhaseOf(s) = "pending" /\ PhaseOf(s)' \in {"ready", "over"}
    BY <1>3, <1>4, <1>10 DEF LoadFails, Go, PhaseOf, C
  <2>2. AllReady!Move(C, "pending", {"ready", "over"}) \/ UNCHANGED AllReady!vars
    BY <1>1, <1>3, <1>5, <2>1, MoveStep
  <2>3. C \in SUBSET AllReady!InWave(wave)
    BY <1>3, WaveIsBlock
  <2>4. QED
    BY <2>2, <2>3 DEF AllReady!Next, AllReady!Prepare
<1>11. CASE CollectPreparations(w)
  BY <1>4, <1>6, <1>8, <1>11 DEF CollectPreparations, Go, PhaseOf, C
<1>12. CASE RecordFailures(w) BY <1>4, <1>6, <1>12 DEF RecordFailures, Go, PhaseOf
<1>13. CASE RecordingFails(w) BY <1>8, <1>13 DEF RecordingFails
<1>14. CASE Arrive(w) BY <1>4, <1>6, <1>14 DEF Arrive, Go, PhaseOf
<1>15. CASE ArriveBroken(w) BY <1>8, <1>15 DEF ArriveBroken
<1>16. CASE Leave(w) BY <1>4, <1>6, <1>16 DEF Leave, Go, PhaseOf
<1>17. CASE LeaveBroken(w) BY <1>8, <1>17 DEF LeaveBroken
<1>18. CASE SetStartTime(w) BY <1>4, <1>6, <1>18 DEF SetStartTime, Go, PhaseOf
<1>19. CASE SetStartEvent(w) BY <1>4, <1>6, <1>19 DEF SetStartEvent, Go, PhaseOf
<1>20. CASE AwaitStartEvent(w) BY <1>4, <1>6, <1>20 DEF AwaitStartEvent, Go, PhaseOf
<1>21. CASE BeginReplay(w)
  <2>1. held[w] \subseteq C /\ \A s \in held[w] : sess[s] = "ready"
    BY <1>21 DEF BeginReplay, Go, C
  <2>2. \A s \in held[w] : PhaseOf(s) = "ready" /\ PhaseOf(s)' \in {"replaying"}
    BY <1>3, <1>4, <1>21, <2>1 DEF BeginReplay, Go, PhaseOf
  <2>3. \A s \in Sessions \ held[w] : PhaseOf(s)' = PhaseOf(s)
    BY <1>3, <1>4, <1>5, <1>21 DEF BeginReplay, Go, PhaseOf
  <2>4. AllReady!Move(held[w], "ready", {"replaying"}) \/ UNCHANGED AllReady!vars
    BY <1>1, <1>3, <2>1, <2>2, <2>3, MoveStep
  <2>5. \A s \in WaveSessions(wave) : PhaseOf(s) # "pending"
    <3>1. Opened
      BY <1>2, <1>21 DEF BeginReplay, Go, Opened, PastBarrier
    <3>2. ASSUME NEW s \in WaveSessions(wave) PROVE sess[s] \in ReadyOrLater
      BY <3>1, CurrentWave
    <3>3. QED
      BY <3>2 DEF PhaseOf, ReadyOrLater
  <2>6. /\ held[w] \in SUBSET AllReady!InWave(wave)
        /\ \A s \in AllReady!InWave(wave) : [t \in Sessions |-> PhaseOf(t)][s] # "pending"
    BY <1>3, <2>1, <2>5, WaveIsBlock
  <2>7. QED
    BY <2>4, <2>6 DEF AllReady!Next, AllReady!Begin
<1>22. CASE NoTimeZero(w) BY <1>8, <1>22 DEF NoTimeZero
<1>23. CASE StartFails(w) BY <1>8, <1>23 DEF StartFails
<1>24. CASE AbortBarrier(w) BY <1>4, <1>6, <1>24 DEF AbortBarrier, Go, PhaseOf
<1>25. CASE ReleasePeers(w) BY <1>4, <1>6, <1>25 DEF ReleasePeers, Go, PhaseOf
<1>26. CASE GatherReplays(w)
  <2>1. \A s \in C : sess[s] \in {"failed", "replayed", "broken"} /\ sess'[s] = sess[s]
    BY <1>3, <1>26 DEF GatherReplays, Go, C
  <2>2. QED
    BY <1>6, <2>1 DEF PhaseOf
<1>27. CASE FinalizeSession(w) BY <1>4, <1>6, <1>27 DEF FinalizeSession, PhaseOf
<1>28. CASE FinalizeFails(w) BY <1>4, <1>6, <1>28 DEF FinalizeFails, PhaseOf
<1>29. CASE WorkerReturns(w)
  <2>1. CASE w \in failing
    BY <1>4, <1>6, <1>29, <2>1 DEF WorkerReturns, Go, PhaseOf
  <2>2. CASE w \notin failing
    <3>1. \A s \in C : sess[s] \in {"failed", "replayed"} /\ sess'[s] = sess[s]
      BY <1>29, <2>2 DEF WorkerReturns, Go, C
    <3>2. QED
      BY <1>6, <3>1 DEF PhaseOf
  <2>3. QED
    BY <2>1, <2>2
<1>30. QED
  BY <1>9, <1>10, <1>11, <1>12, <1>13, <1>14, <1>15, <1>16, <1>17, <1>18, <1>19, <1>20, <1>21, <1>22, <1>23, <1>24, <1>25, <1>26, <1>27, <1>28, <1>29
  DEF WorkerStep

\* A session is prepared or replayed only while the worker that holds it does
\* just that.
LEMMA SessionRefines ==
  ASSUME AllInv, NEW s \in Sessions, SessionStep(s)
  PROVE  AllReady!Next \/ UNCHANGED AllReady!vars
<1> USE DEF AllInv, IInv, TypeOK, Started, Final, sharedVars, sessionVars, GaveUp
<1>1. /\ wave' = wave /\ run' = run /\ pc' = pc
      /\ \A t \in Sessions \ {s} : sess'[t] = sess[t]
  BY DEF SessionStep, AcquirePermit, StartContainer, PrepareHost, PrepareFailsEarly, FinishPreparation, PrepareFailsLate, FinishReplay, Release
<1>2. sess[s] \in {"waiting", "starting", "up", "replaying"}
  BY DEF SessionStep, AcquirePermit, StartContainer, PrepareHost, PrepareFailsEarly, FinishPreparation, PrepareFailsLate, FinishReplay, Release
<1>3. s \in WaveSessions(wave)
  <2>1. ~ (s < WaveStart(wave)) /\ ~ (WaveStart(wave) + Concurrency <= s)
    BY <1>2 DEF ReportInv, WaveInv
  <2>2. s \in Int /\ WaveStart(wave) \in Int /\ Concurrency \in Int
    BY ReplayWaveAssumption DEF Sessions, WaveStart
  <2>3. QED
    BY <2>1, <2>2 DEF WaveSessions
<1>4. PICK w \in WaveWorkers(wave) : s \in MyChunk(w)
  BY <1>3, CurrentWave
<1>5. \A t \in Sessions : Abandoned(t)' <=> Abandoned(t)
  <2>1. \A t \in WaveSessions(wave) : \E v \in WaveWorkers(wave) : t \in MyChunk(v)
    BY CurrentWave
  <2>2. QED
    BY <1>1, <2>1, AbandonedIs
<1>6. \A t \in Sessions \ {s} : PhaseOf(t)' = PhaseOf(t)
  BY <1>1, <1>5 DEF PhaseOf
<1>7. {s} \in SUBSET WaveSessions(wave) /\ {s} \in SUBSET AllReady!InWave(wave)
  BY <1>3, WaveIsBlock
<1>8. CASE sess[s] # "replaying"
  <2>1. pc[w] \in {"loading", "preparing"}
    BY <1>2, <1>4, <1>8, CurrentWave DEF BoxInv
  <2>2. ~ Abandoned(s) /\ ~ Abandoned(s)'
    BY <1>1, <1>4, <1>5, <2>1, AbandonedIs
  <2>3. /\ PhaseOf(s) = "pending"
        /\ PhaseOf(s)' \in {"pending", "ready", "over"}
    BY <1>2, <1>8, <2>2
    DEF PhaseOf, SessionStep, AcquirePermit, StartContainer, PrepareHost, PrepareFailsEarly, FinishPreparation, PrepareFailsLate, FinishReplay, Release, FailedResults
  <2>4. CASE PhaseOf(s)' = "pending"
    <3>1. \A t \in Sessions : PhaseOf(t)' = PhaseOf(t)
      BY <1>6, <2>3, <2>4
    <3>2. QED
      BY ONLY <1>1, <3>1 DEF AllReady!vars
  <2>5. CASE PhaseOf(s)' # "pending"
    <3>1. AllReady!Move({s}, "pending", {"ready", "over"}) \/ UNCHANGED AllReady!vars
      BY <1>1, <1>6, <1>7, <2>3, <2>5, MoveStep
    <3>2. QED
      BY <1>7, <3>1 DEF AllReady!Next, AllReady!Prepare
  <2>6. QED
    BY <2>4, <2>5
<1>9. CASE sess[s] = "replaying"
  <2>1. PhaseOf(s) = "replaying" /\ PhaseOf(s)' \in {"over"}
    BY <1>9
    DEF PhaseOf, SessionStep, AcquirePermit, StartContainer, PrepareHost, PrepareFailsEarly, FinishPreparation, PrepareFailsLate, FinishReplay, Release
  <2>2. AllReady!Move({s}, "replaying", {"over"}) \/ UNCHANGED AllReady!vars
    BY <1>1, <1>6, <1>7, <2>1, MoveStep
  <2>3. QED
    BY <1>7, <2>2 DEF AllReady!Next, AllReady!End
<1>10. QED
  BY <1>8, <1>9

\* When every worker has ended, no session of the wave is left to start.
LEMMA WaveOverIs ==
  ASSUME AllInv, WaveOver, NEW s \in Sessions, s < WaveStart(wave) + Concurrency
  PROVE  PhaseOf(s) = "over"
<1> USE DEF AllInv, IInv
<1>1. CASE s < WaveStart(wave)
  BY <1>1 DEF ReportInv, Final, PhaseOf
<1>2. CASE ~ (s < WaveStart(wave))
  <2>1. s \in WaveSessions(wave)
    BY <1>2, ReplayWaveAssumption DEF WaveSessions, WaveStart, Sessions, TypeOK
  <2>2. PICK w \in WaveWorkers(wave) : s \in MyChunk(w)
    BY <2>1, CurrentWave
  <2>3. w \in WorkerIds
    BY CurrentWave
  <2>4. pc[w] \in {"done", "failed"}
    BY <2>2, <2>3 DEF WaveInv, WaveOver, Ended
  <2>5. CASE pc[w] = "done"
    BY <2>2, <2>3, <2>5 DEF OwnInv, Final, PhaseOf
  <2>6. CASE pc[w] = "failed"
    <3>1. Abandoned(s)
      BY <2>1, <2>2, <2>6, OwnerIs DEF Abandoned, GaveUp
    <3>2. sess[s] # "replaying"
      BY <2>2, <2>3, <2>6 DEF OwnInv
    <3>3. QED
      BY <3>1, <3>2 DEF PhaseOf
  <2>7. QED
    BY <2>4, <2>5, <2>6
<1>3. QED
  BY <1>1, <1>2

LEMMA ParentRefines ==
  ASSUME AllInv, ParentStep
  PROVE  AllReady!Next
<1> DEFINE ph == [s \in Sessions |-> PhaseOf(s)]
<1>1. wave \in Nat
  BY DEF AllInv, IInv, TypeOK
<1>2. WaveOver /\ run = "running"
  BY DEF ParentStep, WaveFails, NextWave, RunCompletes
<1>3. \A s \in WaveSessions(wave) : PhaseOf(s) = "over"
  BY <1>2, WaveOverIs, CurrentWave DEF AllInv, IInv
<1>4. AllReady!WaveIsOver
  BY <1>1, <1>2, <1>3, WaveIsBlock, CurrentWave DEF AllReady!WaveIsOver, AllInv, IInv
<1>5. CASE WaveFails
  <2>1. UNCHANGED <<wave, pc, sess>> /\ run' = "failed"
    BY <1>5 DEF WaveFails, sessionVars
  <2>2. \A s \in Sessions : PhaseOf(s)' = PhaseOf(s)
    BY <2>1 DEF PhaseOf, Abandoned
  <2>3. QED
    BY ONLY <1>4, <2>1, <2>2 DEF AllReady!Next, AllReady!Fail
<1>6. CASE NextWave
  <2>1. /\ wave' = wave + 1 /\ wave + 1 < WaveCount /\ UNCHANGED <<run, sess>>
        /\ pc' = Submitted(wave + 1)
    BY <1>6 DEF NextWave, sessionVars
  <2>2. \A s \in Sessions : ~ (s < WaveStart(wave) + Concurrency) =>
          sess[s] = "queued" /\ s \notin WaveSessions(wave)
    BY ReplayWaveAssumption DEF AllInv, IInv, WaveInv, WaveSessions, WaveStart, Sessions, TypeOK
  <2>3. ASSUME NEW s \in Sessions PROVE PhaseOf(s)' = PhaseOf(s)
    <3>1. CASE s < WaveStart(wave) + Concurrency
      <4>1. PhaseOf(s) = "over"
        BY <1>2, <3>1, WaveOverIs
      <4>2. sess[s] \in Final
        BY <1>6, <3>1, CollectReports DEF NextWave, AllInv
      <4>3. QED
        BY <2>1, <4>1, <4>2 DEF PhaseOf, Final
    <3>2. CASE ~ (s < WaveStart(wave) + Concurrency)
      <4>1. PhaseOf(s) = "pending"
        BY <2>2, <3>2 DEF PhaseOf, Abandoned
      <4>2. ASSUME s \in WaveSessions(wave + 1)
            PROVE  pc'[OwnerIn(wave + 1, s)] \notin GaveUp
        <5>1. WaveStart(wave + 1) < NumSessions
          BY <1>1, <2>1, NextWaveStart DEF WaveStart
        <5>2. \E w \in WaveWorkers(wave + 1) : s \in Chunk(wave + 1, w)
          BY <1>1, <4>2, <5>1, ChunksCover
        <5>3. OwnerIn(wave + 1, s) \in WaveWorkers(wave + 1)
          BY <5>2 DEF OwnerIn
        <5>4. OwnerIn(wave + 1, s) \in WorkerIds
          BY <5>3 DEF WaveWorkers
        <5>5. QED
          BY <2>1, <5>3, <5>4 DEF Submitted, GaveUp
      <4>3. sess'[s] = "queued"
        BY <2>1, <2>2, <3>2
      <4>4. ~ Abandoned(s)'
        BY <2>1, <4>2 DEF Abandoned
      <4>5. QED
        BY <4>1, <4>3, <4>4 DEF PhaseOf
    <3>3. QED
      BY <3>1, <3>2
  <2>4. wave < AllReady!LastWave
    <3>1. WaveCount \in Int
      BY ReplayWaveAssumption DEF WaveCount
    <3>2. QED
      BY <1>1, <2>1, <3>1, LastWaveIs
  <2>5. ph' = ph
    BY <2>3
  <2>6. QED
    BY ONLY <1>4, <2>1, <2>4, <2>5 DEF AllReady!Next, AllReady!Advance
<1>7. CASE RunCompletes
  <2>1. UNCHANGED <<wave, pc, sess>> /\ run' = "completed" /\ wave + 1 = WaveCount
    BY <1>7 DEF RunCompletes, sessionVars
  <2>2. \A s \in Sessions : PhaseOf(s)' = PhaseOf(s)
    BY <2>1 DEF PhaseOf, Abandoned
  <2>3. wave = AllReady!LastWave
    BY <1>1, <2>1, LastWaveIs
  <2>4. QED
    BY ONLY <1>4, <2>1, <2>2, <2>3 DEF AllReady!Next, AllReady!Complete
<1>8. QED
  BY <1>5, <1>6, <1>7 DEF ParentStep

\* The initial states map to initial states.
LEMMA InitRefines == ASSUME Init PROVE AllReady!Init
<1>1. 0 \in Nat /\ WaveStart(0) < NumSessions
  BY ReplayWaveAssumption DEF WaveStart
<1>2. ASSUME NEW s \in Sessions PROVE PhaseOf(s) = "pending"
  <2>1. ASSUME s \in WaveSessions(0) PROVE pc[OwnerIn(0, s)] = "loading"
    <3>1. \E w \in WaveWorkers(0) : s \in Chunk(0, w)
      BY <1>1, <2>1, ChunksCover
    <3>2. OwnerIn(0, s) \in WaveWorkers(0)
      BY <3>1 DEF OwnerIn
    <3>3. QED
      BY <3>2 DEF Init, Submitted, WaveWorkers
  <2>2. ~ Abandoned(s)
    BY <2>1 DEF Abandoned, Init, GaveUp
  <2>3. sess[s] = "queued"
    BY DEF Init
  <2>4. QED
    BY <2>2, <2>3 DEF PhaseOf
<1>3. AllReady!Sessions = Sessions
  BY DEF AllReady!Sessions, Sessions
<1>4. QED
  BY <1>2, <1>3 DEF AllReady!Init, Init

\* Whatever the workers of a wave do and whatever fails in them, the run is one
\* of the all-ready replay: waves follow one another in manifest order, and no
\* session starts while one of its wave, in whichever process, is still being
\* prepared.
THEOREM ReplayWaveImplementsAllReady == Spec => AllReady!Safety
<1>1. AllInv /\ [Next]_vars => [AllReady!Next]_(AllReady!vars)
  <2> SUFFICES ASSUME AllInv, [Next]_vars PROVE AllReady!Next \/ UNCHANGED AllReady!vars
    OBVIOUS
  <2>1. CASE UNCHANGED vars
    <3>1. UNCHANGED <<run, wave, pc, sess>>
      BY <2>1 DEF vars
    <3>2. \A s \in Sessions : PhaseOf(s)' = PhaseOf(s)
      BY <3>1 DEF PhaseOf, Abandoned
    <3>3. QED
      BY ONLY <3>1, <3>2 DEF AllReady!vars
  <2>2. QED
    BY <2>1, WorkerRefines, SessionRefines, ParentRefines DEF Next, Terminated
<1>2. Spec => []AllInv
  BY ResultsInvariance, PTL DEF AllInv
<1>3. QED
  BY <1>1, <1>2, InitRefines, PTL DEF Spec, AllReady!Safety
=============================================================================
