------------------------------ MODULE ReplayWave ------------------------------
(***************************************************************************)
(* The multi-process replay of `simulate --workers N` (N > 1):             *)
(* src/src/trace_collect/simulator.py, _run_cloud_model_worker_waves and   *)
(* what runs inside one worker process, _run_worker_wave_async.            *)
(*                                                                         *)
(* The parent cuts the manifest into waves of at most Concurrency          *)
(* sessions and each wave into one contiguous chunk per worker process.    *)
(* A worker prepares its chunk (a shared semaphore throttles preparation   *)
(* across all workers), meets its peers at a barrier, agrees with them on  *)
(* one wall-clock time zero, replays, and finalizes what it prepared.      *)
(*                                                                         *)
(* Data abstracted: traces, containers and statistics are reduced to the   *)
(* life-cycle state of each session; the shared time zero is 0 or 1.       *)
(***************************************************************************)
EXTENDS Integers, FiniteSets

CONSTANTS
  NumSessions,      \* number of manifest entries
  Concurrency,      \* --concurrency: sessions per wave
  MaxWorkers,       \* --workers: worker processes
  PrepConcurrency,  \* --prep-concurrency: 0 asks for the default
  HostSessions,     \* sessions replayed without a container
  FaultKinds        \* what may fail in the environment, see AllFaults

(***************************************************************************)
(* load     a worker cannot load a trace of its chunk                      *)
(* prepare  the container of a session cannot be prepared                  *)
(* record   nor can that failure be recorded (its output directory)        *)
(* log      the worker's trace file cannot be opened or written            *)
(* start    a call on a shared manager object fails after the barrier      *)
(* replay   the replay of a session raises                                 *)
(* stop     finalizing a session raises                                    *)
(***************************************************************************)
AllFaults == {"load", "prepare", "record", "log", "start", "replay", "stop"}

Sessions == 0 .. NumSessions - 1
WorkerIds == 0 .. MaxWorkers - 1

ASSUME ReplayWaveAssumption ==
  /\ NumSessions \in Nat \ {0}
  /\ Concurrency \in Nat \ {0}
  /\ MaxWorkers \in Nat \ {0}
  /\ PrepConcurrency \in Nat
  /\ HostSessions \subseteq Sessions
  /\ FaultKinds \subseteq AllFaults

VARIABLES
  run,          \* the parent: "running", then "completed" or "failed"
  wave,         \* index of the current wave
  pc,           \* per worker: where its coroutine is
  failing,      \* workers whose coroutine is raising
  sess,         \* per session: its life cycle
  box,          \* per session: its container
  held,         \* per worker: prepared_sessions it has not yet finalized
  reported,     \* per session: the statistic the parent collected
  permits,      \* prep_semaphore
  barrier,      \* replay_start_barrier: "filling", "draining" or "broken"
  inside,       \* workers blocked in replay_start_barrier.wait
  startEvent,   \* replay_start_event
  startTime     \* replay_start_wall_time, 0 until the coordinator sets it

sharedVars == <<barrier, inside, startEvent, startTime>>
sessionVars == <<sess, box, permits>>
vars == <<run, wave, pc, failing, sess, box, held, reported, permits,
          barrier, inside, startEvent, startTime>>
-----------------------------------------------------------------------------
(* How the manifest is cut into waves and chunks.                          *)

DefaultPrepConcurrency == 20

Smaller(a, b) == IF a < b THEN a ELSE b

PrepLimit ==
  Smaller(IF PrepConcurrency = 0 THEN DefaultPrepConcurrency ELSE PrepConcurrency,
          NumSessions)

WaveCount == (NumSessions + Concurrency - 1) \div Concurrency
WaveStart(k) == k * Concurrency
WaveSize(k) == Smaller(Concurrency, NumSessions - WaveStart(k))
WaveSessions(k) == {s \in Sessions : WaveStart(k) <= s /\ s < WaveStart(k) + Concurrency}

\* Number of non-empty chunks, and where the chunk of worker w begins: the
\* first `remainder` chunks hold one session more than the others.
WorkerCount(k) == Smaller(MaxWorkers, WaveSize(k))
\* Mutant: the remainder of the division is handed to nobody.
ChunkStartNoRemainder(k, w) ==
  WaveStart(k) + w * (WaveSize(k) \div WorkerCount(k))

ChunkStart(k, w) ==
  LET chunk_size == WaveSize(k) \div WorkerCount(k)
      remainder  == WaveSize(k) % WorkerCount(k)
  IN  WaveStart(k) + w * chunk_size + Smaller(w, remainder)
Chunk(k, w) == {s \in WaveSessions(k) : ChunkStart(k, w) <= s /\ s < ChunkStart(k, w + 1)}

WaveWorkers(k) == {w \in WorkerIds : w < WorkerCount(k)}
Coordinator == 0
MyChunk(w) == Chunk(wave, w)
-----------------------------------------------------------------------------
WorkerStates ==
  {"absent", "loading", "preparing", "recording", "arriving", "waiting",
   "released", "announcing", "reading", "replaying", "aborting",
   "signalling", "finalizing", "done", "failed"}
SessionStates ==
  {"queued", "waiting", "starting", "up", "ready", "failed", "raised",
   "replaying", "replayed", "broken"}

Ended == {"absent", "done", "failed"}
Settled == {"ready", "failed", "raised"}

\* The state every worker process of wave k is submitted in.
Submitted(k) ==
  [w \in WorkerIds |-> IF w \in WaveWorkers(k) THEN "loading" ELSE "absent"]

Init ==
  /\ run = "running"
  /\ wave = 0
  /\ pc = Submitted(0)
  /\ failing = {}
  /\ sess = [s \in Sessions |-> "queued"]
  /\ box = [s \in Sessions |-> "none"]
  /\ held = [w \in WorkerIds |-> {}]
  /\ reported = [s \in Sessions |-> "none"]
  /\ permits = PrepLimit
  /\ barrier = "filling"
  /\ inside = {}
  /\ startEvent = FALSE
  /\ startTime = 0

Go(w, from, to) ==
  /\ pc[w] = from
  /\ pc' = [pc EXCEPT ![w] = to]

\* The coroutine of worker w raises before its replay started.
Abort(w, from) ==
  /\ Go(w, from, "aborting")
  /\ failing' = failing \cup {w}
-----------------------------------------------------------------------------
(* Loading and preparation.                                                *)

\* _load_worker_trace_inputs; then prepare_one is gathered over the chunk.
Load(w) ==
  /\ Go(w, "loading", "preparing")
  /\ sess' = [s \in Sessions |-> IF s \in MyChunk(w) THEN "waiting" ELSE sess[s]]
  /\ UNCHANGED <<run, wave, failing, box, held, reported, permits, sharedVars>>

\* The load stands before the `try`: nobody aborts the barrier.
LoadFails(w) ==
  /\ "load" \in FaultKinds
  /\ Go(w, "loading", "failed")
  /\ failing' = failing \cup {w}
  /\ UNCHANGED <<run, wave, held, reported, sessionVars, sharedVars>>

AcquirePermit(s) ==
  /\ sess[s] = "waiting"
  /\ permits > 0
  /\ permits' = permits - 1
  /\ sess' = [sess EXCEPT ![s] = "starting"]
  /\ UNCHANGED <<run, wave, pc, failing, box, held, reported, sharedVars>>

\* The session leaves _prepare_replay_session_with_shared_limit in state r.
Release(s, r) ==
  /\ permits' = permits + 1
  /\ sess' = [sess EXCEPT ![s] = r]

\* How a failed preparation is returned: as a FailedPreparedTraceSession, or
\* as the exception of _prepared_session_for_prep_error.
FailedResults == {"failed"} \cup (IF "record" \in FaultKinds THEN {"raised"} ELSE {})

StartContainer(s) ==
  /\ sess[s] = "starting"
  /\ s \notin HostSessions
  /\ box' = [box EXCEPT ![s] = "running"]
  /\ sess' = [sess EXCEPT ![s] = "up"]
  /\ UNCHANGED <<run, wave, pc, failing, held, reported, permits, sharedVars>>

\* A session without a container is prepared at once.
PrepareHost(s) ==
  /\ sess[s] = "starting"
  /\ s \in HostSessions
  /\ Release(s, "ready")
  /\ UNCHANGED <<run, wave, pc, failing, box, held, reported, sharedVars>>

\* Mutant: the permit is released on success only, not in a `finally`.
PrepareFailsEarlyKeepsPermit(s) ==
  /\ "prepare" \in FaultKinds
  /\ sess[s] = "starting"
  /\ \E r \in FailedResults : sess' = [sess EXCEPT ![s] = r]
  /\ UNCHANGED <<run, wave, pc, failing, box, held, reported, permits, sharedVars>>

PrepareFailsEarly(s) ==
  /\ "prepare" \in FaultKinds
  /\ sess[s] = "starting"
  /\ \E r \in FailedResults : Release(s, r)
  /\ UNCHANGED <<run, wave, pc, failing, box, held, reported, sharedVars>>

\* Artifacts restored, recorder registered, sampler started.
FinishPreparation(s) ==
  /\ sess[s] = "up"
  /\ Release(s, "ready")
  /\ UNCHANGED <<run, wave, pc, failing, box, held, reported, sharedVars>>

\* What _finalize_prepared_session leaves of the container when it returns,
\* and when it raises: the stop itself failed ("stuck": the container is up and
\* nobody tries again), or a step around the stop did.
StopSucceeds(s) == IF box[s] = "running" THEN "stopped" ELSE box[s]
StopFails(s) == IF box[s] = "running" THEN "stuck" ELSE box[s]
StopFaults(s) == IF "stop" \in FaultKinds THEN {StopSucceeds(s), StopFails(s)} ELSE {}

\* Mutant: the container of a failed preparation is not finalized.
PrepareFailsLateUnfinalized(s) ==
  /\ "prepare" \in FaultKinds
  /\ sess[s] = "up"
  /\ \E r \in FailedResults : Release(s, r)
  /\ UNCHANGED <<run, wave, pc, failing, box, held, reported, sharedVars>>

\* _prepare_replay_session finalizes the container it just started before it
\* raises ReplayPreparationError; prepare_one catches either exception.
PrepareFailsLate(s) ==
  /\ "prepare" \in FaultKinds
  /\ sess[s] = "up"
  /\ \E b \in {StopSucceeds(s)} \cup StopFaults(s) : box' = [box EXCEPT ![s] = b]
  /\ \E r \in FailedResults : Release(s, r)
  /\ UNCHANGED <<run, wave, pc, failing, held, reported, sharedVars>>

\* The gather over the chunk is complete: the results are walked in order and
\* the first exception among them is raised on the spot.
CollectPreparations(w) ==
  /\ \A s \in MyChunk(w) : sess[s] \in Settled
  /\ LET raised == {s \in MyChunk(w) : sess[s] = "raised"}
         kept   == {s \in MyChunk(w) : /\ sess[s] = "ready"
                                       /\ \A r \in raised : s < r}
     IN  /\ held' = [held EXCEPT ![w] = kept]
         /\ IF raised = {}
            THEN Go(w, "preparing", "recording") /\ UNCHANGED failing
            ELSE Abort(w, "preparing")
  /\ UNCHANGED <<run, wave, reported, sessionVars, sharedVars>>

\* The trace file is opened and the failed preparations are logged in it.
RecordFailures(w) ==
  /\ Go(w, "recording", "arriving")
  /\ UNCHANGED <<run, wave, failing, held, reported, sessionVars, sharedVars>>

RecordingFails(w) ==
  /\ "log" \in FaultKinds
  /\ Abort(w, "recording")
  /\ UNCHANGED <<run, wave, held, reported, sessionVars, sharedVars>>
-----------------------------------------------------------------------------
(* The global replay start.                                                *)

\* Mutant: the barrier is created for one party too few.
ArriveOneShort(w) ==
  /\ barrier \in {"filling", "draining"}
  /\ Go(w, "arriving", "waiting")
  /\ inside' = inside \cup {w}
  /\ barrier' = IF Cardinality(inside') >= WorkerCount(wave) - 1 THEN "draining" ELSE barrier
  /\ UNCHANGED <<run, wave, failing, held, reported, sessionVars, startEvent, startTime>>

\* barrier.wait: the last party to arrive starts the drain; a broken barrier
\* raises at once.
Arrive(w) ==
  /\ barrier = "filling"
  /\ Go(w, "arriving", "waiting")
  /\ inside' = inside \cup {w}
  /\ barrier' = IF Cardinality(inside') = WorkerCount(wave) THEN "draining" ELSE barrier
  /\ UNCHANGED <<run, wave, failing, held, reported, sessionVars, startEvent, startTime>>

ArriveBroken(w) ==
  /\ barrier = "broken"
  /\ Abort(w, "arriving")
  /\ UNCHANGED <<run, wave, held, reported, sessionVars, sharedVars>>

Leave(w) ==
  /\ barrier = "draining"
  /\ Go(w, "waiting", "released")
  /\ inside' = inside \ {w}
  /\ barrier' = IF inside' = {} THEN "filling" ELSE barrier
  /\ UNCHANGED <<run, wave, failing, held, reported, sessionVars, startEvent, startTime>>

LeaveBroken(w) ==
  /\ barrier = "broken"
  /\ Abort(w, "waiting")
  /\ inside' = inside \ {w}
  /\ UNCHANGED <<run, wave, held, reported, sessionVars, barrier, startEvent, startTime>>

SetStartTime(w) ==
  /\ w = Coordinator
  /\ Go(w, "released", "announcing")
  /\ startTime' = 1
  /\ UNCHANGED <<run, wave, failing, held, reported, sessionVars, barrier, inside, startEvent>>

SetStartEvent(w) ==
  /\ Go(w, "announcing", "reading")
  /\ startEvent' = TRUE
  /\ UNCHANGED <<run, wave, failing, held, reported, sessionVars, barrier, inside, startTime>>

AwaitStartEvent(w) ==
  /\ w # Coordinator
  /\ startEvent
  /\ Go(w, "released", "reading")
  /\ UNCHANGED <<run, wave, failing, held, reported, sessionVars, sharedVars>>

\* The shared time zero is read; replay_started becomes True and every
\* prepared session of the worker starts replaying.
BeginReplay(w) ==
  /\ startTime > 0
  /\ Go(w, "reading", "replaying")
  /\ sess' = [s \in Sessions |-> IF s \in held[w] THEN "replaying" ELSE sess[s]]
  /\ UNCHANGED <<run, wave, failing, box, held, reported, permits, sharedVars>>

NoTimeZero(w) ==
  /\ startTime = 0
  /\ Abort(w, "reading")
  /\ UNCHANGED <<run, wave, held, reported, sessionVars, sharedVars>>

StartFails(w) ==
  /\ "start" \in FaultKinds
  /\ \E from \in {"released", "announcing", "reading"} : Abort(w, from)
  /\ UNCHANGED <<run, wave, held, reported, sessionVars, sharedVars>>

\* Mutant: the event is set but the barrier is not aborted.
AbortLeavesBarrier(w) ==
  /\ Go(w, "aborting", "signalling")
  /\ UNCHANGED <<run, wave, failing, held, reported, sessionVars, sharedVars>>

\* _abort_global_replay_start: break the barrier, then set the event.
AbortBarrier(w) ==
  /\ Go(w, "aborting", "signalling")
  /\ barrier' = "broken"
  /\ UNCHANGED <<run, wave, failing, held, reported, sessionVars, inside, startEvent, startTime>>

ReleasePeers(w) ==
  /\ Go(w, "signalling", "finalizing")
  /\ startEvent' = TRUE
  /\ UNCHANGED <<run, wave, failing, held, reported, sessionVars, barrier, inside, startTime>>
-----------------------------------------------------------------------------
(* Replay and finalization.                                                *)

FinishReplay(s) ==
  /\ sess[s] = "replaying"
  /\ \E r \in {"replayed"} \cup (IF "replay" \in FaultKinds THEN {"broken"} ELSE {}) :
       sess' = [sess EXCEPT ![s] = r]
  /\ UNCHANGED <<run, wave, pc, failing, box, held, reported, permits, sharedVars>>

\* The gather over the replays is complete; any exception fails the worker.
GatherReplays(w) ==
  /\ \A s \in held[w] : sess[s] # "replaying"
  /\ Go(w, "replaying", "finalizing")
  /\ failing' = IF \E s \in held[w] : sess[s] = "broken" THEN failing \cup {w} ELSE failing
  /\ UNCHANGED <<run, wave, held, reported, sessionVars, sharedVars>>

\* The sessions of prepared_sessions are finalized one by one, in order.
IsNextHeld(w, s) == s \in held[w] /\ \A t \in held[w] : s <= t

FinalizeSession(w) ==
  /\ pc[w] = "finalizing"
  /\ \E s \in Sessions :
       /\ IsNextHeld(w, s)
       /\ box' = [box EXCEPT ![s] = StopSucceeds(s)]
       /\ held' = [held EXCEPT ![w] = @ \ {s}]
  /\ UNCHANGED <<run, wave, pc, failing, sess, reported, permits, sharedVars>>

\* The first finalization that raises leaves the loop: the sessions behind it
\* stay as they are.
FinalizeFails(w) ==
  /\ pc[w] = "finalizing"
  /\ \E s \in Sessions :
       /\ IsNextHeld(w, s)
       /\ \E b \in StopFaults(s) : box' = [box EXCEPT ![s] = b]
  /\ held' = [held EXCEPT ![w] = {}]
  /\ failing' = failing \cup {w}
  /\ UNCHANGED <<run, wave, pc, sess, reported, permits, sharedVars>>

WorkerReturns(w) ==
  /\ held[w] = {}
  /\ Go(w, "finalizing", IF w \in failing THEN "failed" ELSE "done")
  /\ UNCHANGED <<run, wave, failing, held, reported, sessionVars, sharedVars>>
-----------------------------------------------------------------------------
(* The parent.                                                             *)

\* gather raises the first failure, but leaving the executor's `with` block
\* waits for every worker process either way.
WaveOver == \A w \in WorkerIds : pc[w] \in Ended

WaveFails ==
  /\ run = "running"
  /\ WaveOver
  /\ \E w \in WorkerIds : pc[w] = "failed"
  /\ run' = "failed"
  /\ UNCHANGED <<wave, pc, failing, held, reported, sessionVars, sharedVars>>

\* The statistic a worker returned for session s of its chunk.
StatOf(s) == IF sess[s] = "failed" THEN "prep_error" ELSE "replayed"

Collect ==
  reported' = [s \in Sessions |->
                 IF \E w \in WaveWorkers(wave) : s \in MyChunk(w)
                 THEN StatOf(s) ELSE reported[s]]

NextWave ==
  /\ run = "running"
  /\ WaveOver
  /\ \A w \in WorkerIds : pc[w] # "failed"
  /\ Collect
  /\ wave + 1 < WaveCount
  /\ wave' = wave + 1
  /\ pc' = Submitted(wave + 1)
  /\ barrier' = "filling"
  /\ inside' = {}
  /\ startEvent' = FALSE
  /\ startTime' = 0
  /\ UNCHANGED <<run, failing, held, sessionVars>>

RunCompletes ==
  /\ run = "running"
  /\ WaveOver
  /\ \A w \in WorkerIds : pc[w] # "failed"
  /\ Collect
  /\ wave + 1 = WaveCount
  /\ run' = "completed"
  /\ UNCHANGED <<wave, pc, failing, held, sessionVars, sharedVars>>
-----------------------------------------------------------------------------
WorkerStep(w) ==
  \/ Load(w) \/ LoadFails(w)
  \/ CollectPreparations(w) \/ RecordFailures(w) \/ RecordingFails(w)
  \/ Arrive(w) \/ ArriveBroken(w) \/ Leave(w) \/ LeaveBroken(w)
  \/ SetStartTime(w) \/ SetStartEvent(w) \/ AwaitStartEvent(w)
  \/ BeginReplay(w) \/ NoTimeZero(w) \/ StartFails(w)
  \/ AbortBarrier(w) \/ ReleasePeers(w)
  \/ GatherReplays(w) \/ FinalizeSession(w) \/ FinalizeFails(w) \/ WorkerReturns(w)

SessionStep(s) ==
  \/ AcquirePermit(s) \/ StartContainer(s) \/ PrepareHost(s)
  \/ PrepareFailsEarly(s) \/ FinishPreparation(s) \/ PrepareFailsLate(s)
  \/ FinishReplay(s)

ParentStep == WaveFails \/ NextWave \/ RunCompletes

\* The parent has raised or returned: the program is over.
Terminated == run # "running" /\ UNCHANGED vars

Next ==
  \/ \E w \in WorkerIds : WorkerStep(w)
  \/ \E s \in Sessions : SessionStep(s)
  \/ ParentStep
  \/ Terminated

Spec == Init /\ [][Next]_vars

(***************************************************************************)
(* Every process and every coroutine that can take a step eventually does: *)
(* the operating system and the event loops schedule them all.  Polling    *)
(* the semaphore needs no more than that, because each session acquires it *)
(* once and every holder releases it.                                      *)
(***************************************************************************)
Fairness ==
  /\ \A w \in WorkerIds : WF_vars(WorkerStep(w))
  /\ \A s \in Sessions : WF_vars(SessionStep(s))
  /\ WF_vars(ParentStep)

FairSpec == Spec /\ Fairness
-----------------------------------------------------------------------------
(* Properties.                                                             *)

BoxStates == {"none", "running", "stopped", "stuck"}

\* The type of every variable.
TypeOK ==
  /\ run \in {"running", "completed", "failed"}
  /\ wave \in Nat
  /\ pc \in [WorkerIds -> WorkerStates]
  /\ failing \in SUBSET WorkerIds
  /\ sess \in [Sessions -> SessionStates]
  /\ box \in [Sessions -> BoxStates]
  /\ held \in [WorkerIds -> SUBSET Sessions]
  /\ reported \in [Sessions -> {"none", "prep_error", "replayed"}]
  /\ permits \in Nat
  /\ barrier \in {"filling", "draining", "broken"}
  /\ inside \in SUBSET WorkerIds
  /\ startEvent \in BOOLEAN
  /\ startTime \in {0, 1}

Unprepared == {"queued", "waiting", "starting", "up"}
Started == {"replaying", "replayed", "broken"}

\* "waits for every session in that wave at a global all-ready barrier, then
\* releases replay": once one session of a wave has started replaying, every
\* session of the wave, in whichever process, is prepared or recorded as a
\* failed preparation; a worker that raised before the barrier keeps the whole
\* wave from replaying.
AllReadyStart ==
  \A s \in Sessions, t \in WaveSessions(wave) :
    /\ s \in WaveSessions(wave)
    /\ sess[s] \in Started
    => sess[t] \notin Unprepared \cup {"raised"}

Preparing == {s \in Sessions : sess[s] \in {"starting", "up"}}

\* The preparation throttle is system-wide and loses no permit on any path out
\* of a preparation: free permits and sessions being prepared, in all worker
\* processes together, always add up to the limit.
PermitsBalanced == permits + Cardinality(Preparing) = PrepLimit

\* A session behind an earlier one of the same worker whose failed preparation
\* could not be recorded either, or whose finalization was tried in vain: the
\* first exception keeps the worker from looking at those behind it.
LeftBehind(w, s) ==
  \E t \in MyChunk(w) :
    /\ t < s
    /\ \/ sess[t] = "raised"
       \/ /\ "stop" \in FaultKinds
          /\ sess[t] \in {"ready"} \cup Started
          /\ t \in HostSessions \/ box[t] \in {"stopped", "stuck"}

\* Whatever way the run ends, somebody has tried to stop every container that
\* was started, in this wave and in earlier ones, but for those that a worker
\* which failed has left behind; a run that completes leaves none.
ContainersFinalized ==
  run # "running" =>
    \A s \in Sessions : box[s] = "running" =>
      \E w \in WaveWorkers(wave) : s \in MyChunk(w) /\ pc[w] = "failed" /\ LeftBehind(w, s)

\* A run that completes reports each manifest entry, as what happened to it.
EverySessionReported ==
  run = "completed" =>
    \A s \in Sessions : reported[s] = CASE sess[s] = "failed"   -> "prep_error"
                                        [] sess[s] = "replayed" -> "replayed"
                                        [] OTHER                -> "unreported"

\* A worker of the current wave that could not load its traces is gone without
\* having aborted the barrier: peers that reach the barrier wait for good.
LostAtLoad ==
  \E w \in WaveWorkers(wave) :
    pc[w] = "failed" /\ \E s \in MyChunk(w) : sess[s] = "queued"

=============================================================================
