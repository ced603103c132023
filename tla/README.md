# agent-sched-bench: a verification project

agent-sched-bench records coding agents at work and replays their traces under
a chosen concurrency to measure how a serving system schedules them.  This
directory holds TLA+ models of the parts of it that run concurrently, survive
failures, or compute something another part relies on; the TLC runs that check
the models on small instances; and TLAPS proofs of what matters most for every
instance.  `PROJECT.json` is the machine-readable index: the components, the
runs, a mutant per property, the source lines of every definition, the hazards
and the theorems.

Paths below are relative to the repository's `src/`; `simulator.py` is
`trace_collect/simulator.py`, `openclaw_tools.py` is in the same directory, and
the agent's files are under `agents/openclaw/`.

## 1. The system

Two programs share the code.  `trace collect` runs an agent on benchmark tasks,
in a task container or on the host, and writes a trace per attempt with a
checkpoint of the sandbox after the tool calls that may change it.  `trace
simulate` replays a manifest of such traces: it prepares a container for each,
waits the recorded model latencies, executes the recorded tool calls and
compares the results.

| Component | State it keeps | Operations | Talks to |
|---|---|---|---|
| Simulate command (`simulator.py` 2560-3200, 5380-5835) | fixed images of the sweep, one trace of all sessions | load, prebuild, replay by queue or waves, split, finalize, remove images | both schedulers; container engine |
| Replay waves (`simulator.py` 2560-2720, 4160-4480) | per worker process its chunk, prepared and failed sessions; shared: semaphore, barrier, event, time zero | cut into waves and chunks, prepare, all-ready start, replay, finalize, abort | worker processes over a multiprocessing manager; containers |
| Replay queue (`simulator.py` 3990-4093) | `asyncio.Queue`, `first_error`, `prepared_sessions`, `task_stats` | take, prepare, replay, finalize | resource recorder; containers |
| Replay of one session (`simulator.py` 4483-5378) | position in the trace, container root, comparison counters | execute, restore a checkpoint chain, forced sync, compare, report | sandbox; trace logger |
| Sandbox (`agents/sandbox_runtime.py`, `openclaw_tools.py`) | container, fixed image, agent process and its pipe | start, unwind, execute, restart, stop; watchdog of a command | container engine; a process in the container |
| Checkpoint recorder (`_session_runner.py`, `_checkpoint_container.py`) | base snapshot, chain bytes, blobs; pending captures | scan, skip, full or incremental manifest, commit, defer | sandbox root; trace |
| Agent session (`_loop.py`, `_session_runner.py`, `eval/collector.py`, `bus/`) | inbound and outbound queues, session locks, concurrency gate, turns, outcomes | run a prompt, dispatch, process, answer, stop | provider; tools; session store |
| Agent runner (`_runner.py`, `llm_call/provider_base.py`) | messages, pending calls, retry budgets of one run | cut the prompt, ask the model, run a batch of tools, finish | hooks; tools; provider |
| Session store, memory consolidation, subagents (`session/manager.py`, `_memory.py`, `_subagent.py`) | cache and one JSONL file per key; lock and boundary per session | load, save, archive a prefix, announce | turns; bus |
| Collection driver (`collector.py`) | results, prefetch future, image use | select, resume, run, clean up, write results | attempts; images |
| Attempt pipeline (`attempt_pipeline.py`, `container_stats_sampler.py`) | attempt directory, watcher, sampler thread, counters | preflight, run, sample, stop, write artifacts | container daemon |
| Monitoring of a sweep (`container_stats_sampler.py`, `memory_bandwidth.py`) | registered containers, tick counters, one bandwidth collector | tick, register, stop, summarize | container daemon, perf |
| Terminal-bench (`agents/terminal_bench/`) | registry of `tb` processes, task container, FIFO | start, time out, handle a signal, clean up | `tb`, external |

What is hard in it: processes that fail independently before, at and after a
barrier; coroutines that interleave at every await, and threads beside them; a
sandbox that changes while it is read; commands to the container daemon that
time out and take effect later; answers that come after their caller gave up;
kills and resumes over files written in place.  `PROJECT.json` lists these as
hazards, each at its line with the properties that guard it.

## 2. The modules

| Module | Models | State and actions against the code |
|---|---|---|
| `ReplayWave` | `_run_cloud_model_worker_waves`, `_run_worker_wave_async`, `_wait_for_global_replay_start` | `pc[w]` is a worker's coroutine; `sess[s]`, `box[s]` a session and its container; `barrier`, `inside`, `startEvent`, `startTime`, `permits` the manager's objects. One action per stretch between two awaits or two calls on a shared object. |
| `AllReadyReplay` | what `OPERATIONS.md` promises of a wave | a session is pending, ready, replaying or over; a wave starts once nobody in it is pending, or is given up |
| `ReplayQueue` | `_run_cloud_model_queue`, `_finalize_prepared_session` | the event loop runs one worker between two awaits: an action is such a stretch |
| `Simulate` | the command around both schedulers | extends `ReplayQueue`: the queue step by step, the waves as one step with the outcomes `ReplayWave` has, the hang behind a lost worker included; images, ids, the combined trace and its split |
| `ReplaySession` | `_replay_cloud_model_session`, chain specifications, restore and fold as the replay uses them | the trace is chosen as it is read; `root`, `folded`, `errors`, `log` and the counters are the function's locals. A forced sync restores checkpoint by checkpoint and executes tool by tool; `cur.left` are the positions still to come |
| `Sandbox` | `DockerBackend`, `ContainerAgent` | `pc` is the backend in start and stop, `call` the loop of `execute`, `inbox` and `outbox` the pipe, in which a new process may print lines that are skipped, are no JSON, or are taken for an answer, `zombies` the requests of processes that lost their client |
| `TimedExec` | the watchdog that the container's script runs around a command | one action per sampling interval; `virtual` is the command's time in the source's clock |
| `CheckpointChain` | the two recorders' scans and manifests, `_restore_checkpoint_chain_to_container`, `_fold_source_manifests` | `root` changes at any time; `pc`, `scan`, `draft` the checkpoint under way, in a container the listing and then file by file, whose errors are swallowed; `trace` the records, on which restore and fold are operators |
| `TraceRecorder` | `TraceCollectorHook` with deferred captures, for the main agent and a subagent | `pc[x]` is a turn's coroutine, of the prompt, an announcement (both on the main hook) or the subagent, or `SessionRunner.run`, which ends with the first reply; a capture is a task that reads the root while the model answers, `hand[x]` the captures a coroutine swapped out and awaits; a result goes into a record written before |
| `AgentRun` | `AgentRunner.run`, the provider's retries | the messages by their roles and call ids; a tool batch starts and ends call by call |
| `AgentSession` | `SessionRunner.run`, `ResultCollector`, `AgentLoop`, runtime checkpoints, `SessionManager`, `MemoryConsolidator`, announcements | `turn[t]` is the dispatch task of a message; `lockq`, `gateq` the FIFO waiters of asyncio's locks; a crash keeps only `file` |
| `CollectRun` | `_run_scaffold_tasks`, `run_attempt` from its side, `ensure_fixed_image`, `_cleanup_task_images` | `task[i]` is how far a task is; `attempts`, `resultsFile` the run directory and `source`, `fixed` the engine's images, which a kill leaves |
| `Attempt` | `run_attempt`, `stop_task_container`, the watcher, the sampler thread | main task, watcher and thread are three processes, the daemon a fourth; orders given to it may be carried out late |
| `Monitoring` | `ContainerResourceRecorder`, `HostMemoryBandwidthCollector` | the recorder's thread tick by tick beside the sweep's main thread; samplers share one collector |
| `TerminalBench` | `TerminalBenchRunner`, the adapter's run in the container | two cleanups, of the worker's timeout and of a signal, run side by side; `tb` exits, obeys or not at any point |
| `MC...` | - | instances for TLC; `MCReplayWave` holds the refinement mapping, `MCSandbox` puts `Sandbox` and `TimedExec` side by side |
| `ReplayWaveProofs`, `SimulateProofs`, `ReplaySessionProofs`, `SandboxProofs`, `PersistenceProofs`, `AgentProofs`, `CollectRunProofs`, `MeasurementProofs` | - | the proofs, section 5 |

Choices worth knowing.  The fault kinds of a configuration name the calls on the
environment that may raise; every one of them leads where the code's handlers
lead.  In `CheckpointChain` and `TraceRecorder` the clock `now` ticks with every
change, so an mtime identifies a change as it does on a file system of fine
granularity.  Texts are reduced to what a message is (prompt, call, result,
final, announcement) and whose it is.  `CollectRun` takes image cleanup as
enabled and the agent's run as one step that ends completed, exhausted or
failed; `Attempt` opens that step.  `Simulate` takes the waves as one step;
`ReplayWave` opens it.  Trace bodies of `ReplaySession` write at most one file
per action.  `Sandbox` and `Attempt` treat the container daemon as external:
an order succeeds, fails, or times out and is carried out later.  A container's
walk in `CheckpointChain` lists all entries in one step and reads the files that
differ in further ones.  `TraceRecorder` relies on asyncio's loop running what is
ready first in first out (`Settled`): the waiter of a capture that is done goes
on before the answer to a later model call arrives.  That order is not a
fairness assumption: without it a turn's tools could start while another turn
still has to apply its capture.

A run has few properties, and several of those are conjunctions of named parts:
`ContainerAsTold` is `CarriedOutOnce` and `StoppedLeavesNothing`;
`CallsAndCommandsEnd` joins the calls of `execute` and the watchdog;
`ImagesInHand` is `FixedImagePresent` and `ImageBudget`;
`ChainFaithful` is `RestoreReproduces`, `SkipMeansUnchanged` and `ChainBounded`;
`CheckpointsFaithful` is `RestoreReproduces` and `CapturedInWindow`;
`MeasurementSound` is `NoOrphanSampler` and `CountersMonotone`; `ReportFaithful` is `SummaryMatchesTrace`,
`SuccessIsFaithful` and `LaneMismatchFlagged`.

## 3. The runs

All runs pass; between them they fire every action of every specification.

| Run | Bounds | What it shows |
|---|---|---|
| `wave` | 4 sessions, waves of 3, 2 workers, 2 permits, one host session, seven kinds of failure | all-ready start; no permit is lost; every container is tried to stop but those a raising worker leaves behind; every session reported once; the processes implement `AllReadyReplay`, with its progress unless a worker is lost while loading |
| `simulate` | 3 sessions, one on the host, 2 images, 2 at a time, every call able to fail | the recorder follows the containers; images are removed or named, and never below a replay; the split files are whole but one whose write failed; the command ends, unless its waves hang |
| `replay_session` | 3 actions, 2 paths, an agent and a subagent, 1 fault | what is compared is the recorded root; a sync that continues has put the container there; counters, records and success say what happened |
| `sandbox` | 3 requests, 2 interpreters, 2 skipped lines, 3 lines of a process's own, 3 faults; watchdog: 2 resources, 2 samples, limits 1 and 3 | answers belong to their requests; changes are carried out once; nothing is left behind; calls return; a command is killed for a cause and its watchdog ends |
| `chain` | 2 paths, 2 contents, 3 kinds, both recorders, 3 actions, 3 changes | a restored chain is the source, a skip means no change, the fold is right for paths of stable type |
| `recorder` | 2 paths, both message modes, 2 iterations of the prompt's turn, 1 of an announcement's with two exec commands, 1 of a subagent, 2 changes, 1 fault | a deferred checkpoint is of its turn's window and restores what was there, whichever turn applied it; the closed file has every record and capture but those of a turn that was not over |
| `agent_run` | 3 iterations, answers of up to 4 calls, a window of 2, budgets 0 and 1 | every prompt is one a provider accepts, tools run in their order and at most once, the run ends |
| `session` | 3 runs of 1 iteration with an exception; 2 of 2 with an exception and a kill; 1 with 2 subagents and 2 exceptions; gate of 1 | saved histories stay well formed and grow, the last step is kept, what is cut off is archived, every message is dispatched to its end |
| `collect` | lists a,b,a and a,host,b; 2 invocations, 1 or 2 at a time, 1 failure, 1 kill | no task is repeated, no attempt overwritten, images are there when needed, results.jsonl agrees with the attempts |
| `attempt` | 2 modes, 1 byte, 1 switch, 2 processes under a pid, 2 samples | the container is gone or its failed removal reported; counters fall at a torn reading only; the thread does not outlive the attempt unnoticed; the attempt ends unless its session waits for a reply that does not come |
| `monitoring` | 2 containers and a foreign one, 2 samplers, 2 ticks, 1 error, 1 crash | a complete summary accounts for every tick and line; one collector runs |
| `terminal_bench` | a deadline and a compose file | no process or container is left without a warning, no FIFO unless its removal failed; the task ends |

**Why the bounds are enough.**  Two workers and a wave of three give chunks of
two and one, so that one process waits while the other prepares, and the second
wave has a single worker and no peer.  Three queued sessions with two workers
let one worker take two while the other fails.  In the chain two paths suffice
to change one while the other is read, and three checkpoints to have a failed or
skipped one between two that count; a threshold of one byte makes the boundary
happen.  Three actions let a restored chain have a gap and a lane in it; the
instance of four actions (4.3 million states) was run once and passes too.  In
the sandbox three stray lines are one more than the loop skips, so that a call
gives up while its answer is still to come, and a third request meets it.  In
the recorder the announcement's two exec commands let a turn swap out the
capture of another while that one goes on.  A window
of two messages cuts into a call and its results.  In the session the third run
restores what the second left; an instance of about a million states with larger
plans was run once for the safety properties.  In the collection an instance
listed twice makes attempts of one instance concurrent and lets an image be
removed and needed again; a host task makes the prefetch look past it; the
second invocation resumes what a kill left, with either concurrency.  One late
order, one pid used twice and two samples are what a falling counter needs.

**Fairness.**  Weak fairness throughout: `ReplayWave` of each process, session
and the parent, which the operating system and the event loops schedule (a
holder of a permit always returns it, so polling the semaphore needs no more);
`Simulate` of the command, whose one event loop always has a step to do;
`AgentSession` of each task, since asyncio's queues and locks are FIFO and
providers and tools have timeouts, while nobody is obliged to start a run, to
fail or to be killed; `Sandbox` of the agent process's loop, the interpreter
probe and the caller's coroutines, whose timers fire; `TimedExec` of the
intervals; `Attempt` of the main task, the watcher and the thread;
`TerminalBench` of the worker and each cleanup, not of `tb`; `AgentRun` of the
run.  `CheckpointChain`, `CollectRun`, `TraceRecorder`, `ReplaySession` and
`Monitoring` have safety only.

**Deadlock** is not checked in `wave` (below, a lost worker), and in `agent_run`,
`session`, `replay_session` and `sandbox`, which stop when there is nothing more
to do or a bound is reached.

## 4. What does not hold

Properties one might expect were met while modelling and do not hold of the
code.  Those with a name are stated in their module, with the path; no run is
kept for them.  Where a property that is checked has an exception, the
exception is the narrowest one under which it holds.

*Replay.*
- Traces are loaded before the `try` whose handler aborts the barrier
  (`simulator.py:4185`): a worker that fails to load strands its peers.
  `LostAtLoad` is the exception to the progress of `ImplementsAllReadyReplay`,
  and the hang it leaves the command in (`Hung`) that to `SimulateEnds`.
- The split of the combined trace writes line by line into files it has just
  emptied (5415-5446): a write that fails leaves one that ends early, the
  exception of `FilesComplete`.
- A preparation that raises (4231) or a finalization that does (4327) keeps its
  worker from the sessions behind it: `LeftBehind`.
- `FoldReproduces`: the fold adds an incremental manifest's entries before it
  removes the deleted paths (1784), and a link whose target changed is in both.
- A subagent's full checkpoint in the agent's chain is restored as if it were
  the agent's (1710-1731, 2014-2044), while the fold of the comparison leaves
  lanes out (4820-4835): `ContinuedIsRecorded` holds under `CleanHistory`.
- An action that raised before its boundary is never folded (4827 against
  5331): `ComparedWithRecorded` excludes it.
- `SuccessMeansInStep`: a missing blob counts as no mismatch although the
  restore may have stopped on an emptied root (5341).
- A prebuild that fails loses the names of the images it built (3133-3172); an
  error of the recorder's stop skips the image cleanup (5796-5799); a failed
  image removal raises, without a throughput summary of the completed run; a
  queue that raised leaves no per-task file; a session whose failed preparation
  could not be undone gets a second directory.
- `NoReplayBesideLeakedProbe`: an interpreter probe that cannot be reaped while
  a call restarts the agent fails that one action only (`openclaw_tools.py:632`).
- A call that gives up while it skips stray lines (`openclaw_tools.py:893`, by a
  timeout or after the last round) leaves its answer in the pipe, where the next
  call takes it.  So does a line of the process's own that begins with a brace:
  it is taken as the answer (906) or, when it is no JSON, ends the call as an
  invalid one (908), in both cases with the process kept.  `behind` in
  `AnswersOwn` stands for these two.
- The unbounded `communicate()` behind the watchdog's kill (430, 447) is not
  modelled: a child that survives its group's SIGKILL and holds the pipe open
  makes the watchdog wait for it.

*Recording.*
- `SkipMeansUnchangedModes`: changes are found by type, size and mtime
  (`_session_runner.py:219`); a changed mode alone is invisible.
- A file of a container that differs and is gone, or cannot be read, between its
  lstat and its open (`_checkpoint_container.py` 180-195) is in the entries the
  next checkpoint compares with and in no manifest, without a word: it is wrong
  in every restore until its next change.  `ChainFaithful` and
  `FoldOfStableTypes` except such paths, and nothing else because of them.  An
  entry that cannot even be listed (160, 169) counts as removed.
- `NothingDropped`: in delta mode a turn whose history does not extend the one
  seen last, as that of a turn beside another, makes `before_iteration` raise
  (`_session_runner.py:1517-1542`), the composite hook logs it (`_hook.py:71`),
  and the iteration has no records.  In full mode its record has the messages
  that are kept then, which may be the other turn's or none.
- The run ends with the first reply to its chat (`_session_runner.py:1949`).  A
  turn that is not over then goes on beside `write_summary` (1677-1711): its
  exec commands may be in the closed file without a checkpoint (`late` in
  `TraceComplete`), and the manifests behind such a line may not restore the root
  (`NothingMissing` in `CheckpointsFaithful`).  A turn's capture may be taken
  while another turn's tools run, which the code marks when it knows
  (`smeared_checkpoint`, 1013): it is the root as it was read, in the middle of
  those tools.  Results of two turns are applied in the order in which each turn
  awaits its own, so that a skip's line may follow a manifest taken later.

*Agent.*
- `AnswerIsOwn`: a run ends with the first reply to its chat, which may be a
  subagent's (`eval/collector.py:51`).  `OutcomeReported`: the outcome is looked
  up under another key than it is filed under (`_session_runner.py:1959`).
  `RunReturns`: the reply to a message that raised goes to a key nobody waits
  for (`_loop.py:586`).  `PromptOnRecord`: after a kill only the last iteration
  is restored (`_runner.py:218`).  `RequestSaved`: an announcement merged into
  the last history message is not saved (`_loop.py:657`).  `InterruptedOnce`:
  turns on one session hold different locks (`_loop.py:497`), and a running
  call is recorded as interrupted.
- Four or more results at the end of a full window leave a prompt of the system
  message alone (`_runner.py:903-913`); the budget for malformed answers
  is counted per input, which grows with every retry, so that one of 1 or more
  never runs out (`_runner.py:41-52`, 291-302); in persistent mode
  errors that alternate are retried without end (`provider_base.py:417-490`); a
  stalled stream is not retried (`llm_call/openclaw.py:863-871`).

*Collection and monitoring.*
- `ExitedKeepTheirCounts`: a process's start time and its switches are two
  readings (`container_stats_sampler.py` 1116-1117): when the pid is reused in
  between, the lower count of the new process is kept as that of the one that
  exited, and the total falls, against the comment above it (1111).
  `MeasurementSound` excepts the sample that kept such a count.
- The reply to a turn that raised (`RunReturns` above) is what an attempt may
  wait for without a timeout: `AttemptEnds` excepts a session that does.
- A set-up that raises before the `try` (`collector.py:985-1043`) or a start that
  times out (`attempt_pipeline.py:297`) leaves a container; the sampler thread
  may outlive its join (`container_stats_sampler.py:1123`) and ends with the
  first reading that fails (1184-1187).
- One container lost between listing and asking empties the tick for all
  (`container_stats_sampler.py:649-653`); a killed bandwidth collector that had
  a reading returns it for ever, and one that had none is started anew with
  every sample (`memory_bandwidth.py:499-502`).
- A signal between `Popen` and the registration misses the process
  (`agents/terminal_bench/runner.py` 441, 459); a killed `tb` that exits 0 is a
  success; group members that outlive their leader are not killed (584-604); the
  timeout's message claims a cleaned container in every case; a removal of the
  key's FIFO that fails in a running container goes unnoticed
  (`openclaw_agent.py` 503-506, 586-590: `kept` in `NothingLeft`), as does the
  FIFO of an adapter that raises something else than a timeout; containers
  created after the listing escape it; `_build_wheel` has no timeout
  (`openclaw_agent.py:171`).

## 5. The proofs

Eight modules; every theorem holds for all values of the constants under the
`ASSUME` of its model alone.  TLC checks the inductive invariants' consequences
first, and each theorem but the type invariant and the chunk lemmas states a
property of a run.

**`ReplayWaveProofs`.**  `ChunksCover` and `ChunksDisjoint`: each session of a
wave is in the chunk of exactly one worker; `BlockOf` finds it by quotient and
remainder.  `TypeCorrect`, `AllReadyStartCorrect`, `PermitsBalancedCorrect`.
`AllReadyStart` does not say how a worker got past the barrier; `IInv` adds
`WaveInv` (a session moves only with the worker of its chunk, later waves are
untouched), `HeldInv` (what a worker holds is of its chunk and was prepared) and
`BarrierInv` (a worker inside the barrier or past it has nothing left to
prepare, and the barrier drains only when all are in).  `LastToArrive` is the
heart: who fills the barrier finds every peer inside, and by `ChunksCover` the
peers' chunks are the rest of the wave.

`EverySessionReportedCorrect` and `ContainersFinalizedCorrect`: `OwnInv` says
what a finished worker has done with each session of its chunk, `ReportInv` that
the report is the union of the waves that are over, and `BoxInv` relates a
container to its session's phase and to what a raising worker leaves behind.

`ReplayWaveImplementsAllReady`: `Spec => AllReady!Safety` under the mapping of
`MCReplayWave`.  `AllInv` joins the invariants above; `InitRefines`,
`WorkerRefines`, `SessionRefines` and `ParentRefines` show that each kind of
step is a step or a stutter.  The difficulty is that one abstract phase is read
from two processes' state: a session is over also when its worker has given up
and not yet said so.

**`SimulateProofs`.**  `RecorderFollowsContainersCorrect`,
`ImagesAccountedCorrect`, `RemovedAfterReplaysCorrect`.  `ReplayInv` consists of
the types, `WorkInv` and `QueueInv` (who holds which session: the queue, one
worker, or nobody any more), `SessInv`, `WaveInv` and `SettleInv` (when the
schedulers are over nothing is replaying); `ImageInv` says that an image the
sweep built is in its hands, named in the log or removed.  `TakeKeeps` and
`OwnKeeps` carry ownership over the queue's steps, `QueueSettled` that a queue
that is over has no session left.

`FilesCompleteCorrect` is about the one trace and its split.  `ClosedInv`: a
session that is over has a summary behind its other records, however the
records of several sessions were interleaved; `AccountInv`: until the replay
raised each session is queued, in a worker's hands, or reported and prepared;
`LinesInv`: ids differ once a manifest is accepted, by the guard of `Load` and
not by how ids are formed; `FileInv` follows the files to the end, the one that a failed write may
cut off included.  `Selected`,
the records at some positions, is a recursive function; that it depends on the
positions alone and ends with the record at the last of them is shown by
induction over the length.  The wave's trace is written in the order of a
permutation, which is onto because it is one-to-one on a finite set.

**`ReplaySessionProofs`.**  `ComparedWithRecordedCorrect`: what the replay
compares with is the source's root at that checkpoint, unless an action was
lost before it.  `ContinuedIsRecordedCorrect`: a forced sync that lets the
replay go on has put the container where the source was.
`ReportFaithfulCorrect`: the counters are those of the log, success means what
the summary says, and a mismatch in a subagent's lane is flagged.  The
properties speak of one moment; `IInv` says how the pieces of the replay's
state follow the trace from its start:

- `CurInv`, `LogInv`, `CountInv`: the log, the errors and the action in hand are
  the actions taken up, and each counter is the cardinality of a set of log
  entries (`CountOneMore`);
- `SourceInv`, `CkptInv`, `BaseInv`, `FullInv`: the source's root follows from
  action to action, a checkpoint is what the recorder made of it, a full one
  comes first;
- `FoldInv`: the folded manifests are the source's files at its last checkpoint;
- `SyncInv`: while checkpoints are restored or tools executed again, the root is
  the one of the position reached, and nothing of the chain is missing;
- `FollowInv`: without lanes, faults and tools that went another way the
  container follows the source, and a checkpoint brings it back.

`LatestIs` finds the last checkpoint before a position as the least of a
nonempty set in a well-founded order; `StepKinds` reduces the steps to those
that read the trace, move on, or leave it alone; `RestoreInStep` and
`ReapplyInStep` are the two halves of the sync.

**`SandboxProofs`.**  `AnswersOwnCorrect`, an action property, and
`ContainerAsToldCorrect`.  `PipeInv`: unless
an earlier call gave up while skipping or the process printed a line that
begins as an answer does, the pipe holds either the call's own
request or at most its one answer among stray lines, and nothing but stray lines
while no call has sent its request; `ClientInv` and `CallInv` say that a process
that is gone has an empty pipe and that a probe runs only while there is none.
`LineRead` is the fact every read needs: the line is stray or the call's own,
and behind the own one nothing is left.  For the second theorem `DoneInv` counts:
what was carried out, and what may still be in the pipe or in a process that
lost its client, is never more than what was sent; `AttemptInv` bounds that by
the attempts, of which only reads get two (`TakeOnce`: so an acknowledged change
is pending nowhere); `LifeInv` follows container, id and image through start and
stop.

`KilledForCauseCorrect`, of the watchdog on every timeline of samples: `WatchInv`
holds the types while the command runs, `ProgressBound` says that virtual time
passes no faster than the clock, `StallLimit` that the limit of a stall
is not below its lower bound.  It needs `WatchAssumption`, that a limit is
positive: the tool's schema has a minimum of 1 (`agents/openclaw/tools/shell.py:158`).

**`PersistenceProofs`.**  What a run leaves on disk: the chain of workspace
checkpoints and the session file.

Of `CheckpointChain`: `ChainFaithfulCorrect`: for every number of
actions, changes and paths, and both recorders, restoring the chain up to any
checkpoint gives the source's root there, a skip means that nothing changed,
and the chain's bytes stay below the threshold.  `FoldOfStableTypesCorrect`: the
fold of the manifests is the source's root where no path changed its type.
Each checkpoint only speaks of the one before it, which is not inductive for a
restore that starts from the last full one.  Both go with the paths in doubt,
which a container's checkpoint took up and could not read: every fact about a
manifest is one about the other paths, and a path leaves the doubt with the
first manifest that lists it.  `ClockInv`: what is in a snapshot
is not newer than the clock, so that a stamp identifies a change (`ChangeIsNew`,
`StampsKept`); `DraftInv`: a manifest under construction is a full one of the
scan or a step from the base, if the host's check for changes passes;
`ManifestInv`: the same of every manifest in the trace, from the manifest
before it; `BaseInv`, `BytesInv`: base and bytes are those of the last one.
`ChainRestores` and `FoldFollows` then go from manifest to manifest.

Restore, fold and bytes are recursive functions over the positions.  That such
a function exists is `RecursionExists`, by `SetInduction`: a set of
numbers that has 0 and is closed under successor has every number, since the
least one missing would have a predecessor.  The model assumes that the paths
are finite in number, as a file system's are.

Of `AgentSession`, for every set of plans, any `MaxConcurrent` and any bounds on
processes, iterations and subagents: `SessionArchivedIsNoted` and
`SessionHistoryKept` (an action property) hold with subagents too, by
`SavedInv`.  Neither speaks of the cached session, and it is the cache that is
written.  `CacheInv` says how far it may be from the file: it extends the saved
messages and agrees on what is archived and on the checkpoint, it is loaded
while a turn runs or a consolidation is under way, and the boundary of a
consolidation, chosen before the model is asked, is still inside the cached
messages and past what is archived when the answer comes.  So a save, whoever's
it is, can only make the file longer, and a consolidation marks as archived what
it has noted.

`SessionHistoryWellFormed` and `SessionLastStepOnRecord` are about a session
without subagents (`plan.spawns = 0`): with them the properties are false by
design, as an announcement's turn runs beside the prompt's.  A well-formed file
is not inductive: the next save comes from the running turn's messages, or from
a checkpoint that a later process restores over messages already saved.
`SoloInv` says, in `AloneInv`, that only the run's own turn is under way; in
`FileInv`, that the file holds whole turns in order and at most the checkpoint
of a turn that it has no message of yet; in `TurnInv`, for every point of the
turn, what the record, the cache, the file and the checkpoint have in common
(`StillWaits`, `Started`, `Begun`, `Asking`, `Calling`, `ClosedLog`): while the
model is asked the turn's messages are closed pairs of calls and results, while
a tool runs they end with one open call, and that call is the checkpoint.
`EmittedInv` adds that every step checkpointed so far is in the file or in its
checkpoint.  The hard steps are those of `Restore`, whose overlap is the longest
end of the history that starts what is restored (`OverlapIs`; its maximum is
found in a finite set of numbers): a checkpoint of a turn the file has nothing
of is added whole, with an "interrupted" result for a pending call, and one that
was saved meanwhile adds nothing (`RestoreIs`).  `LegalStartType` and
`HistoryType` need no more of the recursive search for a legal start than that
the prompt's history is an end of the messages.  TLC checked both invariants
first, on `MCPlans` and, with `MaxConcurrent = 2` and longer plans, on 3,084,300
states.

**`CollectRunProofs`.**  `AttemptsKeptCorrect`, an action property, by `TaskInv`,
`DirInv`, `OrderInv` and `NumberInv`: which numbers are taken, by whom, and that
a number is never given out below one that exists (`NextAttemptFresh`,
`NumbersDiffer`, `PreassignedNumbers`).  `FinishedOnceCorrect` by `OnceInv`: for
each instance, the attempts that finished and the tasks that still may are no
more than the task list asks for, over kills and resumes.  `ImagesInHandCorrect`
by `ImageInv` and `BudgetInv`: an image on the disk is one of a task under way,
of the first waiting task while it is prefetched, or on record as left behind;
`JobsInv` keeps the prefetch to that one image and `SkipInv` to tasks that run.
`ResultsFaithfulCorrect`, of the step that writes results.jsonl, by `ResultInv`:
a task that ended has the outcome its attempt directory records, or ended in
error without a directory and left its number to a later task (`Superseded`);
by `SharedNumber` that happens in a sequential collection only, so a directory
is never completed by an attempt whose number an earlier line of another outcome
has.  `ResultLines` is a recursive function over the tasks, and
`ResultLinesOrdered` says what it computes.

**`MeasurementProofs`.**  Of `Attempt`: `ContainerGoneOrReportedCorrect` by `StopInv`: an attempt
that entered its session is inside the `try` that stops the container or has
stopped it, and a stop that returned leaves none.  `MeasurementSoundCorrect` by
`ThreadInv` and `CountInv`: a sample of the container's bytes is not above the
counter then, and the switches counted under a pid that several processes
had are a sum over the processes, each of which only grows (`TotalMonotone`),
unless the reading was torn by a reused pid.

Of `Monitoring`: `OneCollectorCorrect` by `CollectorInv` (only the latest
generation may be alive); `SweepAccountedCorrect` by `RecorderInv`, which counts
the lines, the ticks and the counters of a tick that is under way.

Of `TerminalBench`: `NothingLeftCorrect` and `CleanedOrWarnedCorrect`, with two
cleanups side by side.  `ProcessInv`: what a cleanup has passed has exited or
outlived SIGKILL, so that the second one need not know what the first did;
`AdapterInv`: the adapter runs in a container that was up and does not come
back, which is why a cleanup may leave the FIFO of one that is gone; where the
container is up, each end of the adapter has tried to remove it.

**`AgentProofs`.**  Of `TraceRecorder`: `CheckpointsFaithfulCorrect` and
`TraceCompleteCorrect`, for the two turns of the main agent and a subagent.  The
turns of one hook swap out each other's captures and apply them in any order, so
the invariant follows the captures and not what was applied last.  `CapsInv`:
the captures are taken in the order of their tasks, each manifest the difference
from the one before, and together they restore what the last one read, which is
the base (`FindsChained`: the next one carries this on).  `RecsInv` numbers the
lines by the captures (`NumberedBy`: later lines, later captures; a checkpoint
that is not applied yet is pending or in a coroutine's hand, `Held`) and says
what a line tells of its own (`Told`).  `LastInv`: the last snapshot, whichever
turn put it there, is a capture, so that a skip at its marker stands for the
root of then.  `HandInv`: who
waits has all of its own turn's captures swapped out, by itself or by another;
`FileInv` says that the file lags behind the records only in checkpoints
and metadata (`Lagging`), so that `LineRestores` serves both.  For the summary,
`ReplyInv` and `SubInv` say what is applied when run() or the subagent has
awaited its captures: everything but the captures of turns that were not over.
What the manifests restore is a relation (`Restores`: for each path the last
manifest that lists it), so that no fold has to be followed.

Of `AgentRun`: `ConversationWellFormedCorrect` and `ToolsCoveredCorrect`.  That
a history is well formed is not inductive, since the window may cut it anywhere.
`InRounds` is: the system's prompt, the user's, and answers each with the
results of its calls right behind it, in order, no id twice, each of an
iteration begun (`RoundsInv`; while tools run, of all but the last message).
`CutStart` shows that the legal start of any end of such a history is where the
next round begins, by following the recursive function of `LegalStart` position
by position; `EndWellFormed` that whole rounds are a conversation; `FewHold` that
four messages reach back over an answer with up to three calls.  `Strip` takes
out whole rounds too (`Uniform`), so that `PartWellFormed` serves both.
`RoundAppended` is the step: an answer with fresh ids and its results are one
round more.  For the tools, `StartedInOrder`: a call that was started found
those before it started, or over when they are not of its batch.
`SelectedInOrder` says what the model's filter of messages is, an enumeration of
the positions in their order; it rests, as in `PersistenceProofs`, on the
existence of recursive functions and on induction for a set (`UpTo`).

**Only model-checked.**  Liveness and everything with ENABLED, so also the
progress half of the refinement and `MessagesHandled` of `AgentSession`.  Every
invariant and every action property of the runs is proved.  Recursive functions are within reach as above; what the library
defines with an operator as parameter (`SelectSeq`, `FoldLeft`, `SetToSortSeq`)
is not, which is why `AgentRun` filters messages with a recursive function of
its own (`Selected`).

## 6. Not modelled

- The overlay checkpoint backend (`--checkpoint-backend overlay`, beside the
  default walk): its manifests are those of the upper directory alone, its first
  one is called full but lacks the image's files
  (`agents/sandbox_runtime.py:868-869`), and its whiteout test asks for a name
  and a device that the kernel does not give together.  A model of it needs the
  kernel's overlay semantics, external to this code.
- `_capture_snapshot_manifest` (`simulator.py` 1282-1521), which no path of the
  program reaches, and the bootstrap cache's publication
  (`trace_collect/runtime/task_container.py` 845-1119), called by tests only.
- Pure functions over finished traces: replay mismatch analysis, reports,
  scripts, the viewer.  They keep no state and meet no concurrency.
- Tools, wire formats of the providers, prompts, skills, benchmark plugins,
  argument parsing and the daemon: single calls on the environment, or wiring.
- In modelled components: waiting times and the timing policy of a replay, a
  session file torn by a kill, slash commands and streaming, cancellation by
  session, the host process sampler, failing writes of samples and artifacts,
  exceptions of the prompt's governance.

## 7. Plan

In the order of what they would add:

1. The composition of `ReplaySession` with `Sandbox`: an action of the replay is
   a call of `execute`, and a failed restart is one of its errors.
2. An abstract replay of a trace that `ReplaySession` implements, as
   `AllReadyReplay` is for the waves.
3. The session file written in place, with a kill between two blocks.
