------------------------------ MODULE Attempt ------------------------------
(***************************************************************************)
(* One attempt at one task: run_attempt of trace_collect/attempt_pipeline, *)
(* with the inner coroutine of the collector (the agent on the host, its   *)
(* tools in a task container, or a benchmark's own runner that starts the  *)
(* container itself), stop_task_container, the coroutine that waits for    *)
(* the container, and the thread that samples it.                          *)
(*                                                                         *)
(* The coroutine runs only where the main task awaits: a subprocess call   *)
(* blocks the event loop.  The sampler is a thread and runs everywhere.    *)
(* The container is started with --rm: a container that stops is removed   *)
(* by the daemon on its own, in a step of the daemon's.  A command that    *)
(* timed out was given to the daemon all the same and may take effect      *)
(* later.                                                                  *)
(***************************************************************************)
EXTENDS Integers, Sequences

CONSTANTS
  MaxIo,          \* bound: bytes the container's processes write
  MaxSwitches,    \* bound: context switches of one process
  MaxProcs,       \* bound: processes that ran under the one pid modelled
  MaxSamples      \* bound: samples the thread takes

ASSUME AttemptAssumption ==
  /\ MaxIo \in Nat /\ MaxSwitches \in Nat
  /\ MaxProcs \in Nat \ {0} /\ MaxSamples \in Nat

Modes == {"host_agent_docker_tools", "host_controller"}
Absent == -1
Starts == 1..MaxProcs

VARIABLES
  mode,       \* ctx.agent_runtime_mode
  pc,         \* where the main task is
  now,        \* the clock, which moves on when it is read for a time stamp
  ctx,        \* AttemptContext: the container id is known, the times (0: None)
  run,        \* what inner did: [entered, exit, success, failed]
  stopped,    \* stop_task_container: "no", "returned" or "raised"
  removal,    \* rm reported a removal in progress
  ctr,        \* the container: none, running, exited, gone
  orders,     \* orders that timed out, still with the daemon
  work,       \* the container's counters: [io, start, sw]
  watcher,    \* the coroutine: off, waiting, stop or done
  thread,     \* the sampler: off, stats, io, ctxt, wait, ended
  stopEvent,  \* the sampler's _stop_event
  io,         \* its I/O state: [mode, hwm, ctxt], and whether ctxt has a key
  reading,    \* the sample it is at: [bytes, start]
  samples,    \* its _samples; torn: it kept one process's count as another's
  late,       \* join() gave up on it
  manifest    \* what run_attempt wrote: status and samples, or none

mainVars == <<pc, now, ctx, run, stopped, removal, manifest>>
ctrVars == <<ctr, orders, work>>
samplerVars == <<thread, io, reading, samples>>
vars == <<mode, mainVars, ctrVars, watcher, samplerVars, stopEvent, late>>

NoManifest == [status |-> "none", samples |-> <<>>]
NoReading == [bytes |-> Absent, start |-> Absent]

TypeOK ==
  /\ mode \in Modes /\ now \in Nat
  /\ ctx \in [id : BOOLEAN, start : Nat, ready : Nat, agentStart : Nat, agentEnd : Nat, end : Nat]
  /\ run.exit \in {"none", "completed", "max_iterations", "failed"}
  /\ stopped \in {"no", "returned", "raised"}
  /\ ctr \in {"none", "running", "exited", "gone"}
  /\ orders \subseteq {"stop", "rm"}
  /\ watcher \in {"off", "waiting", "stop", "done"}
  /\ thread \in {"off", "stats", "io", "ctxt", "wait", "ended"}
  /\ io.mode \in {"none", "cgroup", "exec"}

Init ==
  /\ mode \in Modes /\ pc = "preflight" /\ now = 1
  /\ ctx = [id |-> FALSE, start |-> 1, ready |-> 0, agentStart |-> 0, agentEnd |-> 0, end |-> 0]
  /\ run = [entered |-> FALSE, exit |-> "none", success |-> FALSE, failed |-> FALSE]
  /\ stopped = "no" /\ removal = FALSE
  /\ ctr = "none" /\ orders = {} /\ work = [io |-> 0, start |-> 1, sw |-> 0]
  /\ watcher = "off" /\ thread = "off" /\ stopEvent = FALSE
  /\ io = [mode |-> "none", hwm |-> 0, known |-> FALSE, ctxt |-> [s \in Starts |-> 0]]
  /\ reading = NoReading /\ samples = <<>> /\ late = FALSE /\ manifest = NoManifest

Stamp == now' = now + 1
Goto(label) == pc' = label /\ UNCHANGED now
StampGoto(label) == pc' = label /\ Stamp
Mode(m) == mode = m /\ mode' = mode
\* inner raised: there is no result.
Raised == [run EXCEPT !.failed = TRUE, !.exit = "none"]
Docker == Mode("host_agent_docker_tools")
Live == ctr \in {"running", "exited"}

-----------------------------------------------------------------------------
(* Before the attempt's try: a failure here leaves no artifact.            *)

\* preflight_disk and, for a task with an image, ensure_fixed_image.
Preflight ==
  /\ pc = "preflight"
  /\ \/ /\ StampGoto("inner")
        /\ ctx' = [ctx EXCEPT !.ready = now]
        /\ watcher' = "waiting"
     \/ Goto("raised") /\ UNCHANGED <<ctx, watcher>>
  /\ UNCHANGED <<mode, run, stopped, removal, ctrVars, samplerVars, stopEvent, late, manifest>>

-----------------------------------------------------------------------------
(* inner                                                                   *)

\* start_task_container: `run -d --rm`, at most 180 s.  A command that fails
\* or times out raises; the one that timed out may have started a container
\* whose id nobody knows.
StartTaskContainer ==
  /\ pc = "inner" /\ Docker
  /\ \/ /\ Goto("setup") /\ ctr' = "running" /\ ctx' = [ctx EXCEPT !.id = TRUE]
        /\ UNCHANGED run
     \/ /\ Goto("caught") /\ ctr' \in {"none", "running"} /\ UNCHANGED ctx
        /\ run' = Raised
  /\ UNCHANGED <<stopped, removal, orders, work, watcher, samplerVars, stopEvent, late, manifest>>

\* The prompt, the MCP servers and the session runner come before the try
\* that stops the container.
SetupSession ==
  /\ pc = "setup"
  /\ \/ /\ StampGoto("session")
        /\ ctx' = [ctx EXCEPT !.agentStart = now]
        /\ run' = [run EXCEPT !.entered = TRUE]
     \/ Goto("caught") /\ run' = Raised /\ UNCHANGED ctx
  /\ UNCHANGED <<mode, stopped, removal, ctrVars, watcher, samplerVars, stopEvent, late, manifest>>

\* session_runner.run: an awaited run of the agent, that returns or raises.
\* It waits without a timeout for a reply on its own channel: a turn that
\* raised replies on another, and the attempt waits for ever.  So does one that
\* waits for a benchmark's program that was given no deadline.
SessionHangs ==
  /\ pc = "session" /\ Goto("hung")
  /\ UNCHANGED <<mode, ctx, run, stopped, removal, ctrVars, watcher, samplerVars, stopEvent, late, manifest>>

RunSession ==
  /\ pc = "session" /\ Docker
  /\ \/ \E exit \in {"completed", "max_iterations", "failed"} :
          Goto("normalize") /\ run' = [run EXCEPT !.exit = exit]
     \/ Goto("logs") /\ run' = Raised
  /\ UNCHANGED <<ctx, stopped, removal, ctrVars, watcher, samplerVars, stopEvent, late, manifest>>

\* _normalize_openclaw_trace rewrites the trace through a temporary file and
\* the summary is read: both raise when the trace is missing or malformed.
NormalizeTrace ==
  /\ pc = "normalize"
  /\ \/ Goto("patch") /\ UNCHANGED run
     \/ Goto("logs") /\ run' = Raised
  /\ UNCHANGED <<mode, ctx, stopped, removal, ctrVars, watcher, samplerVars, stopEvent, late, manifest>>

\* Whether there is a patch, the submitted one or the diff: none when git's
\* answer is a failure or a timeout, as it is from a container not running.
Patches == IF ctr = "running" THEN BOOLEAN ELSE {FALSE}

\* The patch is extracted in a thread; the AttemptResult is a success when the
\* agent completed and left a patch.  A command that cannot run raises.
ExtractPatch ==
  /\ pc = "patch"
  /\ Goto("logs")
  /\ \/ \E patch \in Patches :
          run' = [run EXCEPT !.success = run.exit = "completed" /\ patch]
     \/ run' = Raised
  /\ UNCHANGED <<mode, ctx, stopped, removal, ctrVars, watcher, samplerVars, stopEvent, late, manifest>>

-----------------------------------------------------------------------------
(* stop_task_container                                                     *)

\* The finally stamps the agent's end and the logs are read; no answer is an
\* error.
ReadLogs ==
  /\ pc = "logs"
  /\ StampGoto("stop")
  /\ ctx' = [ctx EXCEPT !.agentEnd = now]
  /\ UNCHANGED <<mode, run, stopped, removal, ctrVars, watcher, samplerVars, stopEvent, late, manifest>>

\* `stop`, 30 s: whatever comes of it, `rm -f` follows.
StopContainer ==
  /\ pc = "stop"
  /\ Goto("rm")
  /\ \/ ctr = "running" /\ ctr' = "exited" /\ UNCHANGED orders
     \/ UNCHANGED <<ctr, orders>>                      \* refused, or nothing to stop
     \/ orders' = orders \cup {"stop"} /\ UNCHANGED ctr \* timed out
  /\ UNCHANGED <<mode, ctx, run, stopped, removal, work, watcher, samplerVars, stopEvent, late, manifest>>

\* `rm -f`, 60 s.  The container that is being removed already is told apart
\* from other failures.
RemoveContainer ==
  /\ pc = "rm"
  /\ Goto("inspect")
  /\ \/ Live /\ ctr' = "gone" /\ UNCHANGED <<orders, removal>>
     \/ ctr = "exited" /\ removal' = TRUE /\ UNCHANGED <<ctr, orders>>
     \/ UNCHANGED <<ctr, orders, removal>>
     \/ orders' = orders \cup {"rm"} /\ UNCHANGED <<ctr, removal>>
  /\ UNCHANGED <<mode, ctx, run, stopped, work, watcher, samplerVars, stopEvent, late, manifest>>

\* Mutant: an inspect that fails is taken for a missing container.
OnlyLiveExists == {[exists |-> Live, error |-> FALSE], [exists |-> FALSE, error |-> TRUE]}

\* _inspect_container_exists: an inspect that times out or fails for another
\* reason than a missing container says that the container exists.
Inspections == {[exists |-> Live, error |-> FALSE], [exists |-> TRUE, error |-> TRUE]}

StopEnds(exists) ==
  /\ Goto(IF run.failed THEN "caught" ELSE "returned")
  /\ stopped' = IF exists THEN "raised" ELSE "returned"

\* A container that exists while its removal is in progress is looked at
\* again, for a minute; the RuntimeError for one that stays is logged by the
\* collector and the attempt goes on.
InspectContainer ==
  /\ pc \in {"inspect", "again"}
  /\ \E i \in Inspections :
       IF i.exists /\ removal /\ ~(pc = "again" /\ i.error)
         THEN \/ pc' = "again" /\ UNCHANGED <<now, stopped>>
              \/ pc = "again" /\ StopEnds(TRUE)           \* 60 s are over
         ELSE StopEnds(i.exists)
  /\ UNCHANGED <<mode, ctx, run, removal, ctrVars, watcher, samplerVars, stopEvent, late, manifest>>

-----------------------------------------------------------------------------
(* A benchmark's own runner                                                *)

\* runner.run_task on a thread: the id is published before the benchmark's
\* program starts the container and removes it.
RunTask ==
  /\ Mode("host_controller")
  /\ \/ /\ pc = "inner" /\ Goto("session")
        /\ ctx' = [ctx EXCEPT !.agentStart = now]
        /\ run' = [run EXCEPT !.entered = TRUE] /\ UNCHANGED ctr
     \/ /\ pc = "session" /\ ~ctx.id /\ ctx' = [ctx EXCEPT !.id = TRUE]
        /\ UNCHANGED <<pc, now, run, ctr>>
     \/ /\ pc \in {"session", "hung"} /\ ctx.id /\ ctr = "none" /\ ctr' = "running"
        /\ UNCHANGED <<pc, now, ctx, run>>
     \/ /\ pc \in {"session", "hung"} /\ Live /\ ctr' = "gone"
        /\ UNCHANGED <<pc, now, ctx, run>>
     \/ /\ pc = "session" /\ ctx' = [ctx EXCEPT !.agentEnd = now] /\ UNCHANGED ctr
        /\ \/ StampGoto("caught") /\ run' = Raised
           \/ /\ ctx.id /\ StampGoto("returned")
              /\ \E exit \in {"completed", "failed"} :
                   run' = [run EXCEPT !.exit = exit, !.success = exit = "completed"]
  /\ UNCHANGED <<stopped, removal, orders, work, watcher, samplerVars, stopEvent, late, manifest>>

-----------------------------------------------------------------------------
(* The end of run_attempt                                                  *)

\* A scaffold that failed before its agent started spent its time on setup.
\* The event stops the coroutine, which the task then waits for.
InnerEnded ==
  /\ pc \in {"returned", "caught"}
  /\ ctx' = [ctx EXCEPT !.agentStart = IF @ = 0 THEN now ELSE @,
                        !.agentEnd = IF @ = 0 THEN now ELSE @]
  /\ StampGoto("watcher")
  /\ watcher' = IF watcher = "waiting" THEN "stop" ELSE watcher
  /\ UNCHANGED <<mode, run, stopped, removal, ctrVars, samplerVars, stopEvent, late, manifest>>

\* Mutant: the sampler is dropped, neither stopped nor joined.
DropSampler ==
  /\ pc = "watcher" /\ watcher = "done"
  /\ StampGoto("write")
  /\ ctx' = [ctx EXCEPT !.end = now]
  /\ manifest' = [manifest EXCEPT !.samples = samples]
  /\ UNCHANGED <<mode, run, stopped, removal, ctrVars, watcher, samplerVars, stopEvent, late>>

\* Mutant: join() without a timeout, of a thread nobody told to stop.
JoinForever ==
  /\ pc = "watcher" /\ watcher = "done"
  /\ Goto("join")
  /\ UNCHANGED <<mode, ctx, run, stopped, removal, ctrVars, watcher, samplerVars, stopEvent, late, manifest>>

\* The coroutine is done: its sampler, if it started one, is told to stop.
StopSampler ==
  /\ pc = "watcher" /\ watcher = "done"
  /\ Goto("join")
  /\ stopEvent' = (thread # "off")
  /\ UNCHANGED <<mode, ctx, run, stopped, removal, ctrVars, watcher, samplerVars, late, manifest>>

\* join() ends with the thread or gives up after its timeout, which a thread
\* inside a command can exceed; the samples taken until then are used.
JoinSampler ==
  /\ pc = "join"
  /\ \/ thread \in {"off", "ended"} /\ UNCHANGED late
     \/ thread \in {"stats", "io", "ctxt"} /\ late' = TRUE
  /\ StampGoto("write")
  /\ ctx' = [ctx EXCEPT !.end = now]
  /\ manifest' = [manifest EXCEPT !.samples = samples]
  /\ UNCHANGED <<mode, run, stopped, removal, ctrVars, watcher, samplerVars, stopEvent>>

\* The status of run_manifest.json.
Status ==
  IF run.failed THEN "error"
  ELSE IF run.exit = "max_iterations" THEN "exhausted"
  ELSE IF ~run.success \/ run.exit = "failed" THEN "error"
  ELSE "completed"

\* The artifacts are written whatever inner did; then its error is raised
\* again.
WriteArtifacts ==
  /\ pc = "write"
  /\ manifest' = [manifest EXCEPT !.status = Status]
  /\ Goto(IF run.failed THEN "raised" ELSE "done")
  /\ UNCHANGED <<mode, ctx, run, stopped, removal, ctrVars, watcher, samplerVars, stopEvent, late>>

Ended == pc \in {"raised", "done"}
Hung == pc = "hung"

-----------------------------------------------------------------------------
(* The coroutine that waits for the container                              *)

\* Where the main task awaits, and the event loop runs the coroutine.
Awaiting == pc \in {"session", "hung", "patch", "watcher"}

\* A container that answers inspect gets its sampler; otherwise the coroutine
\* sleeps.  Once told to stop, it starts nothing.
WatchForContainerReady ==
  /\ Awaiting
  /\ \/ /\ watcher = "stop" /\ watcher' = "done" /\ UNCHANGED thread
     \/ /\ watcher = "waiting" /\ ctx.id /\ Live
        /\ watcher' = "done" /\ thread' = "stats"
  /\ UNCHANGED <<mode, mainVars, ctrVars, io, reading, samples, stopEvent, late>>

-----------------------------------------------------------------------------
(* ContainerStatsSampler.run                                               *)

\* `stats`: an answer, or the end of the thread.  A line that cannot be
\* parsed is no sample.
SampleStats ==
  /\ thread = "stats"
  /\ \/ Live /\ thread' \in {"io", "wait"}
     \/ thread' = "ended"
  /\ UNCHANGED <<mode, mainVars, ctrVars, watcher, io, reading, samples, stopEvent, late>>

\* _ensure_io_source: the first sample decides for the thread's life.
IoMode(m) ==
  IF io.mode # "none" THEN m = io.mode
  ELSE m = "exec" \/ (m = "cgroup" /\ ctr = "running")

Total(f) ==
  LET sum[n \in 0..MaxProcs] == IF n = 0 THEN 0 ELSE sum[n - 1] + f[n]
  IN sum[MaxProcs]

\* The high-water mark of the bytes read in exec mode, which loses the bytes
\* of the processes that ended; io.stat of the cgroup keeps them.
HighWater(m, bytes) == IF m = "exec" /\ bytes < io.hwm THEN io.hwm ELSE bytes

Readings(m) ==
  {Absent} \cup (IF ctr # "running" THEN {} ELSE IF m = "cgroup" THEN {work.io} ELSE 0..work.io)

SwReadings(m) ==
  {Absent} \cup (IF ctr # "running" THEN {} ELSE IF m = "cgroup" THEN {work.sw} ELSE 0..work.sw)

\* The count sw stored under the key k.
Counted(k, sw) == [io EXCEPT !.ctxt[k] = sw, !.known = TRUE]

\* The sample, with the total of the counts when sw says so.
Sampled(b, sw, torn) ==
  samples' = Append(samples, [bytes |-> b, sw |-> IF sw THEN Total(io'.ctxt) ELSE Absent, torn |-> torn])

\* Inside the container: the bytes and one count of what runs there, both
\* kept as high-water marks, the count under one key.
SampleByExec ==
  /\ thread = "io" /\ IoMode("exec") /\ thread' = "wait"
  /\ \E bytes \in Readings("exec"), sw \in SwReadings("exec") :
       LET b == IF bytes = Absent THEN Absent ELSE HighWater("exec", bytes)
           ctxt == IF sw > io.ctxt[1] THEN sw ELSE io.ctxt[1]
       IN /\ io' = [mode |-> "exec", hwm |-> IF b > io.hwm THEN b ELSE io.hwm,
                    known |-> io.known \/ sw # Absent, ctxt |-> [io.ctxt EXCEPT ![1] = ctxt]]
          /\ Sampled(b, sw # Absent, FALSE)
  /\ UNCHANGED <<mode, mainVars, ctrVars, watcher, reading, stopEvent, late>>

\* From the cgroup: the bytes; and the start time of each process listed.
\* Nothing is counted when none is.
SampleFromCgroup ==
  /\ thread = "io" /\ IoMode("cgroup")
  /\ io' = [io EXCEPT !.mode = "cgroup"]
  /\ \E bytes \in Readings("cgroup") :
       \/ /\ thread' = "wait" /\ Sampled(bytes, FALSE, FALSE) /\ UNCHANGED reading
          /\ UNCHANGED <<mode, mainVars, ctrVars, watcher, stopEvent, late>>
       \/ /\ ctr = "running" /\ thread' = "ctxt"
          /\ reading' \in [bytes : {bytes}, start : {Absent, work.start}]
          /\ UNCHANGED <<mode, mainVars, ctrVars, watcher, samples, stopEvent, late>>

\* Then its count, another file, kept under (pid, start time), so that a
\* process that exited keeps its last count and one that reuses the pid does
\* not replace it.  The pid may have been reused between the two files.
SampleSwitches ==
  /\ thread = "ctxt" /\ thread' = "wait"
  /\ \E sw \in SwReadings("cgroup") :
       LET kept == sw # Absent /\ reading.start # Absent
       IN /\ io' = IF kept THEN Counted(reading.start, sw) ELSE io
          /\ Sampled(reading.bytes, io'.known, kept /\ reading.start # work.start)
  /\ reading' = NoReading
  /\ UNCHANGED <<mode, mainVars, ctrVars, watcher, stopEvent, late>>

\* The wait between two samples ends early when the thread is told to stop.
SamplerWaits ==
  /\ thread = "wait"
  /\ \/ stopEvent /\ thread' = "ended"
     \/ ~stopEvent /\ Len(samples) < MaxSamples /\ thread' = "stats"
  /\ UNCHANGED <<mode, mainVars, ctrVars, watcher, io, reading, samples, stopEvent, late>>

-----------------------------------------------------------------------------
(* The container                                                           *)

\* Its processes write, switch and end; another takes the pid.
ContainerWorks ==
  /\ ctr = "running"
  /\ \/ work.io < MaxIo /\ work' = [work EXCEPT !.io = @ + 1]
     \/ work.sw < MaxSwitches /\ work' = [work EXCEPT !.sw = @ + 1]
     \/ work.start < MaxProcs /\ work' = [work EXCEPT !.start = @ + 1, !.sw = 0]
  /\ UNCHANGED <<mode, mainVars, ctr, orders, watcher, samplerVars, stopEvent, late>>

\* The daemon removes a container that ended (--rm) and carries out what it
\* was asked, however late; a container can end by itself.
DaemonActs ==
  /\ \/ ctr = "exited" /\ ctr' = "gone" /\ UNCHANGED orders
     \/ "stop" \in orders /\ ctr = "running" /\ ctr' = "exited" /\ orders' = orders \ {"stop"}
     \/ "rm" \in orders /\ Live /\ ctr' = "gone" /\ orders' = orders \ {"rm"}
     \/ pc \in {"session", "hung"} /\ Docker /\ ctr = "running" /\ ctr' = "exited" /\ UNCHANGED orders
  /\ UNCHANGED <<mode, mainVars, work, watcher, samplerVars, stopEvent, late>>

-----------------------------------------------------------------------------

Main ==
  \/ Preflight \/ StartTaskContainer \/ SetupSession \/ RunSession \/ NormalizeTrace
  \/ ExtractPatch \/ ReadLogs \/ StopContainer \/ RemoveContainer \/ InspectContainer
  \/ RunTask \/ InnerEnded \/ StopSampler \/ JoinSampler \/ WriteArtifacts

Sampler ==
  \/ SampleStats \/ SampleByExec \/ SampleFromCgroup \/ SampleSwitches \/ SamplerWaits

Next ==
  \/ Main \/ SessionHangs \/ WatchForContainerReady \/ Sampler \/ ContainerWorks \/ DaemonActs
  \/ (Ended \/ Hung) /\ UNCHANGED vars

Spec == Init /\ [][Next]_vars

(* Fairness: run_attempt goes on by itself, every command it waits for has a
   timeout, unless its session hangs; the event loop runs the coroutine of a task that waits; the
   sampler's commands have timeouts too.                                   *)
FairSpec ==
  Spec /\ WF_vars(Main) /\ WF_vars(WatchForContainerReady) /\ WF_vars(Sampler)

-----------------------------------------------------------------------------
(* Properties                                                              *)

\* Once the agent's session was entered, the attempt does not end with its
\* task container left behind unless stop_task_container raised (and its
\* error was logged), whatever timed out, and however the automatic removal
\* and the `rm -f` met.  A set-up that raised before the try, and a start
\* that timed out, do leave a container.
ContainerGoneOrReported ==
  /\ stopped = "returned" => ctr = "gone"
  /\ Ended /\ run.entered /\ mode = "host_agent_docker_tools" =>
       ctr = "gone" \/ stopped = "raised"

\* No sampler thread outlives the attempt, nor is one started behind its
\* back by the coroutine, except a thread that join() gave up on.
NoOrphanSampler ==
  pc \in {"write", "done"} => thread \in {"off", "ended"} \/ late

\* The attempt ends, whatever times out, with its artifacts on disk unless it
\* failed before inner; nothing ends it once its session waits for a reply that
\* does not come.
AttemptEnds == <>(Hung \/ (Ended /\ (ctx.ready # 0 => manifest.status # "none")))

\* What the samples say of the container's bytes never falls, though a reading
\* made inside the container loses what ended, and what they say of its context
\* switches falls at a torn sample only, though processes end and pids are used
\* again: resources.json takes last minus first.
CountersMonotone ==
  \A i, j \in 1..Len(samples) : i < j =>
    /\ samples[j].bytes = Absent \/ samples[i].bytes <= samples[j].bytes
    /\ \/ samples[j].sw = Absent \/ samples[i].sw <= samples[j].sw
       \/ \E k \in i + 1..j : samples[k].torn

\* The sampler's own words (container_stats_sampler.py:1111), that exited
\* processes keep their last-known counts in the total: it never falls.  Not so,
\* see the README: a pid that is reused between the reading of its start time
\* and the reading of its count takes a count away.
ExitedKeepTheirCounts ==
  \A i, j \in 1..Len(samples) : i < j =>
    samples[j].sw = Absent \/ samples[i].sw <= samples[j].sw

\* The measurement of an attempt: one thread at a time that ends with it, and
\* counters that can be subtracted.
MeasurementSound == NoOrphanSampler /\ CountersMonotone
=============================================================================
