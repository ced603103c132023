----------------------------- MODULE Monitoring -----------------------------
(***************************************************************************)
(* The resource monitoring of a replay sweep (harness).                    *)
(*                                                                         *)
(* ContainerResourceRecorder is one thread that, tick after tick, lists the *)
(* running containers, keeps those the sessions registered, asks for their *)
(* statistics in one command, counts their memory accesses with perf, and  *)
(* appends one line per container to a file.  The sweep's main thread stops *)
(* it, waits for it at most a few seconds, and writes a summary from the   *)
(* file and the counters.                                                  *)
(*                                                                         *)
(* HostMemoryBandwidthCollector is a thread shared by every sampler of the *)
(* process, started by the first that asks for a reading.                  *)
(*                                                                         *)
(* Containers come and go on their own clock.  A write that fails (a full  *)
(* disk) is left out.                                                      *)
(***************************************************************************)
EXTENDS Integers, Sequences, FiniteSets

CONSTANTS
  Containers,   \* the containers of the sweep's sessions
  Foreign,      \* another container of the host
  Samplers,     \* the threads that ask for a bandwidth reading
  MaxErrors,    \* _MAX_CONTAINER_RECORDER_ERRORS
  MaxTicks,     \* bound: ticks of the recorder
  MaxCollectors \* bound: collectors that crash

ASSUME MonitoringAssumption ==
  /\ Foreign \notin Containers
  /\ MaxErrors \in Nat /\ MaxTicks \in Nat /\ MaxCollectors \in Nat

VARIABLES
  born,        \* the containers that were started
  up,          \* the containers that run
  targets,     \* _target_container_ids
  recorderStop, \* the recorder's _stop_event
  recorder,    \* where the recorder is
  listed,      \* the containers of this tick
  got,         \* the samples of this tick not yet written
  counters,    \* [ticks, empty, errors, dropped]
  access,      \* the perf backend: [backend, reason], and perf's last run
  file,        \* the lines written: [tick, id]
  summary,     \* the summary file, or none
  collector,   \* the shared collector: [gen, alive, latest]
  asking       \* the samplers inside get_host_memory_bandwidth_collector

recVars == <<recorder, listed, got, counters, access, file>>
hostVars == <<collector, asking>>
targetVars == <<born, up, targets>>
monitorVars == <<targetVars, recorderStop, recVars, summary, hostVars>>

NoSummary == [written |-> FALSE]

\* perf's failures after which the recorder does not try again.
Terminal == {"pmu_unsupported", "perf_timeout"}

MonitorTypeOK ==
  /\ born \subseteq Containers /\ up \subseteq Containers \cup {Foreign} /\ targets \subseteq Containers
  /\ recorder \in {"tick", "list", "select", "stats", "access", "write", "wait", "ended"}
  /\ listed \subseteq Containers \cup {Foreign} /\ got \subseteq listed
  /\ counters \in [ticks : Nat, empty : Nat, errors : Nat, dropped : Nat]
  /\ access.reason \in Terminal \cup {"none"}

MonitorInit ==
  /\ born = {} /\ up = {Foreign} /\ targets = {} /\ recorderStop = FALSE
  /\ recorder = "tick" /\ listed = {} /\ got = {}
  /\ counters = [ticks |-> 0, empty |-> 0, errors |-> 0, dropped |-> 0]
  /\ access = [backend |-> FALSE, reason |-> "none", runs |-> 0]
  /\ file = <<>> /\ summary = NoSummary
  /\ collector = [gen |-> 0, alive |-> {}, latest |-> "initializing"]
  /\ asking = {}

-----------------------------------------------------------------------------
(* The sessions                                                            *)

\* A container is registered once it runs and unregistered once it stopped.
StartContainer(c) ==
  /\ c \notin born
  /\ born' = born \cup {c} /\ up' = up \cup {c}
  /\ UNCHANGED <<targets, recorderStop, recVars, summary, hostVars>>

RegisterContainer(c) ==
  /\ c \in up /\ targets' = targets \cup {c}
  /\ UNCHANGED <<born, up, recorderStop, recVars, summary, hostVars>>

ContainerStops(c) ==
  /\ c \in up /\ up' = up \ {c}
  /\ UNCHANGED <<born, targets, recorderStop, recVars, summary, hostVars>>

UnregisterContainer(c) ==
  /\ c \in targets \ up /\ targets' = targets \ {c}
  /\ UNCHANGED <<born, up, recorderStop, recVars, summary, hostVars>>

-----------------------------------------------------------------------------
(* ContainerResourceRecorder.run                                           *)

RecUnchanged == UNCHANGED <<targetVars, recorderStop, summary, hostVars>>

BeginTick ==
  /\ recorder = "tick"
  /\ IF recorderStop THEN recorder' = "ended" /\ UNCHANGED counters
     ELSE /\ counters.ticks < MaxTicks
          /\ counters' = [counters EXCEPT !.ticks = @ + 1]
          /\ recorder' = "list"
  /\ UNCHANGED <<listed, got, access, file>> /\ RecUnchanged

\* _record_error: beyond the cap errors are only counted.
RecordError(k) ==
  IF k.errors < MaxErrors THEN [k EXCEPT !.errors = @ + 1] ELSE [k EXCEPT !.dropped = @ + 1]

TickFails == recorder' = "wait" /\ counters' = RecordError(counters)

TickEmpty == recorder' = "wait" /\ counters' = [counters EXCEPT !.empty = @ + 1]

\* _list_running_containers.
ListContainers ==
  /\ recorder = "list"
  /\ \/ recorder' = "select" /\ listed' = up /\ UNCHANGED counters
     \/ TickFails /\ UNCHANGED listed
  /\ UNCHANGED <<got, access, file>> /\ RecUnchanged

\* _select_target_containers: what the sessions registered, read under the
\* lock, after the listing; nothing to sample is an empty tick.
Selected == listed \cap targets

SelectTargets ==
  /\ recorder = "select"
  /\ listed' = Selected
  /\ IF listed' = {} THEN TickEmpty ELSE recorder' = "stats" /\ UNCHANGED counters
  /\ UNCHANGED <<got, access, file>> /\ RecUnchanged

\* One `stats` for all of them: it fails when one is gone, and the tick is
\* empty for the others too; any other failure, and a timeout, is an error.
ReadStats ==
  /\ recorder = "stats"
  /\ \/ listed \subseteq up /\ got' = listed /\ recorder' = "access" /\ UNCHANGED counters
     \/ ~(listed \subseteq up) /\ TickEmpty /\ UNCHANGED got
     \/ TickFails /\ UNCHANGED got
  /\ UNCHANGED <<listed, access, file>> /\ RecUnchanged

\* _ensure_memory_access_backend and sample_cgroup_memory_access_once: the
\* backend is looked for once; perf counts, does not count, or fails, and a
\* terminal failure is the last run.
AccessSteps ==
  IF access.reason \in Terminal THEN {access}
  ELSE IF ~access.backend
    THEN {[access EXCEPT !.reason = "pmu_unsupported"], [access EXCEPT !.backend = TRUE],
          [access EXCEPT !.backend = TRUE, !.runs = 1 - @]}
  ELSE {[access EXCEPT !.runs = 1 - @], [access EXCEPT !.runs = 1 - @, !.reason = "perf_timeout"],
        access}                                             \* no cgroup resolved

SampleAccess ==
  /\ recorder = "access" /\ recorder' = "write"
  /\ access' \in AccessSteps
  /\ UNCHANGED <<listed, got, counters, file>> /\ RecUnchanged

\* One line per container, then the flush.
WriteLine ==
  /\ recorder = "write"
  /\ IF got = {} THEN recorder' = "wait" /\ UNCHANGED <<got, file>>
     ELSE /\ \E c \in got :
               file' = Append(file, [tick |-> counters.ticks, id |-> c]) /\ got' = got \ {c}
          /\ UNCHANGED recorder
  /\ UNCHANGED <<listed, counters, access>> /\ RecUnchanged

\* The wait for the rest of the interval ends early when stopped.
WaitTick ==
  /\ recorder = "wait" /\ recorder' = (IF recorderStop THEN "ended" ELSE "tick")
  /\ UNCHANGED <<listed, got, counters, access, file>> /\ RecUnchanged

Recorder ==
  \/ BeginTick \/ ListContainers \/ SelectTargets \/ ReadStats
  \/ SampleAccess \/ WriteLine \/ WaitTick

-----------------------------------------------------------------------------
(* ContainerResourceRecorder.stop                                          *)

StopRecorder ==
  /\ ~recorderStop /\ recorderStop' = TRUE
  /\ UNCHANGED <<targetVars, recVars, summary, hostVars>>

\* get_summary: the file as it is now and the counters.  A line still being
\* written is an error of the reading.
SummaryOf(complete, k) ==
  [written |-> TRUE, complete |-> complete, count |-> Len(file), k |-> k]

\* Mutant: the summary claims a complete stop whatever join() did.
WriteSummaryAtOnce ==
  /\ recorderStop /\ ~summary.written
  /\ summary' = SummaryOf(TRUE, counters)
  /\ UNCHANGED <<targetVars, recorderStop, recVars, hostVars>>

\* The join ends with the thread, or after its timeout while the thread is
\* inside a command; then the summary says so and counts an error.
WriteSummary ==
  /\ recorderStop /\ ~summary.written
  /\ \/ recorder = "ended" /\ summary' = SummaryOf(TRUE, counters) /\ UNCHANGED counters
     \/ /\ recorder \in {"list", "stats", "access", "write"}
        /\ counters' = RecordError(counters)
        /\ summary' = SummaryOf(FALSE, counters')
  /\ UNCHANGED <<targetVars, recorderStop, recorder, listed, got, access, file, hostVars>>

-----------------------------------------------------------------------------
(* The shared collector of the host's memory bandwidth                     *)

\* A sampler asks for the collector; what follows happens under the lock.
AskReading(s) ==
  /\ s \notin asking /\ asking' = asking \cup {s}
  /\ UNCHANGED <<targetVars, recorderStop, recVars, summary, collector>>

NewCollector ==
  [gen |-> collector.gen + 1, alive |-> collector.alive \cup {collector.gen + 1},
   latest |-> "initializing"]

\* Mutant: a collector that has not read anything yet is taken for one that
\* ended.
GetFreshCollector(s) ==
  /\ s \in asking /\ asking' = asking \ {s}
  /\ collector' = IF collector.latest = "initializing" THEN NewCollector ELSE collector
  /\ UNCHANGED <<targetVars, recorderStop, recVars, summary>>

\* get_host_memory_bandwidth_collector: the first starts it; one that ended is
\* kept when its last reading was good or its failure is terminal, and
\* replaced otherwise.
GetCollector(s) ==
  /\ s \in asking /\ asking' = asking \ {s}
  /\ collector' =
       IF collector.gen = 0 THEN NewCollector
       ELSE IF collector.gen \notin collector.alive /\ collector.latest = "initializing"
         THEN NewCollector
       ELSE collector
  /\ UNCHANGED <<targetVars, recorderStop, recVars, summary>>

\* The collector reads, ends on a terminal failure, or is ended by an error
\* that nothing catches.
CollectorReads(g) ==
  /\ g \in collector.alive
  /\ \/ collector' = [collector EXCEPT !.latest = IF g = collector.gen THEN "value" ELSE @]
     \/ collector' = [collector EXCEPT !.alive = @ \ {g},
                        !.latest = IF g = collector.gen THEN "terminal" ELSE @]
     \/ collector.gen <= MaxCollectors /\ collector' = [collector EXCEPT !.alive = @ \ {g}]
  /\ UNCHANGED <<targetVars, recorderStop, recVars, summary, asking>>

-----------------------------------------------------------------------------

MonitorNext ==
  \/ \E c \in Containers :
       StartContainer(c) \/ RegisterContainer(c) \/ ContainerStops(c) \/ UnregisterContainer(c)
  \/ Recorder \/ StopRecorder \/ WriteSummary
  \/ \E s \in Samplers : AskReading(s) \/ GetCollector(s)
  \/ \E g \in 1..(MaxCollectors + 1) : CollectorReads(g)

MonitorSpec == MonitorInit /\ [][MonitorNext]_monitorVars

-----------------------------------------------------------------------------
(* Properties                                                              *)

WrittenTicks == {file[i].tick : i \in 1..Len(file)}

\* A summary that claims a complete stop counts every line of the file as it
\* stays, and accounts for every tick once: it wrote lines, was empty, or was
\* an error, kept or only counted.  Otherwise it says that it is incomplete.
SummaryAccounts ==
  summary.written /\ summary.complete =>
    /\ summary.count = Len(file)
    /\ summary.k.ticks = summary.k.empty + summary.k.errors + summary.k.dropped
                           + Cardinality(WrittenTicks)

\* However many samplers ask at once, one collector runs.
OneCollector == Cardinality(collector.alive) <= 1

\* No line is about a container that no session of the sweep registered, and
\* no tick has two lines for one container.
OnlyRegisteredSampled ==
  /\ \A i \in 1..Len(file) : file[i].id \in Containers
  /\ \A i, j \in 1..Len(file) : i # j => file[i] # file[j]

\* What the sweep's recorder leaves behind: lines about registered containers,
\* once each, that its summary accounts for.
SweepAccounted == SummaryAccounts /\ OnlyRegisteredSampled
=============================================================================
