--------------------------- MODULE TerminalBench ---------------------------
(***************************************************************************)
(* One terminal-bench task: TerminalBenchRunner, on a worker thread, starts *)
(* the `tb` program in a process group of its own and waits for it with a  *)
(* timeout; `tb` starts the task container and runs in it the agent        *)
(* adapter (openclaw_agent), which installs this repository, runs the      *)
(* agent and keeps a deadline of its own; a signal makes the main thread   *)
(* run the same cleanup as the worker's timeout, at the same time.         *)
(*                                                                         *)
(* `tb` and the container daemon are external: `tb` creates and removes    *)
(* its container, exits with any status, and obeys SIGTERM or does not.    *)
(***************************************************************************)
EXTENDS Naturals

CONSTANTS
  HasDeadline,    \* an agent timeout is configured
  HasCompose      \* the task has a docker-compose.yaml

ASSUME TerminalBenchAssumption == HasDeadline \in BOOLEAN /\ HasCompose \in BOOLEAN

Cleaners == {"worker", "handler"}

VARIABLES
  worker,      \* where _run_openclaw_task_sync is
  clean,       \* where each _cleanup_tb_process is, or idle, or done
  registered,  \* the process is in _ACTIVE_PROCESSES
  signalled,   \* the main thread has handled a signal
  tb,          \* the process: [st, rc, sig]
  unkilled,    \* SIGKILL did not end it within the grace period
  result,      \* results.json and the trace tb left, the attempt's outcome
  container,   \* the task container: none, creating, up, gone
  lateUp,      \* the daemon finished creating it after a cleanup
  warned,      \* a cleanup command failed
  agent,       \* where perform_task is
  outcome,     \* how it ended
  fifo         \* the key's FIFO in the container; kept (history): a removal failed

tbVars == <<tb, unkilled>>
agentVars == <<agent, outcome, fifo>>
containerVars == <<container, lateUp, warned>>
taskVars == <<worker, clean, registered, signalled, tbVars, result, containerVars, agentVars>>

TbTypeOK ==
  /\ worker \in {"start", "popen", "register", "wait", "clean", "reap", "collect", "done", "raised"}
  /\ clean \in [Cleaners -> {"idle", "poll", "term", "kill", "compose", "rm", "done"}]
  /\ registered \in BOOLEAN /\ signalled \in BOOLEAN
  /\ tb \in [st : {"none", "running", "exited"}, rc : {"none", "zero", "other"},
             sig : {"none", "term", "kill"}]
  /\ result \in [resolved : BOOLEAN, trace : BOOLEAN, success : BOOLEAN, undecoded : BOOLEAN]
  /\ container \in {"none", "creating", "up", "gone"}
  /\ fifo \in [exists : BOOLEAN, stuck : BOOLEAN, kept : BOOLEAN]

TbInit ==
  /\ worker = "start" /\ clean = [c \in Cleaners |-> "idle"]
  /\ registered = FALSE /\ signalled = FALSE
  /\ tb = [st |-> "none", rc |-> "none", sig |-> "none"] /\ unkilled = FALSE
  /\ result = [resolved |-> FALSE, trace |-> FALSE, success |-> FALSE, undecoded |-> FALSE]
  /\ container = "none" /\ lateUp = FALSE /\ warned = FALSE
  /\ agent = "off" /\ outcome = "none" /\ fifo = [exists |-> FALSE, stuck |-> FALSE, kept |-> FALSE]

-----------------------------------------------------------------------------
(* The worker: _run_openclaw_task_sync and _run_tb_process                 *)

\* _preflight and _materialize_runtime_task, which copies the task without
\* its terminal recording; the command line and the environment.
Prepare ==
  /\ worker = "start" /\ worker' \in {"popen", "raised"}
  /\ UNCHANGED <<clean, registered, signalled, tbVars, result, containerVars, agentVars>>

\* Popen in a session of its own.
StartTb ==
  /\ worker = "popen"
  /\ \/ worker' = "register" /\ tb' = [tb EXCEPT !.st = "running"]
     \/ worker' = "raised" /\ UNCHANGED tb
  /\ UNCHANGED <<clean, registered, signalled, unkilled, result, containerVars, agentVars>>

\* Only now does a signal find the process.
RegisterProcess ==
  /\ worker = "register" /\ worker' = "wait" /\ registered' = TRUE
  /\ UNCHANGED <<clean, signalled, tbVars, result, containerVars, agentVars>>

\* Mutant: communicate() without a timeout.
CommunicateForever ==
  /\ worker = "wait" /\ tb.st = "exited" /\ worker' = "collect" /\ registered' = FALSE
  /\ UNCHANGED <<clean, result, signalled, tbVars, containerVars, agentVars>>

\* communicate(timeout): the end of the process; the timeout, the agent's
\* plus the tests' plus a grace, if there is one; or an error in the output's
\* decoding, which is raised again after the same cleanup.
Communicate ==
  /\ worker = "wait"
  /\ \/ tb.st = "exited" /\ worker' = "collect" /\ registered' = FALSE
        /\ UNCHANGED <<clean, result>>
     \/ /\ HasDeadline \/ tb.st = "exited"
        /\ worker' = "clean" /\ clean' = [clean EXCEPT !["worker"] = "poll"]
        /\ result' = [result EXCEPT !.undecoded = (tb.st = "exited")]
        /\ UNCHANGED registered
  /\ UNCHANGED <<signalled, tbVars, containerVars, agentVars>>

\* _communicate_after_termination, ten seconds at most, and the unregistering.
Reap ==
  /\ worker = "clean" /\ clean["worker"] = "done"
  /\ registered' = FALSE
  /\ worker' = IF result.undecoded THEN "raised" ELSE "collect"
  /\ UNCHANGED <<clean, signalled, tbVars, result, containerVars, agentVars>>

\* A status other than 0, or no results or no trace, is an error; a process
\* that is still there counts as killed.  The trace gets its metadata.
CollectResult ==
  /\ worker = "collect"
  /\ IF tb.st = "exited" /\ tb.rc = "zero" /\ result.trace
       THEN worker' = "done" /\ result' = [result EXCEPT !.success = result.resolved]
       ELSE worker' = "raised" /\ UNCHANGED result
  /\ UNCHANGED <<clean, registered, signalled, tbVars, containerVars, agentVars>>

-----------------------------------------------------------------------------
(* The main thread: _handle_process_signal                                 *)

\* The cleanup of every registered process, then the previous handler, which
\* interrupts the run; the worker's thread goes on.
HandleSignal ==
  /\ ~signalled /\ signalled' = TRUE
  /\ clean' = [clean EXCEPT !["handler"] = IF registered THEN "poll" ELSE @]
  /\ UNCHANGED <<worker, registered, tbVars, result, containerVars, agentVars>>

-----------------------------------------------------------------------------
(* _cleanup_tb_process, by the worker or by the handler                    *)

At(c, label) == clean[c] = label
Go(c, label) == clean' = [clean EXCEPT ![c] = label]

\* Mutant: the group only gets SIGTERM.
TerminateOnly(c) ==
  /\ \/ At(c, "poll") /\ Go(c, "term")
        /\ tb' = [tb EXCEPT !.sig = IF tb.st = "exited" THEN @ ELSE "term"]
     \/ At(c, "term") /\ Go(c, "compose") /\ UNCHANGED tb
  /\ UNCHANGED <<unkilled, worker, registered, signalled, result, containerVars, agentVars>>

\* poll: an exited process is left alone, its container is not.
TerminateGroup(c) ==
  /\ \/ At(c, "poll") /\ tb.st = "exited" /\ Go(c, "compose") /\ UNCHANGED tbVars
     \/ At(c, "poll") /\ tb.st = "running" /\ Go(c, "term")
        /\ tb' = [tb EXCEPT !.sig = IF @ = "kill" THEN @ ELSE "term"] /\ UNCHANGED unkilled
     \/ At(c, "term") /\ tb.st = "exited" /\ Go(c, "compose") /\ UNCHANGED tbVars
     \/ At(c, "term") /\ tb.st = "running" /\ Go(c, "kill")       \* 10 s are over
        /\ tb' = [tb EXCEPT !.sig = "kill"] /\ UNCHANGED unkilled
     \/ At(c, "kill") /\ tb.st = "exited" /\ Go(c, "compose") /\ UNCHANGED tbVars
     \/ At(c, "kill") /\ tb.st = "running" /\ Go(c, "compose")    \* 10 s more
        /\ unkilled' = TRUE /\ UNCHANGED tb
  /\ UNCHANGED <<worker, registered, signalled, result, containerVars, agentVars>>

\* A cleanup command removes a container that is up; it fails, or times out,
\* with no more than a warning, and has nothing to find in one that is still
\* being created.
RemovesContainer ==
  \/ container' = (IF container = "up" THEN "gone" ELSE container) /\ UNCHANGED warned
  \/ warned' = TRUE /\ UNCHANGED container

\* _cleanup_task_container: `compose down` when there is a compose file, then
\* `rm -f` of the container's name.
CleanupContainer(c) ==
  /\ \/ At(c, "compose") /\ Go(c, "rm")
        /\ IF HasCompose THEN RemovesContainer ELSE UNCHANGED <<container, warned>>
     \/ At(c, "rm") /\ Go(c, "done") /\ RemovesContainer
  /\ UNCHANGED <<worker, registered, signalled, tbVars, result, lateUp, agentVars>>

-----------------------------------------------------------------------------
(* tb and the daemon (external)                                            *)

Cleaned == \E c \in Cleaners : clean[c] = "done"

\* tb asks for the container, runs the agent in it, tests, writes its results
\* and removes the container.
TbRuns ==
  /\ tb.st = "running"
  /\ \/ container = "none" /\ container' = "creating" /\ UNCHANGED <<agent, result, lateUp>>
     \/ container = "up" /\ agent = "off" /\ agent' = "bootstrap"
        /\ UNCHANGED <<container, result, lateUp>>
     \/ /\ agent = "ended" /\ \E resolved, trace \in BOOLEAN :
             result' = [result EXCEPT !.resolved = resolved, !.trace = trace]
        /\ UNCHANGED <<container, agent, lateUp>>
     \/ agent = "ended" /\ container = "up" /\ container' = "gone"
        /\ UNCHANGED <<agent, result, lateUp>>
  /\ UNCHANGED <<worker, clean, registered, signalled, tbVars, warned, outcome, fifo>>

\* The daemon finishes the container even when tb is gone.
DaemonCreates ==
  /\ container = "creating" /\ container' = "up"
  /\ lateUp' = (lateUp \/ Cleaned \/ \E c \in Cleaners : clean[c] = "rm")
  /\ UNCHANGED <<worker, clean, registered, signalled, tbVars, result, warned, agentVars>>

\* tb exits when it is done or when a signal or an error ends it, whatever its
\* container does; the adapter is part of it.
TbExits ==
  /\ tb.st = "running"
  /\ \E rc \in {"zero", "other"} :
       /\ rc = "zero" => tb.sig # "kill"
       /\ tb' = [tb EXCEPT !.st = "exited", !.rc = rc]
  /\ agent' = IF agent = "off" THEN agent ELSE "ended"
  /\ UNCHANGED <<worker, clean, registered, signalled, unkilled, result, containerVars, outcome, fifo>>

-----------------------------------------------------------------------------
(* The adapter: TerminalBenchOpenClawAgent.perform_task                    *)

AgentGo(label) == agent' = label /\ UNCHANGED <<outcome, fifo>>
AgentEnds(how) == agent' = "ended" /\ outcome' = how

\* Every step of perform_task works against one deadline; the FIFO may be there
\* when the time for making it is over.
AgentTimesOut ==
  /\ HasDeadline /\ agent \in {"bootstrap", "copy", "install", "fifo", "writer", "command", "rmfifo"}
  /\ agent' = "cleanup" /\ UNCHANGED outcome
  /\ fifo' \in {fifo, [fifo EXCEPT !.exists = @ \/ agent = "fifo"]}

\* Every step runs something in the container, and what it raises that is no
\* TimeoutError leaves without a cleanup; so does a cleanup that cannot write
\* its marker.
AgentRaises == agent \notin {"off", "ended"} /\ AgentEnds("raised") /\ UNCHANGED fifo

\* The bootstrap of python in the container, the copy of the wheel, and the
\* installation: a failure is reported as such.
InstallAgent ==
  \/ agent = "bootstrap" /\ (AgentGo("copy") \/ (AgentEnds("installation_failed") /\ UNCHANGED fifo))
  \/ agent = "copy" /\ AgentGo("install")
  \/ agent = "install" /\ (AgentGo("fifo") \/ (AgentEnds("installation_failed") /\ UNCHANGED fifo))

\* A removal of the FIFO whose error nobody looks at.
RemovesFifo ==
  fifo' \in {[fifo EXCEPT !.exists = FALSE], [fifo EXCEPT !.kept = TRUE]}

\* The FIFO is made anew, its writer is started detached and blocks until the
\* agent's command reads the key; the command is waited for; the FIFO is
\* removed.
RunAgent ==
  \/ /\ agent = "fifo" /\ agent' = "writer" /\ UNCHANGED outcome
     /\ fifo' = [fifo EXCEPT !.exists = TRUE]
  \/ /\ agent = "writer" /\ agent' = "command" /\ UNCHANGED outcome
     /\ fifo' = [fifo EXCEPT !.stuck = TRUE]
  \/ /\ agent = "command" /\ agent' = "rmfifo" /\ UNCHANGED outcome
     /\ fifo' = [fifo EXCEPT !.stuck = FALSE]
  \/ agent = "rmfifo" /\ AgentEnds("ok") /\ RemovesFifo

\* _cleanup_timed_out_session: the marker, the interrupt, and a script that
\* ends the agent's processes and removes the FIFO, in a container that may not
\* answer.
CleanupTimedOut == agent = "cleanup" /\ AgentEnds("timeout") /\ RemovesFifo

Agent ==
  /\ tb.st = "running"
  /\ AgentTimesOut \/ CleanupTimedOut \/ AgentRaises
        \/ (container = "up" /\ (InstallAgent \/ RunAgent))
  /\ UNCHANGED <<worker, clean, registered, signalled, tbVars, result, containerVars>>

-----------------------------------------------------------------------------

Worker == Prepare \/ StartTb \/ RegisterProcess \/ Communicate \/ Reap \/ CollectResult
Cleanup == \E c \in Cleaners : TerminateGroup(c) \/ CleanupContainer(c)
WorkerEnded == worker \in {"done", "raised"}

TbNext ==
  \/ Worker \/ HandleSignal \/ Cleanup
  \/ TbRuns \/ DaemonCreates \/ TbExits \/ Agent
  \/ WorkerEnded /\ UNCHANGED taskVars

TbSpec == TbInit /\ [][TbNext]_taskVars

(* Fairness: the worker and both cleanups go on by themselves.  Nothing is
   assumed of tb.                                                          *)
TbFairSpec ==
  /\ TbSpec /\ WF_taskVars(Worker)
  /\ \A c \in Cleaners : WF_taskVars(TerminateGroup(c) \/ CleanupContainer(c))

-----------------------------------------------------------------------------
(* Properties                                                              *)

\* When the worker is done, however it got there and whoever killed what, tb
\* is not running, unless even SIGKILL did not end it in time.
NoProcessLeft == WorkerEnded => tb.st # "running" \/ unkilled

\* After a cleanup the task container is not up, unless one of the cleanup's
\* commands failed, tb survived SIGKILL, or the daemon was still creating it.
CleanedOrWarned ==
  Cleaned => container # "up" \/ warned \/ unkilled \/ lateUp

\* A task with an agent timeout ends, whatever tb does.
RunEnds == HasDeadline => <>WorkerEnded

\* The end is reached, and a cleanup on the way is done or says that it is not.
EndsCleaned == RunEnds /\ []CleanedOrWarned

\* The adapter does not leave the FIFO in a running container, whether the
\* agent ran or its time was over at any step, unless the removal itself failed,
\* which is not noticed.
FifoRemoved ==
  outcome \in {"ok", "timeout"} /\ container = "up" => ~fifo.exists \/ fifo.kept

\* Neither the process nor the FIFO outlives the attempt.
NothingLeft == NoProcessLeft /\ FifoRemoved
=============================================================================
