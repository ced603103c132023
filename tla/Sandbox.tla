------------------------------- MODULE Sandbox -------------------------------
(***************************************************************************)
(* The Docker sandbox of one replayed session: DockerBackend               *)
(* (agents/sandbox_runtime.py), which owns a fixed image and a container,  *)
(* and ContainerAgent (trace_collect/openclaw_tools.py), the client of a   *)
(* process inside the container.  The client writes one JSON line per      *)
(* request to the process and reads its answer from a pipe; a timeout or a *)
(* crash restarts the process, and requests that change nothing are sent   *)
(* once more.                                                              *)
(*                                                                         *)
(* The client is a `docker exec` process.  Killing it closes the pipes;    *)
(* the process inside the container may go on with the request it has      *)
(* (`zombies`), until the container itself is stopped.                     *)
(***************************************************************************)
EXTENDS Integers, Sequences, FiniteSets, SequencesExt

CONSTANTS
    Tools,       \* the tools of the trace, among exec, commands, read_file, ...
    Candidates,  \* number of Python interpreters probed in the container
    SkipLimit,   \* lines of stray output that are skipped (50 in the code)
    MaxStray,    \* bound: stray lines that a new process prints first
    MaxCalls,    \* bound: requests of the session
    MaxFaults    \* bound: failures, timeouts, crashes and cancellations

Idempotent == {"read_file", "list_dir"}

VARIABLES
    pc,       \* where the backend is in start() and stop()
    fixed,    \* _fixed_image: none, own (removed at the end) or prebuilt
    image,    \* the session's own fixed image exists on the host
    cid,      \* _container_id is set
    up,       \* the container runs
    known,    \* history: the container's id was known
    failing,  \* start() raised: _cleanup_failed_start runs
    err,      \* stop(): an error is kept for the end
    client,   \* ContainerAgent._process: none, alive or exited
    probe,    \* the interpreter that is probed, 0 outside of _probe_python
    leaked,   \* an exec process that could not be reaped is left behind
    inbox,    \* requests the process in the container has not served
    outbox,   \* lines in the pipe: the id of the request answered, or noise
    zombies,  \* requests held by processes that lost their client
    call,     \* the request execute() works on
    reply,    \* what its caller got
    behind,   \* history: a call gave up on this process while it skipped, or
              \* the process printed a line that could be an answer
    succeeded,\* history: requests that change something and were answered
    faults

vars == <<pc, fixed, image, cid, up, known, failing, err, client, probe, leaked,
          inbox, outbox, zombies, call, reply, behind, succeeded, faults>>
host == <<fixed, image, cid, up, known, failing, err>>
pipes == <<inbox, outbox, zombies, behind>>

(* What sitecustomize and the like may print to the pipe: a line that is    *)
(* skipped, one that begins as an answer does and is no JSON, and one that  *)
(* is JSON.                                                                *)
Stray == 0
Garbled == -1
Foreign == -2
Noise == {Stray, Garbled, Foreign}
NoReply == [kind |-> "none", of |-> 0]
NoCall == [id |-> 0, tool |-> "none", attempt |-> 0, pc |-> "idle",
           skips |-> 0, why |-> "none", sent |-> 0, done |-> 0]
Ids == 1..MaxCalls

TypeOK ==
    /\ pc \in {"image", "container", "apt", "agent", "ready", "stopAgent",
               "stopContainer", "stopImage", "down", "failed"}
    /\ fixed \in {"none", "own", "prebuilt"}
    /\ client \in {"none", "alive", "exited"}
    /\ probe \in 0..Candidates
    /\ {image, cid, up, known, failing, err, leaked, behind} \subseteq BOOLEAN
    /\ Range(inbox) \subseteq Ids
    /\ Range(outbox) \subseteq Ids \cup Noise
    /\ zombies \subseteq Ids
    /\ succeeded \subseteq Ids
    /\ call.sent \in 0..2
    /\ faults \in 0..MaxFaults

Init ==
    /\ pc = "image"
    /\ fixed = "none" /\ image = FALSE
    /\ cid = FALSE /\ up = FALSE /\ known = FALSE /\ failing = FALSE /\ err = FALSE
    /\ client = "none" /\ probe = 0 /\ leaked = FALSE
    /\ inbox = <<>> /\ outbox = <<>> /\ zombies = {}
    /\ call = NoCall /\ reply = NoReply
    /\ behind = FALSE /\ succeeded = {}
    /\ faults = 0

Fault == faults < MaxFaults /\ faults' = faults + 1

-----------------------------------------------------------------------------
(* DockerBackend.start() *)

(* An exception or a cancellation of start() goes to _cleanup_failed_start. *)
Unwind == pc' = "stopAgent" /\ failing' = TRUE

(* A fixed image that the sweep built before is used and kept.             *)
EnsureFixedImage ==
    /\ pc = "image"
    /\ \/ fixed' = "prebuilt" /\ UNCHANGED image
       \/ fixed' = "own" /\ image' = TRUE
    /\ pc' = "container"
    /\ UNCHANGED <<cid, up, known, failing, err, client, probe, leaked, pipes, call,
                   reply, succeeded, faults>>

(* The build fails; or start() is cancelled while the thread builds, and   *)
(* the thread is not: the image may appear although nobody knows of it.    *)
ImageFails ==
    /\ pc = "image" /\ Fault
    /\ image' \in BOOLEAN
    /\ Unwind
    /\ UNCHANGED <<fixed, cid, up, known, err, client, probe, leaked, pipes, call,
                   reply, succeeded>>

StartContainer ==
    /\ pc = "container"
    /\ cid' = TRUE /\ up' = TRUE /\ known' = TRUE
    /\ pc' = "apt"
    /\ UNCHANGED <<fixed, image, failing, err, client, probe, leaked, pipes, call,
                   reply, succeeded, faults>>

(* `docker run` fails, or start() is cancelled while the thread runs it.  *)
ContainerFails ==
    /\ pc = "container" /\ Fault
    /\ up' \in BOOLEAN
    /\ Unwind
    /\ UNCHANGED <<fixed, image, cid, known, err, client, probe, leaked, pipes, call,
                   reply, succeeded>>

(* The script in the container raises: for a URL it refuses, a distribution*)
(* without a codename, or when it fails or is out of time.  The container   *)
(* is not used with half a configuration.                                  *)
AptMirrorRaises ==
    /\ pc = "apt"
    /\ Fault /\ Unwind
    /\ UNCHANGED <<fixed, image, cid, up, known, err, client, probe, leaked, pipes, call, reply,
                   succeeded>>

(* The mirror is configured or skipped; then ContainerAgent.start.         *)
ConfigureAptMirror ==
    /\ pc = "apt"
    /\ pc' = "agent" /\ probe' = 1
    /\ UNCHANGED <<fixed, image, cid, up, known, failing, err, client, leaked, pipes, call,
                   reply, succeeded, faults>>

-----------------------------------------------------------------------------
(* ContainerAgent: stop(), _probe_python(), start() *)

(* stdin is closed: a process that waits for a request ends, a busy one is *)
(* killed after the grace period, and what runs inside the container may   *)
(* go on.  `_process` is cleared first, in every case.                     *)
ClientEnds ==
    /\ client' = "none" /\ outbox' = <<>> /\ inbox' = <<>> /\ behind' = FALSE
    /\ zombies' \in {zombies, zombies \cup Range(inbox)}
    /\ UNCHANGED <<leaked, faults>>

(* A process that survives the kill makes stop() raise.                    *)
ClientSurvives ==
    /\ client = "alive" /\ Fault
    /\ client' = "none" /\ leaked' = TRUE
    /\ outbox' = <<>> /\ inbox' = <<>> /\ behind' = FALSE
    /\ zombies' = zombies \cup Range(inbox)

(* What execute() does with the result of a restart. *)
Finished(kind) ==
    /\ call' = [call EXCEPT !.pc = "idle"]
    /\ reply' = [kind |-> kind, of |-> call.id]

\* Mutant: every tool is sent once more.
RetryEverything ==
    IF call.why = "dead" THEN
        call' = [call EXCEPT !.pc = "write"] /\ UNCHANGED reply
    ELSE IF call.attempt = 0 THEN
        call' = [call EXCEPT !.pc = "begin", !.attempt = 1] /\ UNCHANGED reply
    ELSE Finished("restart failed")

AfterRestart ==
    IF call.why = "dead" THEN
        call' = [call EXCEPT !.pc = "write"] /\ UNCHANGED reply
    ELSE IF call.tool \notin Idempotent THEN Finished(call.why)
    ELSE IF call.attempt = 0 THEN
        call' = [call EXCEPT !.pc = "begin", !.attempt = 1] /\ UNCHANGED reply
    ELSE Finished("restart failed")

(* start() of the agent raised: start() of the backend unwinds, execute()  *)
(* hands the exception to its caller.                                      *)
StartRaises ==
    /\ probe' = 0
    /\ IF pc = "agent" THEN Unwind /\ UNCHANGED <<call, reply>>
       ELSE Finished("raised") /\ UNCHANGED <<pc, failing>>

(* The candidate works: the agent process is spawned and may print noise   *)
(* to the pipe before its first answer.                                    *)
PythonFound ==
    /\ probe > 0
    /\ probe' = 0
    /\ client' = "alive"
    /\ \E n \in 0..MaxStray : outbox' \in [1..n -> Noise]
    /\ behind' = \E i \in DOMAIN outbox' : outbox'[i] # Stray
    /\ IF pc = "agent" THEN pc' = "ready" /\ UNCHANGED <<call, reply>>
       ELSE AfterRestart /\ UNCHANGED pc
    /\ UNCHANGED <<host, leaked, inbox, zombies, succeeded, faults>>

(* The candidate is too old, missing, or timed out, was killed and reaped. *)
PythonRejected ==
    /\ probe > 0 /\ Fault
    /\ IF probe < Candidates
       THEN probe' = probe + 1 /\ UNCHANGED <<pc, failing, call, reply>>
       ELSE StartRaises
    /\ UNCHANGED <<fixed, image, cid, up, known, err, client, leaked, pipes, succeeded>>

(* The probe cannot be executed or is cancelled; or it timed out and could *)
(* not be killed or reaped: start() raises instead of probing the next.    *)
ProbeRaises ==
    /\ probe > 0 /\ Fault
    /\ StartRaises
    /\ leaked' \in {leaked, TRUE}
    /\ UNCHANGED <<fixed, image, cid, up, known, err, client, pipes, succeeded>>

-----------------------------------------------------------------------------
(* ContainerAgent.execute() *)

Execute(t) ==
    /\ pc = "ready" /\ call.pc = "idle" /\ call.id < MaxCalls
    /\ call' = [NoCall EXCEPT !.id = call.id + 1, !.tool = t, !.pc = "begin"]
    /\ reply' = NoReply
    /\ UNCHANGED <<pc, host, client, probe, leaked, pipes, succeeded, faults>>

(* The check of `alive`: the first attempt restarts, the second gives up. *)
CheckAlive ==
    /\ call.pc = "begin"
    /\ IF client = "alive" THEN
           call' = [call EXCEPT !.pc = "write"] /\ UNCHANGED reply
       ELSE IF call.attempt = 0 THEN
           call' = [call EXCEPT !.pc = "restart", !.why = "dead"]
           /\ UNCHANGED reply
       ELSE Finished("agent dead")
    /\ UNCHANGED <<pc, host, client, probe, leaked, pipes, succeeded, faults>>

(* The request is written; a process that has gone breaks the pipe, at the *)
(* write or only at the read.                                              *)
WriteRequest ==
    /\ call.pc = "write"
    /\ \/ /\ client = "alive"
          /\ inbox' = Append(inbox, call.id)
          /\ call' = [call EXCEPT !.pc = "wait", !.sent = @ + 1]
       \/ /\ client = "exited"
          /\ \/ call' = [call EXCEPT !.pc = "restart", !.why = "timeout"]
             \/ call' = [call EXCEPT !.pc = "wait"]
          /\ UNCHANGED inbox
    /\ UNCHANGED <<pc, host, client, probe, leaked, outbox, zombies, behind,
                   reply, succeeded, faults>>

(* json.loads of a line that begins as an answer does, whatever request it *)
(* answers.  When it fails the call is over and the process is kept.       *)
Take(line) ==
    /\ call' = [call EXCEPT !.pc = "idle"]
    /\ reply' = [kind |-> IF line = Garbled THEN "invalid" ELSE "answer", of |-> line]
    /\ succeeded' = IF line = call.id /\ call.tool \notin Idempotent
                    THEN succeeded \cup {line} ELSE succeeded

ReadAnswer ==
    /\ call.pc = "wait" /\ outbox # <<>> /\ Head(outbox) # Stray
    /\ Take(Head(outbox))
    /\ outbox' = Tail(outbox)
    /\ UNCHANGED <<pc, host, client, probe, leaked, inbox, zombies, behind, faults>>

ReadStray ==
    /\ call.pc = "wait" /\ outbox # <<>> /\ Head(outbox) = Stray
    /\ call' = [call EXCEPT !.pc = "skip"]
    /\ outbox' = Tail(outbox)
    /\ UNCHANGED <<pc, host, client, probe, leaked, inbox, zombies, behind, reply,
                   succeeded, faults>>

\* Mutant: a timeout keeps the process and its pipe.
GiveUpWithoutRestart ==
    /\ call.pc = "wait" /\ outbox = <<>>
    /\ \/ client = "alive" /\ Fault /\ Finished("timeout")
       \/ client = "exited" /\ UNCHANGED <<faults, reply>>
          /\ call' = [call EXCEPT !.pc = "restart", !.why = "crashed"]
    /\ UNCHANGED <<pc, host, client, probe, leaked, pipes, succeeded>>

(* Nothing arrives in time (the handler hangs), or EOF: restart.          *)
GiveUpWaiting ==
    /\ call.pc = "wait" /\ outbox = <<>>
    /\ \/ client = "alive" /\ Fault
          /\ call' = [call EXCEPT !.pc = "restart", !.why = "timeout"]
       \/ client = "exited" /\ UNCHANGED faults
          /\ call' = [call EXCEPT !.pc = "restart", !.why = "crashed"]
    /\ UNCHANGED <<pc, host, client, probe, leaked, pipes, reply, succeeded>>

\* Mutant: the rounds are not counted at EOF.
SkipForever ==
    /\ call.pc = "skip" /\ (outbox # <<>> \/ client = "exited")
    /\ outbox' = IF outbox = <<>> THEN outbox ELSE Tail(outbox)
    /\ IF outbox # <<>> /\ Head(outbox) # Stray THEN Take(Head(outbox))
       ELSE UNCHANGED <<call, reply, succeeded>>
    /\ UNCHANGED <<pc, host, client, probe, leaked, inbox, zombies, behind, faults>>

(* The loop over stray lines reads on; the line of its last round is not   *)
(* looked at, and EOF is read as one more line that is not JSON. A process  *)
(* that is given up after it is not restarted: its answer still comes.     *)
SkipOn ==
    /\ call.pc = "skip" /\ (outbox # <<>> \/ client = "exited")
    /\ outbox' = IF outbox = <<>> THEN outbox ELSE Tail(outbox)
    /\ IF call.skips + 1 = SkipLimit THEN
           /\ Finished("no JSON")
           /\ behind' = (behind \/ (outbox # <<>> /\ Head(outbox) = Stray))
           /\ UNCHANGED succeeded
       ELSE /\ IF outbox # <<>> /\ Head(outbox) # Stray THEN Take(Head(outbox))
               ELSE /\ call' = [call EXCEPT !.skips = @ + 1]
                    /\ UNCHANGED <<reply, succeeded>>
            /\ UNCHANGED behind
    /\ UNCHANGED <<pc, host, client, probe, leaked, inbox, zombies, faults>>

(* A timeout in that loop returns at once: the process is not restarted    *)
(* and its answer still comes.                                             *)
GiveUpSkipping ==
    /\ call.pc = "skip" /\ outbox = <<>> /\ client = "alive" /\ Fault
    /\ Finished("timeout")
    /\ behind' = TRUE
    /\ UNCHANGED <<pc, host, client, probe, leaked, inbox, outbox, zombies,
                   succeeded>>

(* _restart(): stop() and then start(), which probes the interpreters anew. *)
Restart ==
    /\ call.pc = "restart" /\ probe = 0
    /\ \/ ClientEnds /\ probe' = 1 /\ UNCHANGED <<call, reply>>
       \/ ClientSurvives /\ Finished("raised") /\ UNCHANGED probe
    /\ UNCHANGED <<pc, host, succeeded>>

(* The session is cancelled inside execute().                             *)
Cancel ==
    /\ call.pc \in {"wait", "skip"} /\ Fault
    /\ Finished("cancelled")
    /\ pc' = "stopAgent"
    /\ UNCHANGED <<host, client, probe, leaked, pipes, succeeded>>

-----------------------------------------------------------------------------
(* The processes inside the container *)

Served(r) == call' = IF r = call.id THEN [call EXCEPT !.done = @ + 1] ELSE call

(* One turn of the agent's loop: the handler runs, its answer is written. *)
Serve ==
    /\ client = "alive" /\ up /\ inbox # <<>>
    /\ inbox' = Tail(inbox)
    /\ outbox' = Append(outbox, Head(inbox))
    /\ Served(Head(inbox))
    /\ UNCHANGED <<pc, host, client, probe, leaked, zombies, behind, reply,
                   succeeded, faults>>

(* The process dies, before or after the effect of the request it serves. *)
Crash ==
    /\ client = "alive" /\ Fault
    /\ client' = "exited" /\ inbox' = <<>>
    /\ \/ UNCHANGED call
       \/ inbox # <<>> /\ Served(Head(inbox))
    /\ UNCHANGED <<pc, host, probe, leaked, outbox, zombies, behind, reply,
                   succeeded>>

ZombieServes(r) ==
    /\ r \in zombies /\ up
    /\ zombies' = zombies \ {r}
    /\ Served(r)
    /\ UNCHANGED <<pc, host, client, probe, leaked, inbox, outbox, behind, reply,
                   succeeded, faults>>

-----------------------------------------------------------------------------
(* DockerBackend.stop(), and _cleanup_failed_start(), which swallows the   *)
(* error of the agent's stop                                               *)

Stop ==
    /\ pc = "ready" /\ call.pc = "idle"
    /\ pc' = "stopAgent"
    /\ UNCHANGED <<host, client, probe, leaked, pipes, call, reply, succeeded, faults>>

StopAgent ==
    /\ pc = "stopAgent"
    /\ pc' = "stopContainer"
    /\ \/ ClientEnds /\ UNCHANGED err
       \/ ClientSurvives /\ err' = ~failing
    /\ UNCHANGED <<fixed, image, cid, up, known, failing, probe, call, reply, succeeded>>

(* start() raises what it raised first, stop() the first error it kept.   *)
Ended(error) == IF failing \/ error THEN "failed" ELSE "down"

(* Only a stopped container's id is forgotten, and only then the image is  *)
(* removed.  Without an id there is nothing to stop.                       *)
StopContainer ==
    /\ pc = "stopContainer"
    /\ \/ /\ cid
          /\ cid' = FALSE /\ up' = FALSE
          /\ inbox' = <<>> /\ zombies' = {}
          /\ pc' = IF fixed = "own" THEN "stopImage"
                   ELSE Ended(err)
          /\ UNCHANGED <<err, faults>>
       \/ /\ cid /\ Fault
          /\ err' = TRUE /\ pc' = "failed"
          /\ UNCHANGED <<cid, up, inbox, zombies>>
       \/ /\ ~cid
          /\ pc' = "failed"
          /\ UNCHANGED <<cid, up, err, inbox, zombies, faults>>
    /\ UNCHANGED <<fixed, image, known, failing, client, probe, leaked, outbox, behind,
                   call, reply, succeeded>>

StopImage ==
    /\ pc = "stopImage"
    /\ \/ image' = FALSE /\ UNCHANGED <<err, faults>>
       \/ Fault /\ err' = TRUE /\ UNCHANGED image
    /\ pc' = Ended(err')
    /\ UNCHANGED <<fixed, cid, up, known, failing, client, probe, leaked, pipes, call, reply,
                   succeeded>>

-----------------------------------------------------------------------------
Next ==
    \/ EnsureFixedImage \/ ImageFails
    \/ StartContainer \/ ContainerFails
    \/ ConfigureAptMirror \/ AptMirrorRaises
    \/ PythonFound \/ PythonRejected \/ ProbeRaises
    \/ \E t \in Tools : Execute(t)
    \/ CheckAlive \/ WriteRequest
    \/ ReadAnswer \/ ReadStray \/ GiveUpWaiting
    \/ SkipOn \/ GiveUpSkipping
    \/ Restart \/ Cancel
    \/ Serve \/ Crash \/ \E r \in Ids : ZombieServes(r)
    \/ Stop \/ StopAgent \/ StopContainer \/ StopImage

Spec == Init /\ [][Next]_vars

(* The agent's loop goes on; a timer fires; the coroutines run.            *)
Fairness ==
    /\ WF_vars(Serve) /\ WF_vars(CheckAlive) /\ WF_vars(WriteRequest)
    /\ WF_vars(ReadAnswer) /\ WF_vars(ReadStray) /\ WF_vars(GiveUpWaiting)
    /\ WF_vars(SkipOn) /\ WF_vars(Restart)
    /\ WF_vars(PythonFound \/ PythonRejected \/ ProbeRaises)

FairSpec == Spec /\ Fairness

-----------------------------------------------------------------------------
(* Properties *)

(* execute() returns the answer to its own request (openclaw_tools.py:850).*)
(* The exceptions: a process that printed a line of its own that begins as *)
(* an answer does, since that line is taken for one and the answer stays   *)
(* in the pipe; and a process on which an earlier call gave up while it    *)
(* skipped stray output, by a timeout or after its last round.  Neither is *)
(* restarted.  Every other way of giving up replaces the pipe, so that a   *)
(* late answer is never read.                                              *)
AnswersOwn ==
    [][/\ reply' # reply
       /\ reply'.kind \in {"answer", "invalid"}
       /\ reply'.of # call.id
       => behind]_vars

(* A request that changes the container is sent and carried out at most    *)
(* once however the process fails, one that does not at most twice; an     *)
(* answer to it means that it was carried out; and a change that was       *)
(* acknowledged is not pending any more in a pipe or in a process that     *)
(* lost its client (openclaw_tools.py:878).                                *)
CarriedOutOnce ==
    /\ call.sent <= IF call.tool \in Idempotent THEN 2 ELSE 1
    /\ call.done <= call.sent
    /\ reply.kind = "answer" /\ reply.of = call.id => call.done >= 1
    /\ succeeded \cap (Range(inbox) \cup zombies) = {}

(* A probe that could not be reaped is to be a hard failure                *)
(* (openclaw_tools.py:632): no request is served while such a process is   *)
(* left.  The replay counts the exception as one failed action and goes on.*)
NoReplayBesideLeakedProbe ==
    leaked => call.pc \notin {"wait", "skip"}

(* Every call of execute() returns, whatever the process does.            *)
CallsReturn == call.pc # "idle" ~> call.pc = "idle"

Gone == ~cid /\ ~up /\ ~image /\ client = "none" /\ zombies = {}

(* stop() that returns leaves no container, no process and no image of the *)
(* session; and a start() or a stop() that failed after the container's id *)
(* was known leaves them only when an error of the cleanup was kept.  (A   *)
(* failed start only logs that the agent's process survived its kill.)     *)
StoppedLeavesNothing ==
    /\ pc = "down" => Gone
    /\ pc = "failed" /\ known /\ ~err => Gone

(* The container has what was asked of it and nothing twice, and is gone   *)
(* with all that belongs to it when it was stopped.                        *)
ContainerAsTold == CarriedOutOnce /\ StoppedLeavesNothing
=============================================================================
