----------------------------- MODULE ReplayQueue -----------------------------
(***************************************************************************)
(* The single-process replay of `simulate --workers 1`: the bounded queue  *)
(* of src/src/trace_collect/simulator.py, _run_cloud_model_queue, with the *)
(* finalization of a session (_finalize_prepared_session) and what         *)
(* simulate() does when the queue returns or raises.                       *)
(*                                                                         *)
(* The workers are coroutines of one event loop: between two awaits a      *)
(* worker runs alone.  An action is such a stretch, or, for the finalizer,  *)
(* several that touch nothing but the session's own record.                *)
(***************************************************************************)
EXTENDS Integers, FiniteSets, Sequences

CONSTANTS
  NumSessions,    \* sessions of the manifest, queued in order
  Concurrency,    \* --concurrency
  HostSessions,   \* sessions replayed without a container
  FaultKinds      \* what may fail in the environment

(***************************************************************************)
(* prepare  a session cannot be prepared                                   *)
(* record   nor can that failure be recorded                               *)
(* replay   the replay of a session raises                                 *)
(* stop     a container cannot be stopped                                  *)
(* write    a resource sampler cannot be stopped or its file written       *)
(***************************************************************************)
AllFaults == {"prepare", "record", "replay", "stop", "write"}

Sessions == 0 .. NumSessions - 1

ASSUME ReplayQueueAssumption ==
  /\ NumSessions \in Nat \ {0}
  /\ Concurrency \in Nat \ {0}
  /\ HostSessions \subseteq Sessions
  /\ FaultKinds \subseteq AllFaults

WorkerCount == IF Concurrency < NumSessions THEN Concurrency ELSE NumSessions
Workers == 0 .. WorkerCount - 1
NoSession == NumSessions

VARIABLES
  run,         \* simulate(): "queue", "closing", then "completed" or "failed"
  queue,       \* sessions no worker has taken yet
  pc,          \* per worker: "idle", "preparing", "replaying", "finalizing",
               \* "exited" (returned) or "crashed" (raised)
  cur,         \* per worker: the session it works on
  firstError,  \* first_error is not None
  sess,        \* per session: how far it got
  box,         \* per session: its container
  registered,  \* sessions whose container the resource recorder samples
  writes,      \* per session: times its record wrote resources.json
  prepared,    \* prepared_sessions, as a set
  stats        \* per session: its entry in task_stats

vars == <<run, queue, pc, cur, firstError, sess, box, registered, writes, prepared, stats>>

Init ==
  /\ run = "queue"
  /\ queue = [i \in 1 .. NumSessions |-> i - 1]
  /\ pc = [w \in Workers |-> "idle"]
  /\ cur = [w \in Workers |-> NoSession]
  /\ firstError = FALSE
  /\ sess = [s \in Sessions |-> "queued"]
  /\ box = [s \in Sessions |-> "none"]
  /\ registered = {}
  /\ writes = [s \in Sessions |-> 0]
  /\ prepared = {}
  /\ stats = [s \in Sessions |-> "none"]

Go(w, from, to) ==
  /\ pc[w] = from
  /\ pc' = [pc EXCEPT ![w] = to]

\* The outcomes of a call that fails when the environment has fault f.
Outcomes(f) == {TRUE} \cup (IF f \in FaultKinds THEN {FALSE} ELSE {})

(***************************************************************************)
(* _finalize_prepared_session on session s.  The container reference is    *)
(* dropped before the stop, so a failed stop ("stuck") is never retried;   *)
(* the recorder forgets the container only if it did stop; the resources   *)
(* are written unless they were before.  The call raises iff a step of it  *)
(* failed.                                                                 *)
(***************************************************************************)
StopContainer(s, stopped) ==
  box' = [box EXCEPT ![s] = IF @ # "running" THEN @
                            ELSE IF stopped THEN "stopped" ELSE "stuck"]
FinalizeRaises(s, stopped, wrote) ==
  \/ box[s] = "running" /\ ~ stopped
  \/ writes[s] = 0 /\ ~ wrote

\* The resources are written once, whatever the number of samples.
WriteResources(s, wrote) == writes' = [writes EXCEPT ![s] = IF wrote /\ @ = 0 THEN 1 ELSE @]

\* Mutant: the recorder keeps sampling the container that was stopped.
FinalizeKeepsRegistered(s, stopped, wrote) ==
  /\ StopContainer(s, stopped)
  /\ WriteResources(s, wrote)
  /\ UNCHANGED registered

Finalize(s, stopped, wrote) ==
  /\ StopContainer(s, stopped)
  /\ registered' = IF box[s] = "running" /\ stopped THEN registered \ {s} ELSE registered
  /\ WriteResources(s, wrote)
-----------------------------------------------------------------------------
(* One worker.                                                             *)

Take(w) ==
  /\ ~ firstError
  /\ queue # <<>>
  /\ Go(w, "idle", "preparing")
  /\ queue' = Tail(queue)
  /\ cur' = [cur EXCEPT ![w] = Head(queue)]
  /\ sess' = [sess EXCEPT ![Head(queue)] = "preparing"]
  /\ UNCHANGED <<run, firstError, box, registered, writes, prepared, stats>>

Leave(w) ==
  /\ firstError \/ queue = <<>>
  /\ Go(w, "idle", "exited")
  /\ UNCHANGED <<run, queue, cur, firstError, sess, box, registered, writes, prepared, stats>>

\* _prepare_container_session returns; the artifacts are still to be restored.
StartContainer(w) ==
  LET s == cur[w] IN
  /\ pc[w] = "preparing"
  /\ sess[s] = "preparing"
  /\ s \notin HostSessions
  /\ box' = [box EXCEPT ![s] = "running"]
  /\ sess' = [sess EXCEPT ![s] = "up"]
  /\ UNCHANGED <<run, queue, pc, cur, firstError, registered, writes, prepared, stats>>

\* The recorder registers the container, whose sampler may still fail to start.
Register(w) ==
  LET s == cur[w] IN
  /\ pc[w] = "preparing"
  /\ sess[s] = "up"
  /\ registered' = registered \cup {s}
  /\ sess' = [sess EXCEPT ![s] = "registered"]
  /\ UNCHANGED <<run, queue, pc, cur, firstError, box, writes, prepared, stats>>

BeginReplay(w) ==
  LET s == cur[w] IN
  /\ Go(w, "preparing", "replaying")
  /\ sess[s] = IF s \in HostSessions THEN "preparing" ELSE "registered"
  /\ sess' = [sess EXCEPT ![s] = "replaying"]
  /\ UNCHANGED <<run, queue, cur, firstError, box, registered, writes, prepared, stats>>

\* The session's entry in task_stats: "prep_error" or "replayed".
Report(s, how) == stats' = [stats EXCEPT ![s] = how]

\* Mutant: a session whose preparation failed is queued once more.
PrepareFailsRequeues(w) ==
  LET s == cur[w] IN
  /\ "prepare" \in FaultKinds
  /\ Go(w, "preparing", "idle")
  /\ \E stopped \in Outcomes("stop"), wrote \in Outcomes("write") :
       Finalize(s, stopped, wrote)
  /\ queue' = Append(queue, s)
  /\ sess' = [sess EXCEPT ![s] = "queued"]
  /\ cur' = [cur EXCEPT ![w] = NoSession]
  /\ UNCHANGED <<run, firstError, prepared, stats>>

\* _prepare_replay_session finalizes what it prepared.  If that raises too, the
\* error carries no record and the worker goes on with a fresh one, which has
\* no container and nothing written.
FinalizeFailedPreparation(s) ==
  \E stopped \in Outcomes("stop"), wrote \in Outcomes("write") :
    IF FinalizeRaises(s, stopped, wrote)
    THEN /\ StopContainer(s, stopped)
         /\ registered' = IF stopped THEN registered \ {s} ELSE registered
         /\ writes' = [writes EXCEPT ![s] = 0]
    ELSE Finalize(s, stopped, wrote)

\* DockerBackend.start raised, and so did its own cleanup: a container is up
\* that no record knows; the session's resources are written without it.
StartLeavesContainer(s) ==
  /\ "stop" \in FaultKinds
  /\ sess[s] = "preparing" /\ s \notin HostSessions
  /\ box' = [box EXCEPT ![s] = "stuck"]
  /\ \E wrote \in Outcomes("write") :
       writes' = [writes EXCEPT ![s] = IF wrote THEN 1 ELSE @]
  /\ UNCHANGED registered

\* The worker records the failure and goes on with the queue.
PrepareFails(w) ==
  LET s == cur[w] IN
  /\ "prepare" \in FaultKinds
  /\ Go(w, "preparing", "idle")
  /\ FinalizeFailedPreparation(s) \/ StartLeavesContainer(s)
  /\ \E recorded \in Outcomes("record") :
       IF recorded
       THEN /\ prepared' = prepared \cup {s}
            /\ Report(s, "prep_error")
            /\ UNCHANGED firstError
       ELSE /\ firstError' = TRUE
            /\ UNCHANGED <<prepared, stats>>
  /\ sess' = [sess EXCEPT ![s] = "failed"]
  /\ cur' = [cur EXCEPT ![w] = NoSession]
  /\ UNCHANGED <<run, queue>>

EndReplay(w) ==
  LET s == cur[w] IN
  /\ Go(w, "replaying", "finalizing")
  /\ \E ok \in Outcomes("replay") :
       /\ sess' = [sess EXCEPT ![s] = IF ok THEN "replayed" ELSE "broken"]
       /\ firstError' = (firstError \/ ~ ok)
  /\ UNCHANGED <<run, queue, cur, box, registered, writes, prepared, stats>>

\* The `finally` of the worker: what _finalize_prepared_session raises leaves
\* the coroutine at once, without an entry in either list.
FinalizeSession(w) ==
  LET s == cur[w] IN
  /\ pc[w] = "finalizing"
  /\ \E stopped \in Outcomes("stop"), wrote \in Outcomes("write") :
       /\ Finalize(s, stopped, wrote)
       /\ IF FinalizeRaises(s, stopped, wrote)
          THEN /\ pc' = [pc EXCEPT ![w] = "crashed"]
               /\ UNCHANGED <<prepared, stats>>
          ELSE /\ pc' = [pc EXCEPT ![w] = "idle"]
               /\ prepared' = prepared \cup {s}
               /\ IF sess[s] = "replayed" THEN Report(s, "replayed") ELSE UNCHANGED stats
  /\ cur' = [cur EXCEPT ![w] = NoSession]
  /\ UNCHANGED <<run, queue, firstError, sess>>

-----------------------------------------------------------------------------
(* simulate().                                                             *)

\* Mutant: the queue returns as soon as one worker is out of work.
QueueOverFirst == \E w \in Workers : pc[w] \in {"exited", "crashed"}

QueueOver == \A w \in Workers : pc[w] \in {"exited", "crashed"}

\* gather is complete; the error of a worker that raised becomes first_error.
\* An error reaches simulate() without prepared_sessions: it has nothing to
\* finalize, and its sweep images are kept.
QueueRaises ==
  /\ run = "queue"
  /\ QueueOver
  /\ firstError \/ \E w \in Workers : pc[w] = "crashed"
  /\ run' = "failed"
  /\ UNCHANGED <<queue, pc, cur, firstError, sess, box, registered, writes, prepared, stats>>

QueueReturns ==
  /\ run = "queue"
  /\ QueueOver
  /\ ~ firstError
  /\ \A w \in Workers : pc[w] # "crashed"
  /\ run' = "closing"
  /\ UNCHANGED <<queue, pc, cur, firstError, sess, box, registered, writes, prepared, stats>>

\* The `finally` of simulate() finalizes every prepared session once more.
FinalizeAgain(s) ==
  /\ run = "closing"
  /\ s \in prepared
  /\ \E stopped \in Outcomes("stop"), wrote \in Outcomes("write") :
       /\ Finalize(s, stopped, wrote)
       /\ IF FinalizeRaises(s, stopped, wrote)
          THEN run' = "failed" /\ UNCHANGED prepared
          ELSE prepared' = prepared \ {s} /\ UNCHANGED run
  /\ UNCHANGED <<queue, pc, cur, firstError, sess, stats>>

Complete ==
  /\ run = "closing"
  /\ prepared = {}
  /\ run' = "completed"
  /\ UNCHANGED <<queue, pc, cur, firstError, sess, box, registered, writes, prepared, stats>>

Terminated == run \in {"completed", "failed"} /\ UNCHANGED vars
-----------------------------------------------------------------------------
WorkerStep(w) ==
  \/ Take(w) \/ Leave(w) \/ StartContainer(w) \/ Register(w) \/ BeginReplay(w)
  \/ PrepareFails(w) \/ EndReplay(w) \/ FinalizeSession(w)

SimulateStep ==
  \/ QueueRaises \/ QueueReturns \/ Complete
  \/ \E s \in Sessions : FinalizeAgain(s)

Next == (\E w \in Workers : WorkerStep(w)) \/ SimulateStep \/ Terminated

Spec == Init /\ [][Next]_vars

\* The event loop runs every coroutine that is ready.
FairSpec == Spec /\ (\A w \in Workers : WF_vars(WorkerStep(w))) /\ WF_vars(SimulateStep)
-----------------------------------------------------------------------------
(* Properties.                                                             *)

Over == run \in {"completed", "failed"}

\* The type of every variable.
TypeOK ==
  /\ run \in {"queue", "closing", "completed", "failed"}
  /\ queue \in Seq(Sessions)
  /\ pc \in [Workers -> {"idle", "preparing", "replaying", "finalizing", "exited", "crashed"}]
  /\ cur \in [Workers -> Sessions \cup {NoSession}]
  /\ firstError \in BOOLEAN
  /\ sess \in [Sessions -> {"queued", "preparing", "up", "registered", "replaying", "failed",
                            "replayed", "broken"}]
  /\ box \in [Sessions -> {"none", "running", "stopped", "stuck"}]
  /\ registered \in SUBSET Sessions
  /\ writes \in [Sessions -> 0 .. 1]
  /\ prepared \in SUBSET Sessions
  /\ stats \in [Sessions -> {"none", "prep_error", "replayed"}]

\* Although a session may be finalized three times, and its record replaced in
\* between, the recorder samples every container that is replaying, none that
\* was stopped, and none whose start is not over.
RecorderFollowsContainers ==
  /\ \A s \in registered : box[s] \in {"running", "stuck"} /\ sess[s] # "up"
  /\ \A s \in Sessions \ HostSessions : sess[s] = "replaying" => s \in registered

=============================================================================
