------------------------------- MODULE Simulate -------------------------------
(***************************************************************************)
(* The command `simulate` (src/src/trace_collect/simulator.py): it admits  *)
(* the sessions of the manifest, gives each the id its records carry,      *)
(* builds one fixed image per source image, replays with the queue of      *)
(* ReplayQueue or with the waves of ReplayWave, splits the trace by        *)
(* session, and removes the images or says which ones it leaves.           *)
(*                                                                         *)
(* The queue is composed step by step; the waves are one step, with the    *)
(* outcomes ReplayWave shows them to have.                                 *)
(***************************************************************************)
EXTENDS ReplayQueue, SequencesExt, TLC

CONSTANTS
  Images,        \* source images
  NoImage,       \* a session whose task names none
  ImageChoices,  \* what the tasks of the manifest may name: functions on Sessions
  IdChoices      \* the source agent ids of the traces: functions on Sessions

(***************************************************************************)
(* load     a manifest entry or a trace does not validate                  *)
(* pull     a source image cannot be pulled                                *)
(* build    a fixed image cannot be built                                  *)
(* waves    a worker of a wave raises                                      *)
(* lost     a worker of a wave is lost before its peers can tell           *)
(* combine  a worker's trace is missing or not JSON                        *)
(* split    the trace of a session cannot be written                       *)
(* sampler  the resource recorder cannot be stopped                        *)
(* remove   a fixed image cannot be removed                                *)
(***************************************************************************)
CommandFaults ==
  {"load", "pull", "build", "waves", "lost", "combine", "split", "sampler", "remove"}

CONSTANT Faults
ASSUME SimulateAssumption ==
  /\ NoImage \notin Images
  /\ \A f \in ImageChoices : f \in [Sessions -> Images \cup {NoImage}]
  /\ Faults \subseteq CommandFaults

VARIABLES
  stage,      \* where the command is
  scheduler,  \* bounded_queue or multi_process_workers
  image,      \* per session: the source image of its task
  source,     \* per session: source_agent_id
  ids,        \* per session: run_instance_id
  fixed,      \* per source image: its fixed image is "absent", "built", "removed"
  swept,      \* sweep_fixed_images
  named,      \* source images whose fixed image the log names as left behind
  recorder,   \* ContainerResourceRecorder: "off", "on", "stuck"
  lines,      \* the trace file of the run
  files,      \* the trace.jsonl of each session that has one
  summary     \* throughput_summary.json: the ids of its tasks

command == <<stage, scheduler, image, source, ids, fixed, swept, named, recorder,
             lines, files, summary>>
allVars == <<vars, command>>

May(f) == {TRUE} \cup (IF f \in Faults THEN {FALSE} ELSE {})

\* A record carries the session's id; "of" is the session that wrote it.
Line(s, kind) == [id |-> ids[s], kind |-> kind, of |-> s]

\* The records at some positions, in their order.
Selected(records, positions) ==
  LET kept[n \in 0 .. Len(records)] ==
        IF n = 0 THEN <<>>
        ELSE IF n \in positions THEN Append(kept[n - 1], records[n]) ELSE kept[n - 1]
  IN  kept[Len(records)]

ContainerSessions == Sessions \ HostSessions
SourceImages == {image[s] : s \in ContainerSessions}
-----------------------------------------------------------------------------
(* The sessions.                                                           *)

(***************************************************************************)
(* _assign_replay_instance_ids: a source that occurs once keeps its id; a  *)
(* replica is numbered, then also gets its manifest index, then a suffix,  *)
(* until no source and no earlier session has the id.                      *)
(***************************************************************************)
AssignIds(src) ==
  LET reserved == {src[s] : s \in Sessions}
      base(s) == Append(src[s],
                   "replica-" \o ToString(Cardinality({t \in 0 .. s : src[t] = src[s]})))
      entry(s) == Append(base(s), "entry-" \o ToString(s))
      candidates(s) == <<base(s), entry(s)>>
                         \o [k \in 1 .. NumSessions |-> Append(entry(s), ToString(k + 1))]
      id[s \in Sessions] ==
        IF Cardinality({t \in Sessions : src[t] = src[s]}) = 1 THEN src[s]
        ELSE LET taken == reserved \cup {id[t] : t \in 0 .. s - 1}
                 c == candidates(s)
             IN  c[CHOOSE k \in DOMAIN c :
                     c[k] \notin taken /\ \A j \in 1 .. k - 1 : c[j] \in taken]
  IN  id

SimInit ==
  /\ Init
  /\ stage = "load"
  /\ scheduler \in {"bounded_queue", "multi_process_workers"}
  /\ image \in ImageChoices
  /\ source \in IdChoices
  /\ ids = source
  /\ fixed = [i \in Images |-> "absent"]
  /\ swept = {} /\ named = {}
  /\ recorder = "off"
  /\ lines = <<>>
  /\ files = [s \in {} |-> <<>>]
  /\ summary = {}

\* _load_simulate_manifest and _load_trace_session check the entries one by one
\* (a bad one is a fault), _validate_loaded_sessions the sessions together.
BadEntry == "load" \in Faults
Resolvable == NoImage \notin SourceImages
IdsUnique == \A s, t \in Sessions : s # t => AssignIds(source)[s] # AssignIds(source)[t]

Load ==
  /\ stage = "load"
  /\ Resolvable /\ IdsUnique
  /\ stage' = "prefetch"
  /\ ids' = AssignIds(source)
  /\ UNCHANGED <<vars, scheduler, image, source, fixed, swept, named, recorder, lines,
                 files, summary>>

Reject ==
  /\ stage = "load"
  /\ ~ Resolvable \/ ~ IdsUnique \/ BadEntry
  /\ stage' = "failed"
  /\ UNCHANGED <<vars, scheduler, image, source, ids, fixed, swept, named, recorder,
                 lines, files, summary>>
-----------------------------------------------------------------------------
(* The images.                                                             *)

\* Sources are pulled before anything exists that would have to be removed.
Prefetch ==
  /\ stage = "prefetch"
  /\ \E ok \in May("pull") : stage' = IF ok THEN "prebuild" ELSE "failed"
  /\ UNCHANGED <<vars, scheduler, image, source, ids, fixed, swept, named, recorder,
                 lines, files, summary>>

Build(i) ==
  /\ stage = "prebuild"
  /\ i \in SourceImages /\ fixed[i] = "absent"
  /\ fixed' = [fixed EXCEPT ![i] = "built"]
  /\ UNCHANGED <<vars, stage, scheduler, image, source, ids, swept, named, recorder,
                 lines, files, summary>>

\* The error leaves _prebuild_sweep_fixed_images without its dictionary: what
\* was built, or committed before its container could be stopped, is in no log.
BuildFails(i) ==
  /\ stage = "prebuild"
  /\ "build" \in Faults
  /\ i \in SourceImages /\ fixed[i] = "absent"
  /\ \E left \in {"absent", "built"} : fixed' = [fixed EXCEPT ![i] = left]
  /\ stage' = "failed"
  /\ UNCHANGED <<vars, scheduler, image, source, ids, swept, named, recorder, lines,
                 files, summary>>

Prebuilt ==
  /\ stage = "prebuild"
  /\ \A i \in SourceImages : fixed[i] = "built"
  /\ swept' = SourceImages
  /\ stage' = "replay"
  /\ recorder' = IF scheduler = "bounded_queue" THEN "on" ELSE "off"
  /\ UNCHANGED <<vars, scheduler, image, source, ids, fixed, named, lines, files, summary>>
-----------------------------------------------------------------------------
(* The queue, and what its sessions write to the one trace.                *)

Replaying == stage = "replay" /\ scheduler = "bounded_queue" /\ run = "queue"

QuietStep ==
  /\ Replaying
  /\ \/ \E w \in Workers : Take(w) \/ Leave(w) \/ StartContainer(w) \/ Register(w)
     \/ QueueReturns \/ QueueRaises
  /\ UNCHANGED command

WriteLines(added) ==
  /\ lines' = lines \o added
  /\ UNCHANGED <<stage, scheduler, image, source, ids, fixed, swept, named, recorder,
                 files, summary>>

\* The failure is the session's only record.
QueuePrepareFails(w) ==
  /\ Replaying
  /\ PrepareFails(w)
  /\ WriteLines(IF stats' # stats THEN <<Line(cur[w], "summary")>> ELSE <<>>)

QueueBeginReplay(w) ==
  /\ Replaying
  /\ BeginReplay(w)
  /\ WriteLines(<<Line(cur[w], "action")>>)

\* A replay that raised has no summary.
QueueEndReplay(w) ==
  /\ Replaying
  /\ EndReplay(w)
  /\ WriteLines(IF sess'[cur[w]] = "replayed" THEN <<Line(cur[w], "summary")>> ELSE <<>>)

QueueFinalizes(w) ==
  /\ Replaying
  /\ FinalizeSession(w)
  /\ UNCHANGED command
-----------------------------------------------------------------------------
(* The waves, and the trace combined from those of their workers.          *)

Waving == stage = "replay" /\ scheduler = "multi_process_workers" /\ run = "queue"

WavesRaise ==
  /\ Waving
  /\ "waves" \in Faults
  /\ run' = "failed"
  /\ UNCHANGED <<queue, pc, cur, firstError, sess, box, registered, writes, prepared, stats>>
  /\ UNCHANGED command

\* A worker that raises while it loads its traces aborts no barrier: its peers
\* wait for it, and the command for them.
WavesHang ==
  /\ Waving
  /\ "lost" \in Faults
  /\ stage' = "hung"
  /\ UNCHANGED <<vars, scheduler, image, source, ids, fixed, swept, named, recorder,
                 lines, files, summary>>

\* _combined_trace_sort_key: actions by their start, then the summaries, which
\* have no time.
Combined(order, replayed) ==
  Selected([k \in 1 .. NumSessions |-> Line(order[k], "action")],
           {k \in 1 .. NumSessions : order[k] \in replayed})
    \o [k \in 1 .. NumSessions |-> Line(order[k], "summary")]

\* Each session was replayed or failed its preparation, and is finalized.
WavesReturn ==
  /\ Waving
  /\ \E replayed \in SUBSET Sessions, order \in SetToSeqs(Sessions) :
       /\ stats' = [s \in Sessions |-> IF s \in replayed THEN "replayed" ELSE "prep_error"]
       /\ sess' = [s \in Sessions |-> IF s \in replayed THEN "replayed" ELSE "failed"]
       /\ lines' = Combined(order, replayed)
  /\ \E ok \in May("combine") : run' = IF ok THEN "closing" ELSE "failed"
  /\ prepared' = IF run' = "closing" THEN Sessions ELSE {}
  /\ UNCHANGED <<queue, pc, cur, firstError, box, registered, writes>>
  /\ UNCHANGED <<stage, scheduler, image, source, ids, fixed, swept, named, recorder,
                 files, summary>>
-----------------------------------------------------------------------------
(* The end of the command.                                                 *)

\* Mutant: the records are selected by the id of the source.
SplitBySource(some) ==
  [s \in some |-> Selected(lines, {k \in DOMAIN lines : lines[k].id = source[s]})]

\* _split_trace_by_agent keeps the records that carry a session's id.
SplitByAgent(some) ==
  [s \in some |-> Selected(lines, {k \in DOMAIN lines : lines[k].id = ids[s]})]

SplitStep(left) ==
  /\ stage = "replay"
  /\ run = "closing"
  /\ files' = left
  /\ prepared' = IF scheduler = "bounded_queue" THEN prepared ELSE {}
  /\ UNCHANGED <<queue, pc, cur, firstError, sess, box, registered, writes, stats>>
  /\ UNCHANGED <<scheduler, image, source, ids, fixed, swept, named, recorder, lines, summary>>

Split ==
  /\ SplitStep(SplitByAgent(prepared))
  /\ stage' = "finalize" /\ run' = run

\* The files are opened and written one after another.  An error leaves those
\* before it whole, the one it met absent or cut off, and the others absent; no
\* session is finalized again.
SplitFails ==
  /\ "split" \in Faults
  /\ LET all == SplitByAgent(prepared)
     IN  \E whole \in SUBSET prepared :
           \/ SplitStep(SplitByAgent(whole))
           \/ \E s \in prepared \ whole : \E n \in 0 .. Len(all[s]) :
                SplitStep([t \in whole \cup {s} |->
                             IF t = s THEN SubSeq(all[s], 1, n) ELSE all[t]])
  /\ stage' = "close" /\ run' = "failed"

FinalizePrepared ==
  /\ stage = "finalize"
  /\ \/ \E s \in Sessions : FinalizeAgain(s)
     \/ Complete
  /\ stage' = IF run' = "closing" THEN stage ELSE "close"
  /\ UNCHANGED <<scheduler, image, source, ids, fixed, swept, named, recorder, lines,
                 files, summary>>

ReplayRaised ==
  /\ stage = "replay"
  /\ run = "failed"
  /\ stage' = "close"
  /\ UNCHANGED <<vars, scheduler, image, source, ids, fixed, swept, named, recorder,
                 lines, files, summary>>

\* What the recorder raises is raised at once: no image is removed or named.
StopRecorder ==
  /\ stage = "close"
  /\ \/ /\ recorder' = "off"
        /\ stage' = IF run = "completed" THEN "cleanup" ELSE "keep"
     \/ /\ recorder = "on" /\ "sampler" \in Faults
        /\ recorder' = "stuck"
        /\ stage' = "failed"
  /\ UNCHANGED <<vars, scheduler, image, source, ids, fixed, swept, named, lines, files,
                 summary>>

\* "Skipping sweep fixed image cleanup because simulate did not complete cleanly".
KeepImages ==
  /\ stage = "keep"
  /\ stage' = "failed"
  /\ named' = swept
  /\ UNCHANGED <<vars, scheduler, image, source, ids, fixed, swept, recorder, lines,
                 files, summary>>

ToRemove == {i \in swept : fixed[i] = "built" /\ i \notin named}

\* An image that cannot be removed stays, and the error names it.
Removal(i, ok) ==
  /\ fixed' = [fixed EXCEPT ![i] = IF ok THEN "removed" ELSE @]
  /\ named' = IF ok THEN named ELSE named \cup {i}

\* Mutant: the cleanup stops at the first image it cannot remove.
RemoveFirstFailure(i) ==
  /\ stage = "cleanup"
  /\ i \in ToRemove
  /\ \E ok \in May("remove") :
       /\ Removal(i, ok)
       /\ stage' = IF ok THEN stage ELSE "failed"
  /\ UNCHANGED <<vars, scheduler, image, source, ids, swept, recorder, lines, files, summary>>

\* It does not keep the others.
RemoveImage(i) ==
  /\ stage = "cleanup"
  /\ i \in ToRemove
  /\ \E ok \in May("remove") : Removal(i, ok)
  /\ UNCHANGED <<vars, stage, scheduler, image, source, ids, swept, recorder, lines,
                 files, summary>>

\* The first of their errors is raised then, and no summary is written.
WriteSummary ==
  /\ stage = "cleanup"
  /\ ToRemove = {}
  /\ IF named = {}
     THEN stage' = "done" /\ summary' = {ids[s] : s \in {t \in Sessions : stats[t] # "none"}}
     ELSE stage' = "failed" /\ UNCHANGED summary
  /\ UNCHANGED <<vars, scheduler, image, source, ids, fixed, swept, named, recorder,
                 lines, files>>

Ended == stage \in {"done", "failed"}
-----------------------------------------------------------------------------
QueueWorkerStep(w) ==
  QueuePrepareFails(w) \/ QueueBeginReplay(w) \/ QueueEndReplay(w) \/ QueueFinalizes(w)

CommandStep ==
  \/ Load \/ Reject \/ Prefetch \/ Prebuilt
  \/ \E i \in Images : Build(i) \/ BuildFails(i)
  \/ QuietStep \/ WavesRaise \/ WavesHang \/ WavesReturn
  \/ \E w \in Workers : QueueWorkerStep(w)
  \/ Split \/ SplitFails \/ FinalizePrepared \/ ReplayRaised
  \/ StopRecorder \/ KeepImages \/ WriteSummary
  \/ \E i \in Images : RemoveImage(i)

Hung == stage = "hung"

SimNext == CommandStep \/ ((Ended \/ Hung) /\ UNCHANGED allVars)

SimSpec == SimInit /\ [][SimNext]_allVars

\* One event loop and no step that waits for another party.
FairSimSpec == SimSpec /\ WF_allVars(CommandStep)
-----------------------------------------------------------------------------
(* Properties.                                                             *)

\* Once the sweep has its images, the command ends with each of them removed
\* or named in its log, also when the replay raised, a session could not be
\* finalized or an image could not be removed.  The exception is an error of
\* the resource recorder's stop.
ImagesAccounted ==
  Ended /\ recorder # "stuck" =>
    \A i \in swept : fixed[i] = "removed" \/ i \in named

\* A fixed image is removed only when no session is being replayed from it, and
\* the one container that may then still be up is one whose stop failed while
\* its preparation was being undone.
RemovedAfterReplays ==
  \A i \in Images : fixed[i] = "removed" =>
    \A s \in ContainerSessions : image[s] = i =>
      /\ box[s] # "running"
      /\ box[s] = "stuck" => stats[s] = "prep_error"

\* The records of a session.
Written(s) == Selected(lines, {k \in DOMAIN lines : lines[k].of = s})

\* The file of a session holds its own records, all of them and in order, and
\* its summary is the last one, whatever ids the traces came with and however
\* the sessions' records were interleaved.  The exception is the one file that
\* was being written when the command failed: it may end early.
FilesAreTheSessions ==
  /\ \A s \in DOMAIN files :
       /\ \E n \in 0 .. Len(Written(s)) : files[s] = SubSeq(Written(s), 1, n)
       /\ Written(s) # <<>> /\ Last(Written(s)).kind = "summary"
  /\ \A s, t \in DOMAIN files : files[s] # Written(s) /\ files[t] # Written(t) => s = t
  /\ run # "failed" => \A s \in DOMAIN files : files[s] = Written(s)

\* The command ends, but for waves of which a worker is lost while it loads
\* (LostAtLoad of ReplayWave).
SimulateEnds == <>(Ended \/ (Hung /\ scheduler = "multi_process_workers"))

\* The throughput summary is written only for a run in which every session is
\* accounted for once, under its own id, with its trace beside it.
CompleteMeansReported ==
  stage = "done" =>
    /\ summary = {ids[s] : s \in Sessions} /\ Cardinality(summary) = NumSessions
    /\ DOMAIN files = Sessions
    /\ \A s \in Sessions : box[s] # "running"

\* The files the command leaves are those of its sessions and, if it completes, of
\* all of them.
FilesComplete == FilesAreTheSessions /\ CompleteMeansReported
=============================================================================
