---------------------------- MODULE TraceRecorder ----------------------------
(***************************************************************************)
(* TraceCollectorHook (agents/openclaw/_session_runner.py) with deferred   *)
(* checkpoints: the hook of the main agent and that of a subagent, whose   *)
(* records go through the main one's file.  The main hook has two turns    *)
(* beside each other, the prompt's and that of a subagent's announcement   *)
(* (_loop.py, _dispatch), and run() writes the summary after the first of  *)
(* their replies.  A checkpoint is a task that reads the sandbox's root    *)
(* (WalkBackend, agents/sandbox_runtime.py) while the model already        *)
(* answers; its result is put into a record that was written before.       *)
(*                                                                         *)
(* What a manifest says of a path is modelled in CheckpointChain; here a   *)
(* path only has the time of its last change.  checkpoint_rebaseline_bytes *)
(* is set nowhere in the program, so that no manifest is full but those    *)
(* scheduled before the first result.                                      *)
(***************************************************************************)
EXTENDS Naturals, Sequences, FiniteSets, SequencesExt

CONSTANTS
    Paths,           \* the files of the root
    Modes,           \* message_recording_mode: full, delta
    Batches,         \* the tool calls of a turn's answers: of exec and other
    MaxChanges,      \* bound: changes of the root
    IterationLimits, \* bound: iterations of a turn
    MaxFaults        \* bound: probes and captures that fail, a cancellation

MainTurns == {"prompt", "announced"}
Turns == MainTurns \cup {"sub"}
Actors == Turns \cup {"run"}   \* the coroutines: "run" is SessionRunner.run
Hooks == {"main", "sub"}
Hook(x) == IF x = "sub" THEN "sub" ELSE "main"

ASSUME TraceRecorderAssumption ==
    /\ Modes \subseteq {"full", "delta"}
    /\ Batches \in [Turns -> SUBSET Seq({"exec", "other"})]
    /\ MaxChanges \in Nat /\ MaxFaults \in Nat
    /\ IterationLimits \in [Turns -> Nat]

VARIABLES
    mode,    \* message_recording_mode
    root,    \* the sandbox root: the time of the last change of every path
    now,     \* changes so far: the clock that markers and mtimes are read from
    pc,      \* where a coroutine is, with its hook
    iters,   \* iterations begun by a turn
    todo,    \* tool calls of the iteration whose results are not recorded yet
    hand,    \* the captures a coroutine swapped out and waits for, or NotAsked
    hashed,  \* _message_snapshot_hashes: the turn they are of
    ready,   \* _iter_messages_snapshot or _iter_messages_delta is set
    caps,    \* every capture of a hook, in the order of their tasks
    taken,   \* how many were swapped out of _pending_checkpoint_captures
    last,    \* _last_deferred_checkpoint_snapshot: its marker, or Never
    base,    \* WalkBackend._checkpoint_snapshot_entries, or NoBase
    scan,    \* the capture under way, which holds up the event loop
    recs,    \* _records of the main hook, of each agent
    file,    \* the lines of the trace file, of each agent
    closed,  \* lines of each agent in the file that close() wrote, 0 before
    broken,  \* history: the hooks that raised: their iteration is dropped
    late,    \* history: the turns that were not over when run() had its reply
    faults

vars == <<mode, root, now, pc, iters, todo, hand, hashed, ready, caps, taken, last,
          base, scan, recs, file, closed, broken, late, faults>>

Never == MaxChanges + 1
NoBase == [p \in Paths |-> Never]
NoScan == [hook |-> "none"]
NotIn == Never          \* a path that a manifest does not list
NotAsked == {0}         \* captures are numbered from 1

\* What a record says of its checkpoint.
Checkpoint(kind) == [kind |-> kind, entries |-> NoBase, marker |-> Never,
                     source |-> NoBase]
None == Checkpoint("none")

Init ==
    /\ mode \in Modes
    /\ root = [p \in Paths |-> 0] /\ now = 0
    /\ pc = [x \in Actors |-> IF x = "run" THEN "waiting" ELSE "idle"]
    /\ iters = [x \in Turns |-> 0]
    /\ todo = [x \in Turns |-> <<>>]
    /\ hand = [x \in Actors |-> NotAsked]
    /\ hashed = [h \in Hooks |-> "none"]
    /\ ready = [h \in Hooks |-> FALSE]
    /\ caps = [h \in Hooks |-> <<>>] /\ taken = [h \in Hooks |-> 0]
    /\ last = [h \in Hooks |-> Never]
    /\ base = [h \in Hooks |-> NoBase]
    /\ scan = NoScan
    /\ recs = [h \in Hooks |-> <<>>] /\ file = recs
    /\ closed = [h \in Hooks |-> 0]
    /\ broken = {} /\ late = {}
    /\ faults = 0

disk == <<mode, root, now>>
flow == <<iters, todo>>
messageVars == <<hashed, ready>>
captures == <<caps, taken, last, base, scan>>
trace == <<recs, file, closed>>
history == <<broken, late, faults>>

Fault == faults < MaxFaults /\ faults' = faults + 1

\* A coroutine that goes on without a suspension: the results of an iteration
\* and the summary, but for what they await, and what follows the last result
\* that was awaited.
Running(x) ==
    \/ hand[x] = {}
    \/ hand[x] = NotAsked /\ pc[x] \in {"results", "summary"}

\* One coroutine runs at a time, and none beside a capture.
Free(x) == scan = NoScan /\ \A y \in Actors \ {x} : ~ Running(y)

At(x, where) == pc[x] = where /\ Free(x)
Go(x, where) == pc' = [pc EXCEPT ![x] = where]

\* add_record: the line is written as the record is now.
AddRecord(h, r) ==
    /\ recs' = [recs EXCEPT ![h] = Append(@, r)]
    /\ file' = [file EXCEPT ![h] = Append(@, r)]

\* A record, and the capture whose result it will have, or 0.
Rec(kind, capture, checkpoint) ==
    [kind |-> kind, metadata |-> "pending", capture |-> capture,
     checkpoint |-> checkpoint]
Summary == Rec("summary", 0, None)

-----------------------------------------------------------------------------
(* The root changes at any time: tools write, and processes they left.     *)

Change(p) ==
    /\ now < MaxChanges
    /\ now' = now + 1
    /\ root' = [root EXCEPT ![p] = now + 1]
    /\ UNCHANGED <<mode, pc, flow, hand, messageVars, captures, trace, history>>

-----------------------------------------------------------------------------
(* Awaiting the captures                                                   *)

\* _pending_checkpoint_captures.
Pending(h) == {c \in DOMAIN caps[h] : c > taken[h]}

IsManifest(checkpoint) == checkpoint.kind \in {"full", "incremental"}

\* Results become the last snapshot in their order, which is not that of other
\* coroutines' results: `last` may go back to an older one.
Record(h, done) ==
    LET made == {c \in done : IsManifest(caps[h][c].result)}
    IN  IF made = {} THEN UNCHANGED last
        ELSE \E c \in made : /\ \A d \in made : d <= c
                             /\ last' = [last EXCEPT ![h] = caps[h][c].result.marker]

Applied(h, done) ==
    [i \in DOMAIN recs[h] |->
        IF recs[h][i].capture \in done
        THEN [recs[h][i] EXCEPT !.checkpoint = caps[h][recs[h][i].capture].result]
        ELSE recs[h][i]]

\* Before the next tools, before the checkpoint of an exec result and before
\* the summary.
Awaits(x) ==
    \/ pc[x] \in {"before", "summary"}
    \/ pc[x] = "results" /\ Head(todo[x]) = "exec"

(* The list is swapped out at once, so that another coroutine finds it     *)
(* empty while this one waits.  The results that are there are applied     *)
(* without a suspension: to the records, not to the lines that were        *)
(* written.                                                                *)
AwaitCaptures(x) ==
    LET h == Hook(x)
        asked == IF hand[x] = NotAsked THEN Pending(h) ELSE hand[x]
        done == {c \in asked : caps[h][c].result # None}
    IN  /\ Free(x) /\ Awaits(x)
        /\ IF hand[x] = NotAsked
           THEN asked # {} /\ taken' = [taken EXCEPT ![h] = Len(caps[h])]
           ELSE done # {} /\ UNCHANGED taken
        /\ hand' = [hand EXCEPT ![x] = asked \ done]
        /\ Record(h, done)
        /\ recs' = [recs EXCEPT ![h] = Applied(h, done)]
        /\ UNCHANGED <<disk, pc, flow, messageVars, caps, base, scan, file, closed,
                       history>>

Awaited(x) ==
    \/ hand[x] = {}
    \/ hand[x] = NotAsked /\ Pending(Hook(x)) = {}
GoesOn(x) == hand' = [hand EXCEPT ![x] = NotAsked]

\* The captures a turn scheduled.
Own(x) == {c \in DOMAIN caps[Hook(x)] : caps[Hook(x)][c].turn = x}

(* The captures of a turn that another one swapped out are applied.  A     *)
(* capture is a task that is ready when it is scheduled and the coroutine  *)
(* that waits for it is when it ends: the loop, which is first in first    *)
(* out, has run both when the model, called later, answers, and when run() *)
(* gets the reply that was sent later.                                     *)
Settled(x) == \A y \in Actors \ {x} : Hook(y) = Hook(x) => Own(x) \cap hand[y] = {}

-----------------------------------------------------------------------------
(* An iteration of the runner, as its hook sees it                         *)

\* The history extends the one whose messages were hashed last.
AppendOnly(x) == hashed[Hook(x)] \in {"none", x}

\* The prompt's turn spawns the subagent, which sends its announcement after its
\* summary; a cancelled one stands for one that was spawned before it.
Begun(x) ==
    /\ x = "sub" => iters["prompt"] > 0
    /\ x = "announced" => pc["sub"] = "ended"

(* The messages are kept for the record.  In delta mode a history that     *)
(* does not extend the last one, as that of another turn, raises;          *)
(* CompositeHook logs that and the iteration goes on: the model is called  *)
(* and answers with `calls`.                                               *)
BeforeIteration(x, calls) ==
    /\ At(x, "idle") /\ Begun(x) /\ iters[x] < IterationLimits[x]
    /\ iters' = [iters EXCEPT ![x] = @ + 1]
    /\ todo' = [todo EXCEPT ![x] = calls]
    /\ Go(x, IF calls = <<>> THEN "after" ELSE "before")
    /\ IF mode = "full" \/ AppendOnly(x)
       THEN /\ ready' = [ready EXCEPT ![Hook(x)] = TRUE]
            /\ hashed' = [hashed EXCEPT ![Hook(x)] = x]
       ELSE UNCHANGED messageVars
    /\ UNCHANGED <<disk, hand, captures, trace, history>>

(* The tools run from here to after_iteration.                             *)
BeforeExecuteTools(x) ==
    /\ At(x, "before") /\ Awaited(x) /\ Settled(x)
    /\ GoesOn(x)
    /\ Go(x, "after")
    /\ UNCHANGED <<disk, flow, messageVars, captures, trace, history>>

(* The model call is recorded, with the messages that are set, which are   *)
(* another turn's or none if that one was here meanwhile.  Without a delta *)
(* the hook raises, and neither the call nor its tools are recorded.       *)
AfterIteration(x) ==
    /\ At(x, "after")
    /\ IF mode = "full" \/ ready[Hook(x)]
       THEN /\ ready' = [ready EXCEPT ![Hook(x)] = FALSE]
            /\ AddRecord(Hook(x), Rec("llm", 0, None))
            /\ Go(x, IF todo[x] = <<>> THEN "idle" ELSE "results")
            /\ UNCHANGED <<todo, broken>>
       ELSE /\ Go(x, "idle")
            /\ todo' = [todo EXCEPT ![x] = <<>>]
            /\ broken' = broken \cup {Hook(x)}
            /\ UNCHANGED <<ready, recs, file>>
    /\ UNCHANGED <<disk, iters, hand, hashed, captures, closed, late, faults>>

RecordResult(x, kind, capture, checkpoint) ==
    /\ At(x, "results")
    /\ todo' = [todo EXCEPT ![x] = Tail(@)]
    /\ Go(x, IF Len(todo[x]) = 1 THEN "idle" ELSE "results")
    /\ GoesOn(x)
    /\ AddRecord(Hook(x), Rec(kind, capture, checkpoint))
    /\ UNCHANGED <<disk, iters, messageVars, taken, last, base, scan, closed, broken,
                   late>>

(* A result that is not of a single exec command has no checkpoint.        *)
OtherResult(x) ==
    /\ todo[x] # <<>> /\ Head(todo[x]) = "other"
    /\ RecordResult(x, "tool", 0, None)
    /\ UNCHANGED <<caps, faults>>

\* The captures that were pending are applied first.
ExecResult(x) == todo[x] # <<>> /\ Head(todo[x]) = "exec" /\ Awaited(x)

Changed(x) == now > last[Hook(x)]

Schedule(x) ==
    caps' = [caps EXCEPT ![Hook(x)] =
                Append(@, [turn |-> x, full |-> last[Hook(x)] = Never,
                           result |-> None])]

(* Without a last snapshot a full capture is scheduled, else an            *)
(* incremental one if the probe finds an entry newer than its marker.      *)
ScheduleCapture(x) ==
    /\ ExecResult(x)
    /\ last[Hook(x)] = Never \/ Changed(x)
    /\ Schedule(x)
    /\ RecordResult(x, "exec", Len(caps[Hook(x)]) + 1, None)
    /\ UNCHANGED faults

SkipUnchanged(x) ==
    /\ ExecResult(x)
    /\ last[Hook(x)] # Never /\ ~ Changed(x)
    /\ RecordResult(x, "exec", 0, [Checkpoint("skipped") EXCEPT !.marker = now,
                                                                !.source = root])
    /\ UNCHANGED <<caps, faults>>

ProbeFails(x) ==
    /\ ExecResult(x)
    /\ last[Hook(x)] # Never /\ Fault
    /\ RecordResult(x, "exec", 0, Checkpoint("error"))
    /\ UNCHANGED caps

(* The turn sends its reply.                                               *)
TurnEnds(x) ==
    /\ x \in MainTurns
    /\ At(x, "idle") /\ iters[x] > 0
    /\ Go(x, "over")
    /\ UNCHANGED <<disk, flow, hand, messageVars, captures, trace, history>>

-----------------------------------------------------------------------------
(* The capture: one step of the event loop, beside which the root changes. *)

CaptureScan(h) ==
    /\ scan = NoScan /\ \A x \in Actors : ~ Running(x)
    /\ \E c \in DOMAIN caps[h] :
          /\ caps[h][c].result = None
          /\ \A d \in 1 .. c - 1 : caps[h][d].result # None
          /\ scan' = [hook |-> h, capture |-> c, marker |-> now, files |-> root]
    /\ UNCHANGED <<disk, pc, flow, hand, messageVars, caps, taken, last, base, trace,
                   history>>

Captured(h, checkpoint) ==
    /\ caps' = [caps EXCEPT ![h][scan.capture].result = checkpoint]
    /\ scan' = NoScan
    /\ UNCHANGED <<disk, pc, flow, hand, messageVars, taken, last, trace, broken,
                   late>>

\* Mutant: the entries are kept although their manifest is removed.
CaptureFailsLate(h) ==
    /\ scan.hook = h
    /\ now > scan.marker
    /\ Captured(h, Checkpoint("error"))
    /\ base' = [base EXCEPT ![h] = scan.files]
    /\ UNCHANGED faults

\* The manifest is not written, or removed: the root changed meanwhile.
CaptureFails(h) ==
    /\ scan.hook = h
    /\ \/ now > scan.marker /\ UNCHANGED faults
       \/ Fault
    /\ Captured(h, Checkpoint("error"))
    /\ UNCHANGED base

Manifest(full, changed) ==
    [kind |-> IF full THEN "full" ELSE IF changed = {} THEN "skipped" ELSE "incremental",
     entries |-> [p \in Paths |-> IF p \in changed THEN scan.files[p] ELSE NotIn],
     marker |-> scan.marker,
     source |-> scan.files]

\* The differences are those from the capture before, whose result may still
\* wait to be applied.
CaptureWrites(h) ==
    /\ scan.hook = h /\ now = scan.marker
    /\ LET full == caps[h][scan.capture].full
       IN  Captured(h, Manifest(full, {p \in Paths : full \/ base[h][p] # scan.files[p]}))
    /\ base' = [base EXCEPT ![h] = scan.files]
    /\ UNCHANGED faults

-----------------------------------------------------------------------------
(* The end                                                                 *)

(* run() has the reply of the first turn that is over; the other one goes  *)
(* on, or starts, beside it.                                               *)
RunFinishes ==
    /\ At("run", "waiting")
    /\ \E x \in MainTurns : pc[x] = "over"
    /\ \A x \in MainTurns : pc[x] = "over" => Settled(x)
    /\ Go("run", "summary")
    /\ late' = {x \in MainTurns : pc[x] # "over"}
    /\ UNCHANGED <<disk, flow, hand, messageVars, captures, trace, broken, faults>>

SubFinishes ==
    /\ At("sub", "idle") /\ iters["sub"] > 0
    /\ Go("sub", "summary")
    /\ UNCHANGED <<disk, flow, hand, messageVars, captures, trace, history>>

\* The metadata of the model calls is awaited.
FetchMetadata(x) ==
    /\ At(x, "summary") /\ Awaited(x)
    /\ GoesOn(x)
    /\ Go(x, "metadata")
    /\ UNCHANGED <<disk, flow, messageVars, captures, trace, history>>

Resolved(lines) ==
    [i \in DOMAIN lines |-> [lines[i] EXCEPT !.metadata = "fetched"]]
WithSummary(h) == Append(Resolved(recs[h]), Summary)

\* close(): the records as they are now replace the file.
Close ==
    /\ file' = recs'
    /\ closed' = [h \in Hooks |-> Len(recs'[h])]

SummaryWritten(x) ==
    /\ At(x, "metadata")
    /\ recs' = [recs EXCEPT ![Hook(x)] = WithSummary(Hook(x))]
    /\ Go(x, "ended")
    /\ UNCHANGED <<disk, flow, hand, messageVars, captures, history>>

\* Mutant: the file is closed as its lines were written.
WriteSummaryAsWritten(x) ==
    /\ SummaryWritten(x)
    /\ file' = [file EXCEPT ![Hook(x)] = Append(@, Summary)]
    /\ closed' = IF x = "run" THEN [h \in Hooks |-> Len(recs'[h])] ELSE closed

(* write_summary: with the last metadata, those of calls that were         *)
(* recorded meanwhile included, the main hook writes the whole file anew,  *)
(* the subagents' records included.                                        *)
WriteSummary(x) ==
    /\ SummaryWritten(x)
    /\ IF x = "run" THEN Close
       ELSE file' = [file EXCEPT !["sub"] = Append(@, Summary)] /\ UNCHANGED closed

(* The subagent is cancelled: it writes no summary, and what its captures  *)
(* find is applied to nothing.                                             *)
SubCancelled ==
    /\ pc["sub"] # "ended" /\ Free("sub") /\ ~ Running("sub") /\ Fault
    /\ Go("sub", "ended")
    /\ hand' = [hand EXCEPT !["sub"] = NotAsked]
    /\ UNCHANGED <<disk, flow, messageVars, captures, trace, broken, late>>

Done ==
    /\ \A x \in Actors : pc[x] \in {"over", "ended"}
    /\ UNCHANGED vars

Next ==
    \/ \E p \in Paths : Change(p)
    \/ \E x \in Turns :
        \/ (\E calls \in Batches[x] : BeforeIteration(x, calls))
        \/ BeforeExecuteTools(x) \/ AfterIteration(x)
        \/ OtherResult(x) \/ ScheduleCapture(x) \/ SkipUnchanged(x)
        \/ ProbeFails(x) \/ TurnEnds(x)
    \/ \E h \in Hooks : CaptureScan(h) \/ CaptureFails(h) \/ CaptureWrites(h)
    \/ \E x \in Actors : AwaitCaptures(x)
    \/ \E x \in {"run", "sub"} : FetchMetadata(x) \/ WriteSummary(x)
    \/ RunFinishes \/ SubFinishes \/ SubCancelled
    \/ Done

Spec == Init /\ [][Next]_vars

-----------------------------------------------------------------------------
(* Properties                                                              *)

Telling(lines) ==
    {i \in DOMAIN lines : lines[i].checkpoint.kind \in {"full", "incremental", "skipped"}}

\* The manifests up to a line, and not taken later than its checkpoint, that
\* list a path.
Listing(lines, i, p) ==
    {k \in 1 .. i : /\ IsManifest(lines[k].checkpoint)
                    /\ lines[k].checkpoint.marker <= lines[i].checkpoint.marker
                    /\ lines[k].checkpoint.entries[p] # NotIn}

\* These manifests, applied in their order, give the root of the checkpoint.
Restores(lines, i) ==
    \A p \in Paths :
        LET listing == Listing(lines, i, p)
        IN  /\ listing # {}
            /\ \A k \in listing : (\A j \in listing : j <= k) =>
                   lines[k].checkpoint.entries[p] = lines[i].checkpoint.source[p]

\* Every exec command before a line has its checkpoint, or why it has none.
NothingMissing(lines, i) ==
    \A j \in 1 .. i : lines[j].kind = "exec" => lines[j].checkpoint # None

(* A checkpoint of the file, or "skipped: no filesystem changes since last *)
(* checkpoint", stands for the root as it was when it was captured, or     *)
(* skipped, and the manifests up to it restore that root, whatever failed, *)
(* was applied late or in another turn's order, and whoever wrote the file *)
(* last: unless an earlier command's checkpoint is not in the file, which  *)
(* TraceComplete is about.                                                 *)
RestoreReproduces ==
    \A h \in Hooks : \A i \in Telling(file[h]) :
        NothingMissing(file[h], i) => Restores(file[h], i)

(* A checkpoint is taken after its turn's tools ended, when its result is  *)
(* recorded, and before that turn's next tools start, which                *)
(* before_execute_tools sees to: while they run no capture of the turn is  *)
(* to be taken or under way.  Those of another turn may be.                *)
CapturedInWindow ==
    \A x \in Turns : pc[x] = "after" /\ todo[x] # <<>> =>
        \A c \in Own(x) : caps[Hook(x)][c].result # None

(* The checkpoints of the file are those of the roots its lines stand for, *)
(* the ones it skipped included, and are taken between the tools they      *)
(* belong to and the next ones.                                            *)
CheckpointsFaithful == RestoreReproduces /\ CapturedInWindow

(* The closed file has the metadata of every model call, and the           *)
(* checkpoint of every exec command, or the reason why there is none: of   *)
(* the main agent, but for the turns that were not over when run() had its *)
(* reply, and of a subagent whose summary was there when the main hook     *)
(* wrote the file.                                                         *)
TraceComplete ==
    \A h \in Hooks :
        LET lines == SubSeq(file[h], 1, closed[h])
        IN  lines # <<>> /\ Last(lines).kind = "summary" =>
                \A i \in DOMAIN lines :
                    /\ lines[i].kind # "summary" => lines[i].metadata = "fetched"
                    /\ lines[i].kind = "exec" /\ lines[i].checkpoint = None =>
                         caps[h][lines[i].capture].turn \in late

(* No iteration of the main agent is dropped, the deltas of a second turn  *)
(* included: not so, see the README.                                       *)
NothingDropped == "main" \notin broken
=============================================================================
