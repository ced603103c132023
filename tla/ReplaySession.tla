--------------------------- MODULE ReplaySession ---------------------------
(***************************************************************************)
(* The replay of one session's trace into its container                    *)
(* (_replay_cloud_model_session in src/src/trace_collect/simulator.py).    *)
(*                                                                         *)
(* The trace holds the actions of the agent and of its subagents (the      *)
(* lanes), in the order they started.  The replay executes the agent's     *)
(* container tools again, takes everything else from the trace, compares   *)
(* the container with the source's checkpoints, and when an action went    *)
(* another way than in the source restores a checkpoint: the forced sync.  *)
(*                                                                         *)
(* The trace is chosen as the replay reads it: nothing looks ahead.        *)
(***************************************************************************)
EXTENDS Integers, FiniteSets, Sequences

CONSTANTS
  Paths,          \* paths below the root
  Contents,       \* contents of files
  Absent,         \* what a path without a file holds
  Image,          \* the root of the image: what each path holds
  SourceActions,  \* actions a trace may hold, see ActionShape
  MaxActions,     \* bound on the actions of the trace
  MaxFaults       \* bound on calls and files that fail the replay

Files == [Paths -> Contents \cup {Absent}]
NoWrite == [p \in {} |-> Absent]

\* kind: "llm"; "skipped", of a type or without a tool name the replay does
\* not know; "traced", a message, an MCP, web or spawn call or a denied command;
\* "artifact", reading a file of the source's own run; "tool", any other.
ActionShape(a) ==
  /\ a.lane \in BOOLEAN
  /\ a.kind \in {"llm", "skipped", "traced", "artifact", "tool"}
  /\ a.ok \in BOOLEAN
  /\ \E written \in SUBSET Paths : a.writes \in [written -> Contents \cup {Absent}]
  /\ a.kind # "tool" => a.writes = NoWrite

ASSUME ReplaySessionAssumption ==
  /\ Absent \notin Contents
  /\ Image \in Files
  /\ \A a \in SourceActions : ActionShape(a)
  /\ MaxActions \in Nat /\ MaxFaults \in Nat

VARIABLES
  container,   \* whether the session has a container, or is replayed in host mode
  trace,       \* the actions read so far, with their checkpoints and the source's root
  base,        \* the root at the last checkpoint, of the agent and of its lanes
  root,        \* the root of the replay's container
  folded,      \* folded_source_entries: the root the source's checkpoints tell of
  laneActive,  \* lane_active_since_last_boundary
  pc,          \* "next", "llm", "execute", "ran", "sync", "restore", "reapply", "verify",
               \* "log", "done"
  cur,         \* what the action under way came to
  log,         \* the records written
  errors,      \* actions the except clause caught, and where
  counts,      \* the counters of the summary
  faults,      \* faults so far
  strayed      \* whether a tool left the container otherwise than the source's did

vars == <<container, trace, base, root, folded, laneActive, pc, cur, log, errors,
          counts, faults, strayed>>

NoBase == [p \in Paths |-> "unread"]
NoCheckpoint == [kind |-> "none", files |-> NoWrite, deleted |-> {}, gone |-> FALSE]
Idle == [ok |-> TRUE, reason |-> "none", effective |-> "none", laneInduced |-> FALSE,
         attempted |-> FALSE, success |-> FALSE, continued |-> FALSE,
         from |-> 0, left |-> {}, exact |-> TRUE]
NoCounts == [succeeded |-> 0, mismatches |-> 0, unresolved |-> 0, attempts |-> 0,
             successes |-> 0, continued |-> 0, fatal |-> 0]

Init ==
  /\ container \in BOOLEAN
  /\ trace = <<>>
  /\ base = [main |-> NoBase, lane |-> NoBase]
  /\ root = Image /\ folded = NoWrite
  /\ laneActive = FALSE
  /\ pc = "next" /\ cur = Idle
  /\ log = <<>> /\ errors = {} /\ counts = NoCounts
  /\ faults = 0 /\ strayed = FALSE

now == Len(trace)
Fault == faults < MaxFaults /\ faults' = faults + 1
SourceRoot == IF now = 0 THEN Image ELSE trace[now].root
Written(files, writes) ==
  [p \in Paths |-> IF p \in DOMAIN writes THEN writes[p] ELSE files[p]]
Present(files) == [p \in {q \in Paths : files[q] # Absent} |-> files[p]]
-----------------------------------------------------------------------------
(* The source's trace.                                                     *)

\* A full checkpoint; or what changed since the last one of the same recorder.
FullCheckpoint(files) == [NoCheckpoint EXCEPT !.kind = "full", !.files = Present(files)]
Incremental(files, since) ==
  [NoCheckpoint EXCEPT
     !.kind = "incremental",
     !.files = [p \in {q \in Paths : files[q] \notin {Absent, since[q]}} |-> files[p]],
     !.deleted = {p \in Paths : files[p] = Absent /\ since[p] # Absent}]

\* The checkpoint of an action: there is none when nothing changed.
CheckpointOf(a, files, since) ==
  IF a.kind # "tool" \/ files = since THEN {}
  ELSE {FullCheckpoint(files)}
       \cup (IF since = NoBase THEN {} ELSE {Incremental(files, since)})

Agent(a) == IF a.lane THEN "lane" ELSE "main"

\* An action with its checkpoint_after field: without one; with one; with one
\* whose manifest is gone from the disk, or whose line the recorder lost.
Reads(a, files) ==
  LET entry(c, lost) == [a |-> a, ckpt |-> c, lost |-> lost, root |-> files]
      made == CheckpointOf(a, files, base[Agent(a)])
  IN \/ trace' = Append(trace, entry(NoCheckpoint, FALSE)) /\ UNCHANGED <<base, faults>>
     \/ /\ base' = [base EXCEPT ![Agent(a)] = files]
        /\ \E c \in made :
             \/ trace' = Append(trace, entry(c, FALSE)) /\ UNCHANGED faults
             \/ trace' = Append(trace, entry([c EXCEPT !.gone = TRUE], FALSE)) /\ Fault
             \/ trace' = Append(trace, entry(NoCheckpoint, TRUE)) /\ Fault

\* The loop takes up the next action.
NextAction ==
  /\ pc = "next" /\ now < MaxActions
  /\ \E a \in SourceActions :
       /\ Reads(a, Written(SourceRoot, a.writes))
       /\ laneActive' = (laneActive \/ a.lane)
       /\ pc' = CASE a.kind = "llm" -> "llm" [] a.kind = "skipped" -> "next"
                  [] OTHER -> "execute"
  /\ UNCHANGED <<container, root, folded, cur, log, errors, counts, strayed>>

action == trace[now].a
IsLane == action.lane
\* A checkpoint counts only when the replay can sync: agent's own, with a container.
InStep == container /\ ~IsLane
-----------------------------------------------------------------------------
(* The checkpoints a replay looks back at.                                 *)

\* Mutant: deleted paths are not taken out.
FoldKeepingDeleted(entries, c) ==
  CASE c.kind = "none" \/ c.gone -> entries
    [] c.kind = "full" -> c.files
    [] OTHER -> [p \in DOMAIN entries \cup DOMAIN c.files |->
                   IF p \in DOMAIN c.files THEN c.files[p] ELSE entries[p]]

\* What a checkpoint makes of the entries folded so far; gone, it changes nothing.
Fold(entries, c) ==
  CASE c.kind = "none" \/ c.gone -> entries
    [] c.kind = "full" -> c.files
    [] OTHER -> [p \in (DOMAIN entries \cup DOMAIN c.files) \ c.deleted |->
                   IF p \in DOMAIN c.files THEN c.files[p] ELSE entries[p]]

\* Through an action, over the actions of all the lanes.
FoldThrough[i \in 0 .. now] ==
  IF i = 0 THEN NoWrite ELSE Fold(FoldThrough[i - 1], trace[i].ckpt)

HasCheckpoint(i) == trace[i].ckpt.kind # "none"
\* 0 when there is none.
Latest(S) == IF S = {} THEN 0 ELSE CHOOSE i \in S : \A j \in S : j <= i

\* The checkpoint to go back to: the action's own, or the last before it.
Target == Latest({i \in 1 .. now : HasCheckpoint(i)})

\* The last full checkpoint up to the target: the chain starts with it.
ChainStart(target) == Latest({i \in 1 .. target : trace[i].ckpt.kind = "full"})
Chain(target) == {i \in ChainStart(target) .. target : HasCheckpoint(i)}

\* A snapshot of the replay's container is the whole root, whatever was captured
\* before: the backend is given no snapshot to start from.
SnapshotOf(files) == Present(files)

\* The container holds exactly these entries.
Holds(files, entries) == SnapshotOf(files) = entries
-----------------------------------------------------------------------------
(* One action.                                                             *)

\* The except clause: the action is counted and left without a record.
Raised(where) ==
  /\ errors' = errors \cup {[action |-> now, at |-> where]}
  /\ pc' = "next" /\ cur' = Idle
  /\ UNCHANGED <<log, counts>>

\* A model call takes its time and is recorded again.
ReplayLlm ==
  /\ pc = "llm"
  /\ \/ /\ log' = Append(log, [action |-> now, res |-> Idle])
        /\ counts' = [counts EXCEPT !.succeeded = @ + 1]
        /\ pc' = "next"
        /\ UNCHANGED <<cur, errors, faults>>
     \/ Fault /\ Raised("log")
  /\ UNCHANGED <<container, trace, base, root, folded, laneActive, strayed>>

\* The outcome of a tool next to the source's: timeout, success and exit code.
MismatchReason(ok) == IF ok = action.ok THEN "none" ELSE "outcome"

\* Taken from the trace: lanes, host mode, and what has no place in a container.
ReplayFromTrace ==
  /\ pc = "execute"
  /\ ~InStep \/ action.kind = "traced"
  /\ cur' = [Idle EXCEPT !.ok = action.ok]
  /\ pc' = "ran"
  /\ UNCHANGED <<container, trace, base, root, folded, laneActive, log, errors, counts,
                 faults, strayed>>

\* The artifact of the source's run is not in the simulator's runtime.
ArtifactUnavailable ==
  /\ pc = "execute" /\ InStep /\ action.kind = "artifact"
  /\ cur' = [Idle EXCEPT !.ok = FALSE, !.reason = "artifact", !.effective = "artifact"]
  /\ pc' = "ran"
  /\ UNCHANGED <<container, trace, base, root, folded, laneActive, log, errors, counts,
                 faults, strayed>>

\* How a tool request comes out: it does to the root what it did in the source
\* or nothing; it is ok, or it is not: it failed, told no exit code, or is a
\* tool the container's agent does not support.
ToolRuns == [asSource : BOOLEAN, ok : BOOLEAN]

\* The tool runs again, with the checks of its outcome, unless the call raises.
ExecuteInContainer ==
  /\ pc = "execute" /\ InStep /\ action.kind = "tool"
  /\ \E r \in ToolRuns :
       /\ root' = IF r.asSource THEN Written(root, action.writes) ELSE root
       /\ strayed' = (strayed \/ (~r.asSource /\ action.writes # NoWrite))
       /\ \/ /\ cur' = [Idle EXCEPT !.ok = r.ok, !.reason = MismatchReason(r.ok),
                                   !.effective = MismatchReason(r.ok)]
             /\ pc' = "ran"
             /\ UNCHANGED <<log, errors, counts, faults>>
          \/ Fault /\ Raised("execute")
  /\ UNCHANGED <<container, trace, base, folded, laneActive>>

Goes(effective) == IF effective # "none" /\ InStep THEN "sync" ELSE "log"

\* At a checkpoint of the agent the container is compared with what the source's
\* checkpoints tell, unless its own snapshot fails.
CompareAtBoundary ==
  /\ pc = "ran" /\ InStep /\ HasCheckpoint(now)
  /\ folded' = Fold(folded, trace[now].ckpt)
  /\ laneActive' = FALSE
  /\ \/ /\ cur.reason = "none" /\ ~Holds(root, folded')
        /\ cur' = [cur EXCEPT !.effective = "cas", !.laneInduced = laneActive]
        /\ UNCHANGED faults
     \/ (cur.reason # "none" \/ Holds(root, folded')) /\ UNCHANGED <<cur, faults>>
     \/ Fault /\ UNCHANGED cur
  /\ pc' = Goes(cur'.effective)
  /\ UNCHANGED <<container, trace, base, root, log, errors, counts, strayed>>

NoBoundary ==
  /\ pc = "ran" /\ ~(InStep /\ HasCheckpoint(now))
  /\ pc' = Goes(cur.effective)
  /\ UNCHANGED <<container, trace, base, root, folded, laneActive, cur, log, errors,
                 counts, faults, strayed>>
-----------------------------------------------------------------------------
(* The forced sync.                                                        *)

Failed(c) == [c EXCEPT !.attempted = TRUE, !.success = FALSE, !.continued = FALSE]
Restored(c) == [c EXCEPT !.attempted = TRUE, !.success = TRUE, !.continued = TRUE]

\* No checkpoint in the whole history, or an incremental one without a full one.
NothingToRestore ==
  /\ pc = "sync"
  /\ ChainStart(Target) = 0
  /\ cur' = Failed(cur)
  /\ pc' = "log"
  /\ UNCHANGED <<container, trace, base, root, folded, laneActive, log, errors, counts,
                 faults, strayed>>

\* A manifest unpacked: the full one clears the root first.
RestoreOne(files, c) ==
  [p \in Paths |-> IF p \in DOMAIN c.files THEN c.files[p]
                   ELSE IF c.kind = "full" \/ p \in c.deleted THEN Absent ELSE files[p]]

\* The chain of the checkpoint to go back to is at hand.
BeginRestore ==
  /\ pc = "sync" /\ ChainStart(Target) # 0
  /\ cur' = [cur EXCEPT !.attempted = TRUE, !.from = Target, !.left = Chain(Target)]
  /\ pc' = "restore"
  /\ UNCHANGED <<container, trace, base, root, folded, laneActive, log, errors, counts,
                 faults, strayed>>

\* The manifest is gone, its copy fails, or a blob is missing after the root was
\* cleared, paths were deleted and some of the files were written.
RestoreStops(c) ==
  \/ c.gone /\ UNCHANGED <<root, faults>>
  \/ ~c.gone /\ Fault /\ UNCHANGED root
  \/ /\ ~c.gone /\ Fault
     /\ \E done \in SUBSET DOMAIN c.files :
          root' = RestoreOne(root, [c EXCEPT !.files = [p \in done |-> c.files[p]]])

\* The next checkpoint of the chain is copied into the container and unpacked.
RestoreNext ==
  /\ pc = "restore"
  /\ \E n \in cur.left :
       /\ \A m \in cur.left : n <= m
       /\ \/ /\ ~trace[n].ckpt.gone
             /\ root' = RestoreOne(root, trace[n].ckpt)
             /\ cur' = [cur EXCEPT !.left = @ \ {n}]
             /\ UNCHANGED <<pc, faults>>
          \/ RestoreStops(trace[n].ckpt) /\ cur' = Failed(cur) /\ pc' = "log"
  /\ UNCHANGED <<container, trace, base, folded, laneActive, log, errors, counts, strayed>>

\* Mutant: the action that went another way is left out.
ReappliedBefore == {i \in cur.from + 1 .. now - 1 : trace[i].a.kind = "tool"}

\* After an earlier checkpoint the container tools since are executed again,
\* those of the lanes too; how they come out is not looked at.
Reapplied == {i \in cur.from + 1 .. now : trace[i].a.kind = "tool"}

\* The chain is restored; a checkpoint that is the action's own, or that no tool
\* followed, is verified.
RestoreDone ==
  /\ pc = "restore" /\ cur.left = {}
  /\ cur' = [Restored(cur) EXCEPT !.left = Reapplied]
  /\ pc' = IF Reapplied = {} THEN "verify" ELSE "reapply"
  /\ UNCHANGED <<container, trace, base, root, folded, laneActive, log, errors, counts,
                 faults, strayed>>

ReapplyNext ==
  /\ pc = "reapply"
  /\ \E n \in cur.left, asSource \in BOOLEAN :
       LET writes == trace[n].a.writes
           exact == asSource \/ writes = NoWrite
       IN /\ \A m \in cur.left : n <= m
          /\ root' = IF asSource THEN Written(root, writes) ELSE root
          /\ strayed' = (strayed \/ ~exact)
          /\ \/ /\ cur' = [cur EXCEPT !.left = @ \ {n}, !.exact = @ /\ exact]
                /\ UNCHANGED <<pc, faults>>
             \/ Fault /\ cur' = Failed(cur) /\ pc' = "log"
  /\ UNCHANGED <<container, trace, base, folded, laneActive, log, errors, counts>>

\* What was executed again cannot be verified.
ReapplyDone ==
  /\ pc = "reapply" /\ cur.left = {}
  /\ pc' = "log"
  /\ UNCHANGED <<container, trace, base, root, folded, laneActive, cur, log, errors,
                 counts, faults, strayed>>

\* The restored root is compared; a snapshot that fails leaves it unverified.
VerifyRestore ==
  /\ pc = "verify"
  /\ \/ cur' = (IF Holds(root, FoldThrough[now]) THEN cur ELSE Failed(cur))
        /\ UNCHANGED faults
     \/ Fault /\ UNCHANGED cur
  /\ pc' = "log"
  /\ UNCHANGED <<container, trace, base, root, folded, laneActive, log, errors, counts,
                 strayed>>
-----------------------------------------------------------------------------
(* The record and the summary.                                             *)

One(b) == IF b THEN 1 ELSE 0

Counted ==
  [succeeded |-> counts.succeeded + One(cur.reason = "none" /\ cur.ok),
   mismatches |-> counts.mismatches + One(cur.reason # "none"),
   unresolved |-> counts.unresolved + One(cur.reason # "none" /\ ~cur.continued),
   attempts |-> counts.attempts + One(cur.attempted),
   successes |-> counts.successes + One(cur.success),
   continued |-> counts.continued + One(cur.continued),
   fatal |-> counts.fatal + One(cur.reason = "artifact")]

\* Mutant: the counters before the record is written.
LogActionCountsFirst ==
  /\ pc = "log"
  /\ counts' = Counted /\ pc' = "next" /\ cur' = Idle
  /\ \/ log' = Append(log, [action |-> now, res |-> cur]) /\ UNCHANGED <<errors, faults>>
     \/ Fault /\ errors' = errors \cup {[action |-> now, at |-> "log"]} /\ UNCHANGED log
  /\ UNCHANGED <<container, trace, base, root, folded, laneActive, strayed>>

LogAction ==
  /\ pc = "log"
  /\ \/ /\ log' = Append(log, [action |-> now, res |-> cur])
        /\ counts' = Counted
        /\ pc' = "next" /\ cur' = Idle
        /\ UNCHANGED <<errors, faults>>
     \/ Fault /\ Raised("log")
  /\ UNCHANGED <<container, trace, base, root, folded, laneActive, strayed>>

\* The loop is over; the summary says whether the replay succeeded.
Finish ==
  /\ pc = "next"
  /\ pc' = "done"
  /\ UNCHANGED <<container, trace, base, root, folded, laneActive, cur, log, errors,
                 counts, faults, strayed>>

FailedActions == counts.mismatches + Cardinality(errors)
Success == FailedActions = 0 /\ counts.fatal = 0

Next ==
  \/ NextAction \/ ReplayLlm \/ ReplayFromTrace \/ ArtifactUnavailable
  \/ ExecuteInContainer \/ CompareAtBoundary \/ NoBoundary
  \/ NothingToRestore \/ BeginRestore \/ RestoreNext \/ RestoreDone
  \/ ReapplyNext \/ ReapplyDone \/ VerifyRestore
  \/ LogAction \/ Finish

Spec == Init /\ [][Next]_vars
-----------------------------------------------------------------------------
(* Properties.                                                             *)

Lost(i) == trace[i].ckpt.gone \/ trace[i].lost
\* No checkpoint up to here is a lane's, is gone from the disk or was lost.
CleanHistory == \A i \in 1 .. now : ~Lost(i) /\ ~(trace[i].a.lane /\ HasCheckpoint(i))

\* What the container is compared with at a boundary is the source's root
\* there: the manifests of the agent, folded one after the other, are complete,
\* whatever its lanes did.  (An action the except clause caught before its
\* boundary is not folded, and all later comparisons lack its changes.)
ComparedWithRecorded ==
  /\ pc # "next" /\ now > 0 /\ ~trace[now].a.lane /\ HasCheckpoint(now)
  /\ container /\ pc \notin {"execute", "ran", "done"}
  /\ \A i \in 1 .. now : ~trace[i].a.lane => ~Lost(i)
  /\ \A e \in errors : e.at = "log"
  => Holds(trace[now].root, folded)

\* A sync after which the replay continues has put the container where the
\* source was after this action, when the tools executed again did as in the
\* source.  (The manifests of lanes are relative to other checkpoints: with one
\* in the chain this does not hold.)
ContinuedIsRecorded ==
  pc = "log" /\ cur.continued /\ cur.exact /\ CleanHistory => root = trace[now].root

Records(P(_)) == Cardinality({n \in DOMAIN log : P(log[n].res)})
\* The counters of the summary are those of the records in the trace: an action
\* whose record could not be written is an error and nothing else.
SummaryMatchesTrace ==
  /\ counts.attempts = Records(LAMBDA r : r.attempted)
  /\ counts.successes = Records(LAMBDA r : r.success)
  /\ counts.continued = Records(LAMBDA r : r.continued)
  /\ counts.mismatches = Records(LAMBDA r : r.reason # "none")
  /\ counts.unresolved = Records(LAMBDA r : r.reason # "none" /\ ~r.continued)
  /\ counts.continued <= counts.successes /\ counts.successes <= counts.attempts
  /\ pc = "next" =>
       Len(log) + Cardinality(errors)
         = Cardinality({i \in 1 .. now : trace[i].a.kind # "skipped"})

\* A replay that reports success has left its container in step with the source:
\* no sync failed.  It does not hold: a mismatch found at a checkpoint alone
\* counts for nothing, also when restoring it stopped on an emptied root.
SuccessMeansInStep ==
  pc = "done" /\ Success => \A n \in DOMAIN log : log[n].res.attempted => log[n].res.success

\* A container found to differ at a boundary, with no tool that strayed and no
\* fault, differs by what a lane did, and the record says so: the flag is reset
\* only when the container is put right.
LaneMismatchFlagged ==
  pc # "next" /\ cur.effective = "cas" /\ ~strayed /\ faults = 0 /\ CleanHistory
    => cur.laneInduced

\* A replay that reports success has recorded every model call and tool call
\* once, in order, each with the outcome it had in the source.
SuccessIsFaithful ==
  pc = "done" /\ Success =>
    /\ {log[n].action : n \in DOMAIN log} = {i \in 1 .. now : trace[i].a.kind # "skipped"}
    /\ \A m, n \in DOMAIN log : m < n => log[m].action < log[n].action
    /\ \A n \in DOMAIN log :
         LET a == trace[log[n].action].a
         IN a.kind = "llm" \/ log[n].res.ok = a.ok

\* What the replay says of itself is so: its records, its counters, its success
\* and the reason it gives for a mismatch.
ReportFaithful == SummaryMatchesTrace /\ SuccessIsFaithful /\ LaneMismatchFlagged
=============================================================================
