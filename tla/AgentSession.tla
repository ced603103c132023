---------------------------- MODULE AgentSession ----------------------------
(***************************************************************************)
(* One OpenClaw session over the life of several processes: SessionRunner  *)
(* publishes a prompt and waits for a reply, AgentLoop dispatches messages *)
(* under a lock per key and a global gate, each turn checkpoints its       *)
(* progress into the session file, subagents announce their results as     *)
(* further messages, and an exception, a crash or a resume may come        *)
(* between any two awaits.                                                 *)
(*                                                                         *)
(* A turn is a message being processed: prompt r belongs to run r, the     *)
(* announcements follow.  An iteration issues one tool call; a batch is    *)
(* checkpointed as a whole, so more calls add nothing.  Between two awaits *)
(* the event loop runs nothing else: every action is such a segment.       *)
(***************************************************************************)
EXTENDS Naturals, Sequences, FiniteSets, SequencesExt

CONSTANTS
    RunKey,         \* session_key: what the run was asked to use
    TurnKey,        \* "channel:chat", the key the turn computes
    SystemKey,      \* "system:channel:chat", the key of an announcement
    MaxConcurrent,  \* NANOBOT_MAX_CONCURRENT_REQUESTS
    RawAfter,       \* _MAX_FAILURES_BEFORE_RAW_ARCHIVE
    MaxIterations,  \* bound: model requests per turn, in any plan
    MaxRuns,        \* bound: processes that use this session
    MaxSpawns,      \* bound: subagents
    Plans           \* bounds of one behaviour, one of these records

(***************************************************************************)
(* runs        processes started                                           *)
(* iterations  max_iterations, the model requests of a turn                *)
(* spawns      subagents                                                   *)
(* faults      turns that raise                                            *)
(* crashes     processes killed                                            *)
(***************************************************************************)
ASSUME KeysAssumption == SystemKey \notin {RunKey, TurnKey}
ASSUME BoundsAssumption ==
    /\ {MaxConcurrent, RawAfter, MaxIterations, MaxRuns} \subseteq Nat \ {0}
    /\ MaxSpawns \in Nat
    /\ \A p \in Plans : p \in [runs : 0..MaxRuns, iterations : 1..MaxIterations,
                               spawns : 0..MaxSpawns, faults : Nat, crashes : Nat]

VARIABLES
    plan,       \* the bounds of this behaviour
    phase,      \* SessionRunner.run: idle, waiting, stopping, returned
    run,        \* number of runs started
    loop,       \* AgentLoop.run: running, stopping (stop() called), exited
    inbound,    \* MessageBus.inbound
    turn,       \* the dispatch task of each message
    lockq,      \* _session_locks: the holder, then the waiters
    gateq,      \* waiters of _concurrency_gate
    gateFree,   \* permits of _concurrency_gate
    cache,      \* SessionManager._cache for TurnKey
    file,       \* the session's JSONL file
    consol,     \* the consolidation lock and the round it protects
    background, \* scheduled background consolidations
    noted,      \* messages whose content HISTORY.md holds, summarised or raw
    failures,   \* MemoryStore._consecutive_failures
    outcome,    \* _last_run_outcomes
    llmError,   \* an llm_error event is in the run's trace
    replies,    \* MessageBus.outbound
    results,    \* ResultCollector._results[TurnKey]: the turns whose text it holds
    reported,   \* stop_reason of each SessionRunResult
    subs,       \* the subagents
    emitted,    \* history variable: the last message each turn checkpointed
    faults, crashes

process == <<phase, run, loop>>
sched == <<lockq, gateq, gateFree>>
session == <<cache, file>>
memory == <<consol, background, noted, failures>>
answer == <<outcome, llmError, replies, results, reported>>
bounds == <<plan, faults, crashes>>
sessionVars == <<process, inbound, turn, sched, session, memory, answer, subs, emitted, bounds>>

-----------------------------------------------------------------------------
(* Messages and the session *)

Prompts == 1..MaxRuns
Announcements == MaxRuns + 1 .. MaxRuns + MaxSpawns
Turns == Prompts \cup Announcements

NoMessage == [role |-> "none", turn |-> 0, iter |-> 0, text |-> "none"]
Message(role, t, i, text) == [role |-> role, turn |-> t, iter |-> i, text |-> text]
Request(t) ==
    IF t \in Prompts THEN Message("user", t, 0, "prompt")
    ELSE Message("assistant", t, 0, "announcement")
Call(t, i) == Message("assistant", t, i, "call")
Result(t, i) == Message("tool", t, i, "result")
Interrupted(t, i) == Message("tool", t, i, "interrupted")
Final(t) == Message("assistant", t, 0, "final")

IsCallOf(call, res) == call.text = "call" /\ call.turn = res.turn /\ call.iter = res.iter

NoCheckpoint == [message |-> NoMessage, completed |-> <<>>, pending |-> <<>>]
EmptySession == [messages |-> <<>>, archived |-> 0, checkpoint |-> NoCheckpoint]
NotLoaded == [messages |-> <<>>, archived |-> 0, checkpoint |-> NoMessage]

(* SessionManager.get_or_create *)
\* Mutant: a new process starts from an empty session.
LoadStartsEmpty == IF cache = NotLoaded THEN EmptySession ELSE cache

Loaded == IF cache = NotLoaded THEN file ELSE cache

(* find_legal_message_start: drop everything up to an orphaned result. *)
LegalStart(ms) ==
    LET Dropped[i \in 0..Len(ms)] ==
            IF i = 0 THEN 0
            ELSE IF ms[i].role = "tool"
                      /\ ~ \E j \in Dropped[i - 1] + 1 .. i - 1 : IsCallOf(ms[j], ms[i])
                 THEN i
                 ELSE Dropped[i - 1]
    IN  SubSeq(ms, Dropped[Len(ms)] + 1, Len(ms))

(* Session.get_history: what was not archived, from its first user message. *)
History(s) ==
    LET live == SubSeq(s.messages, s.archived + 1, Len(s.messages))
        users == {i \in 1..Len(live) : live[i].role = "user"}
    IN  LegalStart(IF users = {} THEN live
                   ELSE SubSeq(live, CHOOSE i \in users : \A j \in users : i <= j, Len(live)))

(* ContextBuilder.build_messages: a request of the same role as the last   *)
(* message is merged into a copy of that message.                          *)
PromptMessages(s, t) ==
    LET h == History(s)
    IN  IF h # <<>> /\ Last(h).role = Request(t).role
        THEN [h EXCEPT ![Len(h)].text = "merged"]
        ELSE Append(h, Request(t))

(* _restore_runtime_checkpoint *)
Materialised(c) ==
    <<c.message>> \o c.completed \o [i \in 1..Len(c.pending) |->
        Interrupted(c.message.turn, c.pending[i])]

Overlap(ms, restored) ==
    CHOOSE n \in 0..Len(restored) :
        /\ n <= Len(ms) /\ IsSuffix(SubSeq(restored, 1, n), ms)
        /\ \A k \in n + 1 .. Len(restored) :
               k <= Len(ms) => ~ IsSuffix(SubSeq(restored, 1, k), ms)

\* Mutant: a call that was pending is left without a result.
RestoreForgetsPending(s) ==
    IF s.checkpoint = NoCheckpoint THEN s
    ELSE [s EXCEPT !.messages = @ \o (<<s.checkpoint.message>> \o s.checkpoint.completed),
                   !.checkpoint = NoCheckpoint]

Restore(s) ==
    IF s.checkpoint = NoCheckpoint THEN s
    ELSE LET restored == Materialised(s.checkpoint)
             n == Overlap(s.messages, restored)
         IN  [s EXCEPT !.messages = @ \o SubSeq(restored, n + 1, Len(restored)),
                       !.checkpoint = NoCheckpoint]

(* SessionManager.save *)
Save(s) == cache' = s /\ file' = s

(* _set_runtime_checkpoint *)
Checkpoint(message, completed, pending) ==
    Save([cache EXCEPT !.checkpoint =
             [message |-> message, completed |-> completed, pending |-> pending]])

(* The messages the consolidation under way would archive; a message       *)
(* without content, an assistant's bare call, is not shown to the model.   *)
Chunk ==
    {m \in Range(SubSeq(cache.messages, cache.archived + 1, consol.upto)) : m.text # "call"}

-----------------------------------------------------------------------------
(* Scheduling *)

LockKey(t) == IF t \in Prompts THEN RunKey ELSE SystemKey
LockKeys == {RunKey, SystemKey}
OutcomeKeys == {RunKey, TurnKey, SystemKey}

Running == {"consolidate", "model", "tool", "closing"}
Ended == {"idle", "done", "failed", "lost"}
NoTurn == [pc |-> "idle", iter |-> 0, base |-> 0, messages |-> <<>>, stop |-> "none"]

Goto(t, pc) == turn' = [turn EXCEPT ![t].pc = pc]

(* Leaving `async with lock, gate`. *)
\* Mutant: the lock stays with a turn that ended.
ReleaseGateOnly(t) ==
    /\ gateFree' = gateFree + 1
    /\ UNCHANGED <<lockq, gateq>>

Release(t) ==
    /\ lockq' = [lockq EXCEPT ![LockKey(t)] = Tail(@)]
    /\ gateFree' = gateFree + 1
    /\ gateq' = gateq

SessionInit ==
    /\ phase = "idle" /\ run = 0 /\ loop = "exited"
    /\ inbound = <<>>
    /\ turn = [t \in Turns |-> NoTurn]
    /\ lockq = [k \in LockKeys |-> <<>>]
    /\ gateq = <<>> /\ gateFree = MaxConcurrent
    /\ cache = NotLoaded /\ file = EmptySession
    /\ consol = [turn |-> 0, bg |-> FALSE, upto |-> 0] /\ background = {}
    /\ noted = {} /\ failures = 0
    /\ outcome = [k \in OutcomeKeys |-> "none"] /\ llmError = FALSE
    /\ replies = <<>> /\ results = <<>>
    /\ reported = [t \in Prompts |-> "none"]
    /\ subs = [a \in Announcements |-> "unborn"]
    /\ emitted = [t \in Turns |-> NoMessage]
    /\ plan \in Plans
    /\ faults = 0 /\ crashes = 0

-----------------------------------------------------------------------------
(* SessionRunner.run *)

StartRun ==
    /\ phase = "idle" /\ run < plan.runs
    /\ phase' = "waiting" /\ run' = run + 1 /\ loop' = "running"
    /\ Goto(run + 1, "queued")
    /\ inbound' = <<run + 1>>
    /\ UNCHANGED <<sched, session, memory, answer, subs, emitted, bounds>>

(* ResultCollector: only a reply to the run's own channel and chat is kept. *)
Collect ==
    /\ phase = "waiting" /\ replies # <<>>
    /\ replies' = Tail(replies)
    /\ results' = IF Head(replies).key = TurnKey
                  THEN Append(results, Head(replies).turn) ELSE results
    /\ UNCHANGED <<process, inbound, turn, sched, session, memory, outcome, llmError,
                   reported, subs, emitted, bounds>>

(* wait_for_result returns at the first reply; the stack stops the loop. *)
TakeResult ==
    /\ phase = "waiting" /\ results # <<>>
    /\ phase' = "stopping" /\ loop' = "stopping"
    /\ UNCHANGED <<run, inbound, turn, sched, session, memory, answer, subs, emitted, bounds>>

(* The loop leaves its one-second wait and sees that it was stopped. *)
LoopExits ==
    /\ loop = "stopping"
    /\ loop' = "exited"
    /\ UNCHANGED <<phase, run, inbound, turn, sched, session, memory, answer, subs,
                   emitted, bounds>>

(* _resolve_run_outcome *)
Outcome ==
    IF outcome[RunKey] \notin {"none", "completed"} THEN outcome[RunKey]
    ELSE IF llmError THEN "error" ELSE "completed"

Report ==
    /\ phase = "stopping" /\ loop = "exited"
    /\ phase' = "returned"
    /\ reported' = [reported EXCEPT ![run] = Outcome]
    /\ UNCHANGED <<run, loop, inbound, turn, sched, session, memory, outcome, llmError,
                   replies, results, subs, emitted, bounds>>

(* The process is gone, and with it every task and queue. *)
ProcessEnds ==
    /\ phase' = "idle" /\ loop' = "exited" /\ run' = run
    /\ inbound' = <<>>
    /\ turn' = [t \in Turns |->
                   IF turn[t].pc \in Ended THEN turn[t] ELSE [NoTurn EXCEPT !.pc = "lost"]]
    /\ lockq' = [k \in LockKeys |-> <<>>]
    /\ gateq' = <<>> /\ gateFree' = MaxConcurrent
    /\ cache' = NotLoaded /\ file' = file
    /\ consol' = [turn |-> 0, bg |-> FALSE, upto |-> 0] /\ background' = {}
    /\ failures' = 0
    /\ outcome' = [k \in OutcomeKeys |-> "none"] /\ llmError' = FALSE
    /\ replies' = <<>> /\ results' = <<>>
    /\ subs' = [a \in Announcements |-> IF subs[a] = "running" THEN "lost" ELSE subs[a]]
    /\ UNCHANGED <<reported, emitted>>

Exit == phase = "returned" /\ ProcessEnds /\ UNCHANGED <<noted, bounds>>

(* Killed between two awaits, or between two writes of a consolidation.    *)
Crash ==
    /\ phase # "idle" /\ crashes < plan.crashes
    /\ crashes' = crashes + 1
    /\ ProcessEnds
    /\ noted' \in IF consol.turn = 0 THEN {noted} ELSE {noted, noted \cup Chunk}
    /\ UNCHANGED <<plan, faults>>

-----------------------------------------------------------------------------
(* AgentLoop.run and _dispatch *)

(* A message that arrives during the last wait is still dispatched. *)
Consume ==
    /\ loop # "exited" /\ inbound # <<>>
    /\ loop' = IF loop = "stopping" THEN "exited" ELSE loop
    /\ LET t == Head(inbound)
       IN  /\ Goto(t, "lock")
           /\ lockq' = [lockq EXCEPT ![LockKey(t)] = Append(@, t)]
    /\ inbound' = Tail(inbound)
    /\ UNCHANGED <<phase, run, gateq, gateFree, session, memory, answer, subs, emitted, bounds>>

AcquireLock(t) ==
    /\ turn[t].pc = "lock" /\ Head(lockq[LockKey(t)]) = t
    /\ Goto(t, "gate")
    /\ gateq' = Append(gateq, t)
    /\ UNCHANGED <<process, inbound, lockq, gateFree, session, memory, answer, subs,
                   emitted, bounds>>

(* The gate is entered and _process_message loads and restores the session. *)
BeginTurn(t) ==
    /\ turn[t].pc = "gate" /\ Head(gateq) = t /\ gateFree > 0
    /\ gateq' = Tail(gateq) /\ gateFree' = gateFree - 1
    /\ Goto(t, "consolidate")
    /\ IF Loaded.checkpoint = NoCheckpoint
       THEN cache' = Loaded /\ file' = file
       ELSE Save(Restore(Loaded))
    /\ UNCHANGED <<process, inbound, lockq, memory, answer, subs, emitted, bounds>>

-----------------------------------------------------------------------------
(* maybe_consolidate_by_tokens, before the prompt is built (bg = FALSE) or *)
(* in the background after the turn (bg = TRUE)                            *)

Unlocked == consol.turn = 0

Workers ==
    {[turn |-> t, bg |-> FALSE] : t \in {u \in Turns : turn[u].pc = "consolidate"}}
        \cup {[turn |-> t, bg |-> TRUE] : t \in background}

Idle(w) == ~ (consol.turn = w.turn /\ consol.bg = w.bg)

(* pick_consolidation_boundary: a user message after what is archived. *)
Boundaries(s) ==
    {n \in s.archived + 1 .. Len(s.messages) - 1 : s.messages[n + 1].role = "user"}

\* Mutant: the offset is saved before the model has answered.
StartConsolidationSaves(w) ==
    /\ w \in Workers /\ Unlocked
    /\ \E n \in Boundaries(cache) :
           /\ consol' = [turn |-> w.turn, bg |-> w.bg, upto |-> n]
           /\ Save([cache EXCEPT !.archived = n])
    /\ UNCHANGED <<process, inbound, turn, sched, background, noted, failures, answer, subs,
                   emitted, bounds>>

StartConsolidation(w) ==
    /\ w \in Workers /\ Unlocked
    /\ \E n \in Boundaries(cache) :
           consol' = [turn |-> w.turn, bg |-> w.bg, upto |-> n]
    /\ UNCHANGED <<process, inbound, turn, sched, session, background, noted, failures,
                   answer, subs, emitted, bounds>>

(* The consolidation returns: the turn builds its prompt and asks the model. *)
EndConsolidation(w, s) ==
    IF w.bg
    THEN background' = background \ {w.turn} /\ turn' = turn
    ELSE /\ turn' = [turn EXCEPT ![w.turn].pc = "model",
                                 ![w.turn].base = Len(History(s)),
                                 ![w.turn].messages = PromptMessages(s, w.turn)]
         /\ background' = background

NoConsolidation(w) ==
    /\ w \in Workers /\ Idle(w)
    /\ Unlocked \/ cache.messages = <<>>
    /\ EndConsolidation(w, cache)
    /\ UNCHANGED <<process, inbound, sched, session, consol, noted, failures, answer, subs,
                   emitted, bounds>>

(* MemoryStore.consolidate: an entry for the chunk is in HISTORY.md, the   *)
(* model's or, at the last failure in a row, the messages themselves.      *)
NoteChunk == noted' = noted \cup Chunk /\ failures' = 0

(* The chunk is archived; another round may follow under the same lock. *)
FinishRound ==
    /\ ~ Unlocked
    /\ NoteChunk
    /\ LET s == [cache EXCEPT !.archived = consol.upto]
       IN  /\ Save(s)
           /\ \/ /\ \E n \in Boundaries(s) : consol' = [consol EXCEPT !.upto = n]
                 /\ UNCHANGED <<turn, background>>
              \/ /\ consol' = [turn |-> 0, bg |-> FALSE, upto |-> 0]
                 /\ EndConsolidation([turn |-> consol.turn, bg |-> consol.bg], s)
    /\ UNCHANGED <<process, inbound, sched, answer, subs, emitted, bounds>>

(* The model did not save the memory, or MEMORY.md could not be written    *)
(* after HISTORY.md was: nothing is archived.                              *)
AbandonRound ==
    /\ ~ Unlocked
    /\ failures + 1 < RawAfter
    /\ failures' = failures + 1
    /\ noted' \in {noted, noted \cup Chunk}
    /\ consol' = [turn |-> 0, bg |-> FALSE, upto |-> 0]
    /\ EndConsolidation([turn |-> consol.turn, bg |-> consol.bg], cache)
    /\ UNCHANGED <<process, inbound, sched, session, answer, subs, emitted, bounds>>

-----------------------------------------------------------------------------
(* AgentRunner.run *)

Ask(t) == turn[t].pc = "model" /\ turn[t].iter < plan.iterations

(* The model asks for a tool: checkpoint "awaiting_tools", then execute. *)
\* Mutant: the tool starts before the checkpoint is written.
ToolBeforeCheckpoint(t) ==
    /\ Ask(t)
    /\ LET i == turn[t].iter + 1
       IN  /\ turn' = [turn EXCEPT ![t].pc = "tool",
                                   ![t].messages = Append(@, Call(t, i))]
           /\ emitted' = [emitted EXCEPT ![t] = Call(t, i)]
    /\ UNCHANGED <<process, inbound, sched, session, memory, answer, subs, bounds>>

CallTool(t) ==
    /\ Ask(t)
    /\ LET i == turn[t].iter + 1
       IN  /\ turn' = [turn EXCEPT ![t].pc = "tool",
                                   ![t].messages = Append(@, Call(t, i))]
           /\ Checkpoint(Call(t, i), <<>>, <<i>>)
           /\ emitted' = [emitted EXCEPT ![t] = Call(t, i)]
    /\ UNCHANGED <<process, inbound, sched, memory, answer, subs, bounds>>

(* SubagentManager.spawn: the tool returns, the subagent runs on. *)
Spawn(a) ==
    /\ subs[a] = "unborn"
    /\ Cardinality({b \in Announcements : subs[b] # "unborn"}) < plan.spawns
    /\ subs' = [subs EXCEPT ![a] = "running"]

(* The tool returns: checkpoint "tools_completed", next iteration. *)
ToolReturns(t) ==
    /\ turn[t].pc = "tool"
    /\ LET i == turn[t].iter + 1
       IN  /\ turn' = [turn EXCEPT ![t].pc = "model", ![t].iter = i,
                                   ![t].messages = Append(@, Result(t, i))]
           /\ Checkpoint(Call(t, i), <<Result(t, i)>>, <<>>)
    /\ \/ subs' = subs
       \/ \E a \in Announcements : Spawn(a)
    /\ UNCHANGED <<process, inbound, sched, memory, answer, emitted, bounds>>

(* A malformed call costs an iteration; its synthetic pair is stripped. *)
MalformedCall(t) ==
    /\ Ask(t)
    /\ turn' = [turn EXCEPT ![t].iter = @ + 1]
    /\ UNCHANGED <<process, inbound, sched, session, memory, answer, subs, emitted, bounds>>

(* _append_final_message replaces a trailing assistant text. *)
AppendFinal(ms, t) ==
    IF ms # <<>> /\ Last(ms).role = "assistant" /\ Last(ms).text # "call"
    THEN [ms EXCEPT ![Len(ms)] = Final(t)]
    ELSE Append(ms, Final(t))

(* The final response: checkpoint "final_response", await the hooks. *)
Answer(t) ==
    /\ Ask(t)
    /\ turn' = [turn EXCEPT ![t].pc = "closing", ![t].stop = "completed",
                            ![t].messages = Append(@, Final(t))]
    /\ Checkpoint(Final(t), <<>>, <<>>)
    /\ emitted' = [emitted EXCEPT ![t] = Final(t)]
    /\ UNCHANGED <<process, inbound, sched, memory, answer, subs, bounds>>

(* An LLM error, or a blank answer (an exhausted malformed budget ends the *)
(* turn the same way): no checkpoint.  So it is when the iterations run    *)
(* out.                                                                    *)
GiveUp(t) ==
    /\ turn[t].pc = "model"
    /\ \E stop \in IF Ask(t) THEN {"error", "empty_final_response"} ELSE {"max_iterations"} :
           /\ turn' = [turn EXCEPT ![t].pc = "closing", ![t].stop = stop,
                                   ![t].messages = AppendFinal(@, t)]
           /\ llmError' = (llmError \/ stop = "error")
    /\ UNCHANGED <<process, inbound, sched, session, memory, outcome, replies, results,
                   reported, subs, emitted, bounds>>

-----------------------------------------------------------------------------
(* The end of _process_message and of _dispatch *)

(* _save_turn takes what follows the prompt's history. *)
TurnTail(t) == SubSeq(turn[t].messages, turn[t].base + 1, Len(turn[t].messages))

(* _run_agent_loop stores the outcome under the session's own key, *)
RunOutcome(t) == [outcome EXCEPT ![TurnKey] = turn[t].stop]

(* _process_message saves the turn and drops its checkpoint, *)
SaveTurn(t) ==
    Save([cache EXCEPT !.messages = @ \o TurnTail(t), !.checkpoint = NoCheckpoint])

(* and _dispatch publishes the reply and leaves the lock and the gate. *)
Reply(t, key) ==
    /\ replies' = Append(replies, [key |-> key, turn |-> t])
    /\ Release(t)

CloseTurn(t) ==
    /\ turn[t].pc = "closing"
    /\ outcome' = RunOutcome(t)
    /\ SaveTurn(t)
    /\ background' = background \cup {t}
    /\ Goto(t, "done")
    /\ Reply(t, TurnKey)
    /\ UNCHANGED <<process, inbound, consol, noted, failures, llmError, results, reported, subs, emitted,
                   bounds>>

(* An exception, whose reply goes to the message's own channel.  When it   *)
(* comes from _save_turn, the messages before the offending tool result    *)
(* are in the cached session already.                                      *)
FailTurn(t) ==
    /\ turn[t].pc \in {"model", "tool", "closing"} /\ faults < plan.faults
    /\ faults' = faults + 1
    /\ IF turn[t].pc = "closing"
       THEN /\ outcome' = [RunOutcome(t) EXCEPT ![LockKey(t)] = "error"]
            /\ \/ cache' = cache
               \/ \E i \in 1..Len(TurnTail(t)) :
                      /\ TurnTail(t)[i].role = "tool"
                      /\ cache' = [cache EXCEPT !.messages = @ \o SubSeq(TurnTail(t), 1, i - 1)]
       ELSE /\ outcome' = [outcome EXCEPT ![LockKey(t)] = "error"]
            /\ cache' = cache
    /\ Goto(t, "failed")
    /\ Reply(t, SystemKey)
    /\ UNCHANGED <<process, inbound, file, memory, llmError, results, reported, subs,
                   emitted, plan, crashes>>

(* _announce_result publishes a message of the channel "system". *)
AnnounceResult(a) ==
    /\ Goto(a, "queued")
    /\ inbound' = Append(inbound, a)

(* SubagentManager._run_subagent, whose run is that of AgentRun: completed,  *)
(* stopped by an error or raised, it announces a result.  Its LLM errors are *)
(* in the same trace.                                                        *)
Announce(a) ==
    /\ subs[a] = "running"
    /\ subs' = [subs EXCEPT ![a] = "announced"]
    /\ AnnounceResult(a)
    /\ llmError' \in {llmError, TRUE}
    /\ UNCHANGED <<process, sched, session, memory, outcome, replies, results, reported,
                   emitted, bounds>>

-----------------------------------------------------------------------------
Step(t) ==
    \/ AcquireLock(t) \/ BeginTurn(t)
    \/ CallTool(t) \/ ToolReturns(t) \/ MalformedCall(t) \/ Answer(t) \/ GiveUp(t)
    \/ CloseTurn(t)

Consolidate ==
    \/ \E w \in Workers : StartConsolidation(w) \/ NoConsolidation(w)
    \/ FinishRound \/ AbandonRound

Host == Collect \/ TakeResult \/ LoopExits \/ Report \/ Exit

SessionNext ==
    \/ StartRun \/ Host \/ Crash \/ Consume \/ Consolidate
    \/ \E t \in Turns : Step(t) \/ FailTurn(t)
    \/ \E a \in Announcements : Announce(a)

SessionSpec == SessionInit /\ [][SessionNext]_sessionVars

(* The event loop runs every task that is ready, and the provider and the  *)
(* tools answer within their timeouts.  Nobody is obliged to start a run,  *)
(* to crash or to raise.                                                   *)
Fairness ==
    /\ WF_sessionVars(Host) /\ WF_sessionVars(Consume)
    /\ WF_sessionVars(Consolidate)
    /\ \A t \in Turns : WF_sessionVars(Step(t))
    /\ \A a \in Announcements : WF_sessionVars(Announce(a))

FairSpec == SessionSpec /\ Fairness

-----------------------------------------------------------------------------
(* Properties *)

Messages == [role : {"user", "assistant", "tool", "none"}, turn : Turns \cup {0},
             iter : 0..MaxIterations,
             text : {"prompt", "announcement", "call", "result", "interrupted", "final",
                     "merged", "none"}]
IsSession(s) ==
    /\ DOMAIN s = {"messages", "archived", "checkpoint"}
    /\ \A i \in 1..Len(s.messages) : s.messages[i] \in Messages
    /\ s.archived \in 0..Len(s.messages)
    /\ s.checkpoint.message \in Messages
    /\ Len(s.checkpoint.completed) + Len(s.checkpoint.pending) <= 1

(* Every variable keeps its shape, no more than MaxConcurrent turns run,   *)
(* and each of them holds its lock.                                        *)
TypeOK ==
    /\ phase \in {"idle", "waiting", "stopping", "returned"} /\ run \in 0..MaxRuns
    /\ loop \in {"running", "stopping", "exited"}
    /\ IsSession(file) /\ (cache = NotLoaded \/ IsSession(cache))
    /\ \A t \in Turns :
           /\ turn[t].pc \in Running \cup Ended \cup {"queued", "lock", "gate"}
           /\ turn[t].iter \in 0..MaxIterations
           /\ turn[t].pc \in Running => Head(lockq[LockKey(t)]) = t
    /\ gateFree + Cardinality({t \in Turns : turn[t].pc \in Running}) = MaxConcurrent
    /\ background \subseteq Turns /\ consol.turn \in Turns \cup {0}
    /\ noted \subseteq Messages /\ failures \in 0 .. RawAfter - 1
    /\ plan \in Plans /\ faults \in 0..plan.faults /\ crashes \in 0..plan.crashes

(* Without subagents, whose announcements run beside the run's own turn,   *)
(* the saved history is one a provider accepts, whatever crashed, raised   *)
(* or was resumed before: no message twice, every call followed at once by *)
(* its one result, every result preceded by its call, the turns in order.  *)
HistoryWellFormed ==
    LET ms == file.messages
    IN  plan.spawns = 0 =>
        /\ IsInjective(ms)
        /\ \A i \in 1..Len(ms) :
               /\ ms[i].text = "call" =>
                      i < Len(ms) /\ ms[i + 1].role = "tool" /\ IsCallOf(ms[i], ms[i + 1])
               /\ ms[i].role = "tool" => i > 1 /\ IsCallOf(ms[i - 1], ms[i])
        /\ \A i, j \in 1..Len(ms) : i < j => ms[i].turn <= ms[j].turn

(* What a process has saved no later process, restore or consolidation     *)
(* takes back: the saved history only grows, and what was archived stays   *)
(* archived.                                                               *)
SavedHistoryKept ==
    [][ /\ IsPrefix(file.messages, file'.messages)
        /\ file.archived <= file'.archived ]_sessionVars

(* The last step a turn checkpointed, a call whose tool may have changed   *)
(* the workspace or the final response, stays on record across crashes,    *)
(* exceptions and resumes: in the history or in the pending checkpoint (of *)
(* a session without subagents, whose turns would share the checkpoint).   *)
LastStepOnRecord ==
    \A t \in Turns : plan.spawns = 0 /\ emitted[t] # NoMessage =>
        \/ file.checkpoint.message = emitted[t]
        \/ \E i \in 1..Len(file.messages) : file.messages[i] = emitted[t]

(* What the session says is archived, and no later prompt shows, is in the *)
(* history file, whatever the model answered, failed or was killed in.     *)
ArchivedIsNoted ==
    \A i \in 1..file.archived :
        file.messages[i].text # "call" => file.messages[i] \in noted

(* Every dispatched message is processed to its end or raises, and gives   *)
(* its lock and its permit to the next, unless its process ends.           *)
DispatchEnds == \A t \in Turns : turn[t].pc = "lock" ~> turn[t].pc \in Ended

(* A subagent's result reaches the model while the loop is there to take   *)
(* it.                                                                     *)
AnnouncementsTaken ==
    \A a \in Announcements :
        subs[a] = "announced" ~> (turn[a].pc \in {"done", "failed"} \/ loop = "exited")

(* No message waits for ever, whoever it is from.                          *)
MessagesHandled == DispatchEnds /\ AnnouncementsTaken

(* SessionRunner.run returns with the answer of its own prompt.            *)
AnswerIsOwn ==
    phase \in {"stopping", "returned"} => turn[run].pc \in {"done", "failed"}

(* The stop reason a run reports is the one its turn ended with.           *)
OutcomeReported ==
    phase = "returned" /\ turn[run].pc = "done" => reported[run] = turn[run].stop

(* A run that waits for its reply gets one, or its process ends.           *)
RunReturns == phase = "waiting" ~> phase # "waiting"

(* A turn that appears in the saved history appears with the prompt it     *)
(* answers.                                                                *)
PromptOnRecord ==
    \A i \in 1..Len(file.messages) :
        file.messages[i].turn \in Prompts =>
            Contains(file.messages, Request(file.messages[i].turn))

(* A turn that ended has its request among the session's messages.         *)
RequestSaved ==
    \A t \in Turns : turn[t].pc = "done" /\ cache # NotLoaded =>
        Contains(cache.messages, Request(t))

(* A call recorded as interrupted was interrupted: it has no other result. *)
InterruptedOnce ==
    \A t \in Turns, i \in 1..MaxIterations :
        ~ (Contains(file.messages, Interrupted(t, i)) /\ Contains(file.messages, Result(t, i)))
=============================================================================
