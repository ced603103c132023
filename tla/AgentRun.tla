------------------------------ MODULE AgentRun ------------------------------
(***************************************************************************)
(* One run of the agent: AgentRunner.run in                                *)
(* src/src/agents/openclaw/_runner.py, with the retries of the provider it *)
(* calls (src/src/llm_call/provider_base.py).                              *)
(*                                                                         *)
(* Every iteration snips the history to the context window, asks the       *)
(* model, and executes the tool calls of its answer: calls of tools that   *)
(* are safe to run beside each other at once, the others alone.  The run   *)
(* ends with a final answer, an error, or after the last iteration.        *)
(***************************************************************************)
EXTENDS Integers, FiniteSets, SequencesExt

CONSTANTS
  Tools,          \* tools a model may call
  Safe,           \* those that are read only and not exclusive
  Unknown,        \* those the registry does not have, or not with these arguments
  Lookups,        \* those that look something up outside, always the same here
  CallLists,      \* the tool calls an answer may hold: sequences of tools
  MaxIterations,  \* the iterations of a run
  Window,         \* messages besides the system's that fit into the prompt
  Budgets,        \* what malformed_retry_budget may be
  Delays,         \* retries of a request after a transient error
  MaxErrors       \* bound on transient errors of one run

ASSUME AgentRunAssumption ==
  /\ Safe \subseteq Tools /\ Unknown \subseteq Tools /\ Lookups \subseteq Tools
  /\ CallLists \subseteq Seq(Tools) \ {<<>>}
  /\ MaxIterations \in Nat \ {0} /\ Window \in Nat \ {0}
  /\ Budgets \subseteq Nat /\ Delays \in Nat /\ MaxErrors \in Nat

VARIABLES
  failFast,    \* fail_on_tool_error and one call at a time: a subagent's run
  hasImages,   \* whether the messages hold images
  budget,      \* malformed_retry_budget
  phase,       \* "iterate", "request", "respond", "tools", "finalize", "finalized", "done"
  iteration,   \* iterations begun
  messages,    \* the conversation
  prompt,      \* messages_for_model
  attempt,     \* requests of this iteration that failed
  errors,      \* transient errors so far
  answer,      \* the model's answer
  status,      \* of the calls of the answer: "pending", "running", "ok", "error"
  seen,        \* external_lookup_counts
  malformed,   \* the count of malformed answers and the prompt of the last
  checkpoint,  \* what the checkpoint callback was given last
  hook,        \* how far the hooks of this iteration have been called
  stop         \* stop_reason, or "none"

runVars == <<failFast, hasImages, budget, phase, iteration, messages, prompt, attempt, errors,
             answer, status, seen, malformed, checkpoint, hook, stop>>

System == [role |-> "system", calls |-> <<>>, call |-> <<0, 0>>]
User == [role |-> "user", calls |-> <<>>, call |-> <<0, 0>>]
\* The calls of iteration i are numbered; that of a malformed answer is 0.
Assistant(ids) == [role |-> "assistant", calls |-> ids, call |-> <<0, 0>>]
ToolMessage(id) == [role |-> "tool", calls |-> <<>>, call |-> id]
NoAnswer == [kind |-> "none", tools |-> <<>>]
Text(kind) == [kind |-> kind, tools |-> <<>>]

RunInit ==
  /\ failFast \in BOOLEAN /\ hasImages \in BOOLEAN /\ budget \in Budgets
  /\ phase = "iterate" /\ iteration = 0
  /\ messages = <<System, User>> /\ prompt = <<>>
  /\ attempt = 0 /\ errors = 0 /\ answer = NoAnswer
  /\ status = <<>> /\ seen = 0
  /\ malformed = [count |-> 0, prompt |-> <<>>]
  /\ checkpoint = [phase |-> "none", calls |-> <<>>]
  /\ hook = "after_iteration" /\ stop = "none"
-----------------------------------------------------------------------------
(* Context governance.                                                     *)

CallIds(m) == {m.calls[k] : k \in DOMAIN m.calls}

\* Past the last tool result whose call is not among the messages kept: calls
\* before such a result do not count any more.
LegalStart(ms) ==
  LET start[i \in 0 .. Len(ms)] ==
        IF i = 0 THEN 0
        ELSE IF ms[i].role = "tool"
                  /\ ~ \E j \in start[i - 1] + 1 .. i - 1 : ms[i].call \in CallIds(ms[j])
             THEN i
             ELSE start[i - 1]
  IN start[Len(ms)]

Tail4(ms) == SubSeq(ms, Len(ms) - (IF Len(ms) < 4 THEN Len(ms) ELSE 4) + 1, Len(ms))
From(ms, start) == SubSeq(ms, start + 1, Len(ms))
\* From the first request of the user that is left, if there is one.
FromUser(ms) ==
  LET users == {i \in DOMAIN ms : ms[i].role = "user"}
  IN IF users = {} THEN ms ELSE SubSeq(ms, CHOOSE i \in users : \A j \in users : i <= j, Len(ms))

\* The messages at some positions, in their order.
Selected(ms, positions) ==
  LET kept[n \in 0 .. Len(ms)] ==
        IF n = 0 THEN <<>>
        ELSE IF n \in positions THEN Append(kept[n - 1], ms[n]) ELSE kept[n - 1]
  IN kept[Len(ms)]

SystemAt(ms) == {i \in DOMAIN ms : ms[i].role = "system"}

\* Mutant: results whose calls were cut off stay.
SnipWithoutStart(ms) ==
  LET rest == Selected(ms, DOMAIN ms \ SystemAt(ms))
  IN Selected(ms, SystemAt(ms))
     \o (IF Len(rest) <= Window THEN rest
         ELSE FromUser(SubSeq(rest, Len(rest) - Window + 1, Len(rest))))

\* The system's messages and what fits of the end of the others; when nothing
\* legal is left of that, of the last four.
Snip(ms) ==
  LET rest == Selected(ms, DOMAIN ms \ SystemAt(ms))
      last == FromUser(SubSeq(rest, Len(rest) - Window + 1, Len(rest)))
      kept == From(last, LegalStart(last))
      few == Tail4(rest)
  IN IF Len(rest) <= Window THEN ms
     ELSE Selected(ms, SystemAt(ms))
          \o (IF kept # <<>> THEN kept ELSE From(few, LegalStart(few)))

BeginIteration ==
  /\ phase = "iterate" /\ iteration < MaxIterations
  /\ iteration' = iteration + 1
  /\ prompt' = Snip(messages)
  /\ attempt' = 0
  /\ hook' = "before_iteration"
  /\ phase' = "request"
  /\ UNCHANGED <<failFast, hasImages, budget, messages, errors, answer, status, seen, malformed,
                 checkpoint, stop>>
-----------------------------------------------------------------------------
(* The request and its retries.                                            *)

Asking == phase \in {"request", "finalize"}
\* Without tools in the request an answer is text.
Answers ==
  {Text("malformed"), Text("blank"), Text("text")}
  \cup (IF phase = "finalize" THEN {} ELSE {[kind |-> "calls", tools |-> c] : c \in CallLists})

Answered(a) ==
  /\ answer' = a
  /\ phase' = IF phase = "finalize" THEN "finalized" ELSE "respond"
  /\ hook' = IF phase = "finalize" THEN hook ELSE "after_llm_response"

Respond ==
  /\ Asking
  /\ \E a \in Answers : Answered(a)
  /\ UNCHANGED <<failFast, hasImages, budget, iteration, messages, prompt, attempt, errors, status,
                 seen, malformed, checkpoint, stop>>

\* Rate limits, timeouts, server errors: once more after a delay, while one is left.
TransientError ==
  /\ Asking /\ errors < MaxErrors
  /\ errors' = errors + 1
  /\ attempt' = attempt + 1
  /\ IF attempt < Delays THEN UNCHANGED <<phase, answer, hook>> ELSE Answered(Text("error"))
  /\ UNCHANGED <<failFast, hasImages, budget, iteration, messages, prompt, status, seen, malformed,
                 checkpoint, stop>>

\* Any other error is the answer, unless the same request without its images
\* may do better: one more call, whatever comes of it.
PermanentError ==
  /\ Asking
  /\ \/ Answered(Text("error"))
     \/ hasImages /\ \E a \in Answers : Answered(a)
  /\ UNCHANGED <<failFast, hasImages, budget, iteration, messages, prompt, attempt, errors, status,
                 seen, malformed, checkpoint, stop>>
-----------------------------------------------------------------------------
(* An answer with tool calls.                                              *)

Ids == [k \in DOMAIN answer.tools |-> <<iteration, k>>]

CallTools ==
  /\ phase = "respond" /\ answer.kind = "calls"
  /\ messages' = Append(messages, Assistant(Ids))
  /\ malformed' = [malformed EXCEPT !.count = 0]
  /\ checkpoint' = [phase |-> "awaiting_tools", calls |-> Ids]
  /\ status' = [k \in DOMAIN answer.tools |-> "pending"]
  /\ hook' = "before_execute_tools"
  /\ phase' = "tools"
  /\ UNCHANGED <<failFast, hasImages, budget, iteration, prompt, attempt, errors, answer, seen, stop>>

Over(k) == status[k] \in {"ok", "error"}

\* The batch of a call: the safe calls next to it, or the call alone.
Batch(k) ==
  IF failFast \/ answer.tools[k] \notin Safe THEN {k}
  ELSE {j \in DOMAIN answer.tools :
          \A i \in DOMAIN answer.tools :
            ((j <= i /\ i <= k) \/ (k <= i /\ i <= j)) => answer.tools[i] \in Safe}

\* Calls before the batch are over; those of it start in their order.
MayStart(k) ==
  /\ status[k] = "pending"
  /\ \A j \in DOMAIN answer.tools :
       j < k => IF j \in Batch(k) THEN status[j] # "pending" ELSE Over(j)

Blocked(k) == answer.tools[k] \in Lookups /\ seen >= 2

\* A call is turned down, as one lookup too many or by the registry; or it runs.
StartTool(k) ==
  /\ phase = "tools" /\ MayStart(k)
  /\ seen' = IF answer.tools[k] \in Lookups THEN seen + 1 ELSE seen
  /\ status' = [status EXCEPT ![k] = IF Blocked(k) \/ answer.tools[k] \in Unknown
                                     THEN "error" ELSE "running"]
  /\ UNCHANGED <<failFast, hasImages, budget, phase, iteration, messages, prompt, attempt, errors,
                 answer, malformed, checkpoint, hook, stop>>

\* It comes back; a result that says error and an exception are errors alike.
FinishTool(k) ==
  /\ phase = "tools" /\ status[k] = "running"
  /\ \E outcome \in {"ok", "error"} : status' = [status EXCEPT ![k] = outcome]
  /\ UNCHANGED <<failFast, hasImages, budget, phase, iteration, messages, prompt, attempt, errors,
                 answer, seen, malformed, checkpoint, hook, stop>>

AllDone == \A k \in DOMAIN status : Over(k)
Fatal == failFast /\ \E k \in DOMAIN status : status[k] = "error"

\* The iteration ends, its hooks with it.
EndIteration ==
  /\ hook' = "after_iteration"
  /\ answer' = NoAnswer /\ status' = <<>> /\ prompt' = <<>>

\* Mutant: the results are not handed to the checkpoint.
ToolsCompletedUnsaved ==
  /\ phase = "tools" /\ AllDone /\ ~Fatal
  /\ messages' = messages \o [k \in DOMAIN status |-> ToolMessage(<<iteration, k>>)]
  /\ EndIteration
  /\ phase' = "iterate"
  /\ UNCHANGED <<failFast, hasImages, budget, iteration, attempt, errors, seen, malformed,
                 checkpoint, stop>>

ToolsCompleted ==
  /\ phase = "tools" /\ AllDone /\ ~Fatal
  /\ messages' = messages \o [k \in DOMAIN status |-> ToolMessage(<<iteration, k>>)]
  /\ checkpoint' = [phase |-> "tools_completed", calls |-> Ids]
  /\ EndIteration
  /\ phase' = "iterate"
  /\ UNCHANGED <<failFast, hasImages, budget, iteration, attempt, errors, seen, malformed, stop>>
-----------------------------------------------------------------------------
(* The ways a run ends.                                                    *)

\* The final message replaces an assistant's text, and follows anything else.
FinalMessage(ms) ==
  IF ms # <<>> /\ Last(ms).role = "assistant" /\ Last(ms).calls = <<>>
  THEN [ms EXCEPT ![Len(ms)] = Assistant(<<>>)] ELSE Append(ms, Assistant(<<>>))

\* The pairs made up for malformed answers are taken out of what is returned.
MadeUp(id) == id[2] = 0 /\ id[1] # 0

MadeUpAt(ms) ==
  {i \in DOMAIN ms : MadeUp(ms[i].call) \/ \E id \in CallIds(ms[i]) : MadeUp(id)}
Strip(ms) == Selected(ms, DOMAIN ms \ MadeUpAt(ms))

EndRun(reason, ms) ==
  /\ messages' = Strip(ms)
  /\ stop' = reason
  /\ phase' = "done"
  /\ EndIteration
  /\ UNCHANGED <<failFast, hasImages, budget, iteration, attempt, errors, seen>>

\* A subagent's run ends with the first tool that failed, after all of the answer.
ToolError ==
  /\ phase = "tools" /\ AllDone /\ Fatal
  /\ EndRun("tool_error", FinalMessage(messages))
  /\ UNCHANGED <<malformed, checkpoint>>

MalformedAnswer == phase = "respond" /\ answer.kind = "malformed"
\* The count goes on only when the model was asked the very same.
MalformedCount == IF prompt = malformed.prompt THEN malformed.count + 1 ELSE 1

RetryMalformed ==
  /\ MalformedAnswer /\ MalformedCount <= budget
  /\ malformed' = [count |-> MalformedCount, prompt |-> prompt]
  /\ messages' = messages \o <<Assistant(<<<<iteration, 0>>>>), ToolMessage(<<iteration, 0>>)>>
  /\ EndIteration
  /\ phase' = "iterate"
  /\ UNCHANGED <<failFast, hasImages, budget, iteration, attempt, errors, seen, checkpoint, stop>>

GiveUpMalformed ==
  /\ MalformedAnswer /\ MalformedCount > budget
  /\ malformed' = [count |-> MalformedCount, prompt |-> prompt]
  /\ EndRun("malformed", FinalMessage(messages))
  /\ UNCHANGED checkpoint

\* Mutant: it is asked for again like any other.
RequestFinalizationAgain ==
  /\ phase = "respond" /\ answer.kind = "blank"
  /\ phase' = "request" /\ attempt' = 0
  /\ UNCHANGED <<failFast, hasImages, budget, iteration, messages, prompt, errors, answer, status,
                 seen, malformed, checkpoint, hook, stop>>

\* An empty answer is asked for once more, without tools.
RequestFinalization ==
  /\ phase = "respond" /\ answer.kind = "blank"
  /\ phase' = "finalize" /\ attempt' = 0
  /\ UNCHANGED <<failFast, hasImages, budget, iteration, messages, prompt, errors, answer, status,
                 seen, malformed, checkpoint, hook, stop>>

Final(kinds) ==
  \/ phase = "respond" /\ answer.kind \in kinds \ {"blank", "malformed"}
  \/ phase = "finalized" /\ answer.kind \in kinds

ErrorResponse ==
  /\ Final({"error"})
  /\ EndRun("error", FinalMessage(messages))
  /\ UNCHANGED <<malformed, checkpoint>>

EmptyResponse ==
  /\ Final({"blank"})
  /\ EndRun("empty_final_response", FinalMessage(messages))
  /\ UNCHANGED <<malformed, checkpoint>>

\* What comes of the second request is not looked at for malformed calls.
FinalResponse ==
  /\ Final({"text", "malformed"})
  /\ checkpoint' = [phase |-> "final_response", calls |-> <<>>]
  /\ EndRun("completed", Append(messages, Assistant(<<>>)))
  /\ UNCHANGED malformed

MaxIterationsReached ==
  /\ phase = "iterate" /\ iteration = MaxIterations
  /\ EndRun("max_iterations", FinalMessage(messages))
  /\ UNCHANGED <<malformed, checkpoint>>

RunNext ==
  \/ BeginIteration \/ Respond \/ TransientError \/ PermanentError
  \/ CallTools \/ ToolsCompleted \/ ToolError
  \/ \E k \in DOMAIN status : StartTool(k) \/ FinishTool(k)
  \/ RetryMalformed \/ GiveUpMalformed \/ RequestFinalization
  \/ ErrorResponse \/ EmptyResponse \/ FinalResponse \/ MaxIterationsReached

RunSpec == RunInit /\ [][RunNext]_runVars
\* The event loop runs every task that can; tools and requests have timeouts.
RunFairSpec == RunSpec /\ WF_runVars(RunNext)
-----------------------------------------------------------------------------
(* Properties.                                                             *)

\* In a conversation: every result follows its call, every call has its result.
Declared(ms, i) == \E j \in 1 .. i - 1 : ms[i].call \in CallIds(ms[j])
WellFormed(ms) ==
  /\ \A i \in DOMAIN ms : ms[i].role = "tool" => Declared(ms, i)
  /\ \A i \in DOMAIN ms : \A id \in CallIds(ms[i]) :
       Cardinality({j \in i + 1 .. Len(ms) : ms[j].role = "tool" /\ ms[j].call = id}) = 1

\* What the model is sent is a conversation that a provider accepts, however
\* the window cuts it: no orphan result, no call without one, and more than the
\* system's prompt.  The last needs that an answer with more calls than the
\* fallback of four messages reaches back over fits: else nothing is left.
PromptWellFormed ==
  Asking =>
    /\ WellFormed(prompt)
    /\ (\A m \in Range(messages) : Len(m.calls) <= 3) => Last(prompt).role # "system"

\* A crash while tools run, or before their results are saved, finds the calls
\* in the last checkpoint; and after them the results the messages hold.
CheckpointCoversTools ==
  /\ phase = "tools" => checkpoint = [phase |-> "awaiting_tools", calls |-> Ids]
  /\ phase = "iterate" /\ Last(messages).role = "tool" /\ ~MadeUp(Last(messages).call)
       => checkpoint.phase = "tools_completed"
          /\ Last(messages).call = Last(checkpoint.calls)

\* A run ends, also when the model calls tools for ever or every request fails.
RunEnds == <>(phase = "done")

\* The conversation a run returns can be continued: no call without its result,
\* nothing made up for malformed answers, an answer at the end.  A run that fails
\* fast ends without the results of the calls that were made.
ResultWellFormed ==
  phase = "done" =>
    /\ Last(messages) = Assistant(<<>>)
    /\ stop # "tool_error" => WellFormed(messages)
    /\ \A m \in Range(messages) : ~MadeUp(m.call)

\* A tool that may change something never runs beside another of the same
\* answer, and sees what all calls before it did and nothing of those after.
UnsafeRunsAlone ==
  \A k \in DOMAIN status :
    status[k] = "running" /\ answer.tools[k] \notin Safe =>
      /\ \A j \in 1 .. k - 1 : Over(j)
      /\ \A j \in k + 1 .. Len(status) : status[j] = "pending"

\* What leaves the run, as a prompt or as its result, is a conversation that a
\* provider accepts.
ConversationWellFormed == PromptWellFormed /\ ResultWellFormed

\* Tools that change something run one by one, and a crash among them finds
\* what ran in the checkpoint.
ToolsCovered == UnsafeRunsAlone /\ CheckpointCoversTools
=============================================================================
