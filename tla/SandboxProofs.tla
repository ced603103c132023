---------------------------- MODULE SandboxProofs ----------------------------
(***************************************************************************)
(* Proofs about Sandbox for every number of interpreters, requests, stray  *)
(* lines and failures: a call that gets an answer gets the answer to its   *)
(* own request; a change is carried out at most once and an acknowledged   *)
(* one is not pending; a backend that stopped leaves nothing.              *)
(***************************************************************************)
EXTENDS MCSandbox, SequenceTheorems, NaturalsInduction, WellFoundedInduction, TLAPS

-----------------------------------------------------------------------------
(* The invariant of the call and its pipe.                                 *)

CallPCs == {"idle", "begin", "write", "wait", "skip", "restart"}

Whys == {"none", "dead", "timeout", "crashed"}

(* The phases of a call in which its request may be on its way. *)
Sent == {"wait", "skip", "restart"}

(* A call is made only when the backend is ready, and leaves that phase    *)
(* before the backend does.                                                *)
CallInv ==
    /\ call \in [id : Nat, tool : Tools \cup {"none"}, attempt : {0, 1}, pc : CallPCs,
                 skips : Nat, why : Whys, sent : Nat, done : Nat]
    /\ call.pc # "idle" => pc = "ready" /\ call.id > 0
    /\ probe \in Nat
    /\ probe > 0 => /\ pc = "agent" \/ (pc = "ready" /\ call.pc = "restart")
                    /\ client = "none"
    /\ pc \in {"image", "container", "apt", "agent"} => client = "none"

(* What is left of the pipe of a process that is not there or not alive.  *)
ClientInv ==
    /\ client \in {"none", "alive", "exited"}
    /\ inbox \in Seq(Nat) /\ outbox \in Seq(Int)
    /\ client # "alive" => inbox = <<>>
    /\ client = "none" => outbox = <<>>

OnlyStray == \A i \in DOMAIN outbox : outbox[i] = Stray

(* The request of the call is in the pipe and not served yet.              *)
Asked == inbox = <<call.id>> /\ OnlyStray

(* Its answer is on its way, was read, or will never be there.             *)
Answered ==
    /\ inbox = <<>>
    /\ \A i \in DOMAIN outbox : outbox[i] \in {Stray, call.id}
    /\ \A i, j \in DOMAIN outbox : outbox[i] # Stray /\ outbox[j] # Stray => i = j

Quiet == inbox = <<>> /\ OnlyStray

(* The pipe holds nothing of an earlier call, and nothing at all when no   *)
(* call has sent its request.                                              *)
PipeInv ==
    /\ Asked \/ Answered
    /\ pc = "ready" /\ call.pc \notin Sent => Quiet

Inv == CallInv /\ ClientInv /\ (~ behind => PipeInv)

-----------------------------------------------------------------------------
(* Facts about the pipe.                                                   *)

(* Whatever the call does, a pipe with no answers is fit for every call.   *)
LEMMA QuietFits ==
  ASSUME Quiet' PROVE PipeInv'
  BY DEF Quiet, PipeInv, Answered, OnlyStray

(* A step that leaves the pipe and the call's number alone keeps the       *)
(* invariant, unless it ends a call that may have sent its request.        *)
LEMMA PipeKept ==
  ASSUME PipeInv, UNCHANGED <<inbox, outbox>>, call'.id = call.id,
         pc' = "ready" /\ call'.pc \notin Sent => Quiet
  PROVE  PipeInv'
  BY DEF PipeInv, Asked, Answered, Quiet, OnlyStray

(* A step that empties the inbox keeps what the outbox satisfies.          *)
LEMMA InboxLost ==
  ASSUME PipeInv, inbox' = <<>>, outbox' = outbox, call'.id = call.id,
         pc' = "ready" /\ call'.pc \notin Sent => Quiet
  PROVE  PipeInv'
  BY DEF PipeInv, Asked, Answered, Quiet, OnlyStray

(* The next line of the pipe is read: nothing but the answer of the call   *)
(* can come, and when it came nothing else is left.                        *)
LEMMA LineRead ==
  ASSUME PipeInv, ClientInv, outbox # <<>>, UNCHANGED inbox, outbox' = Tail(outbox),
         call'.id = call.id
  PROVE  /\ Head(outbox) \in {Stray, call.id}
         /\ Asked' \/ Answered'
         /\ Head(outbox) # Stray => Quiet'
<1>1. /\ outbox \in Seq(Int) /\ Len(outbox) \in Nat /\ Len(outbox) > 0
      /\ Head(outbox) = outbox[1] /\ 1 \in DOMAIN outbox
      /\ DOMAIN outbox = 1..Len(outbox)
  BY DEF ClientInv
<1>2. /\ DOMAIN outbox' = 1..(Len(outbox) - 1)
      /\ \A i \in DOMAIN outbox' : i + 1 \in DOMAIN outbox /\ outbox'[i] = outbox[i + 1] /\ i + 1 # 1
  BY <1>1
<1>3. CASE Asked
  BY <1>1, <1>2, <1>3 DEF Asked, OnlyStray
<1>4. CASE Answered
  <2>1. Head(outbox) \in {Stray, call.id}
    BY <1>1, <1>4 DEF Answered
  <2>2. \A i \in DOMAIN outbox' : outbox'[i] \in {Stray, call'.id}
    BY <1>2, <1>4 DEF Answered
  <2>3. ASSUME NEW i \in DOMAIN outbox', NEW j \in DOMAIN outbox',
               outbox'[i] # Stray, outbox'[j] # Stray
        PROVE  i = j
    <3>1. i + 1 = j + 1 /\ i \in Nat /\ j \in Nat
      BY <1>1, <1>2, <1>4, <2>3 DEF Answered
    <3>2. QED
      BY <3>1
  <2>4. ASSUME Head(outbox) # Stray, NEW i \in DOMAIN outbox' PROVE outbox'[i] = Stray
    BY <1>1, <1>2, <1>4, <2>4 DEF Answered
  <2>5. inbox' = <<>>
    BY <1>4 DEF Answered
  <2>6. Answered'
    BY <2>2, <2>3, <2>5 DEF Answered
  <2>7. QED
    BY <2>1, <2>4, <2>5, <2>6 DEF Quiet, OnlyStray
<1>5. QED
  BY <1>3, <1>4 DEF PipeInv

-----------------------------------------------------------------------------
(* The initial states and the steps.                                       *)

LEMMA InvInit == Init => Inv
<1> SUFFICES ASSUME Init PROVE Inv
  OBVIOUS
<1>1. CallInv
  BY DEF Init, CallInv, NoCall, CallPCs, Whys
<1>2. ClientInv
  BY DEF Init, ClientInv
<1>3. PipeInv
  BY DEF Init, PipeInv, Answered, OnlyStray, Quiet
<1>4. QED
  BY <1>1, <1>2, <1>3 DEF Inv

(* A step that touches neither the pipe nor the call, and in whose next    *)
(* state no request can be made.                                           *)
LEMMA OutsideCalls ==
  ASSUME Inv, UNCHANGED <<client, pipes, call>>, call.pc = "idle",
         pc' # "ready", probe' = 0
  PROVE  ClientInv' /\ (~ behind' => PipeInv')
<1>1. ClientInv'
  BY DEF Inv, ClientInv, pipes
<1>2. ASSUME ~ behind' PROVE PipeInv'
  BY <1>2, PipeKept DEF Inv, pipes
<1>3. QED
  BY <1>1, <1>2

(* start() and stop() of the backend, up to and after the agent's own.     *)
LEMMA BackendStep ==
  ASSUME Inv,
         \/ EnsureFixedImage \/ ImageFails \/ StartContainer \/ ContainerFails
         \/ AptMirrorRaises \/ Stop \/ StopImage
  PROVE  Inv'
<1>1. /\ UNCHANGED <<client, pipes, call>>
      /\ call.pc = "idle" /\ pc' # "ready" /\ probe' = 0
      /\ pc' \in {"image", "container", "apt", "agent"} => client = "none"
  BY DEF EnsureFixedImage, ImageFails, StartContainer, ContainerFails,
         AptMirrorRaises, Stop, StopImage, Unwind, Ended, Inv, CallInv
<1>2. CallInv'
  BY <1>1 DEF Inv, CallInv
<1>3. QED
  BY <1>1, <1>2, OutsideCalls DEF Inv

LEMMA AgentStarts == ASSUME Inv, ConfigureAptMirror PROVE Inv'
<1>1. CallInv'
  BY DEF ConfigureAptMirror, Inv, CallInv
<1>2. ClientInv'
  BY DEF ConfigureAptMirror, Inv, ClientInv, pipes
<1>3. ASSUME ~ behind' PROVE PipeInv'
  BY <1>3, PipeKept DEF ConfigureAptMirror, Inv, pipes
<1>4. QED
  BY <1>1, <1>2, <1>3 DEF Inv

(* A new call begins with a quiet pipe, whatever its number.               *)
LEMMA ExecuteKeeps == ASSUME Inv, NEW t \in Tools, Execute(t) PROVE Inv'
<1>1. /\ call' = [id |-> call.id + 1, tool |-> t, attempt |-> 0, pc |-> "begin",
                  skips |-> 0, why |-> "none", sent |-> 0, done |-> 0]
      /\ UNCHANGED <<pc, client, probe, pipes>>
      /\ pc = "ready" /\ call.pc = "idle"
  BY DEF Execute, NoCall
<1>2. CallInv'
  BY <1>1 DEF Inv, CallInv, CallPCs, Whys
<1>3. ClientInv'
  BY <1>1 DEF Inv, ClientInv, pipes
<1>4. ASSUME ~ behind' PROVE PipeInv'
  <2>1. Quiet
    BY <1>1, <1>4 DEF Inv, PipeInv, Sent, pipes
  <2>2. Quiet'
    BY <1>1, <2>1 DEF Quiet, OnlyStray, pipes
  <2>3. QED
    BY <2>2, QuietFits
<1>5. QED
  BY <1>2, <1>3, <1>4 DEF Inv

(* What a step may do to the record of the call.                           *)
CallTyped(c) ==
    c \in [id : Nat, tool : Tools \cup {"none"}, attempt : {0, 1}, pc : CallPCs,
           skips : Nat, why : Whys, sent : Nat, done : Nat]

LEMMA CheckAliveKeeps == ASSUME Inv, CheckAlive PROVE Inv'
<1>1. /\ CallTyped(call')
      /\ call'.id = call.id /\ call.pc = "begin"
      /\ UNCHANGED <<pc, client, probe, pipes>>
      /\ probe = 0 /\ pc = "ready" /\ call.id > 0
  <2>1. call.pc = "begin" /\ CallTyped(call)
    BY DEF CheckAlive, CallTyped, Inv, CallInv
  <2>2. \/ call' = [call EXCEPT !.pc = "write"]
        \/ call' = [call EXCEPT !.pc = "restart", !.why = "dead"]
        \/ call' = [call EXCEPT !.pc = "idle"]
    BY DEF CheckAlive, Finished
  <2>3. CallTyped(call') /\ call'.id = call.id
    BY <2>1, <2>2 DEF CallTyped, CallPCs, Whys
  <2>4. UNCHANGED <<pc, client, probe, pipes>>
    BY DEF CheckAlive
  <2>5. probe = 0 /\ pc = "ready" /\ call.id > 0
    BY <2>1 DEF Inv, CallInv
  <2>6. QED
    BY <2>1, <2>3, <2>4, <2>5
<1>2. CallInv'
  BY <1>1 DEF Inv, CallInv, CallTyped
<1>3. ClientInv'
  BY <1>1 DEF Inv, ClientInv, pipes
<1>4. ASSUME ~ behind' PROVE PipeInv'
  <2>1. Quiet /\ PipeInv
    BY <1>1, <1>4 DEF Inv, PipeInv, Sent, pipes
  <2>2. QED
    BY <1>1, <2>1, PipeKept DEF pipes
<1>5. QED
  BY <1>2, <1>3, <1>4 DEF Inv

LEMMA WriteRequestKeeps == ASSUME Inv, WriteRequest PROVE Inv'
<1>1. /\ CallTyped(call')
      /\ call'.id = call.id /\ call.pc = "write" /\ call'.pc \in Sent
      /\ UNCHANGED <<pc, client, probe, outbox, behind>>
      /\ probe = 0 /\ pc = "ready" /\ call.id > 0
      /\ \/ client = "alive" /\ inbox' = Append(inbox, call.id)
         \/ client = "exited" /\ inbox' = inbox
  <2>1. call.pc = "write" /\ CallTyped(call)
    BY DEF WriteRequest, CallTyped, Inv, CallInv
  <2>2. probe = 0 /\ pc = "ready" /\ call.id > 0
    BY <2>1 DEF Inv, CallInv
  <2>3. CASE client = "alive" /\ inbox' = Append(inbox, call.id)
             /\ call' = [call EXCEPT !.pc = "wait", !.sent = @ + 1]
    <3>1. CallTyped(call') /\ call'.id = call.id /\ call'.pc \in Sent
      <4>1. call' = [id |-> call.id, tool |-> call.tool, attempt |-> call.attempt,
                     pc |-> "wait", skips |-> call.skips, why |-> call.why,
                     sent |-> call.sent + 1, done |-> call.done]
        BY <2>1, <2>3 DEF CallTyped
      <4>2. call.sent + 1 \in Nat
        BY <2>1 DEF CallTyped
      <4>3. QED
        BY <2>1, <4>1, <4>2 DEF CallTyped, CallPCs, Sent
    <3>2. QED
      BY <2>1, <2>2, <2>3, <3>1 DEF WriteRequest
  <2>4. CASE client = "exited" /\ inbox' = inbox
             /\ \/ call' = [call EXCEPT !.pc = "restart", !.why = "timeout"]
                \/ call' = [call EXCEPT !.pc = "wait"]
    <3>1. CallTyped(call') /\ call'.id = call.id /\ call'.pc \in Sent
      BY <2>1, <2>4 DEF CallTyped, CallPCs, Whys, Sent
    <3>2. QED
      BY <2>1, <2>2, <2>4, <3>1 DEF WriteRequest
  <2>5. QED
    BY <2>3, <2>4 DEF WriteRequest
<1>2. CallInv'
  BY <1>1 DEF Inv, CallInv, CallTyped
<1>3. ClientInv'
  <2>1. call.id \in Nat
    BY DEF Inv, CallInv
  <2>2. inbox' \in Seq(Nat)
    BY <1>1, <2>1 DEF Inv, ClientInv
  <2>3. QED
    BY <1>1, <2>2 DEF Inv, ClientInv
<1>4. ASSUME ~ behind' PROVE PipeInv'
  <2>1. Quiet /\ PipeInv
    BY <1>1, <1>4 DEF Inv, PipeInv, Sent
  <2>2. CASE client = "exited"
    BY <1>1, <2>1, <2>2, PipeKept
  <2>3. CASE client = "alive"
    <3>1. inbox' = <<call.id>>
      BY <1>1, <2>1, <2>3 DEF Quiet
    <3>2. Asked'
      BY <1>1, <2>1, <3>1 DEF Quiet, OnlyStray, Asked
    <3>3. QED
      BY <1>1, <3>2 DEF PipeInv
  <2>4. QED
    BY <1>1, <2>2, <2>3
<1>5. QED
  BY <1>2, <1>3, <1>4 DEF Inv

(* A line is taken as the answer; the call is over.                        *)
LEMMA TakeFacts ==
  ASSUME Inv, NEW line, Take(line)
  PROVE  CallTyped(call') /\ call'.id = call.id /\ call'.pc = "idle"
  BY DEF Take, CallTyped, CallPCs, Inv, CallInv

LEMMA FinishedFacts ==
  ASSUME Inv, NEW kind, Finished(kind)
  PROVE  CallTyped(call') /\ call'.id = call.id /\ call'.pc = "idle"
  BY DEF Finished, CallTyped, CallPCs, Inv, CallInv

(* Reading from the pipe leaves a sequence.                                *)
LEMMA ClientReads ==
  ASSUME ClientInv, outbox # <<>>, outbox' = Tail(outbox), UNCHANGED <<client, inbox>>
  PROVE  ClientInv'
<1>1. Tail(outbox) \in Seq(Int)
  BY DEF ClientInv
<1>2. client # "none"
  BY DEF ClientInv
<1>3. QED
  BY <1>1, <1>2 DEF ClientInv

(* A call in one of the phases of the loop runs with the backend ready and *)
(* no interpreter being probed.                                            *)
LEMMA InLoop ==
  ASSUME Inv, call.pc \in {"wait", "skip"}
  PROVE  probe = 0 /\ pc = "ready" /\ call.id > 0 /\ CallTyped(call)
  BY DEF Inv, CallInv, CallTyped

(* The record of the call after a step of the loop.                        *)
LEMMA LoopCallInv ==
  ASSUME Inv, call.pc \in {"wait", "skip"}, CallTyped(call'), call'.id = call.id,
         UNCHANGED <<pc, probe, client>>
  PROVE  CallInv'
<1>1. probe = 0 /\ pc = "ready" /\ call.id > 0
  BY InLoop
<1>2. QED
  BY <1>1 DEF Inv, CallInv, CallTyped

LEMMA ReadAnswerKeeps == ASSUME Inv, ReadAnswer PROVE Inv'
<1>1. CallTyped(call') /\ call'.id = call.id /\ call'.pc = "idle"
  BY TakeFacts DEF ReadAnswer
<1>2. CallInv'
  BY <1>1, LoopCallInv DEF ReadAnswer
<1>3. ClientInv'
  BY ClientReads DEF ReadAnswer, Inv
<1>4. ASSUME ~ behind' PROVE PipeInv'
  <2>1. Quiet'
    BY <1>1, <1>4, LineRead DEF ReadAnswer, Inv
  <2>2. QED
    BY <2>1, QuietFits
<1>5. QED
  BY <1>2, <1>3, <1>4 DEF Inv

LEMMA ReadStrayKeeps == ASSUME Inv, ReadStray PROVE Inv'
<1>1. CallTyped(call') /\ call'.id = call.id /\ call'.pc = "skip"
  <2>1. CallTyped(call)
    BY DEF Inv, CallInv, CallTyped
  <2>2. QED
    BY <2>1 DEF ReadStray, CallTyped, CallPCs
<1>2. CallInv'
  BY <1>1, LoopCallInv DEF ReadStray
<1>3. ClientInv'
  BY ClientReads DEF ReadStray, Inv
<1>4. ASSUME ~ behind' PROVE PipeInv'
  BY <1>1, <1>4, LineRead DEF ReadStray, Inv, PipeInv, Sent
<1>5. QED
  BY <1>2, <1>3, <1>4 DEF Inv

LEMMA GiveUpWaitingKeeps == ASSUME Inv, GiveUpWaiting PROVE Inv'
<1>1. CallTyped(call') /\ call'.id = call.id /\ call'.pc = "restart"
  <2>1. CallTyped(call)
    BY DEF Inv, CallInv, CallTyped
  <2>2. QED
    BY <2>1 DEF GiveUpWaiting, CallTyped, CallPCs, Whys
<1>2. CallInv'
  BY <1>1, LoopCallInv DEF GiveUpWaiting
<1>3. ClientInv'
  BY DEF GiveUpWaiting, Inv, ClientInv, pipes
<1>4. ASSUME ~ behind' PROVE PipeInv'
  BY <1>1, <1>4, PipeKept DEF GiveUpWaiting, Inv, Sent, pipes
<1>5. QED
  BY <1>2, <1>3, <1>4 DEF Inv

(* The loop over stray lines: when it gives up and no answer can come any  *)
(* more, the pipe is quiet.                                                *)
LEMMA SkipOnKeeps == ASSUME Inv, SkipOn PROVE Inv'
<1>1. call.pc = "skip" /\ UNCHANGED <<pc, client, probe, inbox>>
  BY DEF SkipOn
<1>2. CallTyped(call) /\ call.skips + 1 \in Nat
  BY DEF Inv, CallInv, CallTyped
<1>3. \/ call' = [call EXCEPT !.pc = "idle"]
      \/ call' = [call EXCEPT !.skips = call.skips + 1]
  BY DEF SkipOn, Finished, Take
<1>4. CallTyped(call') /\ call'.id = call.id
  BY <1>2, <1>3 DEF CallTyped, CallPCs
<1>5. CallInv'
  BY <1>1, <1>4, LoopCallInv
<1>6. ClientInv'
  BY <1>1, ClientReads DEF SkipOn, Inv, ClientInv
<1>7. ASSUME ~ behind' PROVE PipeInv'
  <2>1. PipeInv /\ ClientInv
    BY <1>7 DEF SkipOn, Inv
  <2>2. CASE outbox = <<>>
    <3>1. client = "exited" /\ outbox' = outbox /\ inbox = <<>>
      BY <2>1, <2>2 DEF SkipOn, ClientInv
    <3>2. Quiet
      BY <2>2, <3>1 DEF Quiet, OnlyStray
    <3>3. QED
      BY <1>1, <1>4, <2>1, <3>1, <3>2, PipeKept
  <2>3. CASE outbox # <<>>
    <3>1. outbox' = Tail(outbox)
      BY <2>3 DEF SkipOn
    <3>2. /\ Asked' \/ Answered'
          /\ Head(outbox) # Stray => Quiet'
      BY <1>1, <1>4, <2>1, <2>3, <3>1, LineRead
    <3>3. CASE Head(outbox) # Stray
      BY <3>2, <3>3, QuietFits
    <3>4. CASE Head(outbox) = Stray
      <4>1. call' = [call EXCEPT !.skips = call.skips + 1]
        BY <1>7, <2>3, <3>4 DEF SkipOn
      <4>2. call'.pc = "skip"
        BY <1>1, <1>2, <4>1 DEF CallTyped
      <4>3. QED
        BY <3>2, <4>2 DEF PipeInv, Sent
    <3>5. QED
      BY <3>3, <3>4
  <2>4. QED
    BY <2>2, <2>3
<1>8. QED
  BY <1>5, <1>6, <1>7 DEF Inv

LEMMA GiveUpSkippingKeeps == ASSUME Inv, GiveUpSkipping PROVE Inv'
<1>1. CallTyped(call') /\ call'.id = call.id
  BY FinishedFacts DEF GiveUpSkipping
<1>2. CallInv'
  BY <1>1, LoopCallInv DEF GiveUpSkipping
<1>3. ClientInv'
  BY DEF GiveUpSkipping, Inv, ClientInv
<1>4. QED
  BY <1>2, <1>3 DEF GiveUpSkipping, Inv

LEMMA CancelKeeps == ASSUME Inv, Cancel PROVE Inv'
<1>1. /\ CallTyped(call') /\ call'.id = call.id /\ call'.pc = "idle"
      /\ pc' = "stopAgent" /\ probe' = 0
  BY FinishedFacts, InLoop DEF Cancel
<1>2. CallInv'
  BY <1>1 DEF CallInv, CallTyped
<1>3. ClientInv'
  BY DEF Cancel, Inv, ClientInv, pipes
<1>4. ASSUME ~ behind' PROVE PipeInv'
  BY <1>1, <1>4, PipeKept DEF Cancel, Inv, pipes
<1>5. QED
  BY <1>2, <1>3, <1>4 DEF Inv

(* Whoever ends the process leaves nothing in its pipe.                    *)
LEMMA ClientGone ==
  ASSUME client' = "none", inbox' = <<>>, outbox' = <<>>
  PROVE  ClientInv' /\ PipeInv'
<1>1. ClientInv'
  BY DEF ClientInv
<1>2. Quiet'
  BY DEF Quiet, OnlyStray
<1>3. QED
  BY <1>1, <1>2, QuietFits

LEMMA RestartKeeps == ASSUME Inv, Restart PROVE Inv'
<1>1. call.pc = "restart" /\ pc = "ready" /\ call.id > 0 /\ CallTyped(call) /\ probe = 0
  BY DEF Restart, Inv, CallInv, CallTyped
<1>2. client' = "none" /\ inbox' = <<>> /\ outbox' = <<>> /\ pc' = pc
  BY DEF Restart, ClientEnds, ClientSurvives
<1>3. CASE probe' = 1 /\ call' = call
  BY <1>1, <1>2, <1>3, ClientGone DEF Inv, CallInv, CallTyped
<1>4. CASE Finished("raised") /\ probe' = probe
  BY <1>1, <1>2, <1>4, ClientGone, FinishedFacts DEF Inv, CallInv, CallTyped
<1>5. QED
  BY <1>3, <1>4 DEF Restart

(* What a new process has printed is a sequence of lines.                  *)
LEMMA NoisePipe ==
  ASSUME NEW n \in Nat, NEW s \in [1..n -> Noise]
  PROVE  s \in Seq(Int)
<1>1. s \in [1..n -> Int]
  BY DEF Noise, Stray, Garbled, Foreign
<1>2. QED
  BY <1>1, SeqDef

(* The call after a successful restart.                                    *)
LEMMA AfterRestartFacts ==
  ASSUME Inv, AfterRestart
  PROVE  CallTyped(call') /\ call'.id = call.id
<1>1. CallTyped(call)
  BY DEF Inv, CallInv, CallTyped
<1>2. \/ call' = [call EXCEPT !.pc = "write"]
      \/ call' = [call EXCEPT !.pc = "begin", !.attempt = 1]
      \/ call' = [call EXCEPT !.pc = "idle"]
  BY DEF AfterRestart, Finished
<1>3. QED
  BY <1>1, <1>2 DEF CallTyped, CallPCs

LEMMA PythonFoundKeeps == ASSUME Inv, PythonFound PROVE Inv'
<1>1. /\ pc = "agent" \/ (pc = "ready" /\ call.pc = "restart")
      /\ inbox' = <<>> /\ client' = "alive" /\ probe' = 0 /\ pc' = "ready"
      /\ CallTyped(call)
  BY DEF PythonFound, Inv, CallInv, ClientInv, CallTyped
<1>2. CallInv'
  <2>1. CASE pc = "agent"
    BY <1>1, <2>1 DEF PythonFound, Inv, CallInv, CallTyped
  <2>2. CASE pc = "ready"
    <3>1. call.id > 0 /\ CallTyped(call') /\ call'.id = call.id
      BY <1>1, <2>2, AfterRestartFacts DEF PythonFound, Inv, CallInv
    <3>2. QED
      BY <1>1, <3>1 DEF CallInv, CallTyped
  <2>3. QED
    BY <1>1, <2>1, <2>2
<1>3. PICK n \in 0..MaxStray : outbox' \in [1..n -> Noise]
  BY DEF PythonFound
<1>4. ClientInv'
  <2>1. n \in Nat
    OBVIOUS
  <2>2. outbox' \in Seq(Int)
    BY <1>3, <2>1, NoisePipe
  <2>3. QED
    BY <1>1, <2>2 DEF ClientInv
<1>5. ASSUME ~ behind' PROVE PipeInv'
  <2>1. Quiet'
    BY <1>1, <1>5 DEF Quiet, OnlyStray, PythonFound
  <2>2. QED
    BY <2>1, QuietFits
<1>6. QED
  BY <1>2, <1>4, <1>5 DEF Inv

(* Starting the agent fails for good: start() unwinds, or the call is over. *)
LEMMA StartRaisesFacts ==
  ASSUME Inv, StartRaises, probe > 0, UNCHANGED <<client, pipes>>
  PROVE  Inv'
<1>1. /\ client = "none" /\ probe' = 0
      /\ pc = "agent" \/ (pc = "ready" /\ call.pc = "restart")
  BY DEF Inv, CallInv, StartRaises
<1>2. /\ client' = "none" /\ inbox' = <<>> /\ outbox' = <<>>
  BY <1>1 DEF Inv, ClientInv, pipes
<1>3. CallInv'
  <2>1. CASE pc = "agent"
    BY <1>1, <2>1 DEF StartRaises, Unwind, Inv, CallInv
  <2>2. CASE pc = "ready"
    <3>1. CallTyped(call') /\ call'.pc = "idle" /\ pc' = pc
      BY <2>2, FinishedFacts DEF StartRaises
    <3>2. QED
      BY <1>1, <2>2, <3>1 DEF CallInv, CallTyped
  <2>3. QED
    BY <1>1, <2>1, <2>2
<1>4. QED
  BY <1>2, <1>3, ClientGone DEF Inv

LEMMA PythonRejectedKeeps == ASSUME Inv, PythonRejected PROVE Inv'
<1>1. CASE probe < Candidates
  <2>1. /\ probe' = probe + 1 /\ UNCHANGED <<pc, call, client, pipes>>
    BY <1>1 DEF PythonRejected
  <2>2. pc = "agent" \/ (pc = "ready" /\ call.pc = "restart")
    BY DEF PythonRejected, Inv, CallInv
  <2>3. client = "none"
    BY DEF PythonRejected, Inv, CallInv
  <2>4. CallInv'
    BY <2>1, <2>2, <2>3 DEF Inv, CallInv
  <2>5. QED
    BY <2>1, <2>3, <2>4, ClientGone DEF Inv, ClientInv, pipes
<1>2. CASE ~ (probe < Candidates)
  BY <1>2, StartRaisesFacts DEF PythonRejected
<1>3. QED
  BY <1>1, <1>2

LEMMA ProbeRaisesKeeps == ASSUME Inv, ProbeRaises PROVE Inv'
  BY StartRaisesFacts DEF ProbeRaises

(* The process serves what it has read; the call only notes it.            *)
LEMMA ServedFacts ==
  ASSUME Inv, NEW r, Served(r) \/ UNCHANGED call
  PROVE  CallTyped(call') /\ call'.id = call.id /\ call'.pc = call.pc
<1>1. CallTyped(call) /\ call.done + 1 \in Nat
  BY DEF Inv, CallInv, CallTyped
<1>2. call' = call \/ call' = [call EXCEPT !.done = call.done + 1]
  BY DEF Served
<1>3. QED
  BY <1>1, <1>2 DEF CallTyped

(* A step of a process in the container leaves the phases alone.           *)
LEMMA ProcessCallInv ==
  ASSUME Inv, NEW r, Served(r) \/ UNCHANGED call, UNCHANGED <<pc, probe>>,
         client' = client \/ client = "alive"
  PROVE  CallInv'
<1>1. CallTyped(call') /\ call'.id = call.id /\ call'.pc = call.pc
  BY ServedFacts
<1>2. client # "alive" => client' = client
  OBVIOUS
<1>3. client = "alive" =>
        probe = 0 /\ pc \notin {"image", "container", "apt", "agent"}
  BY DEF Inv, CallInv
<1>4. QED
  BY <1>1, <1>2, <1>3 DEF Inv, CallInv, CallTyped

LEMMA ServeKeeps == ASSUME Inv, Serve PROVE Inv'
<1>1. CallTyped(call') /\ call'.id = call.id /\ call'.pc = call.pc
  BY ServedFacts DEF Serve
<1>2. CallInv'
  BY ProcessCallInv DEF Serve
<1>3. ClientInv'
  <2>1. Head(inbox) \in Nat /\ inbox' \in Seq(Nat)
    BY DEF Serve, Inv, ClientInv
  <2>2. outbox' \in Seq(Int)
    BY <2>1 DEF Serve, Inv, ClientInv
  <2>3. QED
    BY <2>1, <2>2 DEF Serve, Inv, ClientInv
<1>4. ASSUME ~ behind' PROVE PipeInv'
  <2>1. PipeInv /\ inbox # <<>>
    BY <1>4 DEF Serve, Inv
  <2>2. inbox = <<call.id>> /\ OnlyStray
    BY <2>1 DEF PipeInv, Asked, Answered
  <2>3. /\ pc' = "ready" => call'.pc \in Sent
        /\ inbox' = <<>> /\ outbox' = Append(outbox, call.id)
    BY <1>1, <2>1, <2>2 DEF PipeInv, Quiet, Serve
  <2>4. /\ DOMAIN outbox' = 1..(Len(outbox) + 1)
        /\ \A i \in 1..Len(outbox) : outbox'[i] = Stray
        /\ outbox'[Len(outbox) + 1] = call.id
        /\ Len(outbox) \in Nat
    BY <2>2, <2>3 DEF OnlyStray, Inv, ClientInv
  <2>5. Answered'
    BY <1>1, <2>3, <2>4 DEF Answered
  <2>6. QED
    BY <2>3, <2>5 DEF PipeInv
<1>5. QED
  BY <1>2, <1>3, <1>4 DEF Inv

LEMMA CrashKeeps == ASSUME Inv, Crash PROVE Inv'
<1>1. CallTyped(call') /\ call'.id = call.id /\ call'.pc = call.pc
  BY ServedFacts DEF Crash
<1>2. CallInv'
  BY ProcessCallInv DEF Crash
<1>3. ClientInv'
  BY DEF Crash, Inv, ClientInv
<1>4. ASSUME ~ behind' PROVE PipeInv'
  <2>1. PipeInv
    BY <1>4 DEF Crash, Inv
  <2>2. pc' = "ready" /\ call'.pc \notin Sent => Quiet
    BY <1>1, <2>1 DEF Crash, PipeInv
  <2>3. QED
    BY <1>1, <2>1, <2>2, InboxLost DEF Crash
<1>5. QED
  BY <1>2, <1>3, <1>4 DEF Inv

LEMMA ZombieServesKeeps == ASSUME Inv, NEW r \in Ids, ZombieServes(r) PROVE Inv'
<1>1. CallTyped(call') /\ call'.id = call.id /\ call'.pc = call.pc
  BY ServedFacts DEF ZombieServes
<1>2. CallInv'
  BY ProcessCallInv DEF ZombieServes
<1>3. ClientInv'
  BY DEF ZombieServes, Inv, ClientInv
<1>4. ASSUME ~ behind' PROVE PipeInv'
  BY <1>1, <1>4, PipeKept DEF ZombieServes, Inv, PipeInv
<1>5. QED
  BY <1>2, <1>3, <1>4 DEF Inv

LEMMA StopAgentKeeps == ASSUME Inv, StopAgent PROVE Inv'
<1>1. client' = "none" /\ inbox' = <<>> /\ outbox' = <<>>
  BY DEF StopAgent, ClientEnds, ClientSurvives
<1>2. CallInv'
  BY <1>1 DEF StopAgent, Inv, CallInv
<1>3. QED
  BY <1>1, <1>2, ClientGone DEF Inv

LEMMA StopContainerKeeps == ASSUME Inv, StopContainer PROVE Inv'
<1>1. /\ pc = "stopContainer" /\ pc' \in {"stopImage", "failed", "down"}
      /\ UNCHANGED <<client, probe, call, outbox, behind>>
      /\ inbox' = <<>> \/ inbox' = inbox
  BY DEF StopContainer, Ended
<1>2. CallInv'
  BY <1>1 DEF Inv, CallInv
<1>3. ClientInv'
  <2>1. CASE inbox' = inbox
    BY <1>1, <2>1 DEF Inv, ClientInv
  <2>2. CASE inbox' = <<>>
    BY <1>1, <2>2 DEF Inv, ClientInv
  <2>3. QED
    BY <1>1, <2>1, <2>2
<1>4. ASSUME ~ behind' PROVE PipeInv'
  BY <1>1, <1>4, PipeKept, InboxLost DEF Inv
<1>5. QED
  BY <1>2, <1>3, <1>4 DEF Inv

LEMMA InvStep == Inv /\ [Next]_vars => Inv'
<1> SUFFICES ASSUME Inv, [Next]_vars PROVE Inv'
  OBVIOUS
<1>1. CASE UNCHANGED vars
  BY <1>1, PipeKept DEF vars, Inv, CallInv, ClientInv, PipeInv
<1>2. CASE \/ EnsureFixedImage \/ ImageFails \/ StartContainer \/ ContainerFails
           \/ AptMirrorRaises \/ Stop \/ StopImage
  BY <1>2, BackendStep
<1>3. CASE ConfigureAptMirror \/ PythonFound \/ PythonRejected \/ ProbeRaises
  BY <1>3, AgentStarts, PythonFoundKeeps, PythonRejectedKeeps, ProbeRaisesKeeps
<1>4. CASE \/ CheckAlive \/ WriteRequest \/ \E t \in Tools : Execute(t)
           \/ ReadAnswer \/ ReadStray \/ GiveUpWaiting
  BY <1>4, CheckAliveKeeps, WriteRequestKeeps, ExecuteKeeps, ReadAnswerKeeps,
     ReadStrayKeeps, GiveUpWaitingKeeps
<1>5. CASE SkipOn \/ GiveUpSkipping \/ Restart \/ Cancel
  BY <1>5, SkipOnKeeps, GiveUpSkippingKeeps, RestartKeeps, CancelKeeps
<1>6. CASE Serve \/ Crash \/ \E r \in Ids : ZombieServes(r)
  BY <1>6, ServeKeeps, CrashKeeps, ZombieServesKeeps
<1>7. CASE StopAgent \/ StopContainer
  BY <1>7, StopAgentKeeps, StopContainerKeeps
<1>8. QED
  BY <1>1, <1>2, <1>3, <1>4, <1>5, <1>6, <1>7 DEF Next

-----------------------------------------------------------------------------
(* The first theorem.                                                      *)

(* Only two steps hand out an answer, and the line they take is the        *)
(* call's own: in the loop over stray lines, too.                          *)
LEMMA OwnAnswer ==
  ASSUME Inv, [Next]_vars, reply'.kind \in {"answer", "invalid"}, reply' # reply, ~ behind
  PROVE  reply'.of = call.id
<1>1. ASSUME NEW k, k \notin {"answer", "invalid"}, Finished(k) PROVE FALSE
  BY <1>1 DEF Finished
<1>2. CASE ReadAnswer \/ SkipOn
  <2>1. PipeInv /\ ClientInv
    BY DEF Inv
  <2>2. /\ outbox # <<>> /\ Head(outbox) # Stray
        /\ reply'.of = Head(outbox)
    <3>1. CASE ReadAnswer
      BY <3>1 DEF ReadAnswer, Take
    <3>2. CASE SkipOn
      <4>1. ~ Finished("no JSON")
        BY <1>1
      <4>2. outbox # <<>> /\ Head(outbox) # Stray /\ Take(Head(outbox))
        BY <3>2, <4>1 DEF SkipOn
      <4>3. QED
        BY <4>2 DEF Take
    <3>3. QED
      BY <1>2, <3>1, <3>2
  <2>3. call'.id = call.id /\ outbox' = Tail(outbox) /\ inbox' = inbox
    BY <1>2, <2>2, TakeFacts, FinishedFacts DEF ReadAnswer, SkipOn, Take, Finished
  <2>4. Head(outbox) = call.id
    BY <2>1, <2>2, <2>3, LineRead
  <2>5. QED
    BY <2>2, <2>4
<1>3. CASE UNCHANGED reply
  BY <1>3
<1>4. CASE PythonFound
  <2>1. call.why \notin {"answer", "invalid"}
    BY DEF Inv, CallInv, Whys
  <2>2. QED
    BY <1>3, <1>1, <1>4, <2>1 DEF PythonFound, AfterRestart
<1>5. CASE \E t \in Tools : Execute(t)
  BY <1>5 DEF Execute, NoReply
<1>6. CASE PythonRejected \/ ProbeRaises
  BY <1>3, <1>1, <1>6 DEF PythonRejected, ProbeRaises, StartRaises
<1>7. CASE CheckAlive \/ Restart \/ Cancel \/ GiveUpSkipping
  BY <1>3, <1>1, <1>7 DEF CheckAlive, Restart, Cancel, GiveUpSkipping
<1>8. QED
  BY <1>2, <1>3, <1>4, <1>5, <1>6, <1>7
     DEF Next, vars, EnsureFixedImage, ImageFails, StartContainer, ContainerFails,
         ConfigureAptMirror, AptMirrorRaises, Stop, StopImage, StopAgent, StopContainer,
         WriteRequest, ReadStray, GiveUpWaiting, Serve, Crash, ZombieServes

(* Whatever fails, is late or is restarted: execute() returns the answer   *)
(* to its own request, unless the process printed a line of its own that   *)
(* could be one or an earlier call gave up on it while it skipped.         *)
THEOREM AnswersOwnCorrect == Spec => AnswersOwn
<1>1. Inv /\ [Next]_vars =>
        [/\ reply' # reply
         /\ reply'.kind \in {"answer", "invalid"}
         /\ reply'.of # call.id
         => behind]_vars
  BY OwnAnswer
<1>2. QED
  BY InvInit, InvStep, <1>1, PTL DEF Spec, AnswersOwn

-----------------------------------------------------------------------------
(* What is left when the backend has stopped.                              *)

(* How the container, its id and the image go with the phases of start()   *)
(* and stop().                                                             *)
LifeInv ==
    /\ pc \in {"image", "container", "apt", "agent", "ready", "stopAgent",
               "stopContainer", "stopImage", "down", "failed"}
    /\ image \in BOOLEAN /\ cid \in BOOLEAN /\ up \in BOOLEAN
    /\ known \in BOOLEAN /\ err \in BOOLEAN /\ failing \in BOOLEAN
    /\ pc = "image" => fixed = "none" /\ ~ image
    /\ pc = "container" \/ known => fixed \in {"own", "prebuilt"}
    /\ fixed = "prebuilt" => ~ image
    /\ pc \in {"image", "container"} => ~ cid /\ ~ known
    /\ pc \in {"apt", "agent", "ready"} => cid /\ known
    /\ pc \in {"stopAgent", "stopContainer"} => (cid <=> known)
    /\ pc \in {"stopContainer", "stopImage", "down", "failed"} => client = "none"
    /\ pc = "stopImage" => fixed = "own" /\ ~ cid /\ ~ up /\ zombies = {}
    /\ StoppedLeavesNothing

LEMMA LifeInit == Init => LifeInv
  BY DEF Init, LifeInv, StoppedLeavesNothing

(* The phases of start() up to the agent's.                                *)
LEMMA StartLife ==
  ASSUME LifeInv, EnsureFixedImage \/ ImageFails \/ StartContainer \/ ContainerFails
                  \/ AptMirrorRaises \/ ConfigureAptMirror
  PROVE  LifeInv'
<1>1. CASE EnsureFixedImage
  <2>1. /\ UNCHANGED <<cid, up, known, failing, err, client, zombies>>
        /\ pc = "image" /\ pc' = "container"
        /\ ~ image /\ ~ cid /\ ~ known
    BY <1>1 DEF EnsureFixedImage, LifeInv, pipes
  <2>2. CASE fixed' = "prebuilt" /\ UNCHANGED image
    BY <2>1, <2>2 DEF LifeInv, StoppedLeavesNothing
  <2>3. CASE fixed' = "own" /\ image' = TRUE
    BY <2>1, <2>3 DEF LifeInv, StoppedLeavesNothing
  <2>4. QED
    BY <1>1, <2>2, <2>3 DEF EnsureFixedImage
<1>2. CASE ImageFails
  BY <1>2 DEF ImageFails, Unwind, LifeInv, StoppedLeavesNothing, Gone, pipes
<1>3. CASE StartContainer
  BY <1>3 DEF StartContainer, LifeInv, StoppedLeavesNothing, Gone, pipes
<1>4. CASE ContainerFails
  BY <1>4 DEF ContainerFails, Unwind, LifeInv, StoppedLeavesNothing, Gone, pipes
<1>5. CASE AptMirrorRaises
  BY <1>5 DEF AptMirrorRaises, Unwind, LifeInv, StoppedLeavesNothing, Gone, pipes
<1>6. CASE ConfigureAptMirror
  BY <1>6 DEF ConfigureAptMirror, LifeInv, StoppedLeavesNothing, Gone, pipes
<1>7. QED
  BY <1>1, <1>2, <1>3, <1>4, <1>5, <1>6

LEMMA StopLife ==
  ASSUME LifeInv, Stop \/ StopAgent \/ StopContainer \/ StopImage
  PROVE  LifeInv'
<1>1. CASE Stop
  BY <1>1 DEF Stop, LifeInv, StoppedLeavesNothing, Gone, pipes, host
<1>2. CASE StopAgent
  BY <1>2 DEF StopAgent, ClientEnds, ClientSurvives, LifeInv, StoppedLeavesNothing, Gone
<1>3. CASE StopContainer
  BY <1>3 DEF StopContainer, Ended, LifeInv, StoppedLeavesNothing, Gone
<1>4. CASE StopImage
  BY <1>4 DEF StopImage, Ended, LifeInv, StoppedLeavesNothing, Gone, pipes
<1>5. QED
  BY <1>1, <1>2, <1>3, <1>4

(* While the backend is ready or starts its agent, only the client and the *)
(* requests of lost processes change, or the backend is unwound.           *)
LEMMA UseLife ==
  ASSUME LifeInv, pc \in {"agent", "ready"}, pc' \in {"agent", "ready", "stopAgent"},
         UNCHANGED <<fixed, image, cid, up, known, err>>, failing' \in BOOLEAN
  PROVE  LifeInv'
  BY DEF LifeInv, StoppedLeavesNothing

(* A process in the container can only go.                                 *)
LEMMA ProcessLife ==
  ASSUME LifeInv, UNCHANGED <<pc, host>>, client = "none" => client' = "none",
         zombies = {} => zombies' = {}
  PROVE  LifeInv'
  BY DEF LifeInv, StoppedLeavesNothing, Gone, host

LEMMA LifeStep == Inv /\ LifeInv /\ [Next]_vars => LifeInv'
<1> SUFFICES ASSUME Inv, LifeInv, [Next]_vars PROVE LifeInv'
  OBVIOUS
<1>1. CASE UNCHANGED vars
  BY <1>1, ProcessLife DEF vars, host
<1>2. CASE \/ EnsureFixedImage \/ ImageFails \/ StartContainer \/ ContainerFails
           \/ AptMirrorRaises \/ ConfigureAptMirror
  BY <1>2, StartLife
<1>3. CASE Stop \/ StopAgent \/ StopContainer \/ StopImage
  BY <1>3, StopLife
<1>4. CASE PythonFound \/ PythonRejected \/ ProbeRaises
  <2>1. pc \in {"agent", "ready"}
    BY <1>4 DEF PythonFound, PythonRejected, ProbeRaises, Inv, CallInv
  <2>2. /\ pc' \in {"agent", "ready", "stopAgent"} /\ failing' \in BOOLEAN
        /\ UNCHANGED <<fixed, image, cid, up, known, err>>
    BY <1>4, <2>1 DEF PythonFound, PythonRejected, ProbeRaises, StartRaises, Unwind, host, LifeInv
  <2>3. QED
    BY <2>1, <2>2, UseLife
<1>5. CASE \/ \E t \in Tools : Execute(t)
           \/ CheckAlive \/ WriteRequest \/ ReadAnswer \/ ReadStray \/ GiveUpWaiting
           \/ SkipOn \/ GiveUpSkipping \/ Restart \/ Cancel
  <2>1. pc = "ready"
    BY <1>5 DEF Execute, CheckAlive, WriteRequest, ReadAnswer, ReadStray, GiveUpWaiting,
                SkipOn, GiveUpSkipping, Restart, Cancel, Inv, CallInv
  <2>2. pc' \in {"ready", "stopAgent"} /\ UNCHANGED host
    BY <1>5, <2>1
       DEF Execute, CheckAlive, WriteRequest, ReadAnswer, ReadStray, GiveUpWaiting,
           SkipOn, GiveUpSkipping, Restart, Cancel
  <2>3. QED
    BY <2>1, <2>2, UseLife DEF host, LifeInv
<1>6. CASE Serve \/ Crash \/ \E r \in Ids : ZombieServes(r)
  BY <1>6, ProcessLife DEF Serve, Crash, ZombieServes
<1>7. QED
  BY <1>1, <1>2, <1>3, <1>4, <1>5, <1>6 DEF Next

-----------------------------------------------------------------------------
(* How often a request is carried out.                                     *)

Distinct(s) == \A i, j \in DOMAIN s : s[i] = s[j] => i = j

(* Requests that may still be carried out. *)
Pending == Range(inbox) \cup zombies

(* Requests are numbered in the order they are made, and a process has     *)
(* each at most once.                                                      *)
NumberInv ==
    /\ \A r \in Pending \cup Range(outbox) \cup succeeded : r \in Int /\ r <= call.id
    /\ Distinct(inbox)
    /\ call.id \in succeeded => call.pc = "idle"
    /\ call.pc \in {"begin", "write"} => call.id \notin Range(inbox)
    /\ succeeded \cap Pending = {}

Token(S) == IF call.id \in S THEN 1 ELSE 0

(* Whatever was sent is carried out, pending or lost, and an answer means  *)
(* that it was carried out.                                                *)
DoneInv ==
    /\ call.done + Token(Range(inbox)) + Token(zombies) <= call.sent
    /\ call.id # Stray /\ call.id \in Range(outbox) => call.done >= 1
    /\ reply.kind = "answer" /\ reply.of = call.id => call.done >= 1

(* The attempts of a call, of which only reads get a second.               *)
AttemptInv ==
    /\ call.attempt = 1 => call.tool \in Idempotent
    /\ call.sent <= call.attempt + 1
    /\ call.pc \in {"begin", "write"} => call.sent <= call.attempt
    /\ call.pc = "restart" /\ call.why = "dead" => call.sent <= call.attempt

OnceInv == NumberInv /\ DoneInv /\ AttemptInv

LEMMA OnceMeans == CallInv /\ OnceInv => CarriedOutOnce
<1> SUFFICES ASSUME CallInv, OnceInv PROVE CarriedOutOnce
  OBVIOUS
<1>1. /\ call.attempt \in {0, 1} /\ call.sent \in Nat /\ call.done \in Nat
  BY DEF CallInv
<1>2. call.sent <= IF call.tool \in Idempotent THEN 2 ELSE 1
  BY <1>1 DEF OnceInv, AttemptInv
<1>3. call.done <= call.sent
  BY <1>1 DEF OnceInv, DoneInv, Token
<1>4. QED
  BY <1>2, <1>3 DEF CarriedOutOnce, OnceInv, DoneInv, NumberInv, Pending

(* Sequences of the pipe. *)
LEMMA RangeEmpty == Range(<<>>) = {} /\ Distinct(<<>>)
  BY DEF Range, Distinct

LEMMA RangeTail ==
  ASSUME NEW S, NEW s \in Seq(S), s # <<>>
  PROVE  /\ Range(s) = {Head(s)} \cup Range(Tail(s))
         /\ Distinct(s) => Distinct(Tail(s)) /\ Head(s) \notin Range(Tail(s))
<1>1. /\ Len(s) \in Nat /\ Len(s) > 0 /\ Head(s) = s[1] /\ DOMAIN s = 1..Len(s)
      /\ 1 \in DOMAIN s
      /\ DOMAIN Tail(s) = 1..(Len(s) - 1)
      /\ \A i \in 1..(Len(s) - 1) : Tail(s)[i] = s[i + 1]
  OBVIOUS
<1>2. ASSUME NEW r \in Range(s), r # Head(s) PROVE r \in Range(Tail(s))
  <2>1. PICK i \in 1..Len(s) : r = s[i]
    BY <1>1 DEF Range
  <2>2. i - 1 \in DOMAIN Tail(s) /\ r = Tail(s)[i - 1]
    BY <1>1, <1>2, <2>1
  <2>3. QED
    BY <2>2, Zenon DEF Range
<1>3. {Head(s)} \cup Range(Tail(s)) \subseteq Range(s)
  <2>1. Head(s) \in Range(s)
    <3>1. 1 \in DOMAIN s /\ Head(s) = s[1]
      BY <1>1
    <3>2. QED
      BY <3>1, Zenon DEF Range
  <2>2. ASSUME NEW r \in Range(Tail(s)) PROVE r \in Range(s)
    <3>1. PICK i \in DOMAIN Tail(s) : r = Tail(s)[i]
      BY DEF Range
    <3>2. i + 1 \in DOMAIN s /\ r = s[i + 1]
      BY <1>1, <3>1
    <3>3. QED
      BY <3>2 DEF Range
  <2>3. QED
    BY <2>1, <2>2
<1>4. ASSUME Distinct(s) PROVE Distinct(Tail(s)) /\ Head(s) \notin Range(Tail(s))
  <2>1. ASSUME NEW i \in DOMAIN Tail(s), NEW j \in DOMAIN Tail(s), Tail(s)[i] = Tail(s)[j]
        PROVE  i = j
    <3>1. i + 1 = j + 1 /\ i \in Int /\ j \in Int
      BY <1>1, <1>4, <2>1 DEF Distinct
    <3>2. QED
      BY <3>1
  <2>2. ASSUME NEW i \in DOMAIN Tail(s), Tail(s)[i] = Head(s) PROVE FALSE
    <3>1. i + 1 = 1 /\ i \in Nat
      BY <1>1, <1>4, <2>2 DEF Distinct
    <3>2. QED
      BY <1>1, <3>1, <2>2
  <2>3. QED
    BY <2>1, <2>2 DEF Distinct, Range
<1>5. QED
  BY <1>2, <1>3, <1>4

LEMMA RangeAppend ==
  ASSUME NEW S, NEW s \in Seq(S), NEW x \in S
  PROVE  /\ Range(Append(s, x)) = Range(s) \cup {x}
         /\ Distinct(s) /\ x \notin Range(s) => Distinct(Append(s, x))
<1>1. /\ Len(s) \in Nat /\ DOMAIN s = 1..Len(s)
      /\ DOMAIN Append(s, x) = 1..(Len(s) + 1)
      /\ \A i \in 1..Len(s) : Append(s, x)[i] = s[i]
      /\ Append(s, x)[Len(s) + 1] = x
  OBVIOUS
<1>2. \A i \in 1..(Len(s) + 1) : i \in 1..Len(s) \/ i = Len(s) + 1
  BY <1>1
<1>3. Range(Append(s, x)) = Range(s) \cup {x}
  BY <1>1, <1>2 DEF Range
<1>4. QED
  BY <1>1, <1>2, <1>3 DEF Distinct, Range

(* A step that sends and serves nothing: requests stay where they are, go  *)
(* from a process to what it leaves behind, or are lost.                   *)
LEMMA NothingServed ==
  ASSUME CallInv, OnceInv, UNCHANGED succeeded,
         call'.id = call.id, call'.sent = call.sent, call'.done = call.done,
         call.pc = "idle" => call'.pc = "idle",
         \/ call'.pc \notin {"begin", "write"} \/ call.pc \in {"begin", "write"}
         \/ Range(inbox)' = {},
         Range(outbox)' \subseteq Range(outbox) \cup Noise,
         Range(inbox)' \subseteq Range(inbox), Distinct(inbox)',
         zombies' \subseteq zombies \cup (Range(inbox) \ Range(inbox)'),
         reply' = reply \/ reply'.kind # "answer"
  PROVE  NumberInv' /\ DoneInv'
<1>1. call.id \in Nat /\ call.sent \in Nat /\ call.done \in Nat
  BY DEF CallInv
<1>2. Pending' \subseteq Pending
  BY DEF Pending
<1>3. NumberInv'
  <2>1. \A r \in Noise : r \in Int /\ r <= call.id
    BY <1>1 DEF Noise, Stray, Garbled, Foreign
  <2>2. \A r \in Range(outbox)' : r \in Int /\ r <= call'.id
    BY <2>1 DEF OnceInv, NumberInv
  <2>3. QED
    BY <1>1, <1>2, <2>2 DEF OnceInv, NumberInv
<1>4. Token(Range(inbox))' + Token(zombies)' <= Token(Range(inbox)) + Token(zombies)
  BY DEF Token
<1>5. /\ Token(Range(inbox)) \in {0, 1} /\ Token(zombies) \in {0, 1}
      /\ Token(Range(inbox))' \in {0, 1} /\ Token(zombies)' \in {0, 1}
  BY DEF Token
<1>6. call'.done + Token(Range(inbox))' + Token(zombies)' <= call'.sent
  BY <1>1, <1>4, <1>5 DEF OnceInv, DoneInv
<1>7. call'.id # Stray /\ call'.id \in Range(outbox)' => call'.done >= 1
  BY <1>1 DEF OnceInv, DoneInv, Noise, Stray, Garbled, Foreign
<1>8. reply'.kind = "answer" /\ reply'.of = call'.id => call'.done >= 1
  BY DEF OnceInv, DoneInv
<1>9. DoneInv'
  BY <1>6, <1>7, <1>8 DEF DoneInv
<1>10. QED
  BY <1>3, <1>9

LEMMA AttemptKept ==
  ASSUME OnceInv, call'.attempt = call.attempt, call'.tool = call.tool, call'.sent = call.sent,
         \/ call'.pc \notin {"begin", "write", "restart"}
         \/ call'.pc = "restart" /\ call'.why # "dead"
         \/ call'.pc = "restart" /\ call'.why = call.why /\ call.pc = "restart"
         \/ call'.pc \in {"begin", "write"} /\ call'.pc = call.pc
         \/ call.sent <= call.attempt
  PROVE  AttemptInv'
  BY DEF OnceInv, AttemptInv

(* Steps that leave the call, the pipe and the answers alone.              *)
LEMMA OutsideOnce ==
  ASSUME CallInv, OnceInv, UNCHANGED <<pipes, call, reply, succeeded>>
  PROVE  OnceInv'
<1>1. NumberInv' /\ DoneInv'
  BY NothingServed DEF pipes, OnceInv, NumberInv
<1>2. AttemptInv'
  BY DEF OnceInv, AttemptInv
<1>3. QED
  BY <1>1, <1>2 DEF OnceInv

(* The client goes: what its process held may go on without it.            *)
LEMMA ClientGoneOnce ==
  ASSUME CallInv, OnceInv, inbox' = <<>>, outbox' = <<>>,
         zombies' \subseteq zombies \cup Range(inbox), UNCHANGED succeeded,
         call'.id = call.id, call'.sent = call.sent, call'.done = call.done,
         call.pc = "idle" => call'.pc = "idle",
         reply' = reply \/ reply'.kind # "answer"
  PROVE  NumberInv' /\ DoneInv'
<1>1. Range(inbox)' = {} /\ Range(outbox)' = {} /\ Distinct(inbox)'
  BY RangeEmpty
<1>2. QED
  BY <1>1, NothingServed

(* The record of a call that ended, and of one that goes on.               *)
LEMMA EndedCall ==
  ASSUME CallInv, NEW kind, kind # "answer", Finished(kind)
  PROVE  /\ call'.id = call.id /\ call'.sent = call.sent /\ call'.done = call.done
         /\ call'.attempt = call.attempt /\ call'.tool = call.tool
         /\ call'.pc = "idle" /\ reply'.kind # "answer"
  BY DEF CallInv, Finished

LEMMA EndsWithError ==
  ASSUME CallInv, OnceInv, NEW kind, kind # "answer", Finished(kind),
         UNCHANGED <<inbox, zombies, succeeded>>,
         Range(outbox)' \subseteq Range(outbox) \cup Noise
  PROVE  OnceInv'
<1>1. /\ call'.id = call.id /\ call'.sent = call.sent /\ call'.done = call.done
      /\ call'.attempt = call.attempt /\ call'.tool = call.tool
      /\ call'.pc = "idle" /\ reply'.kind # "answer"
  BY EndedCall
<1>2. NumberInv' /\ DoneInv'
  BY <1>1, NothingServed DEF OnceInv, NumberInv
<1>3. AttemptInv'
  BY <1>1, AttemptKept
<1>4. QED
  BY <1>2, <1>3 DEF OnceInv

(* The answer that is taken.  A request that was carried out once, and may *)
(* be only once, is nowhere pending.                                       *)
LEMMA TakeOnce ==
  ASSUME CallInv, OnceInv, call.pc # "idle", outbox \in Seq(Int), outbox # <<>>,
         Head(outbox) # Stray, Take(Head(outbox)),
         outbox' = Tail(outbox), UNCHANGED <<inbox, zombies>>
  PROVE  OnceInv'
<1>1. /\ call'.id = call.id /\ call'.sent = call.sent /\ call'.done = call.done
      /\ call'.attempt = call.attempt /\ call'.tool = call.tool /\ call'.pc = "idle"
      /\ reply'.of = Head(outbox)
  BY DEF CallInv, Take
<1>2. /\ call.id \in Nat /\ call.sent \in Nat /\ call.done \in Nat
      /\ call.attempt \in {0, 1}
  BY DEF CallInv
<1>3. Range(outbox) = {Head(outbox)} \cup Range(outbox)'
  BY RangeTail
<1>4. Head(outbox) = call.id => call.done >= 1
  BY <1>3 DEF OnceInv, DoneInv
<1>5. AttemptInv'
  BY <1>1, AttemptKept
<1>6. DoneInv'
  BY <1>1, <1>3, <1>4 DEF OnceInv, DoneInv, Token
<1>7. Head(outbox) = call.id /\ call.tool \notin Idempotent => call.id \notin Pending
  <2>1. SUFFICES ASSUME Head(outbox) = call.id, call.tool \notin Idempotent
                 PROVE  call.id \notin Range(inbox) /\ call.id \notin zombies
    BY DEF Pending
  <2>2. call.sent <= 1
    BY <1>2, <2>1 DEF OnceInv, AttemptInv
  <2>3. Token(Range(inbox)) \in {0, 1} /\ Token(zombies) \in {0, 1}
    BY DEF Token
  <2>4. Token(Range(inbox)) = 0 /\ Token(zombies) = 0
    BY <1>2, <1>4, <2>1, <2>2, <2>3 DEF OnceInv, DoneInv
  <2>5. QED
    BY <2>4 DEF Token
<1>8. succeeded' \subseteq succeeded \cup (IF Head(outbox) = call.id /\ call.tool \notin Idempotent
                                           THEN {call.id} ELSE {})
  BY DEF Take
<1>9. NumberInv'
  BY <1>1, <1>2, <1>3, <1>7, <1>8 DEF OnceInv, NumberInv, Pending
<1>10. QED
  BY <1>5, <1>6, <1>9 DEF OnceInv

-----------------------------------------------------------------------------
(* The steps of a call.                                                    *)

LEMMA ExecuteOnce == ASSUME CallInv, OnceInv, NEW t \in Tools, Execute(t) PROVE OnceInv'
<1>1. /\ call' = [id |-> call.id + 1, tool |-> t, attempt |-> 0, pc |-> "begin",
                  skips |-> 0, why |-> "none", sent |-> 0, done |-> 0]
      /\ reply' = NoReply /\ UNCHANGED <<inbox, outbox, zombies, succeeded>>
  BY DEF Execute, NoCall, pipes
<1>2. call.id \in Nat
  BY DEF CallInv
<1>3. \A r \in Pending \cup Range(outbox) \cup succeeded : r \in Int /\ r < call.id + 1
  BY <1>2 DEF OnceInv, NumberInv
<1>4. call.id + 1 \notin Pending \cup Range(outbox) \cup succeeded
  BY <1>2, <1>3
<1>5. NumberInv'
  BY <1>1, <1>2, <1>3, <1>4 DEF OnceInv, NumberInv, Pending
<1>6. DoneInv'
  BY <1>1, <1>2, <1>4 DEF DoneInv, Token, Pending, NoReply
<1>7. AttemptInv'
  BY <1>1 DEF AttemptInv
<1>8. QED
  BY <1>5, <1>6, <1>7 DEF OnceInv

LEMMA CheckAliveOnce == ASSUME CallInv, OnceInv, CheckAlive PROVE OnceInv'
<1>1. CASE Finished("agent dead")
  BY <1>1, EndsWithError DEF CheckAlive, pipes
<1>2. CASE /\ reply' = reply
           /\ \/ call' = [call EXCEPT !.pc = "write"]
              \/ call' = [call EXCEPT !.pc = "restart", !.why = "dead"]
  <2>1. /\ call'.id = call.id /\ call'.sent = call.sent /\ call'.done = call.done
        /\ call'.attempt = call.attempt /\ call'.tool = call.tool
        /\ call'.pc # "idle" /\ call.pc = "begin"
    BY <1>2 DEF CallInv, CheckAlive
  <2>2. call.sent <= call.attempt
    BY <2>1 DEF OnceInv, AttemptInv
  <2>3. AttemptInv'
    BY <2>1, <2>2, AttemptKept
  <2>4. NumberInv' /\ DoneInv'
    BY <1>2, <2>1, NothingServed DEF CheckAlive, pipes, OnceInv, NumberInv
  <2>5. QED
    BY <2>3, <2>4 DEF OnceInv
<1>3. QED
  BY <1>1, <1>2 DEF CheckAlive

(* The request is counted as sent when it is in the pipe.                  *)
LEMMA WriteRequestOnce == ASSUME CallInv, ClientInv, OnceInv, WriteRequest PROVE OnceInv'
<1>1. /\ call.pc = "write" /\ UNCHANGED <<outbox, zombies, reply, succeeded>>
  BY DEF WriteRequest
<1>2. /\ call.id \in Nat /\ call.sent \in Nat /\ call.done \in Nat /\ call.attempt \in {0, 1}
      /\ inbox \in Seq(Nat)
  BY DEF CallInv, ClientInv
<1>3. CASE /\ inbox' = inbox
           /\ \/ call' = [call EXCEPT !.pc = "restart", !.why = "timeout"]
              \/ call' = [call EXCEPT !.pc = "wait"]
  <2>1. /\ call'.id = call.id /\ call'.sent = call.sent /\ call'.done = call.done
        /\ call'.attempt = call.attempt /\ call'.tool = call.tool
        /\ call'.pc = "wait" \/ (call'.pc = "restart" /\ call'.why = "timeout")
    BY <1>3 DEF CallInv
  <2>2. AttemptInv'
    BY <2>1, AttemptKept
  <2>3. NumberInv' /\ DoneInv'
    BY <1>1, <1>3, <2>1, NothingServed DEF OnceInv, NumberInv
  <2>4. QED
    BY <2>2, <2>3 DEF OnceInv
<1>4. CASE /\ inbox' = Append(inbox, call.id)
           /\ call' = [call EXCEPT !.pc = "wait", !.sent = call.sent + 1]
  <2>1. /\ call'.id = call.id /\ call'.sent = call.sent + 1 /\ call'.done = call.done
        /\ call'.attempt = call.attempt /\ call'.tool = call.tool /\ call'.pc = "wait"
    BY <1>4 DEF CallInv
  <2>2. call.sent <= call.attempt
    BY <1>1 DEF OnceInv, AttemptInv
  <2>3. AttemptInv'
    BY <1>2, <2>1, <2>2 DEF OnceInv, AttemptInv
  <2>4. Range(inbox)' = Range(inbox) \cup {call.id}
    BY <1>2, <1>4, RangeAppend
  <2>5. call.id \notin Range(inbox) /\ call.id \notin succeeded
    BY <1>1 DEF OnceInv, NumberInv
  <2>6. Distinct(inbox)'
    BY <1>2, <1>4, <2>5, RangeAppend DEF OnceInv, NumberInv
  <2>7. NumberInv'
    BY <1>1, <1>2, <2>1, <2>4, <2>5, <2>6 DEF OnceInv, NumberInv, Pending
  <2>8. /\ Token(Range(inbox)) = 0 /\ Token(Range(inbox))' = 1
        /\ Token(zombies)' = Token(zombies) /\ Token(zombies) \in {0, 1}
    BY <1>1, <2>1, <2>4, <2>5 DEF Token
  <2>9. call'.done + Token(Range(inbox))' + Token(zombies)' <= call'.sent
    BY <1>2, <2>1, <2>8 DEF OnceInv, DoneInv
  <2>10. DoneInv'
    BY <1>1, <2>1, <2>9 DEF OnceInv, DoneInv
  <2>11. QED
    BY <2>3, <2>7, <2>10 DEF OnceInv
<1>5. QED
  BY <1>3, <1>4 DEF WriteRequest

LEMMA ReadStrayOnce == ASSUME CallInv, ClientInv, OnceInv, ReadStray PROVE OnceInv'
<1>1. /\ call'.id = call.id /\ call'.sent = call.sent /\ call'.done = call.done
      /\ call'.attempt = call.attempt /\ call'.tool = call.tool /\ call'.pc = "skip"
      /\ call.pc = "wait"
      /\ UNCHANGED <<inbox, zombies, reply, succeeded>>
  BY DEF ReadStray, CallInv
<1>2. Range(outbox)' \subseteq Range(outbox)
  BY RangeTail DEF ReadStray, ClientInv
<1>3. NumberInv' /\ DoneInv'
  BY <1>1, <1>2, NothingServed DEF OnceInv, NumberInv
<1>4. AttemptInv'
  BY <1>1, AttemptKept
<1>5. QED
  BY <1>3, <1>4 DEF OnceInv

LEMMA GiveUpWaitingOnce == ASSUME CallInv, OnceInv, GiveUpWaiting PROVE OnceInv'
<1>1. /\ call'.id = call.id /\ call'.sent = call.sent /\ call'.done = call.done
      /\ call'.attempt = call.attempt /\ call'.tool = call.tool /\ call'.pc = "restart"
      /\ call'.why # "dead" /\ call.pc = "wait"
      /\ UNCHANGED <<inbox, outbox, zombies, reply, succeeded>>
  BY DEF GiveUpWaiting, CallInv, pipes
<1>2. NumberInv' /\ DoneInv'
  BY <1>1, NothingServed DEF OnceInv, NumberInv
<1>3. AttemptInv'
  BY <1>1, AttemptKept
<1>4. QED
  BY <1>2, <1>3 DEF OnceInv

LEMMA SkipOnOnce == ASSUME CallInv, ClientInv, OnceInv, SkipOn PROVE OnceInv'
<1>1. /\ call.pc = "skip" /\ UNCHANGED <<inbox, zombies>>
  BY DEF SkipOn
<1>2. Range(outbox)' \subseteq Range(outbox)
  <2>1. CASE outbox = <<>>
    BY <2>1 DEF SkipOn
  <2>2. CASE outbox # <<>>
    <3>1. outbox \in Seq(Int) /\ outbox' = Tail(outbox)
      BY <2>2 DEF SkipOn, ClientInv
    <3>2. QED
      BY <2>2, <3>1, RangeTail
  <2>3. QED
    BY <2>1, <2>2
<1>3. CASE Finished("no JSON") /\ UNCHANGED succeeded
  BY <1>1, <1>2, <1>3, EndsWithError
<1>4. CASE outbox # <<>> /\ Head(outbox) # Stray /\ Take(Head(outbox))
  BY <1>1, <1>4, TakeOnce DEF SkipOn, ClientInv
<1>5. CASE call' = [call EXCEPT !.skips = call.skips + 1] /\ UNCHANGED <<reply, succeeded>>
  <2>1. /\ call'.id = call.id /\ call'.sent = call.sent /\ call'.done = call.done
        /\ call'.attempt = call.attempt /\ call'.tool = call.tool /\ call'.pc = "skip"
    BY <1>1, <1>5 DEF CallInv
  <2>2. NumberInv' /\ DoneInv'
    BY <1>1, <1>2, <1>5, <2>1, NothingServed DEF OnceInv, NumberInv
  <2>3. AttemptInv'
    BY <2>1, AttemptKept
  <2>4. QED
    BY <2>2, <2>3 DEF OnceInv
<1>6. QED
  BY <1>3, <1>4, <1>5 DEF SkipOn

(* A restart: what the old process held is left to it or lost.             *)
LEMMA RestartOnce == ASSUME CallInv, OnceInv, Restart PROVE OnceInv'
<1>1. /\ inbox' = <<>> /\ outbox' = <<>> /\ UNCHANGED succeeded
      /\ zombies' \subseteq zombies \cup Range(inbox) /\ call.pc = "restart"
  BY DEF Restart, ClientEnds, ClientSurvives
<1>2. CASE UNCHANGED <<call, reply>>
  <2>1. NumberInv' /\ DoneInv'
    BY <1>1, <1>2, ClientGoneOnce
  <2>2. AttemptInv'
    BY <1>2 DEF OnceInv, AttemptInv
  <2>3. QED
    BY <2>1, <2>2 DEF OnceInv
<1>3. CASE Finished("raised")
  <2>1. /\ call'.id = call.id /\ call'.sent = call.sent /\ call'.done = call.done
        /\ call'.attempt = call.attempt /\ call'.tool = call.tool
        /\ call'.pc = "idle" /\ reply'.kind # "answer"
    BY <1>3, EndedCall
  <2>2. NumberInv' /\ DoneInv'
    BY <1>1, <2>1, ClientGoneOnce
  <2>3. AttemptInv'
    BY <2>1, AttemptKept
  <2>4. QED
    BY <2>2, <2>3 DEF OnceInv
<1>4. QED
  BY <1>2, <1>3 DEF Restart

LEMMA StopAgentOnce == ASSUME CallInv, OnceInv, StopAgent PROVE OnceInv'
<1>1. /\ inbox' = <<>> /\ outbox' = <<>> /\ UNCHANGED <<call, reply, succeeded>>
      /\ zombies' \subseteq zombies \cup Range(inbox)
  BY DEF StopAgent, ClientEnds, ClientSurvives
<1>2. NumberInv' /\ DoneInv'
  BY <1>1, ClientGoneOnce
<1>3. AttemptInv'
  BY <1>1 DEF OnceInv, AttemptInv
<1>4. QED
  BY <1>2, <1>3 DEF OnceInv

LEMMA StopContainerOnce == ASSUME CallInv, OnceInv, StopContainer PROVE OnceInv'
<1>1. /\ UNCHANGED <<call, reply, succeeded, outbox>>
      /\ \/ inbox' = inbox /\ zombies' = zombies
         \/ inbox' = <<>> /\ zombies' = {}
  BY DEF StopContainer
<1>2. Range(inbox)' \subseteq Range(inbox) /\ Distinct(inbox)'
  BY <1>1, RangeEmpty DEF OnceInv, NumberInv
<1>3. NumberInv' /\ DoneInv'
  BY <1>1, <1>2, NothingServed
<1>4. AttemptInv'
  BY <1>1 DEF OnceInv, AttemptInv
<1>5. QED
  BY <1>3, <1>4 DEF OnceInv

(* The agent is started, with a process that has nothing to do yet; after  *)
(* a restart a read is tried once more.                                    *)
LEMMA AfterRestartOnce ==
  ASSUME CallInv, OnceInv, AfterRestart, call.pc = "restart"
  PROVE  /\ call'.id = call.id /\ call'.sent = call.sent /\ call'.done = call.done
         /\ reply' = reply \/ reply'.kind # "answer"
         /\ AttemptInv'
<1>1. call.attempt \in {0, 1} /\ call.sent \in Nat /\ call.why \in Whys
  BY DEF CallInv
<1>2. CASE call.why = "dead" /\ call' = [call EXCEPT !.pc = "write"] /\ UNCHANGED reply
  <2>1. call.sent <= call.attempt
    BY <1>2 DEF OnceInv, AttemptInv
  <2>2. /\ call'.id = call.id /\ call'.sent = call.sent /\ call'.done = call.done
        /\ call'.attempt = call.attempt /\ call'.tool = call.tool
    BY <1>2 DEF CallInv
  <2>3. QED
    BY <1>2, <2>1, <2>2, AttemptKept
<1>3. CASE /\ call.tool \in Idempotent /\ call.attempt = 0
           /\ call' = [call EXCEPT !.pc = "begin", !.attempt = 1] /\ UNCHANGED reply
  <2>1. /\ call'.id = call.id /\ call'.sent = call.sent /\ call'.done = call.done
        /\ call'.attempt = 1 /\ call'.tool = call.tool /\ call'.pc = "begin"
    BY <1>3 DEF CallInv
  <2>2. call.sent <= 1
    BY <1>1, <1>3 DEF OnceInv, AttemptInv
  <2>3. AttemptInv'
    BY <1>1, <1>3, <2>1, <2>2 DEF AttemptInv
  <2>4. QED
    BY <1>3, <2>1, <2>3
<1>4. ASSUME NEW kind, kind # "answer", Finished(kind)
      PROVE  /\ call'.id = call.id /\ call'.sent = call.sent /\ call'.done = call.done
             /\ reply'.kind # "answer" /\ AttemptInv'
  BY <1>4, EndedCall, AttemptKept
<1>5. call.why # "answer"
  BY <1>1 DEF Whys
<1>6. QED
  BY <1>2, <1>3, <1>4, <1>5 DEF AfterRestart

LEMMA NoiseRange ==
  ASSUME NEW n \in Nat, NEW s \in [1..n -> Noise]
  PROVE  Range(s) \subseteq Noise
  BY DEF Range

LEMMA PythonFoundOnce == ASSUME CallInv, ClientInv, OnceInv, PythonFound PROVE OnceInv'
<1>1. PICK n \in 0..MaxStray : outbox' \in [1..n -> Noise]
  BY DEF PythonFound
<1>2. Range(outbox)' \subseteq Noise
  <2>1. n \in Nat
    OBVIOUS
  <2>2. QED
    BY <1>1, <2>1, NoiseRange
<1>3. /\ UNCHANGED <<inbox, zombies, succeeded>> /\ inbox = <<>>
      /\ Range(inbox)' = {} /\ Distinct(inbox)'
  BY RangeEmpty DEF PythonFound, CallInv, ClientInv
<1>4. CASE pc = "agent"
  <2>1. UNCHANGED <<call, reply>>
    BY <1>4 DEF PythonFound
  <2>2. NumberInv' /\ DoneInv'
    BY <1>2, <1>3, <2>1, NothingServed
  <2>3. AttemptInv'
    BY <2>1 DEF OnceInv, AttemptInv
  <2>4. QED
    BY <2>2, <2>3 DEF OnceInv
<1>5. CASE pc # "agent"
  <2>1. AfterRestart /\ call.pc = "restart"
    BY <1>5 DEF PythonFound, CallInv
  <2>2. /\ call'.id = call.id /\ call'.sent = call.sent /\ call'.done = call.done
        /\ reply' = reply \/ reply'.kind # "answer"
        /\ AttemptInv'
    BY <2>1, AfterRestartOnce
  <2>3. NumberInv' /\ DoneInv'
    BY <1>2, <1>3, <2>1, <2>2, NothingServed
  <2>4. QED
    BY <2>2, <2>3 DEF OnceInv
<1>6. QED
  BY <1>4, <1>5

LEMMA ProbeOnce ==
  ASSUME CallInv, OnceInv, PythonRejected \/ ProbeRaises
  PROVE  OnceInv'
<1>1. UNCHANGED <<pipes, succeeded>>
  BY DEF PythonRejected, ProbeRaises
<1>2. CASE UNCHANGED <<call, reply>>
  BY <1>1, <1>2, OutsideOnce
<1>3. CASE Finished("raised")
  BY <1>1, <1>3, EndsWithError DEF pipes
<1>4. QED
  BY <1>2, <1>3 DEF PythonRejected, ProbeRaises, StartRaises

-----------------------------------------------------------------------------
(* The steps of the processes in the container.                            *)

(* A request is carried out: it is not pending where it was, and its       *)
(* answer, if it is written, is one of a request that was carried out.     *)
LEMMA ServedOnce ==
  ASSUME CallInv, OnceInv, NEW r, Served(r), UNCHANGED <<reply, succeeded>>,
         r \in Int, r <= call.id,
         \/ /\ r \in Range(inbox) /\ r \notin Range(inbox)' /\ zombies' = zombies
            /\ Range(inbox)' \subseteq Range(inbox)
         \/ /\ r \in zombies /\ zombies' = zombies \ {r} /\ inbox' = inbox,
         Distinct(inbox)',
         Range(outbox)' \subseteq Range(outbox) \cup {r}
  PROVE  OnceInv'
<1>1. /\ call.id \in Nat /\ call.sent \in Nat /\ call.done \in Nat
  BY DEF CallInv
<1>2. /\ call'.id = call.id /\ call'.sent = call.sent /\ call'.pc = call.pc
      /\ call'.attempt = call.attempt /\ call'.tool = call.tool /\ call'.why = call.why
      /\ r = call.id => call'.done = call.done + 1
      /\ r # call.id => call'.done = call.done
  BY DEF CallInv, Served
<1>3. Pending' \subseteq Pending
  BY DEF Pending
<1>4. NumberInv'
  BY <1>1, <1>2, <1>3 DEF OnceInv, NumberInv, Pending
<1>5. /\ Token(Range(inbox)) \in {0, 1} /\ Token(zombies) \in {0, 1}
      /\ Token(Range(inbox))' \in {0, 1} /\ Token(zombies)' \in {0, 1}
      /\ Token(Range(inbox))' <= Token(Range(inbox)) /\ Token(zombies)' <= Token(zombies)
      /\ r = call.id => \/ Token(Range(inbox)) = 1 /\ Token(Range(inbox))' = 0
                        \/ Token(zombies) = 1 /\ Token(zombies)' = 0
  BY <1>2 DEF Token
<1>6. call'.done + Token(Range(inbox))' + Token(zombies)' <= call'.sent
  BY <1>1, <1>2, <1>5 DEF OnceInv, DoneInv
<1>7. DoneInv'
  BY <1>1, <1>2, <1>6 DEF OnceInv, DoneInv
<1>8. AttemptInv'
  BY <1>2 DEF OnceInv, AttemptInv
<1>9. QED
  BY <1>4, <1>7, <1>8 DEF OnceInv

LEMMA ServeOnce == ASSUME CallInv, ClientInv, OnceInv, Serve PROVE OnceInv'
<1>1. /\ inbox \in Seq(Nat) /\ outbox \in Seq(Int) /\ inbox # <<>>
      /\ inbox' = Tail(inbox) /\ outbox' = Append(outbox, Head(inbox))
      /\ Head(inbox) \in Nat
  BY DEF Serve, ClientInv
<1>2. /\ Range(inbox) = {Head(inbox)} \cup Range(inbox)'
      /\ Distinct(inbox)' /\ Head(inbox) \notin Range(inbox)'
  BY <1>1, RangeTail DEF OnceInv, NumberInv
<1>3. Range(outbox)' = Range(outbox) \cup {Head(inbox)}
  BY <1>1, RangeAppend
<1>4. Head(inbox) <= call.id
  BY <1>2 DEF OnceInv, NumberInv, Pending
<1>5. QED
  BY <1>1, <1>2, <1>3, <1>4, ServedOnce DEF Serve

LEMMA CrashOnce == ASSUME CallInv, ClientInv, OnceInv, Crash PROVE OnceInv'
<1>1. /\ inbox \in Seq(Nat) /\ inbox' = <<>> /\ UNCHANGED <<outbox, zombies, reply, succeeded>>
      /\ Range(inbox)' = {} /\ Distinct(inbox)'
  BY RangeEmpty DEF Crash, ClientInv
<1>2. CASE UNCHANGED call
  <2>1. NumberInv' /\ DoneInv'
    BY <1>1, <1>2, NothingServed
  <2>2. AttemptInv'
    BY <1>2 DEF OnceInv, AttemptInv
  <2>3. QED
    BY <2>1, <2>2 DEF OnceInv
<1>3. CASE inbox # <<>> /\ Served(Head(inbox))
  <2>1. Head(inbox) \in Range(inbox) /\ Head(inbox) \in Nat
    BY <1>1, <1>3, RangeTail
  <2>2. Head(inbox) <= call.id
    BY <2>1 DEF OnceInv, NumberInv, Pending
  <2>3. QED
    BY <1>1, <1>3, <2>1, <2>2, ServedOnce
<1>4. QED
  BY <1>2, <1>3 DEF Crash

LEMMA ZombieServesOnce ==
  ASSUME CallInv, OnceInv, NEW r \in Ids, ZombieServes(r)
  PROVE  OnceInv'
<1>1. r \in Int /\ r <= call.id /\ r \in zombies
  BY DEF ZombieServes, OnceInv, NumberInv, Pending
<1>2. Distinct(inbox)' /\ Range(outbox)' \subseteq Range(outbox) \cup {r}
  BY DEF ZombieServes, OnceInv, NumberInv
<1>3. QED
  BY <1>1, <1>2, ServedOnce DEF ZombieServes

-----------------------------------------------------------------------------
(* The second theorem.                                                     *)

LEMMA OnceInit == Init => OnceInv
<1> SUFFICES ASSUME Init PROVE OnceInv
  OBVIOUS
<1>1. /\ call = NoCall /\ reply = NoReply /\ succeeded = {} /\ zombies = {}
      /\ Range(inbox) = {} /\ Range(outbox) = {} /\ Distinct(inbox)
  BY RangeEmpty DEF Init
<1>2. NumberInv
  BY <1>1 DEF NumberInv, Pending, NoCall
<1>3. DoneInv
  BY <1>1 DEF DoneInv, Token, NoCall, NoReply
<1>4. AttemptInv
  BY <1>1 DEF AttemptInv, NoCall
<1>5. QED
  BY <1>2, <1>3, <1>4 DEF OnceInv

LEMMA OnceStep == Inv /\ OnceInv /\ [Next]_vars => OnceInv'
<1> SUFFICES ASSUME Inv, OnceInv, [Next]_vars PROVE OnceInv'
  OBVIOUS
<1>1. CallInv /\ ClientInv
  BY DEF Inv
<1>2. CASE UNCHANGED vars
  BY <1>1, <1>2, OutsideOnce DEF vars, pipes
<1>3. CASE \/ EnsureFixedImage \/ ImageFails \/ StartContainer \/ ContainerFails
           \/ AptMirrorRaises \/ ConfigureAptMirror \/ Stop \/ StopImage
  BY <1>1, <1>3, OutsideOnce
     DEF EnsureFixedImage, ImageFails, StartContainer, ContainerFails, AptMirrorRaises,
         ConfigureAptMirror, Stop, StopImage
<1>4. CASE PythonFound \/ PythonRejected \/ ProbeRaises
  BY <1>1, <1>4, PythonFoundOnce, ProbeOnce
<1>5. CASE \E t \in Tools : Execute(t)
  BY <1>1, <1>5, ExecuteOnce
<1>6. CASE CheckAlive \/ WriteRequest \/ ReadStray \/ GiveUpWaiting \/ SkipOn \/ Restart
  BY <1>1, <1>6, CheckAliveOnce, WriteRequestOnce, ReadStrayOnce, GiveUpWaitingOnce,
     SkipOnOnce, RestartOnce
<1>7. CASE ReadAnswer
  BY <1>1, <1>7, TakeOnce DEF ReadAnswer, ClientInv
<1>8. CASE GiveUpSkipping
  BY <1>1, <1>8, EndsWithError DEF GiveUpSkipping
<1>9. CASE Cancel
  BY <1>1, <1>9, EndsWithError DEF Cancel, pipes
<1>10. CASE Serve \/ Crash \/ \E r \in Ids : ZombieServes(r)
  BY <1>1, <1>10, ServeOnce, CrashOnce, ZombieServesOnce
<1>11. CASE StopAgent \/ StopContainer
  BY <1>1, <1>11, StopAgentOnce, StopContainerOnce
<1>12. QED
  BY <1>2, <1>3, <1>4, <1>5, <1>6, <1>7, <1>8, <1>9, <1>10, <1>11 DEF Next

(* However the agent's process fails and is restarted: what changes the    *)
(* container is carried out at most once, an answer to it means that it    *)
(* was, and what was acknowledged is pending nowhere; and a backend that   *)
(* stopped leaves nothing of the session.                                  *)
THEOREM ContainerAsToldCorrect == Spec => []ContainerAsTold
<1>1. Inv /\ LifeInv /\ OnceInv => ContainerAsTold
  BY OnceMeans DEF Inv, LifeInv, ContainerAsTold
<1>2. QED
  BY InvInit, LifeInit, OnceInit, InvStep, LifeStep, OnceStep, <1>1, PTL DEF Spec

-----------------------------------------------------------------------------
(* The watchdog of a command.                                              *)

(* A timeline of the source: its samples end one after the other, and its  *)
(* rates are numbers.                                                      *)
Timeline ==
    \E n \in Nat \ {0} :
        /\ DOMAIN samples = 1 .. n /\ Len(samples) = n
        /\ \A i \in 1 .. n : /\ samples[i].end = i * T!Half
                             /\ \A r \in Resources : samples[i].rate[r] \in Nat

WatchInv ==
    /\ state = "running" =>
         /\ Timeline
         /\ timeout \in Nat /\ virtual \in Nat /\ stalled \in Nat
    /\ KilledForCause

LEMMA LeastOf ==
    ASSUME NEW S \in SUBSET Nat, S # {}
    PROVE  T!Min(S) \in S /\ \A y \in S : T!Min(S) <= y
<1> DEFINE R == OpToRel(<, Nat)
<1>1. IsWellFoundedOn(R, Nat)
  BY NatLessThanWellFounded
<1>2. \E x \in S : \A y \in S : ~ (<<y, x>> \in R)
  <2> HIDE DEF R
  <2>1. QED
    BY <1>1, WFMin
<1>3. PICK x \in S : \A y \in S : ~ (<<y, x>> \in R)
  BY <1>2
<1>4. ASSUME NEW y \in S PROVE x <= y
  <2>1. y \in Nat /\ x \in Nat
    OBVIOUS
  <2>2. ~ (y < x)
    <3>1. <<y, x>> \notin R
      BY <1>3
    <3>2. QED
      BY <2>1, <3>1 DEF OpToRel
  <2>3. QED
    BY <2>1, <2>2
<1>5. QED
  BY <1>4 DEF T!Min

(* The sample of a point before the end of the source ends after it, and   *)
(* at most one sample later.                                               *)
LEMMA SampleNear ==
    ASSUME Timeline, virtual \in Nat, virtual < T!SourceEnd
    PROVE  \E i \in DOMAIN samples :
             /\ T!SampleAt(virtual) = samples[i] /\ samples[i].end \in Nat
             /\ virtual < samples[i].end /\ samples[i].end <= virtual + T!Half
             /\ \A r \in Resources : samples[i].rate[r] \in Nat
<1>1. PICK n \in Nat \ {0} :
        /\ DOMAIN samples = 1 .. n /\ Len(samples) = n
        /\ \A i \in 1 .. n : /\ samples[i].end = i * T!Half
                             /\ \A r \in Resources : samples[i].rate[r] \in Nat
  BY DEF Timeline
<1> DEFINE S == {i \in DOMAIN samples : virtual < samples[i].end}
<1>2. S \subseteq Nat /\ n \in S
  BY <1>1 DEF T!SourceEnd
<1>3. T!SampleAt(virtual) = samples[T!Min(S)]
  <2>1. ~ (virtual >= T!SourceEnd)
    BY <1>1 DEF T!SourceEnd, T!Half
  <2>2. QED
    BY <2>1 DEF T!SampleAt
<1>4. PICK i \in S : i = T!Min(S) /\ \A y \in S : i <= y
  <2> HIDE DEF S
  <2>1. QED
    BY <1>2, LeastOf
<1>5. i \in 1 .. n /\ virtual < samples[i].end /\ samples[i].end = 2 * i
  BY <1>1 DEF T!Half
<1>6. 2 * i <= virtual + 2
  <2>1. CASE i = 1
    BY <2>1
  <2>2. CASE i # 1
    <3>1. i - 1 \in 1 .. n /\ ~ (i <= i - 1)
      BY <1>5, <2>2
    <3>2. i - 1 \notin S
      BY <1>4, <3>1
    <3>3. ~ (virtual < samples[i - 1].end) /\ samples[i - 1].end = 2 * (i - 1)
      BY <1>1, <3>1, <3>2 DEF T!Half
    <3>4. QED
      BY <1>5, <3>3
  <2>3. QED
    BY <2>1, <2>2
<1> HIDE DEF S
<1>7. /\ i \in DOMAIN samples /\ T!SampleAt(virtual) = samples[i] /\ samples[i].end \in Nat
      /\ virtual < samples[i].end /\ samples[i].end <= virtual + T!Half
  BY <1>1, <1>3, <1>4, <1>5, <1>6 DEF T!Half
<1>8. \A r \in Resources : samples[i].rate[r] \in Nat
  BY <1>1, <1>5
<1>9. QED
  BY <1>7, <1>8

(* In an interval a command advances at most by a whole one.               *)
LEMMA ProgressBound ==
    ASSUME Timeline, virtual \in Nat, NEW delta \in T!Deltas
    PROVE  T!Progress(delta) \in 0 .. T!Half
<1> DEFINE s == T!SampleAt(virtual)
           measured == {r \in T!Demanded(virtual) : delta[r] # T!Unreadable}
           asked == {(T!Half * delta[r]) \div s.rate[r] : r \in measured}
           step == IF asked = {} THEN T!Half ELSE T!Min(asked)
<1>1. T!Progress(delta) = IF virtual >= T!SourceEnd THEN T!Half ELSE T!Min({step, s.end - virtual})
  BY DEF T!Progress
<1>2. CASE virtual >= T!SourceEnd
  BY <1>1, <1>2 DEF T!Half
<1>3. CASE ~ (virtual >= T!SourceEnd)
  <2>1. virtual < T!SourceEnd
    <3>1. T!SourceEnd \in Nat
      BY DEF Timeline, T!SourceEnd, T!Half
    <3>2. QED
      BY <1>3, <3>1
  <2>2. PICK i \in DOMAIN samples :
          /\ s = samples[i] /\ samples[i].end \in Nat
          /\ virtual < samples[i].end /\ samples[i].end <= virtual + T!Half
          /\ \A r \in Resources : samples[i].rate[r] \in Nat
    BY <2>1, SampleNear
  <2>3. asked \subseteq Nat
    <3>1. ASSUME NEW r \in measured PROVE (T!Half * delta[r]) \div s.rate[r] \in Nat
      <4>1. r \in Resources /\ s.rate[r] > 0 /\ s.rate[r] \in Nat
        BY <2>2 DEF T!Demanded
      <4>2. delta[r] \in {0, 1, 2}
        BY <4>1 DEF T!Deltas, T!Unreadable
      <4>3. T!Half * delta[r] \in Nat
        BY <4>2 DEF T!Half
      <4> HIDE DEF s, measured
      <4>4. QED
        BY <4>1, <4>3
    <3>2. QED
      BY <3>1
  <2>4. step \in Nat
    <3> HIDE DEF asked
    <3>1. CASE asked = {}
      BY <3>1 DEF T!Half
    <3>2. CASE asked # {}
      <4>1. T!Min(asked) \in asked
        BY <2>3, <3>2, LeastOf
      <4>2. QED
        BY <2>3, <3>2, <4>1
    <3>3. QED
      BY <3>1, <3>2
  <2>5. s.end - virtual \in 1 .. T!Half
    BY <2>2 DEF T!Half
  <2> HIDE DEF s, step
  <2>6. PICK a \in Nat, b \in Nat : a = step /\ b = s.end - virtual /\ b <= T!Half
    BY <2>4, <2>5 DEF T!Half
  <2>7. T!Min({a, b}) \in {a, b} /\ T!Min({a, b}) <= b
    BY <2>6, LeastOf
  <2>8. QED
    BY <1>1, <1>3, <2>6, <2>7 DEF T!Half
<1>4. QED
  BY <1>2, <1>3

(* The stall limit has its lower bound.                                    *)
LEMMA StallLimit ==
    ASSUME timeout \in Nat
    PROVE  T!StallTimeout \in Nat /\ T!StallTimeout >= StallMin
<1>1. PICK m \in Nat : m = T!Min({StallMax, timeout})
  <2>1. T!Min({StallMax, timeout}) \in {StallMax, timeout}
    BY WatchAssumption, LeastOf
  <2>2. QED
    BY <2>1, WatchAssumption
<1>2. T!StallTimeout = T!Max({StallMin, m})
  BY <1>1 DEF T!StallTimeout
<1>3. \E x \in {StallMin, m} : \A y \in {StallMin, m} : x >= y
  <2>1. StallMin \in Nat
    BY WatchAssumption
  <2>2. QED
    BY <2>1
<1>4. T!Max({StallMin, m}) \in {StallMin, m} /\ T!Max({StallMin, m}) >= StallMin
  BY <1>3 DEF T!Max
<1>5. QED
  BY <1>2, <1>4, WatchAssumption

LEMMA WatchInit == MCInit => WatchInv
<1> SUFFICES ASSUME MCInit PROVE WatchInv
  OBVIOUS
<1>1. CASE Init /\ Unwatched
  BY <1>1 DEF Unwatched, WatchInv, KilledForCause, T!KilledForCause
<1>2. CASE T!Init
  <2>1. /\ timeout \in Nat \ {0} /\ virtual = 0 /\ stalled = 0 /\ state = "running"
        /\ samples \in T!Timelines
    BY <1>2, WatchAssumption DEF T!Init
  <2>2. PICK n \in 1 .. MaxSamples : \E rates \in [1 .. n -> [Resources -> Rates]] :
          samples = [i \in 1 .. n |-> [end |-> i * T!Half, rate |-> rates[i]]]
    BY <2>1 DEF T!Timelines
  <2>3. PICK rates \in [1 .. n -> [Resources -> Rates]] :
          samples = [i \in 1 .. n |-> [end |-> i * T!Half, rate |-> rates[i]]]
    BY <2>2
  <2>4. n \in Nat \ {0}
    BY WatchAssumption
  <2>5. /\ DOMAIN samples = 1 .. n /\ Len(samples) = n
        /\ \A i \in 1 .. n : samples[i].end = i * T!Half /\ samples[i].rate = rates[i]
    BY <2>3, <2>4
  <2>6. Timeline
    <3>1. ASSUME NEW i \in 1 .. n, NEW r \in Resources PROVE samples[i].rate[r] \in Nat
      <4>1. samples[i].rate = rates[i] /\ rates[i] \in [Resources -> Rates]
        BY <2>3, <2>5
      <4>2. rates[i][r] \in Rates
        BY <4>1
      <4>3. QED
        BY <4>1, <4>2, WatchAssumption
    <3>2. QED
      BY <2>4, <2>5, <3>1 DEF Timeline
  <2>7. QED
    BY <2>1, <2>6 DEF WatchInv, KilledForCause, T!KilledForCause, T!Half
<1>3. QED
  BY <1>1, <1>2 DEF MCInit

LEMMA IntervalKeepsCause ==
    ASSUME WatchInv, NEW delta \in T!Deltas, T!Interval(delta)
    PROVE  WatchInv'
<1>1. /\ state = "running" /\ Timeline /\ UNCHANGED <<samples, timeout>>
      /\ timeout \in Nat /\ virtual \in Nat /\ stalled \in Nat
      /\ virtual < 2 * timeout
  BY DEF T!Interval, WatchInv, KilledForCause, T!KilledForCause, T!Half
<1>2. PICK p \in 0 .. 2 : p = T!Progress(delta)
  BY <1>1, ProgressBound DEF T!Half
<1>3. PICK limit \in Nat : limit = T!StallTimeout /\ limit >= StallMin
  BY <1>1, StallLimit
<1>4. /\ virtual' = virtual + p
      /\ stalled' = IF p > 0 THEN 0 ELSE stalled + 1
      /\ state' = IF virtual' >= 2 * timeout THEN "timeout"
                  ELSE IF stalled' >= limit /\ T!Demanded(virtual') # {} THEN "stall"
                  ELSE "running"
  BY <1>2, <1>3 DEF T!Interval, T!Half
<1>5. Timeline' /\ T!Demanded(virtual)' = T!Demanded(virtual')
  BY <1>1 DEF Timeline, T!Demanded, T!SampleAt, T!SourceEnd
<1>6. virtual' \in Nat /\ stalled' \in Nat /\ timeout' = timeout /\ virtual' <= 2 * timeout + 1
  BY <1>1, <1>2, <1>4
<1>7. StallMin \in Nat
  BY WatchAssumption
<1>8. (state = "stall" => stalled >= StallMin /\ T!Demanded(virtual) # {})'
  BY <1>3, <1>4, <1>5, <1>6, <1>7
<1>9. (state = "timeout" => virtual \in 2 * timeout .. 2 * (timeout + 1))'
  BY <1>1, <1>4, <1>6
<1>10. (state = "running" => virtual < 2 * timeout)'
  BY <1>1, <1>4, <1>6
<1>11. QED
  BY <1>1, <1>5, <1>6, <1>8, <1>9, <1>10 DEF WatchInv, KilledForCause, T!KilledForCause, T!Half

(* The watchdog kills a command for a cause, whatever the source used,     *)
(* whatever counters it reads and whatever the limits are.                 *)
THEOREM KilledForCauseCorrect == MCSpec => []KilledForCause
<1>1. WatchInv /\ [MCNext]_<<vars, watch>> => WatchInv'
  <2> SUFFICES ASSUME WatchInv, [MCNext]_<<vars, watch>> PROVE WatchInv'
    OBVIOUS
  <2>1. CASE UNCHANGED watch
    BY <2>1 DEF watch, WatchInv, KilledForCause, T!KilledForCause, Timeline, T!Demanded,
                T!SampleAt, T!SourceEnd
  <2>2. CASE T!Exit
    BY <2>2 DEF T!Exit, WatchInv, KilledForCause, T!KilledForCause
  <2>3. CASE \E delta \in T!Deltas : T!Interval(delta)
    BY <2>3, IntervalKeepsCause
  <2>4. QED
    BY <2>1, <2>2, <2>3 DEF MCNext, T!Next
<1>2. WatchInv => KilledForCause
  BY DEF WatchInv
<1>3. QED
  BY <1>1, <1>2, WatchInit, PTL DEF MCSpec
=============================================================================
