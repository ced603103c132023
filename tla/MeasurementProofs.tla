-------------------------- MODULE MeasurementProofs --------------------------
(***************************************************************************)
(* Proofs about what an experiment leaves behind and measures: Attempt,    *)
(* for every number of bytes, context switches, processes and samples,     *)
(* Monitoring, for every number of containers, samplers and ticks, and     *)
(* TerminalBench, with a deadline or without.                              *)
(***************************************************************************)
EXTENDS Attempt, Monitoring, TerminalBench, FiniteSetTheorems, SequenceTheorems, NaturalsInduction,
        WellFoundedInduction, TLAPS

-----------------------------------------------------------------------------
(* The total of the context switches.                                      *)

\* Induction up to a bound, for a set.
LEMMA UpTo ==
  ASSUME NEW n \in Nat, NEW S, 0 \in S, \A k \in 1 .. n : k - 1 \in S => k \in S
  PROVE  \A k \in 0 .. n : k \in S
<1> DEFINE R == OpToRel(<, Nat)
           Out == {k \in 0 .. n : k \notin S}
<1> SUFFICES ASSUME Out # {} PROVE FALSE
  OBVIOUS
<1>1. \E x \in Out : \A y \in Out : ~ (<<y, x>> \in R)
  <2>1. IsWellFoundedOn(R, Nat)
    BY NatLessThanWellFounded
  <2>2. Out \subseteq Nat
    OBVIOUS
  <2> HIDE DEF R, Out
  <2>3. QED
    BY <2>1, <2>2, WFMin
<1>2. PICK x \in Out : \A y \in Out : ~ (<<y, x>> \in R)
  BY <1>1
<1>3. x \in 1 .. n /\ x - 1 \notin S
  <2>1. x \in 0 .. n /\ x \notin S
    OBVIOUS
  <2>2. x # 0
    BY <2>1
  <2>3. x \in 1 .. n
    BY <2>1, <2>2
  <2>4. QED
    BY <2>1, <2>3
<1>4. x - 1 \in Out /\ x - 1 \in Nat /\ x \in Nat /\ x - 1 < x
  BY <1>3
<1>5. <<x - 1, x>> \in R
  BY <1>4 DEF OpToRel
<1>6. QED
  BY <1>2, <1>4, <1>5

LEMMA InSeq == ASSUME NEW T, NEW s \in Seq(T), NEW i \in 1 .. Len(s) PROVE s[i] \in T
OBVIOUS

Counters == [Starts -> Nat]

\* The sums h of the first counts of f, from none on.
SumsOf(h, f, n) == h \in [0 .. n -> Nat] /\ h[0] = 0 /\ \A k \in 1 .. n : h[k] = h[k - 1] + f[k]

LEMMA SumsExist ==
  ASSUME NEW f \in Counters
  PROVE  \E h : SumsOf(h, f, MaxProcs)
<1> DEFINE S == {m \in 0 .. MaxProcs : \E h : SumsOf(h, f, m)}
<1>1. MaxProcs \in Nat
  BY AttemptAssumption
<1>2. 0 \in S
  <2> DEFINE h == [k \in 0 .. 0 |-> 0]
  <2>1. SumsOf(h, f, 0)
    BY DEF SumsOf
  <2>2. QED
    BY <1>1, <2>1
<1>3. ASSUME NEW m \in 1 .. MaxProcs, m - 1 \in S PROVE m \in S
  <2>1. PICK g : SumsOf(g, f, m - 1)
    BY <1>3
  <2> DEFINE h == [k \in 0 .. m |-> IF k = m THEN g[m - 1] + f[m] ELSE g[k]]
  <2>2. /\ g \in [0 .. m - 1 -> Nat] /\ g[0] = 0
        /\ \A k \in 1 .. m - 1 : g[k] = g[k - 1] + f[k]
    BY <2>1 DEF SumsOf
  <2>3. f[m] \in Nat /\ g[m - 1] \in Nat
    BY <1>1, <1>3, <2>2 DEF Counters, Starts
  <2>4. h \in [0 .. m -> Nat] /\ h[0] = 0
    BY <1>1, <1>3, <2>2, <2>3
  <2>5. ASSUME NEW k \in 1 .. m PROVE h[k] = h[k - 1] + f[k]
    <3>1. k - 1 \in 0 .. m /\ k - 1 # m
      BY <1>1, <1>3
    <3>2. CASE k = m
      BY <3>1, <3>2
    <3>3. CASE k # m
      <4>1. k \in 1 .. m - 1
        BY <1>1, <1>3, <3>3
      <4>2. QED
        BY <2>2, <3>1, <3>3, <4>1
    <3>4. QED
      BY <3>2, <3>3
  <2> HIDE DEF h
  <2>6. SumsOf(h, f, m)
    BY <2>4, <2>5 DEF SumsOf
  <2>7. QED
    BY <1>1, <1>3, <2>6
<1>4. \A m \in 0 .. MaxProcs : m \in S
  <2> HIDE DEF S
  <2>1. QED
    BY <1>1, <1>2, <1>3, UpTo
<1>5. QED
  BY <1>1, <1>4

\* The total is the last of the sums.
LEMMA TotalIs ==
  ASSUME NEW f \in Counters
  PROVE  \E h : SumsOf(h, f, MaxProcs) /\ Total(f) = h[MaxProcs]
<1> DEFINE Body(h, n) == IF n = 0 THEN 0 ELSE h[n - 1] + f[n]
           sum == CHOOSE h : h = [n \in 0 .. MaxProcs |-> Body(h, n)]
<1>1. MaxProcs \in Nat \ {0}
  BY AttemptAssumption
<1>2. PICK g : SumsOf(g, f, MaxProcs)
  BY SumsExist
<1>3. g = [n \in 0 .. MaxProcs |-> Body(g, n)]
  <2>1. \A n \in 0 .. MaxProcs : g[n] = Body(g, n)
    BY <1>1, <1>2 DEF SumsOf
  <2>2. g = [n \in 0 .. MaxProcs |-> g[n]]
    BY <1>2 DEF SumsOf
  <2> HIDE DEF Body
  <2>3. QED
    BY <2>1, <2>2
<1>4. sum = [n \in 0 .. MaxProcs |-> Body(sum, n)]
  <2> HIDE DEF Body
  <2>1. QED
    BY <1>3
<1>5. Total(f) = sum[MaxProcs]
  BY DEF Total
<1> HIDE DEF sum
<1>6. sum[0] = 0 /\ \A n \in 1 .. MaxProcs : sum[n] = sum[n - 1] + f[n]
  BY <1>1, <1>4
<1>7. \A n \in 0 .. MaxProcs : sum[n] \in Nat
  <2> DEFINE S == {n \in 0 .. MaxProcs : sum[n] \in Nat}
  <2>1. 0 \in S
    BY <1>1, <1>6
  <2>2. ASSUME NEW k \in 1 .. MaxProcs, k - 1 \in S PROVE k \in S
    <3>1. f[k] \in Nat
      BY DEF Counters, Starts
    <3>2. QED
      BY <1>1, <1>6, <2>2, <3>1
  <2>3. \A k \in 0 .. MaxProcs : k \in S
    <3> HIDE DEF S
    <3>1. QED
      BY <1>1, <2>1, <2>2, UpTo
  <2>4. QED
    BY <2>3
<1>8. sum \in [0 .. MaxProcs -> Nat]
  <2> HIDE DEF Body
  <2>1. QED
    BY <1>4, <1>7
<1>9. QED
  BY <1>5, <1>6, <1>8 DEF SumsOf

\* A total falls with none of its counts.
LEMMA TotalMonotone ==
  ASSUME NEW f \in Counters, NEW g \in Counters, \A s \in Starts : f[s] <= g[s]
  PROVE  Total(f) \in Nat /\ Total(g) \in Nat /\ Total(f) <= Total(g)
<1>1. MaxProcs \in Nat \ {0}
  BY AttemptAssumption
<1>2. PICK h : SumsOf(h, f, MaxProcs) /\ Total(f) = h[MaxProcs]
  BY TotalIs
<1>3. PICK k : SumsOf(k, g, MaxProcs) /\ Total(g) = k[MaxProcs]
  BY TotalIs
<1> DEFINE S == {n \in 0 .. MaxProcs : h[n] <= k[n]}
<1>4. 0 \in S
  BY <1>1, <1>2, <1>3 DEF SumsOf
<1>5. ASSUME NEW n \in 1 .. MaxProcs, n - 1 \in S PROVE n \in S
  <2>1. f[n] \in Nat /\ g[n] \in Nat /\ f[n] <= g[n]
    BY DEF Counters, Starts
  <2>2. n - 1 \in 0 .. MaxProcs /\ n \in 0 .. MaxProcs
    BY <1>1
  <2>3. h[n - 1] \in Nat /\ k[n - 1] \in Nat /\ h[n - 1] <= k[n - 1]
    BY <1>2, <1>3, <1>5, <2>2 DEF SumsOf
  <2>4. h[n] = h[n - 1] + f[n] /\ k[n] = k[n - 1] + g[n]
    BY <1>2, <1>3 DEF SumsOf
  <2>5. QED
    BY <2>1, <2>2, <2>3, <2>4
<1>6. \A n \in 0 .. MaxProcs : n \in S
  <2> HIDE DEF S
  <2>1. QED
    BY <1>1, <1>4, <1>5, UpTo
<1>7. MaxProcs \in 0 .. MaxProcs
  BY <1>1
<1>8. QED
  BY <1>2, <1>3, <1>6, <1>7 DEF SumsOf

-----------------------------------------------------------------------------
(* The container.                                                          *)

Runs == [entered : BOOLEAN, exit : {"none", "completed", "max_iterations", "failed"},
         success : BOOLEAN, failed : BOOLEAN]

\* Where the task container was started; where it is yet to be stopped.
InTry == {"session", "hung", "normalize", "patch", "logs", "stop", "rm", "inspect", "again"}

DockerMode == mode = "host_agent_docker_tools"

\* An attempt that entered its session is in the try that stops the container
\* or has stopped it; nothing is stopped that was not started.
StopInv ==
  /\ run \in Runs
  /\ pc \in {"setup"} \cup (InTry \ {"session", "hung"}) => DockerMode
  /\ DockerMode /\ pc \in {"setup"} \cup InTry => ctr # "none"
  /\ ctr \in {"none", "running", "exited", "gone"}
  /\ pc \in {"preflight", "inner"} => stopped = "no"
  /\ stopped = "returned" => ctr = "gone"
  /\ DockerMode /\ run.entered => stopped \in {"returned", "raised"} \/ pc \in InTry

LEMMA StopInit == Init => StopInv
BY DEF Init, StopInv, Runs, InTry

LEMMA StopStep == StopInv /\ [Next]_vars => StopInv'
<1> SUFFICES ASSUME StopInv, [Next]_vars PROVE StopInv'
  OBVIOUS
<1> USE DEF StopInv, Runs, InTry, DockerMode, Docker, Mode, Goto, StampGoto, Stamp, Raised
<1>1. CASE UNCHANGED vars
  BY <1>1 DEF vars, mainVars, ctrVars
<1>2. CASE Preflight
  BY <1>2 DEF Preflight, ctrVars
<1>3. CASE StartTaskContainer
  BY <1>3 DEF StartTaskContainer
<1>4. CASE SetupSession
  <2>1. /\ pc = "setup" /\ UNCHANGED <<mode, stopped, ctr>>
        /\ \/ pc' = "session"
           \/ pc' = "caught" /\ run' = Raised
    BY <1>4 DEF SetupSession, ctrVars
  <2>2. run' \in Runs
    BY <1>4 DEF SetupSession
  <2>3. run'.entered => run.entered \/ pc' = "session"
    BY <2>1
  <2>4. QED
    BY <2>1, <2>2, <2>3
<1>5. CASE RunSession
  <2>1. /\ pc = "session" /\ DockerMode /\ UNCHANGED <<mode, stopped, ctr>>
        /\ pc' \in {"normalize", "logs"}
    BY <1>5 DEF RunSession, ctrVars
  <2>2. run' \in Runs
    BY <1>5 DEF RunSession
  <2>3. QED
    BY <2>1, <2>2
<1>6. CASE NormalizeTrace
  BY <1>6 DEF NormalizeTrace, ctrVars
<1>7. CASE ExtractPatch
  <2>1. /\ pc = "patch" /\ pc' = "logs" /\ UNCHANGED <<mode, stopped, ctr>>
        /\ run' \in Runs /\ run'.entered = run.entered
    <3>1. ASSUME NEW patch \in Patches, run' = [run EXCEPT !.success = run.exit = "completed" /\ patch]
          PROVE  run' \in Runs /\ run'.entered = run.entered
      <4> DEFINE success == run.exit = "completed" /\ patch
      <4>1. success \in BOOLEAN
        OBVIOUS
      <4> HIDE DEF success
      <4>2. QED
        BY <3>1, <4>1 DEF success
    <3>2. ASSUME run' = Raised PROVE run' \in Runs /\ run'.entered = run.entered
      BY <3>2
    <3>3. /\ pc = "patch" /\ pc' = "logs" /\ UNCHANGED <<mode, stopped, ctr>>
          /\ \/ \E patch \in Patches : run' = [run EXCEPT !.success = run.exit = "completed" /\ patch]
             \/ run' = Raised
      BY <1>7 DEF ExtractPatch, ctrVars
    <3> HIDE DEF StopInv, Runs, Raised
    <3>4. QED
      BY <3>1, <3>2, <3>3
  <2>2. QED
    BY <2>1
<1>8. CASE ReadLogs
  BY <1>8 DEF ReadLogs, ctrVars
<1>9. CASE StopContainer
  BY <1>9 DEF StopContainer
<1>10. CASE RemoveContainer
  BY <1>10 DEF RemoveContainer, Live
<1>11. CASE InspectContainer
  <2>1. PICK i \in Inspections :
          IF i.exists /\ removal /\ ~(pc = "again" /\ i.error)
          THEN \/ pc' = "again" /\ UNCHANGED <<now, stopped>>
               \/ pc = "again" /\ StopEnds(TRUE)
          ELSE StopEnds(i.exists)
    BY <1>11 DEF InspectContainer
  <2>2. pc \in {"inspect", "again"} /\ DockerMode /\ ctr # "none" /\ UNCHANGED <<mode, run, ctr>>
    BY <1>11 DEF InspectContainer, ctrVars
  <2>3. i.exists \in BOOLEAN /\ (~ i.exists => ctr = "gone")
    <3>1. (ctr \in {"running", "exited"}) \in BOOLEAN
      OBVIOUS
    <3>2. \/ i = [exists |-> ctr \in {"running", "exited"}, error |-> FALSE]
          \/ i = [exists |-> TRUE, error |-> TRUE]
      BY DEF Inspections, Live
    <3>3. CASE i = [exists |-> TRUE, error |-> TRUE]
      BY <3>3
    <3>4. CASE i = [exists |-> ctr \in {"running", "exited"}, error |-> FALSE]
      <4>1. i.exists = (ctr \in {"running", "exited"})
        BY <3>4
      <4>2. QED
        BY <2>2, <3>1, <4>1
    <3>5. QED
      BY <3>2, <3>3, <3>4
  <2>4. \/ pc' = "again" /\ UNCHANGED stopped
        \/ pc' \in {"caught", "returned"} /\ stopped' = "raised"
        \/ pc' \in {"caught", "returned"} /\ stopped' = "returned" /\ ctr = "gone"
    BY <2>1, <2>3 DEF StopEnds
  <2>5. QED
    BY <2>2, <2>4
<1>12. CASE RunTask
  <2>1. mode = "host_controller" /\ UNCHANGED <<mode, stopped>>
    BY <1>12 DEF RunTask
  <2>2. ASSUME NEW exit \in {"completed", "failed"},
               run' = [run EXCEPT !.exit = exit, !.success = exit = "completed"]
        PROVE  run' \in Runs
    <3> DEFINE success == exit = "completed"
    <3>1. success \in BOOLEAN
      OBVIOUS
    <3> HIDE DEF success
    <3>2. QED
      BY <2>2, <3>1 DEF success
  <2>3. pc' \in {"session", "hung", "caught", "returned"}
    BY <1>12 DEF RunTask
  <2>4. /\ ctr' \in {"none", "running", "exited", "gone"}
        /\ ctr = "gone" => ctr' = "gone"
    BY <1>12 DEF RunTask, Live
  <2>5. \/ UNCHANGED run
        \/ run' = [run EXCEPT !.entered = TRUE]
        \/ run' = Raised
        \/ \E exit \in {"completed", "failed"} :
             run' = [run EXCEPT !.exit = exit, !.success = exit = "completed"]
    BY <1>12 DEF RunTask
  <2>6. run' \in Runs
    BY <2>2, <2>5
  <2>7. QED
    BY <2>1, <2>3, <2>4, <2>6
<1>13. CASE InnerEnded
  BY <1>13 DEF InnerEnded, ctrVars
<1>14. CASE StopSampler
  BY <1>14 DEF StopSampler, ctrVars
<1>15. CASE JoinSampler
  BY <1>15 DEF JoinSampler, ctrVars
<1>16. CASE WriteArtifacts
  BY <1>16 DEF WriteArtifacts, ctrVars
<1>17. CASE WatchForContainerReady \/ Sampler \/ SessionHangs
  BY <1>17 DEF WatchForContainerReady, SessionHangs, Sampler, SampleStats, SampleByExec, SampleFromCgroup,
               SampleSwitches, SamplerWaits, mainVars, ctrVars
<1>18. CASE ContainerWorks \/ DaemonActs
  BY <1>18 DEF ContainerWorks, DaemonActs, mainVars, Live
<1>19. QED
  BY <1>1, <1>2, <1>3, <1>4, <1>5, <1>6, <1>7, <1>8, <1>9, <1>10, <1>11, <1>12, <1>13, <1>14, <1>15,
     <1>16, <1>17, <1>18 DEF Next, Main

\* Once its session was entered an attempt does not end with its container left
\* behind unless stop_task_container raised, whatever timed out and whenever the
\* daemon carried out what timed out (attempt_pipeline.py, stop_task_container).
THEOREM ContainerGoneOrReportedCorrect == Spec => []ContainerGoneOrReported
<1>1. StopInv => ContainerGoneOrReported
  BY DEF StopInv, ContainerGoneOrReported, Ended, InTry, DockerMode
<1>2. QED
  BY <1>1, StopInit, StopStep, PTL DEF Spec

-----------------------------------------------------------------------------
(* The sampler.                                                            *)

\* The thread is started by the coroutine only, which is done before the join.
ThreadInv ==
  /\ pc \in {"join", "write", "done"} => watcher = "done"
  /\ pc \in {"write", "done"} => thread \in {"off", "ended"} \/ late

LEMMA ThreadStep == ThreadInv /\ [Next]_vars => ThreadInv'
<1> SUFFICES ASSUME ThreadInv, [Next]_vars PROVE ThreadInv'
  OBVIOUS
<1> USE DEF ThreadInv, Goto, StampGoto, Stamp, samplerVars
<1>1. CASE UNCHANGED vars
  BY <1>1 DEF vars, mainVars
<1>2. CASE Preflight \/ StartTaskContainer \/ SetupSession \/ RunSession \/ SessionHangs \/ NormalizeTrace \/ ExtractPatch
           \/ ReadLogs \/ StopContainer \/ RemoveContainer
  BY <1>2 DEF Preflight, StartTaskContainer, SetupSession, RunSession, SessionHangs, NormalizeTrace, ExtractPatch,
              ReadLogs, StopContainer, RemoveContainer
<1>3. CASE InspectContainer
  <2>1. pc' \in {"again", "caught", "returned"}
    BY <1>3 DEF InspectContainer, StopEnds
  <2>2. QED
    BY <2>1
<1>4. CASE RunTask
  <2>1. pc' \in {"session", "hung", "caught", "returned"}
    BY <1>4 DEF RunTask
  <2>2. QED
    BY <2>1
<1>5. CASE InnerEnded \/ StopSampler
  BY <1>5 DEF InnerEnded, StopSampler
<1>6. CASE JoinSampler
  BY <1>6 DEF JoinSampler
<1>7. CASE WriteArtifacts
  BY <1>7 DEF WriteArtifacts
<1>8. CASE WatchForContainerReady
  BY <1>8 DEF WatchForContainerReady, Awaiting, mainVars
<1>9. CASE Sampler
  BY <1>9 DEF Sampler, SampleStats, SampleByExec, SampleFromCgroup, SampleSwitches, SamplerWaits, mainVars
<1>10. CASE ContainerWorks \/ DaemonActs
  BY <1>10 DEF ContainerWorks, DaemonActs, mainVars
<1>11. QED
  BY <1>1, <1>2, <1>3, <1>4, <1>5, <1>6, <1>7, <1>8, <1>9, <1>10 DEF Next, Main

Readable == Nat \cup {Absent}

SampleSet == [bytes : Readable, sw : Readable, torn : BOOLEAN]
IoSet == [mode : {"none", "cgroup", "exec"}, hwm : Nat, known : BOOLEAN, ctxt : Counters]

\* What bounds the bytes of the samples taken so far.
BytesBound == IF io.mode = "exec" THEN io.hwm ELSE work.io

\* What was counted is not more than what is there to count, and a torn sample
\* alone brings the total below that of an earlier one.
CountInv ==
  /\ io \in IoSet
  /\ work \in [io : Nat, start : Starts, sw : Nat]
  /\ samples \in Seq(SampleSet)
  /\ io.mode = "none" => samples = <<>> /\ io.hwm = 0 /\ \A s \in Starts : io.ctxt[s] = 0
  /\ io.mode = "cgroup" =>
       /\ io.ctxt[work.start] <= work.sw
       /\ \A s \in Starts : s > work.start => io.ctxt[s] = 0
  /\ thread = "ctxt" =>
       /\ io.mode = "cgroup"
       /\ reading.bytes \in Readable /\ reading.bytes <= work.io
       /\ \A i \in 1 .. Len(samples) : reading.bytes = Absent \/ samples[i].bytes <= reading.bytes
       /\ reading.start \in Starts \cup {Absent} /\ reading.start <= work.start
  /\ \A i \in 1 .. Len(samples) :
       /\ samples[i].bytes <= BytesBound
       /\ samples[i].sw <= Total(io.ctxt) \/ \E k \in i + 1 .. Len(samples) : samples[k].torn
  /\ CountersMonotone

LEMMA CountInit == Init => CountInv
<1> SUFFICES ASSUME Init PROVE CountInv
  OBVIOUS
<1>1. 1 \in Starts
  BY AttemptAssumption DEF Starts
<1>2. io \in IoSet
  BY DEF Init, Counters, IoSet
<1>3. QED
  BY <1>1, <1>2 DEF Init, CountInv, CountersMonotone, Counters, SampleSet

\* Another sample: its bytes are not below an earlier one's, nor is its total,
\* that is the total of the counts now, unless it is torn.
LEMMA SampleAppended ==
  ASSUME CountInv, NEW b \in Readable, NEW t \in Readable, NEW torn \in BOOLEAN,
         samples' = Append(samples, [bytes |-> b, sw |-> t, torn |-> torn]),
         io' \in IoSet, work' \in [io : Nat, start : Starts, sw : Nat],
         b <= BytesBound', BytesBound <= BytesBound' \/ samples = <<>>,
         \A i \in 1 .. Len(samples) : b = Absent \/ samples[i].bytes <= b,
         t <= Total(io'.ctxt), t # Absent => t = Total(io'.ctxt),
         torn \/ Total(io.ctxt) <= Total(io'.ctxt)
  PROVE  /\ samples' \in Seq(SampleSet)
         /\ \A i \in 1 .. Len(samples') :
              /\ samples'[i].bytes <= BytesBound'
              /\ \/ samples'[i].sw <= Total(io'.ctxt)
                 \/ \E k \in i + 1 .. Len(samples') : samples'[k].torn
         /\ CountersMonotone'
<1> DEFINE n == Len(samples)
           new == [bytes |-> b, sw |-> t, torn |-> torn]
<1>1. /\ samples \in Seq(SampleSet) /\ io \in IoSet /\ work \in [io : Nat, start : Starts, sw : Nat]
      /\ CountersMonotone
      /\ \A i \in 1 .. n :
           /\ samples[i].bytes <= BytesBound
           /\ samples[i].sw <= Total(io.ctxt) \/ \E k \in i + 1 .. n : samples[k].torn
  BY DEF CountInv
<1>2. new \in SampleSet
  BY DEF SampleSet
<1>3. /\ samples' \in Seq(SampleSet) /\ n \in Nat /\ Len(samples') = n + 1
      /\ \A i \in 1 .. n : samples'[i] = samples[i]
      /\ samples'[n + 1] = new
  <2> HIDE DEF new, SampleSet
  <2>1. samples' = Append(samples, new)
    BY DEF new
  <2>2. QED
    BY <1>1, <1>2, <2>1
<1>4. Total(io.ctxt) \in Nat /\ Total(io'.ctxt) \in Nat
  <2>1. io.ctxt \in Counters /\ io'.ctxt \in Counters
    BY <1>1 DEF IoSet
  <2>2. /\ \A s \in Starts : io.ctxt[s] <= io.ctxt[s]
        /\ \A s \in Starts : io'.ctxt[s] <= io'.ctxt[s]
    BY <2>1 DEF Counters
  <2>3. QED
    BY <2>1, <2>2, TotalMonotone
<1>5. BytesBound \in Nat /\ BytesBound' \in Nat
  BY <1>1 DEF BytesBound, IoSet
<1>6. \A i \in 1 .. n : samples[i].bytes \in Int /\ samples[i].sw \in Int
  <2>1. ASSUME NEW i \in 1 .. n PROVE samples[i].bytes \in Int /\ samples[i].sw \in Int
    <3>1. samples[i] \in SampleSet
      BY <1>1, InSeq
    <3>2. QED
      BY <3>1 DEF SampleSet, Readable, Absent
  <2>2. QED
    BY <2>1
<1>7. new.bytes = b /\ new.sw = t /\ new.torn = torn /\ b \in Int /\ t \in Int
  BY DEF Readable, Absent
<1>7a. \A i \in 1 .. n : b = Absent \/ samples[i].bytes <= b
  OBVIOUS
<1> HIDE DEF n, new
\* The old samples.
<1>8. ASSUME NEW i \in 1 .. n
      PROVE  /\ samples'[i].bytes <= BytesBound'
             /\ t = Absent \/ samples[i].sw <= t \/ \E k \in i + 1 .. n + 1 : samples'[k].torn
             /\ samples'[i].sw <= Total(io'.ctxt) \/ \E k \in i + 1 .. n + 1 : samples'[k].torn
  <2>1. samples'[i].bytes <= BytesBound'
    <3>1. samples # <<>>
      BY <1>3 DEF n
    <3>2. QED
      BY <1>1, <1>3, <1>5, <1>6, <3>1
  <2>2. CASE \E k \in i + 1 .. n : samples[k].torn
    <3>1. PICK k \in i + 1 .. n : samples[k].torn
      BY <2>2
    <3>2. k \in i + 1 .. n + 1 /\ k \in 1 .. n
      BY <1>3, <3>1
    <3>3. samples'[k].torn
      BY <1>3, <3>1, <3>2
    <3>4. QED
      BY <2>1, <3>2, <3>3
  <2>3. CASE torn
    <3>1. n + 1 \in i + 1 .. n + 1 /\ samples'[n + 1].torn
      BY <1>3, <1>7, <2>3
    <3>2. QED
      BY <2>1, <3>1
  <2>4. CASE samples[i].sw <= Total(io.ctxt) /\ ~torn
    <3>1. samples'[i] = samples[i] /\ samples[i].sw \in Int
      BY <1>3, <1>6
    <3>2. samples[i].sw <= Total(io'.ctxt)
      BY <1>4, <2>4, <3>1
    <3>3. QED
      BY <2>1, <3>1, <3>2
  <2>5. QED
    BY <1>1, <2>2, <2>3, <2>4
<1>9. ASSUME NEW i \in 1 .. n + 1
      PROVE  /\ samples'[i].bytes <= BytesBound'
             /\ samples'[i].sw <= Total(io'.ctxt) \/ \E k \in i + 1 .. n + 1 : samples'[k].torn
  <2>1. CASE i = n + 1
    BY <1>3, <1>7, <2>1
  <2>2. CASE i # n + 1
    <3>1. i \in 1 .. n
      BY <1>3, <2>2
    <3>2. QED
      BY <1>8, <3>1
  <2>3. QED
    BY <2>1, <2>2
<1>10. CountersMonotone'
  <2>1. ASSUME NEW i \in 1 .. n + 1, NEW j \in 1 .. n + 1, i < j
        PROVE  /\ samples'[j].bytes = Absent \/ samples'[i].bytes <= samples'[j].bytes
               /\ \/ samples'[j].sw = Absent \/ samples'[i].sw <= samples'[j].sw
                  \/ \E k \in i + 1 .. j : samples'[k].torn
    <3>1. i \in 1 .. n
      BY <1>3, <2>1
    <3>2. CASE j = n + 1
      BY <1>3, <1>7, <1>7a, <1>8, <3>1, <3>2
    <3>3. CASE j # n + 1
      <4>1. j \in 1 .. n
        BY <1>3, <3>3
      <4>2. \A k \in i + 1 .. j : samples'[k] = samples[k]
        BY <1>3, <3>1, <4>1
      <4>3. /\ samples[j].bytes = Absent \/ samples[i].bytes <= samples[j].bytes
            /\ \/ samples[j].sw = Absent \/ samples[i].sw <= samples[j].sw
               \/ \E k \in i + 1 .. j : samples[k].torn
        BY <1>1, <2>1, <3>1, <4>1 DEF CountersMonotone, n
      <4>4. samples'[i] = samples[i] /\ samples'[j] = samples[j]
        BY <1>3, <3>1, <4>1
      <4>5. (\E k \in i + 1 .. j : samples[k].torn) => \E k \in i + 1 .. j : samples'[k].torn
        BY <4>2
      <4>6. QED
        BY <4>3, <4>4, <4>5
    <3>4. QED
      BY <3>2, <3>3
  <2>2. QED
    BY <1>3, <2>1 DEF CountersMonotone
<1>11. QED
  BY <1>3, <1>9, <1>10

\* Inside the container: both are high-water marks.
LEMMA SampleByExecCounts == ASSUME CountInv, SampleByExec PROVE CountInv'
<1>1. PICK bytes \in Readings("exec"), sw \in SwReadings("exec") :
        LET b == IF bytes = Absent THEN Absent ELSE HighWater("exec", bytes)
            ctxt == IF sw > io.ctxt[1] THEN sw ELSE io.ctxt[1]
        IN /\ io' = [mode |-> "exec", hwm |-> IF b > io.hwm THEN b ELSE io.hwm,
                     known |-> io.known \/ sw # Absent, ctxt |-> [io.ctxt EXCEPT ![1] = ctxt]]
           /\ Sampled(b, sw # Absent, FALSE)
  BY DEF SampleByExec
<1> DEFINE b == IF bytes = Absent THEN Absent ELSE HighWater("exec", bytes)
           c == IF sw > io.ctxt[1] THEN sw ELSE io.ctxt[1]
           hwm == IF b > io.hwm THEN b ELSE io.hwm
           known == io.known \/ sw # Absent
           t == IF sw # Absent THEN Total(io'.ctxt) ELSE Absent
<1>2. /\ io' = [mode |-> "exec", hwm |-> hwm, known |-> known, ctxt |-> [io.ctxt EXCEPT ![1] = c]]
      /\ samples' = Append(samples, [bytes |-> b, sw |-> t, torn |-> FALSE])
      /\ UNCHANGED work /\ thread' = "wait"
  BY <1>1 DEF SampleByExec, ctrVars, Sampled
<1>3. /\ io.mode \in {"none", "exec"} /\ io.hwm \in Nat /\ io.ctxt \in [Starts -> Nat] /\ io.known \in BOOLEAN
      /\ work \in [io : Nat, start : Starts, sw : Nat] /\ samples \in Seq(SampleSet)
      /\ 1 \in Starts
  BY AttemptAssumption DEF CountInv, SampleByExec, IoMode, IoSet, Counters, Starts
<1>4. bytes \in Readable /\ sw \in Readable
  <2>1. 0 .. work.io \subseteq Nat /\ 0 .. work.sw \subseteq Nat
    BY <1>3
  <2>2. QED
    BY <2>1 DEF Readings, SwReadings, Readable
<1>5. /\ b \in Readable /\ hwm \in Nat /\ b <= hwm /\ io.hwm <= hwm
      /\ b # Absent => io.hwm <= b
  BY <1>3, <1>4 DEF HighWater, Readable, Absent
<1>6. c \in Nat /\ io.ctxt[1] <= c /\ known \in BOOLEAN
  BY <1>3, <1>4 DEF Readable, Absent
<1> HIDE DEF b, c, hwm, known, t
<1>7. /\ io' \in IoSet /\ io'.mode = "exec" /\ io'.hwm = hwm
      /\ io'.ctxt \in Counters /\ io.ctxt \in Counters
      /\ \A s \in Starts : io.ctxt[s] <= io'.ctxt[s]
  BY <1>2, <1>3, <1>5, <1>6 DEF IoSet, Counters
<1>8. Total(io.ctxt) \in Nat /\ Total(io'.ctxt) \in Nat /\ Total(io.ctxt) <= Total(io'.ctxt)
  BY <1>7, TotalMonotone
<1>9. t \in Readable /\ t <= Total(io'.ctxt) /\ (t # Absent => t = Total(io'.ctxt))
  BY <1>8 DEF t, Readable, Absent
<1>10. b <= BytesBound' /\ (BytesBound <= BytesBound' \/ samples = <<>>)
  BY <1>3, <1>5, <1>7 DEF BytesBound, CountInv
<1>11. \A i \in 1 .. Len(samples) : b = Absent \/ samples[i].bytes <= b
  <2>1. ASSUME NEW i \in 1 .. Len(samples), b # Absent PROVE samples[i].bytes <= b
    <3>1. io.mode = "exec" /\ samples[i].bytes <= io.hwm
      <4>1. samples # <<>>
        BY <1>3
      <4>2. QED
        BY <1>3, <4>1 DEF CountInv, BytesBound
    <3>2. samples[i].bytes \in Int
      <4>1. samples[i] \in SampleSet
        BY <1>3, InSeq
      <4>2. QED
        BY <4>1 DEF SampleSet, Readable, Absent
    <3>3. QED
      BY <1>3, <1>5, <2>1, <3>1, <3>2 DEF Readable, Absent
  <2>2. QED
    BY <2>1
<1>12. work' \in [io : Nat, start : Starts, sw : Nat]
  BY <1>2, <1>3
<1>13. /\ samples' \in Seq(SampleSet)
       /\ \A i \in 1 .. Len(samples') :
            /\ samples'[i].bytes <= BytesBound'
            /\ \/ samples'[i].sw <= Total(io'.ctxt)
               \/ \E k \in i + 1 .. Len(samples') : samples'[k].torn
       /\ CountersMonotone'
  BY <1>2, <1>5, <1>7, <1>8, <1>9, <1>10, <1>11, <1>12, SampleAppended
<1>14. QED
  BY <1>2, <1>7, <1>12, <1>13 DEF CountInv

\* From the cgroup, before the counts.
LEMMA SampleFromCgroupCounts == ASSUME CountInv, SampleFromCgroup PROVE CountInv'
<1>1. PICK bytes \in Readings("cgroup") :
        \/ thread' = "wait" /\ Sampled(bytes, FALSE, FALSE)
        \/ /\ thread' = "ctxt" /\ UNCHANGED samples
           /\ reading' \in [bytes : {bytes}, start : {Absent, work.start}]
  BY DEF SampleFromCgroup
<1>2. io' = [io EXCEPT !.mode = "cgroup"] /\ UNCHANGED work /\ io.mode \in {"none", "cgroup"}
  BY DEF SampleFromCgroup, ctrVars, IoMode, CountInv, IoSet
<1>3. /\ io \in IoSet /\ work \in [io : Nat, start : Starts, sw : Nat] /\ samples \in Seq(SampleSet)
      /\ io' \in IoSet /\ io'.mode = "cgroup" /\ io'.ctxt = io.ctxt
  BY <1>2 DEF CountInv, IoSet
<1>4. bytes \in Readable /\ bytes <= work.io /\ (bytes # Absent => bytes = work.io)
  BY <1>3 DEF Readings, Readable, Absent
<1>5. BytesBound' = work.io /\ (BytesBound = work.io \/ samples = <<>>)
  BY <1>2, <1>3 DEF BytesBound, CountInv
<1>6. \A i \in 1 .. Len(samples) : bytes = Absent \/ samples[i].bytes <= bytes
  BY <1>3, <1>4, <1>5 DEF CountInv
<1>7. Total(io.ctxt) \in Nat
  <2>1. io.ctxt \in Counters /\ \A s \in Starts : io.ctxt[s] <= io.ctxt[s]
    BY <1>3 DEF IoSet, Counters
  <2>2. QED
    BY <2>1, TotalMonotone
<1>8. /\ io'.ctxt[work.start] <= work.sw
      /\ \A s \in Starts : s > work.start => io'.ctxt[s] = 0
  BY <1>2, <1>3 DEF CountInv
<1>9. CASE thread' = "wait" /\ Sampled(bytes, FALSE, FALSE)
  <2>1. samples' = Append(samples, [bytes |-> bytes, sw |-> Absent, torn |-> FALSE])
    BY <1>9 DEF Sampled
  <2>2. Absent \in Readable /\ Absent <= Total(io'.ctxt) /\ FALSE \in BOOLEAN
    BY <1>3, <1>7 DEF Readable, Absent
  <2>3. /\ work' \in [io : Nat, start : Starts, sw : Nat] /\ work.io \in Nat
        /\ bytes <= BytesBound' /\ (BytesBound <= BytesBound' \/ samples = <<>>)
        /\ Total(io.ctxt) <= Total(io'.ctxt)
    BY <1>2, <1>3, <1>4, <1>5, <1>7
  <2>4. /\ samples' \in Seq(SampleSet)
        /\ \A i \in 1 .. Len(samples') :
             /\ samples'[i].bytes <= BytesBound'
             /\ \/ samples'[i].sw <= Total(io'.ctxt)
                \/ \E k \in i + 1 .. Len(samples') : samples'[k].torn
        /\ CountersMonotone'
    <3> DEFINE t == Absent
               torn == FALSE
    <3>1. /\ t \in Readable /\ torn \in BOOLEAN /\ t <= Total(io'.ctxt) /\ ~ (t # Absent)
          /\ samples' = Append(samples, [bytes |-> bytes, sw |-> t, torn |-> torn])
      BY <2>1, <2>2
    <3> HIDE DEF t, torn
    <3>2. QED
      BY <1>3, <1>4, <1>6, <2>3, <3>1, SampleAppended
  <2>5. QED
    BY <1>2, <1>3, <1>8, <1>9, <2>3, <2>4 DEF CountInv
<1>10. CASE thread' = "ctxt" /\ UNCHANGED samples /\ reading' \in [bytes : {bytes}, start : {Absent, work.start}]
  <2>1. /\ reading'.bytes = bytes /\ reading'.start \in Starts \cup {Absent}
        /\ reading'.start <= work.start
    <3>1. work.start \in Nat
      BY <1>3 DEF Starts
    <3>2. reading'.bytes = bytes /\ reading'.start \in {Absent, work.start}
      BY <1>10
    <3>3. QED
      BY <1>3, <3>1, <3>2 DEF Absent
  <2>2. \A i \in 1 .. Len(samples) : samples[i].bytes <= BytesBound'
    BY <1>3, <1>5 DEF CountInv
  <2>3. QED
    BY <1>2, <1>3, <1>4, <1>6, <1>8, <1>10, <2>1, <2>2 DEF CountInv, CountersMonotone
<1>11. QED
  BY <1>1, <1>9, <1>10

\* The counts: what is kept is not below what was, unless it is another's.
LEMMA SampleSwitchesCounts == ASSUME CountInv, SampleSwitches PROVE CountInv'
<1>1. PICK sw \in SwReadings("cgroup") :
        LET kept == sw # Absent /\ reading.start # Absent
        IN /\ io' = IF kept THEN Counted(reading.start, sw) ELSE io
           /\ Sampled(reading.bytes, io'.known, kept /\ reading.start # work.start)
  BY DEF SampleSwitches
<1> DEFINE kept == sw # Absent /\ reading.start # Absent
           torn == kept /\ reading.start # work.start
           b == reading.bytes
           t == IF io'.known THEN Total(io'.ctxt) ELSE Absent
<1>2. /\ io' = IF kept THEN Counted(reading.start, sw) ELSE io
      /\ samples' = Append(samples, [bytes |-> b, sw |-> t, torn |-> torn])
      /\ UNCHANGED work /\ thread' = "wait" /\ thread = "ctxt"
  BY <1>1 DEF SampleSwitches, Sampled, ctrVars
<1>3. /\ io \in IoSet /\ work \in [io : Nat, start : Starts, sw : Nat] /\ samples \in Seq(SampleSet)
      /\ io.mode = "cgroup" /\ b \in Readable /\ b <= work.io
      /\ \A i \in 1 .. Len(samples) : b = Absent \/ samples[i].bytes <= b
      /\ reading.start \in Starts \cup {Absent} /\ reading.start <= work.start
      /\ io.ctxt[work.start] <= work.sw
      /\ \A s \in Starts : s > work.start => io.ctxt[s] = 0
  BY <1>2 DEF CountInv
<1>4. sw \in Readable /\ (sw # Absent => sw = work.sw /\ sw \in Nat)
  BY <1>3 DEF SwReadings, Readable, Absent
<1>5. \A s \in Starts : io.ctxt[s] \in Nat
  BY <1>3 DEF IoSet, Counters
<1>6. /\ io' \in IoSet /\ io'.mode = "cgroup"
      /\ torn \/ \A s \in Starts : io.ctxt[s] <= io'.ctxt[s]
      /\ io'.ctxt[work.start] <= work.sw
      /\ \A s \in Starts : s > work.start => io'.ctxt[s] = 0
  <2>1. CASE ~kept
    BY <1>2, <1>3, <1>5, <2>1
  <2>2. CASE kept
    <3>1. reading.start \in Starts /\ sw = work.sw /\ sw \in Nat
      BY <1>3, <1>4, <2>2
    <3>2. io' = [io EXCEPT !.ctxt = [io.ctxt EXCEPT ![reading.start] = sw], !.known = TRUE]
      BY <1>2, <2>2 DEF Counted
    <3>3. /\ io'.ctxt = [io.ctxt EXCEPT ![reading.start] = sw] /\ io'.mode = "cgroup"
          /\ io' \in IoSet
      BY <1>3, <3>1, <3>2 DEF IoSet, Counters
    <3>4. /\ io'.ctxt[reading.start] = work.sw
          /\ \A s \in Starts : s # reading.start => io'.ctxt[s] = io.ctxt[s]
      BY <1>3, <3>1, <3>3 DEF IoSet, Counters
    <3>5. \A s \in Starts : s > work.start => s # reading.start
      BY <1>3, <3>1 DEF Starts
    <3>6. work.sw \in Nat /\ work.sw <= work.sw
      BY <1>3
    <3>7. torn \/ reading.start = work.start
      BY <2>2
    <3> HIDE DEF torn
    <3>8. torn \/ \A s \in Starts : io.ctxt[s] <= io'.ctxt[s]
      BY <1>3, <1>5, <3>4, <3>7
    <3>9. io'.ctxt[work.start] <= work.sw
      BY <1>3, <3>4, <3>6
    <3>10. QED
      BY <1>3, <3>3, <3>4, <3>5, <3>8, <3>9
  <2>3. QED
    BY <2>1, <2>2
<1>7. Total(io.ctxt) \in Nat /\ Total(io'.ctxt) \in Nat /\ (torn \/ Total(io.ctxt) <= Total(io'.ctxt))
  <2>1. io.ctxt \in Counters /\ io'.ctxt \in Counters
    BY <1>3, <1>6 DEF IoSet
  <2>2. /\ \A s \in Starts : io.ctxt[s] <= io.ctxt[s]
        /\ \A s \in Starts : io'.ctxt[s] <= io'.ctxt[s]
    BY <2>1 DEF Counters
  <2> HIDE DEF torn
  <2>3. QED
    BY <1>6, <2>1, <2>2, TotalMonotone
<1>8. /\ t \in Readable /\ t <= Total(io'.ctxt) /\ (t # Absent => t = Total(io'.ctxt))
      /\ torn \in BOOLEAN
  BY <1>7 DEF Readable, Absent
<1>9. /\ b <= BytesBound' /\ (BytesBound <= BytesBound' \/ samples = <<>>)
      /\ work' \in [io : Nat, start : Starts, sw : Nat]
  BY <1>2, <1>3, <1>6 DEF BytesBound
<1> HIDE DEF torn, b, t, kept
<1>10. /\ samples' \in Seq(SampleSet)
       /\ \A i \in 1 .. Len(samples') :
            /\ samples'[i].bytes <= BytesBound'
            /\ \/ samples'[i].sw <= Total(io'.ctxt)
               \/ \E k \in i + 1 .. Len(samples') : samples'[k].torn
       /\ CountersMonotone'
  BY <1>2, <1>3, <1>6, <1>7, <1>8, <1>9, SampleAppended
<1>11. QED
  BY <1>2, <1>6, <1>9, <1>10 DEF CountInv

\* The container's counters go up; a new process starts at none.
LEMMA WorkCounts == ASSUME CountInv, ContainerWorks PROVE CountInv'
<1>1. /\ UNCHANGED <<io, samples, thread, reading>>
      /\ \/ work' = [work EXCEPT !.io = @ + 1]
         \/ work' = [work EXCEPT !.sw = @ + 1]
         \/ work.start < MaxProcs /\ work' = [work EXCEPT !.start = @ + 1, !.sw = 0]
  BY DEF ContainerWorks, samplerVars
<1>2. /\ work.io \in Nat /\ work.start \in Starts /\ work.sw \in Nat
      /\ work = [io |-> work.io, start |-> work.start, sw |-> work.sw]
      /\ io.ctxt \in Counters /\ \A s \in Starts : io.ctxt[s] \in Nat
  BY DEF CountInv, Counters, IoSet
<1>3. /\ work' \in [io : Nat, start : Starts, sw : Nat] /\ work.io <= work'.io
      /\ \/ work'.start = work.start /\ work.sw <= work'.sw
         \/ work'.start = work.start + 1 /\ work'.sw = 0
  <2>1. CASE work' = [work EXCEPT !.io = @ + 1]
    BY <1>2, <2>1
  <2>2. CASE work' = [work EXCEPT !.sw = @ + 1]
    BY <1>2, <2>2
  <2>3. CASE work.start < MaxProcs /\ work' = [work EXCEPT !.start = @ + 1, !.sw = 0]
    <3>1. work.start + 1 \in Starts
      BY <1>2, <2>3, AttemptAssumption DEF Starts
    <3>2. work' = [io |-> work.io, start |-> work.start + 1, sw |-> 0]
      BY <1>2, <2>3
    <3>3. QED
      BY <1>2, <3>1, <3>2
  <2>4. QED
    BY <1>1, <2>1, <2>2, <2>3
<1>4. io.mode = "cgroup" =>
        /\ io.ctxt[work'.start] <= work'.sw
        /\ \A s \in Starts : s > work'.start => io.ctxt[s] = 0
  <2> SUFFICES ASSUME io.mode = "cgroup"
               PROVE  /\ io.ctxt[work'.start] <= work'.sw
                      /\ \A s \in Starts : s > work'.start => io.ctxt[s] = 0
    OBVIOUS
  <2>1. io.ctxt[work.start] <= work.sw /\ \A s \in Starts : s > work.start => io.ctxt[s] = 0
    BY DEF CountInv
  <2>2. CASE work'.start = work.start /\ work.sw <= work'.sw
    BY <1>2, <1>3, <2>1, <2>2
  <2>3. CASE work'.start = work.start + 1 /\ work'.sw = 0
    <3>1. work'.start \in Starts /\ work'.start > work.start
      BY <1>2, <1>3, <2>3 DEF Starts
    <3>2. \A s \in Starts : s > work'.start => s > work.start
      BY <1>2, <2>3 DEF Starts
    <3>3. QED
      BY <2>1, <2>3, <3>1, <3>2
  <2>4. QED
    BY <1>3, <2>2, <2>3
<1>5. \A i \in 1 .. Len(samples) : samples[i].bytes <= BytesBound'
  <2>1. ASSUME NEW i \in 1 .. Len(samples), io.mode # "exec" PROVE samples[i].bytes <= work'.io
    <3>1. samples[i].bytes <= work.io
      BY <2>1 DEF CountInv, BytesBound
    <3>2. samples[i].bytes \in Int
      <4>1. samples \in Seq(SampleSet)
        BY DEF CountInv
      <4> HIDE DEF CountInv
      <4>3. samples[i] \in SampleSet
        BY <4>1, InSeq
      <4>2. QED
        BY <4>3 DEF SampleSet, Readable, Absent
    <3>3. QED
      BY <1>2, <1>3, <3>1, <3>2
  <2>2. QED
    BY <1>1, <2>1 DEF CountInv, BytesBound
<1>6. thread = "ctxt" => reading.bytes <= work'.io /\ reading.start <= work'.start
  <2> SUFFICES ASSUME thread = "ctxt" PROVE reading.bytes <= work'.io /\ reading.start <= work'.start
    OBVIOUS
  <2>1. /\ reading.bytes \in Readable /\ reading.bytes <= work.io
        /\ reading.start \in Starts \cup {Absent} /\ reading.start <= work.start
    BY DEF CountInv
  <2>2. work.start <= work'.start /\ work.start \in Nat /\ work'.start \in Nat
    BY <1>2, <1>3 DEF Starts
  <2>3. QED
    BY <1>2, <1>3, <2>1, <2>2 DEF Readable, Absent, Starts
<1>7. QED
  BY <1>1, <1>3, <1>4, <1>5, <1>6 DEF CountInv, CountersMonotone

LEMMA CountStep == CountInv /\ [Next]_vars => CountInv'
<1> SUFFICES ASSUME CountInv, [Next]_vars PROVE CountInv'
  OBVIOUS
<1>1. ASSUME UNCHANGED <<io, work, samples, reading>>, thread' = "ctxt" => thread = "ctxt" PROVE CountInv'
  BY <1>1 DEF CountInv, CountersMonotone, BytesBound
<1>2. CASE SampleByExec
  BY <1>2, SampleByExecCounts
<1>3. CASE SampleFromCgroup
  BY <1>3, SampleFromCgroupCounts
<1>4. CASE SampleSwitches
  BY <1>4, SampleSwitchesCounts
<1>5. CASE ContainerWorks
  BY <1>5, WorkCounts
<1>6. CASE Main \/ SessionHangs
  BY <1>1, <1>6 DEF Main, SessionHangs, Preflight, StartTaskContainer, SetupSession, RunSession, NormalizeTrace,
    ExtractPatch, ReadLogs, StopContainer, RemoveContainer, InspectContainer, RunTask, InnerEnded, StopSampler,
    JoinSampler, WriteArtifacts, ctrVars, samplerVars
<1>7. CASE WatchForContainerReady \/ SampleStats \/ SamplerWaits \/ DaemonActs \/ UNCHANGED vars
  BY <1>1, <1>7 DEF WatchForContainerReady, SampleStats, SamplerWaits, DaemonActs, vars, ctrVars, samplerVars
<1>8. QED
  BY <1>2, <1>3, <1>4, <1>5, <1>6, <1>7 DEF Next, Sampler

\* No sampler outlives its attempt but one that join() gave up on, and its counters
\* can be subtracted: they never fall, though processes end, pids are used again
\* and readings inside the container lose what ended, but for the switches of a
\* pid that was reused between its two readings (container_stats_sampler.py).
THEOREM MeasurementSoundCorrect == Spec => []MeasurementSound
<1>1. Init => ThreadInv
  BY DEF Init, ThreadInv
<1>2. ThreadInv /\ CountInv => MeasurementSound
  BY DEF ThreadInv, CountInv, MeasurementSound, NoOrphanSampler
<1>3. QED
  BY <1>1, <1>2, CountInit, ThreadStep, CountStep, PTL DEF Spec

-----------------------------------------------------------------------------
(* The shared collector.                                                   *)

\* Only the collector started last runs, and none before the first.
CollectorInv ==
  /\ collector.gen \in Nat
  /\ collector.alive \subseteq {collector.gen}
  /\ collector.gen = 0 => collector.alive = {}
  /\ collector = [gen |-> collector.gen, alive |-> collector.alive, latest |-> collector.latest]

LEMMA CollectorInvStep == CollectorInv /\ [MonitorNext]_monitorVars => CollectorInv'
<1> SUFFICES ASSUME CollectorInv, [MonitorNext]_monitorVars PROVE CollectorInv'
  OBVIOUS
<1>1. ASSUME NEW s \in Samplers, GetCollector(s) PROVE CollectorInv'
  <2>1. CASE collector' = collector
    BY <2>1 DEF CollectorInv
  <2>2. CASE collector' = NewCollector /\ collector.alive = {}
    BY <2>2 DEF CollectorInv, NewCollector
  <2>3. QED
    BY <1>1, <2>1, <2>2 DEF GetCollector, CollectorInv
<1>2. ASSUME NEW g \in 1..(MaxCollectors + 1), CollectorReads(g) PROVE CollectorInv'
  <2>1. /\ collector'.gen = collector.gen
        /\ collector'.alive \subseteq collector.alive
        /\ collector' = [gen |-> collector'.gen, alive |-> collector'.alive, latest |-> collector'.latest]
    BY <1>2 DEF CollectorReads, CollectorInv
  <2>2. QED
    BY <2>1 DEF CollectorInv
<1>3. CASE UNCHANGED collector
  BY <1>3 DEF CollectorInv
<1>4. ASSUME MonitorNext, ~ UNCHANGED collector
      PROVE  \/ \E s \in Samplers : GetCollector(s)
             \/ \E g \in 1..(MaxCollectors + 1) : CollectorReads(g)
  BY <1>4 DEF MonitorNext, StartContainer, RegisterContainer, ContainerStops, UnregisterContainer, Recorder, BeginTick, ListContainers, SelectTargets, ReadStats, SampleAccess, WriteLine, WaitTick, RecUnchanged, StopRecorder, WriteSummary, AskReading, hostVars
<1>5. QED
  BY <1>1, <1>2, <1>3, <1>4 DEF monitorVars, hostVars

\* However many samplers ask for a reading at the same time and however often
\* the collector crashes, never more than one collector thread runs: the check
\* and the start are one step under the lock.
THEOREM OneCollectorCorrect == MonitorSpec => []OneCollector
<1>1. MonitorInit => CollectorInv
  BY DEF MonitorInit, CollectorInv
<1>2. CollectorInv => OneCollector
  <2> SUFFICES ASSUME CollectorInv PROVE OneCollector
    OBVIOUS
  <2>1. collector.alive = {} \/ collector.alive = {collector.gen}
    BY DEF CollectorInv
  <2>2. QED
    <3>1. CASE collector.alive = {}
      BY <3>1, FS_EmptySet DEF OneCollector
    <3>2. CASE collector.alive = {collector.gen}
      <4>1. Cardinality({collector.gen}) = 1
        BY FS_Singleton
      <4>2. QED
        BY <3>2, <4>1 DEF OneCollector
    <3>3. QED
      BY <2>1, <3>1, <3>2
<1>3. QED
  BY <1>1, <1>2, CollectorInvStep, PTL DEF MonitorSpec

-----------------------------------------------------------------------------
(* The recorder's file and its summary.                                    *)

\* A tick that has neither been counted nor written a line yet.
Open ==
  \/ recorder \in {"list", "select", "stats", "access"}
  \/ recorder = "write" /\ counters.ticks \notin WrittenTicks

TickTypes ==
  /\ recorder \in {"tick", "list", "select", "stats", "access", "write", "wait", "ended"}
  /\ targets \subseteq Containers
  /\ recorder \in {"stats", "access", "write"} => listed \subseteq Containers /\ listed # {}
  /\ got \subseteq Containers
  /\ recorder = "access" => got # {}
  /\ recorder \in {"tick", "list", "select", "stats", "wait", "ended"} => got = {}
  /\ counters \in [ticks : Nat, empty : Nat, errors : Nat, dropped : Nat]
  /\ file \in Seq([tick : Nat, id : Containers])

\* Lines are of this tick or of earlier ones, and those of this tick are about
\* containers that are not to be written any more.
FileInv ==
  /\ \A i \in 1..Len(file) : file[i].tick <= counters.ticks
  /\ \A i \in 1..Len(file) : file[i].tick = counters.ticks =>
       recorder \in {"write", "wait", "tick", "ended"} /\ file[i].id \notin got
  /\ \A i, j \in 1..Len(file) : i # j => file[i] # file[j]
  /\ recorder = "write" => got # {} \/ counters.ticks \in WrittenTicks

\* Every tick is accounted for once; the error of a summary that came too soon
\* is one more.
TickCountInv ==
  /\ IsFiniteSet(WrittenTicks)
  /\ ~ (summary.written /\ ~summary.complete) =>
       counters.ticks = counters.empty + counters.errors + counters.dropped + Cardinality(WrittenTicks) + (IF Open THEN 1 ELSE 0)

SummaryInv ==
  /\ summary.written \in BOOLEAN
  /\ summary.written => summary.complete \in BOOLEAN
  /\ summary.written /\ summary.complete =>
       recorder = "ended" /\ summary.k = counters /\ summary.count = Len(file)

RecorderInv == TickTypes /\ FileInv /\ TickCountInv /\ SummaryInv

\* An error is counted once, whether it is kept or dropped.
LEMMA RecordErrorCounts ==
  ASSUME counters \in [ticks : Nat, empty : Nat, errors : Nat, dropped : Nat]
  PROVE  /\ RecordError(counters) \in [ticks : Nat, empty : Nat, errors : Nat, dropped : Nat]
         /\ RecordError(counters).ticks = counters.ticks
         /\ RecordError(counters).empty = counters.empty
         /\ RecordError(counters).errors + RecordError(counters).dropped
              = counters.errors + counters.dropped + 1
  BY MonitoringAssumption DEF RecordError

\* What one more line adds to the ticks that are written.
LEMMA AppendedTicks ==
  ASSUME file \in Seq([tick : Nat, id : Containers]), NEW c \in Containers, NEW n \in Nat,
         file' = Append(file, [tick |-> n, id |-> c])
  PROVE  WrittenTicks' = WrittenTicks \cup {n}
<1>1. /\ Len(file') = Len(file) + 1 /\ Len(file) \in Nat
      /\ file'[Len(file) + 1] = [tick |-> n, id |-> c]
      /\ \A i \in 1..Len(file) : file'[i] = file[i]
  OBVIOUS
<1>2. \A i \in 1..Len(file') : i \in 1..Len(file) \/ i = Len(file) + 1
  BY <1>1
<1>3. Len(file) + 1 \in 1..Len(file') /\ 1..Len(file) \subseteq 1..Len(file')
  BY <1>1
<1>4. WrittenTicks' = {file'[i].tick : i \in 1..Len(file')}
  BY DEF WrittenTicks
<1>5. QED
  BY <1>1, <1>2, <1>3, <1>4 DEF WrittenTicks

\* What the lines of the file are.
LEMMA Lines ==
  ASSUME file \in Seq([tick : Nat, id : Containers])
  PROVE  /\ Len(file) \in Nat
         /\ \A i \in 1..Len(file) : file[i].tick \in Nat /\ file[i].id \in Containers
<1>1. \A i \in 1..Len(file) : file[i] \in [tick : Nat, id : Containers]
  BY ElementOfSeq
<1>2. QED
  BY <1>1

LEMMA RecorderInvInit == MonitorInit => RecorderInv
<1> SUFFICES ASSUME MonitorInit PROVE RecorderInv
  OBVIOUS
<1>1. file = <<>> /\ WrittenTicks = {}
  BY DEF MonitorInit, WrittenTicks
<1>2. IsFiniteSet(WrittenTicks) /\ Cardinality(WrittenTicks) = 0
  BY <1>1, FS_EmptySet
<1>3. TickTypes /\ FileInv /\ SummaryInv
  BY <1>1 DEF MonitorInit, TickTypes, FileInv, SummaryInv, NoSummary
<1>4. TickCountInv
  BY <1>1, <1>2 DEF MonitorInit, TickCountInv, Open
<1>5. QED
  BY <1>3, <1>4 DEF RecorderInv

LEMMA RecorderInvStep == RecorderInv /\ [MonitorNext]_monitorVars => RecorderInv'
<1> SUFFICES ASSUME RecorderInv, [MonitorNext]_monitorVars PROVE RecorderInv'
  OBVIOUS
<1> USE DEF RecorderInv, TickTypes, SummaryInv
<1>1. CASE UNCHANGED <<recVars, summary>> /\ targets' \subseteq Containers
  <2>1. UNCHANGED <<recorder, listed, got, counters, file, summary, WrittenTicks, Open>>
    BY <1>1 DEF recVars, WrittenTicks, Open
  <2>2. QED
    BY <1>1, <2>1 DEF FileInv, TickCountInv
<1>2. ASSUME NEW c \in Containers,
             StartContainer(c) \/ RegisterContainer(c) \/ ContainerStops(c) \/ UnregisterContainer(c)
      PROVE  RecorderInv'
  BY <1>1, <1>2 DEF StartContainer, RegisterContainer, ContainerStops, UnregisterContainer
\* Steps that leave the file alone.
<1>3. ASSUME UNCHANGED <<file, targets>> PROVE WrittenTicks' = WrittenTicks
  BY <1>3 DEF WrittenTicks
<1>4. ASSUME IsFiniteSet(WrittenTicks) PROVE Cardinality(WrittenTicks) \in Nat
  BY <1>4, FS_CardinalityType
<1>5. CASE BeginTick
  <2>1. /\ UNCHANGED <<got, file, summary, targets>> /\ recorder = "tick" /\ WrittenTicks' = WrittenTicks
    BY <1>3, <1>5 DEF BeginTick, RecUnchanged, targetVars
  <2>2. CASE recorder' = "ended" /\ UNCHANGED counters
    BY <2>1, <2>2 DEF FileInv, TickCountInv, Open
  <2>3. CASE recorder' = "list" /\ counters' = [counters EXCEPT !.ticks = @ + 1]
    <3>1. \A i \in 1..Len(file) : file[i].tick \in Nat
      BY Lines
    <3>2. FileInv'
      BY <2>1, <2>3, <3>1 DEF FileInv
    <3>3. TickCountInv'
      BY <1>4, <2>1, <2>3 DEF TickCountInv, Open
    <3>4. QED
      BY <2>1, <2>3, <3>2, <3>3, SMTT(30)
  <2>4. QED
    BY <1>5, <2>2, <2>3 DEF BeginTick
<1>6. ASSUME recorder \in {"list", "select", "stats"}, TickFails \/ TickEmpty,
             UNCHANGED <<got, file, summary, targets>>
      PROVE  RecorderInv'
  <2>1. WrittenTicks' = WrittenTicks
    BY <1>3, <1>6
  <2>2. /\ counters' \in [ticks : Nat, empty : Nat, errors : Nat, dropped : Nat]
        /\ counters'.ticks = counters.ticks
        /\ counters'.empty + counters'.errors + counters'.dropped
             = counters.empty + counters.errors + counters.dropped + 1
        /\ recorder' = "wait"
    <3>1. CASE TickFails
      <4>1. counters' = RecordError(counters) /\ recorder' = "wait"
        BY <3>1 DEF TickFails
      <4>2. /\ counters' \in [ticks : Nat, empty : Nat, errors : Nat, dropped : Nat]
            /\ counters'.ticks = counters.ticks /\ counters'.empty = counters.empty
            /\ counters'.errors + counters'.dropped = counters.errors + counters.dropped + 1
        BY <4>1, RecordErrorCounts
      <4>3. /\ counters.empty \in Nat /\ counters.errors \in Nat /\ counters.dropped \in Nat
            /\ counters'.errors \in Nat /\ counters'.dropped \in Nat
        BY <4>2
      <4>4. counters'.empty + counters'.errors + counters'.dropped
              = counters.empty + counters.errors + counters.dropped + 1
        BY ONLY <4>2, <4>3
      <4>5. QED
        BY <4>1, <4>2, <4>4
    <3>2. CASE TickEmpty
      <4>1. counters' = [counters EXCEPT !.empty = counters.empty + 1] /\ recorder' = "wait"
        BY <3>2 DEF TickEmpty
      <4>2. /\ counters' \in [ticks : Nat, empty : Nat, errors : Nat, dropped : Nat]
            /\ counters'.ticks = counters.ticks /\ counters'.empty = counters.empty + 1
            /\ counters'.errors = counters.errors /\ counters'.dropped = counters.dropped
        BY <4>1
      <4>3. QED
        BY <4>1, <4>2
    <3>3. QED
      BY <1>6, <3>1, <3>2
  <2>3. FileInv'
    BY <1>6, <2>2 DEF FileInv
  <2>4. TickCountInv'
    BY <1>4, <1>6, <2>1, <2>2, SMTT(30) DEF TickCountInv, Open
  <2>5. QED
    BY <1>6, <2>2, <2>3, <2>4
<1>7. ASSUME recorder \in {"list", "select", "stats", "access"}, recorder' \in {"select", "stats", "access", "write"},
             UNCHANGED <<counters, file, summary, targets>>,
             got' \subseteq Containers,
             recorder' \in {"stats", "access", "write"} => listed' \subseteq Containers /\ listed' # {},
             recorder' \in {"select", "stats"} => got' = {},
             recorder' \in {"access", "write"} => got' # {}
      PROVE  RecorderInv'
  <2>1. WrittenTicks' = WrittenTicks
    BY <1>3, <1>7
  <2>2. \A i \in 1..Len(file) : file[i].tick # counters.ticks
    BY <1>7 DEF FileInv
  <2>3. counters.ticks \notin WrittenTicks
    BY <2>2 DEF WrittenTicks
  <2>4. FileInv'
    BY <1>7, <2>2 DEF FileInv
  <2>5. TickCountInv'
    BY <1>7, <2>1, <2>3 DEF TickCountInv, Open
  <2>6. QED
    BY <1>7, <2>4, <2>5
<1>8. CASE ListContainers
  BY <1>6, <1>7, <1>8 DEF ListContainers, RecUnchanged, targetVars
<1>9. CASE SelectTargets
  BY <1>6, <1>7, <1>9 DEF SelectTargets, Selected, RecUnchanged, targetVars
<1>10. CASE ReadStats
  BY <1>6, <1>7, <1>10 DEF ReadStats, RecUnchanged, targetVars
<1>11. CASE WaitTick
  <2>1. /\ UNCHANGED <<got, file, counters, summary, targets>> /\ recorder = "wait"
        /\ recorder' \in {"tick", "ended"} /\ WrittenTicks' = WrittenTicks
    BY <1>3, <1>11 DEF WaitTick, RecUnchanged, targetVars
  <2>2. QED
    BY <2>1 DEF FileInv, TickCountInv, Open
<1>12. CASE SampleAccess
  BY <1>7, <1>12 DEF SampleAccess, RecUnchanged, targetVars
<1>13. CASE WriteLine
  <2>1. /\ recorder = "write" /\ UNCHANGED <<listed, counters, summary, targets>>
    BY <1>13 DEF WriteLine, RecUnchanged, targetVars
  <2>2. CASE got = {}
    <3>1. recorder' = "wait" /\ UNCHANGED <<got, file>>
      BY <1>13, <2>2 DEF WriteLine
    <3>2. WrittenTicks' = WrittenTicks
      BY <1>3, <2>1, <3>1
    <3>3. FileInv'
      BY <2>1, <2>2, <3>1 DEF FileInv
    <3>4. TickCountInv'
      BY <2>1, <2>2, <3>1, <3>2 DEF FileInv, TickCountInv, Open
    <3>5. QED
      BY <2>1, <2>2, <3>1, <3>3, <3>4
  <2>3. CASE got # {}
    <3>1. PICK c \in got : file' = Append(file, [tick |-> counters.ticks, id |-> c]) /\ got' = got \ {c}
      BY <1>13, <2>3 DEF WriteLine
    <3>2. recorder' = recorder
      BY <1>13, <2>3 DEF WriteLine
    <3>3. c \in Containers /\ counters.ticks \in Nat
      OBVIOUS
    <3>4. WrittenTicks' = WrittenTicks \cup {counters.ticks}
      BY <3>1, <3>3, AppendedTicks
    <3>5. /\ Len(file) \in Nat /\ Len(file') = Len(file) + 1
          /\ file'[Len(file) + 1] = [tick |-> counters.ticks, id |-> c]
          /\ \A i \in 1..Len(file) : file'[i] = file[i]
          /\ file' \in Seq([tick : Nat, id : Containers])
      BY <3>1, <3>3
    <3>6. \A i \in 1..Len(file') : i \in 1..Len(file) \/ i = Len(file) + 1
      BY <3>5
    <3>7. \A i \in 1..Len(file) : file[i] # [tick |-> counters.ticks, id |-> c]
      BY <3>1 DEF FileInv
    <3>8. FileInv'
      <4>1. \A i \in 1..Len(file') : /\ file'[i].tick <= counters'.ticks
                                     /\ file'[i].tick = counters'.ticks => file'[i].id \notin got'
        BY <2>1, <3>1, <3>3, <3>5, <3>6 DEF FileInv
      <4>2. \A i, j \in 1..Len(file') : i # j => file'[i] # file'[j]
        BY <3>5, <3>6, <3>7 DEF FileInv
      <4>3. QED
        BY <2>1, <3>2, <3>4, <4>1, <4>2 DEF FileInv
    <3>9. TickCountInv'
      <4>1. /\ IsFiniteSet(WrittenTicks')
            /\ Cardinality(WrittenTicks') = IF counters.ticks \in WrittenTicks
                 THEN Cardinality(WrittenTicks) ELSE Cardinality(WrittenTicks) + 1
        BY <3>4, FS_AddElement DEF TickCountInv
      <4>2. Open <=> counters.ticks \notin WrittenTicks
        BY <2>1 DEF Open
      <4>3. ~ Open'
        BY <2>1, <3>2, <3>4 DEF Open
      <4>4. Cardinality(WrittenTicks) \in Nat
        BY <1>4 DEF TickCountInv
      <4>5. QED
        BY <2>1, <4>1, <4>2, <4>3, <4>4 DEF TickCountInv
    <3>10. QED
      BY <2>1, <3>1, <3>2, <3>5, <3>8, <3>9
  <2>4. QED
    BY <2>2, <2>3
<1>14. CASE WriteSummary
  <2>1. /\ UNCHANGED <<recorder, listed, got, file, targets>> /\ ~ summary.written
        /\ WrittenTicks' = WrittenTicks
    BY <1>3, <1>14 DEF WriteSummary, targetVars
  <2>2. CASE recorder = "ended" /\ summary' = SummaryOf(TRUE, counters) /\ UNCHANGED counters
    <3>1. SummaryInv'
      BY <2>1, <2>2 DEF SummaryOf
    <3>2. FileInv' /\ TickCountInv'
      BY <2>1, <2>2 DEF FileInv, TickCountInv, Open
    <3>3. QED
      BY <2>1, <2>2, <3>1, <3>2
  <2>3. CASE counters' = RecordError(counters) /\ summary' = SummaryOf(FALSE, counters')
    <3>1. /\ counters' \in [ticks : Nat, empty : Nat, errors : Nat, dropped : Nat]
          /\ counters'.ticks = counters.ticks
      BY <2>3, RecordErrorCounts
    <3>2. SummaryInv'
      BY <2>3 DEF SummaryOf
    <3>3. FileInv' /\ TickCountInv'
      BY <2>1, <2>3, <3>1, <3>2 DEF FileInv, TickCountInv, Open, SummaryOf
    <3>4. QED
      BY <2>1, <3>1, <3>2, <3>3
  <2>4. QED
    BY <1>14, <2>2, <2>3 DEF WriteSummary
<1>15. CASE StopRecorder \/ (\E s \in Samplers : AskReading(s) \/ GetCollector(s))
              \/ (\E g \in 1..(MaxCollectors + 1) : CollectorReads(g)) \/ UNCHANGED monitorVars
  BY <1>1, <1>15 DEF StopRecorder, AskReading, GetCollector, CollectorReads, monitorVars, targetVars
<1>16. QED
  BY <1>2, <1>5, <1>8, <1>9, <1>10, <1>11, <1>12, <1>13, <1>14, <1>15 DEF MonitorNext, Recorder

\* A summary that claims a complete stop accounts for every tick and every
\* line, whenever the stop comes and whatever fails; the lines are about
\* registered containers, once per tick.
THEOREM SweepAccountedCorrect == MonitorSpec => []SweepAccounted
<1>1. RecorderInv => SweepAccounted
  <2> SUFFICES ASSUME RecorderInv PROVE SweepAccounted
    OBVIOUS
  <2>1. OnlyRegisteredSampled
    BY Lines DEF RecorderInv, TickTypes, FileInv, OnlyRegisteredSampled
  <2>2. SummaryAccounts
    BY FS_CardinalityType DEF RecorderInv, TickTypes, TickCountInv, SummaryInv, Open, SummaryAccounts
  <2>3. QED
    BY <2>1, <2>2 DEF SweepAccounted
<1>2. QED
  BY <1>1, RecorderInvInit, RecorderInvStep, PTL DEF MonitorSpec

-----------------------------------------------------------------------------
(* A terminal-bench task: its process, its container and its FIFO.         *)

\* A process that a cleanup has passed has exited, or outlived SIGKILL.
ProcessInv ==
  /\ worker \in {"start", "popen"} => tb.st = "none"
  /\ worker = "collect" \/ WorkerEnded => tb.st # "running" \/ unkilled
  /\ \A c \in Cleaners : clean[c] \in {"compose", "rm", "done"} => tb.st = "exited" \/ unkilled

\* The adapter runs in a container that was up and, once gone, stays away.
AdapterInv ==
  /\ agent # "off" => container \in {"up", "gone"}
  /\ outcome # "none" => agent = "ended"
  /\ FifoRemoved

BenchInv == TbTypeOK /\ ProcessInv /\ AdapterInv /\ CleanedOrWarned

LEMMA BenchInit == TbInit => BenchInv
<1> SUFFICES ASSUME TbInit PROVE BenchInv
  OBVIOUS
<1>1. TbTypeOK
  BY DEF TbInit, TbTypeOK
<1>2. ProcessInv
  BY DEF TbInit, ProcessInv, WorkerEnded
<1>3. AdapterInv
  BY DEF TbInit, AdapterInv, FifoRemoved
<1>4. CleanedOrWarned
  BY DEF TbInit, CleanedOrWarned, Cleaned
<1>5. QED
  BY <1>1, <1>2, <1>3, <1>4 DEF BenchInv

\* The worker and the signal's handler leave the container and the adapter alone.
LEMMA WorkerKeeps ==
  ASSUME BenchInv, Worker \/ HandleSignal
  PROVE  BenchInv'
<1> USE DEF tbVars, containerVars, agentVars, Cleaners
<1>1. UNCHANGED <<containerVars, agentVars, unkilled>>
  BY DEF Worker, HandleSignal, Prepare, StartTb, RegisterProcess, Communicate, Reap, CollectResult
<1>2. AdapterInv'
  BY <1>1 DEF BenchInv, AdapterInv, FifoRemoved
<1>3. ASSUME NEW c \in Cleaners, clean'[c] \in {"compose", "rm", "done"}
      PROVE  clean[c] = clean'[c]
  BY <1>3 DEF BenchInv, TbTypeOK, Worker, HandleSignal, Prepare, StartTb, RegisterProcess,
              Communicate, Reap, CollectResult
<1>4. CleanedOrWarned'
  BY <1>1, <1>3 DEF BenchInv, CleanedOrWarned, Cleaned
<1>5. TbTypeOK' /\ ProcessInv'
  <2>1. CASE Prepare
    BY <2>1 DEF Prepare, BenchInv, TbTypeOK, ProcessInv, WorkerEnded
  <2>2. CASE StartTb
    <3>1. tb.st = "none" /\ UNCHANGED <<clean, unkilled>>
      BY <2>2 DEF StartTb, BenchInv, ProcessInv
    <3>2. \/ worker' = "register" /\ tb' = [tb EXCEPT !.st = "running"]
          \/ worker' = "raised" /\ UNCHANGED tb
      BY <2>2 DEF StartTb
    <3>3. TbTypeOK'
      <4>1. tb' \in [st : {"none", "running", "exited"}, rc : {"none", "zero", "other"},
                    sig : {"none", "term", "kill"}]
        BY <3>2 DEF BenchInv, TbTypeOK
      <4>2. QED
        BY <2>2, <4>1 DEF StartTb, BenchInv, TbTypeOK
    <3>4. \A c \in Cleaners : clean[c] \in {"compose", "rm", "done"} => unkilled
      BY <3>1 DEF BenchInv, ProcessInv
    <3>5. ProcessInv'
      BY <3>1, <3>2, <3>4 DEF ProcessInv, WorkerEnded
    <3>6. QED
      BY <3>3, <3>5
  <2>3. CASE RegisterProcess
    BY <2>3 DEF RegisterProcess, BenchInv, TbTypeOK, ProcessInv, WorkerEnded
  <2>4. CASE Communicate
    <3>1. TbTypeOK'
      <4>1. PICK b \in BOOLEAN : b <=> tb.st = "exited"
        OBVIOUS
      <4>2. result' = result \/ result' = [result EXCEPT !.undecoded = b]
        BY <2>4, <4>1, Zenon DEF Communicate
      <4>3. result' \in [resolved : BOOLEAN, trace : BOOLEAN, success : BOOLEAN, undecoded : BOOLEAN]
        BY <4>2 DEF BenchInv, TbTypeOK
      <4>4. /\ registered' = registered \/ registered' = FALSE
            /\ worker' \in {"collect", "clean"}
            /\ clean' = clean \/ clean' = [clean EXCEPT !["worker"] = "poll"]
            /\ UNCHANGED <<signalled, tb, container, fifo>>
        BY <2>4 DEF Communicate
      <4>5. registered' \in BOOLEAN
        BY <4>4 DEF BenchInv, TbTypeOK
      <4>6. QED
        BY <4>3, <4>4, <4>5 DEF BenchInv, TbTypeOK
    <3>2. UNCHANGED <<tb, unkilled>> /\ worker' \in {"collect", "clean"}
          /\ (worker' = "collect" => tb.st = "exited")
      BY <2>4 DEF Communicate
    <3>3. ProcessInv'
      BY <1>3, <3>2 DEF BenchInv, ProcessInv, WorkerEnded
    <3>4. QED
      BY <3>1, <3>3
  <2>5. CASE Reap
    <3>1. /\ UNCHANGED <<clean, signalled, tb, unkilled, result, container, fifo>>
          /\ clean["worker"] = "done" /\ registered' = FALSE /\ worker' \in {"raised", "collect"}
      BY <2>5 DEF Reap
    <3>2. tb.st = "exited" \/ unkilled
      BY <3>1 DEF BenchInv, ProcessInv
    <3>3. TbTypeOK'
      <4>1. UNCHANGED <<clean, signalled, tb, result, container, fifo>>
            /\ worker' \in {"raised", "collect"}
        BY <3>1
      <4>2. registered' \in BOOLEAN
        BY <3>1
      <4>3. QED
        BY <4>1, <4>2 DEF BenchInv, TbTypeOK
    <3>4. QED
      BY <3>1, <3>2, <3>3 DEF BenchInv, ProcessInv, WorkerEnded
  <2>6. CASE CollectResult
    <3>1. TbTypeOK'
      <4>1. result' \in [resolved : BOOLEAN, trace : BOOLEAN, success : BOOLEAN, undecoded : BOOLEAN]
        <5>1. result' = result \/ result' = [result EXCEPT !.success = result.resolved]
          BY <2>6 DEF CollectResult
        <5>2. QED
          BY <5>1 DEF BenchInv, TbTypeOK
      <4>2. QED
        BY <2>6, <4>1 DEF CollectResult, BenchInv, TbTypeOK
    <3>2. UNCHANGED <<tb, unkilled, clean>> /\ worker = "collect" /\ worker' \in {"done", "raised"}
      BY <2>6 DEF CollectResult
    <3>3. QED
      BY <3>1, <3>2 DEF BenchInv, ProcessInv, WorkerEnded
  <2>7. CASE HandleSignal
    <3>1. TbTypeOK'
      BY <2>7 DEF HandleSignal, BenchInv, TbTypeOK
    <3>2. UNCHANGED <<worker, tb, unkilled>>
      BY <2>7 DEF HandleSignal
    <3>3. QED
      BY <1>3, <3>1, <3>2 DEF BenchInv, ProcessInv, WorkerEnded
  <2>8. CASE Worker
    BY <2>1, <2>2, <2>3, <2>4, <2>5, <2>6, <2>8 DEF Worker
  <2>9. QED
    BY <2>7, <2>8
<1>6. QED
  BY <1>2, <1>4, <1>5 DEF BenchInv

LEMMA CleanupKeeps ==
  ASSUME BenchInv, NEW c \in Cleaners, TerminateGroup(c) \/ CleanupContainer(c)
  PROVE  BenchInv'
<1> USE DEF tbVars, containerVars, agentVars, At, Go
<1>1. CASE TerminateGroup(c)
  <2>1. /\ \E label \in {"term", "kill", "compose"} : clean' = [clean EXCEPT ![c] = label]
        /\ clean'[c] = "compose" => tb.st = "exited" \/ unkilled'
        /\ tb' = tb \/ (\E sig \in {"term", "kill"} : tb' = [tb EXCEPT !.sig = sig])
        /\ unkilled' = unkilled \/ unkilled'
        /\ UNCHANGED <<worker, registered, signalled, result, containerVars, agentVars>>
    BY <1>1 DEF TerminateGroup, BenchInv, TbTypeOK
  <2>2. TbTypeOK' /\ tb'.st = tb.st
    BY <2>1 DEF BenchInv, TbTypeOK
  <2>3. ProcessInv'
    BY <2>1, <2>2 DEF BenchInv, TbTypeOK, ProcessInv, WorkerEnded
  <2>4. AdapterInv'
    BY <2>1 DEF BenchInv, AdapterInv, FifoRemoved
  <2>5. CleanedOrWarned'
    BY <2>1 DEF BenchInv, TbTypeOK, CleanedOrWarned, Cleaned
  <2>6. QED
    BY <2>2, <2>3, <2>4, <2>5 DEF BenchInv
<1>2. CASE CleanupContainer(c)
  <2>1. /\ clean[c] \in {"compose", "rm"}
        /\ \E label \in {"rm", "done"} : clean' = [clean EXCEPT ![c] = label]
        /\ container' = container \/ container' = "gone"
        /\ warned' = warned \/ warned'
        /\ clean'[c] = "done" => container' # "up" \/ warned'
        /\ UNCHANGED <<worker, registered, signalled, tbVars, result, lateUp, agentVars>>
    BY <1>2 DEF CleanupContainer, RemovesContainer, BenchInv, TbTypeOK
  <2>2. TbTypeOK'
    BY <2>1 DEF BenchInv, TbTypeOK
  <2>3. ProcessInv'
    BY <2>1 DEF BenchInv, TbTypeOK, ProcessInv, WorkerEnded
  <2>4. AdapterInv'
    BY <2>1 DEF BenchInv, AdapterInv, FifoRemoved
  <2>5. CleanedOrWarned'
    BY <2>1 DEF BenchInv, TbTypeOK, CleanedOrWarned, Cleaned
  <2>6. QED
    BY <2>2, <2>3, <2>4, <2>5 DEF BenchInv
<1>3. QED
  BY <1>1, <1>2

LEMMA OutsideKeeps ==
  ASSUME BenchInv, TbRuns \/ DaemonCreates \/ TbExits
  PROVE  BenchInv'
<1> USE DEF tbVars, containerVars, agentVars
<1>1. TbTypeOK'
  <2>1. CASE TbRuns
    <3>1. result' \in [resolved : BOOLEAN, trace : BOOLEAN, success : BOOLEAN, undecoded : BOOLEAN]
      BY <2>1 DEF BenchInv, TbTypeOK, TbRuns
    <3>2. /\ UNCHANGED <<worker, clean, registered, signalled, tb, fifo>>
          /\ container' \in {container, "creating", "gone"}
      BY <2>1 DEF TbRuns
    <3>3. QED
      BY <3>1, <3>2 DEF BenchInv, TbTypeOK
  <2>2. CASE DaemonCreates
    BY <2>2 DEF BenchInv, TbTypeOK, DaemonCreates
  <2>3. CASE TbExits
    <3>1. tb' \in [st : {"none", "running", "exited"}, rc : {"none", "zero", "other"},
                  sig : {"none", "term", "kill"}]
      BY <2>3 DEF BenchInv, TbTypeOK, TbExits
    <3>2. QED
      BY <2>3, <3>1 DEF BenchInv, TbTypeOK, TbExits
  <2>4. QED
    BY <2>1, <2>2, <2>3
<1>2. ProcessInv'
  <2>1. /\ UNCHANGED <<worker, clean, unkilled>>
        /\ tb' = tb \/ (tb.st = "running" /\ tb'.st = "exited")
    <3>1. CASE TbRuns \/ DaemonCreates
      BY <3>1 DEF TbRuns, DaemonCreates
    <3>2. CASE TbExits
      BY <3>2 DEF TbExits, BenchInv, TbTypeOK
    <3>3. QED
      BY <3>1, <3>2
  <2>2. QED
    BY <2>1 DEF BenchInv, ProcessInv, WorkerEnded
<1>3. AdapterInv'
  <2>1. CASE TbRuns
    BY <2>1 DEF TbRuns, BenchInv, AdapterInv, FifoRemoved
  <2>2. CASE DaemonCreates
    BY <2>2 DEF DaemonCreates, BenchInv, AdapterInv, FifoRemoved
  <2>3. CASE TbExits
    BY <2>3 DEF TbExits, BenchInv, AdapterInv, FifoRemoved
  <2>4. QED
    BY <2>1, <2>2, <2>3
<1>4. CleanedOrWarned'
  <2>1. CASE TbRuns
    BY <2>1 DEF TbRuns, BenchInv, CleanedOrWarned, Cleaned
  <2>2. CASE DaemonCreates
    BY <2>2 DEF DaemonCreates, BenchInv, CleanedOrWarned, Cleaned
  <2>3. CASE TbExits
    BY <2>3 DEF TbExits, BenchInv, CleanedOrWarned, Cleaned
  <2>4. QED
    BY <2>1, <2>2, <2>3
<1>5. QED
  BY <1>1, <1>2, <1>3, <1>4 DEF BenchInv

LEMMA AdapterKeeps ==
  ASSUME BenchInv, Agent
  PROVE  BenchInv'
<1> USE DEF tbVars, containerVars
<1>1. UNCHANGED <<worker, clean, registered, signalled, tb, unkilled, result, containerVars>>
  BY DEF Agent
<1>2. agent # "off" /\ agent' # "off" /\ agent # "ended"
  BY DEF Agent, AgentTimesOut, AgentRaises, CleanupTimedOut, InstallAgent, RunAgent, RemovesFifo, AgentGo, AgentEnds
<1>3. outcome' = outcome \/ agent' = "ended"
  BY DEF Agent, AgentTimesOut, AgentRaises, CleanupTimedOut, InstallAgent, RunAgent, RemovesFifo, AgentGo, AgentEnds
<1>4. outcome' # outcome /\ outcome' \in {"ok", "timeout"} => ~ fifo'.exists \/ fifo'.kept
  <2>1. fifo \in [exists : BOOLEAN, stuck : BOOLEAN, kept : BOOLEAN]
    BY DEF BenchInv, TbTypeOK
  <2>2. RemovesFifo => ~ fifo'.exists \/ fifo'.kept
    BY <2>1 DEF RemovesFifo
  <2>3. outcome' # outcome /\ outcome' \in {"ok", "timeout"} => RemovesFifo
    BY DEF Agent, AgentTimesOut, AgentRaises, CleanupTimedOut, InstallAgent, RunAgent, AgentGo, AgentEnds
  <2>4. QED
    BY <2>2, <2>3
<1>5. outcome = "none"
  BY <1>2 DEF BenchInv, AdapterInv
<1>6. AdapterInv'
  BY <1>1, <1>2, <1>3, <1>4, <1>5 DEF BenchInv, AdapterInv, FifoRemoved
<1>7. fifo' \in [exists : BOOLEAN, stuck : BOOLEAN, kept : BOOLEAN]
  <2> DEFINE F == [exists : BOOLEAN, stuck : BOOLEAN, kept : BOOLEAN]
  <2>1. \/ \E b \in BOOLEAN : \/ fifo' = [fifo EXCEPT !.exists = b]
                            \/ fifo' = [fifo EXCEPT !.stuck = b]
                            \/ fifo' = [fifo EXCEPT !.kept = b]
        \/ fifo' = [fifo EXCEPT !.exists = fifo.exists \/ agent = "fifo"]
        \/ fifo' = fifo
    BY DEF Agent, AgentTimesOut, AgentRaises, CleanupTimedOut, InstallAgent, RunAgent, RemovesFifo, AgentGo, AgentEnds
  <2>2. fifo \in F
    BY DEF BenchInv, TbTypeOK
  <2>3. (fifo.exists \/ agent = "fifo") \in BOOLEAN
    OBVIOUS
  <2>4. \A b \in BOOLEAN : /\ [fifo EXCEPT !.exists = b] \in F
                          /\ [fifo EXCEPT !.stuck = b] \in F
                          /\ [fifo EXCEPT !.kept = b] \in F
    BY <2>2
  <2>5. QED
    BY <2>1, <2>2, <2>3, <2>4, Zenon
<1>8. TbTypeOK'
  BY <1>1, <1>7 DEF BenchInv, TbTypeOK
<1>9. ProcessInv' /\ CleanedOrWarned'
  BY <1>1 DEF BenchInv, ProcessInv, WorkerEnded, CleanedOrWarned, Cleaned
<1>10. QED
  BY <1>6, <1>8, <1>9 DEF BenchInv

LEMMA BenchStep == BenchInv /\ [TbNext]_taskVars => BenchInv'
<1> SUFFICES ASSUME BenchInv, [TbNext]_taskVars PROVE BenchInv'
  OBVIOUS
<1>1. CASE Worker \/ HandleSignal
  BY <1>1, WorkerKeeps
<1>2. CASE Cleanup
  BY <1>2, CleanupKeeps DEF Cleanup
<1>3. CASE TbRuns \/ DaemonCreates \/ TbExits
  BY <1>3, OutsideKeeps
<1>4. CASE Agent
  BY <1>4, AdapterKeeps
<1>5. CASE UNCHANGED taskVars
  BY <1>5 DEF taskVars, tbVars, containerVars, agentVars, BenchInv, TbTypeOK, ProcessInv,
              AdapterInv, CleanedOrWarned, Cleaned, FifoRemoved, WorkerEnded
<1>6. QED
  BY <1>1, <1>2, <1>3, <1>4, <1>5 DEF TbNext

LEMMA BenchInvariant == TbSpec => []BenchInv
  BY BenchInit, BenchStep, PTL DEF TbSpec

(* A terminal-bench attempt leaves neither its process nor the key's FIFO  *)
(* behind, whoever cleans up and however tb ends, unless SIGKILL did not    *)
(* end the process or the removal of the FIFO itself failed                *)
(* (TerminalBenchRunner._cleanup_tb_process,                               *)
(* TerminalBenchOpenClawAgent.perform_task).                               *)
THEOREM NothingLeftCorrect == TbSpec => []NothingLeft
<1>1. BenchInv => NothingLeft
  BY DEF BenchInv, ProcessInv, AdapterInv, NothingLeft, NoProcessLeft
<1>2. QED
  BY <1>1, BenchInvariant, PTL

(* Behind a cleanup the task container is not up, unless one of its        *)
(* commands failed, tb outlived SIGKILL, or the daemon was still creating  *)
(* the container (TerminalBenchRunner._cleanup_task_container).            *)
THEOREM CleanedOrWarnedCorrect == TbSpec => []CleanedOrWarned
<1>1. BenchInv => CleanedOrWarned
  BY DEF BenchInv
<1>2. QED
  BY <1>1, BenchInvariant, PTL
=============================================================================
