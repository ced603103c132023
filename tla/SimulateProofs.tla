---------------------------- MODULE SimulateProofs ----------------------------
(***************************************************************************)
(* Proofs about Simulate for every number of sessions and every            *)
(* concurrency, manifest, choice of images and combination of failures.    *)
(***************************************************************************)
EXTENDS Simulate, FiniteSetTheorems, NaturalsInduction, WellFoundedInduction, TLAPS

Active == {"preparing", "replaying", "finalizing"}

\* What a worker works on is its own, and as far as the worker is.
WorkInv ==
  /\ \A w \in Workers : pc[w] \in Active => cur[w] \in Sessions
  /\ \A w \in Workers : pc[w] = "preparing" => sess[cur[w]] \in {"preparing", "up", "registered"}
  /\ \A w \in Workers : pc[w] = "replaying" => sess[cur[w]] = "replaying"
  /\ \A w \in Workers : pc[w] = "finalizing" =>
       sess[cur[w]] \in {"replayed", "broken"} /\ box[cur[w]] \in {"none", "running"}
  /\ \A v, w \in Workers : v # w /\ pc[v] \in Active /\ pc[w] \in Active => cur[v] # cur[w]

\* The queue holds the sessions that nobody has touched, each once.
QueueInv ==
  run = "queue" =>
    /\ \A i \in 1 .. Len(queue) : sess[queue[i]] = "queued"
    /\ \A i, j \in 1 .. Len(queue) : i # j => queue[i] # queue[j]

\* How far a session is says what its container and the recorder are like.
SessInv ==
  \A s \in Sessions :
    /\ sess[s] \in {"queued", "preparing"} => box[s] = "none" /\ s \notin registered
    /\ sess[s] = "up" => box[s] = "running" /\ s \notin registered
    /\ sess[s] = "registered" => box[s] = "running" /\ s \in registered
    /\ sess[s] = "replaying" => box[s] \in {"none", "running"} /\ (s \in HostSessions \/ s \in registered)
    /\ s \in registered => box[s] \in {"running", "stuck"}
    /\ s \in prepared => sess[s] \in {"failed", "replayed", "broken"}

\* The waves leave the queue's workers and containers alone.
WaveInv ==
  scheduler # "bounded_queue" =>
    /\ \A w \in Workers : pc[w] = "idle"
    /\ \A s \in Sessions : box[s] = "none"

\* A session that is over is not running, and stuck only after a failed preparation.
Settled(s) == box[s] # "running" /\ (box[s] = "stuck" => stats[s] = "prep_error")
Raised == firstError \/ \E w \in Workers : pc[w] = "crashed"

SettleInv ==
  /\ run = "queue" /\ scheduler = "bounded_queue" =>
       \A s \in Sessions :
         \/ \E i \in 1 .. Len(queue) : queue[i] = s
         \/ \E w \in Workers : pc[w] \in Active /\ cur[w] = s
         \/ Raised
         \/ Settled(s)
  /\ run \in {"closing", "completed"} => \A s \in Sessions : Settled(s)
  /\ \A w \in Workers : pc[w] = "exited" => firstError \/ queue = <<>>

ReplayInv == TypeOK /\ WorkInv /\ QueueInv /\ SessInv /\ WaveInv /\ SettleInv

-----------------------------------------------------------------------------
(* A worker of the queue.                                                  *)

\* There is a worker, and no session is the mark for none.
LEMMA WorkerFacts ==
  /\ Workers \subseteq Nat /\ Workers # {}
  /\ NoSession \notin Sessions
  /\ HostSessions \subseteq Sessions
<1>1. WorkerCount \in Nat \ {0}
  BY ReplayQueueAssumption DEF WorkerCount
<1>2. 0 \in Workers /\ Workers \subseteq Nat
  BY <1>1 DEF Workers
<1>3. NoSession \notin Sessions /\ HostSessions \subseteq Sessions
  BY ReplayQueueAssumption DEF Sessions, NoSession
<1>4. QED
  BY <1>2, <1>3

\* The head of the queue is taken.
LEMMA TailIs ==
  ASSUME queue \in Seq(Sessions), queue # <<>>
  PROVE  /\ Tail(queue) \in Seq(Sessions)
         /\ Len(Tail(queue)) = Len(queue) - 1 /\ Len(queue) \in Nat /\ Len(queue) >= 1
         /\ \A i \in 1 .. Len(queue) - 1 : Tail(queue)[i] = queue[i + 1]
         /\ Head(queue) = queue[1] /\ Head(queue) \in Sessions
OBVIOUS

\* A worker takes the first session of the queue.
LEMMA TakeKeeps ==
  ASSUME ReplayInv, NEW w \in Workers, Take(w), run = "queue", UNCHANGED scheduler,
         scheduler = "bounded_queue"
  PROVE  ReplayInv'
<1> USE DEF ReplayInv
<1> DEFINE s == Head(queue)
<1>1. /\ queue \in Seq(Sessions) /\ queue # <<>> /\ ~ firstError
      /\ pc[w] = "idle" /\ pc' = [pc EXCEPT ![w] = "preparing"]
      /\ queue' = Tail(queue)
      /\ cur' = [cur EXCEPT ![w] = s]
      /\ sess' = [sess EXCEPT ![s] = "preparing"]
      /\ UNCHANGED <<run, firstError, box, registered, writes, prepared, stats>>
  BY DEF Take, Go, TypeOK
<1>2. /\ Tail(queue) \in Seq(Sessions)
      /\ Len(Tail(queue)) = Len(queue) - 1 /\ Len(queue) \in Nat /\ Len(queue) >= 1
      /\ \A i \in 1 .. Len(queue) - 1 : Tail(queue)[i] = queue[i + 1]
      /\ s = queue[1] /\ s \in Sessions
  BY <1>1, TailIs
<1>3. sess[s] = "queued"
  BY <1>1, <1>2 DEF QueueInv
<1> HIDE DEF s
<1>4. TypeOK'
  BY <1>1, <1>2 DEF TypeOK
<1>5. WorkInv'
  BY <1>1, <1>2, <1>3 DEF WorkInv, TypeOK, Active
<1>6. QueueInv'
  <2>1. ASSUME NEW i \in 1 .. Len(queue')
        PROVE  /\ i + 1 \in 1 .. Len(queue) /\ i + 1 # 1 /\ queue'[i] = queue[i + 1]
               /\ queue'[i] # s /\ sess[queue'[i]] = "queued" /\ queue'[i] \in Sessions
    <3>1. i + 1 \in 1 .. Len(queue) /\ i + 1 # 1 /\ 1 \in 1 .. Len(queue) /\ queue'[i] = queue[i + 1]
      BY <1>1, <1>2
    <3>2. QED
      BY <1>1, <1>2, <3>1 DEF QueueInv
  <2>2. \A i \in 1 .. Len(queue') : sess'[queue'[i]] = "queued"
    BY <1>1, <2>1 DEF TypeOK
  <2>3. ASSUME NEW i \in 1 .. Len(queue'), NEW j \in 1 .. Len(queue'), i # j
        PROVE  queue'[i] # queue'[j]
    <3>1. i + 1 # j + 1
      BY <1>1, <1>2, <2>3
    <3>2. queue[i + 1] # queue[j + 1]
      BY <2>1, <3>1 DEF QueueInv
    <3>3. QED
      BY <2>1, <3>2
  <2>4. QED
    BY <2>2, <2>3 DEF QueueInv
<1>7. SessInv'
  BY <1>1, <1>2, <1>3 DEF SessInv, TypeOK
<1>8. SettleInv'
  <2>1. ASSUME NEW t \in Sessions
        PROVE  \/ \E i \in 1 .. Len(queue') : queue'[i] = t
               \/ \E v \in Workers : pc'[v] \in Active /\ cur'[v] = t
               \/ Raised'
               \/ Settled(t)'
    <3>1. CASE \E i \in 1 .. Len(queue) : queue[i] = t
      <4>1. PICK i \in 1 .. Len(queue) : queue[i] = t
        BY <3>1
      <4>2. CASE i = 1
        BY <1>1, <1>2, <4>1, <4>2 DEF TypeOK, Active
      <4>3. CASE i # 1
        <5>1. i - 1 \in 1 .. Len(queue') /\ queue'[i - 1] = t
          BY <1>1, <1>2, <4>1, <4>3
        <5>2. QED
          BY <5>1
      <4>4. QED
        BY <4>2, <4>3
    <3>2. CASE \E v \in Workers : pc[v] \in Active /\ cur[v] = t
      BY <1>1, <3>2 DEF TypeOK, Active
    <3>3. CASE Raised
      BY <1>1, <3>3 DEF Raised, TypeOK
    <3>4. CASE Settled(t)
      BY <1>1, <3>4 DEF Settled
    <3>5. QED
      BY <3>1, <3>2, <3>3, <3>4 DEF SettleInv
  <2>2. \A v \in Workers : pc'[v] = "exited" => pc[v] = "exited"
    BY <1>1 DEF TypeOK
  <2>3. QED
    BY <1>1, <2>1, <2>2 DEF SettleInv
<1>9. WaveInv'
  BY DEF WaveInv
<1>10. QED
  BY <1>4, <1>5, <1>6, <1>7, <1>8, <1>9

\* Every other step of a worker leaves the queue alone and moves its own session.
Own(w, s) ==
  /\ pc' = [pc EXCEPT ![w] = pc'[w]] /\ cur' = [cur EXCEPT ![w] = cur'[w]]
  /\ sess' = [sess EXCEPT ![s] = sess'[s]] /\ box' = [box EXCEPT ![s] = box'[s]]
  /\ \A t \in Sessions \ {s} : t \in registered' <=> t \in registered
  /\ \A t \in Sessions \ {s} : t \in prepared' <=> t \in prepared
  /\ \A t \in Sessions \ {s} : stats'[t] = stats[t]
  /\ UNCHANGED <<run, queue, scheduler>>
  /\ firstError => firstError'

\* What the step has to see to for its own session.
Fits(w, s) ==
  /\ pc[w] \in Active
  /\ pc'[w] \in Active => cur'[w] = s
  /\ pc'[w] = "preparing" => sess'[s] \in {"preparing", "up", "registered"}
  /\ pc'[w] = "replaying" => sess'[s] = "replaying"
  /\ pc'[w] = "finalizing" => sess'[s] \in {"replayed", "broken"} /\ box'[s] \in {"none", "running"}
  /\ pc'[w] # "exited"
  /\ sess[s] # "queued" /\ sess'[s] # "queued"
  /\ sess'[s] = "preparing" => box'[s] = "none" /\ s \notin registered'
  /\ sess'[s] = "up" => box'[s] = "running" /\ s \notin registered'
  /\ sess'[s] = "registered" => box'[s] = "running" /\ s \in registered'
  /\ sess'[s] = "replaying" => box'[s] \in {"none", "running"} /\ (s \in HostSessions \/ s \in registered')
  /\ s \in registered' => box'[s] \in {"running", "stuck"}
  /\ s \in prepared' => sess'[s] \in {"failed", "replayed", "broken"}
  /\ \/ pc'[w] \in Active \/ firstError' \/ pc'[w] = "crashed"
     \/ box'[s] # "running" /\ (box'[s] = "stuck" => stats'[s] = "prep_error")

\* A step of a worker that fits its session keeps the invariant for the others.
LEMMA OwnKeeps ==
  ASSUME ReplayInv, TypeOK', NEW w \in Workers, NEW s \in Sessions, cur[w] = s,
         Own(w, s), Fits(w, s), run = "queue", scheduler = "bounded_queue"
  PROVE  ReplayInv'
<1>1. /\ pc \in [Workers -> {"idle", "preparing", "replaying", "finalizing", "exited", "crashed"}]
      /\ cur \in [Workers -> Sessions \cup {NoSession}]
      /\ DOMAIN sess = Sessions /\ DOMAIN box = Sessions
      /\ queue \in Seq(Sessions)
  BY DEF ReplayInv, TypeOK
<1>2. /\ \A v \in Workers \ {w} : pc'[v] = pc[v] /\ cur'[v] = cur[v]
      /\ \A t \in Sessions \ {s} : sess'[t] = sess[t] /\ box'[t] = box[t]
      /\ \A t \in Sessions \ {s} : /\ t \in registered' <=> t \in registered
                                   /\ t \in prepared' <=> t \in prepared
                                   /\ stats'[t] = stats[t]
      /\ UNCHANGED <<run, queue, scheduler>> /\ (firstError => firstError')
  BY <1>1 DEF Own
<1>3. \A v \in Workers \ {w} : pc[v] \in Active => cur[v] \in Sessions \ {s}
  BY DEF ReplayInv, WorkInv, Fits
<1>4. WorkInv'
  <2>1. WorkInv
    BY DEF ReplayInv
  <2>2. QED
    BY <1>2, <1>3, <2>1 DEF WorkInv, Fits, Active
<1>5. QueueInv'
  <2>1. \A i \in 1 .. Len(queue) : queue[i] \in Sessions /\ sess[queue[i]] = "queued"
    BY <1>1 DEF ReplayInv, QueueInv
  <2>2. \A i \in 1 .. Len(queue) : queue[i] \in Sessions \ {s}
    BY <2>1 DEF Fits
  <2>3. QED
    BY <1>2, <2>1, <2>2 DEF ReplayInv, QueueInv
<1>6. SessInv'
  <2>1. ASSUME NEW t \in Sessions
        PROVE  /\ sess'[t] \in {"queued", "preparing"} => box'[t] = "none" /\ t \notin registered'
               /\ sess'[t] = "up" => box'[t] = "running" /\ t \notin registered'
               /\ sess'[t] = "registered" => box'[t] = "running" /\ t \in registered'
               /\ sess'[t] = "replaying" => box'[t] \in {"none", "running"} /\ (t \in HostSessions \/ t \in registered')
               /\ t \in registered' => box'[t] \in {"running", "stuck"}
               /\ t \in prepared' => sess'[t] \in {"failed", "replayed", "broken"}
    <3>1. CASE t = s
      BY <3>1 DEF Fits
    <3>2. CASE t # s
      BY <1>2, <3>2 DEF ReplayInv, SessInv
    <3>3. QED
      BY <3>1, <3>2
  <2>2. QED
    BY <2>1 DEF SessInv
<1>7. WaveInv'
  BY <1>2 DEF WaveInv
<1>8. SettleInv'
  <2>1. ASSUME NEW t \in Sessions
        PROVE  \/ \E i \in 1 .. Len(queue) : queue[i] = t
               \/ \E v \in Workers : pc'[v] \in Active /\ cur'[v] = t
               \/ Raised'
               \/ Settled(t)'
    <3>1. CASE t = s
      BY <3>1 DEF Fits, Raised, Settled
    <3>2. CASE t # s
      <4>1. Settled(t) => Settled(t)'
        BY <1>2, <3>2 DEF Settled
      <4>2. Raised => Raised'
        BY <1>2 DEF Raised, Fits, Active
      <4>3. (\E v \in Workers : pc[v] \in Active /\ cur[v] = t)
              => \E v \in Workers : pc'[v] \in Active /\ cur'[v] = t
        BY <1>2, <3>2
      <4>4. QED
        BY <4>1, <4>2, <4>3 DEF ReplayInv, SettleInv
    <3>3. QED
      BY <3>1, <3>2
  <2>2. \A v \in Workers : pc'[v] = "exited" => firstError' \/ queue' = <<>>
    BY <1>2 DEF ReplayInv, SettleInv, Fits
  <2>3. QED
    BY <1>2, <2>1, <2>2 DEF SettleInv
<1>9. QED
  BY <1>4, <1>5, <1>6, <1>7, <1>8 DEF ReplayInv

\* Each step of a worker does.
LEMMA WorkerStepKeeps ==
  ASSUME ReplayInv, NEW w \in Workers, WorkerStep(w), run = "queue",
         scheduler = "bounded_queue", UNCHANGED scheduler
  PROVE  ReplayInv'
<1> DEFINE s == cur[w]
<1>1. /\ pc \in [Workers -> {"idle", "preparing", "replaying", "finalizing", "exited", "crashed"}]
      /\ cur \in [Workers -> Sessions \cup {NoSession}]
      /\ sess \in [Sessions -> {"queued", "preparing", "up", "registered", "replaying", "failed",
                                "replayed", "broken"}]
      /\ box \in [Sessions -> {"none", "running", "stopped", "stuck"}]
      /\ stats \in [Sessions -> {"none", "prep_error", "replayed"}]
      /\ writes \in [Sessions -> 0 .. 1]
      /\ registered \subseteq Sessions /\ prepared \subseteq Sessions /\ firstError \in BOOLEAN
  BY DEF ReplayInv, TypeOK
<1>2. TypeOK
  BY DEF ReplayInv
<1>3. pc[w] \in Active =>
        /\ s \in Sessions
        /\ pc[w] = "preparing" => sess[s] \in {"preparing", "up", "registered"}
        /\ pc[w] = "replaying" => sess[s] = "replaying"
        /\ pc[w] = "finalizing" => sess[s] \in {"replayed", "broken"} /\ box[s] \in {"none", "running"}
  BY DEF ReplayInv, WorkInv
<1>4. s \in Sessions =>
        /\ sess[s] \in {"queued", "preparing"} => box[s] = "none" /\ s \notin registered
        /\ sess[s] = "up" => box[s] = "running" /\ s \notin registered
        /\ sess[s] = "registered" => box[s] = "running" /\ s \in registered
        /\ sess[s] = "replaying" => box[s] \in {"none", "running"} /\ (s \in HostSessions \/ s \in registered)
        /\ s \in registered => box[s] \in {"running", "stuck"}
        /\ s \in prepared => sess[s] \in {"failed", "replayed", "broken"}
  BY DEF ReplayInv, SessInv
<1>5. CASE Take(w)
  BY <1>5, TakeKeeps
<1>6. CASE Leave(w)
  <2>1. /\ pc[w] = "idle" /\ pc' = [pc EXCEPT ![w] = "exited"] /\ (firstError \/ queue = <<>>)
        /\ UNCHANGED <<run, queue, cur, firstError, sess, box, registered, writes, prepared, stats, scheduler>>
    BY <1>6 DEF Leave, Go
  <2>2. /\ pc'[w] = "exited" /\ \A v \in Workers \ {w} : pc'[v] = pc[v]
        /\ \A v \in Workers : pc'[v] \in Active <=> pc[v] \in Active
        /\ \A v \in Workers : pc'[v] \in Active => pc'[v] = pc[v]
    BY <1>1, <2>1 DEF Active
  <2>3. TypeOK'
    BY <1>2, <2>1 DEF TypeOK
  <2>4. WorkInv'
    BY <2>1, <2>2 DEF ReplayInv, WorkInv, Active
  <2>5. QueueInv' /\ SessInv' /\ WaveInv'
    BY <2>1 DEF ReplayInv, QueueInv, SessInv, WaveInv
  <2>6. Raised => Raised'
    BY <1>1, <2>1, <2>2 DEF Raised
  <2>7. \A t \in Sessions : Settled(t) => Settled(t)'
    BY <2>1 DEF Settled
  <2>8. SettleInv'
    BY <2>1, <2>2, <2>6, <2>7 DEF ReplayInv, SettleInv
  <2>9. QED
    BY <2>3, <2>4, <2>5, <2>8 DEF ReplayInv
<1> HIDE DEF s
<1>7. ASSUME NEW t \in Sessions, t = s, TypeOK', Own(w, t), Fits(w, t)
      PROVE  ReplayInv'
  BY <1>7, OwnKeeps DEF s
<1>8. CASE StartContainer(w) \/ Register(w) \/ BeginReplay(w)
  <2>1. /\ pc[w] = "preparing" /\ s \in Sessions /\ s # NoSession
        /\ UNCHANGED <<run, queue, cur, firstError, writes, prepared, stats>>
    BY <1>3, <1>8, WorkerFacts DEF StartContainer, Register, BeginReplay, Go, Active
  <2>2. \/ /\ sess[s] = "preparing" /\ pc' = pc /\ registered' = registered
           /\ box' = [box EXCEPT ![s] = "running"] /\ sess' = [sess EXCEPT ![s] = "up"]
        \/ /\ sess[s] = "up" /\ pc' = pc /\ box' = box
           /\ registered' = registered \cup {s} /\ sess' = [sess EXCEPT ![s] = "registered"]
        \/ /\ sess[s] = IF s \in HostSessions THEN "preparing" ELSE "registered"
           /\ pc' = [pc EXCEPT ![w] = "replaying"] /\ box' = box /\ registered' = registered
           /\ sess' = [sess EXCEPT ![s] = "replaying"]
    BY <1>8 DEF StartContainer, Register, BeginReplay, Go, s
  <2>3. TypeOK'
    BY <1>1, <1>2, <2>1, <2>2 DEF TypeOK
  <2>4. Own(w, s)
    BY <1>1, <2>1, <2>2 DEF Own
  <2>5. Fits(w, s)
    BY <1>1, <1>3, <1>4, <2>1, <2>2 DEF Fits, Active, s
  <2>6. QED
    BY <1>7, <2>1, <2>3, <2>4, <2>5
<1>9. CASE EndReplay(w)
  <2>1. /\ pc[w] = "replaying" /\ s \in Sessions /\ pc' = [pc EXCEPT ![w] = "finalizing"]
        /\ UNCHANGED <<run, queue, cur, box, registered, writes, prepared, stats>>
    BY <1>3, <1>9 DEF EndReplay, Go, Active
  <2>2. PICK ok \in BOOLEAN : /\ sess' = [sess EXCEPT ![s] = IF ok THEN "replayed" ELSE "broken"]
                             /\ firstError' = (firstError \/ ~ ok)
    BY <1>9 DEF EndReplay, Outcomes, s
  <2>3. TypeOK'
    BY <1>1, <1>2, <2>1, <2>2 DEF TypeOK
  <2>4. Own(w, s)
    BY <1>1, <2>1, <2>2 DEF Own
  <2>5. Fits(w, s)
    BY <1>1, <1>3, <1>4, <2>1, <2>2 DEF Fits, Active, s
  <2>6. QED
    BY <1>7, <2>1, <2>3, <2>4, <2>5
<1>10. CASE PrepareFails(w)
  <2>1. /\ pc[w] = "preparing" /\ s \in Sessions /\ pc' = [pc EXCEPT ![w] = "idle"]
        /\ FinalizeFailedPreparation(s) \/ StartLeavesContainer(s)
        /\ sess' = [sess EXCEPT ![s] = "failed"]
        /\ cur' = [cur EXCEPT ![w] = NoSession]
        /\ UNCHANGED <<run, queue>>
    BY <1>3, <1>10 DEF PrepareFails, Go, Active, s
  <2>2. \/ /\ prepared' = prepared \cup {s} /\ stats' = [stats EXCEPT ![s] = "prep_error"]
           /\ firstError' = firstError
        \/ firstError' = TRUE /\ UNCHANGED <<prepared, stats>>
    BY <1>10 DEF PrepareFails, Report, s
  <2>3. /\ \E b \in {"none", "stopped", "stuck"} : box' = [box EXCEPT ![s] = b]
        /\ \E n \in 0 .. 1 : writes' = [writes EXCEPT ![s] = n]
        /\ registered' = registered \/ registered' = registered \ {s}
        /\ s \in registered' => box'[s] = "stuck"
    <3>1. CASE FinalizeFailedPreparation(s)
      <4>1. PICK stopped \in BOOLEAN, wrote \in BOOLEAN :
              IF FinalizeRaises(s, stopped, wrote)
              THEN /\ StopContainer(s, stopped)
                   /\ registered' = IF stopped THEN registered \ {s} ELSE registered
                   /\ writes' = [writes EXCEPT ![s] = 0]
              ELSE Finalize(s, stopped, wrote)
        BY <3>1 DEF FinalizeFailedPreparation, Outcomes
      <4>2. /\ box' = [box EXCEPT ![s] = IF box[s] # "running" THEN box[s]
                                        ELSE IF stopped THEN "stopped" ELSE "stuck"]
            /\ \/ writes' = [writes EXCEPT ![s] = 0]
               \/ writes' = [writes EXCEPT ![s] = IF wrote /\ writes[s] = 0 THEN 1 ELSE writes[s]]
            /\ \/ registered' = (IF stopped THEN registered \ {s} ELSE registered)
               \/ registered' = (IF box[s] = "running" /\ stopped THEN registered \ {s} ELSE registered)
        BY <4>1 DEF StopContainer, Finalize, WriteResources
      <4>3. s \in registered => box[s] \in {"running", "stuck"}
        BY <1>4, <2>1
      <4>4. \E b \in {"none", "stopped", "stuck"} : box' = [box EXCEPT ![s] = b]
        BY <1>1, <2>1, <4>2
      <4>5. \E n \in 0 .. 1 : writes' = [writes EXCEPT ![s] = n]
        BY <1>1, <2>1, <4>2
      <4>6. QED
        BY <1>1, <2>1, <4>2, <4>3, <4>4, <4>5
    <3>2. CASE StartLeavesContainer(s)
      <4>1. /\ box' = [box EXCEPT ![s] = "stuck"] /\ registered' = registered
            /\ \E wrote \in BOOLEAN : writes' = [writes EXCEPT ![s] = IF wrote THEN 1 ELSE writes[s]]
        BY <3>2 DEF StartLeavesContainer, Outcomes
      <4>2. \A wrote \in BOOLEAN : (IF wrote THEN 1 ELSE writes[s]) \in 0 .. 1
        BY <1>1, <2>1
      <4>3. \E n \in 0 .. 1 : writes' = [writes EXCEPT ![s] = n]
        BY <4>1, <4>2
      <4>4. box'[s] = "stuck"
        BY <1>1, <2>1, <4>1
      <4>5. QED
        BY <4>1, <4>3, <4>4
    <3>3. QED
      BY <2>1, <3>1, <3>2
  <2>4. TypeOK'
    <3>1. /\ box' \in [Sessions -> {"none", "running", "stopped", "stuck"}]
          /\ writes' \in [Sessions -> 0 .. 1]
          /\ registered' \subseteq Sessions
      BY <1>1, <2>1, <2>3
    <3>2. /\ prepared' \subseteq Sessions /\ firstError' \in BOOLEAN
          /\ stats' \in [Sessions -> {"none", "prep_error", "replayed"}]
      BY <1>1, <2>1, <2>2
    <3>3. /\ pc' \in [Workers -> {"idle", "preparing", "replaying", "finalizing", "exited", "crashed"}]
          /\ cur' \in [Workers -> Sessions \cup {NoSession}]
          /\ sess' \in [Sessions -> {"queued", "preparing", "up", "registered", "replaying", "failed",
                                     "replayed", "broken"}]
      BY <1>1, <2>1
    <3>4. QED
      BY <1>2, <2>1, <3>1, <3>2, <3>3 DEF TypeOK
  <2>5. Own(w, s)
    BY <1>1, <2>1, <2>2, <2>3 DEF Own
  <2>6. Fits(w, s)
    <3>1. pc'[w] = "idle" /\ sess'[s] = "failed" /\ box'[s] \in {"none", "stopped", "stuck"}
      BY <1>1, <2>1, <2>3
    <3>2. firstError' \/ stats'[s] = "prep_error"
      BY <1>1, <2>1, <2>2
    <3>3. sess[s] # "queued"
      BY <1>3, <2>1 DEF Active
    <3>4. QED
      BY <2>1, <2>3, <3>1, <3>2, <3>3 DEF Fits, Active
  <2>7. QED
    BY <1>7, <2>1, <2>4, <2>5, <2>6
<1>11. CASE FinalizeSession(w)
  <2>1. /\ pc[w] = "finalizing" /\ s \in Sessions
        /\ cur' = [cur EXCEPT ![w] = NoSession]
        /\ UNCHANGED <<run, queue, firstError, sess>>
    BY <1>3, <1>11 DEF FinalizeSession, Active
  <2>2. PICK stopped \in BOOLEAN, wrote \in BOOLEAN :
          /\ Finalize(s, stopped, wrote)
          /\ IF FinalizeRaises(s, stopped, wrote)
             THEN /\ pc' = [pc EXCEPT ![w] = "crashed"]
                  /\ UNCHANGED <<prepared, stats>>
             ELSE /\ pc' = [pc EXCEPT ![w] = "idle"]
                  /\ prepared' = prepared \cup {s}
                  /\ IF sess[s] = "replayed" THEN Report(s, "replayed") ELSE UNCHANGED stats
    BY <1>11 DEF FinalizeSession, Outcomes, s
  <2>3. /\ box' = [box EXCEPT ![s] = IF box[s] # "running" THEN box[s]
                                    ELSE IF stopped THEN "stopped" ELSE "stuck"]
        /\ registered' = IF box[s] = "running" /\ stopped THEN registered \ {s} ELSE registered
        /\ writes' = [writes EXCEPT ![s] = IF wrote /\ writes[s] = 0 THEN 1 ELSE writes[s]]
        /\ ~ FinalizeRaises(s, stopped, wrote) => (box[s] = "running" => stopped)
    BY <2>2 DEF Finalize, StopContainer, WriteResources, FinalizeRaises
  <2>4. \/ /\ pc' = [pc EXCEPT ![w] = "crashed"] /\ UNCHANGED <<prepared, stats>>
        \/ /\ pc' = [pc EXCEPT ![w] = "idle"] /\ prepared' = prepared \cup {s}
           /\ box[s] = "running" => stopped
           /\ stats' = [stats EXCEPT ![s] = "replayed"] \/ stats' = stats
    BY <2>2, <2>3 DEF Report
  <2>5. \E n \in 0 .. 1 : writes' = [writes EXCEPT ![s] = n]
    <3>1. (IF wrote /\ writes[s] = 0 THEN 1 ELSE writes[s]) \in 0 .. 1
      BY <1>1, <2>1
    <3>2. QED
      BY <2>3, <3>1
  <2>6. TypeOK'
    BY <1>1, <1>2, <2>1, <2>3, <2>4, <2>5 DEF TypeOK
  <2>7. Own(w, s)
    BY <1>1, <2>1, <2>3, <2>4 DEF Own
  <2>8. Fits(w, s)
    <3>1. /\ sess'[s] \in {"replayed", "broken"} /\ sess[s] = sess'[s] /\ box[s] \in {"none", "running"}
          /\ s \in registered => box[s] \in {"running", "stuck"}
      BY <1>3, <1>4, <2>1 DEF Active
    <3>2. /\ box'[s] = IF box[s] # "running" THEN box[s] ELSE IF stopped THEN "stopped" ELSE "stuck"
          /\ s \in registered' => s \in registered /\ ~ (box[s] = "running" /\ stopped)
      BY <1>1, <2>1, <2>3
    <3>3. pc'[w] = "crashed" \/ (pc'[w] = "idle" /\ (box[s] = "running" => stopped))
      BY <1>1, <2>4
    <3>4. \/ pc'[w] = "crashed"
          \/ box'[s] # "running" /\ (box'[s] = "stuck" => stats'[s] = "prep_error")
      BY <3>1, <3>2, <3>3
    <3>5. QED
      BY <2>1, <3>1, <3>2, <3>3, <3>4 DEF Fits, Active
  <2>9. QED
    BY <1>7, <2>1, <2>6, <2>7, <2>8
<1>12. QED
  BY <1>5, <1>6, <1>8, <1>9, <1>10, <1>11 DEF WorkerStep

-----------------------------------------------------------------------------
(* The command around the queue.                                           *)

\* When all workers are gone without an error, every session is settled.
LEMMA QueueSettled ==
  ASSUME ReplayInv, run = "queue", scheduler = "bounded_queue", QueueOver, ~ Raised
  PROVE  \A s \in Sessions : Settled(s)
<1>1. queue = <<>>
  <2>1. 0 \in Workers
    BY ReplayQueueAssumption DEF Workers, WorkerCount
  <2>2. pc[0] = "exited" /\ ~ firstError
    BY <2>1 DEF QueueOver, Raised
  <2>3. QED
    BY <2>1, <2>2 DEF ReplayInv, SettleInv
<1>2. ~ \E i \in 1 .. Len(queue) : queue[i] \in Sessions
  BY <1>1
<1>3. \A w \in Workers : pc[w] \notin Active
  BY DEF QueueOver, Active
<1>4. QED
  BY <1>2, <1>3 DEF ReplayInv, SettleInv

\* Every step of the command keeps the invariant of the replay.
LEMMA ReplayInvStep == ReplayInv /\ [SimNext]_allVars => ReplayInv'
<1> SUFFICES ASSUME ReplayInv, [SimNext]_allVars PROVE ReplayInv'
  OBVIOUS
<1>1. CASE UNCHANGED <<vars, scheduler>>
  BY <1>1 DEF vars, ReplayInv, TypeOK, WorkInv, QueueInv, SessInv, WaveInv, SettleInv, Settled, Raised
<1>2. ASSUME NEW w \in Workers, WorkerStep(w), Replaying, UNCHANGED scheduler PROVE ReplayInv'
  BY <1>2, WorkerStepKeeps DEF Replaying
<1>3. ASSUME UNCHANGED <<queue, pc, cur, firstError, sess, box, registered, writes, prepared, stats, scheduler>>,
             run' \in {"queue", "closing", "completed", "failed"}, run' # "queue",
             run' \in {"closing", "completed"} => \A s \in Sessions : Settled(s)
      PROVE  ReplayInv'
  BY <1>3 DEF ReplayInv, TypeOK, WorkInv, QueueInv, SessInv, WaveInv, SettleInv, Settled, Raised
<1>4. CASE Replaying /\ (QueueReturns \/ QueueRaises) /\ UNCHANGED scheduler
  <2>1. QueueReturns => QueueOver /\ ~ Raised
    BY DEF QueueReturns, Raised
  <2>2. QueueReturns => \A s \in Sessions : Settled(s)
    BY <1>4, <2>1, QueueSettled DEF Replaying
  <2>3. QED
    BY <1>3, <1>4, <2>2 DEF QueueReturns, QueueRaises
<1>5. CASE WavesRaise
  BY <1>3, <1>5 DEF WavesRaise, command
<1>6. CASE WavesReturn
  <2>1. /\ scheduler # "bounded_queue" /\ run = "queue"
        /\ UNCHANGED <<scheduler, queue, pc, cur, firstError, box, registered, writes>>
        /\ run' \in {"closing", "failed"} /\ prepared' \in {Sessions, {}}
    BY <1>6 DEF WavesReturn, Waving, May
  <2>2. PICK replayed \in SUBSET Sessions :
          /\ stats' = [s \in Sessions |-> IF s \in replayed THEN "replayed" ELSE "prep_error"]
          /\ sess' = [s \in Sessions |-> IF s \in replayed THEN "replayed" ELSE "failed"]
    BY <1>6 DEF WavesReturn
  <2>3. /\ \A w \in Workers : pc[w] = "idle"
        /\ \A s \in Sessions : box[s] = "none"
    BY <2>1 DEF ReplayInv, WaveInv
  <2>4. TypeOK'
    BY <2>1, <2>2 DEF ReplayInv, TypeOK
  <2>5. WorkInv' /\ QueueInv'
    BY <2>1, <2>3 DEF WorkInv, QueueInv, Active
  <2>6. SessInv'
    BY <2>1, <2>2, <2>3 DEF ReplayInv, SessInv
  <2>7. WaveInv' /\ SettleInv'
    BY <2>1, <2>3 DEF ReplayInv, WaveInv, SettleInv, Settled
  <2>8. QED
    BY <2>4, <2>5, <2>6, <2>7 DEF ReplayInv
<1>7. CASE Split \/ SplitFails
  <2>1. /\ UNCHANGED <<scheduler, queue, pc, cur, firstError, sess, box, registered, writes, stats>>
        /\ run = "closing" /\ run' \in {"closing", "failed"} /\ prepared' \in {prepared, {}}
    BY <1>7 DEF Split, SplitFails, SplitStep
  <2>2. QED
    BY <2>1 DEF ReplayInv, TypeOK, WorkInv, QueueInv, SessInv, WaveInv, SettleInv, Settled, Raised
<1>8. CASE FinalizePrepared
  <2>1. CASE Complete
    BY <1>3, <1>8, <2>1 DEF FinalizePrepared, Complete, ReplayInv, SettleInv
  <2>2. ASSUME NEW s \in Sessions, FinalizeAgain(s) PROVE ReplayInv'
    <3>1. /\ run = "closing" /\ run' \in {"closing", "failed"} /\ s \in prepared
          /\ prepared' \in {prepared, prepared \ {s}}
          /\ UNCHANGED <<queue, pc, cur, firstError, sess, stats, scheduler>>
      BY <1>8, <2>2 DEF FinalizeAgain, FinalizePrepared
    <3>2. Settled(s)
      BY <3>1 DEF ReplayInv, SettleInv
    <3>3. PICK stopped \in BOOLEAN, wrote \in BOOLEAN : Finalize(s, stopped, wrote)
      BY <2>2 DEF FinalizeAgain, Outcomes
    <3>4. box[s] # "running" /\ box \in [Sessions -> {"none", "running", "stopped", "stuck"}]
      BY <3>2 DEF Settled, ReplayInv, TypeOK
    <3>5. box' = box /\ registered' = registered
      BY <3>3, <3>4 DEF Finalize, StopContainer
    <3>6. writes \in [Sessions -> 0 .. 1]
      BY DEF ReplayInv, TypeOK
    <3>7. (IF wrote /\ writes[s] = 0 THEN 1 ELSE writes[s]) \in 0 .. 1
      BY <3>6
    <3>8. writes' \in [Sessions -> 0 .. 1]
      BY <3>3, <3>6, <3>7 DEF Finalize, WriteResources
    <3>9. QED
      BY <3>1, <3>5, <3>8
      DEF ReplayInv, TypeOK, WorkInv, QueueInv, SessInv, WaveInv, SettleInv, Settled, Raised
  <2>3. QED
    BY <1>8, <2>1, <2>2 DEF FinalizePrepared
<1>9. ASSUME Load \/ Reject \/ Prefetch \/ Prebuilt \/ (\E i \in Images : Build(i) \/ BuildFails(i) \/ RemoveImage(i))
               \/ WavesHang \/ ReplayRaised \/ StopRecorder \/ KeepImages \/ WriteSummary
      PROVE  UNCHANGED <<vars, scheduler>>
  BY <1>9 DEF Load, Reject, Prefetch, Prebuilt, Build, BuildFails, RemoveImage, WavesHang, ReplayRaised,
              StopRecorder, KeepImages, WriteSummary
<1>10. CASE QuietStep
  BY <1>2, <1>4, <1>10 DEF QuietStep, WorkerStep, command
<1>11. ASSUME NEW w \in Workers, QueueWorkerStep(w) PROVE ReplayInv'
  <2>1. WorkerStep(w) /\ Replaying /\ UNCHANGED scheduler
    BY <1>11 DEF QueueWorkerStep, QueuePrepareFails, QueueBeginReplay, QueueEndReplay, QueueFinalizes,
                 WorkerStep, WriteLines, command
  <2>2. QED
    BY <1>2, <2>1
<1>12. CASE UNCHANGED allVars
  BY <1>1, <1>12 DEF allVars, command
<1>13. QED
  BY <1>1, <1>5, <1>6, <1>7, <1>8, <1>9, <1>10, <1>11, <1>12 DEF SimNext, CommandStep

\* The whole command keeps to it.
LEMMA ReplayInvariant == SimSpec => []ReplayInv
<1>1. SimInit => ReplayInv
  <2> SUFFICES ASSUME SimInit PROVE ReplayInv
    OBVIOUS
  <2>1. Init
    BY DEF SimInit
  <2>2. /\ Len(queue) = NumSessions /\ queue \in Seq(Sessions)
        /\ \A i \in 1 .. NumSessions : queue[i] = i - 1
    <3>1. queue = [i \in 1 .. NumSessions |-> i - 1] /\ NumSessions \in Nat
      BY <2>1, ReplayQueueAssumption DEF Init
    <3>2. \A i \in 1 .. NumSessions : i - 1 \in Sessions
      BY <3>1 DEF Sessions
    <3>3. QED
      BY <3>1, <3>2
  <2>3. TypeOK
    <3>1. writes \in [Sessions -> 0 .. 1]
      BY <2>1 DEF Init
    <3>2. /\ pc \in [Workers -> {"idle"}] /\ cur \in [Workers -> {NoSession}]
          /\ sess \in [Sessions -> {"queued"}] /\ box \in [Sessions -> {"none"}]
          /\ stats \in [Sessions -> {"none"}]
          /\ run = "queue" /\ firstError = FALSE /\ registered = {} /\ prepared = {}
      BY <2>1 DEF Init
    <3>3. QED
      BY <2>2, <3>1, <3>2 DEF TypeOK
  <2>4. WorkInv /\ SessInv /\ WaveInv
    BY <2>1 DEF Init, WorkInv, SessInv, WaveInv, Active
  <2>5. \A i \in 1 .. Len(queue) : queue[i] \in Sessions
    BY <2>2
  <2>6. QueueInv
    <3>1. \A i, j \in 1 .. Len(queue) : i # j => queue[i] # queue[j]
      BY <2>2, ReplayQueueAssumption
    <3>2. \A i \in 1 .. Len(queue) : sess[queue[i]] = "queued"
      BY <2>1, <2>5 DEF Init
    <3>3. QED
      BY <3>1, <3>2 DEF QueueInv
  <2>7. SettleInv
    BY <2>1 DEF Init, SettleInv, Settled
  <2>8. QED
    BY <2>3, <2>4, <2>6, <2>7 DEF ReplayInv
<1>2. QED
  BY <1>1, ReplayInvStep, PTL DEF SimSpec

\* The recorder samples each container that is replaying and none that was
\* stopped, though a session is finalized up to three times and any of them may
\* fail (_run_cloud_model_queue, _finalize_prepared_session).
THEOREM RecorderFollowsContainersCorrect == SimSpec => []RecorderFollowsContainers
<1>1. ReplayInv => RecorderFollowsContainers
  <2> SUFFICES ASSUME ReplayInv PROVE RecorderFollowsContainers
    OBVIOUS
  <2>1. registered \subseteq Sessions
    BY DEF ReplayInv, TypeOK
  <2>2. QED
    BY <2>1 DEF ReplayInv, SessInv, RecorderFollowsContainers
<1>2. QED
  BY <1>1, ReplayInvariant, PTL
-----------------------------------------------------------------------------
(* The images.                                                             *)

\* Which images there are at each stage, and why one may be gone.
ImageInv ==
  /\ image \in [Sessions -> Images \cup {NoImage}]
  /\ fixed \in [Images -> {"absent", "built", "removed"}]
  /\ stage \in {"load", "prefetch", "prebuild", "replay", "hung", "finalize", "close", "keep", "cleanup",
                "done", "failed"}
  /\ stage \notin {"load", "failed"} => SourceImages \subseteq Images
  /\ stage \in {"load", "prefetch", "prebuild"} => swept = {}
  /\ swept \subseteq Images
  /\ \A i \in swept : fixed[i] # "absent"
  /\ (\E i \in Images : fixed[i] = "removed") => stage \in {"cleanup", "done", "failed"} /\ run = "completed"
  /\ stage = "cleanup" => run = "completed"
  /\ recorder = "stuck" => stage = "failed"
  /\ Ended /\ recorder # "stuck" => \A i \in swept : fixed[i] = "removed" \/ i \in named

\* No image is built yet.
LEMMA ImageInvInit == SimInit => ImageInv
<1> SUFFICES ASSUME SimInit PROVE ImageInv
  OBVIOUS
<1>1. image \in [Sessions -> Images \cup {NoImage}]
  BY SimulateAssumption DEF SimInit
<1>2. QED
  BY <1>1 DEF SimInit, ImageInv, Ended

\* Building, keeping and removing them in the order of the stages.
LEMMA ImageInvStep == ImageInv /\ [SimNext]_allVars => ImageInv'
<1> SUFFICES ASSUME ImageInv, [SimNext]_allVars PROVE ImageInv'
  OBVIOUS
<1>1. ASSUME UNCHANGED <<image, fixed, swept, named, recorder>>, stage' = stage,
             run' = run \/ stage \in {"replay", "finalize"}
      PROVE  ImageInv'
  BY <1>1 DEF ImageInv, Ended, SourceImages
<1>2. ASSUME UNCHANGED <<image, fixed, swept, named, recorder>>, stage \in {"replay", "finalize"},
             stage' \in {"replay", "hung", "finalize", "close"}
      PROVE  ImageInv'
  BY <1>2 DEF ImageInv, Ended, SourceImages
<1>3. CASE QuietStep \/ WavesRaise \/ WavesReturn \/ \E w \in Workers : QueueWorkerStep(w)
  BY <1>1, <1>3 DEF QuietStep, WavesRaise, WavesReturn, Waving, QueueWorkerStep, QueuePrepareFails, QueueBeginReplay,
    QueueEndReplay, QueueFinalizes, Replaying, WriteLines, command
<1>4. CASE Split \/ SplitFails \/ WavesHang \/ ReplayRaised \/ FinalizePrepared
  BY <1>2, <1>4 DEF Split, SplitFails, SplitStep, WavesHang, Waving, ReplayRaised, FinalizePrepared
<1>5. CASE Load
  <2>1. /\ stage = "load" /\ stage' = "prefetch" /\ Resolvable
        /\ UNCHANGED <<run, image, fixed, swept, named, recorder>>
    BY <1>5 DEF Load, vars
  <2>2. SourceImages \subseteq Images
    BY <2>1 DEF Resolvable, SourceImages, ContainerSessions, ImageInv
  <2>3. QED
    BY <2>1, <2>2 DEF ImageInv, Ended, SourceImages
<1>6. CASE Reject \/ Prefetch
  <2>1. /\ stage \in {"load", "prefetch"} /\ stage' \in {"failed", "prebuild"}
        /\ stage' = "prebuild" => stage = "prefetch"
        /\ UNCHANGED <<run, image, fixed, swept, named, recorder>>
    BY <1>6 DEF Reject, Prefetch, May, vars
  <2>2. QED
    BY <2>1 DEF ImageInv, Ended, SourceImages
<1>7. ASSUME NEW i \in Images, Build(i) \/ BuildFails(i) PROVE ImageInv'
  <2>1. /\ stage = "prebuild" /\ stage' \in {"prebuild", "failed"} /\ fixed[i] = "absent"
        /\ \E left \in {"absent", "built"} : fixed' = [fixed EXCEPT ![i] = left]
        /\ UNCHANGED <<run, image, swept, named, recorder>>
    BY <1>7 DEF Build, BuildFails, vars
  <2>2. swept = {}
    BY <2>1 DEF ImageInv
  <2>3. /\ fixed' \in [Images -> {"absent", "built", "removed"}]
        /\ \A j \in Images : fixed'[j] = "removed" => fixed[j] = "removed"
    BY <2>1 DEF ImageInv
  <2>4. QED
    BY <2>1, <2>2, <2>3 DEF ImageInv, Ended, SourceImages
<1>8. CASE Prebuilt
  <2>1. /\ stage = "prebuild" /\ stage' = "replay" /\ swept' = SourceImages
        /\ \A i \in SourceImages : fixed[i] = "built"
        /\ recorder' \in {"on", "off"}
        /\ UNCHANGED <<run, image, fixed, named>>
    BY <1>8 DEF Prebuilt, vars
  <2>2. QED
    BY <2>1 DEF ImageInv, Ended, SourceImages
<1>9. CASE StopRecorder
  <2>1. /\ stage = "close"
        /\ \/ recorder' = "off" /\ stage' = IF run = "completed" THEN "cleanup" ELSE "keep"
           \/ recorder' = "stuck" /\ stage' = "failed"
        /\ UNCHANGED <<run, image, fixed, swept, named>>
    BY <1>9 DEF StopRecorder, vars
  <2>2. QED
    BY <2>1 DEF ImageInv, Ended, SourceImages
<1>10. CASE KeepImages
  <2>1. /\ stage = "keep" /\ stage' = "failed" /\ named' = swept
        /\ UNCHANGED <<run, image, fixed, swept, recorder>>
    BY <1>10 DEF KeepImages, vars
  <2>2. QED
    BY <2>1 DEF ImageInv, Ended, SourceImages
<1>11. ASSUME NEW i \in Images, RemoveImage(i) PROVE ImageInv'
  <2>1. /\ stage = "cleanup" /\ fixed[i] = "built"
        /\ \E left \in {"built", "removed"} : fixed' = [fixed EXCEPT ![i] = left]
        /\ UNCHANGED <<run, stage, image, swept, recorder>>
    BY <1>11 DEF RemoveImage, ToRemove, Removal, vars
  <2>2. /\ fixed' \in [Images -> {"absent", "built", "removed"}]
        /\ \A j \in Images : fixed[j] # "absent" => fixed'[j] # "absent"
    BY <2>1 DEF ImageInv
  <2>3. QED
    BY <2>1, <2>2 DEF ImageInv, Ended, SourceImages
<1>12. CASE WriteSummary
  <2>1. /\ stage = "cleanup" /\ ToRemove = {} /\ stage' \in {"done", "failed"}
        /\ UNCHANGED <<run, image, fixed, swept, named, recorder>>
    BY <1>12 DEF WriteSummary, vars
  <2>2. \A i \in swept : fixed[i] = "removed" \/ i \in named
    BY <2>1 DEF ToRemove, ImageInv
  <2>3. QED
    BY <2>1, <2>2 DEF ImageInv, Ended, SourceImages
<1>13. CASE UNCHANGED allVars
  BY <1>1, <1>13 DEF allVars, command, vars
<1>14. QED
  BY <1>3, <1>4, <1>5, <1>6, <1>7, <1>8, <1>9, <1>10, <1>11, <1>12, <1>13 DEF SimNext, CommandStep

\* The whole command keeps account of its images.
LEMMA ImageInvariant == SimSpec => []ImageInv
BY ImageInvInit, ImageInvStep, PTL DEF SimSpec

\* The command ends with each image of its sweep removed or named in the log,
\* unless the recorder's stop raised (the `finally` of simulate and
\* _cleanup_sweep_fixed_images).
THEOREM ImagesAccountedCorrect == SimSpec => []ImagesAccounted
<1>1. ImageInv => ImagesAccounted
  BY DEF ImageInv, ImagesAccounted
<1>2. QED
  BY <1>1, ImageInvariant, PTL

\* No image is removed under a session that is replayed from it, by the order of
\* the queue, the finalization and the cleanup in simulate.
THEOREM RemovedAfterReplaysCorrect == SimSpec => []RemovedAfterReplays
<1>1. ReplayInv /\ ImageInv => RemovedAfterReplays
  <2> SUFFICES ASSUME ReplayInv, ImageInv, NEW i \in Images, fixed[i] = "removed",
                      NEW s \in ContainerSessions
               PROVE  box[s] # "running" /\ (box[s] = "stuck" => stats[s] = "prep_error")
    BY DEF RemovedAfterReplays
  <2>1. run = "completed"
    BY DEF ImageInv
  <2>2. QED
    BY <2>1 DEF ReplayInv, SettleInv, Settled, ContainerSessions
<1>2. QED
  BY <1>1, ReplayInvariant, ImageInvariant, PTL
-----------------------------------------------------------------------------
(* The records at some positions.                                          *)

\* Induction up to a bound, for a set.
LEMMA UpTo ==
  ASSUME NEW n \in Nat, NEW S, 0 \in S, \A k \in 1 .. n : k - 1 \in S => k \in S
  PROVE  \A k \in 0 .. n : k \in S
<1> DEFINE R == OpToRel(<, Nat)
           Out == {k \in 0 .. n : k \notin S}
<1> SUFFICES ASSUME Out # {} PROVE FALSE
  OBVIOUS
<1>1. \E x \in Out : \A y \in Out : ~ (<<y, x>> \in R)
  <2>1. IsWellFoundedOn(R, Nat)
    BY NatLessThanWellFounded
  <2>2. Out \subseteq Nat
    OBVIOUS
  <2> HIDE DEF R, Out
  <2>3. QED
    BY <2>1, <2>2, WFMin
<1>2. PICK x \in Out : \A y \in Out : ~ (<<y, x>> \in R)
  BY <1>1
<1>3. x \in 1 .. n /\ x - 1 \notin S
  <2>1. x \in 0 .. n /\ x \notin S
    OBVIOUS
  <2>2. x # 0
    BY <2>1
  <2>3. x \in 1 .. n
    BY <2>1, <2>2
  <2>4. QED
    BY <2>1, <2>3
<1>4. x - 1 \in Out /\ x - 1 \in Nat /\ x \in Nat /\ x - 1 < x
  BY <1>3
<1>5. <<x - 1, x>> \in R
  BY <1>4 DEF OpToRel
<1>6. QED
  BY <1>2, <1>4, <1>5

\* What h keeps of the first n records.
Keeps(h, T, records, positions, n) ==
  /\ h \in [0 .. n -> Seq(T)] /\ h[0] = <<>>
  /\ \A k \in 1 .. n : h[k] = IF k \in positions THEN Append(h[k - 1], records[k]) ELSE h[k - 1]

LEMMA KeepsExist ==
  ASSUME NEW T, NEW records \in Seq(T), NEW positions
  PROVE  \E h : Keeps(h, T, records, positions, Len(records))
<1> DEFINE N == Len(records)
           S == {m \in 0 .. N : \E h : Keeps(h, T, records, positions, m)}
<1>1. N \in Nat
  OBVIOUS
<1>2. 0 \in S
  <2> DEFINE h == [k \in 0 .. 0 |-> <<>>]
  <2>1. Keeps(h, T, records, positions, 0)
    BY DEF Keeps
  <2>2. QED
    BY <1>1, <2>1
<1>3. ASSUME NEW m \in 1 .. N, m - 1 \in S PROVE m \in S
  <2>1. PICK g : Keeps(g, T, records, positions, m - 1)
    BY <1>3
  <2> DEFINE last == IF m \in positions THEN Append(g[m - 1], records[m]) ELSE g[m - 1]
             h == [k \in 0 .. m |-> IF k = m THEN last ELSE g[k]]
  <2>2. /\ g \in [0 .. m - 1 -> Seq(T)] /\ g[0] = <<>>
        /\ \A k \in 1 .. m - 1 :
             g[k] = IF k \in positions THEN Append(g[k - 1], records[k]) ELSE g[k - 1]
    BY <2>1 DEF Keeps
  <2>3. last \in Seq(T)
    <3>1. records[m] \in T /\ g[m - 1] \in Seq(T)
      BY <1>1, <1>3, <2>2
    <3>2. QED
      BY <3>1
  <2>4. h[m] = last /\ \A k \in 0 .. m - 1 : h[k] = g[k]
    BY <1>1, <1>3
  <2> HIDE DEF last
  <2>5. h \in [0 .. m -> Seq(T)] /\ h[0] = <<>>
    <3>1. ASSUME NEW k \in 0 .. m, k # m PROVE k \in 0 .. m - 1
      BY <1>1, <1>3, <3>1
    <3>2. QED
      BY <1>1, <1>3, <2>2, <2>3, <3>1
  <2> HIDE DEF h
  <2>6. ASSUME NEW k \in 1 .. m
        PROVE  h[k] = IF k \in positions THEN Append(h[k - 1], records[k]) ELSE h[k - 1]
    <3>1. k - 1 \in 0 .. m - 1 /\ h[k - 1] = g[k - 1]
      BY <1>1, <1>3, <2>4
    <3>2. CASE k = m
      BY <2>4, <3>1, <3>2 DEF last
    <3>3. CASE k # m
      <4>1. k \in 1 .. m - 1 /\ k \in 0 .. m - 1
        BY <1>1, <1>3, <3>3
      <4>2. QED
        BY <2>2, <2>4, <3>1, <4>1
    <3>4. QED
      BY <3>2, <3>3
  <2>7. Keeps(h, T, records, positions, m)
    BY <2>5, <2>6 DEF Keeps
  <2>8. QED
    BY <1>1, <1>3, <2>7
<1>4. \A m \in 0 .. N : m \in S
  <2> HIDE DEF S, N
  <2>1. QED
    BY <1>1, <1>2, <1>3, UpTo
<1>5. QED
  BY <1>1, <1>4

LEMMA SelectedIs ==
  ASSUME NEW T, NEW records \in Seq(T), NEW positions
  PROVE  \E h : /\ Keeps(h, T, records, positions, Len(records))
                /\ Selected(records, positions) = h[Len(records)]
<1> DEFINE N == Len(records)
           Body(h, n) == IF n = 0 THEN <<>>
                         ELSE IF n \in positions THEN Append(h[n - 1], records[n]) ELSE h[n - 1]
           kept == CHOOSE h : h = [n \in 0 .. Len(records) |-> Body(h, n)]
<1>1. N \in Nat
  OBVIOUS
<1>2. PICK g : Keeps(g, T, records, positions, N)
  BY KeepsExist
<1>3. g = [n \in 0 .. N |-> Body(g, n)]
  <2>1. ASSUME NEW n \in 0 .. N PROVE g[n] = Body(g, n)
    <3>1. CASE n = 0
      BY <1>2, <3>1 DEF Keeps
    <3>2. CASE n # 0
      <4>1. n \in 1 .. N
        BY <1>1, <3>2
      <4> HIDE DEF N
      <4>2. g[n] = IF n \in positions THEN Append(g[n - 1], records[n]) ELSE g[n - 1]
        BY <1>2, <4>1 DEF Keeps
      <4>3. QED
        BY <3>2, <4>2
    <3>3. QED
      BY <3>1, <3>2
  <2>2. g = [n \in 0 .. N |-> g[n]]
    BY <1>2 DEF Keeps
  <2> HIDE DEF Body, N
  <2>3. QED
    BY <2>1, <2>2
<1>4. kept = [n \in 0 .. N |-> Body(kept, n)]
  <2> HIDE DEF Body
  <2>1. QED
    BY <1>3
<1>5. Selected(records, positions) = kept[N]
  BY DEF Selected
<1> HIDE DEF kept
<1>6. /\ kept[0] = <<>>
      /\ \A n \in 1 .. N : kept[n] = IF n \in positions THEN Append(kept[n - 1], records[n]) ELSE kept[n - 1]
  <2>1. \A n \in 0 .. N : kept[n] = Body(kept, n)
    <3> HIDE DEF Body, N
    <3>1. QED
      BY <1>4
  <2>2. 0 \in 0 .. N /\ \A n \in 1 .. N : n \in 0 .. N /\ n # 0
    BY <1>1
  <2> HIDE DEF N
  <2>3. QED
    BY <2>1, <2>2
<1>7. \A n \in 0 .. N : kept[n] \in Seq(T)
  <2> DEFINE S == {n \in 0 .. N : kept[n] \in Seq(T)}
  <2>1. 0 \in S
    <3>1. kept[0] \in Seq(T)
      BY <1>6
    <3>2. QED
      BY <1>1, <3>1
  <2>2. ASSUME NEW k \in 1 .. N, k - 1 \in S PROVE k \in S
    <3>1. records[k] \in T /\ kept[k - 1] \in Seq(T) /\ k \in 0 .. N
      BY <1>1, <2>2
    <3>2. kept[k] = Append(kept[k - 1], records[k]) \/ kept[k] = kept[k - 1]
      BY <1>6
    <3>3. Append(kept[k - 1], records[k]) \in Seq(T)
      BY <3>1
    <3>4. kept[k] \in Seq(T)
      BY <3>1, <3>2, <3>3
    <3>5. QED
      BY <3>1, <3>4
  <2>3. \A k \in 0 .. N : k \in S
    <3> HIDE DEF S, N
    <3>1. QED
      BY <1>1, <2>1, <2>2, UpTo
  <2>4. QED
    BY <2>3
<1>8. kept \in [0 .. N -> Seq(T)]
  <2> HIDE DEF Body
  <2>1. QED
    BY <1>4, <1>7
<1>9. Keeps(kept, T, records, positions, N)
  BY <1>6, <1>8 DEF Keeps
<1>10. QED
  BY <1>5, <1>9

\* The last of the records that are selected is the last at a position.
LEMMA SelectedLast ==
  ASSUME NEW T, NEW records \in Seq(T), NEW positions,
         NEW k \in 1 .. Len(records), k \in positions,
         \A j \in k + 1 .. Len(records) : j \notin positions
  PROVE  Selected(records, positions) # <<>> /\ Last(Selected(records, positions)) = records[k]
<1> DEFINE N == Len(records)
<1>1. N \in Nat
  OBVIOUS
<1>2. PICK h : Keeps(h, T, records, positions, N) /\ Selected(records, positions) = h[N]
  BY SelectedIs
<1> HIDE DEF N
<1>3. /\ h \in [0 .. N -> Seq(T)]
      /\ \A n \in 1 .. N : h[n] = IF n \in positions THEN Append(h[n - 1], records[n]) ELSE h[n - 1]
  BY <1>2 DEF Keeps
<1>4. k \in 1 .. N /\ k \in Nat /\ \A j \in k + 1 .. N : j \notin positions
  BY <1>1 DEF N
<1>5. records[k] \in T /\ h[k - 1] \in Seq(T)
  BY <1>1, <1>3, <1>4 DEF N
<1>6. h[k] # <<>> /\ Last(h[k]) = records[k]
  <2>1. h[k] = Append(h[k - 1], records[k])
    BY <1>3, <1>4
  <2>2. \A s \in Seq(T), e \in T :
          /\ Append(s, e) \in Seq(T) /\ Len(Append(s, e)) = Len(s) + 1 /\ Len(s) \in Nat
          /\ Append(s, e)[Len(s) + 1] = e
    OBVIOUS
  <2>3. Len(h[k]) = Len(h[k - 1]) + 1 /\ Len(h[k - 1]) \in Nat /\ h[k][Len(h[k - 1]) + 1] = records[k]
    BY <1>5, <2>1, <2>2
  <2>4. Len(<<>>) = 0
    OBVIOUS
  <2>5. QED
    BY <2>3, <2>4 DEF Last
<1> DEFINE S == {n \in 0 .. N : n < k \/ h[n] = h[k]}
<1>7. 0 \in S
  BY <1>1, <1>4
<1>8. ASSUME NEW n \in 1 .. N, n - 1 \in S PROVE n \in S
  <2>1. CASE n <= k
    BY <1>1, <1>4, <2>1
  <2>2. CASE n > k
    <3>1. n \in k + 1 .. N /\ ~ (n - 1 < k)
      BY <1>1, <1>4, <2>2
    <3>2. h[n] = h[n - 1]
      BY <1>3, <1>4, <3>1
    <3>3. QED
      BY <1>1, <1>8, <3>1, <3>2
  <2>3. QED
    BY <1>1, <1>4, <2>1, <2>2
<1>9. \A n \in 0 .. N : n \in S
  <2> HIDE DEF S
  <2>1. QED
    BY <1>1, <1>7, <1>8, UpTo
<1>10. h[N] = h[k]
  BY <1>1, <1>4, <1>9
<1>11. QED
  BY <1>2, <1>6, <1>10

LEMMA SelectedType ==
  ASSUME NEW T, NEW records \in Seq(T), NEW positions
  PROVE  Selected(records, positions) \in Seq(T)
<1>1. PICK h : /\ Keeps(h, T, records, positions, Len(records))
               /\ Selected(records, positions) = h[Len(records)]
  BY SelectedIs
<1>2. Len(records) \in 0 .. Len(records)
  OBVIOUS
<1>3. QED
  BY <1>1, <1>2 DEF Keeps

-----------------------------------------------------------------------------
(* The files.                                                              *)

Kinds == {"action", "summary"}
Records == {Line(s, kind) : s \in Sessions, kind \in Kinds}

\* The last record of a session is its summary.
Closed(s) ==
  \E k \in 1 .. Len(lines) :
    /\ lines[k].of = s /\ lines[k].kind = "summary"
    /\ \A j \in k + 1 .. Len(lines) : lines[j].of # s

\* The records carry the ids of their sessions, which differ once they are given.
LinesInv ==
  /\ lines \in Seq(Records)
  /\ stage \in {"load", "prefetch", "prebuild"} => lines = <<>> /\ run = "queue"
  /\ stage \notin {"load", "failed"} => \A s, t \in Sessions : s # t => ids[s] # ids[t]

\* A session that is over has a summary behind its other records.
ClosedInv ==
  \A s \in Sessions :
    /\ sess[s] \in {"queued", "preparing", "up", "registered", "replaying"} => stats[s] = "none"
    /\ sess[s] = "replayed" \/ stats[s] # "none" => Closed(s)
    /\ sess[s] = "broken" => firstError

\* When the replay is over without an error every session is reported and prepared.
Accounted(s) == stats[s] # "none" /\ s \in prepared

AccountInv ==
  /\ run = "queue" /\ scheduler = "bounded_queue" =>
       \A s \in Sessions :
         \/ \E i \in 1 .. Len(queue) : queue[i] = s
         \/ \E w \in Workers : pc[w] \in Active /\ cur[w] = s
         \/ Raised
         \/ Accounted(s)
  /\ run \in {"closing", "completed"} => \A s \in Sessions : stats[s] # "none"
  /\ stage = "replay" /\ run = "closing" => prepared = Sessions

\* The files are written once, by a replay that is over.
FileInv ==
  /\ stage = "replay" => run # "completed"
  /\ stage = "finalize" => run = "closing"
  /\ stage \in {"close", "keep"} => run \in {"completed", "failed"}
  /\ stage \in {"cleanup", "done"} => run = "completed"
  /\ stage \in {"load", "prefetch", "prebuild", "replay"} => DOMAIN files = {}
  /\ stage \notin {"load", "prefetch", "prebuild", "replay"} /\ run \in {"closing", "completed"} =>
       DOMAIN files = Sessions
  /\ stage = "done" => summary = {ids[s] : s \in {t \in Sessions : stats[t] # "none"}}
  /\ FilesAreTheSessions

ReportInv == LinesInv /\ ClosedInv /\ AccountInv /\ FileInv

\* A record more.
LEMMA AddLine ==
  ASSUME lines \in Seq(Records), NEW s \in Sessions, NEW kind \in Kinds, UNCHANGED ids,
         lines' = lines \o <<Line(s, kind)>>
  PROVE  /\ lines' \in Seq(Records')
         /\ \A t \in Sessions \ {s} : Closed(t) => Closed(t)'
         /\ kind = "summary" => Closed(s)'
<1> DEFINE n == Len(lines)
           l == Line(s, kind)
<1>1. Records' = Records /\ l \in Records /\ n \in Nat /\ l.of = s /\ l.kind = kind
  BY DEF Records, Line
<1> HIDE DEF l
<1>2. /\ lines' \in Seq(Records) /\ Len(lines') = n + 1
      /\ \A k \in 1 .. n : lines'[k] = lines[k]
      /\ lines'[n + 1] = l
  BY <1>1 DEF l
<1> HIDE DEF n
<1>3. ASSUME NEW t \in Sessions \ {s}, Closed(t) PROVE Closed(t)'
  <2>1. PICK k \in 1 .. n : /\ lines[k].of = t /\ lines[k].kind = "summary"
                            /\ \A j \in k + 1 .. n : lines[j].of # t
    BY <1>3 DEF Closed, n
  <2>2. k \in 1 .. n + 1 /\ lines'[k] = lines[k]
    BY <1>1, <1>2
  <2>3. ASSUME NEW j \in k + 1 .. n + 1 PROVE lines'[j].of # t
    <3>1. CASE j = n + 1
      BY <1>1, <1>2, <3>1
    <3>2. CASE j # n + 1
      <4>1. j \in k + 1 .. n /\ j \in 1 .. n
        BY <1>1, <3>2
      <4>2. QED
        BY <1>2, <2>1, <4>1
    <3>3. QED
      BY <3>1, <3>2
  <2>4. QED
    BY <1>2, <2>1, <2>2, <2>3 DEF Closed
<1>4. ASSUME kind = "summary" PROVE Closed(s)'
  <2>1. n + 1 \in 1 .. n + 1 /\ (n + 1) + 1 .. n + 1 = {}
    BY <1>1
  <2>2. QED
    BY <1>1, <1>2, <1>4, <2>1 DEF Closed
<1>5. QED
  BY <1>1, <1>2, <1>3, <1>4

\* What a step that moves the session of one worker leaves to the others.
Others(w, s) ==
  /\ \A v \in Workers \ {w} : pc'[v] = pc[v] /\ cur'[v] = cur[v]
  /\ \A t \in Sessions \ {s} : /\ sess'[t] = sess[t] /\ stats'[t] = stats[t]
                               /\ t \in prepared => t \in prepared'
  /\ firstError => firstError'
  /\ UNCHANGED <<run, queue, stage, scheduler, ids, files, summary>>

LEMMA ClosedKept ==
  ASSUME ClosedInv, NEW w \in Workers, NEW s \in Sessions, Others(w, s),
         \A t \in Sessions \ {s} : Closed(t) => Closed(t)',
         sess'[s] \in {"queued", "preparing", "up", "registered", "replaying"} => stats'[s] = "none",
         sess'[s] = "replayed" \/ stats'[s] # "none" => Closed(s)',
         sess'[s] = "broken" => firstError'
  PROVE  ClosedInv'
<1>1. ASSUME NEW t \in Sessions
      PROVE  /\ sess'[t] \in {"queued", "preparing", "up", "registered", "replaying"} => stats'[t] = "none"
             /\ sess'[t] = "replayed" \/ stats'[t] # "none" => Closed(t)'
             /\ sess'[t] = "broken" => firstError'
  <2>1. CASE t = s
    BY <2>1
  <2>2. CASE t # s
    BY <2>2 DEF ClosedInv, Others
  <2>3. QED
    BY <2>1, <2>2
<1>2. QED
  BY <1>1 DEF ClosedInv

LEMMA AccountKept ==
  ASSUME AccountInv, Replaying, NEW w \in Workers, NEW s \in Sessions, cur[w] = s, pc[w] \in Active, Others(w, s),
         \/ pc'[w] \in Active /\ cur'[w] = s
         \/ firstError' \/ pc'[w] = "crashed"
         \/ Accounted(s)'
  PROVE  AccountInv'
<1>1. run' = "queue" /\ queue' = queue
  BY DEF Others, Replaying
<1>2. ASSUME NEW t \in Sessions
      PROVE  \/ \E i \in 1 .. Len(queue) : queue[i] = t
             \/ \E v \in Workers : pc'[v] \in Active /\ cur'[v] = t
             \/ Raised'
             \/ Accounted(t)'
  <2>1. Raised => Raised'
    BY DEF Raised, Others, Active
  <2>2. CASE t = s
    BY <2>2 DEF Raised
  <2>3. CASE t # s
    <3>1. Accounted(t) => Accounted(t)'
      BY <2>3 DEF Accounted, Others
    <3>2. (\E v \in Workers : pc[v] \in Active /\ cur[v] = t)
            => \E v \in Workers : pc'[v] \in Active /\ cur'[v] = t
      BY <2>3 DEF Others
    <3>3. QED
      BY <2>1, <3>1, <3>2 DEF AccountInv, Replaying
  <2>4. QED
    BY <2>2, <2>3
<1>3. QED
  BY <1>1, <1>2 DEF AccountInv

\* While the replay goes on no file is written.
LEMMA FileStays ==
  ASSUME FileInv, stage = "replay", UNCHANGED <<stage, files>>, run' # "completed"
  PROVE  FileInv'
BY DEF FileInv, FilesAreTheSessions

\* A worker of the queue writes what it reports.
LEMMA WorkerReports ==
  ASSUME ReplayInv, ReportInv, NEW w \in Workers, Replaying,
         \/ UNCHANGED command /\ (StartContainer(w) \/ Register(w))
         \/ QueueWorkerStep(w)
  PROVE  ReportInv'
<1>1. /\ pc \in [Workers -> {"idle", "preparing", "replaying", "finalizing", "exited", "crashed"}]
      /\ cur \in [Workers -> Sessions \cup {NoSession}]
      /\ sess \in [Sessions -> {"queued", "preparing", "up", "registered", "replaying", "failed",
                                "replayed", "broken"}]
      /\ stats \in [Sessions -> {"none", "prep_error", "replayed"}]
      /\ prepared \subseteq Sessions /\ firstError \in BOOLEAN
  BY DEF ReplayInv, TypeOK
<1>2. pc[w] \in Active
  BY DEF QueueWorkerStep, QueuePrepareFails, QueueBeginReplay, QueueEndReplay, QueueFinalizes,
         StartContainer, Register, PrepareFails, BeginReplay, EndReplay, FinalizeSession, Go, Active
<1>0. PICK s \in Sessions : s = cur[w]
  BY <1>2 DEF ReplayInv, WorkInv
<1>3. /\ s \in Sessions
      /\ pc[w] = "preparing" => sess[s] \in {"preparing", "up", "registered"}
      /\ pc[w] = "replaying" => sess[s] = "replaying"
      /\ pc[w] = "finalizing" => sess[s] \in {"replayed", "broken"}
  BY <1>0, <1>2 DEF ReplayInv, WorkInv
<1>4. /\ stage = "replay" /\ run = "queue" /\ lines \in Seq(Records)
      /\ LinesInv /\ ClosedInv /\ AccountInv /\ FileInv
  BY DEF Replaying, ReportInv, LinesInv
<1>5. /\ sess[s] \in {"queued", "preparing", "up", "registered", "replaying"} => stats[s] = "none"
      /\ sess[s] = "replayed" \/ stats[s] # "none" => Closed(s)
      /\ sess[s] = "broken" => firstError
  BY <1>3, <1>4 DEF ClosedInv
\* What is left to show of a step.
<1>6. ASSUME Others(w, s), lines' \in Seq(Records'),
             \A t \in Sessions \ {s} : Closed(t) => Closed(t)',
             sess'[s] \in {"queued", "preparing", "up", "registered", "replaying"} => stats'[s] = "none",
             sess'[s] = "replayed" \/ stats'[s] # "none" => Closed(s)',
             sess'[s] = "broken" => firstError',
             \/ pc'[w] \in Active /\ cur'[w] = s
             \/ firstError' \/ pc'[w] = "crashed"
             \/ Accounted(s)'
      PROVE  ReportInv'
  <2>1. ClosedInv'
    BY <1>0, <1>3, <1>4, <1>6, ClosedKept
  <2>2. AccountInv'
    BY <1>0, <1>2, <1>3, <1>4, <1>6, AccountKept
  <2>3. FileInv'
    BY <1>4, <1>6, FileStays DEF Others
  <2>4. LinesInv'
    BY <1>4, <1>6 DEF LinesInv, Others
  <2>5. QED
    BY <2>1, <2>2, <2>3, <2>4 DEF ReportInv
<1>7. ASSUME UNCHANGED <<lines, ids>>
      PROVE  /\ lines' \in Seq(Records')
             /\ \A t \in Sessions : Closed(t) => Closed(t)'
  BY <1>4, <1>7 DEF Records, Line, Closed
<1>8. ASSUME lines' = lines \o <<>> PROVE lines' = lines
  BY <1>4, <1>8
<1>9. ASSUME NEW kind \in Kinds, lines' = lines \o <<Line(s, kind)>>, UNCHANGED ids
      PROVE  /\ lines' \in Seq(Records')
             /\ \A t \in Sessions \ {s} : Closed(t) => Closed(t)'
             /\ kind = "summary" => Closed(s)'
  BY <1>3, <1>4, <1>9, AddLine
<1>10. CASE UNCHANGED command /\ (StartContainer(w) \/ Register(w))
  <2>1. /\ UNCHANGED <<pc, cur, stats, prepared, firstError, run, queue>>
        /\ \E to \in {"up", "registered"} : sess' = [sess EXCEPT ![s] = to]
        /\ sess[s] \in {"preparing", "up"}
        /\ UNCHANGED <<stage, scheduler, ids, files, summary, lines>>
    BY <1>0, <1>10 DEF StartContainer, Register, command
  <2>2. Others(w, s) /\ sess'[s] \in {"up", "registered"}
    BY <1>1, <1>3, <2>1 DEF Others
  <2>3. stats'[s] = "none" /\ pc'[w] \in Active /\ cur'[w] = s
    BY <1>0, <1>2, <1>5, <2>1
  <2>4. QED
    BY <1>6, <1>7, <2>1, <2>2, <2>3
<1>11. CASE QueuePrepareFails(w)
  <2>1. /\ pc[w] = "preparing" /\ pc' = [pc EXCEPT ![w] = "idle"]
        /\ sess' = [sess EXCEPT ![s] = "failed"] /\ cur' = [cur EXCEPT ![w] = NoSession]
        /\ UNCHANGED <<run, queue, stage, scheduler, ids, files, summary>>
        /\ lines' = lines \o (IF stats' # stats THEN <<Line(s, "summary")>> ELSE <<>>)
        /\ \/ /\ prepared' = prepared \cup {s} /\ stats' = [stats EXCEPT ![s] = "prep_error"]
              /\ firstError' = firstError
           \/ firstError' = TRUE /\ UNCHANGED <<prepared, stats>>
    BY <1>0, <1>11 DEF QueuePrepareFails, PrepareFails, WriteLines, Go, Report
  <2>2. Others(w, s) /\ sess'[s] = "failed"
    BY <1>1, <1>3, <2>1 DEF Others
  <2>3. firstError' \/ Accounted(s)'
    BY <1>1, <1>3, <2>1 DEF Accounted
  <2>4. CASE stats' # stats
    <3>1. lines' = lines \o <<Line(s, "summary")>> /\ UNCHANGED ids /\ "summary" \in Kinds
      BY <2>1, <2>4 DEF Kinds
    <3>2. QED
      BY <1>6, <1>9, <2>2, <2>3, <3>1
  <2>5. CASE stats' = stats
    <3>1. UNCHANGED <<lines, ids>>
      BY <1>8, <2>1, <2>5
    <3>2. QED
      BY <1>3, <1>5, <1>6, <1>7, <2>2, <2>3, <2>5, <3>1
  <2>6. QED
    BY <2>4, <2>5
<1>12. CASE QueueBeginReplay(w)
  <2>1. /\ pc' = [pc EXCEPT ![w] = "replaying"] /\ sess' = [sess EXCEPT ![s] = "replaying"]
        /\ sess[s] \in {"preparing", "registered"}
        /\ UNCHANGED <<run, queue, cur, firstError, prepared, stats, stage, scheduler, ids, files, summary>>
        /\ lines' = lines \o <<Line(s, "action")>>
    BY <1>0, <1>12 DEF QueueBeginReplay, BeginReplay, WriteLines, Go
  <2>2. Others(w, s) /\ sess'[s] = "replaying"
    BY <1>1, <1>3, <2>1 DEF Others
  <2>3. stats'[s] = "none" /\ pc'[w] \in Active /\ cur'[w] = s
    BY <1>0, <1>1, <1>5, <2>1 DEF Active
  <2>4. "action" \in Kinds
    BY DEF Kinds
  <2>5. QED
    BY <1>6, <1>9, <2>1, <2>2, <2>3, <2>4
<1>13. CASE QueueEndReplay(w)
  <2>1. /\ pc[w] = "replaying" /\ pc' = [pc EXCEPT ![w] = "finalizing"]
        /\ UNCHANGED <<run, queue, cur, prepared, stats, stage, scheduler, ids, files, summary>>
        /\ lines' = lines \o (IF sess'[s] = "replayed" THEN <<Line(s, "summary")>> ELSE <<>>)
    BY <1>0, <1>13 DEF QueueEndReplay, EndReplay, WriteLines, Go
  <2>2. PICK ok \in BOOLEAN : /\ sess' = [sess EXCEPT ![s] = IF ok THEN "replayed" ELSE "broken"]
                             /\ firstError' = (firstError \/ ~ ok)
    BY <1>0, <1>13 DEF QueueEndReplay, EndReplay, Outcomes
  <2>3. /\ Others(w, s) /\ stats'[s] = "none" /\ pc'[w] \in Active /\ cur'[w] = s
        /\ sess'[s] \in {"replayed", "broken"} /\ (sess'[s] = "broken" => firstError')
    BY <1>0, <1>1, <1>3, <1>5, <2>1, <2>2 DEF Others, Active
  <2>4. CASE sess'[s] = "replayed"
    <3>1. lines' = lines \o <<Line(s, "summary")>> /\ UNCHANGED ids /\ "summary" \in Kinds
      BY <2>1, <2>4 DEF Kinds
    <3>2. QED
      BY <1>6, <1>9, <2>3, <2>4, <3>1
  <2>5. CASE sess'[s] # "replayed"
    <3>1. UNCHANGED <<lines, ids>>
      BY <1>8, <2>1, <2>5
    <3>2. QED
      BY <1>6, <1>7, <2>3, <2>5, <3>1
  <2>6. QED
    BY <2>4, <2>5
<1>14. CASE QueueFinalizes(w)
  <2>1. /\ pc[w] = "finalizing" /\ cur' = [cur EXCEPT ![w] = NoSession]
        /\ UNCHANGED <<run, queue, firstError, sess, stage, scheduler, ids, files, summary, lines>>
        /\ \/ pc' = [pc EXCEPT ![w] = "crashed"] /\ UNCHANGED <<prepared, stats>>
           \/ /\ pc' = [pc EXCEPT ![w] = "idle"] /\ prepared' = prepared \cup {s}
              /\ IF sess[s] = "replayed" THEN stats' = [stats EXCEPT ![s] = "replayed"] ELSE stats' = stats
    BY <1>0, <1>14 DEF QueueFinalizes, FinalizeSession, command, Report
  <2>2. Others(w, s)
    BY <1>1, <1>3, <2>1 DEF Others
  <2>3. /\ sess'[s] \in {"replayed", "broken"} /\ (sess'[s] = "broken" => firstError')
        /\ stats'[s] # "none" => sess[s] = "replayed" \/ stats[s] # "none"
    BY <1>1, <1>3, <1>5, <2>1
  <2>4. pc'[w] = "crashed" \/ firstError' \/ Accounted(s)'
    BY <1>1, <1>3, <1>5, <2>1 DEF Accounted
  <2>5. Closed(s) => Closed(s)'
    BY <1>3, <1>7, <2>1
  <2>6. QED
    BY <1>5, <1>6, <1>7, <2>1, <2>2, <2>3, <2>4, <2>5
<1>15. QED
  BY <1>10, <1>11, <1>12, <1>13, <1>14 DEF QueueWorkerStep

\* An order of the sessions has each of them.
LEMMA OrderIs ==
  ASSUME NEW order \in SetToSeqs(Sessions)
  PROVE  /\ order \in [1 .. NumSessions -> Sessions]
         /\ \A i, j \in 1 .. NumSessions : i # j => order[i] # order[j]
         /\ \A s \in Sessions : \E i \in 1 .. NumSessions : order[i] = s
<1>1. NumSessions \in Nat \ {0} /\ 0 \in Int /\ NumSessions - 1 \in Int /\ 1 \in Int /\ NumSessions \in Int
  BY ReplayQueueAssumption
<1>2. IsFiniteSet(Sessions) /\ Cardinality(Sessions) = NumSessions
  <2>1. /\ IsFiniteSet(0 .. NumSessions - 1)
        /\ Cardinality(0 .. NumSessions - 1) =
             IF 0 > NumSessions - 1 THEN 0 ELSE (NumSessions - 1) - 0 + 1
    BY <1>1, FS_Interval
  <2>2. QED
    BY <1>1, <2>1 DEF Sessions
<1>3. IsFiniteSet(1 .. NumSessions) /\ Cardinality(1 .. NumSessions) = NumSessions
  <2>1. /\ IsFiniteSet(1 .. NumSessions)
        /\ Cardinality(1 .. NumSessions) = IF 1 > NumSessions THEN 0 ELSE NumSessions - 1 + 1
    BY <1>1, FS_Interval
  <2>2. QED
    BY <1>1, <2>1
<1>4. /\ order \in [1 .. NumSessions -> Sessions]
      /\ \A i, j \in 1 .. NumSessions : i # j => order[i] # order[j]
  BY <1>2 DEF SetToSeqs
<1>5. order \in Injection(1 .. NumSessions, Sessions)
  <2>1. \A i, j \in 1 .. NumSessions : order[i] = order[j] => i = j
    BY <1>4
  <2>2. QED
    BY <1>4, <2>1 DEF Injection, IsInjective
<1>6. order \in Surjection(1 .. NumSessions, Sessions)
  BY <1>2, <1>3, <1>5, FS_Injection
<1>7. QED
  BY <1>4, <1>6 DEF Surjection

\* In the combined trace every session ends with its summary.
LEMMA CombinedCloses ==
  ASSUME NEW order \in SetToSeqs(Sessions), NEW replayed \in SUBSET Sessions,
         lines' = Combined(order, replayed), UNCHANGED ids
  PROVE  lines' \in Seq(Records') /\ \A s \in Sessions : Closed(s)'
<1> DEFINE N == NumSessions
           actions == [k \in 1 .. N |-> Line(order[k], "action")]
           summaries == [k \in 1 .. N |-> Line(order[k], "summary")]
           some == Selected(actions, {k \in 1 .. N : order[k] \in replayed})
           n == Len(some)
<1>1. N \in Nat \ {0}
  BY ReplayQueueAssumption
<1>2. /\ order \in [1 .. N -> Sessions]
      /\ \A i, j \in 1 .. N : i # j => order[i] # order[j]
      /\ \A s \in Sessions : \E i \in 1 .. N : order[i] = s
  BY OrderIs
<1>3. /\ actions \in Seq(Records) /\ summaries \in Seq(Records) /\ Len(summaries) = N
      /\ \A k \in 1 .. N : summaries[k].of = order[k] /\ summaries[k].kind = "summary"
  <2>1. \A k \in 1 .. N : Line(order[k], "action") \in Records /\ Line(order[k], "summary") \in Records
    BY <1>2 DEF Records, Kinds
  <2>2. \A k \in 1 .. N : summaries[k].of = order[k] /\ summaries[k].kind = "summary"
    BY DEF Line
  <2>3. QED
    BY <1>1, <2>1, <2>2
<1>4. lines' = some \o summaries
  BY DEF Combined
<1> HIDE DEF actions, summaries, N
<1>5. some \in Seq(Records)
  BY <1>3, SelectedType
<1> HIDE DEF some
<1>6. /\ lines' \in Seq(Records) /\ n \in Nat /\ Len(lines') = n + N
      /\ \A k \in 1 .. N : lines'[n + k] = summaries[k]
  <2>1. /\ some \o summaries \in Seq(Records) /\ n \in Nat
        /\ Len(some \o summaries) = n + Len(summaries)
        /\ \A k \in 1 .. Len(summaries) : (some \o summaries)[n + k] = summaries[k]
    BY <1>3, <1>5
  <2> HIDE DEF n
  <2>2. QED
    BY <1>3, <1>4, <2>1
<1>7. Records' = Records
  BY DEF Records, Line
<1> HIDE DEF n
<1>8. ASSUME NEW s \in Sessions PROVE Closed(s)'
  <2>1. PICK i \in 1 .. N : order[i] = s
    BY <1>2
  <2>2. n + i \in 1 .. n + N /\ lines'[n + i].of = s /\ lines'[n + i].kind = "summary"
    BY <1>1, <1>3, <1>6, <2>1
  <2>3. ASSUME NEW j \in (n + i) + 1 .. n + N PROVE lines'[j].of # s
    <3>1. j - n \in 1 .. N /\ j - n # i /\ j = n + (j - n)
      BY <1>1, <1>6
    <3>2. lines'[j] = summaries[j - n]
      BY <1>6, <3>1
    <3>3. QED
      BY <1>2, <1>3, <2>1, <3>1, <3>2
  <2>4. QED
    BY <1>6, <2>2, <2>3 DEF Closed
<1>9. QED
  BY <1>6, <1>7, <1>8

\* The records with the id of a session are the session's.
LEMMA SplitIsRight ==
  ASSUME lines \in Seq(Records), \A s, t \in Sessions : s # t => ids[s] # ids[t],
         \A s \in Sessions : Closed(s),
         NEW some \in SUBSET Sessions, NEW s \in some
  PROVE  /\ SplitByAgent(some)[s] = Written(s)
         /\ Written(s) \in Seq(Records)
         /\ Written(s) # <<>> /\ Last(Written(s)).kind = "summary"
<1> DEFINE at == {k \in DOMAIN lines : lines[k].of = s}
<1>1. SplitByAgent(some)[s] = Selected(lines, {k \in DOMAIN lines : lines[k].id = ids[s]})
  BY DEF SplitByAgent
<1>2. \A k \in DOMAIN lines : lines[k].of \in Sessions /\ lines[k].id = ids[lines[k].of]
  <2>1. \A l \in Records : l.of \in Sessions /\ l.id = ids[l.of]
    BY DEF Records, Line
  <2>2. QED
    BY <2>1
<1>3. {k \in DOMAIN lines : lines[k].id = ids[s]} = at
  BY <1>2
<1>4. PICK k \in 1 .. Len(lines) : /\ lines[k].of = s /\ lines[k].kind = "summary"
                                   /\ \A j \in k + 1 .. Len(lines) : lines[j].of # s
  BY DEF Closed
<1>5. k \in at /\ \A j \in k + 1 .. Len(lines) : j \notin at
  BY <1>4
<1> HIDE DEF at
<1>6. Selected(lines, at) # <<>> /\ Last(Selected(lines, at)) = lines[k]
  BY <1>5, SelectedLast
<1>7. Selected(lines, at) \in Seq(Records)
  BY SelectedType
<1>8. QED
  BY <1>1, <1>3, <1>4, <1>6, <1>7 DEF at, Written

\* Files that are whole, but for one of which the beginning is there.
LEMMA FilesAreRight ==
  ASSUME lines \in Seq(Records), UNCHANGED lines, NEW some \in SUBSET Sessions,
         DOMAIN files' = some,
         \A s \in some : /\ Written(s) \in Seq(Records)
                         /\ Written(s) # <<>> /\ Last(Written(s)).kind = "summary",
         NEW cut, run' = "failed" \/ cut \notin some,
         \A s \in some : s # cut => files'[s] = Written(s),
         cut \in some => \E n \in 0 .. Len(Written(cut)) : files'[cut] = SubSeq(Written(cut), 1, n)
  PROVE  FilesAreTheSessions'
<1>1. \A s : Written(s)' = Written(s)
  BY DEF Written
<1>2. ASSUME NEW s \in some
      PROVE  \E n \in 0 .. Len(Written(s)) : files'[s] = SubSeq(Written(s), 1, n)
  <2>1. CASE s = cut
    BY <2>1
  <2>2. CASE s # cut
    <3>1. Len(Written(s)) \in 0 .. Len(Written(s)) /\ SubSeq(Written(s), 1, Len(Written(s))) = Written(s)
      OBVIOUS
    <3>2. QED
      BY <2>2, <3>1
  <2>3. QED
    BY <2>1, <2>2
<1>3. QED
  BY <1>1, <1>2 DEF FilesAreTheSessions

\* When the queue returns, every session is in its list and reported.
LEMMA QueueReported ==
  ASSUME ReplayInv, AccountInv, run = "queue", scheduler = "bounded_queue", QueueOver, ~ Raised
  PROVE  prepared = Sessions /\ \A s \in Sessions : stats[s] # "none"
<1>1. queue = <<>>
  <2>1. 0 \in Workers
    BY ReplayQueueAssumption DEF Workers, WorkerCount
  <2>2. pc[0] = "exited" /\ ~ firstError
    BY <2>1 DEF QueueOver, Raised
  <2>3. QED
    BY <2>1, <2>2 DEF ReplayInv, SettleInv
<1>2. \A s \in Sessions : ~ \E i \in 1 .. Len(queue) : queue[i] = s
  BY <1>1
<1>3. \A w \in Workers : pc[w] \notin Active
  BY DEF QueueOver, Active
<1>4. \A s \in Sessions : Accounted(s)
  BY <1>2, <1>3 DEF AccountInv
<1>5. prepared \subseteq Sessions
  BY DEF ReplayInv, TypeOK
<1>6. QED
  BY <1>4, <1>5 DEF Accounted

LEMMA ReportInit == SimInit => ReportInv
<1> SUFFICES ASSUME SimInit PROVE ReportInv
  OBVIOUS
<1>1. LinesInv
  <2>1. lines = <<>> /\ stage = "load" /\ run = "queue"
    BY DEF SimInit, Init
  <2>2. QED
    BY <2>1 DEF LinesInv
<1>2. ClosedInv
  BY DEF SimInit, Init, ClosedInv
<1>3. AccountInv
  <2>1. /\ queue = [i \in 1 .. NumSessions |-> i - 1] /\ NumSessions \in Nat /\ run = "queue"
    BY ReplayQueueAssumption DEF SimInit, Init
  <2>2. Len(queue) = NumSessions
    BY <2>1
  <2>3. \A s \in Sessions : s + 1 \in 1 .. NumSessions /\ (s + 1) - 1 = s
    BY <2>1 DEF Sessions
  <2>4. \A s \in Sessions : \E i \in 1 .. Len(queue) : queue[i] = s
    BY <2>1, <2>2, <2>3
  <2>5. QED
    BY <2>1, <2>4 DEF AccountInv
<1>4. FileInv
  <2>1. stage = "load" /\ run = "queue" /\ DOMAIN files = {}
    BY DEF SimInit, Init
  <2>2. QED
    BY <2>1 DEF FileInv, FilesAreTheSessions
<1>5. QED
  BY <1>1, <1>2, <1>3, <1>4 DEF ReportInv

\* What a step leaves alone that neither writes nor reports.
LEMMA Unreported ==
  ASSUME ReportInv, UNCHANGED <<lines, sess, stats, firstError>>
  PROVE  ClosedInv' /\ (UNCHANGED ids => lines' \in Seq(Records'))
<1>1. UNCHANGED ids => Records' = Records
  BY DEF Records, Line
<1>2. QED
  BY <1>1 DEF ReportInv, LinesInv, ClosedInv, Closed

LEMMA ReportStep == ReplayInv /\ ReportInv /\ [SimNext]_allVars => ReportInv'
<1> SUFFICES ASSUME ReplayInv, ReportInv, [SimNext]_allVars PROVE ReportInv'
  OBVIOUS
<1>0. LinesInv /\ ClosedInv /\ AccountInv /\ FileInv
  BY DEF ReportInv
<1>1. CASE UNCHANGED allVars
  <2>1. UNCHANGED <<stage, scheduler, ids, lines, files, summary, vars>>
    BY <1>1 DEF allVars, command
  <2>2. ClosedInv' /\ LinesInv'
    BY <1>0, <2>1, Unreported DEF LinesInv, vars
  <2>3. AccountInv'
    BY <1>0, <2>1 DEF AccountInv, Accounted, Raised, vars
  <2>4. \A s : Written(s)' = Written(s)
    BY <2>1 DEF Written
  <2>5. FileInv'
    BY <1>0, <2>1, <2>4 DEF FileInv, FilesAreTheSessions, vars
  <2>6. QED
    BY <2>2, <2>3, <2>5 DEF ReportInv
\* Before the replay there is nothing to report.
<1>2. ASSUME UNCHANGED <<vars, scheduler, lines, files, summary>>,
             stage \in {"load", "prefetch", "prebuild"},
             stage' \in {"load", "prefetch", "prebuild", "replay", "failed"},
             \/ UNCHANGED ids /\ stage \in {"prefetch", "prebuild"}
             \/ stage' = "failed"
             \/ \A s, t \in Sessions : s # t => ids'[s] # ids'[t]
      PROVE  ReportInv'
  <2>1. lines = <<>> /\ run = "queue" /\ DOMAIN files = {}
    BY <1>0, <1>2 DEF LinesInv, FileInv
  <2>2. ClosedInv'
    BY <1>2, Unreported DEF vars
  <2>3. LinesInv'
    BY <1>0, <1>2, <2>1 DEF LinesInv, vars
  <2>4. AccountInv'
    BY <1>0, <1>2, <2>1 DEF AccountInv, Accounted, Raised, vars
  <2>5. FileInv'
    BY <1>0, <1>2, <2>1 DEF FileInv, FilesAreTheSessions, vars
  <2>6. QED
    BY <2>2, <2>3, <2>4, <2>5 DEF ReportInv
\* Behind it nothing more is written into the trace.
<1>3. ASSUME UNCHANGED <<scheduler, ids, lines, files, sess, stats, firstError>>,
             stage \notin {"load", "prefetch", "prebuild"},
             stage' \notin {"load", "prefetch", "prebuild", "replay"},
             stage = "replay" => run = "failed",
             \/ run' = run
             \/ run = "closing" /\ run' \in {"completed", "failed"} /\ stage = "finalize",
             stage' = "finalize" => run' = "closing",
             stage' \in {"close", "keep"} => run' \in {"completed", "failed"},
             stage' \in {"cleanup", "done"} => run' = "completed",
             stage' = "done" => summary' = {ids[s] : s \in {t \in Sessions : stats[t] # "none"}},
             run # "queue",
             stage = "failed" => stage' = "failed"
      PROVE  ReportInv'
  <2>1. ClosedInv' /\ lines' \in Seq(Records')
    BY <1>3, Unreported
  <2>2. LinesInv'
    BY <1>0, <1>3, <2>1 DEF LinesInv
  <2>3. AccountInv'
    BY <1>0, <1>3 DEF AccountInv
  <2>4. FilesAreTheSessions'
    <3>1. run' # "failed" => run # "failed"
      BY <1>3
    <3>2. FilesAreTheSessions /\ \A s : Written(s)' = Written(s)
      BY <1>0, <1>3 DEF FileInv, Written
    <3>3. QED
      BY <1>3, <3>1, <3>2 DEF FilesAreTheSessions
  <2>5. FileInv'
    BY <1>0, <1>3, <2>4 DEF FileInv
  <2>6. QED
    BY <2>1, <2>2, <2>3, <2>5 DEF ReportInv
\* The scheduler is over, or one more worker is.
<1>4. ASSUME UNCHANGED <<stage, scheduler, ids, lines, files, summary, sess, stats, firstError>>,
             stage = "replay", run' # "completed", AccountInv'
      PROVE  ReportInv'
  <2>1. ClosedInv' /\ lines' \in Seq(Records')
    BY <1>4, Unreported
  <2>2. LinesInv'
    BY <1>0, <1>4, <2>1 DEF LinesInv
  <2>3. FileInv'
    BY <1>0, <1>4, FileStays
  <2>4. QED
    BY <1>4, <2>1, <2>2, <2>3 DEF ReportInv
<1>5. CASE QuietStep
  <2>1. stage = "replay" /\ scheduler = "bounded_queue" /\ run = "queue" /\ UNCHANGED command
    BY <1>5 DEF QuietStep, Replaying
  <2>2. UNCHANGED <<stage, scheduler, ids, lines, files, summary>>
    BY <2>1 DEF command
  <2>3. ASSUME NEW w \in Workers, StartContainer(w) \/ Register(w) PROVE ReportInv'
    BY <1>5, <2>1, <2>3, WorkerReports DEF QuietStep
  <2>4. ASSUME NEW w \in Workers, Leave(w) PROVE ReportInv'
    <3>1. /\ pc[w] = "idle" /\ pc' = [pc EXCEPT ![w] = "exited"]
          /\ UNCHANGED <<run, queue, cur, firstError, sess, prepared, stats>>
      BY <2>4 DEF Leave, Go
    <3>2. pc \in [Workers -> {"idle", "preparing", "replaying", "finalizing", "exited", "crashed"}]
      BY DEF ReplayInv, TypeOK
    <3>3. \A v \in Workers : (pc[v] \in Active => pc'[v] \in Active) /\ (pc[v] = "crashed" => pc'[v] = "crashed")
      BY <3>1, <3>2 DEF Active
    <3>4. AccountInv'
      BY <1>0, <2>1, <2>2, <3>1, <3>3 DEF AccountInv, Accounted, Raised
    <3>5. QED
      BY <1>4, <2>1, <2>2, <3>1, <3>4
  <2>5. ASSUME NEW w \in Workers, Take(w) PROVE ReportInv'
    <3> DEFINE h == Head(queue)
    <3>1. /\ queue \in Seq(Sessions) /\ queue # <<>> /\ pc[w] = "idle"
          /\ pc' = [pc EXCEPT ![w] = "preparing"] /\ queue' = Tail(queue)
          /\ cur' = [cur EXCEPT ![w] = h] /\ sess' = [sess EXCEPT ![h] = "preparing"]
          /\ UNCHANGED <<run, firstError, prepared, stats>>
      BY <2>5 DEF Take, Go, ReplayInv, TypeOK
    <3>2. /\ Len(Tail(queue)) = Len(queue) - 1 /\ Len(queue) \in Nat /\ Len(queue) >= 1
          /\ \A i \in 1 .. Len(queue) - 1 : Tail(queue)[i] = queue[i + 1]
          /\ h = queue[1] /\ h \in Sessions
      BY <3>1, TailIs
    <3>3. /\ pc \in [Workers -> {"idle", "preparing", "replaying", "finalizing", "exited", "crashed"}]
          /\ cur \in [Workers -> Sessions \cup {NoSession}]
          /\ DOMAIN sess = Sessions
          /\ sess[h] = "queued"
      BY <2>1, <3>1, <3>2 DEF ReplayInv, TypeOK, QueueInv
    <3> HIDE DEF h
    <3>4. \A v \in Workers \ {w} : pc'[v] = pc[v] /\ cur'[v] = cur[v]
      BY <3>1, <3>3
    <3>5. pc'[w] \in Active /\ cur'[w] = h
      BY <3>1, <3>3 DEF Active
    <3>6. /\ \A t \in Sessions \ {h} : sess'[t] = sess[t]
          /\ sess'[h] = "preparing"
      BY <3>1, <3>2, <3>3
    <3>7. UNCHANGED <<lines, ids>> => lines' \in Seq(Records') /\ \A t \in Sessions : Closed(t) => Closed(t)'
      BY <1>0 DEF LinesInv, Records, Line, Closed
    <3>8. ClosedInv'
      BY <1>0, <2>2, <3>1, <3>2, <3>3, <3>6, <3>7 DEF ClosedInv
    <3>9. AccountInv'
      <4>1. ASSUME NEW t \in Sessions
            PROVE  \/ \E i \in 1 .. Len(queue') : queue'[i] = t
                   \/ \E v \in Workers : pc'[v] \in Active /\ cur'[v] = t
                   \/ Raised'
                   \/ Accounted(t)'
        <5>1. CASE \E i \in 1 .. Len(queue) : queue[i] = t
          <6>1. PICK i \in 1 .. Len(queue) : queue[i] = t
            BY <5>1
          <6>2. CASE i = 1
            BY <3>2, <3>5, <6>1, <6>2
          <6>3. CASE i # 1
            <7>1. i - 1 \in 1 .. Len(queue') /\ queue'[i - 1] = t
              BY <3>1, <3>2, <6>1, <6>3
            <7>2. QED
              BY <7>1
          <6>4. QED
            BY <6>2, <6>3
        <5>2. CASE \E v \in Workers : pc[v] \in Active /\ cur[v] = t
          <6>1. PICK v \in Workers : pc[v] \in Active /\ cur[v] = t
            BY <5>2
          <6>2. v # w
            BY <3>1, <6>1 DEF Active
          <6>3. QED
            BY <3>4, <6>1, <6>2
        <5>3. CASE Raised
          <6>1. firstError \/ \E v \in Workers \ {w} : pc[v] = "crashed"
            BY <3>1, <5>3 DEF Raised
          <6>2. QED
            BY <3>1, <3>4, <6>1 DEF Raised
        <5>4. CASE Accounted(t)
          BY <3>1, <5>4 DEF Accounted
        <5>5. QED
          BY <1>0, <2>1, <5>1, <5>2, <5>3, <5>4 DEF AccountInv
      <4>2. QED
        BY <2>1, <3>1, <4>1 DEF AccountInv
    <3>10. FileInv'
      BY <1>0, <2>1, <2>2, <3>1, FileStays
    <3>11. LinesInv'
      BY <1>0, <2>1, <2>2, <3>1, <3>7 DEF LinesInv
    <3>12. QED
      BY <3>8, <3>9, <3>10, <3>11 DEF ReportInv
  <2>6. CASE QueueReturns
    <3>1. /\ QueueOver /\ ~ Raised /\ run' = "closing"
          /\ UNCHANGED <<firstError, sess, prepared, stats>>
      BY <2>6 DEF QueueReturns, Raised
    <3>2. prepared = Sessions /\ \A s \in Sessions : stats[s] # "none"
      BY <1>0, <2>1, <3>1, QueueReported
    <3>3. AccountInv'
      BY <3>1, <3>2 DEF AccountInv
    <3>4. QED
      BY <1>4, <2>1, <2>2, <3>1, <3>3
  <2>7. CASE QueueRaises
    <3>1. run' = "failed" /\ UNCHANGED <<firstError, sess, stats>>
      BY <2>7 DEF QueueRaises
    <3>2. AccountInv'
      BY <3>1 DEF AccountInv
    <3>3. QED
      BY <1>4, <2>1, <2>2, <3>1, <3>2
  <2>8. QED
    BY <1>5, <2>3, <2>4, <2>5, <2>6, <2>7 DEF QuietStep
<1>6. ASSUME NEW w \in Workers, QueueWorkerStep(w) PROVE ReportInv'
  <2>1. Replaying
    BY <1>6 DEF QueueWorkerStep, QueuePrepareFails, QueueBeginReplay, QueueEndReplay, QueueFinalizes
  <2>2. QED
    BY <1>6, <2>1, WorkerReports
<1>7. CASE WavesRaise
  <2>1. /\ stage = "replay" /\ run' = "failed"
        /\ UNCHANGED <<stage, scheduler, ids, lines, files, summary, sess, stats, firstError>>
    BY <1>7 DEF WavesRaise, Waving, command
  <2>2. AccountInv'
    BY <2>1 DEF AccountInv
  <2>3. QED
    BY <1>4, <2>1, <2>2
<1>8. CASE WavesReturn
  <2>1. /\ stage = "replay" /\ scheduler # "bounded_queue"
        /\ UNCHANGED <<stage, scheduler, ids, files, summary>>
        /\ run' \in {"closing", "failed"} /\ (run' = "closing" => prepared' = Sessions)
    BY <1>8 DEF WavesReturn, Waving, May
  <2>2. PICK replayed \in SUBSET Sessions, order \in SetToSeqs(Sessions) :
          /\ stats' = [s \in Sessions |-> IF s \in replayed THEN "replayed" ELSE "prep_error"]
          /\ sess' = [s \in Sessions |-> IF s \in replayed THEN "replayed" ELSE "failed"]
          /\ lines' = Combined(order, replayed)
    BY <1>8 DEF WavesReturn
  <2>3. lines' \in Seq(Records') /\ \A s \in Sessions : Closed(s)'
    BY <2>1, <2>2, CombinedCloses
  <2>4. \A s \in Sessions : stats'[s] # "none" /\ sess'[s] \in {"replayed", "failed"}
    BY <2>2
  <2>5. ClosedInv'
    BY <2>3, <2>4 DEF ClosedInv
  <2>6. AccountInv'
    BY <2>1, <2>4 DEF AccountInv
  <2>7. LinesInv'
    BY <1>0, <2>1, <2>3 DEF LinesInv
  <2>8. FileInv'
    BY <1>0, <2>1, FileStays
  <2>9. QED
    BY <2>5, <2>6, <2>7, <2>8 DEF ReportInv
<1>9. CASE Split \/ SplitFails
  <2>1. /\ stage = "replay" /\ run = "closing"
        /\ UNCHANGED <<scheduler, ids, lines, summary, sess, stats, firstError>>
    BY <1>9 DEF Split, SplitFails, SplitStep
  <2>2. prepared = Sessions /\ \A s \in Sessions : stats[s] # "none" /\ Closed(s)
    BY <1>0, <2>1 DEF AccountInv, ClosedInv
  <2>3. \A s, t \in Sessions : s # t => ids[s] # ids[t]
    BY <1>0, <2>1 DEF LinesInv
  <2>4. ASSUME NEW some \in SUBSET Sessions, NEW s \in some
        PROVE  /\ SplitByAgent(some)[s] = Written(s)
               /\ Written(s) \in Seq(Records)
               /\ Written(s) # <<>> /\ Last(Written(s)).kind = "summary"
    BY <1>0, <2>2, <2>3, SplitIsRight DEF LinesInv
  <2>5. ASSUME NEW some \in SUBSET Sessions, files' = SplitByAgent(some)
        PROVE  FilesAreTheSessions' /\ DOMAIN files' = some
    <3>1. DOMAIN files' = some /\ \A s \in some : files'[s] = Written(s)
      BY <2>4, <2>5 DEF SplitByAgent
    <3>2. PICK cut : cut \notin some
      BY NoSetContainsEverything
    <3>3. QED
      BY <1>0, <2>1, <2>4, <3>1, <3>2, FilesAreRight DEF LinesInv
  <2>6. FilesAreTheSessions'
        /\ \/ stage' = "finalize" /\ run' = run /\ DOMAIN files' = Sessions
           \/ stage' = "close" /\ run' = "failed"
    <3>1. CASE Split
      BY <2>2, <2>5, <3>1 DEF Split, SplitStep
    <3>2. CASE SplitFails
      <4> DEFINE all == SplitByAgent(prepared)
      <4>1. stage' = "close" /\ run' = "failed"
        BY <3>2 DEF SplitFails
      <4>2. PICK whole \in SUBSET Sessions :
              \/ files' = SplitByAgent(whole)
              \/ \E s \in Sessions \ whole : \E n \in 0 .. Len(all[s]) :
                   files' = [t \in whole \cup {s} |-> IF t = s THEN SubSeq(all[s], 1, n) ELSE all[t]]
        <5>1. SplitFails /\ prepared = Sessions
          BY <2>2, <3>2
        <5>2. \E whole \in SUBSET prepared :
                \/ SplitStep(SplitByAgent(whole))
                \/ \E s \in prepared \ whole : \E n \in 0 .. Len(all[s]) :
                     SplitStep([t \in whole \cup {s} |-> IF t = s THEN SubSeq(all[s], 1, n) ELSE all[t]])
          BY <5>1 DEF SplitFails
        <5>3. \A left : SplitStep(left) => files' = left
          BY DEF SplitStep
        <5> HIDE DEF all
        <5>4. QED
          BY <5>1, <5>2, <5>3, Zenon
      <4>3. ASSUME NEW s \in Sessions \ whole, NEW n \in 0 .. Len(all[s]),
                   files' = [t \in whole \cup {s} |-> IF t = s THEN SubSeq(all[s], 1, n) ELSE all[t]]
            PROVE  FilesAreTheSessions'
        <5>1. \A t \in Sessions : all[t] = Written(t)
          BY <2>2, <2>4
        <5> HIDE DEF all
        <5>2. /\ DOMAIN files' = whole \cup {s}
              /\ \A t \in whole \cup {s} : t # s => files'[t] = Written(t)
              /\ \E m \in 0 .. Len(Written(s)) : files'[s] = SubSeq(Written(s), 1, m)
          BY <4>3, <5>1
        <5>3. whole \cup {s} \in SUBSET Sessions
          OBVIOUS
        <5>4. QED
          BY <1>0, <2>1, <2>4, <4>1, <5>2, <5>3, FilesAreRight DEF LinesInv
      <4>4. QED
        BY <2>5, <4>1, <4>2, <4>3
    <3>3. QED
      BY <1>9, <3>1, <3>2
  <2>7. ClosedInv' /\ lines' \in Seq(Records')
    BY <2>1, Unreported
  <2>8. LinesInv'
    BY <1>0, <2>1, <2>6, <2>7 DEF LinesInv
  <2>9. AccountInv'
    BY <2>1, <2>2, <2>6 DEF AccountInv
  <2>10. FileInv'
    BY <2>1, <2>6 DEF FileInv
  <2>11. QED
    BY <2>7, <2>8, <2>9, <2>10 DEF ReportInv
<1>10. CASE Load \/ Reject \/ Prefetch \/ Prebuilt \/ \E i \in Images : Build(i) \/ BuildFails(i)
  <2>1. CASE Load
    <3>1. \A s, t \in Sessions : s # t => ids'[s] # ids'[t]
      BY <2>1 DEF Load, IdsUnique
    <3>2. QED
      BY <1>2, <2>1, <3>1 DEF Load
  <2>2. CASE Reject
    BY <1>2, <2>2 DEF Reject
  <2>3. CASE Prefetch
    BY <1>2, <2>3 DEF Prefetch, May
  <2>4. CASE Prebuilt
    BY <1>2, <2>4 DEF Prebuilt
  <2>5. ASSUME NEW i \in Images, Build(i) \/ BuildFails(i) PROVE ReportInv'
    BY <1>2, <2>5 DEF Build, BuildFails
  <2>6. QED
    BY <1>10, <2>1, <2>2, <2>3, <2>4, <2>5
<1>11. CASE FinalizePrepared
  <2>1. /\ stage = "finalize" /\ run = "closing" /\ run' \in {"closing", "completed", "failed"}
        /\ UNCHANGED <<scheduler, ids, lines, files, sess, stats, firstError>>
        /\ stage' = IF run' = "closing" THEN "finalize" ELSE "close"
    BY <1>11 DEF FinalizePrepared, FinalizeAgain, Complete
  <2>2. QED
    BY <1>3, <2>1
<1>12. CASE ReplayRaised \/ StopRecorder \/ KeepImages \/ WriteSummary \/ \E i \in Images : RemoveImage(i)
  <2>1. /\ UNCHANGED <<vars, scheduler, ids, lines, files>>
        /\ \/ stage = "replay" /\ run = "failed" /\ stage' = "close"
           \/ stage = "close" /\ stage' = IF run = "completed" THEN "cleanup" ELSE "keep"
           \/ stage \in {"close", "keep", "cleanup"} /\ stage' = "failed"
           \/ stage = "cleanup" /\ stage' = "cleanup"
           \/ /\ stage = "cleanup" /\ stage' = "done"
              /\ summary' = {ids[s] : s \in {t \in Sessions : stats[t] # "none"}}
    BY <1>12 DEF ReplayRaised, StopRecorder, KeepImages, WriteSummary, RemoveImage
  <2>2. run # "queue" /\ (stage \in {"close", "keep"} => run \in {"completed", "failed"})
                      /\ (stage = "cleanup" => run = "completed")
    BY <1>0, <2>1 DEF FileInv
  <2>3. UNCHANGED <<run, sess, stats, firstError>>
    BY <2>1 DEF vars
  <2>4. QED
    BY <1>3, <2>1, <2>2, <2>3
\* Whoever waits for a lost worker leaves no file.
<1>13. CASE WavesHang
  <2>1. /\ stage = "replay" /\ run = "queue" /\ scheduler # "bounded_queue" /\ stage' = "hung"
        /\ UNCHANGED <<vars, scheduler, ids, lines, files, summary>>
    BY <1>13 DEF WavesHang, Waving
  <2>2. ClosedInv' /\ lines' \in Seq(Records')
    BY <2>1, Unreported DEF vars
  <2>3. LinesInv' /\ AccountInv'
    BY <1>0, <2>1, <2>2 DEF LinesInv, AccountInv, vars
  <2>4. FileInv'
    BY <1>0, <2>1 DEF FileInv, FilesAreTheSessions, Written, vars
  <2>5. QED
    BY <2>2, <2>3, <2>4 DEF ReportInv
<1>14. QED
  BY <1>1, <1>5, <1>6, <1>7, <1>8, <1>9, <1>10, <1>11, <1>12, <1>13 DEF SimNext, CommandStep

\* The ids of the tasks are as many as the sessions.
LEMMA SummaryIsWhole ==
  ASSUME \A s, t \in Sessions : s # t => ids[s] # ids[t]
  PROVE  Cardinality({ids[s] : s \in Sessions}) = NumSessions
<1> DEFINE all == {ids[s] : s \in Sessions}
           f == [s \in Sessions |-> ids[s]]
<1>1. NumSessions \in Nat \ {0} /\ 0 \in Int /\ NumSessions - 1 \in Int
  BY ReplayQueueAssumption
<1>2. IsFiniteSet(Sessions) /\ Cardinality(Sessions) = NumSessions
  <2>1. /\ IsFiniteSet(0 .. NumSessions - 1)
        /\ Cardinality(0 .. NumSessions - 1) =
             IF 0 > NumSessions - 1 THEN 0 ELSE (NumSessions - 1) - 0 + 1
    BY <1>1, FS_Interval
  <2>2. QED
    BY <1>1, <2>1 DEF Sessions
<1>3. /\ f \in [Sessions -> all]
      /\ \A s, t \in Sessions : f[s] = f[t] => s = t
      /\ \A y \in all : \E s \in Sessions : f[s] = y
  OBVIOUS
<1> HIDE DEF f, all
<1>4. f \in Bijection(Sessions, all)
  BY <1>3 DEF Bijection, Injection, Surjection, IsInjective
<1>5. ExistsBijection(Sessions, all)
  BY <1>4 DEF ExistsBijection
<1>6. Cardinality(all) = Cardinality(Sessions)
  BY <1>2, <1>5, FS_Bijection
<1>7. QED
  BY <1>2, <1>6 DEF all

\* A file that the command leaves for a session has the records of that session
\* in their order with its summary last, but for the one whose writing failed,
\* which has a beginning of them; a command that completes leaves a whole file for
\* each, and a summary of all (_split_trace_by_agent, _write_throughput_summary).
THEOREM FilesCompleteCorrect == SimSpec => []FilesComplete
<1>1. ReplayInv /\ ReportInv => FilesComplete
  <2> SUFFICES ASSUME ReplayInv, ReportInv PROVE FilesComplete
    OBVIOUS
  <2>1. FilesAreTheSessions
    BY DEF ReportInv, FileInv
  <2>2. CompleteMeansReported
    <3> SUFFICES ASSUME stage = "done"
                 PROVE  /\ summary = {ids[s] : s \in Sessions} /\ Cardinality(summary) = NumSessions
                        /\ DOMAIN files = Sessions
                        /\ \A s \in Sessions : box[s] # "running"
      BY DEF CompleteMeansReported
    <3>1. run = "completed" /\ DOMAIN files = Sessions
          /\ summary = {ids[s] : s \in {t \in Sessions : stats[t] # "none"}}
      BY DEF ReportInv, FileInv
    <3>2. \A s \in Sessions : stats[s] # "none"
      BY <3>1 DEF ReportInv, AccountInv
    <3>3. summary = {ids[s] : s \in Sessions}
      BY <3>1, <3>2
    <3>4. \A s, t \in Sessions : s # t => ids[s] # ids[t]
      BY DEF ReportInv, LinesInv
    <3>5. \A s \in Sessions : box[s] # "running"
      BY <3>1 DEF ReplayInv, SettleInv, Settled
    <3>6. QED
      BY <3>1, <3>3, <3>4, <3>5, SummaryIsWhole
  <2>3. QED
    BY <2>1, <2>2 DEF FilesComplete
<1>2. QED
  BY <1>1, ReportInit, ReportStep, ReplayInvariant, PTL DEF SimSpec
=============================================================================
