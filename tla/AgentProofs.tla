----------------------------- MODULE AgentProofs -----------------------------
(***************************************************************************)
(* Proofs about an agent.  Of TraceRecorder, for every set of paths and    *)
(* every number of changes, iterations, tool calls and faults: what a      *)
(* deferred checkpoint and a skipped one restore, when it is taken, and    *)
(* what the closed file has, with two turns on one hook.  Of AgentRun, for *)
(* every set of tools, answers, window, iterations, retries and errors:    *)
(* that the model is sent a conversation and the run returns one, and that *)
(* tools run in order and covered by a checkpoint.                         *)
(***************************************************************************)
EXTENDS TraceRecorder, AgentRun, FiniteSetTheorems, SequenceTheorems, WellFoundedInduction, TLAPS

-----------------------------------------------------------------------------
(* The recorder: its types and its invariant.                              *)

Times == 0 .. Never
Snapshots == [Paths -> 0 .. MaxChanges]
Kinds == {"none", "error", "skipped", "full", "incremental"}
Checkpoints ==
    [kind : Kinds, entries : [Paths -> Times], marker : Times, source : [Paths -> Times]]
Records ==
    [kind : {"llm", "tool", "exec", "summary"}, metadata : {"pending", "fetched"},
     capture : Nat, checkpoint : Checkpoints]
Captures == [turn : Turns, full : BOOLEAN, result : Checkpoints]
Places == {"idle", "before", "after", "results", "over", "waiting", "summary",
           "metadata", "ended"}

TypeOK ==
    /\ now \in 0 .. MaxChanges
    /\ root \in [Paths -> 0 .. now]
    /\ pc \in [Actors -> Places]
    /\ todo \in [Turns -> Seq({"exec", "other"})]
    /\ hand \in [Actors -> SUBSET Nat]
    /\ caps \in [Hooks -> Seq(Captures)]
    /\ taken \in [Hooks -> Nat]
    /\ last \in [Hooks -> Times]
    /\ base \in [Hooks -> [Paths -> Times]]
    /\ scan = NoScan \/ scan \in [hook : Hooks, capture : Nat, marker : 0 .. now,
                                  files : Snapshots]
    /\ recs \in [Hooks -> Seq(Records)]
    /\ file \in [Hooks -> Seq(Records)]
    /\ closed \in [Hooks -> Nat]
    /\ late \subseteq MainTurns

\* What a capture found that tells of the root, and lists of a path.
Tells(ckpt) == ckpt.kind \in {"full", "incremental", "skipped"}
Lists(ckpt, p) == IsManifest(ckpt) /\ ckpt.entries[p] # NotIn

\* The last of the captures up to one that lists a path is k, with this time.
LastListed(cs, n, p, k, time) ==
    /\ k \in DOMAIN cs /\ k <= n
    /\ Lists(cs[k].result, p) /\ cs[k].result.entries[p] = time
    /\ \A d \in DOMAIN cs : d <= n /\ Lists(cs[d].result, p) => d <= k

\* The captures are taken in the order of their tasks, one at a time.
Queued(cs) == \A c, d \in DOMAIN cs : c < d /\ cs[c].result = None => cs[d].result = None

\* What one found is later than what was found before it, and the same if
\* nothing changed between.
Ordered(cs) ==
    \A c, d \in DOMAIN cs : Tells(cs[c].result) /\ Tells(cs[d].result) /\ c < d =>
        /\ cs[c].result.marker <= cs[d].result.marker
        /\ cs[c].result.marker = cs[d].result.marker =>
             cs[c].result.source = cs[d].result.source

\* The manifests of the captures up to one restore what it found.
Chained(cs) ==
    \A c \in DOMAIN cs : Tells(cs[c].result) => \A p \in Paths :
        /\ Lists(cs[c].result, p) => cs[c].result.entries[p] = cs[c].result.source[p]
        /\ \E k \in DOMAIN cs : LastListed(cs, c, p, k, cs[c].result.source[p])

\* The base is what all manifests restore.
Based(cs, b) ==
    \A p \in Paths : b[p] # NotIn =>
        \E k \in DOMAIN cs : LastListed(cs, Len(cs), p, k, b[p])

\* If nothing changed since a marker the root is what was found then.
NowIs(h) ==
    \A c \in DOMAIN caps[h] : Tells(caps[h][c].result) =>
        /\ caps[h][c].result.marker <= now
        /\ caps[h][c].result.marker = now =>
             caps[h][c].result.source = root /\ base[h] = root

ScanInv ==
    scan # NoScan =>
        /\ scan.capture \in DOMAIN caps[scan.hook]
        /\ caps[scan.hook][scan.capture].result = None
        /\ \A d \in 1 .. scan.capture - 1 : caps[scan.hook][d].result # None
        /\ scan.marker = now => scan.files = root

CapsInv ==
    \A h \in Hooks :
        /\ Queued(caps[h]) /\ Ordered(caps[h]) /\ Chained(caps[h])
        /\ Based(caps[h], base[h]) /\ NowIs(h)

\* A record without a capture has no manifest; if it says that nothing changed
\* it stands for what a capture of an earlier record found.
Alone(lines, cs, i) ==
    /\ lines[i].checkpoint.kind \in {"none", "error", "skipped"}
    /\ lines[i].kind # "exec" => lines[i].checkpoint = None
    /\ lines[i].kind = "exec" => lines[i].checkpoint # None
    /\ lines[i].checkpoint.kind = "skipped" =>
         \E j \in 1 .. i - 1 :
            /\ lines[j].capture > 0
            /\ Tells(cs[lines[j].capture].result)
            /\ cs[lines[j].capture].result.marker = lines[i].checkpoint.marker
            /\ cs[lines[j].capture].result.source = lines[i].checkpoint.source

\* Records are those of the captures, in their order.
NumberedBy(lines, cs) ==
    /\ \A i \in DOMAIN lines : lines[i].capture \in 0 .. Len(cs)
    /\ \A i, j \in DOMAIN lines : i < j /\ lines[j].capture > 0 =>
         lines[i].capture < lines[j].capture
    /\ \A c \in DOMAIN cs : \E i \in DOMAIN lines : lines[i].capture = c

Told(lines, cs) ==
    \A i \in DOMAIN lines :
        IF lines[i].capture = 0 THEN Alone(lines, cs, i)
        ELSE /\ lines[i].kind = "exec"
             /\ lines[i].checkpoint \in {None, cs[lines[i].capture].result}

\* A capture that is not applied is pending or in a coroutine's hand.
Held(h) == Pending(h) \cup UNION {hand[x] : x \in {y \in Actors : Hook(y) = h}}

Unapplied(lines) == {i \in DOMAIN lines : lines[i].kind = "exec" /\ lines[i].checkpoint = None}

RecsInv ==
    \A h \in Hooks :
        /\ NumberedBy(recs[h], caps[h]) /\ Told(recs[h], caps[h])
        /\ h = "main" \/ pc["sub"] # "ended" =>
             \A i \in Unapplied(recs[h]) : recs[h][i].capture \in Held(h)

\* The marker of the last snapshot is that of a capture of a record.
LastInv ==
    \A h \in Hooks : last[h] # Never =>
        \E j \in DOMAIN recs[h] :
            /\ recs[h][j].capture > 0
            /\ Tells(caps[h][recs[h][j].capture].result)
            /\ caps[h][recs[h][j].capture].result.marker = last[h]

HandInv ==
    /\ \A h \in Hooks : taken[h] <= Len(caps[h])
    /\ \A h \in Hooks : \A c \in DOMAIN caps[h] : Hook(caps[h][c].turn) = h
    /\ \A x \in Actors : hand[x] # NotAsked =>
         /\ Awaits(x)
         /\ \A c \in hand[x] : c \in 1 .. taken[Hook(x)]
         /\ \A c \in Own(x) : c <= taken[Hook(x)]

\* A line is what its record was; that of a capture may have no checkpoint yet.
Lags(line, r) ==
    /\ line.kind = r.kind /\ line.capture = r.capture
    /\ \/ line.checkpoint = r.checkpoint
       \/ r.capture > 0 /\ line.checkpoint = None
Lagging(lines, rs) ==
    /\ Len(lines) = Len(rs)
    /\ \A i \in DOMAIN rs : Lags(lines[i], rs[i])

FileInv == \A h \in Hooks : Lagging(file[h], recs[h]) /\ closed[h] <= Len(file[h])

\* After its reply run() waits for the captures of the turns that were over.
ReplyInv ==
    /\ pc["run"] \in {"waiting", "summary", "metadata", "ended"}
    /\ pc["run"] # "waiting" =>
         /\ \A x \in MainTurns \ late : pc[x] = "over"
         /\ \A i \in Unapplied(recs["main"]) :
              LET c == recs["main"][i].capture
              IN  \/ caps["main"][c].turn \in late
                  \/ c \in hand["run"]
                  \/ pc["run"] = "summary" /\ hand["run"] = NotAsked /\ c \in Pending("main")
    /\ pc["run"] # "ended" =>
         /\ \A h \in Hooks : closed[h] = 0
         /\ \A i \in DOMAIN recs["main"] : recs["main"][i].kind # "summary"

SubInv ==
    /\ pc["sub"] \in {"idle", "before", "after", "results", "summary", "metadata", "ended"}
    /\ pc["sub"] # "ended" => \A i \in DOMAIN recs["sub"] : recs["sub"][i].kind # "summary"
    /\ pc["sub"] = "metadata" => Unapplied(recs["sub"]) = {}
    /\ recs["sub"] # <<>> /\ Last(recs["sub"]).kind = "summary" =>
         /\ Unapplied(recs["sub"]) = {}
         /\ \A i \in DOMAIN recs["sub"] :
              recs["sub"][i].kind # "summary" => recs["sub"][i].metadata = "fetched"

IInv ==
    /\ TypeOK /\ ScanInv /\ CapsInv /\ RecsInv /\ LastInv /\ HandInv
    /\ FileInv /\ ReplyInv /\ SubInv /\ CapturedInWindow /\ TraceComplete
-----------------------------------------------------------------------------
(* The types.                                                              *)

LEMMA NoneIs ==
    /\ None \in Checkpoints /\ None.kind = "none"
    /\ \A kind \in Kinds : Checkpoint(kind) \in Checkpoints /\ Checkpoint(kind).kind = kind
    /\ NoBase \in [Paths -> Times] /\ Never \in Times /\ NotIn \in Times
    /\ 0 .. MaxChanges \subseteq Times /\ Never \notin 0 .. MaxChanges
<1>1. /\ NoBase \in [Paths -> Times] /\ Never \in Times /\ NotIn \in Times
      /\ 0 .. MaxChanges \subseteq Times /\ Never \notin 0 .. MaxChanges
    BY TraceRecorderAssumption DEF NoBase, Never, NotIn, Times
<1>2. \A kind \in Kinds : Checkpoint(kind) \in Checkpoints /\ Checkpoint(kind).kind = kind
    BY <1>1 DEF Checkpoint, Checkpoints
<1>3. "none" \in Kinds
    BY DEF Kinds
<1>4. QED
    BY <1>1, <1>2, <1>3 DEF None

LEMMA HookIn == /\ \A x \in Actors : Hook(x) \in Hooks
                /\ MainTurns \subseteq Turns /\ Turns \subseteq Actors
                /\ "sub" \in Turns /\ "run" \in Actors /\ "run" \notin Turns
                /\ \A x \in Actors \ {"sub"} : Hook(x) = "main"
                /\ Hook("sub") = "sub" /\ Hook("run") = "main"
  BY DEF Hook, Hooks, Actors, Turns, MainTurns

LEMMA RootTypes == TypeOK => root \in [Paths -> Times] /\ root \in Snapshots
<1> SUFFICES ASSUME TypeOK PROVE root \in [Paths -> Times] /\ root \in Snapshots
    OBVIOUS
<1>1. root \in [Paths -> 0 .. now] /\ now \in 0 .. MaxChanges
    BY DEF TypeOK
<1>2. 0 .. now \subseteq 0 .. MaxChanges /\ 0 .. now \subseteq Times
    BY <1>1, TraceRecorderAssumption DEF Times, Never
<1>3. QED
    BY <1>1, <1>2 DEF Snapshots

LEMMA RecTypes ==
    ASSUME NEW kind \in {"llm", "tool", "exec", "summary"}, NEW ckpt \in Checkpoints,
           NEW c \in Nat
    PROVE  Rec(kind, c, ckpt) \in Records
  BY DEF Rec, Records

LEMMA SkipTypes ==
    TypeOK => /\ [Checkpoint("skipped") EXCEPT !.marker = now, !.source = root] \in Checkpoints
              /\ Checkpoint("error") \in Checkpoints
<1> SUFFICES ASSUME TypeOK
             PROVE  /\ [Checkpoint("skipped") EXCEPT !.marker = now, !.source = root] \in Checkpoints
                    /\ Checkpoint("error") \in Checkpoints
    OBVIOUS
<1>1. root \in [Paths -> Times] /\ now \in Times
    BY RootTypes, NoneIs DEF TypeOK
<1>2. Checkpoint("skipped") \in Checkpoints /\ Checkpoint("error") \in Checkpoints
    BY NoneIs DEF Kinds
<1>3. QED
    BY <1>1, <1>2 DEF Checkpoints

LEMMA InitType == Init => TypeOK
<1> SUFFICES ASSUME Init PROVE TypeOK
    OBVIOUS
<1>1. root \in [Paths -> 0 .. now] /\ now \in 0 .. MaxChanges
    BY TraceRecorderAssumption DEF Init
<1>2. last \in [Hooks -> Times] /\ base \in [Hooks -> [Paths -> Times]]
    BY NoneIs DEF Init
<1>3. recs \in [Hooks -> Seq(Records)] /\ file \in [Hooks -> Seq(Records)]
      /\ caps \in [Hooks -> Seq(Captures)]
    BY DEF Init
<1>4. pc \in [Actors -> Places] /\ hand \in [Actors -> SUBSET Nat]
    BY DEF Init, Places, NotAsked
<1>5. QED
    BY <1>1, <1>2, <1>3, <1>4 DEF Init, TypeOK

LEMMA AddType ==
    ASSUME TypeOK, NEW h \in Hooks, NEW r \in Records, AddRecord(h, r)
    PROVE  /\ recs' \in [Hooks -> Seq(Records)] /\ file' \in [Hooks -> Seq(Records)]
           /\ recs'[h] = Append(recs[h], r) /\ file'[h] = Append(file[h], r)
           /\ \A g \in Hooks \ {h} : recs'[g] = recs[g] /\ file'[g] = file[g]
  BY DEF TypeOK, AddRecord

LEMMA ResultType ==
    ASSUME TypeOK, NEW x \in Turns, NEW kind \in {"tool", "exec"}, NEW c \in Nat,
           NEW ckpt \in Checkpoints, todo[x] # <<>>, RecordResult(x, kind, c, ckpt)
    PROVE  /\ recs' \in [Hooks -> Seq(Records)] /\ file' \in [Hooks -> Seq(Records)]
           /\ todo' \in [Turns -> Seq({"exec", "other"})]
           /\ pc' \in [Actors -> Places] /\ hand' \in [Actors -> SUBSET Nat]
           /\ UNCHANGED <<disk, iters, messageVars, taken, last, base, scan, closed, broken,
                          late>>
<1>1. recs' \in [Hooks -> Seq(Records)] /\ file' \in [Hooks -> Seq(Records)]
    BY AddType, RecTypes, HookIn DEF RecordResult
<1>2. todo' \in [Turns -> Seq({"exec", "other"})]
    BY DEF RecordResult, TypeOK
<1>3. pc' \in [Actors -> Places] /\ hand' \in [Actors -> SUBSET Nat]
  <2>1. pc' = [pc EXCEPT ![x] = "idle"] \/ pc' = [pc EXCEPT ![x] = "results"]
      BY DEF RecordResult, Go
  <2>2. hand' = [hand EXCEPT ![x] = {0}]
      BY DEF RecordResult, GoesOn, NotAsked
  <2>3. {0} \in SUBSET Nat /\ "idle" \in Places /\ "results" \in Places
      BY DEF Places
  <2>4. QED
      BY <2>1, <2>2, <2>3 DEF TypeOK
<1>4. QED
    BY <1>1, <1>2, <1>3 DEF RecordResult

LEMMA SeqExcept ==
    ASSUME NEW T, NEW s \in Seq(T), NEW n \in 1 .. Len(s), NEW v \in T
    PROVE  /\ [s EXCEPT ![n] = v] \in Seq(T) /\ Len([s EXCEPT ![n] = v]) = Len(s)
           /\ [s EXCEPT ![n] = v][n] = v
           /\ \A i \in 1 .. Len(s) : i # n => [s EXCEPT ![n] = v][i] = s[i]
<1> DEFINE t == [i \in 1 .. Len(s) |-> IF i = n THEN v ELSE s[i]]
<1>1. [s EXCEPT ![n] = v] = t
    OBVIOUS
<1>2. t \in [1 .. Len(s) -> T] /\ Len(s) \in Nat
    OBVIOUS
<1>3. t \in Seq(T) /\ Len(t) = Len(s)
  <2> HIDE DEF t
  <2>1. t \in Seq(T)
      BY <1>2
  <2>2. QED
      BY <1>2, <2>1
<1>4. QED
    BY <1>1, <1>3

\* A sequence made from another one element by element.
LEMMA SeqMade ==
    ASSUME NEW T, NEW s \in Seq(T), NEW t, t = [i \in DOMAIN s |-> t[i]],
           \A i \in DOMAIN s : t[i] \in T
    PROVE  t \in Seq(T) /\ Len(t) = Len(s)
<1>1. DOMAIN s = 1 .. Len(s) /\ Len(s) \in Nat
    OBVIOUS
<1>2. t = [i \in 1 .. Len(s) |-> t[i]]
    BY <1>1
<1>3. t \in [1 .. Len(s) -> T]
    BY <1>1, <1>2
<1>4. t \in Seq(T)
    BY <1>1, <1>3
<1>5. QED
    BY <1>1, <1>3, <1>4

LEMMA CapturedType ==
    ASSUME TypeOK, ScanInv, NEW h \in Hooks, scan.hook = h,
           NEW ckpt \in Checkpoints, Captured(h, ckpt)
    PROVE  /\ caps' \in [Hooks -> Seq(Captures)] /\ scan' = NoScan
           /\ scan \in [hook : Hooks, capture : Nat, marker : 0 .. now, files : Snapshots]
           /\ scan.capture \in 1 .. Len(caps[h]) /\ Len(caps'[h]) = Len(caps[h])
           /\ caps'[h][scan.capture].result = ckpt
           /\ \A c \in 1 .. Len(caps[h]) : caps'[h][c].turn = caps[h][c].turn
           /\ \A c \in 1 .. Len(caps[h]) : c # scan.capture => caps'[h][c] = caps[h][c]
           /\ \A g \in Hooks \ {h} : caps'[g] = caps[g]
           /\ UNCHANGED <<disk, pc, flow, hand, messageVars, taken, last, trace, broken, late>>
<1> DEFINE n == scan.capture
           v == [caps[h][n] EXCEPT !.result = ckpt]
<1>1. scan # NoScan
    BY DEF NoScan, Hooks
<1>2. scan \in [hook : Hooks, capture : Nat, marker : 0 .. now, files : Snapshots]
    BY <1>1 DEF TypeOK
<1>3. caps[h] \in Seq(Captures) /\ n \in 1 .. Len(caps[h]) /\ DOMAIN caps = Hooks
  <2>1. caps[h] \in Seq(Captures)
      BY DEF TypeOK
  <2>2. n \in DOMAIN caps[h]
      BY <1>1 DEF ScanInv
  <2>3. QED
      BY <2>1, <2>2 DEF TypeOK
<1>4. caps[h][n] \in Captures
    BY <1>3
<1>5. v \in Captures /\ v.result = ckpt /\ v.turn = caps[h][n].turn
    BY <1>4 DEF Captures
<1>6. caps' = [caps EXCEPT ![h] = [caps[h] EXCEPT ![n] = v]]
    BY DEF Captured
<1> HIDE DEF n, v
<1>7. /\ [caps[h] EXCEPT ![n] = v] \in Seq(Captures)
      /\ Len([caps[h] EXCEPT ![n] = v]) = Len(caps[h])
      /\ [caps[h] EXCEPT ![n] = v][n] = v
      /\ \A i \in 1 .. Len(caps[h]) : i # n => [caps[h] EXCEPT ![n] = v][i] = caps[h][i]
    BY <1>3, <1>5, SeqExcept
<1>8. caps'[h] = [caps[h] EXCEPT ![n] = v] /\ \A g \in Hooks \ {h} : caps'[g] = caps[g]
    BY <1>3, <1>6
<1>9. caps' \in [Hooks -> Seq(Captures)]
    BY <1>6, <1>7 DEF TypeOK
<1>10. UNCHANGED <<disk, pc, flow, hand, messageVars, taken, last, trace, broken, late>>
       /\ scan' = NoScan
    BY DEF Captured
<1>11. \A c \in 1 .. Len(caps[h]) : caps'[h][c].turn = caps[h][c].turn
    BY <1>5, <1>7, <1>8
<1>12. QED
    BY <1>2, <1>3, <1>5, <1>7, <1>8, <1>9, <1>10, <1>11 DEF n

LEMMA ManifestType ==
    ASSUME TypeOK, NEW full \in BOOLEAN, NEW changed \in SUBSET Paths,
           scan \in [hook : Hooks, capture : Nat, marker : 0 .. now, files : Snapshots]
    PROVE  Manifest(full, changed) \in Checkpoints /\ scan.files \in [Paths -> Times]
<1>1. scan.files \in Snapshots /\ scan.marker \in 0 .. now /\ now \in 0 .. MaxChanges
    BY DEF TypeOK
<1>2. scan.files \in [Paths -> Times] /\ scan.marker \in Times
    BY <1>1, TraceRecorderAssumption DEF Snapshots, Times, Never
<1>3. [p \in Paths |-> IF p \in changed THEN scan.files[p] ELSE NotIn] \in [Paths -> Times]
    BY <1>2, NoneIs
<1>4. (IF full THEN "full" ELSE IF changed = {} THEN "skipped" ELSE "incremental") \in Kinds
    BY DEF Kinds
<1>5. QED
    BY <1>2, <1>3, <1>4 DEF Manifest, Checkpoints

\* The records of a hook, but for what is known of their checkpoints.
Updated(lines, cs, others) ==
    /\ Len(others) = Len(lines)
    /\ \A i \in 1 .. Len(lines) :
         /\ others[i].kind = lines[i].kind /\ others[i].capture = lines[i].capture
         /\ \/ others[i].checkpoint = lines[i].checkpoint
            \/ /\ lines[i].capture > 0
               /\ others[i].checkpoint = cs[lines[i].capture].result
               /\ others[i].checkpoint # None

\* What AwaitCaptures applies.
Asked(x) == IF hand[x] = NotAsked THEN Pending(Hook(x)) ELSE hand[x]
Ready(x) == {c \in Asked(x) : caps[Hook(x)][c].result # None}

LEMMA AppliedType ==
    ASSUME TypeOK, HandInv, NEW x \in Actors
    PROVE  /\ Asked(x) \subseteq 1 .. Len(caps[Hook(x)])
           /\ Applied(Hook(x), Ready(x)) \in Seq(Records)
           /\ Updated(recs[Hook(x)], caps[Hook(x)], Applied(Hook(x), Ready(x)))
           /\ \A i \in 1 .. Len(recs[Hook(x)]) :
                /\ Applied(Hook(x), Ready(x))[i].metadata = recs[Hook(x)][i].metadata
                /\ recs[Hook(x)][i].capture \in Ready(x) =>
                     Applied(Hook(x), Ready(x))[i].checkpoint # None
<1> DEFINE h == Hook(x)
           lines == recs[h]
           done == Ready(x)
           others == Applied(h, done)
<1>1. h \in Hooks /\ lines \in Seq(Records) /\ caps[h] \in Seq(Captures)
    BY HookIn DEF TypeOK
<1>2. Asked(x) \subseteq 1 .. Len(caps[h])
  <2>1. CASE hand[x] = NotAsked
      BY <1>1, <2>1 DEF Asked, Pending
  <2>2. CASE hand[x] # NotAsked
    <3>1. taken[h] \in Nat /\ taken[h] <= Len(caps[h])
        BY <1>1 DEF TypeOK, HandInv
    <3>2. \A c \in hand[x] : c \in 1 .. taken[h]
        BY <2>2 DEF HandInv
    <3>3. QED
        BY <1>1, <2>2, <3>1, <3>2 DEF Asked
  <2>3. QED
      BY <2>1, <2>2
<1>3. \A c \in done : c \in 1 .. Len(caps[h]) /\ caps[h][c] \in Captures
                      /\ caps[h][c].result # None
    BY <1>1, <1>2 DEF Ready
<1>4. others = [i \in DOMAIN lines |->
                  IF lines[i].capture \in done
                  THEN [lines[i] EXCEPT !.checkpoint = caps[h][lines[i].capture].result]
                  ELSE lines[i]]
    BY DEF Applied
<1> HIDE DEF h, lines, done, others
<1>5. ASSUME NEW i \in DOMAIN lines
      PROVE  /\ others[i] \in Records
             /\ others[i].kind = lines[i].kind /\ others[i].capture = lines[i].capture
             /\ others[i].metadata = lines[i].metadata
             /\ IF lines[i].capture \in done
                THEN others[i].checkpoint = caps[h][lines[i].capture].result
                ELSE others[i].checkpoint = lines[i].checkpoint
  <2>1. lines[i] \in Records
      BY <1>1
  <2>2. CASE lines[i].capture \in done
    <3>1. caps[h][lines[i].capture].result \in Checkpoints
        BY <1>3, <2>2 DEF Captures
    <3>2. others[i] = [lines[i] EXCEPT !.checkpoint = caps[h][lines[i].capture].result]
        BY <1>4, <2>2
    <3>3. QED
        BY <2>1, <2>2, <3>1, <3>2 DEF Records
  <2>3. CASE lines[i].capture \notin done
      BY <1>4, <2>1, <2>3
  <2>4. QED
      BY <2>2, <2>3
<1>6. others = [i \in DOMAIN lines |-> others[i]]
    BY <1>4
<1>7. others \in Seq(Records) /\ Len(others) = Len(lines)
    BY <1>1, <1>5, <1>6, SeqMade
<1>8. DOMAIN lines = 1 .. Len(lines)
    BY <1>1
<1>9. ASSUME NEW i \in 1 .. Len(lines), lines[i].capture \in done
      PROVE  lines[i].capture > 0 /\ others[i].checkpoint # None
  <2>1. lines[i].capture \in 1 .. Len(caps[h]) /\ Len(caps[h]) \in Nat
      BY <1>1, <1>3, <1>9
  <2>2. QED
      BY <1>3, <1>5, <1>8, <1>9, <2>1
<1>10. Updated(lines, caps[h], others)
    BY <1>5, <1>7, <1>8, <1>9 DEF Updated
<1>11. QED
    BY <1>2, <1>5, <1>7, <1>8, <1>9, <1>10 DEF h, lines, done, others

LEMMA AwaitIs ==
    ASSUME TypeOK, HandInv, NEW x \in Actors, AwaitCaptures(x)
    PROVE  /\ hand' = [hand EXCEPT ![x] = Asked(x) \ Ready(x)]
           /\ IF hand[x] = NotAsked
              THEN Asked(x) # {} /\ taken' = [taken EXCEPT ![Hook(x)] = Len(caps[Hook(x)])]
              ELSE Ready(x) # {} /\ UNCHANGED taken
           /\ Record(Hook(x), Ready(x))
           /\ recs' = [recs EXCEPT ![Hook(x)] = Applied(Hook(x), Ready(x))]
           /\ Free(x) /\ Awaits(x)
           /\ UNCHANGED <<disk, pc, flow, messageVars, caps, base, scan, file, closed, history>>
  BY DEF AwaitCaptures, Asked, Ready

LEMMA RecordType ==
    ASSUME TypeOK, NEW h \in Hooks, NEW done \in SUBSET (1 .. Len(caps[h])), Record(h, done)
    PROVE  /\ last' \in [Hooks -> Times] /\ \A g \in Hooks \ {h} : last'[g] = last[g]
           /\ \/ last'[h] = last[h]
              \/ \E c \in done : IsManifest(caps[h][c].result)
                                 /\ last'[h] = caps[h][c].result.marker
<1>1. CASE UNCHANGED last
    BY <1>1 DEF TypeOK
<1>2. CASE \E c \in done : IsManifest(caps[h][c].result)
                           /\ last' = [last EXCEPT ![h] = caps[h][c].result.marker]
  <2>1. PICK c \in done : IsManifest(caps[h][c].result)
                          /\ last' = [last EXCEPT ![h] = caps[h][c].result.marker]
      BY <1>2
  <2>2. caps[h] \in Seq(Captures)
      BY DEF TypeOK
  <2>3. caps[h][c] \in Captures
      BY <2>2
  <2>4. caps[h][c].result.marker \in Times
      BY <2>3 DEF Captures, Checkpoints
  <2>5. QED
      BY <2>1, <2>4 DEF TypeOK
<1>3. QED
    BY <1>1, <1>2 DEF Record

LEMMA SummaryType ==
    ASSUME TypeOK, NEW h \in Hooks
    PROVE  /\ Resolved(recs[h]) \in Seq(Records)
           /\ Updated(recs[h], caps[h], Resolved(recs[h]))
           /\ \A i \in 1 .. Len(recs[h]) :
                /\ Resolved(recs[h])[i].metadata = "fetched"
                /\ Resolved(recs[h])[i].checkpoint = recs[h][i].checkpoint
           /\ Summary \in Records
           /\ WithSummary(h) = Append(Resolved(recs[h]), Summary)
           /\ WithSummary(h) \in Seq(Records)
<1> DEFINE lines == recs[h]
           others == Resolved(lines)
<1>1. lines \in Seq(Records) /\ DOMAIN lines = 1 .. Len(lines)
    BY DEF TypeOK
<1>2. others = [i \in DOMAIN lines |-> [lines[i] EXCEPT !.metadata = "fetched"]]
    BY DEF Resolved
<1>3. Summary \in Records
    BY RecTypes, NoneIs DEF Summary
<1>4. WithSummary(h) = Append(others, Summary)
    BY DEF WithSummary
<1> HIDE DEF lines, others
<1>5. ASSUME NEW i \in DOMAIN lines
      PROVE  /\ others[i] \in Records
             /\ others[i].kind = lines[i].kind /\ others[i].capture = lines[i].capture
             /\ others[i].metadata = "fetched"
             /\ others[i].checkpoint = lines[i].checkpoint
  <2>1. lines[i] \in Records
      BY <1>1
  <2>2. QED
      BY <1>2, <2>1 DEF Records
<1>6. others = [i \in DOMAIN lines |-> others[i]]
    BY <1>2
<1>7. others \in Seq(Records) /\ Len(others) = Len(lines)
    BY <1>1, <1>5, <1>6, SeqMade
<1>8. Updated(lines, caps[h], others)
    BY <1>1, <1>5, <1>7 DEF Updated
<1>9. Append(others, Summary) \in Seq(Records)
    BY <1>3, <1>7
<1>10. QED
    BY <1>1, <1>3, <1>4, <1>5, <1>7, <1>8, <1>9 DEF lines, others

LEMMA TypeStep == TypeOK /\ ScanInv /\ HandInv /\ [Next]_vars => TypeOK'
<1> SUFFICES ASSUME TypeOK, ScanInv, HandInv, [Next]_vars PROVE TypeOK'
    OBVIOUS
<1> USE DEF disk, flow, messageVars, captures, trace, history
<1>1. ASSUME NEW p \in Paths, Change(p) PROVE TypeOK'
  <2>1. now' \in 0 .. MaxChanges /\ now < now'
      BY <1>1, TraceRecorderAssumption DEF Change, TypeOK
  <2>2. root' \in [Paths -> 0 .. now']
      BY <1>1, <2>1 DEF Change, TypeOK
  <2>3. scan' = NoScan \/ scan' \in [hook : Hooks, capture : Nat, marker : 0 .. now',
                                     files : Snapshots]
      BY <1>1, <2>1 DEF Change, TypeOK
  <2>4. QED
      BY <1>1, <2>1, <2>2, <2>3 DEF Change, TypeOK
<1>2. ASSUME NEW x \in Turns, NEW calls \in Batches[x], BeforeIteration(x, calls)
      PROVE  TypeOK'
  <2>1. calls \in Seq({"exec", "other"})
      BY TraceRecorderAssumption
  <2>2. todo' \in [Turns -> Seq({"exec", "other"})]
      BY <1>2, <2>1 DEF BeforeIteration, TypeOK
  <2>3. pc' \in [Actors -> Places]
    <3>1. pc' = [pc EXCEPT ![x] = "after"] \/ pc' = [pc EXCEPT ![x] = "before"]
        BY <1>2 DEF BeforeIteration, Go
    <3>2. QED
        BY <3>1 DEF TypeOK, Places
  <2>4. QED
      BY <1>2, <2>2, <2>3 DEF BeforeIteration, TypeOK
<1>3. ASSUME NEW x \in Actors, BeforeExecuteTools(x) \/ FetchMetadata(x) PROVE TypeOK'
  <2>1. pc' = [pc EXCEPT ![x] = "after"] \/ pc' = [pc EXCEPT ![x] = "metadata"]
      BY <1>3 DEF BeforeExecuteTools, FetchMetadata, Go
  <2>2. hand' = [hand EXCEPT ![x] = {0}]
      BY <1>3 DEF BeforeExecuteTools, FetchMetadata, GoesOn, NotAsked
  <2>3. {0} \in SUBSET Nat /\ "after" \in Places /\ "metadata" \in Places
      BY DEF Places
  <2>4. pc' \in [Actors -> Places] /\ hand' \in [Actors -> SUBSET Nat]
      BY <2>1, <2>2, <2>3 DEF TypeOK
  <2>5. QED
      BY <1>3, <2>4 DEF BeforeExecuteTools, FetchMetadata, TypeOK
<1>4. ASSUME NEW x \in Turns, AfterIteration(x) PROVE TypeOK'
  <2>1. recs' \in [Hooks -> Seq(Records)] /\ file' \in [Hooks -> Seq(Records)]
    <3>1. CASE AddRecord(Hook(x), Rec("llm", 0, None))
        BY <3>1, AddType, RecTypes, NoneIs, HookIn
    <3>2. CASE UNCHANGED <<recs, file>>
        BY <3>2 DEF TypeOK
    <3>3. QED
        BY <1>4, <3>1, <3>2 DEF AfterIteration
  <2>2. todo' \in [Turns -> Seq({"exec", "other"})]
    <3>1. todo' = todo \/ todo' = [todo EXCEPT ![x] = <<>>]
        BY <1>4 DEF AfterIteration
    <3>2. <<>> \in Seq({"exec", "other"})
        OBVIOUS
    <3>3. QED
        BY <3>1, <3>2 DEF TypeOK
  <2>3. pc' \in [Actors -> Places]
      BY <1>4 DEF AfterIteration, TypeOK, Go, Places
  <2>4. QED
      BY <1>4, <2>1, <2>2, <2>3 DEF AfterIteration, TypeOK
<1>5. ASSUME NEW x \in Turns, OtherResult(x) PROVE TypeOK'
    BY <1>5, ResultType, NoneIs DEF OtherResult, TypeOK
<1>6. ASSUME NEW x \in Turns, ScheduleCapture(x) PROVE TypeOK'
  <2> DEFINE h == Hook(x)
             c == [turn |-> x, full |-> last[h] = Never, result |-> None]
  <2>1. h \in Hooks /\ caps[h] \in Seq(Captures) /\ c \in Captures
      BY NoneIs, HookIn DEF TypeOK, Captures
  <2>2. caps' = [caps EXCEPT ![h] = Append(caps[h], c)]
      BY <1>6 DEF ScheduleCapture, Schedule
  <2>3. caps' \in [Hooks -> Seq(Captures)]
    <3> HIDE DEF h, c
    <3>1. QED
        BY <2>1, <2>2 DEF TypeOK
  <2>4. Len(caps[h]) + 1 \in Nat
      BY <2>1
  <2>5. todo[x] # <<>> /\ RecordResult(x, "exec", Len(caps[h]) + 1, None)
      BY <1>6 DEF ScheduleCapture, ExecResult
  <2> HIDE DEF h, c
  <2>6. QED
      BY <2>3, <2>4, <2>5, ResultType, NoneIs DEF TypeOK
<1>7. ASSUME NEW x \in Turns, SkipUnchanged(x) PROVE TypeOK'
  <2> DEFINE ckpt == [Checkpoint("skipped") EXCEPT !.marker = now, !.source = root]
  <2>1. ckpt \in Checkpoints
      BY SkipTypes
  <2>2. todo[x] # <<>> /\ RecordResult(x, "exec", 0, ckpt) /\ UNCHANGED caps
      BY <1>7 DEF SkipUnchanged, ExecResult
  <2> HIDE DEF ckpt
  <2>3. QED
      BY <2>1, <2>2, ResultType DEF TypeOK
<1>8. ASSUME NEW x \in Turns, ProbeFails(x) PROVE TypeOK'
    BY <1>8, SkipTypes, ResultType DEF ProbeFails, ExecResult, TypeOK
<1>9. ASSUME NEW h \in Hooks, CaptureScan(h) PROVE TypeOK'
  <2>1. root \in Snapshots /\ caps[h] \in Seq(Captures) /\ now \in 0 .. now
      BY RootTypes, TraceRecorderAssumption DEF TypeOK
  <2>2. PICK c \in DOMAIN caps[h] :
            scan' = [hook |-> h, capture |-> c, marker |-> now, files |-> root]
      BY <1>9 DEF CaptureScan
  <2>3. scan' \in [hook : Hooks, capture : Nat, marker : 0 .. now, files : Snapshots]
      BY <2>1, <2>2
  <2>4. QED
      BY <1>9, <2>3 DEF CaptureScan, TypeOK
<1>10. ASSUME NEW h \in Hooks, CaptureFails(h) PROVE TypeOK'
    BY <1>10, SkipTypes, CapturedType DEF CaptureFails, TypeOK
<1>11. ASSUME NEW h \in Hooks, CaptureWrites(h) PROVE TypeOK'
  <2> DEFINE full == caps[h][scan.capture].full
             changed == {p \in Paths : full \/ base[h][p] # scan.files[p]}
  <2>1. scan \in [hook : Hooks, capture : Nat, marker : 0 .. now, files : Snapshots]
        /\ full \in BOOLEAN /\ changed \in SUBSET Paths
    <3>1. scan # NoScan
        BY <1>11 DEF CaptureWrites, NoScan, Hooks
    <3>2. scan.capture \in DOMAIN caps[h] /\ caps[h] \in Seq(Captures)
        BY <1>11, <3>1 DEF CaptureWrites, ScanInv, TypeOK
    <3>3. caps[h][scan.capture] \in Captures
        BY <3>2
    <3>4. QED
        BY <3>1, <3>3 DEF TypeOK, Captures
  <2>2. /\ scan.hook = h /\ Captured(h, Manifest(full, changed))
        /\ base' = [base EXCEPT ![h] = scan.files]
      BY <1>11 DEF CaptureWrites
  <2> HIDE DEF full, changed
  <2>3. Manifest(full, changed) \in Checkpoints /\ scan.files \in [Paths -> Times]
      BY <2>1, ManifestType
  <2>4. QED
      BY <2>2, <2>3, CapturedType DEF TypeOK
<1>12. ASSUME NEW x \in Actors, AwaitCaptures(x) PROVE TypeOK'
  <2> DEFINE h == Hook(x)
  <2>1. h \in Hooks /\ Len(caps[h]) \in Nat /\ Asked(x) \subseteq 1 .. Len(caps[h])
    <3>1. h \in Hooks
        BY HookIn
    <3>2. Asked(x) \subseteq 1 .. Len(caps[h])
        BY AppliedType
    <3> HIDE DEF h
    <3>3. caps[h] \in Seq(Captures)
        BY <3>1 DEF TypeOK
    <3>4. QED
        BY <3>1, <3>2, <3>3
  <2>2. last' \in [Hooks -> Times]
    <3>1. Ready(x) \in SUBSET (1 .. Len(caps[h])) /\ Record(h, Ready(x))
        BY <1>12, <2>1, AwaitIs DEF Ready
    <3> HIDE DEF h
    <3>2. QED
        BY <2>1, <3>1, RecordType
  <2>3. recs' \in [Hooks -> Seq(Records)]
    <3>1. Applied(h, Ready(x)) \in Seq(Records)
        BY AppliedType
    <3>2. recs' = [recs EXCEPT ![h] = Applied(h, Ready(x))]
        BY <1>12, AwaitIs
    <3> HIDE DEF h
    <3>3. QED
        BY <3>1, <3>2 DEF TypeOK
  <2>4. hand' \in [Actors -> SUBSET Nat]
    <3>1. hand' = [hand EXCEPT ![x] = Asked(x) \ Ready(x)]
        BY <1>12, AwaitIs
    <3>2. Asked(x) \ Ready(x) \in SUBSET Nat
        BY <2>1
    <3>3. QED
        BY <3>1, <3>2 DEF TypeOK
  <2>5. taken' \in [Hooks -> Nat]
    <3>1. taken' = taken \/ taken' = [taken EXCEPT ![h] = Len(caps[h])]
        BY <1>12, AwaitIs
    <3> HIDE DEF h
    <3>2. QED
        BY <2>1, <3>1 DEF TypeOK
  <2>6. UNCHANGED <<disk, pc, flow, messageVars, caps, base, scan, file, closed, history>>
      BY <1>12, AwaitIs
  <2>7. QED
      BY <2>2, <2>3, <2>4, <2>5, <2>6 DEF TypeOK
<1>13. ASSUME NEW x \in {"run", "sub"}, WriteSummary(x) PROVE TypeOK'
  <2> DEFINE h == Hook(x)
  <2>1. h \in Hooks /\ x \in Actors /\ "sub" \in Hooks
      BY HookIn DEF Hooks
  <2>2. WithSummary(h) \in Seq(Records) /\ Summary \in Records
      BY <2>1, SummaryType
  <2>3. recs' = [recs EXCEPT ![h] = WithSummary(h)]
      BY <1>13 DEF WriteSummary, SummaryWritten
  <2> HIDE DEF h
  <2>4. recs' \in [Hooks -> Seq(Records)]
      BY <2>1, <2>2, <2>3 DEF TypeOK
  <2>5. file' \in [Hooks -> Seq(Records)] /\ closed' \in [Hooks -> Nat]
    <3>1. CASE Close
      <4>1. \A g \in Hooks : Len(recs'[g]) \in Nat
          BY <2>4
      <4>2. QED
          BY <2>4, <3>1, <4>1 DEF Close
    <3>2. CASE file' = [file EXCEPT !["sub"] = Append(@, Summary)] /\ UNCHANGED closed
        BY <2>1, <2>2, <3>2 DEF TypeOK
    <3>3. QED
        BY <1>13, <3>1, <3>2 DEF WriteSummary
  <2>6. QED
      BY <1>13, <2>1, <2>4, <2>5 DEF WriteSummary, SummaryWritten, TypeOK, Go, Places
<1>14. ASSUME RunFinishes PROVE TypeOK'
  <2>1. late' \subseteq MainTurns
      BY <1>14 DEF RunFinishes
  <2>2. pc' \in [Actors -> Places]
      BY <1>14 DEF RunFinishes, TypeOK, Go, Places
  <2>3. QED
      BY <1>14, <2>1, <2>2 DEF RunFinishes, TypeOK
<1>15. ASSUME SubFinishes \/ \E x \in Turns : TurnEnds(x) PROVE TypeOK'
    BY <1>15 DEF SubFinishes, TurnEnds, TypeOK, Go, Places
<1>16. ASSUME SubCancelled PROVE TypeOK'
  <2>1. hand' = [hand EXCEPT !["sub"] = {0}] /\ pc' = [pc EXCEPT !["sub"] = "ended"]
      BY <1>16 DEF SubCancelled, NotAsked, Go
  <2>2. {0} \in SUBSET Nat /\ "ended" \in Places
      BY DEF Places
  <2>3. pc' \in [Actors -> Places] /\ hand' \in [Actors -> SUBSET Nat]
      BY <2>1, <2>2 DEF TypeOK
  <2>4. QED
      BY <1>16, <2>3 DEF SubCancelled, TypeOK
<1>17. CASE UNCHANGED vars
    BY <1>17 DEF TypeOK, vars
<1>18. QED
  <2>1. Turns \subseteq Actors /\ {"run", "sub"} \subseteq Actors
      BY DEF Turns, Actors
  <2>2. CASE Next
      BY <2>1, <2>2, <1>1, <1>2, <1>3, <1>4, <1>5, <1>6, <1>7, <1>8, <1>9, <1>10, <1>11,
         <1>12, <1>13, <1>14, <1>15, <1>16, <1>17 DEF Next, Done
  <2>3. QED
      BY <1>17, <2>2
-----------------------------------------------------------------------------
(* The captures of a hook.                                                 *)

\* What tells is the same in both.
Silent(cs, others) ==
    /\ Len(cs) <= Len(others)
    /\ \A d \in 1 .. Len(others) : Tells(others[d].result) =>
         d \in 1 .. Len(cs) /\ others[d].result = cs[d].result
    /\ \A d \in 1 .. Len(cs) : Tells(cs[d].result) => others[d].result = cs[d].result

LEMMA ListsTells == \A ckpt, p : Lists(ckpt, p) => Tells(ckpt)
  BY DEF Lists, Tells, IsManifest

LEMMA NoneTells == ~ Tells(None) /\ ~ Tells(Checkpoint("error"))
  BY NoneIs DEF Tells, Kinds

LEMMA SilentListed ==
    ASSUME NEW cs \in Seq(Captures), NEW others \in Seq(Captures), Silent(cs, others),
           NEW p, NEW k, NEW time
    PROVE  /\ \A n \in 1 .. Len(cs) :
                LastListed(cs, n, p, k, time) => LastListed(others, n, p, k, time)
           /\ LastListed(cs, Len(cs), p, k, time) =>
                LastListed(others, Len(others), p, k, time)
<1>1. DOMAIN cs = 1 .. Len(cs) /\ DOMAIN others = 1 .. Len(others)
      /\ Len(cs) \in Nat /\ Len(others) \in Nat /\ Len(cs) <= Len(others)
    BY DEF Silent
<1>2. \A d \in 1 .. Len(others) : Lists(others[d].result, p) =>
            d \in 1 .. Len(cs) /\ others[d].result = cs[d].result
    BY ListsTells DEF Silent
<1>3. \A d \in 1 .. Len(cs) : Lists(cs[d].result, p) => others[d].result = cs[d].result
    BY ListsTells DEF Silent
<1>4. ASSUME NEW n \in 1 .. Len(cs), LastListed(cs, n, p, k, time)
      PROVE  LastListed(others, n, p, k, time)
    BY <1>1, <1>2, <1>3, <1>4 DEF LastListed
<1>5. ASSUME LastListed(cs, Len(cs), p, k, time)
      PROVE  LastListed(others, Len(others), p, k, time)
    BY <1>1, <1>2, <1>3, <1>5 DEF LastListed
<1>6. QED
    BY <1>4, <1>5

LEMMA SilentKeeps ==
    ASSUME NEW cs \in Seq(Captures), NEW others \in Seq(Captures), Silent(cs, others),
           Ordered(cs), Chained(cs)
    PROVE  Ordered(others) /\ Chained(others)
<1>1. DOMAIN cs = 1 .. Len(cs) /\ DOMAIN others = 1 .. Len(others)
      /\ Len(cs) \in Nat /\ Len(others) \in Nat /\ Len(cs) <= Len(others)
    BY DEF Silent
<1>2. \A d \in 1 .. Len(others) : Tells(others[d].result) =>
            d \in 1 .. Len(cs) /\ others[d].result = cs[d].result
    BY DEF Silent
<1>3. Ordered(others)
    BY <1>1, <1>2 DEF Ordered
<1>4. ASSUME NEW c \in DOMAIN others, Tells(others[c].result), NEW p \in Paths
      PROVE  /\ Lists(others[c].result, p) =>
                   others[c].result.entries[p] = others[c].result.source[p]
             /\ \E k \in DOMAIN others :
                   LastListed(others, c, p, k, others[c].result.source[p])
  <2>1. c \in 1 .. Len(cs) /\ others[c].result = cs[c].result
      BY <1>1, <1>2, <1>4
  <2>2. Lists(cs[c].result, p) => cs[c].result.entries[p] = cs[c].result.source[p]
      BY <1>1, <1>4, <2>1 DEF Chained
  <2>3. PICK k \in DOMAIN cs : LastListed(cs, c, p, k, cs[c].result.source[p])
      BY <1>1, <1>4, <2>1 DEF Chained
  <2>4. LastListed(others, c, p, k, cs[c].result.source[p])
      BY <2>1, <2>3, SilentListed
  <2>5. k \in DOMAIN others
      BY <2>4 DEF LastListed
  <2>6. QED
      BY <2>1, <2>2, <2>4, <2>5
<1>5. QED
    BY <1>3, <1>4 DEF Chained

LEMMA SilentBased ==
    ASSUME NEW cs \in Seq(Captures), NEW others \in Seq(Captures), Silent(cs, others),
           NEW b, Based(cs, b)
    PROVE  Based(others, b)
<1>1. ASSUME NEW p \in Paths, b[p] # NotIn
      PROVE  \E k \in DOMAIN others : LastListed(others, Len(others), p, k, b[p])
  <2>1. PICK k \in DOMAIN cs : LastListed(cs, Len(cs), p, k, b[p])
      BY <1>1 DEF Based
  <2>2. LastListed(others, Len(others), p, k, b[p])
      BY <2>1, SilentListed
  <2>3. QED
      BY <2>2 DEF LastListed
<1>2. QED
    BY <1>1 DEF Based

\* The first capture without a result has one now.
Finds(cs, n, others) ==
    /\ n \in 1 .. Len(cs) /\ Len(others) = Len(cs)
    /\ \A d \in 1 .. Len(cs) : d # n => others[d] = cs[d]
    /\ cs[n].result = None /\ others[n].result # None
    /\ \A d \in 1 .. n - 1 : cs[d].result # None
    /\ Queued(cs)

LEMMA FindsQueued ==
    ASSUME NEW cs \in Seq(Captures), NEW others \in Seq(Captures), NEW n,
           Finds(cs, n, others)
    PROVE  /\ Queued(others) /\ \A d \in n + 1 .. Len(cs) : others[d].result = None
           /\ ~ Tells(others[n].result) => Silent(cs, others)
<1>1. DOMAIN cs = 1 .. Len(cs) /\ DOMAIN others = 1 .. Len(cs) /\ Len(cs) \in Nat
      /\ n \in 1 .. Len(cs) /\ Len(others) = Len(cs)
    BY DEF Finds
<1>2. \A d \in n + 1 .. Len(cs) : others[d].result = None
    BY <1>1 DEF Finds, Queued
<1>3. \A d \in 1 .. n : others[d].result # None
    BY <1>1 DEF Finds
<1>4. Queued(others)
    BY <1>1, <1>2, <1>3 DEF Queued
<1>5. ASSUME ~ Tells(others[n].result) PROVE Silent(cs, others)
    BY <1>1, <1>5, NoneTells DEF Finds, Silent
<1>6. QED
    BY <1>2, <1>4, <1>5

\* A checkpoint that is made from the base: it lists what differs.
Extends(cs, b, m) ==
    /\ Tells(m)
    /\ \A c \in 1 .. Len(cs) : Tells(cs[c].result) =>
         /\ cs[c].result.marker <= m.marker
         /\ cs[c].result.marker = m.marker => cs[c].result.source = m.source
    /\ \A p \in Paths : /\ m.source[p] # NotIn
                        /\ Lists(m, p) => m.entries[p] = m.source[p]
                        /\ ~ Lists(m, p) => b[p] = m.source[p]

LEMMA FindsChained ==
    ASSUME NEW cs \in Seq(Captures), NEW others \in Seq(Captures), NEW n,
           Finds(cs, n, others), Ordered(cs), Chained(cs), NEW b, Based(cs, b),
           Extends(cs, b, others[n].result)
    PROVE  Ordered(others) /\ Chained(others) /\ Based(others, others[n].result.source)
<1> DEFINE m == others[n].result
<1>1. DOMAIN cs = 1 .. Len(cs) /\ DOMAIN others = 1 .. Len(cs) /\ Len(cs) \in Nat
      /\ n \in 1 .. Len(cs) /\ Len(others) = Len(cs)
    BY DEF Finds
<1>2. \A d \in n + 1 .. Len(cs) : ~ Tells(others[d].result) /\ ~ Tells(cs[d].result)
  <2>1. \A d \in n + 1 .. Len(cs) : others[d].result = None
      BY FindsQueued
  <2>2. \A d \in n + 1 .. Len(cs) : others[d] = cs[d]
      BY <1>1 DEF Finds
  <2>3. QED
      BY <2>1, <2>2, NoneTells
<1>3. \A d \in 1 .. n - 1 : others[d] = cs[d]
    BY <1>1 DEF Finds
<1>4. ~ Tells(cs[n].result)
    BY NoneTells DEF Finds
<1>5. Ordered(others)
  <2>1. ASSUME NEW c \in DOMAIN others, NEW d \in DOMAIN others,
               Tells(others[c].result), Tells(others[d].result), c < d
        PROVE  /\ others[c].result.marker <= others[d].result.marker
               /\ others[c].result.marker = others[d].result.marker =>
                    others[c].result.source = others[d].result.source
    <3>1. d <= n /\ c \in 1 .. n - 1 /\ others[c] = cs[c]
        BY <1>1, <1>2, <1>3, <2>1
    <3>2. CASE d = n
        BY <1>1, <2>1, <3>1, <3>2 DEF Extends
    <3>3. CASE d # n
      <4>1. others[d] = cs[d]
          BY <1>1, <1>3, <3>1, <3>3
      <4>2. QED
          BY <1>1, <2>1, <3>1, <4>1 DEF Ordered
    <3>4. QED
        BY <3>2, <3>3
  <2>2. QED
      BY <2>1 DEF Ordered
<1>6. ASSUME NEW p \in Paths
      PROVE  \E k \in 1 .. n : /\ LastListed(others, n, p, k, m.source[p])
                               /\ LastListed(others, Len(others), p, k, m.source[p])
  <2>1. \A d \in n + 1 .. Len(cs) : ~ Lists(others[d].result, p) /\ ~ Lists(cs[d].result, p)
      BY <1>2, ListsTells
  <2>2. ~ Lists(cs[n].result, p)
      BY <1>4, ListsTells
  <2>3. CASE Lists(m, p)
    <3>1. m.entries[p] = m.source[p]
        BY <2>3 DEF Extends
    <3>2. LastListed(others, n, p, n, m.source[p])
        BY <1>1, <2>3, <3>1 DEF LastListed
    <3>3. LastListed(others, Len(others), p, n, m.source[p])
        BY <1>1, <2>1, <2>3, <3>1 DEF LastListed
    <3>4. QED
        BY <1>1, <3>2, <3>3
  <2>4. CASE ~ Lists(m, p)
    <3>1. b[p] = m.source[p] /\ b[p] # NotIn
        BY <2>4 DEF Extends
    <3>2. PICK k \in DOMAIN cs : LastListed(cs, Len(cs), p, k, m.source[p])
        BY <3>1 DEF Based
    <3>3. k \in 1 .. n - 1 /\ Lists(cs[k].result, p) /\ others[k] = cs[k]
          /\ cs[k].result.entries[p] = m.source[p]
        BY <1>1, <1>3, <2>1, <2>2, <3>2 DEF LastListed
    <3>4. \A d \in 1 .. Len(cs) : Lists(others[d].result, p) => d <= k
      <4>1. ASSUME NEW d \in 1 .. Len(cs), Lists(others[d].result, p) PROVE d <= k
        <5>1. d # n
            BY <2>4, <4>1
        <5>2. others[d] = cs[d]
            BY <5>1 DEF Finds
        <5>3. QED
            BY <1>1, <3>2, <4>1, <5>2 DEF LastListed
      <4>2. QED
          BY <4>1
    <3>5. LastListed(others, n, p, k, m.source[p])
        BY <1>1, <3>3, <3>4 DEF LastListed
    <3>6. LastListed(others, Len(others), p, k, m.source[p])
        BY <1>1, <3>3, <3>4 DEF LastListed
    <3>7. QED
        BY <1>1, <3>3, <3>5, <3>6
  <2>5. QED
      BY <2>3, <2>4
<1>7. ASSUME NEW c \in DOMAIN others, Tells(others[c].result), NEW p \in Paths
      PROVE  /\ Lists(others[c].result, p) =>
                   others[c].result.entries[p] = others[c].result.source[p]
             /\ \E k \in DOMAIN others :
                   LastListed(others, c, p, k, others[c].result.source[p])
  <2>1. CASE c = n
    <3>1. Lists(m, p) => m.entries[p] = m.source[p]
        BY DEF Extends
    <3>2. QED
        BY <1>1, <1>6, <2>1, <3>1
  <2>2. CASE c # n
    <3>1. c \in 1 .. n - 1 /\ others[c] = cs[c]
        BY <1>1, <1>2, <1>3, <1>7, <2>2
    <3>2. Lists(cs[c].result, p) => cs[c].result.entries[p] = cs[c].result.source[p]
        BY <1>1, <1>7, <3>1 DEF Chained
    <3>3. PICK k \in DOMAIN cs : LastListed(cs, c, p, k, cs[c].result.source[p])
        BY <1>1, <1>7, <3>1 DEF Chained
    <3>4. \A d \in 1 .. c : others[d] = cs[d]
        BY <1>1, <1>3, <3>1
    <3>5. LastListed(others, c, p, k, cs[c].result.source[p])
        BY <1>1, <3>1, <3>3, <3>4 DEF LastListed
    <3>6. QED
        BY <1>1, <3>1, <3>2, <3>3, <3>5
  <2>3. QED
      BY <2>1, <2>2
<1>8. Chained(others)
    BY <1>7 DEF Chained
<1>9. Based(others, m.source)
    BY <1>1, <1>6 DEF Based
<1>10. QED
    BY <1>5, <1>8, <1>9

\* The steps that the captures, and the root, depend on.
LEMMA CaptureSteps ==
    [Next]_vars =>
        \/ \E p \in Paths : Change(p)
        \/ \E x \in Turns : ScheduleCapture(x)
        \/ \E h \in Hooks : CaptureScan(h) \/ CaptureFails(h) \/ CaptureWrites(h)
        \/ UNCHANGED <<root, now, caps, base, scan>>
<1> USE DEF disk, flow, messageVars, captures, trace, history
<1>1. ASSUME NEW x \in Turns, NEW calls, \/ BeforeIteration(x, calls) \/ BeforeExecuteTools(x)
                               \/ AfterIteration(x) \/ TurnEnds(x)
      PROVE  UNCHANGED <<root, now, caps, base, scan>>
    BY <1>1 DEF BeforeIteration, BeforeExecuteTools, AfterIteration, TurnEnds
<1>2. ASSUME NEW x \in Turns, OtherResult(x) \/ SkipUnchanged(x) \/ ProbeFails(x)
      PROVE  UNCHANGED <<root, now, caps, base, scan>>
    BY <1>2 DEF OtherResult, SkipUnchanged, ProbeFails, RecordResult
<1>3. ASSUME NEW x \in Actors, AwaitCaptures(x) PROVE UNCHANGED <<root, now, caps, base, scan>>
    BY <1>3 DEF AwaitCaptures
<1>4. ASSUME NEW x \in Actors, FetchMetadata(x) \/ WriteSummary(x)
      PROVE  UNCHANGED <<root, now, caps, base, scan>>
    BY <1>4 DEF FetchMetadata, WriteSummary, SummaryWritten
<1>5. ASSUME RunFinishes \/ SubFinishes \/ SubCancelled
      PROVE  UNCHANGED <<root, now, caps, base, scan>>
    BY <1>5 DEF RunFinishes, SubFinishes, SubCancelled
<1>6. ASSUME UNCHANGED vars PROVE UNCHANGED <<root, now, caps, base, scan>>
    BY <1>6 DEF vars
<1>7. {"run", "sub"} \subseteq Actors
    BY DEF Turns, Actors
<1>8. QED
    BY <1>1, <1>2, <1>3, <1>4, <1>5, <1>6, <1>7 DEF Next, Done

LEMMA ScheduleIs ==
    ASSUME TypeOK, NEW x \in Turns, ScheduleCapture(x)
    PROVE  LET c == [turn |-> x, full |-> last[Hook(x)] = Never, result |-> None]
           IN  /\ Hook(x) \in Hooks /\ c \in Captures
               /\ caps'[Hook(x)] = Append(caps[Hook(x)], c)
               /\ \A g \in Hooks \ {Hook(x)} : caps'[g] = caps[g]
               /\ RecordResult(x, "exec", Len(caps[Hook(x)]) + 1, None)
               /\ todo[x] # <<>> /\ Awaited(x)
               /\ UNCHANGED <<root, now, base, scan>>
  BY NoneIs, HookIn DEF ScheduleCapture, Schedule, ExecResult, RecordResult, TypeOK, Captures,
                        disk

LEMMA ScheduleSilent ==
    ASSUME NEW cs \in Seq(Captures), NEW c \in Captures, c.result = None
    PROVE  Silent(cs, Append(cs, c)) /\ (Queued(cs) => Queued(Append(cs, c)))
<1>1. Len(Append(cs, c)) = Len(cs) + 1 /\ Append(cs, c)[Len(cs) + 1] = c /\ Len(cs) \in Nat
      /\ \A d \in 1 .. Len(cs) : Append(cs, c)[d] = cs[d]
      /\ DOMAIN cs = 1 .. Len(cs) /\ DOMAIN Append(cs, c) = 1 .. Len(cs) + 1
    OBVIOUS
<1>2. Silent(cs, Append(cs, c))
    BY <1>1, NoneTells DEF Silent
<1>3. ASSUME Queued(cs) PROVE Queued(Append(cs, c))
    BY <1>1, <1>3 DEF Queued
<1>4. QED
    BY <1>2, <1>3

LEMMA CapturedFinds ==
    ASSUME TypeOK, ScanInv, NEW h \in Hooks, Queued(caps[h]), scan.hook = h,
           NEW ckpt \in Checkpoints, ckpt # None, Captured(h, ckpt)
    PROVE  /\ Finds(caps[h], scan.capture, caps'[h])
           /\ caps[h] \in Seq(Captures) /\ caps'[h] \in Seq(Captures)
           /\ caps'[h][scan.capture].result = ckpt
           /\ \A g \in Hooks \ {h} : caps'[g] = caps[g]
<1>1. scan # NoScan
    BY DEF NoScan, Hooks
<1>2. QED
    BY <1>1, CapturedType DEF Finds, ScanInv, TypeOK

\* What a capture that is not disturbed finds.
LEMMA Written ==
    ASSUME TypeOK, ScanInv, CapsInv, NEW h \in Hooks, CaptureWrites(h)
    PROVE  \E m \in Checkpoints :
             /\ Captured(h, m) /\ m # None /\ m.marker = now /\ m.source = root
             /\ scan.hook = h
             /\ Extends(caps[h], base[h], m)
             /\ base'[h] = root /\ \A g \in Hooks \ {h} : base'[g] = base[g]
             /\ UNCHANGED <<root, now>>
<1> DEFINE full == caps[h][scan.capture].full
           changed == {p \in Paths : full \/ base[h][p] # scan.files[p]}
           m == Manifest(full, changed)
<1>1. scan # NoScan
    BY DEF CaptureWrites, NoScan, Hooks
<1>2. scan \in [hook : Hooks, capture : Nat, marker : 0 .. now, files : Snapshots]
    BY <1>1 DEF TypeOK
<1>3. caps[h] \in Seq(Captures) /\ scan.capture \in 1 .. Len(caps[h])
  <2>1. caps[h] \in Seq(Captures) /\ scan.capture \in DOMAIN caps[h]
      BY <1>1 DEF TypeOK, ScanInv, CaptureWrites
  <2>2. QED
      BY <2>1
<1>4. full \in BOOLEAN /\ changed \in SUBSET Paths
  <2>1. caps[h][scan.capture] \in Captures
      BY <1>3
  <2>2. full \in BOOLEAN
      BY <2>1 DEF Captures
  <2>3. QED
      BY <2>2
<1>5. Captured(h, m) /\ scan.hook = h /\ now = scan.marker
      /\ base' = [base EXCEPT ![h] = scan.files]
    BY DEF CaptureWrites
<1>6. scan.files = root /\ scan.files \in Snapshots
    BY <1>1, <1>2, <1>5 DEF ScanInv
<1>7. /\ m.kind = IF full THEN "full" ELSE IF changed = {} THEN "skipped" ELSE "incremental"
      /\ m.entries = [p \in Paths |-> IF p \in changed THEN scan.files[p] ELSE NotIn]
      /\ m.marker = now /\ m.source = root
    BY <1>5, <1>6 DEF Manifest
<1>8. \A p \in Paths : p \notin changed => ~ full /\ base[h][p] = root[p]
    BY <1>4, <1>6
<1>9. m \in Checkpoints
    BY <1>2, <1>4, ManifestType
<1>10. \A p \in Paths : root[p] # NotIn
    BY <1>6, TraceRecorderAssumption DEF Snapshots, NotIn, Never
<1>11. changed # {} \/ full \/ m.kind = "skipped"
    BY <1>7
<1>12. \A p \in changed : changed # {}
    OBVIOUS
<1> HIDE DEF full, changed, m
<1>13. Tells(m) /\ m # None
  <2>1. Tells(m)
      BY <1>7 DEF Tells
  <2>2. QED
      BY <2>1, NoneTells
<1>14. ASSUME NEW p \in Paths
       PROVE  /\ Lists(m, p) => m.entries[p] = m.source[p]
              /\ ~ Lists(m, p) => base[h][p] = m.source[p]
  <2>1. CASE p \in changed
    <3>1. m.entries[p] = root[p] /\ m.kind \in {"full", "incremental"}
        BY <1>6, <1>7, <1>12, <2>1
    <3>2. QED
        BY <1>7, <1>10, <3>1 DEF Lists, IsManifest
  <2>2. CASE p \notin changed
    <3>1. m.entries[p] = NotIn /\ base[h][p] = root[p]
        BY <1>7, <1>8, <2>2
    <3>2. QED
        BY <1>7, <3>1 DEF Lists
  <2>3. QED
      BY <2>1, <2>2
<1>15. ASSUME NEW c \in 1 .. Len(caps[h]), Tells(caps[h][c].result)
       PROVE  /\ caps[h][c].result.marker <= m.marker
              /\ caps[h][c].result.marker = m.marker => caps[h][c].result.source = m.source
  <2>1. NowIs(h)
      BY DEF CapsInv
  <2>2. c \in DOMAIN caps[h]
      BY <1>3
  <2>3. QED
      BY <1>7, <1>15, <2>1, <2>2 DEF NowIs
<1>16. Extends(caps[h], base[h], m)
    BY <1>7, <1>10, <1>13, <1>14, <1>15 DEF Extends
<1>17. base'[h] = root /\ \A g \in Hooks \ {h} : base'[g] = base[g]
    BY <1>5, <1>6 DEF TypeOK
<1>18. UNCHANGED <<root, now>>
    BY <1>5 DEF Captured, disk
<1>19. QED
    BY <1>5, <1>7, <1>9, <1>13, <1>16, <1>17, <1>18

LEMMA ErrorIs == Checkpoint("error") \in Checkpoints /\ Checkpoint("error") # None
<1>1. Checkpoint("error") \in Checkpoints /\ Checkpoint("error").kind = "error"
    BY NoneIs DEF Kinds
<1>2. QED
    BY <1>1, NoneIs

LEMMA ScanStep == TypeOK /\ ScanInv /\ CapsInv /\ [Next]_vars => ScanInv'
<1> SUFFICES ASSUME TypeOK, ScanInv, CapsInv, [Next]_vars, scan' # NoScan
             PROVE  /\ scan'.capture \in DOMAIN caps'[scan'.hook]
                    /\ caps'[scan'.hook][scan'.capture].result = None
                    /\ \A d \in 1 .. scan'.capture - 1 : caps'[scan'.hook][d].result # None
                    /\ scan'.marker = now' => scan'.files = root'
    BY DEF ScanInv
<1>1. CASE \E p \in Paths : Change(p)
  <2>1. PICK p \in Paths : Change(p)
      BY <1>1
  <2>2. UNCHANGED <<caps, scan>> /\ now' = now + 1 /\ now \in Nat
      BY <2>1 DEF Change, captures, TypeOK
  <2>3. scan.marker \in 0 .. now
      BY <2>2 DEF TypeOK
  <2>4. QED
      BY <2>2, <2>3 DEF ScanInv
<1>2. ASSUME NEW x \in Turns, ScheduleCapture(x)
      PROVE  /\ scan'.capture \in DOMAIN caps'[scan'.hook]
             /\ caps'[scan'.hook][scan'.capture].result = None
             /\ \A d \in 1 .. scan'.capture - 1 : caps'[scan'.hook][d].result # None
             /\ scan'.marker = now' => scan'.files = root'
  \* No capture is under way while a coroutine runs.
  <2>1. scan = NoScan
      BY <1>2, ScheduleIs DEF RecordResult, At, Free
  <2>2. QED
      BY <1>2, <2>1, ScheduleIs
<1>3. ASSUME NEW h \in Hooks, CaptureScan(h)
      PROVE  /\ scan'.capture \in DOMAIN caps'[scan'.hook]
             /\ caps'[scan'.hook][scan'.capture].result = None
             /\ \A d \in 1 .. scan'.capture - 1 : caps'[scan'.hook][d].result # None
             /\ scan'.marker = now' => scan'.files = root'
  <2>1. PICK c \in DOMAIN caps[h] :
          /\ caps[h][c].result = None
          /\ \A d \in 1 .. c - 1 : caps[h][d].result # None
          /\ scan' = [hook |-> h, capture |-> c, marker |-> now, files |-> root]
      BY <1>3 DEF CaptureScan
  <2>2. UNCHANGED <<caps, root, now>>
      BY <1>3 DEF CaptureScan, disk
  <2>3. QED
      BY <2>1, <2>2
<1>4. ASSUME NEW h \in Hooks, CaptureFails(h) \/ CaptureWrites(h) PROVE FALSE
    BY <1>4 DEF CaptureFails, CaptureWrites, Captured
<1>5. CASE UNCHANGED <<root, now, caps, base, scan>>
    BY <1>5 DEF ScanInv
<1>6. QED
    BY <1>1, <1>2, <1>3, <1>4, <1>5, CaptureSteps

CapsAre(h) == /\ Queued(caps[h]) /\ Ordered(caps[h]) /\ Chained(caps[h])
              /\ Based(caps[h], base[h]) /\ NowIs(h)

LEMMA CapsStep == TypeOK /\ ScanInv /\ CapsInv /\ [Next]_vars => CapsInv'
<1> SUFFICES ASSUME TypeOK, ScanInv, CapsInv, [Next]_vars, NEW g \in Hooks PROVE CapsAre(g)'
    BY DEF CapsInv, CapsAre
<1>1. CapsAre(g) /\ caps[g] \in Seq(Captures) /\ now \in Nat
    BY DEF CapsInv, CapsAre, TypeOK
<1>2. DOMAIN caps[g] = 1 .. Len(caps[g])
    BY <1>1
<1>3. CASE \E p \in Paths : Change(p)
  <2>1. PICK p \in Paths : Change(p)
      BY <1>3
  <2>2. UNCHANGED <<caps, base>> /\ now' = now + 1
      BY <2>1 DEF Change, captures
  <2>3. \A c \in DOMAIN caps[g] : caps[g][c].result.marker \in Nat
    <3>1. \A c \in DOMAIN caps[g] : caps[g][c] \in Captures
        BY <1>1
    <3>2. Times \subseteq Nat
        BY TraceRecorderAssumption DEF Times, Never
    <3>3. QED
        BY <3>1, <3>2 DEF Captures, Checkpoints
  <2>4. NowIs(g)'
      BY <1>1, <2>2, <2>3 DEF CapsAre, NowIs
  <2>5. QED
      BY <1>1, <2>2, <2>4 DEF CapsAre
<1>4. ASSUME NEW x \in Turns, ScheduleCapture(x) PROVE CapsAre(g)'
  <2> DEFINE c == [turn |-> x, full |-> last[Hook(x)] = Never, result |-> None]
  <2>1. UNCHANGED <<root, now, base>> /\ c \in Captures /\ c.result = None
      BY <1>4, ScheduleIs
  <2>2. caps'[g] = caps[g] \/ caps'[g] = Append(caps[g], c)
      BY <1>4, ScheduleIs
  <2> HIDE DEF c
  <2>3. CASE caps'[g] = caps[g]
      BY <1>1, <2>1, <2>3 DEF CapsAre, NowIs
  <2>4. CASE caps'[g] = Append(caps[g], c)
    <3>1. caps'[g] \in Seq(Captures) /\ Silent(caps[g], caps'[g]) /\ Queued(caps'[g])
        BY <1>1, <2>1, <2>4, ScheduleSilent DEF CapsAre
    <3>2. Ordered(caps'[g]) /\ Chained(caps'[g])
        BY <1>1, <3>1, SilentKeeps DEF CapsAre
    <3>3. Based(caps'[g], base[g])
        BY <1>1, <3>1, SilentBased DEF CapsAre
    <3>4. NowIs(g)'
      <4>1. DOMAIN caps'[g] = 1 .. Len(caps'[g])
          BY <3>1
      <4>2. \A d \in DOMAIN caps'[g] : Tells(caps'[g][d].result) =>
                d \in DOMAIN caps[g] /\ caps'[g][d].result = caps[g][d].result
          BY <1>2, <3>1, <4>1 DEF Silent
      <4>3. QED
          BY <1>1, <2>1, <4>2 DEF NowIs, CapsAre
    <3>5. QED
        BY <2>1, <3>1, <3>2, <3>3, <3>4 DEF CapsAre
  <2>5. QED
      BY <2>2, <2>3, <2>4
<1>5. ASSUME NEW h \in Hooks, CaptureFails(h) PROVE CapsAre(g)'
  <2>1. scan.hook = h /\ Captured(h, Checkpoint("error")) /\ UNCHANGED base
      BY <1>5 DEF CaptureFails
  <2>2. UNCHANGED <<root, now>>
      BY <2>1 DEF Captured, disk
  <2>3. Queued(caps[h])
      BY DEF CapsInv
  <2>4. /\ Finds(caps[h], scan.capture, caps'[h]) /\ caps'[h] \in Seq(Captures)
        /\ caps'[h][scan.capture].result = Checkpoint("error")
        /\ \A i \in Hooks \ {h} : caps'[i] = caps[i]
      BY <2>1, <2>3, ErrorIs, CapturedFinds
  <2>5. CASE g # h
      BY <1>1, <2>1, <2>2, <2>4, <2>5 DEF CapsAre, NowIs
  <2>6. CASE g = h
    <3>1. Silent(caps[g], caps'[g]) /\ Queued(caps'[g])
        BY <1>1, <2>4, <2>6, NoneTells, FindsQueued
    <3>2. Ordered(caps'[g]) /\ Chained(caps'[g])
        BY <1>1, <2>4, <2>6, <3>1, SilentKeeps DEF CapsAre
    <3>3. Based(caps'[g], base[g])
        BY <1>1, <2>4, <2>6, <3>1, SilentBased DEF CapsAre
    <3>4. NowIs(g)'
      <4>1. DOMAIN caps'[g] = 1 .. Len(caps'[g])
          BY <2>4, <2>6
      <4>2. \A d \in DOMAIN caps'[g] : Tells(caps'[g][d].result) =>
                d \in DOMAIN caps[g] /\ caps'[g][d].result = caps[g][d].result
          BY <1>2, <3>1, <4>1 DEF Silent
      <4>3. QED
          BY <1>1, <2>1, <2>2, <4>2 DEF NowIs, CapsAre
    <3>5. QED
        BY <2>1, <3>1, <3>2, <3>3, <3>4 DEF CapsAre
  <2>7. QED
      BY <2>5, <2>6
<1>6. ASSUME NEW h \in Hooks, CaptureWrites(h) PROVE CapsAre(g)'
  <2>1. PICK m \in Checkpoints :
             /\ Captured(h, m) /\ m # None /\ m.marker = now /\ m.source = root
             /\ scan.hook = h
             /\ Extends(caps[h], base[h], m)
             /\ base'[h] = root /\ \A i \in Hooks \ {h} : base'[i] = base[i]
             /\ UNCHANGED <<root, now>>
      BY <1>6, Written
  <2>2. Queued(caps[h]) /\ Ordered(caps[h]) /\ Chained(caps[h]) /\ Based(caps[h], base[h])
      BY DEF CapsInv
  <2>3. /\ Finds(caps[h], scan.capture, caps'[h]) /\ caps'[h] \in Seq(Captures)
        /\ caps[h] \in Seq(Captures)
        /\ caps'[h][scan.capture].result = m
        /\ \A i \in Hooks \ {h} : caps'[i] = caps[i]
      BY <2>1, <2>2, CapturedFinds
  <2>4. CASE g # h
      BY <1>1, <2>1, <2>3, <2>4 DEF CapsAre, NowIs
  <2>5. CASE g = h
    <3>1. Queued(caps'[g])
        BY <2>3, <2>5, FindsQueued
    <3>2. Ordered(caps'[g]) /\ Chained(caps'[g]) /\ Based(caps'[g], base'[g])
        BY <2>1, <2>2, <2>3, <2>5, FindsChained
    <3>3. NowIs(g)'
      <4>1. DOMAIN caps'[g] = DOMAIN caps[g] /\ DOMAIN caps[g] = 1 .. Len(caps[g])
          BY <2>3, <2>5 DEF Finds
      <4>2. \A d \in DOMAIN caps[g] : d # scan.capture => caps'[g][d] = caps[g][d]
          BY <2>3, <2>5, <4>1 DEF Finds
      <4>3. \A d \in DOMAIN caps[g] : Tells(caps[g][d].result) =>
                /\ caps[g][d].result.marker <= now
                /\ caps[g][d].result.marker = now => caps[g][d].result.source = root
          BY <1>1 DEF CapsAre, NowIs
      <4>4. QED
          BY <1>1, <2>1, <2>3, <2>5, <4>1, <4>2, <4>3 DEF NowIs
    <3>4. QED
        BY <3>1, <3>2, <3>3 DEF CapsAre
  <2>6. QED
      BY <2>4, <2>5
<1>7. ASSUME NEW h \in Hooks, CaptureScan(h) PROVE CapsAre(g)'
  <2>1. UNCHANGED <<root, now, caps, base>>
      BY <1>7 DEF CaptureScan, disk
  <2>2. QED
      BY <1>1, <2>1 DEF CapsAre, NowIs
<1>8. CASE UNCHANGED <<root, now, caps, base, scan>>
    BY <1>1, <1>8 DEF CapsAre, NowIs
<1>9. QED
    BY <1>3, <1>4, <1>5, <1>6, <1>7, <1>8, CaptureSteps
-----------------------------------------------------------------------------
(* The records of a hook, and what the lines of the file restore.          *)

LEMMA RecordDomains ==
    ASSUME NEW lines \in Seq(Records)
    PROVE  /\ DOMAIN lines = 1 .. Len(lines) /\ Len(lines) \in Nat
           /\ \A i \in 1 .. Len(lines) : lines[i] \in Records /\ lines[i].capture \in Nat
<1>1. \A i \in 1 .. Len(lines) : lines[i] \in Records
    OBVIOUS
<1>2. QED
    BY <1>1 DEF Records

LEMMA UpdatedKeeps ==
    ASSUME NEW lines \in Seq(Records), NEW others \in Seq(Records),
           NEW cs \in Seq(Captures), Updated(lines, cs, others),
           NumberedBy(lines, cs), Told(lines, cs)
    PROVE  NumberedBy(others, cs) /\ Told(others, cs)
<1>1. /\ DOMAIN lines = 1 .. Len(lines) /\ DOMAIN others = 1 .. Len(lines)
      /\ Len(lines) \in Nat /\ DOMAIN cs = 1 .. Len(cs) /\ Len(others) = Len(lines)
    BY RecordDomains DEF Updated
<1>2. \A i \in 1 .. Len(lines) :
        others[i].kind = lines[i].kind /\ others[i].capture = lines[i].capture
    BY DEF Updated
<1>3. NumberedBy(others, cs)
    BY <1>1, <1>2 DEF NumberedBy
<1>4. ASSUME NEW i \in DOMAIN others, others[i].capture = 0 PROVE Alone(others, cs, i)
  <2>1. others[i].checkpoint = lines[i].checkpoint /\ lines[i].capture = 0
      BY <1>1, <1>2, <1>4 DEF Updated
  <2>2. Alone(lines, cs, i)
      BY <1>1, <1>4, <2>1 DEF Told
  <2>3. \A j \in 1 .. i - 1 : others[j].capture = lines[j].capture
      BY <1>1, <1>2, <1>4
  <2>4. QED
      BY <1>1, <1>2, <1>4, <2>1, <2>2, <2>3 DEF Alone
<1>5. ASSUME NEW i \in DOMAIN others, others[i].capture # 0
      PROVE  /\ others[i].kind = "exec"
             /\ others[i].checkpoint \in {None, cs[others[i].capture].result}
    BY <1>1, <1>2, <1>5 DEF Told, Updated
<1>6. QED
    BY <1>3, <1>4, <1>5 DEF Told

\* A record that is not of a new capture.
AloneKeeps(lines, cs, r) ==
    /\ r.capture = 0
    /\ Alone(Append(lines, r), cs, Len(lines) + 1)

LEMMA AppendDomains ==
    ASSUME NEW lines \in Seq(Records), NEW r \in Records
    PROVE  /\ Append(lines, r) \in Seq(Records)
           /\ DOMAIN Append(lines, r) = 1 .. Len(lines) + 1
           /\ Len(Append(lines, r)) = Len(lines) + 1
           /\ Append(lines, r)[Len(lines) + 1] = r
           /\ \A i \in 1 .. Len(lines) : Append(lines, r)[i] = lines[i]
  OBVIOUS

LEMMA AloneSame ==
    ASSUME NEW lines \in Seq(Records), NEW others \in Seq(Records), NEW cs, NEW ds,
           NEW i \in 1 .. Len(lines), \A j \in 1 .. i : others[j] = lines[j],
           Alone(lines, cs, i),
           \A j \in 1 .. i : lines[j].capture > 0 /\ Tells(cs[lines[j].capture].result) =>
                ds[lines[j].capture].result = cs[lines[j].capture].result
    PROVE  Alone(others, ds, i)
<1>1. others[i] = lines[i] /\ \A j \in 1 .. i - 1 : others[j] = lines[j]
    BY RecordDomains
<1>2. ASSUME NEW j \in 1 .. i - 1, lines[j].capture > 0, Tells(cs[lines[j].capture].result)
      PROVE  ds[others[j].capture].result = cs[lines[j].capture].result
             /\ others[j].capture > 0
    BY <1>1, <1>2, RecordDomains
<1>3. QED
    BY <1>1, <1>2 DEF Alone

LEMMA AloneAdded ==
    ASSUME NEW lines \in Seq(Records), NEW r \in Records, NEW cs \in Seq(Captures),
           AloneKeeps(lines, cs, r), NumberedBy(lines, cs), Told(lines, cs)
    PROVE  NumberedBy(Append(lines, r), cs) /\ Told(Append(lines, r), cs)
<1> DEFINE others == Append(lines, r)
<1>1. /\ others \in Seq(Records) /\ DOMAIN others = 1 .. Len(lines) + 1
      /\ others[Len(lines) + 1] = r /\ \A i \in 1 .. Len(lines) : others[i] = lines[i]
      /\ DOMAIN lines = 1 .. Len(lines) /\ Len(lines) \in Nat
      /\ DOMAIN cs = 1 .. Len(cs) /\ Len(cs) \in Nat
    BY AppendDomains, RecordDomains
<1>2. r.capture = 0 /\ Alone(others, cs, Len(lines) + 1)
    BY DEF AloneKeeps
<1> HIDE DEF others
<1>3. NumberedBy(others, cs)
  <2>1. \A i \in DOMAIN others : others[i].capture \in 0 .. Len(cs)
      BY <1>1, <1>2 DEF NumberedBy
  <2>2. \A i, j \in DOMAIN others : i < j /\ others[j].capture > 0 =>
             others[i].capture < others[j].capture
      BY <1>1, <1>2 DEF NumberedBy
  <2>3. \A c \in DOMAIN cs : \E i \in DOMAIN others : others[i].capture = c
    <3>1. ASSUME NEW c \in DOMAIN cs PROVE \E i \in DOMAIN others : others[i].capture = c
      <4>1. PICK i \in DOMAIN lines : lines[i].capture = c
          BY DEF NumberedBy
      <4>2. QED
          BY <1>1, <4>1
    <3>2. QED
        BY <3>1
  <2>4. QED
      BY <2>1, <2>2, <2>3 DEF NumberedBy
<1>4. ASSUME NEW i \in DOMAIN others
      PROVE  IF others[i].capture = 0 THEN Alone(others, cs, i)
             ELSE /\ others[i].kind = "exec"
                  /\ others[i].checkpoint \in {None, cs[others[i].capture].result}
  <2>1. CASE i = Len(lines) + 1
      BY <1>1, <1>2, <2>1
  <2>2. CASE i # Len(lines) + 1
    <3>1. i \in 1 .. Len(lines) /\ others[i] = lines[i]
        BY <1>1, <2>2
    <3>2. CASE lines[i].capture = 0
      <4>1. Alone(lines, cs, i)
          BY <1>1, <3>1, <3>2 DEF Told
      <4>2. \A j \in 1 .. i : others[j] = lines[j]
          BY <1>1, <3>1
      <4>3. Alone(others, cs, i)
          BY <1>1, <3>1, <4>1, <4>2, AloneSame
      <4>4. QED
          BY <3>1, <3>2, <4>3
    <3>3. CASE lines[i].capture # 0
        BY <1>1, <3>1, <3>3 DEF Told
    <3>4. QED
        BY <3>2, <3>3
  <2>3. QED
      BY <2>1, <2>2
<1>5. QED
    BY <1>3, <1>4 DEF Told, others

LEMMA CaptureAdded ==
    ASSUME NEW lines \in Seq(Records), NEW r \in Records, NEW cs \in Seq(Captures),
           NEW c \in Captures, c.result = None,
           r.kind = "exec", r.checkpoint = None, r.capture = Len(cs) + 1,
           NumberedBy(lines, cs), Told(lines, cs)
    PROVE  NumberedBy(Append(lines, r), Append(cs, c)) /\ Told(Append(lines, r), Append(cs, c))
<1> DEFINE others == Append(lines, r)
           ds == Append(cs, c)
<1>1. /\ others \in Seq(Records) /\ DOMAIN others = 1 .. Len(lines) + 1
      /\ others[Len(lines) + 1] = r /\ \A i \in 1 .. Len(lines) : others[i] = lines[i]
      /\ DOMAIN lines = 1 .. Len(lines) /\ Len(lines) \in Nat
    BY AppendDomains, RecordDomains
<1>2. /\ DOMAIN cs = 1 .. Len(cs) /\ Len(cs) \in Nat /\ DOMAIN ds = 1 .. Len(cs) + 1
      /\ Len(ds) = Len(cs) + 1 /\ \A d \in 1 .. Len(cs) : ds[d] = cs[d]
    OBVIOUS
<1> HIDE DEF others, ds
<1>3. NumberedBy(others, ds)
  <2>1. \A i \in DOMAIN lines : lines[i].capture \in 0 .. Len(cs)
      BY DEF NumberedBy
  <2>2. \A i \in DOMAIN others : others[i].capture \in 0 .. Len(ds)
      BY <1>1, <1>2, <2>1
  <2>3. \A i, j \in DOMAIN others : i < j /\ others[j].capture > 0 =>
             others[i].capture < others[j].capture
      BY <1>1, <1>2, <2>1 DEF NumberedBy
  <2>4. ASSUME NEW d \in DOMAIN ds PROVE \E i \in DOMAIN others : others[i].capture = d
    <3>1. CASE d = Len(cs) + 1
        BY <1>1, <3>1
    <3>2. CASE d \in DOMAIN cs
      <4>1. PICK i \in DOMAIN lines : lines[i].capture = d
          BY <3>2 DEF NumberedBy
      <4>2. QED
          BY <1>1, <4>1
    <3>3. QED
        BY <1>2, <3>1, <3>2
  <2>5. QED
      BY <2>2, <2>3, <2>4 DEF NumberedBy
<1>4. ASSUME NEW i \in DOMAIN others
      PROVE  IF others[i].capture = 0 THEN Alone(others, ds, i)
             ELSE /\ others[i].kind = "exec"
                  /\ others[i].checkpoint \in {None, ds[others[i].capture].result}
  <2>1. CASE i = Len(lines) + 1
      BY <1>1, <1>2, <2>1
  <2>2. CASE i # Len(lines) + 1
    <3>1. i \in 1 .. Len(lines) /\ others[i] = lines[i]
        BY <1>1, <2>2
    <3>2. \A j \in 1 .. Len(lines) : lines[j].capture > 0 =>
              ds[lines[j].capture] = cs[lines[j].capture]
        BY <1>1, <1>2 DEF NumberedBy
    <3>3. CASE lines[i].capture = 0
      <4>1. Alone(lines, cs, i)
          BY <1>1, <3>1, <3>3 DEF Told
      <4>2. \A j \in 1 .. i : others[j] = lines[j] /\ j \in 1 .. Len(lines)
          BY <1>1, <3>1
      <4>3. Alone(others, ds, i)
          BY <1>1, <3>1, <3>2, <4>1, <4>2, AloneSame
      <4>4. QED
          BY <3>1, <3>3, <4>3
    <3>4. CASE lines[i].capture # 0
      <4>1. lines[i].capture > 0
          BY <3>1, <3>4, RecordDomains
      <4>2. QED
          BY <1>1, <3>1, <3>2, <3>4, <4>1 DEF Told
    <3>5. QED
        BY <3>3, <3>4
  <2>3. QED
      BY <2>1, <2>2
<1>5. QED
    BY <1>3, <1>4 DEF Told, others, ds

LEMMA FindsKeeps ==
    ASSUME NEW lines \in Seq(Records), NEW cs \in Seq(Captures), NEW ds \in Seq(Captures),
           NEW n, Finds(cs, n, ds), NumberedBy(lines, cs), Told(lines, cs)
    PROVE  NumberedBy(lines, ds) /\ Told(lines, ds)
<1>1. /\ DOMAIN lines = 1 .. Len(lines) /\ Len(lines) \in Nat
      /\ DOMAIN cs = 1 .. Len(cs) /\ DOMAIN ds = 1 .. Len(cs) /\ Len(ds) = Len(cs)
      /\ \A d \in 1 .. Len(cs) : d # n => ds[d] = cs[d]
      /\ cs[n].result = None
    BY RecordDomains DEF Finds
<1>2. NumberedBy(lines, ds)
    BY <1>1 DEF NumberedBy
<1>3. ASSUME NEW i \in DOMAIN lines
      PROVE  IF lines[i].capture = 0 THEN Alone(lines, ds, i)
             ELSE /\ lines[i].kind = "exec"
                  /\ lines[i].checkpoint \in {None, ds[lines[i].capture].result}
  <2>1. CASE lines[i].capture = 0
    <3>1. Alone(lines, cs, i)
        BY <2>1 DEF Told
    <3>2. ASSUME NEW j \in 1 .. i, lines[j].capture > 0, Tells(cs[lines[j].capture].result)
          PROVE  ds[lines[j].capture].result = cs[lines[j].capture].result
      <4>1. lines[j].capture \in 1 .. Len(cs) /\ lines[j].capture # n
          BY <1>1, <3>2, NoneTells DEF NumberedBy
      <4>2. QED
          BY <1>1, <4>1
    <3>3. i \in 1 .. Len(lines)
        BY <1>1
    <3>4. Alone(lines, ds, i)
        BY <3>1, <3>2, <3>3, AloneSame
    <3>5. QED
        BY <2>1, <3>4
  <2>2. CASE lines[i].capture # 0
    <3>1. lines[i].capture \in 1 .. Len(cs)
        BY <1>1, <2>2 DEF NumberedBy
    <3>2. lines[i].kind = "exec" /\ lines[i].checkpoint \in {None, cs[lines[i].capture].result}
        BY <2>2 DEF Told
    <3>3. CASE lines[i].capture = n
        BY <1>1, <2>2, <3>2, <3>3
    <3>4. CASE lines[i].capture # n
        BY <1>1, <2>2, <3>1, <3>2, <3>4
    <3>5. QED
        BY <3>3, <3>4
  <2>3. QED
      BY <2>1, <2>2
<1>4. QED
    BY <1>2, <1>3 DEF Told

LEMMA MarkerIs ==
    ASSUME NEW cs \in Seq(Captures), NEW c \in DOMAIN cs
    PROVE  cs[c].result.marker \in Nat
<1>1. Times \subseteq Nat
    BY TraceRecorderAssumption DEF Times, Never
<1>2. cs[c] \in Captures
    OBVIOUS
<1>3. cs[c].result \in Checkpoints
    BY <1>2 DEF Captures
<1>4. cs[c].result.marker \in Times
    BY <1>3 DEF Checkpoints
<1>5. QED
    BY <1>1, <1>4

\* What a checkpoint of the file tells is what the manifests before it restore.
LEMMA LineRestores ==
    ASSUME NEW f \in Seq(Records), NEW lines \in Seq(Records), NEW cs \in Seq(Captures),
           Lagging(f, lines), NumberedBy(lines, cs), Told(lines, cs),
           Ordered(cs), Chained(cs),
           NEW i \in Telling(f), NothingMissing(f, i)
    PROVE  Restores(f, i)
<1>0. /\ DOMAIN lines = 1 .. Len(lines) /\ Len(lines) \in Nat
      /\ DOMAIN f = 1 .. Len(f) /\ DOMAIN cs = 1 .. Len(cs) /\ Len(f) = Len(lines)
    BY RecordDomains DEF Lagging
<1>1. /\ DOMAIN lines = 1 .. Len(lines) /\ DOMAIN f = 1 .. Len(lines) /\ Len(lines) \in Nat
      /\ DOMAIN cs = 1 .. Len(cs) /\ i \in 1 .. Len(lines) /\ Tells(f[i].checkpoint)
      /\ \A j \in 1 .. Len(lines) :
           /\ f[j].kind = lines[j].kind /\ f[j].capture = lines[j].capture
           /\ f[j].checkpoint \in {None, lines[j].checkpoint}
      /\ \A j \in 1 .. Len(lines) : lines[j].capture \in 0 .. Len(cs)
  <2>1. i \in 1 .. Len(lines) /\ Tells(f[i].checkpoint)
      BY <1>0 DEF Telling, Tells
  <2>2. \A j \in 1 .. Len(lines) :
           /\ f[j].kind = lines[j].kind /\ f[j].capture = lines[j].capture
           /\ f[j].checkpoint \in {None, lines[j].checkpoint}
      BY <1>0 DEF Lagging, Lags
  <2>3. \A j \in 1 .. Len(lines) : lines[j].capture \in 0 .. Len(cs)
      BY <1>0 DEF NumberedBy
  <2>4. QED
      BY <1>0, <2>1, <2>2, <2>3
<1>2. ASSUME NEW j \in 1 .. i, lines[j].capture = 0
      PROVE  f[j].checkpoint = lines[j].checkpoint /\ Alone(lines, cs, j)
  <2>1. j \in 1 .. Len(lines)
      BY <1>1
  <2>2. Alone(lines, cs, j)
      BY <1>1, <1>2, <2>1 DEF Told
  <2>3. QED
      BY <1>1, <2>1, <2>2 DEF NothingMissing, Alone
<1>3. ASSUME NEW j \in 1 .. i, lines[j].capture > 0
      PROVE  f[j].checkpoint = cs[lines[j].capture].result /\ lines[j].capture \in 1 .. Len(cs)
  <2>1. j \in 1 .. Len(lines) /\ lines[j].capture # 0 /\ lines[j].capture \in 1 .. Len(cs)
      BY <1>1, <1>3
  <2>2. lines[j].kind = "exec" /\ lines[j].checkpoint \in {None, cs[lines[j].capture].result}
      BY <1>1, <2>1 DEF Told
  <2>3. f[j].checkpoint # None
      BY <1>1, <2>1, <2>2 DEF NothingMissing
  <2>4. QED
      BY <1>1, <2>1, <2>2, <2>3
<1>4. ASSUME NEW j \in 1 .. i, IsManifest(f[j].checkpoint) PROVE lines[j].capture > 0
  <2>1. j \in 1 .. Len(lines)
      BY <1>1
  <2>2. CASE lines[j].capture = 0
      BY <1>2, <1>4, <2>2 DEF Alone, IsManifest
  <2>3. QED
      BY <1>1, <2>1, <2>2
<1>5. \E j \in 1 .. i : /\ lines[j].capture > 0
                        /\ Tells(cs[lines[j].capture].result)
                        /\ cs[lines[j].capture].result.marker = f[i].checkpoint.marker
                        /\ cs[lines[j].capture].result.source = f[i].checkpoint.source
  <2>1. CASE lines[i].capture = 0
    <3>1. f[i].checkpoint = lines[i].checkpoint /\ Alone(lines, cs, i)
        BY <1>1, <1>2, <2>1
    <3>2. lines[i].checkpoint.kind = "skipped"
        BY <1>1, <3>1 DEF Alone, Tells
    <3>3. QED
        BY <1>1, <3>1, <3>2 DEF Alone
  <2>2. CASE lines[i].capture > 0
    <3>1. i \in 1 .. i
        BY <1>1
    <3>2. QED
        BY <1>1, <1>3, <2>2, <3>1
  <2>3. QED
      BY <1>1, <2>1, <2>2
<1>6. PICK u \in 1 .. i : /\ lines[u].capture > 0
                          /\ Tells(cs[lines[u].capture].result)
                          /\ cs[lines[u].capture].result.marker = f[i].checkpoint.marker
                          /\ cs[lines[u].capture].result.source = f[i].checkpoint.source
    BY <1>5
<1> DEFINE b == lines[u].capture
           m == f[i].checkpoint
<1>7. b \in DOMAIN cs /\ Tells(cs[b].result) /\ cs[b].result.marker = m.marker
      /\ cs[b].result.source = m.source /\ u \in 1 .. Len(lines)
    BY <1>1, <1>3, <1>6
<1>8. ASSUME NEW v \in 1 .. Len(lines), NEW w \in 1 .. Len(lines),
             lines[v].capture > 0, lines[v].capture <= lines[w].capture
      PROVE  v <= w
  <2>1. v \in DOMAIN lines /\ w \in DOMAIN lines /\ v \in Nat /\ w \in Nat
      BY <1>0
  <2>2. lines[v].capture \in Nat /\ lines[w].capture \in Nat
      BY <1>1, <1>8
  <2>3. w < v => lines[w].capture < lines[v].capture
      BY <1>8, <2>1 DEF NumberedBy
  <2>4. QED
      BY <1>8, <2>1, <2>2, <2>3
<1>9. ASSUME NEW p \in Paths
      PROVE  /\ Listing(f, i, p) # {}
             /\ \A j \in Listing(f, i, p) : (\A l \in Listing(f, i, p) : l <= j) =>
                   f[j].checkpoint.entries[p] = m.source[p]
  <2> HIDE DEF b
  <2>1. PICK k \in DOMAIN cs : LastListed(cs, b, p, k, m.source[p])
      BY <1>7 DEF Chained
  <2>2. /\ k <= b /\ Lists(cs[k].result, p) /\ cs[k].result.entries[p] = m.source[p]
        /\ \A d \in DOMAIN cs : d <= b /\ Lists(cs[d].result, p) => d <= k
      BY <2>1 DEF LastListed
  <2>3. PICK l \in 1 .. Len(lines) : lines[l].capture = k
      BY <1>1 DEF NumberedBy
  <2>4. l \in 1 .. i /\ k > 0
    <3>1. k > 0 /\ l <= u
        BY <1>1, <1>7, <1>8, <2>2, <2>3 DEF b
    <3>2. QED
        BY <1>1, <2>3, <3>1
  <2>5. f[l].checkpoint = cs[k].result
      BY <1>3, <2>3, <2>4
  <2>6. cs[k].result.marker <= m.marker
    <3>1. Tells(cs[k].result)
        BY <2>2, ListsTells
    <3>2. CASE k = b
      <4>1. cs[b].result.marker \in Nat
          BY <1>7, MarkerIs
      <4>2. cs[k].result.marker = m.marker /\ m.marker \in Nat
          BY <1>7, <3>2, <4>1
      <4>3. QED
          BY <4>2
    <3>3. CASE k # b
      <4>1. k < b
          BY <1>1, <1>7, <2>2, <3>3
      <4>2. cs[k].result.marker <= cs[b].result.marker
          BY <1>7, <3>1, <4>1 DEF Ordered
      <4>3. QED
          BY <1>7, <4>2
    <3>4. QED
        BY <3>2, <3>3
  <2>7. l \in Listing(f, i, p)
      BY <2>2, <2>4, <2>5, <2>6 DEF Listing, Lists
  <2>8. ASSUME NEW j \in Listing(f, i, p), \A o \in Listing(f, i, p) : o <= j
        PROVE  f[j].checkpoint.entries[p] = m.source[p]
    <3> DEFINE d == lines[j].capture
    <3>1. /\ j \in 1 .. i /\ IsManifest(f[j].checkpoint) /\ f[j].checkpoint.marker <= m.marker
          /\ f[j].checkpoint.entries[p] # NotIn /\ j \in 1 .. Len(lines)
        BY <1>1 DEF Listing
    <3>2. d > 0 /\ f[j].checkpoint = cs[d].result /\ d \in 1 .. Len(cs)
        BY <1>3, <1>4, <3>1
    <3>3. Lists(cs[d].result, p) /\ Tells(cs[d].result)
        BY <3>1, <3>2, ListsTells DEF Lists
    <3> HIDE DEF d
    <3>4. CASE d <= b
      <4>1. d <= k
          BY <1>1, <2>2, <3>2, <3>3, <3>4
      <4>2. j <= l
          BY <1>8, <2>3, <3>1, <3>2, <4>1 DEF d
      <4>3. l <= j
          BY <2>7, <2>8
      <4>4. j = l
          BY <2>3, <3>1, <4>2, <4>3
      <4>5. QED
          BY <2>2, <2>5, <4>4
    <3>5. CASE d > b
      <4>1. /\ cs[b].result.marker <= cs[d].result.marker
            /\ cs[b].result.marker = cs[d].result.marker =>
                 cs[b].result.source = cs[d].result.source
          BY <1>1, <1>7, <3>2, <3>3, <3>5 DEF Ordered
      <4>3. cs[b].result.marker \in Nat /\ cs[d].result.marker \in Nat
          BY <1>1, <1>7, <3>2, MarkerIs
      <4>4. cs[d].result.source = m.source
          BY <1>7, <3>1, <3>2, <4>1, <4>3
      <4>5. cs[d].result.entries[p] = cs[d].result.source[p]
          BY <1>1, <3>2, <3>3 DEF Chained
      <4>6. QED
          BY <3>2, <4>4, <4>5
    <3>6. QED
        BY <1>1, <1>7, <3>2, <3>4, <3>5
  <2>9. QED
      BY <2>7, <2>8
<1>10. QED
    BY <1>9 DEF Restores
-----------------------------------------------------------------------------
(* What a step does to the captures, the records and the hands.            *)

\* Captures stay, with what they found; a new one is of the turn that adds it.
CapsKept(h) ==
    /\ Len(caps[h]) <= Len(caps'[h])
    /\ \A c \in 1 .. Len(caps[h]) :
         /\ caps'[h][c].turn = caps[h][c].turn
         /\ caps[h][c].result # None => caps'[h][c].result = caps[h][c].result
    /\ \A c \in DOMAIN caps'[h] : c > Len(caps[h]) =>
         \E x \in Turns : /\ ScheduleCapture(x) /\ Hook(x) = h
                          /\ c = Len(caps[h]) + 1
                          /\ caps'[h][c].turn = x /\ caps'[h][c].result = None

LEMMA CapsKeep ==
    ASSUME TypeOK, ScanInv, CapsInv, [Next]_vars, NEW g \in Hooks
    PROVE  CapsKept(g) /\ caps[g] \in Seq(Captures) /\ DOMAIN caps[g] = 1 .. Len(caps[g])
           /\ Len(caps[g]) \in Nat
<1>1. caps[g] \in Seq(Captures) /\ DOMAIN caps[g] = 1 .. Len(caps[g]) /\ Len(caps[g]) \in Nat
    BY DEF TypeOK
<1>2. ASSUME caps'[g] = caps[g] PROVE CapsKept(g)
    BY <1>1, <1>2 DEF CapsKept
<1>3. ASSUME NEW x \in Turns, ScheduleCapture(x) PROVE CapsKept(g)
  <2> DEFINE c == [turn |-> x, full |-> last[Hook(x)] = Never, result |-> None]
  <2>1. CASE g # Hook(x)
      BY <1>2, <1>3, <2>1, ScheduleIs
  <2>2. CASE g = Hook(x)
    <3>1. caps'[g] = Append(caps[g], c) /\ c.turn = x /\ c.result = None
        BY <1>3, <2>2, ScheduleIs
    <3> HIDE DEF c
    <3>2. /\ Len(caps'[g]) = Len(caps[g]) + 1 /\ caps'[g][Len(caps[g]) + 1] = c
          /\ DOMAIN caps'[g] = 1 .. Len(caps[g]) + 1
          /\ \A d \in 1 .. Len(caps[g]) : caps'[g][d] = caps[g][d]
        BY <1>1, <3>1
    <3>3. \A d \in DOMAIN caps'[g] : d > Len(caps[g]) => d = Len(caps[g]) + 1
        BY <1>1, <3>2
    <3>4. QED
        BY <1>1, <1>3, <2>2, <3>1, <3>2, <3>3 DEF CapsKept
  <2>3. QED
      BY <2>1, <2>2
<1>4. ASSUME NEW h \in Hooks, NEW ckpt \in Checkpoints, scan.hook = h, Captured(h, ckpt)
      PROVE  CapsKept(g)
  <2>1. CASE g # h
      BY <1>2, <1>4, <2>1, CapturedType
  <2>2. CASE g = h
    <3>1. scan # NoScan
        BY <1>4 DEF NoScan, Hooks
    <3>2. caps[g][scan.capture].result = None
        BY <1>4, <2>2, <3>1 DEF ScanInv
    <3>3. /\ caps'[g] \in Seq(Captures) /\ Len(caps'[g]) = Len(caps[g])
          /\ \A c \in 1 .. Len(caps[g]) : caps'[g][c].turn = caps[g][c].turn
          /\ \A c \in 1 .. Len(caps[g]) : c # scan.capture => caps'[g][c] = caps[g][c]
        BY <1>4, <2>2, CapturedType DEF TypeOK
    <3>4. DOMAIN caps'[g] = 1 .. Len(caps[g])
        BY <3>3
    <3>5. QED
        BY <1>1, <3>2, <3>3, <3>4 DEF CapsKept
  <2>3. QED
      BY <2>1, <2>2
<1>5. ASSUME NEW h \in Hooks, CaptureFails(h) PROVE CapsKept(g)
    BY <1>4, <1>5, ErrorIs DEF CaptureFails
<1>6. ASSUME NEW h \in Hooks, CaptureWrites(h) PROVE CapsKept(g)
    BY <1>4, <1>6, Written
<1>7. ASSUME NEW p \in Paths, Change(p) PROVE CapsKept(g)
    BY <1>2, <1>7 DEF Change, captures
<1>8. ASSUME NEW h \in Hooks, CaptureScan(h) PROVE CapsKept(g)
    BY <1>2, <1>8 DEF CaptureScan
<1>9. QED
    BY <1>1, <1>2, <1>3, <1>5, <1>6, <1>7, <1>8, CaptureSteps

\* A record is added and the turn goes on; it is that of a new capture or of none.
Adds(x, r) ==
    /\ AddRecord(Hook(x), r) /\ r.kind \in {"llm", "tool", "exec"}
    /\ pc[x] \in {"after", "results"} /\ Free(x)
    /\ \E where \in {"idle", "results"} : Go(x, where)
    /\ hand[x] \in {NotAsked, {}} /\ hand' = [hand EXCEPT ![x] = NotAsked]
    /\ UNCHANGED <<taken, last, closed, late>>
    /\ \/ UNCHANGED caps /\ AloneKeeps(recs[Hook(x)], caps[Hook(x)], r)
       \/ ScheduleCapture(x) /\ r = Rec("exec", Len(caps[Hook(x)]) + 1, None)

\* A coroutine that does not wait for captures has none in its hand.
LEMMA IdleHand ==
    ASSUME TypeOK, HandInv, NEW x \in Actors, pc[x] \notin {"before", "summary", "results"}
    PROVE  hand[x] = NotAsked /\ hand = [hand EXCEPT ![x] = NotAsked]
<1>1. ~ Awaits(x)
    BY DEF Awaits
<1>2. hand[x] = NotAsked
    BY <1>1 DEF HandInv
<1>3. hand \in [Actors -> SUBSET Nat]
    BY DEF TypeOK
<1>4. QED
    BY <1>2, <1>3

LEMMA AloneIs ==
    ASSUME NEW lines \in Seq(Records), NEW cs, NEW r \in Records, r.capture = 0,
           r.checkpoint.kind \in {"none", "error", "skipped"},
           r.kind # "exec" => r.checkpoint = None,
           r.kind = "exec" => r.checkpoint # None,
           r.checkpoint.kind = "skipped" =>
             \E j \in 1 .. Len(lines) :
                /\ lines[j].capture > 0
                /\ Tells(cs[lines[j].capture].result)
                /\ cs[lines[j].capture].result.marker = r.checkpoint.marker
                /\ cs[lines[j].capture].result.source = r.checkpoint.source
    PROVE  AloneKeeps(lines, cs, r)
<1> DEFINE others == Append(lines, r)
           n == Len(lines) + 1
<1>1. /\ others[n] = r /\ \A j \in 1 .. n - 1 : others[j] = lines[j]
      /\ n - 1 = Len(lines)
    BY AppendDomains, RecordDomains
<1> HIDE DEF others, n
<1>2. Alone(others, cs, n)
    BY <1>1 DEF Alone
<1>3. QED
    BY <1>2 DEF AloneKeeps, others, n

LEMMA ResultAdds ==
    ASSUME TypeOK, HandInv, NEW x \in Turns, NEW kind \in {"tool", "exec"}, NEW c \in Nat,
           NEW ckpt \in Checkpoints, RecordResult(x, kind, c, ckpt),
           hand[x] \in {NotAsked, {}},
           \/ UNCHANGED caps /\ AloneKeeps(recs[Hook(x)], caps[Hook(x)], Rec(kind, c, ckpt))
           \/ /\ ScheduleCapture(x)
              /\ Rec(kind, c, ckpt) = Rec("exec", Len(caps[Hook(x)]) + 1, None)
    PROVE  Rec(kind, c, ckpt) \in Records /\ Adds(x, Rec(kind, c, ckpt))
<1>1. Rec(kind, c, ckpt) \in Records /\ Rec(kind, c, ckpt).kind = kind
    BY RecTypes DEF Rec
<1>2. QED
    BY <1>1 DEF Adds, RecordResult, At, GoesOn

LEMMA AwaitedHand == \A x \in Actors : Awaited(x) => hand[x] \in {NotAsked, {}}
  BY DEF Awaited

LEMMA SkipAlone ==
    ASSUME TypeOK, CapsInv, RecsInv, LastInv, NEW h \in Hooks,
           last[h] # Never, ~ (now > last[h]),
           NEW ckpt \in Checkpoints, ckpt.kind = "skipped", ckpt.marker = now,
           ckpt.source = root
    PROVE  AloneKeeps(recs[h], caps[h], Rec("exec", 0, ckpt))
<1>1. /\ recs[h] \in Seq(Records) /\ caps[h] \in Seq(Captures) /\ now \in Nat
      /\ last[h] \in Nat
    BY TraceRecorderAssumption DEF TypeOK, Times, Never
<1>2. PICK j \in DOMAIN recs[h] :
            /\ recs[h][j].capture > 0
            /\ Tells(caps[h][recs[h][j].capture].result)
            /\ caps[h][recs[h][j].capture].result.marker = last[h]
    BY DEF LastInv
<1> DEFINE c == recs[h][j].capture
<1>3. c \in DOMAIN caps[h]
  <2>1. c \in 0 .. Len(caps[h]) /\ c > 0
      BY <1>2 DEF RecsInv, NumberedBy
  <2>2. QED
      BY <1>1, <2>1
<1>4. caps[h][c].result.marker = now /\ caps[h][c].result.source = root
    BY <1>1, <1>2, <1>3 DEF CapsInv, NowIs
<1>5. j \in 1 .. Len(recs[h])
    BY <1>1, <1>2
<1>6. /\ Rec("exec", 0, ckpt) \in Records /\ Rec("exec", 0, ckpt).capture = 0
      /\ Rec("exec", 0, ckpt).checkpoint = ckpt /\ Rec("exec", 0, ckpt).kind = "exec"
    BY RecTypes DEF Rec
<1>7. ckpt # None
    BY NoneIs
<1>8. QED
    BY <1>1, <1>2, <1>4, <1>5, <1>6, <1>7, AloneIs

LEMMA AddsIs ==
    ASSUME TypeOK, CapsInv, RecsInv, LastInv, HandInv, NEW x \in Turns,
           \/ AfterIteration(x) /\ recs' # recs
           \/ OtherResult(x) \/ ScheduleCapture(x) \/ SkipUnchanged(x) \/ ProbeFails(x)
    PROVE  \E r \in Records : Adds(x, r)
<1> DEFINE h == Hook(x)
<1>0. x \in Actors /\ h \in Hooks /\ recs[h] \in Seq(Records) /\ caps[h] \in Seq(Captures)
    BY HookIn DEF TypeOK
<1>1. CASE AfterIteration(x) /\ recs' # recs
  <2> DEFINE r == Rec("llm", 0, None)
  <2>1. r \in Records /\ r.kind = "llm" /\ r.capture = 0 /\ r.checkpoint = None
      BY RecTypes, NoneIs DEF Rec
  <2>2. AloneKeeps(recs[h], caps[h], r)
      BY <1>0, <2>1, NoneIs, AloneIs
  <2>3. /\ AddRecord(h, r) /\ pc[x] = "after" /\ Free(x)
        /\ (Go(x, "idle") \/ Go(x, "results"))
        /\ UNCHANGED <<hand, caps, taken, last, closed, late>>
      BY <1>1 DEF AfterIteration, At, captures
  <2>4. hand[x] = NotAsked /\ hand = [hand EXCEPT ![x] = NotAsked]
      BY <1>0, <2>3, IdleHand
  <2> HIDE DEF r
  <2>5. Adds(x, r)
      BY <2>1, <2>2, <2>3, <2>4 DEF Adds
  <2>6. QED
      BY <2>1, <2>5
<1>2. CASE OtherResult(x)
  <2>1. RecordResult(x, "tool", 0, None) /\ Head(todo[x]) = "other" /\ UNCHANGED caps
        /\ pc[x] = "results"
      BY <1>2 DEF OtherResult, RecordResult, At
  <2>2. ~ Awaits(x)
      BY <2>1 DEF Awaits
  <2>3. hand[x] = NotAsked
      BY <1>0, <2>2 DEF HandInv
  <2> DEFINE r == Rec("tool", 0, None)
  <2>4. r \in Records /\ r.kind = "tool" /\ r.capture = 0 /\ r.checkpoint = None
      BY RecTypes, NoneIs DEF Rec
  <2>5. AloneKeeps(recs[h], caps[h], r)
      BY <1>0, <2>4, NoneIs, AloneIs
  <2>6. QED
      BY <2>1, <2>3, <2>5, NoneIs, ResultAdds
<1>3. CASE ScheduleCapture(x)
  <2>1. RecordResult(x, "exec", Len(caps[h]) + 1, None) /\ Awaited(x)
      BY <1>3, ScheduleIs
  <2>2. Len(caps[h]) + 1 \in Nat /\ hand[x] \in {NotAsked, {}}
      BY <1>0, <2>1, AwaitedHand
  <2>3. QED
      BY <1>3, <2>1, <2>2, NoneIs, ResultAdds
<1>4. CASE SkipUnchanged(x)
  <2> DEFINE ckpt == [Checkpoint("skipped") EXCEPT !.marker = now, !.source = root]
  <2>1. ckpt \in Checkpoints
      BY SkipTypes
  <2>2. ckpt.kind = "skipped" /\ ckpt.marker = now /\ ckpt.source = root
      BY DEF Checkpoint
  <2>3. /\ RecordResult(x, "exec", 0, ckpt) /\ Awaited(x) /\ UNCHANGED caps
        /\ last[h] # Never /\ ~ (now > last[h])
      BY <1>4 DEF SkipUnchanged, ExecResult, Changed
  <2> HIDE DEF ckpt
  <2>4. AloneKeeps(recs[h], caps[h], Rec("exec", 0, ckpt))
      BY <1>0, <2>1, <2>2, <2>3, SkipAlone
  <2>5. QED
      BY <1>0, <2>1, <2>3, <2>4, AwaitedHand, ResultAdds
<1>5. CASE ProbeFails(x)
  <2> DEFINE r == Rec("exec", 0, Checkpoint("error"))
  <2>1. /\ RecordResult(x, "exec", 0, Checkpoint("error")) /\ Awaited(x) /\ UNCHANGED caps
      BY <1>5 DEF ProbeFails, ExecResult
  <2>2. r \in Records /\ r.kind = "exec" /\ r.capture = 0 /\ r.checkpoint = Checkpoint("error")
      BY RecTypes, ErrorIs DEF Rec
  <2>3. Checkpoint("error").kind = "error"
      BY NoneIs DEF Kinds
  <2>4. AloneKeeps(recs[h], caps[h], r)
      BY <1>0, <2>2, <2>3, ErrorIs, AloneIs
  <2>5. QED
      BY <1>0, <2>1, <2>4, ErrorIs, AwaitedHand, ResultAdds
<1>6. QED
    BY <1>1, <1>2, <1>3, <1>4, <1>5

\* No records and no captures in a hand but those that a coroutine is done with.
Quiet ==
    /\ UNCHANGED <<recs, file, closed, last, taken>>
    /\ \A y \in Actors :
         \/ hand'[y] = hand[y]
         \/ /\ hand'[y] = NotAsked
            /\ hand[y] \in {NotAsked, {}} \/ (y = "sub" /\ pc'["sub"] = "ended")

LEMMA QuietIs ==
    ASSUME TypeOK, UNCHANGED <<recs, file, closed, last, taken>>,
           \/ hand' = hand
           \/ \E x \in Actors :
                /\ hand' = [hand EXCEPT ![x] = NotAsked]
                /\ hand[x] \in {NotAsked, {}} \/ (x = "sub" /\ pc'["sub"] = "ended")
    PROVE  Quiet
<1>1. hand \in [Actors -> SUBSET Nat]
    BY DEF TypeOK
<1>2. QED
    BY <1>1 DEF Quiet

LEMMA RecorderSteps ==
    ASSUME TypeOK, CapsInv, RecsInv, LastInv, HandInv, [Next]_vars
    PROVE  \/ \E x \in Turns : \E r \in Records : Adds(x, r)
           \/ \E x \in Actors : AwaitCaptures(x)
           \/ \E x \in {"run", "sub"} : WriteSummary(x)
           \/ Quiet
<1> USE DEF disk, flow, messageVars, captures, trace, history
<1>1. ASSUME NEW p \in Paths, Change(p) PROVE Quiet
    BY <1>1, QuietIs DEF Change
<1>2. ASSUME NEW x \in Turns, NEW calls, BeforeIteration(x, calls) PROVE Quiet
    BY <1>2, QuietIs DEF BeforeIteration
<1>3. ASSUME NEW x \in Actors, BeforeExecuteTools(x) \/ FetchMetadata(x) PROVE Quiet
  <2>1. /\ Awaited(x) /\ hand' = [hand EXCEPT ![x] = NotAsked]
        /\ UNCHANGED <<recs, file, closed, last, taken>>
      BY <1>3 DEF BeforeExecuteTools, FetchMetadata, GoesOn
  <2>2. QED
      BY <2>1, AwaitedHand, QuietIs
<1>4. ASSUME NEW x \in Turns, AfterIteration(x), recs' = recs PROVE Quiet
  <2>1. UNCHANGED <<closed, last, taken, hand>>
      BY <1>4 DEF AfterIteration
  <2>2. file' = file
    <3>1. CASE AddRecord(Hook(x), Rec("llm", 0, None))
      <4>1. recs[Hook(x)] \in Seq(Records) /\ Rec("llm", 0, None) \in Records
            /\ Hook(x) \in Hooks
          BY RecTypes, NoneIs, HookIn DEF TypeOK
      <4>2. recs'[Hook(x)] = Append(recs[Hook(x)], Rec("llm", 0, None))
          BY <3>1, <4>1, AddType
      <4>3. Len(recs'[Hook(x)]) = Len(recs[Hook(x)]) + 1 /\ Len(recs[Hook(x)]) \in Nat
          BY <4>1, <4>2, AppendDomains, RecordDomains
      <4>4. QED
          BY <1>4, <4>3
    <3>2. CASE UNCHANGED file
        BY <3>2
    <3>3. QED
        BY <1>4, <3>1, <3>2 DEF AfterIteration
  <2>3. QED
      BY <1>4, <2>1, <2>2, QuietIs
<1>5. ASSUME NEW x \in Turns, TurnEnds(x) PROVE Quiet
    BY <1>5, QuietIs DEF TurnEnds
<1>6. ASSUME NEW h \in Hooks, CaptureScan(h) PROVE Quiet
    BY <1>6, QuietIs DEF CaptureScan
<1>7. ASSUME NEW h \in Hooks, CaptureFails(h) \/ CaptureWrites(h) PROVE Quiet
    BY <1>7, QuietIs DEF CaptureFails, CaptureWrites, Captured
<1>8. ASSUME RunFinishes \/ SubFinishes PROVE Quiet
    BY <1>8, QuietIs DEF RunFinishes, SubFinishes
<1>9. ASSUME SubCancelled PROVE Quiet
  <2>1. pc \in [Actors -> Places] /\ "sub" \in Actors
      BY HookIn DEF TypeOK
  <2>2. pc'["sub"] = "ended" /\ hand' = [hand EXCEPT !["sub"] = NotAsked]
        /\ UNCHANGED <<recs, file, closed, last, taken>>
      BY <1>9, <2>1 DEF SubCancelled, Go
  <2>3. QED
      BY <2>1, <2>2, QuietIs
<1>10. ASSUME UNCHANGED vars PROVE Quiet
    BY <1>10, QuietIs DEF vars
<1>11. {"run", "sub"} \subseteq Actors /\ Turns \subseteq Actors
    BY DEF Turns, Actors
<1>12. CASE UNCHANGED vars
    BY <1>10, <1>12
<1>13. ASSUME NEW x \in Turns,
              \/ \E calls \in Batches[x] : BeforeIteration(x, calls)
              \/ BeforeExecuteTools(x) \/ AfterIteration(x)
              \/ OtherResult(x) \/ ScheduleCapture(x) \/ SkipUnchanged(x)
              \/ ProbeFails(x) \/ TurnEnds(x)
       PROVE  Quiet \/ \E r \in Records : Adds(x, r)
    BY <1>2, <1>3, <1>4, <1>5, <1>11, <1>13, AddsIs
<1>14. ASSUME NEW h \in Hooks, CaptureScan(h) \/ CaptureFails(h) \/ CaptureWrites(h)
       PROVE  Quiet
    BY <1>6, <1>7, <1>14
<1>15. ASSUME Next
       PROVE  \/ \E x \in Turns : \E r \in Records : Adds(x, r)
              \/ \E x \in Actors : AwaitCaptures(x)
              \/ \E x \in {"run", "sub"} : WriteSummary(x)
              \/ Quiet
    BY <1>1, <1>3, <1>8, <1>9, <1>10, <1>11, <1>13, <1>14, <1>15 DEF Next, Done
<1>16. QED
    BY <1>12, <1>15

\* A coroutine whose hand is not asked anew has not moved.
LEMMA HandMoves ==
    ASSUME TypeOK, HandInv, [Next]_vars, NEW y \in Actors
    PROVE  \/ hand'[y] = NotAsked
           \/ /\ pc'[y] = pc[y] /\ (y \in Turns => todo'[y] = todo[y])
              /\ ~ (y \in Turns /\ ScheduleCapture(y))
              /\ (hand'[y] = hand[y] /\ hand[y] # NotAsked) \/ AwaitCaptures(y)
<1> USE DEF disk, flow, messageVars, captures, trace, history
<1>0. /\ hand \in [Actors -> SUBSET Nat] /\ pc \in [Actors -> Places]
      /\ todo \in [Turns -> Seq({"exec", "other"})]
    BY DEF TypeOK
<1> DEFINE Still == /\ hand'[y] = hand[y] /\ pc'[y] = pc[y]
                    /\ (y \in Turns => todo'[y] = todo[y])
                    /\ ~ (y \in Turns /\ ScheduleCapture(y))
           Moves == hand'[y] = NotAsked
           Takes == /\ AwaitCaptures(y) /\ pc'[y] = pc[y]
                    /\ (y \in Turns => todo'[y] = todo[y])
                    /\ ~ (y \in Turns /\ ScheduleCapture(y))
<1>s. ASSUME caps' = caps, NEW x \in Turns PROVE ~ ScheduleCapture(x)
  <2>1. ASSUME ScheduleCapture(x) PROVE FALSE
    <3>1. Hook(x) \in Hooks /\ caps[Hook(x)] \in Seq(Captures)
        BY HookIn DEF TypeOK
    <3>2. PICK c \in Captures : caps'[Hook(x)] = Append(caps[Hook(x)], c)
        BY <2>1, ScheduleIs
    <3>3. Len(Append(caps[Hook(x)], c)) = Len(caps[Hook(x)]) + 1 /\ Len(caps[Hook(x)]) \in Nat
        BY <3>1, <3>2
    <3>4. QED
        BY <1>s, <3>2, <3>3
  <2>2. QED
      BY <2>1
<1>t. ASSUME UNCHANGED <<pc, todo, hand, caps>> PROVE Still
    BY <1>s, <1>t
<1>1. ASSUME NEW p \in Paths, Change(p) PROVE Still
    BY <1>1, <1>t DEF Change
<1>2. ASSUME NEW x \in Turns, NEW calls, BeforeIteration(x, calls) PROVE Still \/ Moves
  <2>1. CASE x = y
    <3>1. pc[x] = "idle" /\ UNCHANGED hand
        BY <1>2 DEF BeforeIteration, At
    <3>2. QED
        BY <2>1, <3>1, IdleHand
  <2>2. CASE x # y
    <3>1. UNCHANGED <<hand, caps>> /\ pc'[y] = pc[y] /\ (y \in Turns => todo'[y] = todo[y])
        BY <1>0, <1>2, <2>2 DEF BeforeIteration, Go
    <3>2. QED
        BY <1>s, <3>1
  <2>3. QED
      BY <2>1, <2>2
<1>3. ASSUME NEW x \in Actors, BeforeExecuteTools(x) \/ FetchMetadata(x) PROVE Still \/ Moves
  <2>1. /\ hand' = [hand EXCEPT ![x] = NotAsked] /\ UNCHANGED <<todo, caps>>
        /\ (pc' = [pc EXCEPT ![x] = "after"] \/ pc' = [pc EXCEPT ![x] = "metadata"])
      BY <1>3 DEF BeforeExecuteTools, FetchMetadata, GoesOn, Go
  <2>2. QED
      BY <1>0, <1>s, <2>1
<1>4. ASSUME NEW x \in Turns, AfterIteration(x) PROVE Still \/ Moves
  <2>1. pc[x] = "after" /\ UNCHANGED <<hand, caps>>
      BY <1>4 DEF AfterIteration, At
  <2>2. CASE x = y
      BY <2>1, <2>2, IdleHand
  <2>3. CASE x # y
    <3>1. pc'[y] = pc[y] /\ (y \in Turns => todo'[y] = todo[y])
        BY <1>0, <1>4, <2>3 DEF AfterIteration, Go
    <3>2. QED
        BY <1>s, <2>1, <3>1
  <2>4. QED
      BY <2>2, <2>3
<1>5. ASSUME NEW x \in Turns, NEW kind, NEW c, NEW ckpt, RecordResult(x, kind, c, ckpt)
      PROVE  /\ x = y => Moves
             /\ x # y => /\ hand'[y] = hand[y] /\ pc'[y] = pc[y]
                         /\ (y \in Turns => todo'[y] = todo[y])
    BY <1>0, <1>5, HookIn DEF RecordResult, Go, GoesOn
<1>6. ASSUME NEW x \in Turns, OtherResult(x) \/ SkipUnchanged(x) \/ ProbeFails(x)
      PROVE  Still \/ Moves
  <2>1. UNCHANGED caps /\ \E kind, c, ckpt : RecordResult(x, kind, c, ckpt)
      BY <1>6 DEF OtherResult, SkipUnchanged, ProbeFails
  <2>2. QED
      BY <1>5, <1>s, <2>1
<1>7. ASSUME NEW x \in Turns, ScheduleCapture(x) PROVE Still \/ Moves
  <2>1. RecordResult(x, "exec", Len(caps[Hook(x)]) + 1, None)
      BY <1>7 DEF ScheduleCapture
  <2>2. CASE x = y
      BY <1>5, <2>1, <2>2
  <2>3. CASE x # y
    <3>1. ASSUME y \in Turns, ScheduleCapture(y) PROVE Moves
      <4>1. RecordResult(y, "exec", Len(caps[Hook(y)]) + 1, None)
          BY <3>1 DEF ScheduleCapture
      <4>2. QED
          BY <1>0, <4>1 DEF RecordResult, GoesOn
    <3>2. QED
        BY <1>5, <2>1, <2>3, <3>1
  <2>4. QED
      BY <2>2, <2>3
<1>8. ASSUME NEW x \in Turns, TurnEnds(x) PROVE Still \/ Moves
  <2>1. pc[x] = "idle" /\ UNCHANGED <<hand, caps, todo>>
        /\ pc' = [pc EXCEPT ![x] = "over"]
      BY <1>8 DEF TurnEnds, At, Go
  <2>2. CASE x = y
      BY <2>1, <2>2, IdleHand
  <2>3. CASE x # y
      BY <1>0, <1>s, <2>1, <2>3
  <2>4. QED
      BY <2>2, <2>3
<1>9. ASSUME NEW h \in Hooks, CaptureScan(h) PROVE Still
    BY <1>9, <1>t DEF CaptureScan
<1>10. ASSUME NEW h \in Hooks, CaptureFails(h) \/ CaptureWrites(h) PROVE Still
  <2>1. UNCHANGED <<pc, hand, todo>> /\ scan.hook = h
      BY <1>10 DEF CaptureFails, CaptureWrites, Captured
  <2>2. ASSUME NEW x \in Turns, ScheduleCapture(x) PROVE FALSE
    <3>1. scan # NoScan
        BY <2>1 DEF NoScan, Hooks
    <3>2. QED
        BY <2>2, <3>1 DEF ScheduleCapture, RecordResult, At, Free
  <2>3. QED
      BY <2>1, <2>2
<1>11. ASSUME NEW x \in Actors, AwaitCaptures(x) PROVE Still \/ Takes
  <2>1. UNCHANGED <<pc, todo, caps>> /\ (x # y => hand'[y] = hand[y])
      BY <1>0, <1>11 DEF AwaitCaptures
  <2>2. QED
      BY <1>11, <1>s, <2>1
<1>12. ASSUME NEW x \in Actors, WriteSummary(x) PROVE Still \/ Moves
  <2>1. pc[x] = "metadata" /\ UNCHANGED <<hand, caps, todo>>
        /\ pc' = [pc EXCEPT ![x] = "ended"]
      BY <1>12 DEF WriteSummary, SummaryWritten, At, Go
  <2>2. CASE x = y
      BY <2>1, <2>2, IdleHand
  <2>3. CASE x # y
      BY <1>0, <1>s, <2>1, <2>3
  <2>4. QED
      BY <2>2, <2>3
<1>13. ASSUME RunFinishes \/ SubFinishes PROVE Still \/ Moves
  <2>1. PICK x \in Actors : /\ pc[x] \in {"waiting", "idle"} /\ pc' = [pc EXCEPT ![x] = "summary"]
                            /\ UNCHANGED <<hand, caps, todo>>
      BY <1>13, HookIn DEF RunFinishes, SubFinishes, At, Go
  <2>2. CASE x = y
      BY <2>1, <2>2, IdleHand
  <2>3. CASE x # y
      BY <1>0, <1>s, <2>1, <2>3
  <2>4. QED
      BY <2>2, <2>3
<1>14. ASSUME SubCancelled PROVE Still \/ Moves
  <2>1. /\ hand' = [hand EXCEPT !["sub"] = NotAsked] /\ pc' = [pc EXCEPT !["sub"] = "ended"]
        /\ UNCHANGED <<todo, caps>>
      BY <1>14 DEF SubCancelled, Go
  <2>2. QED
      BY <1>0, <1>s, <2>1
<1>15. ASSUME UNCHANGED vars PROVE Still
    BY <1>15, <1>t DEF vars
<1>16. {"run", "sub"} \subseteq Actors /\ Turns \subseteq Actors
    BY DEF Turns, Actors
<1>17. ASSUME Next PROVE Still \/ Moves \/ Takes
  <2> HIDE DEF Still, Moves, Takes
  <2>1. QED
      BY <1>1, <1>2, <1>3, <1>4, <1>6, <1>7, <1>8, <1>9, <1>10, <1>11, <1>12, <1>13, <1>14,
         <1>15, <1>16, <1>17 DEF Next, Done
<1>18. Still \/ Moves \/ Takes
  <2> HIDE DEF Still, Moves, Takes
  <2>1. QED
      BY <1>15, <1>17
<1>19. QED
    BY <1>18

LEMMA HandStep ==
    ASSUME TypeOK, ScanInv, CapsInv, RecsInv, LastInv, HandInv, ReplyInv, [Next]_vars
    PROVE  HandInv'
<1>0. hand \in [Actors -> SUBSET Nat] /\ taken \in [Hooks -> Nat]
      /\ \A h \in Hooks : CapsKept(h) /\ Len(caps[h]) \in Nat /\ DOMAIN caps[h] = 1 .. Len(caps[h])
    BY CapsKeep DEF TypeOK
<1>1. ASSUME NEW x \in Actors, AwaitCaptures(x)
      PROVE  /\ \A h \in Hooks : taken[h] <= taken'[h] /\ taken'[h] <= Len(caps'[h])
             /\ UNCHANGED caps
             /\ hand[x] = NotAsked => taken'[Hook(x)] = Len(caps[Hook(x)])
             /\ hand[x] # NotAsked => UNCHANGED taken
             /\ hand'[x] = Asked(x) \ Ready(x)
    BY <1>0, <1>1, AwaitIs, HookIn DEF HandInv
<1>2. \A h \in Hooks : taken[h] <= taken'[h] /\ taken'[h] <= Len(caps'[h])
  <2>1. CASE UNCHANGED taken
    <3>1. \A h \in Hooks : Len(caps'[h]) \in Nat
      <4>1. TypeOK'
          BY TypeStep
      <4>2. QED
          BY <4>1 DEF TypeOK
    <3>2. QED
        BY <1>0, <2>1, <3>1 DEF HandInv, CapsKept
  <2>2. ASSUME NEW x \in Actors, AwaitCaptures(x)
        PROVE  \A h \in Hooks : taken[h] <= taken'[h] /\ taken'[h] <= Len(caps'[h])
      BY <1>1, <2>2
  <2>3. UNCHANGED taken \/ \E x \in Actors : AwaitCaptures(x)
    <3>1. ASSUME NEW x \in {"run", "sub"}, WriteSummary(x) PROVE UNCHANGED taken
        BY <3>1 DEF WriteSummary, SummaryWritten, captures
    <3>2. QED
        BY <3>1, RecorderSteps DEF Adds, Quiet
  <2>4. QED
      BY <2>1, <2>2, <2>3
<1>3. \A h \in Hooks : \A c \in DOMAIN caps'[h] : Hook(caps'[h][c].turn) = h
  <2>1. ASSUME NEW h \in Hooks, NEW c \in DOMAIN caps'[h] PROVE Hook(caps'[h][c].turn) = h
    <3>1. DOMAIN caps'[h] = 1 .. Len(caps'[h])
      <4>1. TypeOK'
          BY TypeStep
      <4>2. QED
          BY <4>1 DEF TypeOK
    <3>2. CASE c > Len(caps[h])
        BY <1>0, <2>1, <3>2 DEF CapsKept
    <3>3. CASE ~ (c > Len(caps[h]))
      <4>1. c \in 1 .. Len(caps[h])
          BY <1>0, <3>1, <3>3
      <4>2. QED
          BY <1>0, <4>1 DEF CapsKept, HandInv
    <3>4. QED
        BY <3>2, <3>3
  <2>2. QED
      BY <2>1
<1>4. ASSUME NEW y \in Actors, hand'[y] # NotAsked
      PROVE  /\ Awaits(y)'
             /\ \A c \in hand'[y] : c \in 1 .. taken'[Hook(y)]
             /\ \A c \in Own(y)' : c <= taken'[Hook(y)]
  <2> DEFINE h == Hook(y)
  <2>0. h \in Hooks
      BY HookIn
  <2>1. /\ pc'[y] = pc[y] /\ (y \in Turns => todo'[y] = todo[y])
        /\ ~ (y \in Turns /\ ScheduleCapture(y))
        /\ (hand'[y] = hand[y] /\ hand[y] # NotAsked) \/ AwaitCaptures(y)
      BY <1>4, HandMoves
  <2>2. Awaits(y)'
    <3>1. Awaits(y)
        BY <2>1 DEF AwaitCaptures, HandInv
    <3>2. pc[y] = "results" => y \in Turns
      <4>1. pc["run"] # "results"
          BY DEF ReplyInv
      <4>2. QED
          BY <4>1 DEF Actors
    <3>3. QED
        BY <2>1, <3>1, <3>2 DEF Awaits
  <2>3. Own(y)' \subseteq Own(y)
    <3>1. ASSUME NEW c \in DOMAIN caps'[h], caps'[h][c].turn = y PROVE c \in Own(y)
      <4>1. DOMAIN caps'[h] = 1 .. Len(caps'[h])
        <5>1. TypeOK'
            BY TypeStep
        <5>2. QED
            BY <2>0, <5>1 DEF TypeOK
      <4>2. CASE c > Len(caps[h])
        <5>1. PICK x \in Turns : ScheduleCapture(x) /\ caps'[h][c].turn = x
            BY <1>0, <2>0, <3>1, <4>2 DEF CapsKept
        <5>2. QED
            BY <2>1, <3>1, <5>1
      <4>3. CASE ~ (c > Len(caps[h]))
        <5>1. c \in 1 .. Len(caps[h])
            BY <1>0, <2>0, <4>1, <4>3
        <5>2. caps[h][c].turn = y
            BY <1>0, <2>0, <3>1, <5>1 DEF CapsKept
        <5>3. QED
            BY <1>0, <2>0, <5>1, <5>2 DEF Own
      <4>4. QED
          BY <4>2, <4>3
    <3>2. QED
        BY <3>1 DEF Own
  <2>4. Own(y) \subseteq Nat
      BY <1>0, <2>0 DEF Own
  <2>5. taken[h] \in Nat /\ taken'[h] \in Nat
    <3>1. TypeOK'
        BY TypeStep
    <3>2. QED
        BY <1>0, <2>0, <3>1 DEF TypeOK
  <2>6. CASE hand'[y] = hand[y] /\ hand[y] # NotAsked
    <3>1. (\A c \in hand[y] : c \in 1 .. taken[h]) /\ \A c \in Own(y) : c <= taken[h]
        BY <2>6 DEF HandInv
    <3>2. \A c \in hand'[y] : c \in 1 .. taken'[h]
        BY <1>2, <2>0, <2>5, <2>6, <3>1
    <3>3. \A c \in Own(y)' : c <= taken'[h]
        BY <1>2, <2>0, <2>3, <2>4, <2>5, <3>1
    <3>4. QED
        BY <2>2, <3>2, <3>3
  <2>7. CASE AwaitCaptures(y)
    <3>1. hand'[y] \subseteq Asked(y)
        BY <1>1, <2>7
    <3>2. CASE hand[y] = NotAsked
      <4>1. taken'[h] = Len(caps[h])
          BY <1>1, <2>7, <3>2
      <4>2. Asked(y) \subseteq 1 .. Len(caps[h])
          BY <1>0, <2>0, <3>2 DEF Asked, Pending
      <4>3. Own(y) \subseteq 1 .. Len(caps[h])
          BY <1>0, <2>0 DEF Own
      <4>4. \A c \in hand'[y] : c \in 1 .. taken'[h]
          BY <3>1, <4>1, <4>2
      <4>5. \A c \in Own(y)' : c <= taken'[h]
          BY <2>3, <4>1, <4>3
      <4>6. QED
          BY <2>2, <4>4, <4>5
    <3>3. CASE hand[y] # NotAsked
      <4>1. (\A c \in hand[y] : c \in 1 .. taken[h]) /\ \A c \in Own(y) : c <= taken[h]
          BY <3>3 DEF HandInv
      <4>2. taken' = taken /\ Asked(y) = hand[y]
          BY <1>1, <2>7, <3>3 DEF Asked
      <4>3. QED
          BY <2>2, <2>3, <3>1, <4>1, <4>2
    <3>4. QED
        BY <3>2, <3>3
  <2>8. QED
      BY <2>1, <2>6, <2>7
<1>5. QED
    BY <1>2, <1>3, <1>4 DEF HandInv

\* What waits to be applied, in a step that does not apply it.
LEMMA HeldKeeps ==
    ASSUME TypeOK, ScanInv, CapsInv, HandInv, [Next]_vars, NEW h \in Hooks,
           h = "main" \/ pc'["sub"] # "ended", UNCHANGED taken, NEW c \in Held(h), c > 0,
           \A y \in Actors :
             \/ hand'[y] = hand[y]
             \/ /\ hand'[y] = NotAsked
                /\ hand[y] \in {NotAsked, {}} \/ (y = "sub" /\ pc'["sub"] = "ended")
    PROVE  c \in Held(h)'
<1>1. CapsKept(h) /\ Len(caps[h]) \in Nat /\ DOMAIN caps[h] = 1 .. Len(caps[h])
    BY CapsKeep
<1>2. DOMAIN caps'[h] = 1 .. Len(caps'[h]) /\ Len(caps'[h]) \in Nat
  <2>1. TypeOK'
      BY TypeStep
  <2>2. QED
      BY <2>1 DEF TypeOK
<1>3. CASE c \in Pending(h)
  <2>1. c \in Pending(h)'
      BY <1>1, <1>2, <1>3 DEF Pending, CapsKept
  <2>2. QED
      BY <2>1 DEF Held
<1>4. ASSUME NEW y \in Actors, Hook(y) = h, c \in hand[y] PROVE c \in Held(h)'
  <2>1. hand[y] \notin {NotAsked, {}}
      BY <1>4 DEF NotAsked
  <2>2. ~ (y = "sub" /\ pc'["sub"] = "ended")
      BY <1>4, HookIn
  <2>3. hand'[y] = hand[y]
      BY <2>1, <2>2
  <2>4. QED
      BY <1>4, <2>3 DEF Held
<1>5. QED
    BY <1>3, <1>4 DEF Held

LEMMA HeldAwaits ==
    ASSUME TypeOK, HandInv, NEW x \in Actors, AwaitCaptures(x),
           NEW c \in Held(Hook(x)), c > 0, c \notin Ready(x)
    PROVE  c \in Held(Hook(x))'
<1>1. /\ hand' = [hand EXCEPT ![x] = Asked(x) \ Ready(x)] /\ UNCHANGED caps
      /\ IF hand[x] = NotAsked
         THEN taken' = [taken EXCEPT ![Hook(x)] = Len(caps[Hook(x)])]
         ELSE UNCHANGED taken
      /\ hand \in [Actors -> SUBSET Nat]
    BY AwaitIs DEF TypeOK
<1>2. ASSUME c \in Asked(x) PROVE c \in Held(Hook(x))'
    BY <1>1, <1>2 DEF Held
<1>3. CASE c \in Pending(Hook(x))
  <2>1. CASE hand[x] = NotAsked
      BY <1>2, <1>3, <2>1 DEF Asked
  <2>2. CASE hand[x] # NotAsked
      BY <1>1, <1>3, <2>2 DEF Held, Pending
  <2>3. QED
      BY <2>1, <2>2
<1>4. ASSUME NEW y \in Actors, Hook(y) = Hook(x), c \in hand[y] PROVE c \in Held(Hook(x))'
  <2>1. CASE y = x
    <3>1. hand[x] # NotAsked
        BY <1>4, <2>1 DEF NotAsked
    <3>2. QED
        BY <1>2, <1>4, <2>1, <3>1 DEF Asked
  <2>2. CASE y # x
      BY <1>1, <1>4, <2>2 DEF Held
  <2>3. QED
      BY <2>1, <2>2
<1>5. QED
    BY <1>3, <1>4 DEF Held

\* Records that wait for a capture have its number.
LEMMA UnappliedIs ==
    ASSUME NEW lines \in Seq(Records), NEW cs \in Seq(Captures),
           NumberedBy(lines, cs), Told(lines, cs), NEW i \in Unapplied(lines)
    PROVE  /\ lines[i].capture \in 1 .. Len(cs) /\ lines[i].capture > 0
           /\ i \in 1 .. Len(lines)
<1>1. DOMAIN lines = 1 .. Len(lines) /\ Len(cs) \in Nat /\ i \in DOMAIN lines
      /\ lines[i].kind = "exec" /\ lines[i].checkpoint = None
    BY RecordDomains DEF Unapplied
<1>2. lines[i].capture # 0
    BY <1>1 DEF Told, Alone
<1>3. lines[i].capture \in 0 .. Len(cs)
    BY <1>1 DEF NumberedBy
<1>4. QED
    BY <1>1, <1>2, <1>3

Waiting(h) == \A i \in Unapplied(recs[h]) : recs[h][i].capture \in Held(h)

LEMMA RecsAre ==
    ASSUME TypeOK, RecsInv, NEW h \in Hooks
    PROVE  /\ recs[h] \in Seq(Records) /\ caps[h] \in Seq(Captures)
           /\ NumberedBy(recs[h], caps[h]) /\ Told(recs[h], caps[h])
           /\ h = "main" \/ pc["sub"] # "ended" => Waiting(h)
  BY DEF TypeOK, RecsInv, Waiting

\* The records of a hook that an action adds.
LEMMA AddedIs ==
    ASSUME TypeOK, NEW x \in Turns, NEW r \in Records, Adds(x, r)
    PROVE  /\ Hook(x) \in Hooks
           /\ recs'[Hook(x)] = Append(recs[Hook(x)], r)
           /\ file'[Hook(x)] = Append(file[Hook(x)], r)
           /\ \A g \in Hooks \ {Hook(x)} : recs'[g] = recs[g] /\ file'[g] = file[g]
           /\ \A g \in Hooks \ {Hook(x)} : caps'[g] = caps[g]
           /\ \A y \in Actors : hand'[y] = hand[y] \/ (hand'[y] = NotAsked /\ hand[y] \in {NotAsked, {}})
           /\ UNCHANGED <<taken, last, closed, late>>
<1>1. /\ Hook(x) \in Hooks /\ recs'[Hook(x)] = Append(recs[Hook(x)], r)
      /\ file'[Hook(x)] = Append(file[Hook(x)], r)
      /\ \A g \in Hooks \ {Hook(x)} : recs'[g] = recs[g] /\ file'[g] = file[g]
    BY HookIn, AddType DEF Adds
<1>2. \A g \in Hooks \ {Hook(x)} : caps'[g] = caps[g]
    BY ScheduleIs DEF Adds
<1>3. \A y \in Actors : hand'[y] = hand[y] \/ (hand'[y] = NotAsked /\ hand[y] \in {NotAsked, {}})
    BY DEF Adds, TypeOK
<1>4. QED
    BY <1>1, <1>2, <1>3 DEF Adds

LEMMA RecsAdd ==
    ASSUME TypeOK, ScanInv, CapsInv, RecsInv, LastInv, HandInv, [Next]_vars,
           NEW x \in Turns, NEW r \in Records, Adds(x, r), NEW h \in Hooks
    PROVE  /\ NumberedBy(recs'[h], caps'[h]) /\ Told(recs'[h], caps'[h])
           /\ h = "main" \/ pc'["sub"] # "ended" => Waiting(h)'
<1>1. /\ recs[h] \in Seq(Records) /\ caps[h] \in Seq(Captures)
      /\ NumberedBy(recs[h], caps[h]) /\ Told(recs[h], caps[h])
      /\ DOMAIN recs[h] = 1 .. Len(recs[h]) /\ Len(recs[h]) \in Nat
      /\ DOMAIN caps[h] = 1 .. Len(caps[h]) /\ Len(caps[h]) \in Nat
    BY RecsAre, RecordDomains
<1>2. ASSUME h = "main" \/ pc'["sub"] # "ended" PROVE Waiting(h)
  <2>1. pc'["sub"] # "ended" => pc["sub"] # "ended"
    <3>1. PICK where \in {"idle", "results"} : pc' = [pc EXCEPT ![x] = where]
        BY DEF Adds, Go
    <3>2. pc[x] # "ended" /\ x \in Actors /\ pc \in [Actors -> Places]
        BY HookIn DEF Adds, TypeOK
    <3>3. QED
        BY <3>1, <3>2
  <2>2. QED
      BY <1>2, <2>1, RecsAre
<1>3. ASSUME NEW c \in Held(h), c > 0, h = "main" \/ pc'["sub"] # "ended" PROVE c \in Held(h)'
    BY <1>3, AddedIs, HeldKeeps
<1>4. CASE h # Hook(x)
  <2>1. recs'[h] = recs[h] /\ caps'[h] = caps[h]
      BY <1>4, AddedIs
  <2>2. ASSUME h = "main" \/ pc'["sub"] # "ended", NEW i \in Unapplied(recs[h])
        PROVE  recs[h][i].capture \in Held(h)'
    <3>1. recs[h][i].capture > 0 /\ recs[h][i].capture \in Held(h)
        BY <1>1, <1>2, <2>2, UnappliedIs DEF Waiting
    <3>2. QED
        BY <1>3, <2>2, <3>1
  <2>3. QED
      BY <1>1, <2>1, <2>2 DEF Waiting
<1>5. CASE h = Hook(x)
  <2>1. recs'[h] = Append(recs[h], r)
      BY <1>5, AddedIs
  <2>2. /\ DOMAIN recs'[h] = 1 .. Len(recs[h]) + 1 /\ recs'[h][Len(recs[h]) + 1] = r
        /\ \A i \in 1 .. Len(recs[h]) : recs'[h][i] = recs[h][i]
      BY <1>1, <2>1, AppendDomains
  <2>3. ASSUME h = "main" \/ pc'["sub"] # "ended", NEW i \in Unapplied(recs'[h]),
               i # Len(recs[h]) + 1
        PROVE  recs'[h][i].capture \in Held(h)'
    <3>1. i \in 1 .. Len(recs[h]) /\ i \in Unapplied(recs[h])
        BY <1>1, <2>2, <2>3 DEF Unapplied
    <3>2. recs[h][i].capture > 0 /\ recs[h][i].capture \in Held(h)
        BY <1>1, <1>2, <2>3, <3>1, UnappliedIs DEF Waiting
    <3>3. QED
        BY <1>3, <2>2, <2>3, <3>1, <3>2
  <2>4. CASE UNCHANGED caps /\ AloneKeeps(recs[h], caps[h], r)
    <3>1. NumberedBy(recs'[h], caps[h]) /\ Told(recs'[h], caps[h])
        BY <1>1, <2>1, <2>4, AloneAdded
    <3>2. ASSUME Len(recs[h]) + 1 \in Unapplied(recs'[h]) PROVE FALSE
      <4>1. r.kind = "exec" /\ r.checkpoint = None
          BY <2>2, <3>2 DEF Unapplied
      <4>2. Alone(recs'[h], caps[h], Len(recs[h]) + 1)
          BY <2>1, <2>4 DEF AloneKeeps
      <4>3. QED
          BY <2>2, <4>1, <4>2 DEF Alone
    <3>3. QED
        BY <2>3, <2>4, <3>1, <3>2 DEF Waiting
  <2>5. CASE ScheduleCapture(x) /\ r = Rec("exec", Len(caps[h]) + 1, None)
    <3> DEFINE c == [turn |-> x, full |-> last[h] = Never, result |-> None]
    <3>1. c \in Captures /\ c.result = None /\ caps'[h] = Append(caps[h], c)
        BY <1>5, <2>5, ScheduleIs
    <3>2. r.kind = "exec" /\ r.checkpoint = None /\ r.capture = Len(caps[h]) + 1
        BY <2>5 DEF Rec
    <3> HIDE DEF c
    <3>3. NumberedBy(recs'[h], caps'[h]) /\ Told(recs'[h], caps'[h])
        BY <1>1, <2>1, <3>1, <3>2, CaptureAdded
    <3>4. Len(caps[h]) + 1 \in Held(h)'
      <4>1. DOMAIN caps'[h] = 1 .. Len(caps[h]) + 1
          BY <1>1, <3>1
      <4>2. taken[h] <= Len(caps[h]) /\ taken'[h] = taken[h] /\ taken[h] \in Nat
          BY AddedIs DEF HandInv, TypeOK
      <4>3. Len(caps[h]) + 1 \in Pending(h)'
          BY <1>1, <4>1, <4>2 DEF Pending
      <4>4. QED
          BY <4>3 DEF Held
    <3>5. QED
        BY <2>2, <2>3, <3>2, <3>3, <3>4 DEF Waiting
  <2>6. QED
      BY <1>5, <2>4, <2>5 DEF Adds
<1>6. QED
    BY <1>4, <1>5

\* What a turn, run() and a subagent do with their places.
PcMoves(x) ==
    \/ pc'[x] = pc[x]
    \/ /\ x \in Turns /\ pc[x] = "idle"
       /\ pc'[x] \in {"before", "after"} \/ (x \in MainTurns /\ pc'[x] = "over")
    \/ x \in Turns /\ BeforeExecuteTools(x) /\ pc'[x] = "after"
    \/ x \in Turns /\ pc[x] \in {"after", "results"} /\ pc'[x] \in {"idle", "results"}
    \/ x = "run" /\ RunFinishes /\ pc'[x] = "summary"
    \/ x = "sub" /\ pc[x] = "idle" /\ pc'[x] = "summary"
    \/ x \in {"run", "sub"} /\ FetchMetadata(x) /\ pc'[x] = "metadata"
    \/ x \in {"run", "sub"} /\ WriteSummary(x) /\ pc'[x] = "ended"
    \/ x = "sub" /\ SubCancelled /\ pc'[x] = "ended"

LEMMA PcSteps ==
    ASSUME TypeOK, [Next]_vars, NEW x \in Actors PROVE PcMoves(x)
<1> USE DEF disk, flow, messageVars, captures, trace, history
<1>0. pc \in [Actors -> Places] /\ MainTurns \subseteq Actors /\ Turns \subseteq Actors
      /\ {"run", "sub"} \subseteq Actors
    BY DEF TypeOK, Turns, MainTurns, Actors
<1>1. ASSUME NEW p \in Paths, Change(p) PROVE pc' = pc
    BY <1>1 DEF Change
<1>2. ASSUME NEW y \in Turns, NEW calls, BeforeIteration(y, calls) PROVE PcMoves(x)
    BY <1>0, <1>2 DEF BeforeIteration, At, Go, PcMoves
<1>3. ASSUME NEW y \in Turns, BeforeExecuteTools(y) PROVE PcMoves(x)
    BY <1>0, <1>3 DEF BeforeExecuteTools, Go, PcMoves
<1>4. ASSUME NEW y \in Turns, AfterIteration(y) PROVE PcMoves(x)
    BY <1>0, <1>4 DEF AfterIteration, At, Go, PcMoves
<1>5. ASSUME NEW y \in Turns, OtherResult(y) \/ ScheduleCapture(y) \/ SkipUnchanged(y)
                              \/ ProbeFails(y)
      PROVE  PcMoves(x)
  <2>1. pc[y] = "results" /\ \E where \in {"idle", "results"} : pc' = [pc EXCEPT ![y] = where]
      BY <1>5 DEF OtherResult, ScheduleCapture, SkipUnchanged, ProbeFails, RecordResult, At, Go
  <2>2. QED
      BY <1>0, <2>1 DEF PcMoves
<1>6. ASSUME NEW y \in Turns, TurnEnds(y) PROVE PcMoves(x)
    BY <1>0, <1>6 DEF TurnEnds, At, Go, PcMoves
<1>7. ASSUME NEW h \in Hooks, CaptureScan(h) \/ CaptureFails(h) \/ CaptureWrites(h)
      PROVE  pc' = pc
    BY <1>7 DEF CaptureScan, CaptureFails, CaptureWrites, Captured
<1>8. ASSUME NEW y \in Actors, AwaitCaptures(y) PROVE pc' = pc
    BY <1>8 DEF AwaitCaptures
<1>9. ASSUME NEW y \in {"run", "sub"}, FetchMetadata(y) PROVE PcMoves(x)
    BY <1>0, <1>9 DEF FetchMetadata, Go, PcMoves
<1>10. ASSUME NEW y \in {"run", "sub"}, WriteSummary(y) PROVE PcMoves(x)
  <2>1. pc' = [pc EXCEPT ![y] = "ended"]
      BY <1>10 DEF WriteSummary, SummaryWritten, Go
  <2>2. QED
      BY <1>0, <1>10, <2>1 DEF PcMoves
<1>11. ASSUME RunFinishes PROVE PcMoves(x)
  <2>1. pc' = [pc EXCEPT !["run"] = "summary"]
      BY <1>11 DEF RunFinishes, Go
  <2>2. QED
      BY <1>0, <1>11, <2>1 DEF PcMoves
<1>12. ASSUME SubFinishes PROVE PcMoves(x)
    BY <1>0, <1>12 DEF SubFinishes, At, Go, PcMoves
<1>13. ASSUME SubCancelled PROVE PcMoves(x)
  <2>1. pc' = [pc EXCEPT !["sub"] = "ended"]
      BY <1>13 DEF SubCancelled, Go
  <2>2. QED
      BY <1>0, <1>13, <2>1 DEF PcMoves
<1>14. ASSUME UNCHANGED vars PROVE pc' = pc
    BY <1>14 DEF vars
<1>15. pc' = pc => PcMoves(x)
    BY DEF PcMoves
<1>16. ASSUME Next PROVE PcMoves(x)
  <2>1. ASSUME NEW y \in Turns, \/ \E calls \in Batches[y] : BeforeIteration(y, calls)
                                \/ BeforeExecuteTools(y) \/ AfterIteration(y)
                                \/ OtherResult(y) \/ ScheduleCapture(y) \/ SkipUnchanged(y)
                                \/ ProbeFails(y) \/ TurnEnds(y)
        PROVE  PcMoves(x)
      BY <1>2, <1>3, <1>4, <1>5, <1>6, <2>1
  <2>2. QED
      BY <1>1, <1>7, <1>8, <1>9, <1>10, <1>11, <1>12, <1>13, <1>14, <1>15, <1>16, <2>1
         DEF Next, Done
<1>17. QED
    BY <1>14, <1>15, <1>16

LEMMA EndedStays ==
    ASSUME TypeOK, SubInv, [Next]_vars PROVE pc'["sub"] # "ended" => pc["sub"] # "ended"
<1>1. ASSUME pc["sub"] = "ended" PROVE pc'["sub"] = "ended"
  <2>1. PcMoves("sub")
      BY PcSteps, HookIn
  <2>2. "sub" \notin MainTurns
      BY DEF MainTurns
  <2>3. QED
      BY <1>1, <2>1, <2>2 DEF PcMoves, BeforeExecuteTools, FetchMetadata, WriteSummary,
                              SummaryWritten, At
<1>2. QED
    BY <1>1

\* The records of a hook that AwaitCaptures applies, and those of the other one.
LEMMA AppliedIs ==
    ASSUME TypeOK, HandInv, NEW x \in Actors, AwaitCaptures(x), NEW h \in Hooks
    PROVE  /\ recs[h] \in Seq(Records) /\ recs'[h] \in Seq(Records)
           /\ caps' = caps /\ caps[h] \in Seq(Captures)
           /\ h # Hook(x) => recs'[h] = recs[h]
           /\ Updated(recs[h], caps[h], recs'[h])
           /\ \A i \in 1 .. Len(recs[h]) : recs'[h][i].metadata = recs[h][i].metadata
           /\ h = Hook(x) => \A i \in 1 .. Len(recs[h]) :
                recs[h][i].capture \in Ready(x) => recs'[h][i].checkpoint # None
<1>1. /\ recs' = [recs EXCEPT ![Hook(x)] = Applied(Hook(x), Ready(x))] /\ caps' = caps
      /\ recs \in [Hooks -> Seq(Records)] /\ caps \in [Hooks -> Seq(Captures)]
    BY AwaitIs DEF TypeOK
<1>2. CASE h = Hook(x)
  <2>1. recs'[h] = Applied(Hook(x), Ready(x))
      BY <1>1, <1>2
  <2>2. QED
      BY <1>1, <1>2, <2>1, AppliedType
<1>3. CASE h # Hook(x)
  <2>1. recs'[h] = recs[h]
      BY <1>1, <1>3
  <2>2. Updated(recs[h], caps[h], recs[h])
      BY DEF Updated
  <2>3. QED
      BY <1>1, <1>3, <2>1, <2>2
<1>4. QED
    BY <1>2, <1>3

LEMMA UpdatedUnapplied ==
    ASSUME NEW lines \in Seq(Records), NEW others \in Seq(Records), NEW cs,
           Updated(lines, cs, others)
    PROVE  /\ Unapplied(others) \subseteq Unapplied(lines)
           /\ \A i \in 1 .. Len(lines) : others[i].capture = lines[i].capture
           /\ DOMAIN others = 1 .. Len(lines) /\ DOMAIN lines = 1 .. Len(lines)
<1>1. DOMAIN others = 1 .. Len(lines) /\ DOMAIN lines = 1 .. Len(lines)
    BY RecordDomains DEF Updated
<1>2. QED
    BY <1>1 DEF Updated, Unapplied

LEMMA RecsAwait ==
    ASSUME TypeOK, RecsInv, HandInv, NEW x \in Actors, AwaitCaptures(x), NEW h \in Hooks
    PROVE  /\ NumberedBy(recs'[h], caps'[h]) /\ Told(recs'[h], caps'[h])
           /\ h = "main" \/ pc'["sub"] # "ended" => Waiting(h)'
<1>1. /\ recs[h] \in Seq(Records) /\ recs'[h] \in Seq(Records)
      /\ caps' = caps /\ caps[h] \in Seq(Captures) /\ Updated(recs[h], caps[h], recs'[h])
      /\ NumberedBy(recs[h], caps[h]) /\ Told(recs[h], caps[h])
      /\ h = "main" \/ pc["sub"] # "ended" => Waiting(h)
      /\ UNCHANGED pc
    BY AppliedIs, RecsAre, AwaitIs
<1>2. NumberedBy(recs'[h], caps'[h]) /\ Told(recs'[h], caps'[h])
    BY <1>1, UpdatedKeeps
<1>3. ASSUME h = "main" \/ pc'["sub"] # "ended", NEW i \in Unapplied(recs'[h])
      PROVE  recs'[h][i].capture \in Held(h)'
  <2>1. /\ i \in Unapplied(recs[h]) /\ recs'[h][i].capture = recs[h][i].capture
        /\ i \in 1 .. Len(recs[h]) /\ recs[h][i].capture > 0
        /\ recs[h][i].capture \in Held(h)
    <3>1. i \in Unapplied(recs[h])
        BY <1>1, <1>3, UpdatedUnapplied
    <3>2. i \in 1 .. Len(recs[h]) /\ recs[h][i].capture > 0
        BY <1>1, <3>1, UnappliedIs
    <3>3. QED
        BY <1>1, <1>3, <3>1, <3>2, UpdatedUnapplied DEF Waiting
  <2>2. CASE h = Hook(x)
    <3>1. recs[h][i].capture \notin Ready(x)
      <4>1. recs'[h][i].checkpoint = None
          BY <1>3 DEF Unapplied
      <4>2. QED
          BY <2>1, <2>2, <4>1, AppliedIs
    <3>2. QED
        BY <2>1, <2>2, <3>1, HeldAwaits
  <2>3. CASE h # Hook(x)
    <3>1. /\ \A y \in Actors : Hook(y) = h => hand'[y] = hand[y]
          /\ taken'[h] = taken[h]
      <4>1. /\ hand' = [hand EXCEPT ![x] = Asked(x) \ Ready(x)]
            /\ \/ taken' = [taken EXCEPT ![Hook(x)] = Len(caps[Hook(x)])]
               \/ taken' = taken
          BY AwaitIs
      <4>2. hand \in [Actors -> SUBSET Nat] /\ taken \in [Hooks -> Nat]
          BY DEF TypeOK
      <4>3. \A y \in Actors : Hook(y) = h => y # x
          BY <2>3
      <4>4. QED
          BY <2>3, <4>1, <4>2, <4>3
    <3>2. Held(h)' = Held(h)
        BY <1>1, <3>1 DEF Held, Pending
    <3>3. QED
        BY <2>1, <3>2
  <2>4. QED
      BY <2>2, <2>3
<1>4. QED
    BY <1>2, <1>3 DEF Waiting

\* The records of a hook that writes its summary, and those of the other one.
LEMMA WriteIs ==
    ASSUME TypeOK, NEW x \in {"run", "sub"}, WriteSummary(x)
    PROVE  /\ x \in Actors /\ Hook(x) \in Hooks
           /\ recs'[Hook(x)] = WithSummary(Hook(x))
           /\ \A g \in Hooks \ {Hook(x)} : recs'[g] = recs[g]
           /\ pc[x] = "metadata" /\ pc' = [pc EXCEPT ![x] = "ended"]
           /\ UNCHANGED <<caps, hand, taken, last, late, todo>>
           /\ x = "run" => file' = recs' /\ \A h \in Hooks : closed'[h] = Len(recs'[h])
           /\ x = "sub" => /\ file'["sub"] = Append(file["sub"], Summary)
                           /\ file'["main"] = file["main"] /\ UNCHANGED closed
<1>1. x \in Actors /\ Hook(x) \in Hooks /\ recs \in [Hooks -> Seq(Records)]
      /\ file \in [Hooks -> Seq(Records)]
    BY HookIn DEF TypeOK
<1>2. /\ recs' = [recs EXCEPT ![Hook(x)] = WithSummary(Hook(x))]
      /\ pc[x] = "metadata" /\ pc' = [pc EXCEPT ![x] = "ended"]
      /\ UNCHANGED <<caps, hand, taken, last, late, todo>>
    BY DEF WriteSummary, SummaryWritten, At, Go, flow, captures, history
<1>3. x = "run" => file' = recs' /\ \A h \in Hooks : closed'[h] = Len(recs'[h])
    BY DEF WriteSummary, Close
<1>4. x = "sub" => /\ file'["sub"] = Append(file["sub"], Summary)
                   /\ file'["main"] = file["main"] /\ UNCHANGED closed
    BY <1>1 DEF WriteSummary, Hooks
<1>5. QED
    BY <1>1, <1>2, <1>3, <1>4

LEMMA SummaryIs == /\ Summary.kind = "summary" /\ Summary.capture = 0
                   /\ Summary.checkpoint = None
  BY DEF Summary, Rec

LEMMA RecsWrite ==
    ASSUME TypeOK, RecsInv, NEW x \in {"run", "sub"}, WriteSummary(x), NEW h \in Hooks
    PROVE  /\ NumberedBy(recs'[h], caps'[h]) /\ Told(recs'[h], caps'[h])
           /\ h = "main" \/ pc'["sub"] # "ended" => Waiting(h)'
           /\ Unapplied(recs'[h]) = Unapplied(recs[h])
           /\ \A i \in 1 .. Len(recs[h]) : recs'[h][i].capture = recs[h][i].capture
           /\ Held(h)' = Held(h)
<1>1. /\ recs[h] \in Seq(Records) /\ caps[h] \in Seq(Captures)
      /\ NumberedBy(recs[h], caps[h]) /\ Told(recs[h], caps[h])
      /\ h = "main" \/ pc["sub"] # "ended" => Waiting(h)
      /\ DOMAIN recs[h] = 1 .. Len(recs[h]) /\ Len(recs[h]) \in Nat
    BY RecsAre, RecordDomains
<1>2. UNCHANGED <<caps, hand, taken>>
    BY WriteIs
<1>3. Held(h)' = Held(h)
    BY <1>2 DEF Held, Pending
<1>4. pc'["sub"] # "ended" => pc["sub"] # "ended"
  <2>1. pc \in [Actors -> Places] /\ "sub" \in Actors
      BY HookIn DEF TypeOK
  <2>2. QED
      BY <2>1, WriteIs
<1>5. CASE h # Hook(x)
  <2>1. recs'[h] = recs[h]
      BY <1>5, WriteIs
  <2>2. QED
      BY <1>1, <1>2, <1>3, <1>4, <2>1 DEF Waiting
<1>6. CASE h = Hook(x)
  <2> DEFINE others == Resolved(recs[h])
  <2>1. /\ others \in Seq(Records) /\ Updated(recs[h], caps[h], others)
        /\ \A i \in 1 .. Len(recs[h]) : others[i].checkpoint = recs[h][i].checkpoint
        /\ Summary \in Records /\ recs'[h] = Append(others, Summary)
      BY <1>6, WriteIs, SummaryType
  <2> HIDE DEF others
  <2>2. NumberedBy(others, caps[h]) /\ Told(others, caps[h])
      BY <1>1, <2>1, UpdatedKeeps
  <2>3. AloneKeeps(others, caps[h], Summary)
      BY <2>1, SummaryIs, NoneIs, AloneIs
  <2>4. NumberedBy(recs'[h], caps[h]) /\ Told(recs'[h], caps[h])
      BY <1>1, <2>1, <2>2, <2>3, AloneAdded
  <2>5. /\ DOMAIN recs'[h] = 1 .. Len(recs[h]) + 1 /\ recs'[h][Len(recs[h]) + 1] = Summary
        /\ \A i \in 1 .. Len(recs[h]) : recs'[h][i] = others[i]
      BY <2>1, AppendDomains DEF Updated
  <2>6. \A i \in 1 .. Len(recs[h]) : /\ recs'[h][i].capture = recs[h][i].capture
                                     /\ recs'[h][i].kind = recs[h][i].kind
                                     /\ recs'[h][i].checkpoint = recs[h][i].checkpoint
      BY <2>1, <2>5 DEF Updated
  <2>7. Unapplied(recs'[h]) = Unapplied(recs[h])
      BY <1>1, <2>5, <2>6, SummaryIs DEF Unapplied
  <2>8. QED
    <3>1. Unapplied(recs[h]) \subseteq 1 .. Len(recs[h])
        BY <1>1 DEF Unapplied
    <3>2. QED
        BY <1>1, <1>2, <1>3, <1>4, <2>4, <2>6, <2>7, <3>1 DEF Waiting
<1>7. QED
    BY <1>5, <1>6

LEMMA CapsStill ==
    ASSUME TypeOK, ScanInv, CapsInv, [Next]_vars, NEW h \in Hooks
    PROVE  \/ caps'[h] = caps[h]
           \/ \E x \in Turns : ScheduleCapture(x)
           \/ /\ \E n : Finds(caps[h], n, caps'[h])
              /\ caps'[h] \in Seq(Captures)
<1>1. ASSUME NEW g \in Hooks, CaptureFails(g) \/ CaptureWrites(g)
      PROVE  caps'[h] = caps[h] \/ (/\ \E n : Finds(caps[h], n, caps'[h])
                                    /\ caps'[h] \in Seq(Captures))
  <2>1. PICK ckpt \in Checkpoints : scan.hook = g /\ ckpt # None /\ Captured(g, ckpt)
      BY <1>1, ErrorIs, Written DEF CaptureFails
  <2>2. Queued(caps[g])
      BY DEF CapsInv
  <2>3. QED
      BY <2>1, <2>2, CapturedFinds
<1>2. QED
    BY <1>1, CaptureSteps DEF Change, CaptureScan, captures

LEMMA QuietNoSchedule ==
    ASSUME TypeOK, Quiet, NEW x \in Turns PROVE ~ ScheduleCapture(x)
<1>1. ASSUME ScheduleCapture(x) PROVE FALSE
  <2>1. recs[Hook(x)] \in Seq(Records) /\ caps[Hook(x)] \in Seq(Captures) /\ Hook(x) \in Hooks
      BY HookIn DEF TypeOK
  <2>2. AddRecord(Hook(x), Rec("exec", Len(caps[Hook(x)]) + 1, None))
      BY <1>1 DEF ScheduleCapture, RecordResult
  <2>3. Rec("exec", Len(caps[Hook(x)]) + 1, None) \in Records
      BY <2>1, RecTypes, NoneIs
  <2>4. recs'[Hook(x)] = Append(recs[Hook(x)], Rec("exec", Len(caps[Hook(x)]) + 1, None))
      BY <2>1, <2>2, <2>3, AddType
  <2>5. Len(recs'[Hook(x)]) = Len(recs[Hook(x)]) + 1 /\ Len(recs[Hook(x)]) \in Nat
      BY <2>1, <2>3, <2>4, AppendDomains, RecordDomains
  <2>6. QED
      BY <2>5 DEF Quiet
<1>2. QED
    BY <1>1

LEMMA RecsQuiet ==
    ASSUME TypeOK, ScanInv, CapsInv, RecsInv, HandInv, ReplyInv, SubInv, [Next]_vars, Quiet,
           NEW h \in Hooks
    PROVE  /\ NumberedBy(recs'[h], caps'[h]) /\ Told(recs'[h], caps'[h])
           /\ h = "main" \/ pc'["sub"] # "ended" => Waiting(h)'
<1>1. /\ recs[h] \in Seq(Records) /\ caps[h] \in Seq(Captures)
      /\ NumberedBy(recs[h], caps[h]) /\ Told(recs[h], caps[h])
      /\ h = "main" \/ pc["sub"] # "ended" => Waiting(h)
    BY RecsAre
<1>2. UNCHANGED <<recs, taken>> /\ \A y \in Actors :
         \/ hand'[y] = hand[y]
         \/ /\ hand'[y] = NotAsked
            /\ hand[y] \in {NotAsked, {}} \/ (y = "sub" /\ pc'["sub"] = "ended")
    BY DEF Quiet
<1>3. NumberedBy(recs[h], caps'[h]) /\ Told(recs[h], caps'[h])
  <2>1. CASE caps'[h] = caps[h]
      BY <1>1, <2>1
  <2>2. CASE (\E n : Finds(caps[h], n, caps'[h])) /\ caps'[h] \in Seq(Captures)
      BY <1>1, <2>2, FindsKeeps
  <2>3. QED
      BY <2>1, <2>2, CapsStill, QuietNoSchedule
<1>4. ASSUME h = "main" \/ pc'["sub"] # "ended", NEW i \in Unapplied(recs[h])
      PROVE  recs[h][i].capture \in Held(h)'
  <2>1. pc'["sub"] # "ended" => pc["sub"] # "ended"
      BY EndedStays
  <2>2. recs[h][i].capture > 0 /\ recs[h][i].capture \in Held(h)
      BY <1>1, <1>4, <2>1, UnappliedIs DEF Waiting
  <2>3. QED
      BY <1>2, <1>4, <2>2, HeldKeeps
<1>5. QED
    BY <1>2, <1>3, <1>4 DEF Waiting

LEMMA RecsStep ==
    ASSUME TypeOK, ScanInv, CapsInv, RecsInv, LastInv, HandInv, ReplyInv, SubInv, [Next]_vars
    PROVE  RecsInv'
<1>1. ASSUME NEW h \in Hooks
      PROVE  /\ NumberedBy(recs'[h], caps'[h]) /\ Told(recs'[h], caps'[h])
             /\ h = "main" \/ pc'["sub"] # "ended" => Waiting(h)'
    BY RecorderSteps, RecsAdd, RecsAwait, RecsWrite, RecsQuiet
<1>2. QED
    BY <1>1 DEF RecsInv, Waiting

LEMMA FileStep ==
    ASSUME TypeOK, ScanInv, CapsInv, RecsInv, LastInv, HandInv, FileInv, [Next]_vars
    PROVE  FileInv'
<1>0. ASSUME NEW h \in Hooks
      PROVE  /\ recs[h] \in Seq(Records) /\ file[h] \in Seq(Records) /\ closed[h] \in Nat
             /\ Lagging(file[h], recs[h]) /\ closed[h] <= Len(file[h])
             /\ DOMAIN recs[h] = 1 .. Len(recs[h]) /\ DOMAIN file[h] = 1 .. Len(file[h])
             /\ Len(file[h]) = Len(recs[h]) /\ Len(recs[h]) \in Nat
    BY RecordDomains DEF TypeOK, FileInv, Lagging
<1>1. ASSUME NEW x \in Turns, NEW r \in Records, Adds(x, r), NEW h \in Hooks
      PROVE  Lagging(file'[h], recs'[h]) /\ closed'[h] <= Len(file'[h])
  <2>1. UNCHANGED closed
      BY <1>1, AddedIs
  <2>2. CASE h # Hook(x)
      BY <1>0, <1>1, <2>1, <2>2, AddedIs
  <2>3. CASE h = Hook(x)
    <3>1. recs'[h] = Append(recs[h], r) /\ file'[h] = Append(file[h], r)
        BY <1>1, <2>3, AddedIs
    <3>2. /\ DOMAIN recs'[h] = 1 .. Len(recs[h]) + 1
          /\ Len(recs'[h]) = Len(recs[h]) + 1 /\ Len(file'[h]) = Len(recs[h]) + 1
          /\ recs'[h][Len(recs[h]) + 1] = r /\ file'[h][Len(recs[h]) + 1] = r
          /\ \A i \in 1 .. Len(recs[h]) : recs'[h][i] = recs[h][i] /\ file'[h][i] = file[h][i]
        BY <1>0, <3>1, AppendDomains
    <3>3. \A i \in 1 .. Len(recs[h]) : Lags(file[h][i], recs[h][i])
        BY <1>0 DEF Lagging
    <3>4. \A i \in 1 .. Len(recs[h]) + 1 : Lags(file'[h][i], recs'[h][i])
      <4>1. ASSUME NEW i \in 1 .. Len(recs[h]) + 1
            PROVE  i = Len(recs[h]) + 1 \/ i \in 1 .. Len(recs[h])
          BY <1>0
      <4>2. Lags(r, r)
          BY DEF Lags
      <4>3. QED
          BY <3>2, <3>3, <4>1, <4>2
    <3>5. Lagging(file'[h], recs'[h])
        BY <3>2, <3>4 DEF Lagging
    <3>6. closed'[h] <= Len(file'[h])
        BY <1>0, <2>1, <3>2
    <3>7. QED
        BY <3>5, <3>6
  <2>4. QED
      BY <2>2, <2>3
<1>2. ASSUME NEW x \in Actors, AwaitCaptures(x), NEW h \in Hooks
      PROVE  Lagging(file'[h], recs'[h]) /\ closed'[h] <= Len(file'[h])
  <2>1. UNCHANGED <<file, closed>>
      BY <1>2, AwaitIs
  <2>2. /\ recs'[h] \in Seq(Records) /\ Updated(recs[h], caps[h], recs'[h])
        /\ Told(recs[h], caps[h])
      BY <1>2, AppliedIs, RecsAre
  <2>3. DOMAIN recs'[h] = 1 .. Len(recs[h]) /\ Len(recs'[h]) = Len(recs[h])
      BY <2>2, RecordDomains DEF Updated
  <2>4. ASSUME NEW i \in 1 .. Len(recs[h])
        PROVE  Lags(file[h][i], recs'[h][i])
    <3>1. Lags(file[h][i], recs[h][i])
        BY <1>0, <2>4 DEF Lagging
    <3>2. recs'[h][i].kind = recs[h][i].kind /\ recs'[h][i].capture = recs[h][i].capture
        BY <2>2, <2>4 DEF Updated
    <3>3. CASE recs'[h][i].checkpoint = recs[h][i].checkpoint
        BY <3>1, <3>2, <3>3 DEF Lags
    <3>4. CASE /\ recs[h][i].capture > 0
               /\ recs'[h][i].checkpoint = caps[h][recs[h][i].capture].result
      <4>1. recs[h][i].checkpoint \in {None, caps[h][recs[h][i].capture].result}
          BY <1>0, <2>2, <2>4, <3>4 DEF Told
      <4>2. QED
          BY <3>1, <3>2, <3>4, <4>1 DEF Lags
    <3>5. QED
        BY <2>2, <2>4, <3>3, <3>4 DEF Updated
  <2>5. QED
      BY <1>0, <2>1, <2>3, <2>4 DEF Lagging
<1>3. ASSUME WriteSummary("run"), NEW h \in Hooks
      PROVE  Lagging(file'[h], recs'[h]) /\ closed'[h] <= Len(file'[h])
  <2>1. file' = recs' /\ closed'[h] = Len(recs'[h])
      BY <1>3, WriteIs
  <2>2. TypeOK'
      BY TypeStep
  <2>3. recs'[h] \in Seq(Records)
      BY <2>2 DEF TypeOK
  <2>4. QED
      BY <2>1, <2>3, RecordDomains DEF Lagging, Lags
<1>4. ASSUME WriteSummary("sub"), NEW h \in Hooks
      PROVE  Lagging(file'[h], recs'[h]) /\ closed'[h] <= Len(file'[h])
  <2>1. Hook("sub") = "sub" /\ "sub" \in Hooks /\ "main" \in Hooks
      BY DEF Hook, Hooks
  <2>2. CASE h = "main"
    <3>1. recs'[h] = recs[h] /\ file'[h] = file[h] /\ UNCHANGED closed
        BY <1>4, <2>1, <2>2, WriteIs
    <3>2. QED
        BY <1>0, <3>1
  <2>3. CASE h = "sub"
    <3>1. recs'[h] = Append(Resolved(recs[h]), Summary) /\ file'[h] = Append(file[h], Summary)
          /\ UNCHANGED closed
        BY <1>4, <2>1, <2>3, WriteIs, SummaryType
    <3>2. /\ Resolved(recs[h]) \in Seq(Records) /\ Summary \in Records
          /\ Updated(recs[h], caps[h], Resolved(recs[h]))
          /\ \A i \in 1 .. Len(recs[h]) :
                Resolved(recs[h])[i].checkpoint = recs[h][i].checkpoint
        BY <2>1, <2>3, SummaryType
    <3> DEFINE others == Resolved(recs[h])
    <3> HIDE DEF others
    <3>3. Len(others) = Len(recs[h])
        BY <3>2 DEF Updated, others
    <3>4. /\ DOMAIN recs'[h] = 1 .. Len(recs[h]) + 1
          /\ Len(recs'[h]) = Len(recs[h]) + 1 /\ Len(file'[h]) = Len(recs[h]) + 1
          /\ recs'[h][Len(recs[h]) + 1] = Summary /\ file'[h][Len(recs[h]) + 1] = Summary
          /\ \A i \in 1 .. Len(recs[h]) : recs'[h][i] = others[i] /\ file'[h][i] = file[h][i]
        BY <1>0, <3>1, <3>2, <3>3, AppendDomains DEF others
    <3>5. \A i \in 1 .. Len(recs[h]) :
            /\ others[i].kind = recs[h][i].kind /\ others[i].capture = recs[h][i].capture
            /\ others[i].checkpoint = recs[h][i].checkpoint
        BY <3>2 DEF Updated, others
    <3>6. ASSUME NEW i \in 1 .. Len(recs[h]) + 1
          PROVE  Lags(file'[h][i], recs'[h][i])
      <4>1. CASE i = Len(recs[h]) + 1
          BY <3>4, <4>1 DEF Lags
      <4>2. CASE i # Len(recs[h]) + 1
        <5>1. i \in 1 .. Len(recs[h])
            BY <1>0, <4>2
        <5>2. Lags(file[h][i], recs[h][i])
            BY <1>0, <5>1 DEF Lagging
        <5>3. QED
            BY <3>4, <3>5, <5>1, <5>2 DEF Lags
      <4>3. QED
          BY <4>1, <4>2
    <3>7. QED
        BY <1>0, <3>1, <3>4, <3>6 DEF Lagging
  <2>4. QED
      BY <2>2, <2>3 DEF Hooks
<1>5. ASSUME Quiet, NEW h \in Hooks
      PROVE  Lagging(file'[h], recs'[h]) /\ closed'[h] <= Len(file'[h])
    BY <1>0, <1>5 DEF Quiet
<1>6. QED
    BY <1>1, <1>2, <1>3, <1>4, <1>5, RecorderSteps DEF FileInv

\* The record of a capture that told of the root keeps doing so.
LEMMA Persists ==
    ASSUME TypeOK, ScanInv, CapsInv, RecsInv, LastInv, HandInv, [Next]_vars, NEW h \in Hooks,
           NEW j \in DOMAIN recs[h], recs[h][j].capture > 0,
           Tells(caps[h][recs[h][j].capture].result)
    PROVE  /\ j \in DOMAIN recs'[h] /\ recs'[h][j].capture = recs[h][j].capture
           /\ caps'[h][recs[h][j].capture].result = caps[h][recs[h][j].capture].result
<1>1. /\ recs[h] \in Seq(Records) /\ DOMAIN recs[h] = 1 .. Len(recs[h])
      /\ Len(recs[h]) \in Nat /\ NumberedBy(recs[h], caps[h])
    BY RecsAre, RecordDomains
<1>2. caps'[h][recs[h][j].capture].result = caps[h][recs[h][j].capture].result
  <2>1. CapsKept(h) /\ Len(caps[h]) \in Nat
      BY CapsKeep
  <2>2. recs[h][j].capture \in 1 .. Len(caps[h])
      BY <1>1, <2>1 DEF NumberedBy
  <2>3. caps[h][recs[h][j].capture].result # None
      BY NoneTells
  <2>4. QED
      BY <2>1, <2>2, <2>3 DEF CapsKept
<1>3. ASSUME NEW x \in Turns, NEW r \in Records, Adds(x, r)
      PROVE  j \in DOMAIN recs'[h] /\ recs'[h][j].capture = recs[h][j].capture
  <2>1. recs'[h] = recs[h] \/ recs'[h] = Append(recs[h], r)
      BY <1>3, AddedIs
  <2>2. QED
      BY <1>1, <2>1, AppendDomains
<1>4. ASSUME NEW x \in Actors, AwaitCaptures(x)
      PROVE  j \in DOMAIN recs'[h] /\ recs'[h][j].capture = recs[h][j].capture
    BY <1>1, <1>4, AppliedIs, UpdatedUnapplied
<1>5. ASSUME NEW x \in {"run", "sub"}, WriteSummary(x)
      PROVE  j \in DOMAIN recs'[h] /\ recs'[h][j].capture = recs[h][j].capture
  <2>1. recs'[h][j].capture = recs[h][j].capture
      BY <1>1, <1>5, RecsWrite
  <2>2. CASE h # Hook(x)
      BY <1>5, <2>1, <2>2, WriteIs
  <2>3. CASE h = Hook(x)
    <3>1. /\ recs'[h] = Append(Resolved(recs[h]), Summary) /\ Summary \in Records
          /\ Resolved(recs[h]) \in Seq(Records) /\ Len(Resolved(recs[h])) = Len(recs[h])
        BY <1>5, <2>3, WriteIs, SummaryType DEF Updated
    <3>2. DOMAIN recs'[h] = 1 .. Len(recs[h]) + 1
        BY <3>1, AppendDomains
    <3>3. QED
        BY <1>1, <2>1, <3>2
  <2>4. QED
      BY <2>2, <2>3
<1>6. Quiet => j \in DOMAIN recs'[h] /\ recs'[h][j].capture = recs[h][j].capture
    BY DEF Quiet
<1>7. QED
    BY <1>2, <1>3, <1>4, <1>5, <1>6, RecorderSteps

LEMMA LastStep ==
    ASSUME TypeOK, ScanInv, CapsInv, RecsInv, LastInv, HandInv, [Next]_vars PROVE LastInv'
<1> SUFFICES ASSUME NEW h \in Hooks, last'[h] # Never
             PROVE  \E j \in DOMAIN recs'[h] :
                      /\ recs'[h][j].capture > 0
                      /\ Tells(caps'[h][recs'[h][j].capture].result)
                      /\ caps'[h][recs'[h][j].capture].result.marker = last'[h]
    BY DEF LastInv
<1>1. CASE last'[h] = last[h]
  <2>1. PICK j \in DOMAIN recs[h] :
            /\ recs[h][j].capture > 0
            /\ Tells(caps[h][recs[h][j].capture].result)
            /\ caps[h][recs[h][j].capture].result.marker = last[h]
      BY <1>1 DEF LastInv
  <2>2. /\ j \in DOMAIN recs'[h] /\ recs'[h][j].capture = recs[h][j].capture
        /\ caps'[h][recs[h][j].capture].result = caps[h][recs[h][j].capture].result
      BY <2>1, Persists
  <2>3. QED
      BY <1>1, <2>1, <2>2
<1>2. ASSUME NEW x \in Actors, AwaitCaptures(x), last'[h] # last[h]
      PROVE  \E j \in DOMAIN recs'[h] :
                      /\ recs'[h][j].capture > 0
                      /\ Tells(caps'[h][recs'[h][j].capture].result)
                      /\ caps'[h][recs'[h][j].capture].result.marker = last'[h]
  <2>1. Ready(x) \in SUBSET (1 .. Len(caps[Hook(x)])) /\ Hook(x) \in Hooks
      BY AppliedType, HookIn DEF Ready
  <2>2. /\ \A g \in Hooks \ {Hook(x)} : last'[g] = last[g]
        /\ \/ last'[Hook(x)] = last[Hook(x)]
           \/ \E c \in Ready(x) : /\ IsManifest(caps[Hook(x)][c].result)
                                  /\ last'[Hook(x)] = caps[Hook(x)][c].result.marker
      BY <1>2, <2>1, AwaitIs, RecordType
  <2>3. PICK c \in Ready(x) : h = Hook(x) /\ IsManifest(caps[h][c].result)
                              /\ last'[h] = caps[h][c].result.marker
      BY <1>2, <2>2
  <2>4. /\ NumberedBy(recs[h], caps[h]) /\ caps[h] \in Seq(Captures)
        /\ c \in DOMAIN caps[h] /\ c > 0
    <3>1. caps[h] \in Seq(Captures) /\ NumberedBy(recs[h], caps[h])
        BY RecsAre
    <3>2. c \in 1 .. Len(caps[h]) /\ DOMAIN caps[h] = 1 .. Len(caps[h]) /\ Len(caps[h]) \in Nat
        BY <2>1, <2>3, <3>1
    <3>3. QED
        BY <3>1, <3>2
  <2>5. PICK j \in DOMAIN recs[h] : recs[h][j].capture = c
      BY <2>4 DEF NumberedBy
  <2>6. Tells(caps[h][c].result)
      BY <2>3 DEF Tells, IsManifest
  <2>7. /\ j \in DOMAIN recs'[h] /\ recs'[h][j].capture = c
        /\ caps'[h][c].result = caps[h][c].result
      BY <2>4, <2>5, <2>6, Persists
  <2>8. QED
      BY <2>3, <2>4, <2>6, <2>7
<1>3. last' = last \/ \E x \in Actors : AwaitCaptures(x)
  <2>1. ASSUME NEW x \in {"run", "sub"}, WriteSummary(x) PROVE last' = last
      BY <2>1, WriteIs
  <2>2. QED
      BY <2>1, RecorderSteps DEF Adds, Quiet
<1>4. QED
    BY <1>1, <1>2, <1>3

\* The captures of a turn that goes on are applied.
LEMMA OwnApplied ==
    ASSUME TypeOK, HandInv, NEW x \in Turns, Awaited(x), Settled(x),
           NEW c \in Own(x), c > 0
    PROVE  c \notin Held(Hook(x))
<1>0. x \in Actors /\ Hook(x) \in Hooks /\ c \in DOMAIN caps[Hook(x)]
      /\ taken[Hook(x)] \in Nat /\ DOMAIN caps[Hook(x)] \subseteq Nat
  <2>1. x \in Actors /\ Hook(x) \in Hooks
      BY HookIn
  <2>2. caps[Hook(x)] \in Seq(Captures) /\ taken[Hook(x)] \in Nat
      BY <2>1 DEF TypeOK
  <2>3. DOMAIN caps[Hook(x)] \subseteq Nat
      BY <2>2
  <2>4. c \in DOMAIN caps[Hook(x)]
      BY DEF Own
  <2>5. QED
      BY <2>1, <2>2, <2>3, <2>4
<1>1. c \notin Pending(Hook(x))
  <2>1. CASE hand[x] = NotAsked
    <3>1. Pending(Hook(x)) = {}
        BY <2>1 DEF Awaited, NotAsked
    <3>2. QED
        BY <3>1
  <2>2. CASE hand[x] # NotAsked
    <3>1. c <= taken[Hook(x)]
        BY <1>0, <2>2 DEF HandInv
    <3>2. QED
        BY <1>0, <3>1 DEF Pending
  <2>3. QED
      BY <2>1, <2>2
<1>2. ASSUME NEW y \in Actors, Hook(y) = Hook(x) PROVE c \notin hand[y]
  <2>1. CASE y = x
      BY <2>1 DEF Awaited, NotAsked
  <2>2. CASE y # x
      BY <1>2, <2>2 DEF Settled
  <2>3. QED
      BY <2>1, <2>2
<1>3. QED
    BY <1>1, <1>2 DEF Held

\* Who changes the records of a hook.
LEMMA SubRecs ==
    ASSUME TypeOK, CapsInv, RecsInv, LastInv, HandInv, [Next]_vars
    PROVE  \/ recs'["sub"] = recs["sub"]
           \/ \E r \in Records : Adds("sub", r)
           \/ AwaitCaptures("sub")
           \/ WriteSummary("sub")
<1>0. /\ "sub" \in Hooks /\ \A x \in Actors : Hook(x) = "sub" => x = "sub"
      /\ Turns \subseteq Actors
    BY DEF Hooks, Hook, Turns, Actors
<1>1. ASSUME NEW x \in Turns, NEW r \in Records, Adds(x, r)
      PROVE  recs'["sub"] = recs["sub"] \/ Adds("sub", r)
    BY <1>0, <1>1, AddedIs
<1>2. ASSUME NEW x \in Actors, AwaitCaptures(x)
      PROVE  recs'["sub"] = recs["sub"] \/ AwaitCaptures("sub")
    BY <1>0, <1>2, AppliedIs
<1>3. ASSUME NEW x \in {"run", "sub"}, WriteSummary(x)
      PROVE  recs'["sub"] = recs["sub"] \/ WriteSummary("sub")
  <2>1. CASE x = "run"
      BY <1>0, <1>3, <2>1, WriteIs, HookIn
  <2>2. CASE x = "sub"
      BY <1>3, <2>2
  <2>3. QED
      BY <2>1, <2>2
<1>4. QED
    BY <1>1, <1>2, <1>3, RecorderSteps DEF Quiet

LEMMA MainRecs ==
    ASSUME TypeOK, CapsInv, RecsInv, LastInv, HandInv, [Next]_vars
    PROVE  \/ recs'["main"] = recs["main"]
           \/ \E x \in MainTurns : \E r \in Records : Adds(x, r)
           \/ \E x \in Actors : AwaitCaptures(x) /\ Hook(x) = "main"
           \/ WriteSummary("run")
<1>0. /\ "main" \in Hooks /\ Hook("sub") = "sub" /\ Turns \subseteq Actors
      /\ \A x \in Turns : x # "sub" => x \in MainTurns
    BY DEF Hooks, Hook, Turns, MainTurns, Actors
<1>1. ASSUME NEW x \in Turns, NEW r \in Records, Adds(x, r)
      PROVE  recs'["main"] = recs["main"] \/ x \in MainTurns
    BY <1>0, <1>1, AddedIs
<1>2. ASSUME NEW x \in Actors, AwaitCaptures(x)
      PROVE  recs'["main"] = recs["main"] \/ Hook(x) = "main"
    BY <1>0, <1>2, AppliedIs
<1>3. ASSUME NEW x \in {"run", "sub"}, WriteSummary(x)
      PROVE  recs'["main"] = recs["main"] \/ WriteSummary("run")
  <2>1. CASE x = "sub"
      BY <1>0, <1>3, <2>1, WriteIs
  <2>2. CASE x = "run"
      BY <1>3, <2>2
  <2>3. QED
      BY <2>1, <2>2
<1>4. QED
    BY <1>1, <1>2, <1>3, RecorderSteps DEF Quiet

\* Nothing of the subagent is to be applied when it asks for its metadata.
LEMMA SubApplied ==
    ASSUME TypeOK, RecsInv, HandInv, FetchMetadata("sub")
    PROVE  Unapplied(recs["sub"]) = {}
<1>1. ASSUME NEW i \in Unapplied(recs["sub"]) PROVE FALSE
  <2>0. "sub" \in Hooks /\ Hook("sub") = "sub" /\ "sub" \in Turns
        /\ \A y \in Actors : Hook(y) = "sub" => y = "sub"
      BY DEF Hooks, Hook, Turns, Actors
  <2>1. Awaited("sub") /\ pc["sub"] # "ended"
      BY DEF FetchMetadata, At
  <2>2. Settled("sub")
      BY <2>0 DEF Settled
  <2>3. /\ recs["sub"] \in Seq(Records) /\ caps["sub"] \in Seq(Captures)
        /\ NumberedBy(recs["sub"], caps["sub"]) /\ Told(recs["sub"], caps["sub"])
        /\ Waiting("sub")
      BY <2>0, <2>1, RecsAre
  <2> DEFINE c == recs["sub"][i].capture
  <2>4. c \in 1 .. Len(caps["sub"]) /\ c > 0 /\ c \in Held("sub")
      BY <1>1, <2>3, UnappliedIs DEF Waiting
  <2>5. c \in DOMAIN caps["sub"] /\ caps["sub"][c] \in Captures
      BY <2>3, <2>4
  <2>6. caps["sub"][c].turn = "sub"
      BY <2>0, <2>5, HookIn DEF HandInv, Captures
  <2>7. c \in Own("sub")
      BY <2>0, <2>5, <2>6 DEF Own
  <2>8. QED
      BY <2>0, <2>1, <2>2, <2>4, <2>7, OwnApplied
<1>2. QED
    BY <1>1

LEMMA SubStep ==
    ASSUME TypeOK, ScanInv, CapsInv, RecsInv, LastInv, HandInv, SubInv, [Next]_vars
    PROVE  SubInv'
<1> DEFINE lines == recs["sub"]
<1>0. /\ "sub" \in Hooks /\ Hook("sub") = "sub" /\ "sub" \in Turns /\ "sub" \in Actors
      /\ lines \in Seq(Records) /\ DOMAIN lines = 1 .. Len(lines) /\ Len(lines) \in Nat
      /\ pc \in [Actors -> Places] /\ "sub" \notin MainTurns
    BY HookIn, RecordDomains DEF Hooks, TypeOK, MainTurns
<1>1. PcMoves("sub")
    BY <1>0, PcSteps
<1>2. pc'["sub"] \in {"idle", "before", "after", "results", "summary", "metadata", "ended"}
    BY <1>0, <1>1 DEF PcMoves, SubInv
<1>3. pc'["sub"] # "ended" => pc["sub"] # "ended"
    BY EndedStays
<1>4. ASSUME NEW r \in Records, Adds("sub", r)
      PROVE  /\ lines' = Append(lines, r) /\ r.kind # "summary"
             /\ DOMAIN lines' = 1 .. Len(lines) + 1 /\ Len(lines') = Len(lines) + 1
             /\ lines'[Len(lines) + 1] = r
             /\ \A i \in 1 .. Len(lines) : lines'[i] = lines[i]
             /\ pc["sub"] \in {"after", "results"} /\ pc'["sub"] \in {"idle", "results"}
  <2>1. lines' = Append(lines, r)
      BY <1>0, <1>4, AddedIs
  <2>2. r.kind # "summary" /\ pc["sub"] \in {"after", "results"}
        /\ pc'["sub"] \in {"idle", "results"}
      BY <1>0, <1>4 DEF Adds, Go
  <2>3. QED
      BY <1>0, <2>1, <2>2, AppendDomains
<1>5. ASSUME AwaitCaptures("sub")
      PROVE  /\ lines' \in Seq(Records) /\ Updated(lines, caps["sub"], lines')
             /\ Unapplied(lines') \subseteq Unapplied(lines)
             /\ DOMAIN lines' = 1 .. Len(lines) /\ pc' = pc /\ pc["sub"] # "ended"
             /\ pc["sub"] # "metadata"
             /\ \A i \in 1 .. Len(lines) : lines'[i].kind = lines[i].kind
  <2>1. lines' \in Seq(Records) /\ Updated(lines, caps["sub"], lines') /\ pc' = pc
        /\ Awaits("sub")
      BY <1>0, <1>5, AppliedIs, AwaitIs
  <2>2. pc["sub"] # "ended" /\ pc["sub"] # "metadata"
      BY <2>1 DEF Awaits
  <2>3. /\ Unapplied(lines') \subseteq Unapplied(lines) /\ DOMAIN lines' = 1 .. Len(lines)
        BY <1>0, <2>1, UpdatedUnapplied
  <2>4. \A i \in 1 .. Len(lines) : lines'[i].kind = lines[i].kind
      BY <2>1 DEF Updated
  <2>5. QED
      BY <2>1, <2>2, <2>3, <2>4
<1>6. ASSUME WriteSummary("sub")
      PROVE  /\ pc["sub"] = "metadata" /\ pc'["sub"] = "ended"
             /\ Unapplied(lines') = Unapplied(lines)
             /\ DOMAIN lines' = 1 .. Len(lines) + 1
             /\ lines'[Len(lines) + 1] = Summary
             /\ \A i \in 1 .. Len(lines) : lines'[i].metadata = "fetched"
  <2>1. /\ lines' = Append(Resolved(lines), Summary) /\ Summary \in Records
        /\ Resolved(lines) \in Seq(Records) /\ Len(Resolved(lines)) = Len(lines)
        /\ \A i \in 1 .. Len(lines) : Resolved(lines)[i].metadata = "fetched"
      BY <1>0, <1>6, WriteIs, SummaryType DEF Updated
  <2>2. pc["sub"] = "metadata" /\ pc'["sub"] = "ended"
      BY <1>0, <1>6, WriteIs
  <2>3. Unapplied(lines') = Unapplied(lines)
      BY <1>0, <1>6, RecsWrite
  <2> DEFINE others == Resolved(lines)
  <2> HIDE DEF others
  <2>4. /\ DOMAIN lines' = 1 .. Len(lines) + 1 /\ lines'[Len(lines) + 1] = Summary
        /\ \A i \in 1 .. Len(lines) : lines'[i] = others[i]
      BY <1>0, <2>1, AppendDomains DEF others
  <2>5. QED
      BY <2>1, <2>2, <2>3, <2>4 DEF others
<1>7. \/ lines' = lines \/ \E r \in Records : Adds("sub", r)
      \/ AwaitCaptures("sub") \/ WriteSummary("sub")
    BY SubRecs
<1> HIDE DEF lines
<1>8. ASSUME pc'["sub"] # "ended", NEW i \in DOMAIN lines' PROVE lines'[i].kind # "summary"
  <2>1. \A j \in DOMAIN lines : lines[j].kind # "summary"
      BY <1>3, <1>8 DEF SubInv, lines
  <2>2. ASSUME NEW r \in Records, Adds("sub", r) PROVE lines'[i].kind # "summary"
    <3>1. i = Len(lines) + 1 \/ i \in DOMAIN lines
        BY <1>0, <1>4, <1>8, <2>2
    <3>2. QED
        BY <1>0, <1>4, <2>1, <2>2, <3>1
  <2>3. QED
      BY <1>0, <1>5, <1>6, <1>7, <1>8, <2>1, <2>2
<1>9. ASSUME pc'["sub"] = "metadata" PROVE Unapplied(lines') = {}
  <2>1. CASE pc["sub"] = "metadata"
      BY <1>4, <1>5, <1>6, <1>7, <2>1 DEF SubInv, lines
  <2>2. CASE pc["sub"] # "metadata"
    <3>1. FetchMetadata("sub")
        BY <1>0, <1>1, <1>9, <2>2 DEF PcMoves
    <3>2. UNCHANGED recs
        BY <3>1 DEF FetchMetadata, trace
    <3>3. QED
        BY <3>1, <3>2, SubApplied DEF lines
  <2>3. QED
      BY <2>1, <2>2
<1>10. ASSUME lines' # <<>>, Last(lines').kind = "summary"
       PROVE  /\ Unapplied(lines') = {}
              /\ \A i \in DOMAIN lines' : lines'[i].kind # "summary" =>
                   lines'[i].metadata = "fetched"
  <2>0. lines' \in Seq(Records)
    <3>1. TypeOK'
        BY TypeStep
    <3>2. QED
        BY <1>0, <3>1 DEF TypeOK, lines
  <2>1. pc'["sub"] = "ended"
    <3>1. Len(lines') \in DOMAIN lines' /\ lines'[Len(lines')].kind = "summary"
        BY <1>10, <2>0 DEF Last
    <3>2. QED
        BY <1>8, <3>1
  <2>2. CASE WriteSummary("sub")
    <3>1. Unapplied(lines') = {}
        BY <1>6, <2>2 DEF SubInv, lines
    <3>2. \A i \in DOMAIN lines' : i \in 1 .. Len(lines) \/ i = Len(lines) + 1
        BY <1>0, <1>6, <2>2
    <3>3. QED
        BY <1>6, <2>2, <3>1, <3>2, SummaryIs
  <2>3. CASE lines' = lines
      BY <1>10, <2>3 DEF SubInv, lines
  <2>4. ASSUME NEW r \in Records, Adds("sub", r) PROVE FALSE
      BY <1>4, <2>1, <2>4
  <2>5. ~ AwaitCaptures("sub")
      BY <1>5, <2>1
  <2>6. QED
      BY <1>7, <2>2, <2>3, <2>4, <2>5
<1>11. QED
    BY <1>2, <1>8, <1>9, <1>10 DEF SubInv, lines

LEMMA LateIs == [Next]_vars => UNCHANGED late \/ RunFinishes
<1> USE DEF disk, flow, messageVars, captures, trace, history
<1>1. ASSUME NEW x \in Turns,
             \/ \E calls \in Batches[x] : BeforeIteration(x, calls)
             \/ BeforeExecuteTools(x) \/ AfterIteration(x)
             \/ OtherResult(x) \/ ScheduleCapture(x) \/ SkipUnchanged(x)
             \/ ProbeFails(x) \/ TurnEnds(x)
      PROVE  UNCHANGED late
    BY <1>1 DEF BeforeIteration, BeforeExecuteTools, AfterIteration, OtherResult,
                ScheduleCapture, SkipUnchanged, ProbeFails, RecordResult, TurnEnds
<1>2. ASSUME NEW h \in Hooks, CaptureScan(h) \/ CaptureFails(h) \/ CaptureWrites(h)
      PROVE  UNCHANGED late
    BY <1>2 DEF CaptureScan, CaptureFails, CaptureWrites, Captured
<1>3. ASSUME NEW x \in Actors, AwaitCaptures(x) PROVE UNCHANGED late
    BY <1>3 DEF AwaitCaptures
<1>4. ASSUME NEW x \in {"run", "sub"}, FetchMetadata(x) \/ WriteSummary(x)
      PROVE  UNCHANGED late
    BY <1>4 DEF FetchMetadata, WriteSummary, SummaryWritten
<1>5. ASSUME SubFinishes \/ SubCancelled PROVE UNCHANGED late
    BY <1>5 DEF SubFinishes, SubCancelled
<1>6. ASSUME NEW p \in Paths, Change(p) PROVE UNCHANGED late
    BY <1>6 DEF Change
<1>7. UNCHANGED vars => UNCHANGED late
    BY DEF vars
<1>8. QED
    BY <1>1, <1>2, <1>3, <1>4, <1>5, <1>6, <1>7 DEF Next, Done

\* What is to be applied of a turn that is not late, once run() has its reply.
Drained(i) ==
    LET c == recs["main"][i].capture
    IN  \/ caps["main"][c].turn \in late
        \/ c \in hand["run"]
        \/ pc["run"] = "summary" /\ hand["run"] = NotAsked /\ c \in Pending("main")

\* run() has its reply: the captures of the turns that are over are pending.
LEMMA ReplyDrains ==
    ASSUME TypeOK, RecsInv, HandInv, RunFinishes, NEW i \in Unapplied(recs["main"])
    PROVE  Drained(i)'
<1> DEFINE c == recs["main"][i].capture
<1>0. /\ "main" \in Hooks /\ Hook("run") = "main" /\ "run" \in Actors
      /\ MainTurns \subseteq Turns /\ Turns \subseteq Actors
      /\ \A x \in Turns : Hook(x) = "main" <=> x \in MainTurns
    BY DEF Hooks, Hook, Turns, MainTurns, Actors
<1>1. /\ pc["run"] = "waiting" /\ pc' = [pc EXCEPT !["run"] = "summary"]
      /\ late' = {x \in MainTurns : pc[x] # "over"}
      /\ \A x \in MainTurns : pc[x] = "over" => Settled(x)
      /\ UNCHANGED <<hand, caps, recs, taken>>
    BY DEF RunFinishes, At, Go, captures, trace
<1>2. hand["run"] = NotAsked /\ pc \in [Actors -> Places]
    BY <1>0, <1>1, IdleHand DEF TypeOK
<1>3. /\ recs["main"] \in Seq(Records) /\ caps["main"] \in Seq(Captures)
      /\ NumberedBy(recs["main"], caps["main"]) /\ Told(recs["main"], caps["main"])
      /\ Waiting("main")
    BY <1>0, RecsAre
<1>4. c \in 1 .. Len(caps["main"]) /\ c > 0 /\ c \in Held("main")
    BY <1>3, UnappliedIs DEF Waiting
<1>5. c \in DOMAIN caps["main"] /\ caps["main"][c] \in Captures
    BY <1>3, <1>4
<1> DEFINE t == caps["main"][c].turn
<1>6. t \in MainTurns /\ c \in Own(t)
    BY <1>0, <1>5 DEF HandInv, Captures, Own
<1>7. CASE c \in Pending("main")
  <2>1. c \in Pending("main")'
      BY <1>1, <1>7 DEF Pending
  <2>2. QED
      BY <1>0, <1>1, <1>2, <2>1 DEF Drained
<1>8. CASE pc[t] # "over"
    BY <1>1, <1>6, <1>8 DEF Drained
<1>9. CASE pc[t] = "over" /\ c \notin Pending("main")
  <2>1. Settled(t)
      BY <1>1, <1>6, <1>9
  <2>2. hand[t] = NotAsked
      BY <1>0, <1>6, <1>9, IdleHand
  <2>3. PICK y \in Actors : Hook(y) = "main" /\ c \in hand[y]
      BY <1>4, <1>9 DEF Held
  <2>4. y # t
      BY <1>4, <2>2, <2>3 DEF NotAsked
  <2>5. QED
      BY <1>0, <1>6, <2>1, <2>3, <2>4 DEF Settled
<1>10. QED
    BY <1>7, <1>8, <1>9

LEMMA DrainsOn ==
    ASSUME TypeOK, ScanInv, CapsInv, RecsInv, LastInv, HandInv, ReplyInv, [Next]_vars,
           pc["run"] # "waiting", NEW i \in Unapplied(recs'["main"])
    PROVE  Drained(i)'
<1> DEFINE c == recs["main"][i].capture
<1>0. /\ "main" \in Hooks /\ Hook("run") = "main" /\ "run" \in Actors /\ "run" \notin Turns
      /\ MainTurns \subseteq Turns /\ Turns \subseteq Actors
      /\ pc \in [Actors -> Places] /\ hand \in [Actors -> SUBSET Nat]
    BY HookIn DEF Hooks, TypeOK
<1>1. /\ recs["main"] \in Seq(Records) /\ caps["main"] \in Seq(Captures)
      /\ NumberedBy(recs["main"], caps["main"]) /\ Told(recs["main"], caps["main"])
      /\ DOMAIN recs["main"] = 1 .. Len(recs["main"]) /\ Len(recs["main"]) \in Nat
      /\ CapsKept("main") /\ Len(caps["main"]) \in Nat
      /\ DOMAIN caps["main"] = 1 .. Len(caps["main"])
    BY <1>0, RecsAre, RecordDomains, CapsKeep
<1>2. UNCHANGED late
    BY LateIs DEF RunFinishes, At
<1>3. ASSUME NEW j \in Unapplied(recs["main"])
      PROVE  /\ recs["main"][j].capture \in 1 .. Len(caps["main"])
             /\ recs["main"][j].capture > 0
             /\ caps'["main"][recs["main"][j].capture].turn
                  = caps["main"][recs["main"][j].capture].turn
             /\ Drained(j) /\ j \in 1 .. Len(recs["main"])
    BY <1>1, <1>3, UnappliedIs DEF CapsKept, ReplyInv, Drained
<1>4. ASSUME NEW x \in MainTurns, NEW r \in Records, Adds(x, r) PROVE Drained(i)'
  <2>1. x \in late /\ Hook(x) = "main"
      BY <1>0, <1>4 DEF ReplyInv, Adds, Hook, MainTurns
  <2>2. /\ recs'["main"] = Append(recs["main"], r)
        /\ hand'["run"] = hand["run"] /\ pc'["run"] = pc["run"] /\ UNCHANGED taken
    <3>1. UNCHANGED taken /\ recs'["main"] = Append(recs["main"], r)
        BY <1>0, <1>4, <2>1, AddedIs
    <3>2. hand' = [hand EXCEPT ![x] = NotAsked]
          /\ \E where \in {"idle", "results"} : pc' = [pc EXCEPT ![x] = where]
        BY <1>4 DEF Adds, Go
    <3>3. QED
        BY <1>0, <3>1, <3>2
  <2>3. /\ DOMAIN recs'["main"] = 1 .. Len(recs["main"]) + 1
        /\ recs'["main"][Len(recs["main"]) + 1] = r
        /\ \A j \in 1 .. Len(recs["main"]) : recs'["main"][j] = recs["main"][j]
      BY <1>1, <2>2, AppendDomains
  <2>4. CASE i = Len(recs["main"]) + 1
    <3>1. ~ AloneKeeps(recs["main"], caps["main"], r)
        BY <2>2, <2>3, <2>4 DEF AloneKeeps, Alone, Unapplied
    <3>2. ScheduleCapture(x) /\ r = Rec("exec", Len(caps["main"]) + 1, None)
        BY <1>4, <2>1, <3>1 DEF Adds
    <3> DEFINE new == [turn |-> x, full |-> last["main"] = Never, result |-> None]
    <3>3. caps'["main"] = Append(caps["main"], new)
        BY <1>0, <2>1, <3>2, ScheduleIs
    <3>4. r.capture = Len(caps["main"]) + 1 /\ new.turn = x
        BY <3>2 DEF Rec
    <3> HIDE DEF new
    <3>5. caps'["main"][Len(caps["main"]) + 1] = new
        BY <1>1, <3>3
    <3>6. QED
        BY <1>2, <2>1, <2>3, <2>4, <3>4, <3>5 DEF Drained
  <2>5. CASE i # Len(recs["main"]) + 1
    <3>1. i \in Unapplied(recs["main"]) /\ recs'["main"][i] = recs["main"][i]
        BY <1>1, <2>3, <2>5 DEF Unapplied
    <3>2. c \in Pending("main") => c \in Pending("main")'
      <4>1. DOMAIN caps'["main"] = 1 .. Len(caps'["main"]) /\ Len(caps'["main"]) \in Nat
        <5>1. TypeOK'
            BY TypeStep
        <5>2. QED
            BY <1>0, <5>1 DEF TypeOK
      <4>2. QED
          BY <1>1, <2>2, <4>1 DEF Pending, CapsKept
    <3>3. QED
        BY <1>2, <1>3, <2>2, <3>1, <3>2 DEF Drained
  <2>6. QED
      BY <2>4, <2>5
<1>5. ASSUME NEW x \in Actors, AwaitCaptures(x), Hook(x) = "main" PROVE Drained(i)'
  <2>1. /\ recs'["main"] \in Seq(Records) /\ caps' = caps
        /\ Updated(recs["main"], caps["main"], recs'["main"])
        /\ \A j \in 1 .. Len(recs["main"]) :
             recs["main"][j].capture \in Ready(x) => recs'["main"][j].checkpoint # None
      BY <1>0, <1>5, AppliedIs
  <2>2. /\ i \in Unapplied(recs["main"]) /\ recs'["main"][i].capture = c
        /\ i \in 1 .. Len(recs["main"])
      BY <1>1, <1>3, <2>1, UpdatedUnapplied
  <2>3. c \notin Ready(x)
      BY <2>1, <2>2 DEF Unapplied
  <2>4. /\ hand' = [hand EXCEPT ![x] = Asked(x) \ Ready(x)] /\ pc' = pc
        /\ Free(x) /\ Awaits(x)
      BY <1>5, AwaitIs
  <2>5. CASE caps["main"][c].turn \in late
      BY <1>2, <2>1, <2>2, <2>5 DEF Drained
  <2>6. CASE c \in hand["run"]
    <3>1. CASE x = "run"
      <4>1. hand[x] # NotAsked
          BY <1>3, <2>2, <2>6, <3>1 DEF NotAsked
      <4>2. c \in hand'["run"]
          BY <1>0, <2>3, <2>4, <2>6, <3>1, <4>1 DEF Asked
      <4>3. QED
          BY <2>2, <4>2 DEF Drained
    <3>2. CASE x # "run"
        BY <1>0, <2>2, <2>4, <2>6, <3>2 DEF Drained
    <3>3. QED
        BY <3>1, <3>2
  <2>7. CASE pc["run"] = "summary" /\ hand["run"] = NotAsked /\ c \in Pending("main")
    <3>1. Running("run")
        BY <2>7 DEF Running
    <3>2. x = "run"
        BY <1>0, <2>4, <3>1 DEF Free
    <3>3. c \in hand'["run"]
        BY <1>0, <2>3, <2>4, <2>7, <3>2 DEF Asked
    <3>4. QED
        BY <2>2, <3>3 DEF Drained
  <2>8. QED
      BY <1>3, <2>2, <2>5, <2>6, <2>7 DEF Drained
<1>6. ASSUME WriteSummary("run") PROVE Drained(i)'
  <2>1. /\ Unapplied(recs'["main"]) = Unapplied(recs["main"])
        /\ \A j \in 1 .. Len(recs["main"]) : recs'["main"][j].capture = recs["main"][j].capture
      BY <1>0, <1>6, RecsWrite
  <2>2. pc["run"] = "metadata" /\ UNCHANGED <<caps, hand>>
      BY <1>6, WriteIs
  <2>3. i \in Unapplied(recs["main"]) /\ recs'["main"][i].capture = c
      BY <1>3, <2>1
  <2>4. QED
      BY <1>2, <1>3, <2>2, <2>3 DEF Drained
<1>7. ASSUME recs'["main"] = recs["main"] PROVE Drained(i)'
  <2>1. i \in Unapplied(recs["main"]) /\ recs'["main"][i].capture = c
      BY <1>7
  <2>2. CASE caps["main"][c].turn \in late
      BY <1>2, <1>3, <2>1, <2>2 DEF Drained
  <2>3. CASE c \in hand["run"]
    <3>1. CASE hand'["run"] = hand["run"]
        BY <2>1, <2>3, <3>1 DEF Drained
    <3>2. CASE AwaitCaptures("run")
        BY <1>0, <1>5, <3>2
    <3>3. CASE hand'["run"] # hand["run"] /\ ~ AwaitCaptures("run")
      <4>1. hand'["run"] = NotAsked
          BY <1>0, <3>3, HandMoves
      <4>2. hand["run"] \notin {NotAsked, {}}
          BY <1>3, <2>1, <2>3 DEF NotAsked
      <4>3. ASSUME NEW x \in Turns, NEW r \in Records, Adds(x, r) PROVE FALSE
          BY <1>0, <3>3, <4>3 DEF Adds
      <4>4. ASSUME NEW x \in Actors, AwaitCaptures(x) PROVE FALSE
        <5>1. CASE x = "run"
            BY <3>3, <4>4, <5>1
        <5>2. CASE x # "run"
            BY <1>0, <3>3, <4>4, <5>2, AwaitIs
        <5>3. QED
            BY <5>1, <5>2
      <4>5. ASSUME NEW x \in {"run", "sub"}, WriteSummary(x) PROVE FALSE
          BY <3>3, <4>5, WriteIs
      <4>6. ~ Quiet
          BY <1>0, <3>3, <4>2 DEF Quiet
      <4>7. QED
          BY <4>3, <4>4, <4>5, <4>6, RecorderSteps
    <3>4. QED
        BY <3>1, <3>2, <3>3
  <2>4. CASE pc["run"] = "summary" /\ hand["run"] = NotAsked /\ c \in Pending("main")
    <3>1. CASE AwaitCaptures("run")
        BY <1>0, <1>5, <3>1
    <3>2. CASE ~ AwaitCaptures("run")
      <4>1. \A x \in Actors : x # "run" => ~ Free(x)
          BY <1>0, <2>4 DEF Free, Running
      <4>2. pc'["run"] = "summary"
        <5>1. PcMoves("run")
            BY <1>0, PcSteps
        <5>2. ~ FetchMetadata("run")
          <6>1. ASSUME FetchMetadata("run") PROVE FALSE
            <7>1. Awaited("run")
                BY <6>1 DEF FetchMetadata
            <7>2. Pending("main") = {}
                BY <1>0, <2>4, <7>1 DEF Awaited, NotAsked
            <7>3. QED
                BY <2>4, <7>2
          <6>2. QED
              BY <6>1
        <5>3. ~ WriteSummary("run") /\ ~ RunFinishes
            BY <2>4 DEF WriteSummary, SummaryWritten, RunFinishes, At
        <5>4. QED
            BY <1>0, <2>4, <5>1, <5>2, <5>3 DEF PcMoves
      <4>3. hand'["run"] = NotAsked
          BY <1>0, <2>4, <3>2, HandMoves
      <4>4. UNCHANGED taken
        <5>1. ASSUME NEW x \in Actors, AwaitCaptures(x) PROVE FALSE
            BY <3>2, <4>1, <5>1, AwaitIs
        <5>2. ASSUME NEW x \in {"run", "sub"}, WriteSummary(x) PROVE UNCHANGED taken
            BY <5>2, WriteIs
        <5>3. QED
            BY <5>1, <5>2, RecorderSteps DEF Adds, Quiet
      <4>5. c \in Pending("main")'
        <5>1. DOMAIN caps'["main"] = 1 .. Len(caps'["main"]) /\ Len(caps'["main"]) \in Nat
          <6>1. TypeOK'
              BY TypeStep
          <6>2. QED
              BY <1>0, <6>1 DEF TypeOK
        <5>2. QED
            BY <1>1, <2>4, <4>4, <5>1 DEF Pending, CapsKept
      <4>6. QED
          BY <2>1, <4>2, <4>3, <4>5 DEF Drained
    <3>3. QED
        BY <3>1, <3>2
  <2>5. QED
      BY <1>3, <2>1, <2>2, <2>3, <2>4 DEF Drained
<1>8. QED
    BY <1>4, <1>5, <1>6, <1>7, MainRecs

LEMMA ReplyStep ==
    ASSUME TypeOK, ScanInv, CapsInv, RecsInv, LastInv, HandInv, ReplyInv, [Next]_vars
    PROVE  ReplyInv'
<1>0. /\ "main" \in Hooks /\ Hook("run") = "main" /\ "run" \in Actors /\ "run" \notin Turns
      /\ MainTurns \subseteq Turns /\ Turns \subseteq Actors /\ "run" \notin MainTurns
      /\ pc \in [Actors -> Places] /\ "sub" \notin MainTurns
      /\ recs["main"] \in Seq(Records) /\ DOMAIN recs["main"] = 1 .. Len(recs["main"])
      /\ Len(recs["main"]) \in Nat
    BY HookIn, RecordDomains DEF Hooks, TypeOK, MainTurns, Turns
<1>1. PcMoves("run")
    BY <1>0, PcSteps
<1>2. pc'["run"] \in {"waiting", "summary", "metadata", "ended"}
    BY <1>0, <1>1 DEF PcMoves, ReplyInv
<1>3. CASE RunFinishes
  <2>1. /\ pc["run"] = "waiting" /\ pc' = [pc EXCEPT !["run"] = "summary"]
        /\ late' = {x \in MainTurns : pc[x] # "over"} /\ UNCHANGED <<recs, closed>>
      BY <1>3 DEF RunFinishes, At, Go, trace
  <2>2. \A x \in MainTurns \ late' : pc'[x] = "over"
      BY <1>0, <2>1
  <2>3. \A i \in Unapplied(recs'["main"]) : Drained(i)'
      BY <1>3, <2>1, ReplyDrains
  <2>4. QED
      BY <1>0, <1>2, <2>1, <2>2, <2>3 DEF ReplyInv, Drained
<1>4. CASE ~ RunFinishes
  <2>1. UNCHANGED late
      BY <1>4, LateIs
  <2>2. pc'["run"] # "waiting" => pc["run"] # "waiting"
      BY <1>0, <1>1, <1>4 DEF PcMoves, FetchMetadata, WriteSummary, SummaryWritten, At
  <2>3. ASSUME pc'["run"] # "waiting", NEW x \in MainTurns \ late PROVE pc'[x] = "over"
    <3>1. pc[x] = "over" /\ x \in Actors /\ x # "run" /\ x # "sub"
        BY <1>0, <2>2, <2>3 DEF ReplyInv
    <3>2. PcMoves(x)
        BY <3>1, PcSteps
    <3>3. ~ BeforeExecuteTools(x)
        BY <3>1 DEF BeforeExecuteTools, At
    <3>4. QED
        BY <3>1, <3>2, <3>3 DEF PcMoves
  <2>4. ASSUME pc'["run"] # "waiting", NEW i \in Unapplied(recs'["main"]) PROVE Drained(i)'
      BY <2>2, <2>4, DrainsOn
  <2>5. ASSUME pc'["run"] # "ended"
        PROVE  /\ \A h \in Hooks : closed'[h] = 0
               /\ \A i \in DOMAIN recs'["main"] : recs'["main"][i].kind # "summary"
    <3>1. pc["run"] # "ended"
        BY <1>0, <1>1, <1>4, <2>5 DEF PcMoves, FetchMetadata, At
    <3>2. ~ WriteSummary("run")
        BY <1>0, <2>5, WriteIs
    <3>3. UNCHANGED closed
      <4>1. ASSUME NEW x \in {"run", "sub"}, WriteSummary(x) PROVE UNCHANGED closed
        <5>1. x = "sub"
            BY <3>2, <4>1
        <5>2. QED
            BY <4>1, <5>1, WriteIs
      <4>2. ASSUME NEW x \in Actors, AwaitCaptures(x) PROVE UNCHANGED closed
          BY <4>2, AwaitIs
      <4>3. QED
          BY <4>1, <4>2, RecorderSteps DEF Adds, Quiet
    <3>4. \A i \in DOMAIN recs["main"] : recs["main"][i].kind # "summary"
        BY <3>1 DEF ReplyInv
    <3>5. ASSUME NEW x \in MainTurns, NEW r \in Records, Adds(x, r), NEW i \in DOMAIN recs'["main"]
          PROVE  recs'["main"][i].kind # "summary"
      <4>1. Hook(x) = "main" /\ r.kind # "summary"
          BY <3>5 DEF Adds, Hook, MainTurns
      <4>2. recs'["main"] = Append(recs["main"], r)
          BY <1>0, <3>5, <4>1, AddedIs
      <4>3. /\ DOMAIN recs'["main"] = 1 .. Len(recs["main"]) + 1
            /\ recs'["main"][Len(recs["main"]) + 1] = r
            /\ \A j \in 1 .. Len(recs["main"]) : recs'["main"][j] = recs["main"][j]
          BY <1>0, <4>2, AppendDomains
      <4>4. i = Len(recs["main"]) + 1 \/ i \in 1 .. Len(recs["main"])
          BY <1>0, <4>3
      <4>5. QED
          BY <1>0, <3>4, <4>1, <4>3, <4>4
    <3>6. ASSUME NEW x \in Actors, AwaitCaptures(x), NEW i \in DOMAIN recs'["main"]
          PROVE  recs'["main"][i].kind # "summary"
      <4>1. recs'["main"] \in Seq(Records) /\ Updated(recs["main"], caps["main"], recs'["main"])
          BY <1>0, <3>6, AppliedIs
      <4>2. i \in 1 .. Len(recs["main"])
          BY <1>0, <4>1, UpdatedUnapplied
      <4>3. QED
          BY <1>0, <3>4, <4>1, <4>2 DEF Updated
    <3>7. QED
        BY <3>1, <3>2, <3>3, <3>4, <3>5, <3>6, MainRecs DEF ReplyInv
  <2>6. QED
      BY <1>2, <2>1, <2>3, <2>4, <2>5 DEF ReplyInv, Drained
<1>5. QED
    BY <1>3, <1>4

\* The captures of a turn whose tools are about to run have their results.
LEMMA ToolsWait ==
    ASSUME TypeOK, RecsInv, HandInv, SubInv, NEW x \in Turns, BeforeExecuteTools(x),
           NEW c \in Own(x)
    PROVE  caps[Hook(x)][c].result # None
<1> DEFINE h == Hook(x)
<1>0. h \in Hooks /\ (h = "main" \/ x = "sub")
    BY HookIn DEF Hook
<1>1. pc[x] = "before" /\ Awaited(x) /\ Settled(x)
    BY DEF BeforeExecuteTools, At
<1>2. /\ recs[h] \in Seq(Records) /\ caps[h] \in Seq(Captures)
      /\ NumberedBy(recs[h], caps[h]) /\ Told(recs[h], caps[h]) /\ Waiting(h)
    BY <1>0, <1>1, RecsAre
<1>3. c \in DOMAIN caps[h]
    BY DEF Own
<1>4. c > 0
  <2>1. DOMAIN caps[h] = 1 .. Len(caps[h]) /\ Len(caps[h]) \in Nat
      BY <1>2
  <2>2. QED
      BY <1>3, <2>1
<1>5. PICK i \in DOMAIN recs[h] : recs[h][i].capture = c
    BY <1>2, <1>3 DEF NumberedBy
<1>6. ASSUME caps[h][c].result = None PROVE FALSE
  <2>1. recs[h][i].kind = "exec" /\ recs[h][i].checkpoint = None
      BY <1>2, <1>4, <1>5, <1>6 DEF Told
  <2>2. c \in Held(h)
      BY <1>2, <1>5, <2>1 DEF Waiting, Unapplied
  <2>3. QED
      BY <1>1, <1>4, <2>2, OwnApplied
<1>7. QED
    BY <1>6

LEMMA TodoSteps ==
    ASSUME TypeOK, [Next]_vars, NEW x \in Turns, pc'[x] = "after", todo'[x] # <<>>
    PROVE  BeforeExecuteTools(x) \/ (pc[x] = "after" /\ todo'[x] = todo[x])
<1> USE DEF disk, flow, messageVars, captures, trace, history
<1>0. pc \in [Actors -> Places] /\ todo \in [Turns -> Seq({"exec", "other"})]
      /\ Turns \subseteq Actors /\ {"run", "sub"} \subseteq Actors
    BY DEF TypeOK, Turns, Actors
<1> DEFINE Fine == BeforeExecuteTools(x) \/ (pc[x] = "after" /\ todo'[x] = todo[x])
<1>1. UNCHANGED <<pc, todo>> => Fine
    OBVIOUS
<1>2. ASSUME NEW y \in Turns, NEW calls, BeforeIteration(y, calls) PROVE Fine
  <2>1. CASE y = x
    <3>1. todo'[x] = calls
        BY <1>0, <1>2, <2>1 DEF BeforeIteration
    <3>2. pc'[x] = "before"
        BY <1>0, <1>2, <2>1, <3>1 DEF BeforeIteration, Go
    <3>3. QED
        BY <3>2
  <2>2. CASE y # x
      BY <1>0, <1>2, <2>2 DEF BeforeIteration, Go
  <2>3. QED
      BY <2>1, <2>2
<1>3. ASSUME NEW y \in Turns, BeforeExecuteTools(y) PROVE Fine
    BY <1>0, <1>3 DEF BeforeExecuteTools, Go
<1>4. ASSUME NEW y \in Turns, AfterIteration(y) PROVE Fine
    BY <1>0, <1>4 DEF AfterIteration, Go
<1>5. ASSUME NEW y \in Turns, NEW kind, NEW c, NEW ckpt, RecordResult(y, kind, c, ckpt)
      PROVE  Fine
  <2>1. \E where \in {"idle", "results"} : pc' = [pc EXCEPT ![y] = where]
      BY <1>5 DEF RecordResult, Go
  <2>2. todo' = [todo EXCEPT ![y] = Tail(todo[y])]
      BY <1>5 DEF RecordResult
  <2>3. QED
      BY <1>0, <2>1, <2>2
<1>6. ASSUME NEW y \in Turns, OtherResult(y) \/ ScheduleCapture(y) \/ SkipUnchanged(y)
                              \/ ProbeFails(y)
      PROVE  Fine
  <2>1. \E kind, c, ckpt : RecordResult(y, kind, c, ckpt)
      BY <1>6 DEF OtherResult, ScheduleCapture, SkipUnchanged, ProbeFails
  <2> HIDE DEF Fine
  <2>2. QED
      BY <1>5, <2>1
<1>7. ASSUME NEW y \in Actors, NEW where \in {"over", "metadata", "summary", "ended"},
             Go(y, where), UNCHANGED todo
      PROVE  Fine
    BY <1>0, <1>7 DEF Go
<1>8. ASSUME NEW y \in Turns, TurnEnds(y) PROVE Fine
    BY <1>0, <1>7, <1>8 DEF TurnEnds
<1>9. ASSUME NEW y \in {"run", "sub"}, FetchMetadata(y) \/ WriteSummary(y) PROVE Fine
  <2>1. (Go(y, "metadata") \/ Go(y, "ended")) /\ UNCHANGED todo
      BY <1>9 DEF FetchMetadata, WriteSummary, SummaryWritten
  <2> HIDE DEF Fine
  <2>2. QED
      BY <1>0, <1>7, <2>1
<1>10. ASSUME RunFinishes \/ SubFinishes \/ SubCancelled PROVE Fine
  <2>1. \E y \in {"run", "sub"} : Go(y, "summary") \/ Go(y, "ended")
      BY <1>10 DEF RunFinishes, SubFinishes, SubCancelled
  <2>2. UNCHANGED todo
      BY <1>10 DEF RunFinishes, SubFinishes, SubCancelled
  <2> HIDE DEF Fine
  <2>3. QED
      BY <1>0, <1>7, <2>1, <2>2
<1>11. ASSUME NEW h \in Hooks, CaptureScan(h) \/ CaptureFails(h) \/ CaptureWrites(h)
       PROVE  UNCHANGED <<pc, todo>>
    BY <1>11 DEF CaptureScan, CaptureFails, CaptureWrites, Captured
<1>12. ASSUME NEW y \in Actors, AwaitCaptures(y) PROVE UNCHANGED <<pc, todo>>
    BY <1>12 DEF AwaitCaptures
<1>13. ASSUME NEW p \in Paths, Change(p) PROVE UNCHANGED <<pc, todo>>
    BY <1>13 DEF Change
<1>14. UNCHANGED vars => UNCHANGED <<pc, todo>>
    BY DEF vars
<1>15. Fine
  <2> HIDE DEF Fine
  <2>1. ASSUME NEW y \in Turns, \/ \E calls \in Batches[y] : BeforeIteration(y, calls)
                                \/ BeforeExecuteTools(y) \/ AfterIteration(y)
                                \/ OtherResult(y) \/ ScheduleCapture(y) \/ SkipUnchanged(y)
                                \/ ProbeFails(y) \/ TurnEnds(y)
        PROVE  Fine
      BY <1>2, <1>3, <1>4, <1>6, <1>8, <2>1
  <2>2. QED
      BY <1>1, <1>9, <1>10, <1>11, <1>12, <1>13, <1>14, <2>1 DEF Next, Done
<1>16. QED
    BY <1>15

LEMMA WindowStep ==
    ASSUME TypeOK, ScanInv, CapsInv, RecsInv, LastInv, HandInv, SubInv, CapturedInWindow,
           [Next]_vars
    PROVE  CapturedInWindow'
<1> SUFFICES ASSUME NEW x \in Turns, pc'[x] = "after", todo'[x] # <<>>, NEW c \in Own(x)'
             PROVE  caps'[Hook(x)][c].result # None
    BY DEF CapturedInWindow
<1> DEFINE h == Hook(x)
<1>0. h \in Hooks /\ CapsKept(h) /\ Len(caps[h]) \in Nat /\ DOMAIN caps[h] = 1 .. Len(caps[h])
      /\ x \in Actors /\ pc \in [Actors -> Places]
    BY HookIn, CapsKeep DEF TypeOK
<1>1. c \in DOMAIN caps'[h] /\ caps'[h][c].turn = x /\ DOMAIN caps'[h] = 1 .. Len(caps'[h])
      /\ Len(caps'[h]) \in Nat
  <2>1. TypeOK'
      BY TypeStep
  <2>2. QED
      BY <1>0, <2>1 DEF Own, TypeOK
<1>2. ~ ScheduleCapture(x)
  <2>1. ASSUME ScheduleCapture(x) PROVE FALSE
    <3>1. \E where \in {"idle", "results"} : pc' = [pc EXCEPT ![x] = where]
        BY <2>1 DEF ScheduleCapture, RecordResult, Go
    <3>2. QED
        BY <1>0, <3>1
  <2>2. QED
      BY <2>1
<1>3. c \in 1 .. Len(caps[h])
    BY <1>0, <1>1, <1>2 DEF CapsKept
<1>4. c \in Own(x)
    BY <1>0, <1>1, <1>3 DEF CapsKept, Own
<1>5. caps[h][c].result # None
    BY <1>4, TodoSteps, ToolsWait DEF CapturedInWindow
<1>6. QED
    BY <1>0, <1>3, <1>5 DEF CapsKept

LEMMA ClosedLines ==
    ASSUME NEW lines \in Seq(Records), NEW n \in 0 .. Len(lines)
    PROVE  /\ SubSeq(lines, 1, n) \in Seq(Records) /\ Len(SubSeq(lines, 1, n)) = n
           /\ DOMAIN SubSeq(lines, 1, n) = 1 .. n
           /\ \A i \in 1 .. n : SubSeq(lines, 1, n)[i] = lines[i]
<1>1. \A i \in 1 .. n : lines[i] \in Records
    OBVIOUS
<1>2. SubSeq(lines, 1, n) = [i \in 1 .. n |-> lines[i]]
    OBVIOUS
<1>3. n \in Nat
    OBVIOUS
<1> DEFINE s == SubSeq(lines, 1, n)
<1>4. s \in [1 .. n -> Records]
    BY <1>1, <1>2
<1> HIDE DEF s
<1>5. s \in Seq(Records) /\ Len(s) = n
    BY <1>3, <1>4
<1>6. QED
    BY <1>2, <1>4, <1>5 DEF s

\* The first n lines of a file.
CompleteLines(f, n, cs, missed) ==
    LET lines == SubSeq(f, 1, n)
    IN  lines # <<>> /\ Last(lines).kind = "summary" =>
            \A i \in DOMAIN lines :
                /\ lines[i].kind # "summary" => lines[i].metadata = "fetched"
                /\ lines[i].kind = "exec" /\ lines[i].checkpoint = None =>
                     cs[lines[i].capture].turn \in missed

LEMMA CompleteIs ==
    ASSUME NEW f \in Seq(Records), NEW n \in 0 .. Len(f), NEW cs, NEW missed
    PROVE  CompleteLines(f, n, cs, missed) <=>
             (n > 0 /\ f[n].kind = "summary" =>
                \A i \in 1 .. n :
                   /\ f[i].kind # "summary" => f[i].metadata = "fetched"
                   /\ f[i].kind = "exec" /\ f[i].checkpoint = None =>
                        cs[f[i].capture].turn \in missed)
<1> DEFINE lines == SubSeq(f, 1, n)
<1>1. /\ lines \in Seq(Records) /\ Len(lines) = n /\ DOMAIN lines = 1 .. n
      /\ \A i \in 1 .. n : lines[i] = f[i]
    BY ClosedLines
<1>2. n \in Nat
    OBVIOUS
<1> HIDE DEF lines
<1>3. (lines # <<>>) <=> n > 0
    BY <1>1, <1>2
<1>4. n > 0 => Last(lines) = f[n]
    BY <1>1, <1>2 DEF Last
<1>5. QED
    BY <1>1, <1>3, <1>4 DEF CompleteLines, lines

LEMMA CompleteStep ==
    ASSUME TypeOK, ScanInv, CapsInv, RecsInv, LastInv, HandInv, FileInv, ReplyInv, SubInv,
           TraceComplete, [Next]_vars
    PROVE  TraceComplete'
<1>0. TypeOK' /\ FileInv' /\ RecsInv' /\ SubInv'
    BY TypeStep, FileStep, RecsStep, SubStep
<1> SUFFICES ASSUME NEW h \in Hooks
             PROVE  CompleteLines(file'[h], closed'[h], caps'[h], late')
    BY DEF TraceComplete, CompleteLines
<1>1. CompleteLines(file[h], closed[h], caps[h], late)
    BY DEF TraceComplete, CompleteLines
<1> DEFINE n == closed[h]
<1>2. /\ recs[h] \in Seq(Records) /\ file[h] \in Seq(Records) /\ n \in Nat
      /\ n <= Len(file[h]) /\ Len(file[h]) = Len(recs[h]) /\ Len(recs[h]) \in Nat
      /\ DOMAIN recs[h] = 1 .. Len(recs[h])
      /\ \A i \in 1 .. Len(recs[h]) : Lags(file[h][i], recs[h][i])
    BY RecordDomains DEF TypeOK, FileInv, Lagging
<1>n. /\ file[h] \in Seq(Records) /\ closed[h] \in 0 .. Len(file[h])
      /\ file'[h] \in Seq(Records) /\ closed'[h] \in 0 .. Len(file'[h])
  <2>1. file'[h] \in Seq(Records) /\ closed'[h] \in Nat /\ closed'[h] <= Len(file'[h])
      BY <1>0 DEF TypeOK, FileInv
  <2>2. QED
      BY <1>2, <2>1
<1>3. CASE WriteSummary("run")
  <2>1. /\ file'[h] = recs'[h] /\ closed'[h] = Len(recs'[h]) /\ pc["run"] = "metadata"
        /\ UNCHANGED <<caps, late, hand>>
      BY <1>3, WriteIs
  <2>2. recs'[h] \in Seq(Records) /\ DOMAIN recs'[h] = 1 .. Len(recs'[h])
        /\ Len(recs'[h]) \in Nat
      BY <1>0, RecordDomains DEF TypeOK
  <2>3. CASE h = "main"
    <3>1. Hook("run") = "main" /\ "run" \in Actors
        BY HookIn
    <3>2. recs'[h] = Append(Resolved(recs[h]), Summary) /\ Resolved(recs[h]) \in Seq(Records)
          /\ Summary \in Records /\ Updated(recs[h], caps[h], Resolved(recs[h]))
          /\ \A i \in 1 .. Len(recs[h]) : Resolved(recs[h])[i].metadata = "fetched"
        BY <1>3, <2>3, <3>1, WriteIs, SummaryType
    <3> DEFINE others == Resolved(recs[h])
    <3> HIDE DEF others
    <3>3. /\ Len(recs'[h]) = Len(recs[h]) + 1 /\ recs'[h][Len(recs[h]) + 1] = Summary
          /\ \A i \in 1 .. Len(recs[h]) : recs'[h][i] = others[i]
        BY <1>2, <3>2, AppendDomains DEF others, Updated
    <3>4. \A i \in 1 .. Len(recs[h]) : recs'[h][i].metadata = "fetched"
        BY <3>2, <3>3 DEF others
    <3>5. ASSUME NEW i \in 1 .. Len(recs'[h])
          PROVE  /\ recs'[h][i].kind # "summary" => recs'[h][i].metadata = "fetched"
                 /\ recs'[h][i].kind = "exec" /\ recs'[h][i].checkpoint = None =>
                      caps[h][recs'[h][i].capture].turn \in late
      <4>1. CASE i = Len(recs[h]) + 1
          BY <3>3, <4>1, SummaryIs
      <4>2. CASE i # Len(recs[h]) + 1
        <5>1. i \in 1 .. Len(recs[h])
            BY <1>2, <3>3, <4>2
        <5>2. ASSUME recs'[h][i].kind = "exec", recs'[h][i].checkpoint = None
              PROVE  caps[h][recs'[h][i].capture].turn \in late
          <6>1. i \in Unapplied(recs'[h])
              BY <2>2, <5>2 DEF Unapplied
          <6>2. i \in Unapplied(recs[h]) /\ recs'[h][i].capture = recs[h][i].capture
              BY <1>3, <5>1, <6>1, RecsWrite
          <6>3. recs[h][i].capture > 0
              BY <6>2, RecsAre, UnappliedIs
          <6>4. hand["run"] = NotAsked
              BY <2>1, <3>1, IdleHand
          <6>5. recs[h][i].capture \notin hand["run"]
              BY <6>3, <6>4 DEF NotAsked
          <6>6. caps[h][recs[h][i].capture].turn \in late
              BY <2>1, <2>3, <6>2, <6>5 DEF ReplyInv
          <6>7. QED
              BY <6>2, <6>6
        <5>3. QED
            BY <3>4, <5>1, <5>2
      <4>3. QED
          BY <4>1, <4>2
    <3>6. QED
        BY <1>n, <2>1, <3>5, CompleteIs
  <2>4. CASE h = "sub"
    <3>1. ASSUME closed'[h] > 0, file'[h][closed'[h]].kind = "summary",
                 NEW i \in 1 .. closed'[h]
          PROVE  /\ file'[h][i].kind # "summary" => file'[h][i].metadata = "fetched"
                 /\ ~ (file'[h][i].kind = "exec" /\ file'[h][i].checkpoint = None)
      <4>1. recs'[h] # <<>> /\ Last(recs'[h]).kind = "summary"
          BY <2>1, <2>2, <3>1 DEF Last
      <4>2. /\ Unapplied(recs'[h]) = {}
            /\ \A j \in DOMAIN recs'[h] :
                 recs'[h][j].kind # "summary" => recs'[h][j].metadata = "fetched"
          BY <1>0, <2>4, <4>1 DEF SubInv
      <4>3. QED
          BY <2>1, <2>2, <3>1, <4>2 DEF Unapplied
    <3>2. QED
        BY <1>n, <3>1, CompleteIs
  <2>5. QED
      BY <2>3, <2>4 DEF Hooks
<1>4. CASE ~ WriteSummary("run")
  <2>1. UNCHANGED closed
    <3>1. ASSUME NEW x \in {"run", "sub"}, WriteSummary(x) PROVE UNCHANGED closed
      <4>1. x = "sub"
          BY <1>4, <3>1
      <4>2. QED
          BY <3>1, <4>1, WriteIs
    <3>2. ASSUME NEW x \in Actors, AwaitCaptures(x) PROVE UNCHANGED closed
        BY <3>2, AwaitIs
    <3>3. QED
        BY <3>1, <3>2, RecorderSteps DEF Adds, Quiet
  <2>2. CASE n = 0
      BY <1>n, <2>1, <2>2, CompleteIs
  <2>3. CASE n > 0
    <3>1. UNCHANGED late
      <4>1. pc["run"] = "ended"
          BY <2>3 DEF ReplyInv
      <4>2. ~ RunFinishes
          BY <4>1 DEF RunFinishes, At
      <4>3. QED
          BY <4>2, LateIs
    <3>2. \A i \in 1 .. n : file'[h][i] = file[h][i]
      <4>1. ASSUME NEW x \in Turns, NEW r \in Records, Adds(x, r)
            PROVE  \A i \in 1 .. n : file'[h][i] = file[h][i]
        <5>1. file'[h] = file[h] \/ file'[h] = Append(file[h], r)
            BY <4>1, AddedIs
        <5>2. QED
            BY <1>2, <5>1, AppendDomains
      <4>2. ASSUME NEW x \in Actors, AwaitCaptures(x) PROVE file' = file
          BY <4>2, AwaitIs
      <4>3. ASSUME WriteSummary("sub") PROVE \A i \in 1 .. n : file'[h][i] = file[h][i]
        <5>1. file'[h] = file[h] \/ file'[h] = Append(file[h], Summary)
            BY <4>3, WriteIs DEF Hooks
        <5>2. Summary \in Records
            BY SummaryType
        <5>3. QED
            BY <1>2, <5>1, <5>2, AppendDomains
      <4>4. QED
          BY <1>4, <4>1, <4>2, <4>3, RecorderSteps DEF Quiet
    <3>3. ASSUME NEW i \in 1 .. n, file[h][i].kind = "exec", file[h][i].checkpoint = None
          PROVE  caps'[h][file[h][i].capture].turn = caps[h][file[h][i].capture].turn
      <4>1. i \in 1 .. Len(recs[h]) /\ Lags(file[h][i], recs[h][i])
          BY <1>2, <3>3
      <4>2. NumberedBy(recs[h], caps[h]) /\ Told(recs[h], caps[h])
          BY RecsAre
      <4>3. recs[h][i].capture # 0
        <5>1. ASSUME recs[h][i].capture = 0 PROVE FALSE
          <6>1. Alone(recs[h], caps[h], i)
              BY <1>2, <4>1, <4>2, <5>1 DEF Told
          <6>2. QED
              BY <3>3, <4>1, <5>1, <6>1 DEF Alone, Lags
        <5>2. QED
            BY <5>1
      <4>4. CapsKept(h) /\ Len(caps[h]) \in Nat
          BY CapsKeep
      <4>5. file[h][i].capture \in 1 .. Len(caps[h])
        <5>1. recs[h][i].capture \in 0 .. Len(caps[h])
            BY <1>2, <4>1, <4>2 DEF NumberedBy
        <5>2. QED
            BY <4>1, <4>3, <4>4, <5>1 DEF Lags
      <4>6. QED
          BY <4>4, <4>5 DEF CapsKept
    <3>4. n \in 1 .. n
        BY <1>2, <2>3
    <3>5. ASSUME file'[h][n].kind = "summary", NEW i \in 1 .. n
          PROVE  /\ file'[h][i].kind # "summary" => file'[h][i].metadata = "fetched"
                 /\ file'[h][i].kind = "exec" /\ file'[h][i].checkpoint = None =>
                      caps'[h][file'[h][i].capture].turn \in late
      <4>1. file[h][n].kind = "summary"
          BY <3>2, <3>4, <3>5
      <4>2. /\ file[h][i].kind # "summary" => file[h][i].metadata = "fetched"
            /\ file[h][i].kind = "exec" /\ file[h][i].checkpoint = None =>
                        caps[h][file[h][i].capture].turn \in late
          BY <1>1, <1>n, <2>3, <3>5, <4>1, CompleteIs
      <4>3. file'[h][i] = file[h][i]
          BY <3>2, <3>5
      <4>4. QED
          BY <3>3, <3>5, <4>2, <4>3
    <3>6. closed'[h] = n
        BY <2>1
    <3> HIDE DEF n
    <3>7. QED
        BY <1>n, <3>1, <3>5, <3>6, CompleteIs
  <2>4. QED
      BY <1>2, <2>2, <2>3
<1>5. QED
    BY <1>3, <1>4

-----------------------------------------------------------------------------
(* The invariant.                                                          *)

LEMMA InitInv == Init => IInv
<1> SUFFICES ASSUME Init PROVE IInv
    OBVIOUS
<1>1. TypeOK
    BY InitType
<1>2. /\ \A h \in Hooks : recs[h] = <<>> /\ file[h] = <<>> /\ caps[h] = <<>>
                          /\ taken[h] = 0 /\ closed[h] = 0 /\ last[h] = Never
                          /\ base[h] = NoBase
      /\ scan = NoScan /\ late = {}
      /\ \A x \in Actors : hand[x] = NotAsked
      /\ pc["run"] = "waiting" /\ pc["sub"] = "idle"
      /\ \A x \in Turns : pc[x] = "idle"
    BY HookIn DEF Init
<1>3. DOMAIN <<>> = {} /\ Len(<<>>) = 0
    OBVIOUS
<1>4. ScanInv
    BY <1>2 DEF ScanInv
<1>5. CapsInv
  <2>1. ASSUME NEW h \in Hooks
        PROVE  Queued(<<>>) /\ Ordered(<<>>) /\ Chained(<<>>) /\ Based(<<>>, NoBase)
      BY <1>3 DEF Queued, Ordered, Chained, Based, NoBase, NotIn
  <2>2. ASSUME NEW h \in Hooks PROVE NowIs(h)
      BY <1>2, <1>3 DEF NowIs
  <2>3. QED
      BY <1>2, <2>1, <2>2 DEF CapsInv
<1>6. RecsInv
  <2>1. NumberedBy(<<>>, <<>>) /\ Told(<<>>, <<>>) /\ Unapplied(<<>>) = {}
      BY <1>3 DEF NumberedBy, Told, Unapplied
  <2>2. QED
      BY <1>2, <2>1 DEF RecsInv
<1>7. LastInv
    BY <1>2 DEF LastInv
<1>8. HandInv
    BY <1>2, <1>3 DEF HandInv
<1>9. FileInv
    BY <1>2, <1>3 DEF FileInv, Lagging
<1>10. ReplyInv
    BY <1>2, <1>3 DEF ReplyInv, Hooks
<1>11. SubInv
    BY <1>2, <1>3 DEF SubInv, Hooks
<1>12. CapturedInWindow
    BY <1>2 DEF CapturedInWindow
<1>13. TraceComplete
  <2>1. ASSUME NEW h \in Hooks PROVE CompleteLines(file[h], closed[h], caps[h], late)
    <3>1. file[h] \in Seq(Records) /\ closed[h] = 0 /\ 0 \in 0 .. Len(file[h])
        BY <1>1, <1>2 DEF TypeOK
    <3>2. QED
        BY <3>1, CompleteIs
  <2>2. QED
      BY <2>1 DEF TraceComplete, CompleteLines
<1>14. QED
    BY <1>1, <1>4, <1>5, <1>6, <1>7, <1>8, <1>9, <1>10, <1>11, <1>12, <1>13 DEF IInv

LEMMA StepInv == IInv /\ [Next]_vars => IInv'
<1> SUFFICES ASSUME TypeOK, ScanInv, CapsInv, RecsInv, LastInv, HandInv, FileInv, ReplyInv,
                    SubInv, CapturedInWindow, TraceComplete, [Next]_vars
             PROVE  IInv'
    BY DEF IInv
<1>1. TypeOK' /\ ScanInv' /\ CapsInv' /\ LastInv'
    BY TypeStep, ScanStep, CapsStep, LastStep
<1>2. RecsInv' /\ HandInv' /\ FileInv'
    BY RecsStep, HandStep, FileStep
<1>3. ReplyInv' /\ SubInv' /\ CapturedInWindow'
    BY ReplyStep, SubStep, WindowStep
<1>4. TraceComplete'
    BY CompleteStep
<1>5. QED
    BY <1>1, <1>2, <1>3, <1>4 DEF IInv

LEMMA Invariance == Spec => []IInv
<1>1. QED
    BY InitInv, StepInv, PTL DEF Spec

LEMMA InvImpliesFaithful == IInv => CheckpointsFaithful
<1> SUFFICES ASSUME TypeOK, CapsInv, RecsInv, FileInv, CapturedInWindow,
                    NEW h \in Hooks, NEW i \in Telling(file[h]), NothingMissing(file[h], i)
             PROVE  Restores(file[h], i)
    BY DEF IInv, CheckpointsFaithful, RestoreReproduces
<1>1. /\ file[h] \in Seq(Records) /\ recs[h] \in Seq(Records) /\ caps[h] \in Seq(Captures)
      /\ Lagging(file[h], recs[h]) /\ NumberedBy(recs[h], caps[h])
      /\ Told(recs[h], caps[h]) /\ Ordered(caps[h]) /\ Chained(caps[h])
    BY DEF TypeOK, CapsInv, RecsInv, FileInv
<1>2. QED
    BY <1>1, LineRestores

(* The checkpoints of the file, applied up to any line that tells of the   *)
(* root, give back the root of that line, the skipped ones included, and   *)
(* no capture of a turn is open while its tools run: for every number of   *)
(* files, changes, faults and iterations, every order in which two turns   *)
(* beside each other apply their captures, and any tool calls              *)
(* (TraceCollectorHook, _dispatch).                                        *)
THEOREM CheckpointsFaithfulCorrect == Spec => []CheckpointsFaithful
<1>1. QED
    BY Invariance, InvImpliesFaithful, PTL

(* A file that close() wrote misses no metadata of a model call, and no    *)
(* checkpoint of an exec command or reason for its absence, but those of   *)
(* the turns that were not over when run() had its reply (write_summary,   *)
(* _await_pending_checkpoints).                                            *)
THEOREM TraceCompleteCorrect == Spec => []TraceComplete
<1>1. IInv => TraceComplete
    BY DEF IInv
<1>2. QED
    BY <1>1, Invariance, PTL
-----------------------------------------------------------------------------
(* A run of the agent: what recursive functions on sequences are.          *)

\* Induction up to a bound, for a set.
LEMMA UpTo ==
  ASSUME NEW n \in Nat, NEW S, 0 \in S, \A k \in 1 .. n : k - 1 \in S => k \in S
  PROVE  \A k \in 0 .. n : k \in S
<1> DEFINE R == OpToRel(<, Nat)
           Out == {k \in 0 .. n : k \notin S}
<1> SUFFICES ASSUME Out # {} PROVE FALSE
  OBVIOUS
<1>1. \E x \in Out : \A y \in Out : ~ (<<y, x>> \in R)
  <2>1. IsWellFoundedOn(R, Nat)
    BY NatLessThanWellFounded
  <2>2. Out \subseteq Nat
    OBVIOUS
  <2> HIDE DEF R, Out
  <2>3. QED
    BY <2>1, <2>2, WFMin
<1>2. PICK x \in Out : \A y \in Out : ~ (<<y, x>> \in R)
  BY <1>1
<1>3. x \in 1 .. n /\ x - 1 \notin S
  <2>1. x \in 0 .. n /\ x \notin S
    OBVIOUS
  <2>2. x # 0
    BY <2>1
  <2>3. x \in 1 .. n
    BY <2>1, <2>2
  <2>4. QED
    BY <2>1, <2>3
<1>4. x - 1 \in Out /\ x - 1 \in Nat /\ x \in Nat /\ x - 1 < x
  BY <1>3
<1>5. <<x - 1, x>> \in R
  BY <1>4 DEF OpToRel
<1>6. QED
  BY <1>2, <1>4, <1>5

\* A function on 0 .. n given by its first value and by the step from each value
\* to the next exists.
Steps(n, S) == [1 .. n -> [S -> S]]
IsRecursion(g, n, S, first, step) ==
  g \in [0 .. n -> S] /\ g[0] = first /\ \A k \in 1 .. n : g[k] = step[k][g[k - 1]]

LEMMA RecursionExists ==
  ASSUME NEW n \in Nat, NEW S, NEW first \in S, NEW step \in Steps(n, S)
  PROVE  \E g : IsRecursion(g, n, S, first, step)
<1> USE DEF Steps, IsRecursion
<1> DEFINE T == {m \in 0 .. n : \E g \in [0 .. m -> S] :
                   g[0] = first /\ \A k \in 1 .. m : g[k] = step[k][g[k - 1]]}
<1>1. 0 \in T
  <2> DEFINE g == [k \in 0 .. 0 |-> first]
  <2>1. g \in [0 .. 0 -> S] /\ g[0] = first /\ 0 \in 0 .. n
    OBVIOUS
  <2>2. \A k \in 1 .. 0 : g[k] = step[k][g[k - 1]]
    OBVIOUS
  <2> HIDE DEF g
  <2>3. QED
    BY <2>1, <2>2
<1>2. \A m \in 1 .. n : m - 1 \in T => m \in T
  <2>1. SUFFICES ASSUME NEW m \in 1 .. n, m - 1 \in T PROVE m \in T
    OBVIOUS
  <2>2. PICK g \in [0 .. m - 1 -> S] :
          g[0] = first /\ \A k \in 1 .. m - 1 : g[k] = step[k][g[k - 1]]
    BY <2>1
  <2> DEFINE h == [k \in 0 .. m |-> IF k = m THEN step[m][g[m - 1]] ELSE g[k]]
  <2>3. g[m - 1] \in S /\ step[m] \in [S -> S]
    BY <2>1
  <2>4. h \in [0 .. m -> S]
    BY <2>3
  <2>5. h[0] = first
    BY <2>2
  <2>6. ASSUME NEW k \in 1 .. m PROVE h[k] = step[k][h[k - 1]]
    <3>1. CASE k = m
      <4>1. k - 1 \in 0 .. m /\ k - 1 # m
        BY <3>1
      <4>2. QED
        BY <3>1, <4>1
    <3>2. CASE k # m
      <4>1. k \in 1 .. m - 1 /\ k - 1 \in 0 .. m - 1 /\ k - 1 # m
        BY <3>2
      <4>2. h[k] = g[k] /\ h[k - 1] = g[k - 1]
        BY <3>2, <4>1
      <4>3. QED
        BY <2>2, <4>1, <4>2
    <3>3. QED
      BY <3>1, <3>2
  <2>7. m \in 0 .. n
    OBVIOUS
  <2> HIDE DEF h
  <2>8. QED
    BY <2>4, <2>5, <2>6, <2>7
<1>3. n \in T
  <2> HIDE DEF T
  <2>1. \A k \in 0 .. n : k \in T
    BY <1>1, <1>2, UpTo
  <2>2. QED
    BY <2>1
<1>4. QED
  BY <1>3
-----------------------------------------------------------------------------
(* The messages at some positions.                                         *)

\* One goes through some positions in their order.
InOrder(e, n, positions) ==
  /\ e \in [1 .. n -> positions]
  /\ \A a, b \in 1 .. n : a < b => e[a] < e[b]
  /\ \A i \in positions : \E a \in 1 .. n : e[a] = i

LEMMA SelectedIs ==
  ASSUME NEW T, NEW ms \in Seq(T), NEW positions
  PROVE  \E g : /\ g \in [0 .. Len(ms) -> Seq(T)] /\ g[0] = <<>>
                /\ \A k \in 1 .. Len(ms) :
                     g[k] = IF k \in positions THEN Append(g[k - 1], ms[k]) ELSE g[k - 1]
                /\ Selected(ms, positions) = g[Len(ms)]
<1> DEFINE N == Len(ms)
           step == [k \in 1 .. N |-> [x \in Seq(T) |-> IF k \in positions THEN Append(x, ms[k]) ELSE x]]
           Body(h, n) == IF n = 0 THEN <<>>
                         ELSE IF n \in positions THEN Append(h[n - 1], ms[n]) ELSE h[n - 1]
           kept == CHOOSE h : h = [n \in 0 .. Len(ms) |-> Body(h, n)]
<1>1. N \in Nat /\ <<>> \in Seq(T) /\ \A k \in 1 .. N : ms[k] \in T
  OBVIOUS
<1>2. step \in Steps(N, Seq(T))
  <2>1. \A k \in 1 .. N : [x \in Seq(T) |-> IF k \in positions THEN Append(x, ms[k]) ELSE x]
                            \in [Seq(T) -> Seq(T)]
    BY <1>1
  <2> HIDE DEF N
  <2>2. QED
    BY <2>1 DEF Steps
<1>3. PICK g : IsRecursion(g, N, Seq(T), <<>>, step)
  <2> HIDE DEF N, step
  <2>1. QED
    BY <1>1, <1>2, RecursionExists
<1>4. /\ g \in [0 .. N -> Seq(T)] /\ g[0] = <<>>
      /\ \A k \in 1 .. N : g[k] = step[k][g[k - 1]]
  BY <1>3 DEF IsRecursion
<1>5. ASSUME NEW k \in 1 .. N
      PROVE  g[k] = IF k \in positions THEN Append(g[k - 1], ms[k]) ELSE g[k - 1]
  <2>1. k - 1 \in 0 .. N
    BY <1>1
  <2>2. g[k - 1] \in Seq(T) /\ g[k] = step[k][g[k - 1]]
    BY <1>4, <2>1
  <2> HIDE DEF N
  <2>3. QED
    BY <2>2
<1>6. g = [n \in 0 .. N |-> Body(g, n)]
  <2>1. ASSUME NEW n \in 0 .. N PROVE g[n] = Body(g, n)
    <3>1. n = 0 \/ (n \in 1 .. N /\ n # 0)
      BY <1>1
    <3> HIDE DEF N
    <3>2. QED
      BY <1>4, <1>5, <3>1
  <2>2. g = [n \in 0 .. N |-> g[n]]
    BY <1>4
  <2> HIDE DEF Body, N
  <2>3. QED
    BY <2>1, <2>2
<1>7. kept = [n \in 0 .. N |-> Body(kept, n)]
  <2> HIDE DEF Body
  <2>1. QED
    BY <1>6
<1>8. Selected(ms, positions) = kept[N]
  BY DEF Selected
<1> HIDE DEF kept
<1>9. \A n \in 0 .. N : kept[n] = Body(kept, n)
  <2> HIDE DEF Body, N
  <2>1. QED
    BY <1>7
<1>10. \A n \in 0 .. N : kept[n] = g[n]
  <2> DEFINE U == {n \in 0 .. N : kept[n] = g[n]}
  <2>1. 0 \in U
    BY <1>1, <1>4, <1>9
  <2>2. ASSUME NEW k \in 1 .. N, k - 1 \in U PROVE k \in U
    <3>1. k \in 0 .. N /\ k # 0
      BY <1>1
    <3> HIDE DEF N
    <3>2. QED
      BY <1>5, <1>9, <2>2, <3>1
  <2>3. \A k \in 0 .. N : k \in U
    <3> HIDE DEF U, N
    <3>1. QED
      BY <1>1, <2>1, <2>2, UpTo
  <2>4. QED
    BY <2>3
<1>11. N \in 0 .. N
  BY <1>1
<1> HIDE DEF N
<1>12. QED
  BY <1>4, <1>5, <1>8, <1>10, <1>11 DEF N

LEMMA SelectedInOrder ==
  ASSUME NEW T, NEW ms \in Seq(T), NEW positions \in SUBSET (1 .. Len(ms))
  PROVE  /\ Selected(ms, positions) \in Seq(T)
         /\ \E e : /\ InOrder(e, Len(Selected(ms, positions)), positions)
                   /\ \A a \in 1 .. Len(Selected(ms, positions)) :
                        Selected(ms, positions)[a] = ms[e[a]]
<1> DEFINE N == Len(ms)
           UpToN(n) == positions \cap (1 .. n)
           Fine(s, e, n) == InOrder(e, Len(s), UpToN(n)) /\ \A a \in 1 .. Len(s) : s[a] = ms[e[a]]
<1>1. N \in Nat /\ (\A i \in positions : i \in 1 .. N) /\ \A k \in 1 .. N : ms[k] \in T
  OBVIOUS
<1>2. PICK g : /\ g \in [0 .. N -> Seq(T)] /\ g[0] = <<>>
               /\ \A k \in 1 .. N :
                    g[k] = IF k \in positions THEN Append(g[k - 1], ms[k]) ELSE g[k - 1]
               /\ Selected(ms, positions) = g[N]
  BY SelectedIs
<1> DEFINE U == {n \in 0 .. N : \E e : Fine(g[n], e, n)}
<1> HIDE DEF N
<1>0. \A n \in 0 .. N : \A i \in positions : i \in UpToN(n) <=> i <= n
  BY <1>1
<1>3. 0 \in U
  <2>1. Len(<<>>) = 0 /\ 1 .. 0 = {}
    OBVIOUS
  <2>6. UpToN(0) = {}
    BY <1>0, <1>1
  <2> DEFINE e == [a \in {} |-> 0]
  <2>2. InOrder(e, 0, {})
    BY <2>1 DEF InOrder
  <2>3. Fine(g[0], e, 0)
    BY <1>2, <2>1, <2>2, <2>6
  <2>4. 0 \in 0 .. N
    BY <1>1
  <2> HIDE DEF e, Fine
  <2>5. QED
    BY <2>3, <2>4
<1>4. ASSUME NEW k \in 1 .. N, k - 1 \in U PROVE k \in U
  <2>1. PICK e : Fine(g[k - 1], e, k - 1)
    BY <1>4
  <2> DEFINE s == g[k - 1]
  <2>2. s \in Seq(T) /\ Len(s) \in Nat /\ k \in 0 .. N /\ k - 1 \in 0 .. N
    BY <1>1, <1>2
  <2>3. CASE k \notin positions
    <3>1. UpToN(k) = UpToN(k - 1)
      BY <1>1, <2>3
    <3>2. g[k] = s
      BY <1>2, <2>3
    <3>3. Fine(g[k], e, k)
      BY <2>1, <3>1, <3>2
    <3> HIDE DEF Fine
    <3>4. QED
      BY <2>2, <3>3
  <2>4. CASE k \in positions
    <3> DEFINE f == [a \in 1 .. Len(s) + 1 |-> IF a = Len(s) + 1 THEN k ELSE e[a]]
    <3>1. g[k] = Append(s, ms[k]) /\ ms[k] \in T
      BY <1>1, <1>2, <2>4
    <3> HIDE DEF s
    <3>2. Len(g[k]) = Len(s) + 1 /\ g[k][Len(s) + 1] = ms[k] /\ \A a \in 1 .. Len(s) : g[k][a] = s[a]
      BY <2>2, <3>1
    <3>3. /\ e \in [1 .. Len(s) -> UpToN(k - 1)]
          /\ \A a, b \in 1 .. Len(s) : a < b => e[a] < e[b]
          /\ \A i \in UpToN(k - 1) : \E a \in 1 .. Len(s) : e[a] = i
          /\ \A a \in 1 .. Len(s) : s[a] = ms[e[a]]
      BY <2>1 DEF InOrder, s
    <3>4. \A a \in 1 .. Len(s) + 1 : a = Len(s) + 1 \/ (a \in 1 .. Len(s) /\ a # Len(s) + 1)
      BY <2>2
    <3>5. f[Len(s) + 1] = k /\ \A a \in 1 .. Len(s) : f[a] = e[a]
      BY <2>2
    <3> HIDE DEF f
    <3>6. f \in [1 .. Len(s) + 1 -> UpToN(k)]
      <4>1. \A a \in 1 .. Len(s) : e[a] \in UpToN(k)
        BY <1>0, <1>1, <3>3
      <4>2. k \in UpToN(k)
        BY <1>0, <1>1, <2>4
      <4>3. QED
        BY <3>4, <4>1, <4>2 DEF f
    <3>7. ASSUME NEW a \in 1 .. Len(s) + 1, NEW b \in 1 .. Len(s) + 1, a < b PROVE f[a] < f[b]
      <4>1. a \in 1 .. Len(s)
        BY <2>2, <3>7
      <4>2. e[a] < k /\ f[a] = e[a]
        BY <1>0, <1>1, <3>3, <3>5, <4>1
      <4>3. CASE b = Len(s) + 1
        BY <3>5, <4>2, <4>3
      <4>4. CASE b \in 1 .. Len(s)
        BY <3>3, <3>5, <3>7, <4>1, <4>4
      <4>5. QED
        BY <3>4, <4>3, <4>4
    <3>8. ASSUME NEW i \in UpToN(k) PROVE \E a \in 1 .. Len(s) + 1 : f[a] = i
      <4>1. CASE i = k
        BY <2>2, <3>5, <4>1
      <4>2. CASE i # k
        <5>1. i \in UpToN(k - 1)
          BY <1>0, <1>1, <4>2
        <5>2. PICK a \in 1 .. Len(s) : e[a] = i
          BY <3>3, <5>1
        <5>3. a \in 1 .. Len(s) + 1
          BY <2>2
        <5>4. QED
          BY <3>5, <5>2, <5>3
      <4>3. QED
        BY <4>1, <4>2
    <3>9. \A a \in 1 .. Len(s) + 1 : g[k][a] = ms[f[a]]
      BY <3>2, <3>3, <3>4, <3>5
    <3>10. InOrder(f, Len(s) + 1, UpToN(k))
      BY <3>6, <3>7, <3>8 DEF InOrder
    <3>11. Fine(g[k], f, k)
      BY <3>2, <3>9, <3>10
    <3> HIDE DEF Fine
    <3>12. QED
      BY <2>2, <3>11
  <2>5. QED
    BY <2>3, <2>4
<1>5. N \in U
  <2> HIDE DEF U
  <2>1. \A k \in 0 .. N : k \in U
    BY <1>1, <1>3, <1>4, UpTo
  <2>2. QED
    BY <1>1, <2>1
<1>6. UpToN(N) = positions
  BY <1>0, <1>1
<1>7. N \in 0 .. N
  BY <1>1
<1> HIDE DEF UpToN
<1>8. PICK e : Fine(g[N], e, N)
  BY <1>5
<1>9. InOrder(e, Len(g[N]), positions) /\ \A a \in 1 .. Len(g[N]) : g[N][a] = ms[e[a]]
  BY <1>6, <1>8
<1>10. QED
  BY <1>2, <1>7, <1>9
\* An order of an interval is its counting.
LEMMA IntervalInOrder ==
  ASSUME NEW n \in Nat, NEW p \in Nat, NEW q \in Nat, p <= q + 1, NEW e, InOrder(e, n, p .. q)
  PROVE  n = q - p + 1 /\ \A a \in 1 .. n : e[a] = p + a - 1
<1>1. /\ \A a \in 1 .. n : e[a] \in p .. q
      /\ \A a, b \in 1 .. n : a < b => e[a] < e[b]
      /\ \A i \in p .. q : \E a \in 1 .. n : e[a] = i
  BY DEF InOrder
<1> DEFINE U == {a \in 0 .. n : a = 0 \/ e[a] = p + a - 1}
<1>2. 0 \in U
  OBVIOUS
<1>3. ASSUME NEW a \in 1 .. n, a - 1 \in U PROVE a \in U
  <2>1. e[a] \in p .. q /\ e[a] >= p + a - 1
    <3>1. CASE a = 1
      BY <1>1, <3>1
    <3>2. CASE a # 1
      <4>1. a - 1 \in 1 .. n /\ a - 1 < a /\ e[a - 1] = p + (a - 1) - 1
        BY <1>3, <3>2
      <4>2. e[a - 1] < e[a] /\ e[a] \in p .. q
        BY <1>1, <4>1
      <4>3. QED
        BY <4>1, <4>2
    <3>3. QED
      BY <3>1, <3>2
  <2>2. p + a - 1 \in p .. q
    BY <2>1
  <2>3. PICK b \in 1 .. n : e[b] = p + a - 1
    BY <1>1, <2>2
  <2>4. b <= a
    <3>1. ~ (a < b /\ e[a] < e[b])
      BY <2>1, <2>3
    <3>2. QED
      BY <1>1, <3>1
  <2>5. b >= a
    <3>1. CASE a = 1
      BY <3>1
    <3>2. CASE a # 1
      <4>1. a - 1 \in 1 .. n /\ e[a - 1] = p + (a - 1) - 1
        BY <1>3, <3>2
      <4>2. b # a - 1 /\ ~ (b < a - 1 /\ e[b] < e[a - 1])
        BY <2>3, <4>1
      <4>3. ~ (b < a - 1)
        BY <1>1, <4>1, <4>2
      <4>4. QED
        BY <4>2, <4>3
    <3>3. QED
      BY <3>1, <3>2
  <2>6. a = b
    BY <2>4, <2>5
  <2>7. QED
    BY <2>3, <2>6
<1>4. \A a \in 0 .. n : a \in U
  <2> HIDE DEF U
  <2>1. QED
    BY <1>2, <1>3, UpTo
<1>5. \A a \in 1 .. n : e[a] = p + a - 1
  BY <1>4
<1>6. n = q - p + 1
  <2>1. CASE n = 0
    <3>1. \A i \in p .. q : FALSE
      BY <1>1, <2>1
    <3>2. QED
      BY <2>1, <3>1
  <2>2. CASE n # 0
    <3>1. n \in 1 .. n
      BY <2>2
    <3>2. p + n - 1 <= q /\ p <= q
      BY <1>1, <1>5, <3>1
    <3>3. PICK b \in 1 .. n : e[b] = q
      BY <1>1, <3>2
    <3>4. q = p + b - 1
      BY <1>5, <3>3
    <3>5. QED
      BY <3>2, <3>4
  <2>3. QED
    BY <2>1, <2>2
<1>7. QED
  BY <1>5, <1>6

LEMMA SelectedInterval ==
  ASSUME NEW T, NEW ms \in Seq(T), NEW p \in 1 .. Len(ms) + 1, NEW q \in 0 .. Len(ms), p <= q + 1
  PROVE  /\ Selected(ms, p .. q) \in Seq(T)
         /\ Len(Selected(ms, p .. q)) = q - p + 1
         /\ \A a \in 1 .. q - p + 1 : Selected(ms, p .. q)[a] = ms[p + a - 1]
<1>1. p .. q \in SUBSET (1 .. Len(ms))
  OBVIOUS
<1> DEFINE s == Selected(ms, p .. q)
<1>2. /\ s \in Seq(T)
      /\ \E e : InOrder(e, Len(s), p .. q) /\ \A a \in 1 .. Len(s) : s[a] = ms[e[a]]
  <2>1. \A positions \in SUBSET (1 .. Len(ms)) :
          /\ Selected(ms, positions) \in Seq(T)
          /\ \E e : /\ InOrder(e, Len(Selected(ms, positions)), positions)
                    /\ \A a \in 1 .. Len(Selected(ms, positions)) :
                         Selected(ms, positions)[a] = ms[e[a]]
    BY SelectedInOrder
  <2>2. QED
    BY <1>1, <2>1
<1> HIDE DEF s
<1>3. PICK e : InOrder(e, Len(s), p .. q) /\ \A a \in 1 .. Len(s) : s[a] = ms[e[a]]
  BY <1>2
<1>4. Len(s) = q - p + 1 /\ \A a \in 1 .. Len(s) : e[a] = p + a - 1
  <2>1. Len(s) \in Nat /\ p \in Nat /\ q \in Nat
    BY <1>2
  <2>2. QED
    BY <1>3, <2>1, IntervalInOrder
<1>5. QED
  BY <1>2, <1>3, <1>4 DEF s

\* Selecting up to and with the last keeps the last.
LEMMA SelectedKeepsLast ==
  ASSUME NEW T, NEW ms \in Seq(T), NEW positions \in SUBSET (1 .. Len(ms)), Len(ms) \in positions
  PROVE  /\ Len(Selected(ms, positions)) \in Nat \ {0}
         /\ Last(Selected(ms, positions)) = ms[Len(ms)]
<1> DEFINE s == Selected(ms, positions)
<1>1. s \in Seq(T) /\ Len(s) \in Nat
  BY SelectedInOrder
<1>2. PICK e : InOrder(e, Len(s), positions) /\ \A a \in 1 .. Len(s) : s[a] = ms[e[a]]
  BY SelectedInOrder
<1> HIDE DEF s
<1>3. PICK a \in 1 .. Len(s) : e[a] = Len(ms)
  BY <1>2 DEF InOrder
<1>4. a = Len(s)
  <2>1. Len(s) \in 1 .. Len(s)
    BY <1>1
  <2>2. e[Len(s)] \in 1 .. Len(ms) /\ (a < Len(s) => e[a] < e[Len(s)])
    BY <1>2, <2>1 DEF InOrder
  <2>3. QED
    BY <1>1, <1>3, <2>2
<1>5. QED
  BY <1>1, <1>2, <1>3, <1>4 DEF s, Last
-----------------------------------------------------------------------------
(* A run of the agent.                                                     *)

CallIdSet == Nat \X Nat
MessageSet ==
  [role : {"system", "user", "assistant", "tool"}, calls : Seq(CallIdSet), call : CallIdSet]

\* A message and the results of its calls, all that there are.
Opens(ms, j) ==
  /\ ms[j].role # "tool"
  /\ j + Len(ms[j].calls) <= Len(ms)
  /\ \A k \in 1 .. Len(ms[j].calls) : ms[j + k] = ToolMessage(ms[j].calls[k])

\* The calls have ids of the first n iterations, no two the same; of one message
\* all are made up or none is.
Numbered(ms, n) ==
  \A i \in 1 .. Len(ms) : \A k \in 1 .. Len(ms[i].calls) : ms[i].calls[k][1] \in 1 .. n
Apart(ms) ==
  \A i, j \in 1 .. Len(ms) : \A k \in 1 .. Len(ms[i].calls) : \A l \in 1 .. Len(ms[j].calls) :
    ms[i].calls[k] = ms[j].calls[l] => i = j /\ k = l
Uniform(ms) ==
  \A i \in 1 .. Len(ms) : \A k, l \in 1 .. Len(ms[i].calls) :
    MadeUp(ms[i].calls[k]) => MadeUp(ms[i].calls[l])

\* The system's prompt, the user's, and answers each with its results behind it.
InRounds(ms, n) ==
  /\ ms \in Seq(MessageSet) /\ Len(ms) >= 2
  /\ ms[1] = System /\ ms[2] = User
  /\ \A i \in 2 .. Len(ms) : ms[i].role # "system"
  /\ \A i \in 3 .. Len(ms) : ms[i].role # "user"
  /\ \A i \in 1 .. Len(ms) : ms[i].role # "tool" => ms[i].call = <<0, 0>>
  /\ \A i \in 1 .. Len(ms) : \E j \in 1 .. i : Opens(ms, j) /\ i <= j + Len(ms[j].calls)
  /\ Numbered(ms, n) /\ Apart(ms) /\ Uniform(ms)

Before(ms) == SubSeq(ms, 1, Len(ms) - 1)

RunTypeOK ==
  /\ failFast \in BOOLEAN
  /\ phase \in {"iterate", "request", "respond", "tools", "finalize", "finalized", "done"}
  /\ iteration \in Nat
  /\ messages \in Seq(MessageSet)
  /\ answer \in [kind : {"none", "malformed", "blank", "text", "error", "calls"},
                 tools : CallLists \cup {<<>>}]
  /\ answer.kind = "calls" => answer.tools \in CallLists
  /\ phase \notin {"iterate", "done"} => iteration >= 1
  /\ IF phase = "tools"
     THEN /\ answer.tools \in CallLists
          /\ status \in [1 .. Len(answer.tools) -> {"pending", "running", "ok", "error"}]
     ELSE status = <<>>

\* A call that was started found those before it started, or over.
StartedInOrder ==
  \A j, k \in DOMAIN status :
    j < k /\ status[k] # "pending" =>
      IF j \in Batch(k) THEN status[j] # "pending" ELSE Over(j)

RoundsInv ==
  /\ phase = "iterate" => InRounds(messages, iteration)
  /\ phase \in {"request", "respond", "finalize", "finalized"} =>
       InRounds(messages, iteration - 1) /\ prompt = Snip(messages)
  /\ phase = "tools" =>
       /\ Len(messages) >= 1
       /\ messages[Len(messages)] = Assistant(Ids)
       /\ InRounds(Before(messages), iteration - 1)

RunInv ==
  /\ RunTypeOK
  /\ phase = "tools" => StartedInOrder
  /\ CheckpointCoversTools
  /\ RoundsInv
  /\ ResultWellFormed
-----------------------------------------------------------------------------
(* Conversations in rounds.                                                *)

LEMMA MessageTypes ==
  ASSUME NEW ms \in Seq(MessageSet)
  PROVE  /\ Len(ms) \in Nat
         /\ \A i \in 1 .. Len(ms) :
              /\ ms[i] \in MessageSet /\ ms[i].calls \in Seq(CallIdSet) /\ ms[i].call \in CallIdSet
              /\ Len(ms[i].calls) \in Nat
              /\ \A k \in 1 .. Len(ms[i].calls) :
                   /\ ms[i].calls[k] \in CallIdSet
                   /\ ms[i].calls[k][1] \in Nat /\ ms[i].calls[k][2] \in Nat
<1>1. Len(ms) \in Nat /\ \A i \in 1 .. Len(ms) : ms[i] \in MessageSet
  OBVIOUS
<1>2. \A m \in MessageSet : m.calls \in Seq(CallIdSet) /\ m.call \in CallIdSet
  BY DEF MessageSet
<1>3. \A c \in Seq(CallIdSet) : Len(c) \in Nat /\ \A k \in 1 .. Len(c) : c[k] \in CallIdSet
  OBVIOUS
<1>4. \A id \in CallIdSet : id[1] \in Nat /\ id[2] \in Nat
  BY DEF CallIdSet
<1>5. QED
  BY <1>1, <1>2, <1>3, <1>4

LEMMA ToolMessageIs ==
  \A id : ToolMessage(id).role = "tool" /\ ToolMessage(id).calls = <<>> /\ ToolMessage(id).call = id
  BY DEF ToolMessage

\* Whatever is no result opens a round, and a result is one of the round it is in.
\* Messages are calls with all their results, or the results of such calls.
CallsAndResults(ms) ==
  /\ \A j \in 1 .. Len(ms) : ms[j].role # "tool" => Opens(ms, j)
  /\ \A i \in 1 .. Len(ms) : ms[i].role = "tool" =>
       /\ ms[i].calls = <<>>
       /\ \E j \in 1 .. i - 1 : /\ Opens(ms, j) /\ i - j \in 1 .. Len(ms[j].calls)
                                /\ ms[i].call = ms[j].calls[i - j]

LEMMA Rounds ==
  ASSUME NEW n, NEW ms, InRounds(ms, n)
  PROVE  CallsAndResults(ms)
<1>1. /\ ms \in Seq(MessageSet)
      /\ \A i \in 1 .. Len(ms) : \E j \in 1 .. i : Opens(ms, j) /\ i <= j + Len(ms[j].calls)
  BY DEF InRounds
<1>2. ASSUME NEW i \in 1 .. Len(ms), NEW j \in 1 .. i, Opens(ms, j), i <= j + Len(ms[j].calls), i # j
      PROVE  /\ j \in 1 .. i - 1 /\ i - j \in 1 .. Len(ms[j].calls)
             /\ ms[i] = ToolMessage(ms[j].calls[i - j])
  <2>1. Len(ms) \in Nat /\ Len(ms[j].calls) \in Nat
    BY <1>1, MessageTypes
  <2>2. j \in 1 .. i - 1 /\ i - j \in 1 .. Len(ms[j].calls) /\ j + (i - j) = i
    BY <1>2, <2>1
  <2>3. QED
    BY <1>2, <2>2 DEF Opens
<1>3. \A id : ToolMessage(id).role = "tool" /\ ToolMessage(id).calls = <<>> /\ ToolMessage(id).call = id
  BY DEF ToolMessage
<1>4. ASSUME NEW j \in 1 .. Len(ms), ms[j].role # "tool" PROVE Opens(ms, j)
  <2>1. PICK o \in 1 .. j : Opens(ms, o) /\ j <= o + Len(ms[o].calls)
    BY <1>1
  <2>2. o = j
    BY <1>2, <1>3, <1>4, <2>1
  <2>3. QED
    BY <2>1, <2>2
<1>5. ASSUME NEW i \in 1 .. Len(ms), ms[i].role = "tool"
      PROVE  /\ ms[i].calls = <<>>
             /\ \E j \in 1 .. i - 1 : /\ Opens(ms, j) /\ i - j \in 1 .. Len(ms[j].calls)
                                      /\ ms[i].call = ms[j].calls[i - j]
  <2>1. PICK j \in 1 .. i : Opens(ms, j) /\ i <= j + Len(ms[j].calls)
    BY <1>1
  <2>2. i # j
    BY <1>5, <2>1 DEF Opens
  <2>3. QED
    BY <1>2, <1>3, <2>1, <2>2
<1>6. QED
  BY <1>4, <1>5 DEF CallsAndResults

LEMMA LegalStartIs ==
  ASSUME NEW ls \in Seq(MessageSet)
  PROVE  \E g : /\ g \in [0 .. Len(ls) -> 0 .. Len(ls)] /\ g[0] = 0
                /\ \A k \in 1 .. Len(ls) :
                     g[k] = IF /\ ls[k].role = "tool"
                               /\ ~ \E j \in g[k - 1] + 1 .. k - 1 : ls[k].call \in CallIds(ls[j])
                            THEN k ELSE g[k - 1]
                /\ LegalStart(ls) = g[Len(ls)]
<1> DEFINE N == Len(ls)
           Past(x, k) == IF ls[k].role = "tool"
                             /\ ~ \E j \in x + 1 .. k - 1 : ls[k].call \in CallIds(ls[j])
                          THEN k ELSE x
           step == [k \in 1 .. N |-> [x \in 0 .. N |-> Past(x, k)]]
           Body(h, i) == IF i = 0 THEN 0 ELSE Past(h[i - 1], i)
           start == CHOOSE h : h = [i \in 0 .. Len(ls) |-> Body(h, i)]
<1>1. N \in Nat
  OBVIOUS
<1>2. LegalStart(ls) = start[N]
  BY DEF LegalStart
<1>3. \A k \in 1 .. N : \A x : Past(x, k) = k \/ Past(x, k) = x
  OBVIOUS
<1> HIDE DEF N, Past, start
<1>4. step \in Steps(N, 0 .. N)
  <2>1. \A k \in 1 .. N : k \in 0 .. N
    BY <1>1
  <2>2. \A k \in 1 .. N : [x \in 0 .. N |-> Past(x, k)] \in [0 .. N -> 0 .. N]
    BY <1>3, <2>1
  <2>3. QED
    BY <2>2 DEF Steps
<1>5. PICK g : IsRecursion(g, N, 0 .. N, 0, step)
  <2>1. 0 \in 0 .. N
    BY <1>1
  <2> HIDE DEF step
  <2>2. QED
    BY <1>1, <1>4, <2>1, RecursionExists
<1>6. /\ g \in [0 .. N -> 0 .. N] /\ g[0] = 0 /\ \A k \in 1 .. N : g[k] = step[k][g[k - 1]]
  BY <1>5 DEF IsRecursion
<1>7. ASSUME NEW k \in 1 .. N PROVE g[k] = Past(g[k - 1], k)
  <2>1. k - 1 \in 0 .. N
    BY <1>1
  <2>2. g[k - 1] \in 0 .. N /\ g[k] = step[k][g[k - 1]]
    BY <1>6, <2>1
  <2>3. QED
    BY <2>2
<1>8. g = [i \in 0 .. N |-> Body(g, i)]
  <2>1. ASSUME NEW i \in 0 .. N PROVE g[i] = Body(g, i)
    <3>1. i = 0 \/ (i \in 1 .. N /\ i # 0)
      BY <1>1
    <3>2. QED
      BY <1>6, <1>7, <3>1
  <2>2. g = [i \in 0 .. N |-> g[i]]
    BY <1>6
  <2> HIDE DEF Body
  <2>3. QED
    BY <2>1, <2>2
<1>9. start = [i \in 0 .. N |-> Body(start, i)]
  <2> HIDE DEF Body
  <2>1. QED
    BY <1>8 DEF start, N
<1>10. \A i \in 0 .. N : start[i] = Body(start, i)
  <2> HIDE DEF Body
  <2>1. QED
    BY <1>9
<1>11. \A i \in 0 .. N : start[i] = g[i]
  <2> DEFINE U == {i \in 0 .. N : start[i] = g[i]}
  <2>1. 0 \in U
    BY <1>1, <1>6, <1>10
  <2>2. ASSUME NEW k \in 1 .. N, k - 1 \in U PROVE k \in U
    <3>1. k \in 0 .. N /\ k # 0
      BY <1>1
    <3>2. QED
      BY <1>7, <1>10, <2>2, <3>1
  <2>3. \A k \in 0 .. N : k \in U
    <3> HIDE DEF U
    <3>1. QED
      BY <1>1, <2>1, <2>2, UpTo
  <2>4. QED
    BY <2>3
<1>12. N \in 0 .. N
  BY <1>1
<1>13. QED
  BY <1>2, <1>6, <1>7, <1>11, <1>12 DEF N, Past

LegallyCut(ms, p, ls, c) ==
  /\ ls \in Seq(MessageSet) /\ Len(ls) = Len(ms) - p + 1
  /\ \A i \in 1 .. Len(ls) : ls[i] = ms[p + i - 1]
  /\ c \in 0 .. Len(ls)
  /\ \A i \in p .. p + c - 1 : ms[i].role = "tool"
  /\ p + c = Len(ms) + 1 \/ ms[p + c].role # "tool"

\* A cut through a conversation: its legal start is past the results it begins
\* with, all of the round that was cut, and none of a later round.
LEMMA CutStart ==
  ASSUME NEW n, NEW ms, InRounds(ms, n), NEW p \in 2 .. Len(ms),
         NEW ls, ls = SubSeq(ms, p, Len(ms)), NEW c, c = LegalStart(ls)
  PROVE  LegallyCut(ms, p, ls, c)
<1>1. ms \in Seq(MessageSet) /\ Len(ms) \in Nat /\ \A i \in 1 .. Len(ms) : Len(ms[i].calls) \in Nat
  BY MessageTypes DEF InRounds
<1> DEFINE N == Len(ms)
           L == Len(ls)
<1>0. \A i \in 1 .. N : ms[i].role = "tool" =>
        \E j \in 1 .. i - 1 : /\ Opens(ms, j) /\ i - j \in 1 .. Len(ms[j].calls)
                              /\ ms[i].call = ms[j].calls[i - j]
  <2>1. CallsAndResults(ms)
    BY Rounds, Zenon
  <2>2. QED
    BY <2>1, Zenon DEF CallsAndResults
<1>2. ls \in Seq(MessageSet) /\ L = N - p + 1 /\ \A i \in 1 .. L : ls[i] = ms[p + i - 1]
  BY <1>1
<1>3. L \in Nat /\ N \in Nat /\ p \in Nat
  BY <1>1, <1>2
<1>4. PICK j0 \in 1 .. p : Opens(ms, j0) /\ p <= j0 + Len(ms[j0].calls)
  <2>1. \A i \in 1 .. Len(ms) : \E j \in 1 .. i : Opens(ms, j) /\ i <= j + Len(ms[j].calls)
    BY Zenon DEF InRounds
  <2>2. p \in 1 .. Len(ms)
    BY <1>1
  <2>3. QED
    BY <2>1, <2>2
<1> DEFINE q == IF p = j0 THEN p ELSE j0 + Len(ms[j0].calls) + 1
           d == q - p
<1>5. /\ ms[j0].role # "tool" /\ j0 + Len(ms[j0].calls) <= N /\ Len(ms[j0].calls) \in Nat
      /\ \A k \in 1 .. Len(ms[j0].calls) : ms[j0 + k] = ToolMessage(ms[j0].calls[k])
  <2>1. j0 \in 1 .. Len(ms)
    BY <1>1
  <2>2. QED
    BY <1>1, <1>4, <2>1 DEF Opens
<1>6. q \in p .. N + 1 /\ q \in Nat /\ d \in 0 .. L
  BY <1>2, <1>3, <1>4, <1>5
<1>7. ASSUME NEW i \in p .. q - 1
      PROVE  /\ ms[i].role = "tool" /\ i \in 1 .. N
             /\ ~ \E j \in i + 1 - p .. i - p : ms[i].call \in CallIds(ls[j])
  <2>1. p # j0 /\ i - j0 \in 1 .. Len(ms[j0].calls) /\ j0 + (i - j0) = i
    <3>1. p # j0
      <4>1. SUFFICES ASSUME p = j0 PROVE FALSE
        OBVIOUS
      <4>2. q = p
        BY <4>1
      <4>3. i \in p .. p - 1
        BY <1>7, <4>2
      <4>4. QED
        BY <1>3, <4>3
    <3>2. q = j0 + Len(ms[j0].calls) + 1
      BY <3>1
    <3> HIDE DEF q
    <3>3. QED
      BY <1>3, <1>4, <1>5, <1>7, <3>1, <3>2
  <2>2. ms[i] = ToolMessage(ms[j0].calls[i - j0])
    BY <1>5, <2>1
  <2>3. i \in 1 .. N
    BY <1>3, <1>6, <1>7
  <2>4. \A j \in i + 1 - p .. i - p : FALSE
    BY <1>3, <2>3
  <2>5. QED
    BY <2>2, <2>3, <2>4, ToolMessageIs
<1>8. q = N + 1 \/ ms[q].role # "tool"
  <2>1. SUFFICES ASSUME q # N + 1, ms[q].role = "tool" PROVE FALSE
    OBVIOUS
  <2>2. q \in 1 .. N
    BY <1>3, <1>6, <2>1, SMTT(20)
  <2>3. PICK j \in 1 .. q - 1 : Opens(ms, j) /\ q - j \in 1 .. Len(ms[j].calls)
    BY <1>0, <2>1, <2>2
  <2>4. CASE p = j0
    BY <1>5, <2>1, <2>4
  <2>5. CASE p # j0
    <3>1. q = j0 + Len(ms[j0].calls) + 1
      BY <2>5
    <3> HIDE DEF q
    <3>2. /\ ms[j].role # "tool" /\ Len(ms[j].calls) \in Nat
          /\ \A k \in 1 .. Len(ms[j].calls) : ms[j + k] = ToolMessage(ms[j].calls[k])
      <4>1. j \in 1 .. Len(ms)
        BY <1>3, <1>6, <2>2, <2>3
      <4>2. QED
        BY <1>1, <2>3, <4>1 DEF Opens
    <3>3. ~ j > j0
      <4>1. SUFFICES ASSUME j > j0 PROVE FALSE
        OBVIOUS
      <4>2. j - j0 \in 1 .. Len(ms[j0].calls) /\ j0 + (j - j0) = j
        BY <1>5, <2>2, <2>3, <3>1, <4>1
      <4>3. ms[j].role = "tool"
        <5>1. ms[j0 + (j - j0)] = ToolMessage(ms[j0].calls[j - j0])
          BY <1>5, <4>2
        <5>2. QED
          BY <4>2, <5>1, ToolMessageIs
      <4>4. QED
        BY <3>2, <4>3
    <3>4. j # j0
      BY <1>5, <2>2, <2>3, <3>1
    <3>5. ~ j < j0
      <4>1. SUFFICES ASSUME j < j0 PROVE FALSE
        OBVIOUS
      <4>2. j0 - j \in 1 .. Len(ms[j].calls) /\ j + (j0 - j) = j0
        BY <1>5, <2>2, <2>3, <3>1, <3>2, <4>1, SMTT(20)
      <4>3. ms[j0].role = "tool"
        <5>1. ms[j + (j0 - j)] = ToolMessage(ms[j].calls[j0 - j])
          BY <3>2, <4>2
        <5>2. QED
          BY <4>2, <5>1, ToolMessageIs
      <4>4. QED
        BY <1>5, <4>3
    <3>6. QED
      BY <2>3, <3>3, <3>4, <3>5
  <2>6. QED
    BY <2>4, <2>5
<1> HIDE DEF q
<1>9. ASSUME NEW i \in q .. N, ms[i].role = "tool"
      PROVE  \E j \in q - p + 1 .. i - p : ms[i].call \in CallIds(ls[j])
  <2>1. i \in 1 .. N
    BY <1>3, <1>6
  <2>2. PICK j \in 1 .. i - 1 : /\ Opens(ms, j) /\ i - j \in 1 .. Len(ms[j].calls)
                                /\ ms[i].call = ms[j].calls[i - j]
    BY <1>0, <1>9, <2>1
  <2>3. j \in 1 .. N /\ Len(ms[j].calls) \in Nat
    BY <1>1, <2>1
  <2>4. j >= q
    <3>1. SUFFICES ASSUME j < q PROVE FALSE
      BY <1>6, <2>3
    <3>2. q - j \in 1 .. Len(ms[j].calls) /\ j + (q - j) = q
      <4>1. i - j \in 1 .. Len(ms[j].calls) /\ q <= i
        BY <1>6, <2>2
      <4>2. QED
        BY <1>6, <2>1, <2>3, <3>1, <4>1
    <3>3. ms[q].role = "tool"
      <4>1. ms[j + (q - j)] = ToolMessage(ms[j].calls[q - j])
        BY <2>2, <3>2 DEF Opens
      <4>2. QED
        BY <3>2, <4>1, ToolMessageIs
    <3>4. q # N + 1
      BY <1>3, <2>1
    <3>5. QED
      BY <1>8, <3>3, <3>4
  <2>5. j - p + 1 \in q - p + 1 .. i - p /\ j - p + 1 \in 1 .. L /\ p + (j - p + 1) - 1 = j
    <3>1. L = N - p + 1 /\ N \in Nat /\ p \in Nat /\ q \in Nat /\ p <= q
      BY <1>2, <1>3, <1>6
    <3>2. i \in Nat /\ j \in Nat /\ i <= N /\ j <= i - 1
      BY <1>3, <2>1, <2>2
    <3> HIDE DEF N, L
    <3>3. QED
      BY <2>4, <3>1, <3>2
  <2>6. ls[j - p + 1] = ms[j]
    BY <1>2, <2>5
  <2>7. ms[i].call \in CallIds(ms[j])
    <3>1. ms[j].calls \in Seq(CallIdSet)
      BY <1>1, <2>3, MessageTypes
    <3>2. i - j \in DOMAIN ms[j].calls
      BY <2>2, <3>1
    <3>3. QED
      BY <2>2, <3>2 DEF CallIds
  <2>8. QED
    BY <2>5, <2>6, <2>7
<1>10. PICK g : /\ g \in [0 .. L -> 0 .. L] /\ g[0] = 0
                /\ \A k \in 1 .. L :
                     g[k] = IF /\ ls[k].role = "tool"
                               /\ ~ \E j \in g[k - 1] + 1 .. k - 1 : ls[k].call \in CallIds(ls[j])
                            THEN k ELSE g[k - 1]
                /\ c = g[L]
  BY <1>2, LegalStartIs
<1> DEFINE U == {k \in 0 .. L : g[k] = IF k <= d THEN k ELSE d}
<1> HIDE DEF L, N, d
<1>11. d = q - p /\ L = N - p + 1
  BY <1>2 DEF d
<1>12. 0 \in U
  BY <1>3, <1>6, <1>10
<1>13. ASSUME NEW k \in 1 .. L, k - 1 \in U PROVE k \in U
  <2>1. /\ k \in 0 .. L /\ k \in Nat /\ ls[k] = ms[p + k - 1]
        /\ p + k - 1 \in p .. N
    BY <1>2, <1>3, <1>11, SMTT(20) DEF L
  <2>2. g[k] = IF /\ ls[k].role = "tool"
                  /\ ~ \E j \in g[k - 1] + 1 .. k - 1 : ls[k].call \in CallIds(ls[j])
               THEN k ELSE g[k - 1]
    BY <1>10
  <2>3. CASE k <= d
    <3>1. g[k - 1] = k - 1
      BY <1>3, <1>6, <1>13, <2>1, <2>3
    <3>2. p + k - 1 \in p .. q - 1
      <4>1. k \in 1 .. d /\ d \in Int /\ q \in Int /\ p \in Int
        BY <1>3, <1>6, <2>1, <2>3
      <4>2. QED
        BY <1>11, <4>1
    <3>3. (p + k - 1) + 1 - p = k /\ (p + k - 1) - p = k - 1 /\ (k - 1) + 1 = k
      BY <1>3, <2>1
    <3>4. ls[k].role = "tool" /\ ~ \E j \in k .. k - 1 : ls[k].call \in CallIds(ls[j])
      <4>1. ms[p + k - 1].role = "tool"
        BY <1>7, <3>2
      <4>2. \A j \in k .. k - 1 : FALSE
        BY <2>1
      <4>3. QED
        BY <2>1, <4>1, <4>2
    <3>5. g[k] = k
      BY <2>2, <3>1, <3>3, <3>4
    <3>6. QED
      BY <2>1, <2>3, <3>5
  <2>4. CASE k > d
    <3>1. g[k - 1] = d
      BY <1>3, <1>6, <1>13, <2>1, <2>4
    <3>2. p + k - 1 \in q .. N
      <4>1. k \in Nat /\ k <= L /\ k > d
        BY <1>3, <2>1, <2>4
      <4>2. p \in Nat /\ q \in Nat /\ N \in Nat
        BY <1>3, <1>6
      <4>3. QED
        BY <1>11, <4>1, <4>2
    <3>3. (p + k - 1) - p = k - 1 /\ q - p + 1 = d + 1
      BY <1>3, <1>6, <1>11, <2>1
    <3>4. ls[k].role = "tool" => \E j \in d + 1 .. k - 1 : ls[k].call \in CallIds(ls[j])
      BY <1>9, <2>1, <3>2, <3>3
    <3>5. g[k] = d
      BY <2>2, <3>1, <3>4
    <3>6. ~ k <= d
      BY <1>6, <2>1, <2>4
    <3>7. QED
      BY <2>1, <3>5, <3>6
  <2>5. QED
    BY <1>6, <2>1, <2>3, <2>4
<1>14. c = d
  <2>1. \A k \in 0 .. L : k \in U
    <3> HIDE DEF U
    <3>1. QED
      BY <1>3, <1>12, <1>13, UpTo
  <2>2. L \in 0 .. L
    BY <1>3
  <2>3. g[L] = d
    BY <1>3, <1>6, <2>1, <2>2
  <2>4. QED
    BY <1>10, <2>3
<1>15. p + c = q /\ p + c - 1 = q - 1
  BY <1>3, <1>6, <1>11, <1>14
<1>16. QED
  BY <1>2, <1>6, <1>7, <1>8, <1>14, <1>15 DEF L, N, LegallyCut

\* Some messages of a conversation, with each the results of its calls or with a
\* result the message that calls it, are a conversation.
LEMMA PartWellFormed ==
  ASSUME NEW n, NEW ms, InRounds(ms, n), NEW positions \in SUBSET (1 .. Len(ms)),
         \A j \in 1 .. Len(ms) : Opens(ms, j) =>
           \A k \in 1 .. Len(ms[j].calls) : j \in positions <=> j + k \in positions,
         NEW s \in Seq(MessageSet), NEW e, InOrder(e, Len(s), positions),
         \A a \in 1 .. Len(s) : s[a] = ms[e[a]]
  PROVE  WellFormed(s)
<1>1. /\ \A j \in 1 .. Len(ms) : ms[j].role # "tool" => Opens(ms, j)
      /\ \A i \in 1 .. Len(ms) : ms[i].role = "tool" =>
           /\ ms[i].calls = <<>>
           /\ \E j \in 1 .. i - 1 : /\ Opens(ms, j) /\ i - j \in 1 .. Len(ms[j].calls)
                                    /\ ms[i].call = ms[j].calls[i - j]
  <2>1. CallsAndResults(ms)
    BY Rounds, Zenon
  <2>2. QED
    BY <2>1, Zenon DEF CallsAndResults
<1>2. ms \in Seq(MessageSet) /\ Apart(ms) /\ Len(ms) \in Nat /\ Len(s) \in Nat
  BY DEF InRounds
<1>3. /\ \A a \in 1 .. Len(s) : e[a] \in positions /\ e[a] \in 1 .. Len(ms)
      /\ \A a, b \in 1 .. Len(s) : a < b => e[a] < e[b]
      /\ \A i \in positions : \E a \in 1 .. Len(s) : e[a] = i
  BY DEF InOrder
<1>4. ASSUME NEW a \in 1 .. Len(s), NEW b \in 1 .. Len(s)
      PROVE  (e[a] < e[b] => a < b) /\ (e[a] = e[b] => a = b)
  <2>1. e[a] \in Nat /\ e[b] \in Nat
    BY <1>2, <1>3
  <2>2. (a < b => e[a] < e[b]) /\ (b < a => e[b] < e[a])
    BY <1>3
  <2>3. QED
    BY <1>2, <2>1, <2>2
<1>5. \A i \in 1 .. Len(ms) : CallIds(ms[i]) = {ms[i].calls[k] : k \in 1 .. Len(ms[i].calls)}
  <2>1. \A i \in 1 .. Len(ms) : ms[i].calls \in Seq(CallIdSet)
    BY <1>2, MessageTypes
  <2>2. \A i \in 1 .. Len(ms) : DOMAIN ms[i].calls = 1 .. Len(ms[i].calls)
    BY <2>1
  <2>3. QED
    BY <2>2 DEF CallIds
<1>6. DOMAIN s = 1 .. Len(s)
  OBVIOUS
<1>7. ASSUME NEW i \in 1 .. Len(ms), ms[i].role = "tool", i \in positions
      PROVE  \E j \in 1 .. i - 1 :
               /\ j \in positions /\ Opens(ms, j) /\ i - j \in 1 .. Len(ms[j].calls)
               /\ ms[i].call = ms[j].calls[i - j]
  <2>1. PICK j \in 1 .. i - 1 : /\ Opens(ms, j) /\ i - j \in 1 .. Len(ms[j].calls)
                                /\ ms[i].call = ms[j].calls[i - j]
    BY <1>1, <1>7
  <2>2. j \in 1 .. Len(ms) /\ j + (i - j) = i
    BY <1>2
  <2>3. j \in positions <=> j + (i - j) \in positions
    BY <2>1, <2>2
  <2>4. QED
    BY <1>7, <2>1, <2>2, <2>3
<1>8. ASSUME NEW a \in DOMAIN s, s[a].role = "tool" PROVE Declared(s, a)
  <2>1. a \in 1 .. Len(s) /\ s[a] = ms[e[a]] /\ e[a] \in positions /\ e[a] \in 1 .. Len(ms)
    BY <1>3, <1>6
  <2>2. PICK j \in 1 .. e[a] - 1 :
          /\ j \in positions /\ Opens(ms, j) /\ e[a] - j \in 1 .. Len(ms[j].calls)
          /\ ms[e[a]].call = ms[j].calls[e[a] - j]
    BY <1>7, <1>8, <2>1
  <2>3. PICK b \in 1 .. Len(s) : e[b] = j
    BY <1>3, <2>2
  <2>4. b < a
    <3>1. e[b] < e[a]
      BY <1>2, <2>1, <2>3
    <3>2. QED
      BY <1>4, <2>1, <3>1
  <2>5. b \in 1 .. a - 1
    BY <1>2, <2>1, <2>4
  <2>6. s[b] = ms[j] /\ j \in 1 .. Len(ms)
    BY <1>3, <2>3
  <2>7. s[a].call \in CallIds(s[b])
    <3>1. CallIds(ms[j]) = {ms[j].calls[k] : k \in 1 .. Len(ms[j].calls)}
      BY <1>5, <2>6
    <3>2. ms[e[a]].call \in CallIds(ms[j])
      BY <2>2, <3>1
    <3>3. QED
      BY <2>1, <2>6, <3>2
  <2>8. QED
    BY <2>5, <2>7 DEF Declared
<1>9. ASSUME NEW a \in DOMAIN s, NEW id \in CallIds(s[a])
      PROVE  Cardinality({x \in a + 1 .. Len(s) : s[x].role = "tool" /\ s[x].call = id}) = 1
  <2> DEFINE Results == {x \in a + 1 .. Len(s) : s[x].role = "tool" /\ s[x].call = id}
  <2>1. a \in 1 .. Len(s) /\ s[a] = ms[e[a]] /\ e[a] \in positions /\ e[a] \in 1 .. Len(ms)
    BY <1>3, <1>6
  <2>2. PICK k \in 1 .. Len(ms[e[a]].calls) : id = ms[e[a]].calls[k]
    <3>1. id \in CallIds(ms[e[a]])
      BY <2>1
    <3>2. CallIds(ms[e[a]]) = {ms[e[a]].calls[k] : k \in 1 .. Len(ms[e[a]].calls)}
      BY <1>5, <2>1
    <3>3. QED
      BY <3>1, <3>2
  <2>3. ms[e[a]].role # "tool"
    <3>1. SUFFICES ASSUME ms[e[a]].role = "tool" PROVE FALSE
      OBVIOUS
    <3>2. ms[e[a]].calls = <<>>
      BY <1>1, <2>1, <3>1
    <3>3. QED
      BY <2>2, <3>2
  <2>4. /\ Opens(ms, e[a])
        /\ ms[e[a] + k] = ToolMessage(id)
        /\ e[a] + k \in 1 .. Len(ms) /\ e[a] + k > e[a]
    <3>1. Opens(ms, e[a])
      BY <1>1, <2>1, <2>3
    <3>2. Len(ms[e[a]].calls) \in Nat
      BY <1>2, <2>1, MessageTypes
    <3>3. QED
      BY <1>2, <2>1, <2>2, <3>1, <3>2, SMTT(20) DEF Opens
  <2>5. e[a] + k \in positions
    BY <2>1, <2>2, <2>4
  <2>6. PICK b \in 1 .. Len(s) : e[b] = e[a] + k
    BY <1>3, <2>5
  <2>7. a < b
    BY <1>4, <2>1, <2>4, <2>6
  <2>8. b \in Results
    <3>1. s[b] = ToolMessage(id)
      BY <2>4, <2>6
    <3>2. b \in a + 1 .. Len(s)
      BY <1>2, <2>1, <2>7
    <3>3. QED
      BY <3>1, <3>2, ToolMessageIs
  <2>9. ASSUME NEW x \in Results PROVE x = b
    <3>1. x \in 1 .. Len(s) /\ s[x].role = "tool" /\ s[x].call = id
      BY <1>2, <2>1
    <3>2. s[x] = ms[e[x]] /\ e[x] \in 1 .. Len(ms)
      BY <1>3, <3>1
    <3>3. \E j \in 1 .. e[x] - 1 : /\ Opens(ms, j) /\ e[x] - j \in 1 .. Len(ms[j].calls)
                                   /\ ms[e[x]].call = ms[j].calls[e[x] - j]
      BY <1>1, <3>1, <3>2
    <3>4. PICK j \in 1 .. e[x] - 1 : \E l \in 1 .. Len(ms[j].calls) :
            e[x] - j = l /\ ms[e[x]].call = ms[j].calls[l]
      BY <3>3
    <3>8. PICK l \in 1 .. Len(ms[j].calls) : e[x] - j = l /\ ms[e[x]].call = ms[j].calls[l]
      BY <3>4
    <3>5. j = e[a] /\ l = k
      <4>1. j \in 1 .. Len(ms) /\ ms[j].calls[l] = ms[e[a]].calls[k]
        <5>1. j \in 1 .. Len(ms)
          BY <1>2, <3>2
        <5>2. QED
          BY <2>2, <3>1, <3>2, <3>8, <5>1
      <4>2. \A i \in 1 .. Len(ms) : \A o \in 1 .. Len(ms[j].calls) : \A u \in 1 .. Len(ms[i].calls) :
              ms[j].calls[o] = ms[i].calls[u] => j = i /\ o = u
        BY <1>2, <4>1, Zenon DEF Apart
      <4>3. \A u \in 1 .. Len(ms[e[a]].calls) :
              ms[j].calls[l] = ms[e[a]].calls[u] => j = e[a] /\ l = u
        BY <2>1, <4>2, Zenon
      <4>4. QED
        BY <2>2, <4>1, <4>3, Zenon
    <3>6. e[x] = e[b]
      BY <2>1, <2>6, <3>2, <3>5, <3>8, SMTT(20)
    <3>7. QED
      BY <1>4, <3>1, <3>6
  <2> HIDE DEF Results
  <2>10. Results = {b}
    BY <2>8, <2>9
  <2>11. Cardinality(Results) = 1
    BY <2>10, FS_Singleton
  <2>12. QED
    BY <2>11 DEF Results
<1>10. QED
  BY <1>8, <1>9 DEF WellFormed

LEMMA SameSequence ==
  ASSUME NEW T, NEW s \in Seq(T), NEW t \in Seq(T), Len(s) = Len(t),
         \A i \in 1 .. Len(s) : s[i] = t[i]
  PROVE  s = t
  OBVIOUS

\* The end of an end.
LEMMA EndIsSequence ==
  ASSUME NEW T, NEW ms \in Seq(T), NEW a \in 1 .. Len(ms) + 1
  PROVE  /\ SubSeq(ms, a, Len(ms)) \in Seq(T)
         /\ Len(SubSeq(ms, a, Len(ms))) = Len(ms) - a + 1
         /\ \A i \in 1 .. Len(ms) - a + 1 : SubSeq(ms, a, Len(ms))[i] = ms[a + i - 1]
  OBVIOUS

LEMMA EndOfEnd ==
  ASSUME NEW T, NEW ms \in Seq(T), NEW a \in 1 .. Len(ms) + 1, NEW b \in 1 .. Len(ms) - a + 2
  PROVE  /\ SubSeq(ms, a, Len(ms)) \in Seq(T)
         /\ Len(SubSeq(ms, a, Len(ms))) = Len(ms) - a + 1
         /\ SubSeq(SubSeq(ms, a, Len(ms)), b, Len(ms) - a + 1) = SubSeq(ms, a + b - 1, Len(ms))
<1> DEFINE N == Len(ms)
           s == SubSeq(ms, a, N)
           t == SubSeq(s, b, N - a + 1)
           u == SubSeq(ms, a + b - 1, N)
<1>1. N \in Nat /\ a \in Nat /\ b \in Nat /\ a + b - 1 \in 1 .. N + 1
  OBVIOUS
<1>2. s \in Seq(T) /\ Len(s) = N - a + 1 /\ \A i \in 1 .. N - a + 1 : s[i] = ms[a + i - 1]
  BY EndIsSequence, Zenon
<1>3. /\ u \in Seq(T) /\ Len(u) = N - a - b + 2
      /\ \A i \in 1 .. N - a - b + 2 : u[i] = ms[a + b - 1 + i - 1]
  <2> DEFINE c == a + b - 1
  <2>1. c \in 1 .. Len(ms) + 1 /\ N - c + 1 = N - a - b + 2
    BY <1>1
  <2> HIDE DEF c
  <2>2. /\ SubSeq(ms, c, Len(ms)) \in Seq(T)
        /\ Len(SubSeq(ms, c, Len(ms))) = Len(ms) - c + 1
        /\ \A i \in 1 .. Len(ms) - c + 1 : SubSeq(ms, c, Len(ms))[i] = ms[c + i - 1]
    BY <2>1, EndIsSequence, Zenon
  <2>3. u = SubSeq(ms, c, Len(ms)) /\ Len(ms) - c + 1 = N - a - b + 2
    BY <2>1 DEF c
  <2> HIDE DEF u, N
  <2>4. /\ u \in Seq(T) /\ Len(u) = N - a - b + 2
        /\ \A i \in 1 .. N - a - b + 2 : u[i] = ms[c + i - 1]
    BY <2>2, <2>3, Zenon
  <2>5. QED
    BY <2>4, Zenon DEF c
<1> HIDE DEF s, u, N
<1>4. t \in Seq(T) /\ Len(t) = N - a - b + 2 /\ \A i \in 1 .. N - a - b + 2 : t[i] = s[b + i - 1]
  <2>1. N - a + 1 \in Nat /\ b \in 1 .. (N - a + 1) + 1
    BY <1>1 DEF N
  <2>0. Len(s) = N - a + 1
    BY <1>2, Zenon
  <2>2. b \in 1 .. Len(s) + 1 /\ t = SubSeq(s, b, Len(s))
    <3>1. b \in 1 .. Len(s) + 1
      BY <2>0, <2>1
    <3>2. t = SubSeq(s, b, Len(s))
      BY <2>0
    <3>3. QED
      BY <3>1, <3>2
  <2> HIDE DEF t
  <2>3. Len(s) - b + 1 = N - a - b + 2
    BY <1>1, <2>0
  <2>4. /\ SubSeq(s, b, Len(s)) \in Seq(T)
        /\ Len(SubSeq(s, b, Len(s))) = Len(s) - b + 1
        /\ \A i \in 1 .. Len(s) - b + 1 : SubSeq(s, b, Len(s))[i] = s[b + i - 1]
    BY <1>2, <2>2, EndIsSequence, Zenon
  <2>5. QED
    BY <2>2, <2>3, <2>4, Zenon
<1>5. ASSUME NEW i \in 1 .. N - a - b + 2 PROVE t[i] = u[i]
  <2>1. b + i - 1 \in 1 .. N - a + 1 /\ a + (b + i - 1) - 1 = a + b - 1 + i - 1
    BY <1>1
  <2>2. QED
    BY <1>2, <1>3, <1>4, <2>1
<1> HIDE DEF t
<1>6. t = u
  BY <1>3, <1>4, <1>5, SameSequence
<1>7. QED
  BY <1>2, <1>6 DEF s, t, u, N

\* What is left of a cut conversation behind its legal start.
LEMMA CutIs ==
  ASSUME NEW n, NEW ms, InRounds(ms, n), NEW p \in 2 .. Len(ms)
  PROVE  \E q \in p .. Len(ms) + 1 :
           /\ From(SubSeq(ms, p, Len(ms)), LegalStart(SubSeq(ms, p, Len(ms)))) = SubSeq(ms, q, Len(ms))
           /\ \A i \in p .. q - 1 : ms[i].role = "tool"
           /\ q = Len(ms) + 1 \/ ms[q].role # "tool"
<1> DEFINE ls == SubSeq(ms, p, Len(ms))
           c == LegalStart(ls)
<1>1. /\ Len(ls) = Len(ms) - p + 1 /\ c \in 0 .. Len(ls)
      /\ \A i \in p .. p + c - 1 : ms[i].role = "tool"
      /\ p + c = Len(ms) + 1 \/ ms[p + c].role # "tool"
  <2>1. ls = SubSeq(ms, p, Len(ms)) /\ c = LegalStart(ls)
    OBVIOUS
  <2> HIDE DEF ls, c
  <2>2. LegallyCut(ms, p, ls, c)
    BY <2>1, CutStart
  <2>3. QED
    BY <2>2 DEF LegallyCut
<1>2. ms \in Seq(MessageSet) /\ Len(ms) \in Nat
  BY DEF InRounds
<1>3. p \in 1 .. Len(ms) + 1 /\ c + 1 \in 1 .. Len(ms) - p + 2 /\ p + (c + 1) - 1 = p + c
  <2> HIDE DEF c, ls
  <2>1. QED
    BY <1>1, <1>2
<1>4. SubSeq(ls, c + 1, Len(ms) - p + 1) = SubSeq(ms, p + (c + 1) - 1, Len(ms))
  <2> HIDE DEF c
  <2>1. QED
    BY <1>2, <1>3, EndOfEnd
<1>5. From(ls, c) = SubSeq(ms, p + c, Len(ms))
  <2> HIDE DEF c, ls
  <2>1. QED
    BY <1>1, <1>3, <1>4 DEF From
<1>6. p + c \in p .. Len(ms) + 1
  <2> HIDE DEF c, ls
  <2>1. QED
    BY <1>1, <1>2
<1>7. \E q : q = p + c
  OBVIOUS
<1> HIDE DEF c
<1>8. PICK q : q = p + c
  BY <1>7
<1>9. /\ q \in p .. Len(ms) + 1 /\ From(ls, c) = SubSeq(ms, q, Len(ms))
      /\ \A i \in p .. q - 1 : ms[i].role = "tool"
      /\ q = Len(ms) + 1 \/ ms[q].role # "tool"
  <2> HIDE DEF ls
  <2>1. QED
    BY <1>1, <1>5, <1>6, <1>8
<1>10. QED
  BY <1>9, Zenon DEF c

\* The first message, and those from position q on.
KeepsEnd(s, ms, q) ==
  /\ s \in Seq(MessageSet) /\ Len(s) = Len(ms) - q + 2
  /\ \A a \in 1 .. Len(s) : s[a] = ms[IF a = 1 THEN 1 ELSE a + q - 2]

\* The system's prompt and the rounds from one of them on.
LEMMA EndWellFormed ==
  ASSUME NEW n, NEW ms, InRounds(ms, n), NEW q \in 2 .. Len(ms) + 1,
         q = Len(ms) + 1 \/ ms[q].role # "tool",
         NEW s, KeepsEnd(s, ms, q)
  PROVE  WellFormed(s)
<1> USE DEF KeepsEnd
<1> DEFINE N == Len(ms)
           positions == {1} \cup (q .. Len(ms))
           e == [a \in 1 .. Len(s) |-> IF a = 1 THEN 1 ELSE a + q - 2]
<1>1. ms \in Seq(MessageSet) /\ N \in Nat /\ N >= 2 /\ q \in Nat /\ Len(s) \in Nat \ {0}
  BY DEF InRounds
<1>2. positions \in SUBSET (1 .. Len(ms))
  BY <1>1
<1>3. ASSUME NEW j \in 1 .. Len(ms), Opens(ms, j), NEW k \in 1 .. Len(ms[j].calls)
      PROVE  j \in positions <=> j + k \in positions
  <2>1. /\ Len(ms[j].calls) \in Nat /\ j + Len(ms[j].calls) <= N
        /\ \A l \in 1 .. Len(ms[j].calls) : ms[j + l].role = "tool"
    <3>1. Len(ms[j].calls) \in Nat
      BY <1>1, MessageTypes
    <3>2. /\ j + Len(ms[j].calls) <= N
          /\ \A l \in 1 .. Len(ms[j].calls) : ms[j + l] = ToolMessage(ms[j].calls[l])
      BY <1>3, Zenon DEF Opens
    <3>3. QED
      BY <3>1, <3>2, ToolMessageIs
  <2>2. k \in Nat \ {0} /\ j \in Nat \ {0} /\ j + k \in 2 .. N
    <3>1. k \in Nat /\ k >= 1 /\ k <= Len(ms[j].calls)
      BY <2>1
    <3>2. j \in Nat /\ j >= 1
      BY <1>1
    <3>3. j + k <= j + Len(ms[j].calls)
      BY <2>1, <3>1, <3>2
    <3>4. j + Len(ms[j].calls) <= N /\ N \in Nat /\ Len(ms[j].calls) \in Nat
      BY <1>1, <2>1
    <3> HIDE DEF N
    <3>5. QED
      BY <3>1, <3>2, <3>3, <3>4
  <2>3. j # 1
    <3>1. SUFFICES ASSUME j = 1 PROVE FALSE
      OBVIOUS
    <3>2. ms[1] = System
      BY DEF InRounds
    <3>3. ms[j].calls = <<>>
      BY <3>1, <3>2 DEF System
    <3>4. QED
      BY <3>3
  <2>4. j + k >= q => j >= q
    <3>1. SUFFICES ASSUME j + k >= q, j < q PROVE FALSE
      BY <1>1, <2>2
    <3>2. q - j \in 1 .. Len(ms[j].calls) /\ j + (q - j) = q /\ q # N + 1
      BY <1>1, <2>1, <2>2, <3>1
    <3>3. ms[j + (q - j)].role = "tool"
      BY <2>1, <3>2
    <3>4. QED
      BY <3>2, <3>3
  <2>5. j \in positions <=> j >= q
    BY <1>1, <2>2, <2>3
  <2>6. j + k \in positions <=> j + k >= q
    BY <1>1, <2>2
  <2>7. j >= q => j + k >= q
    BY <1>1, <2>2
  <2>8. QED
    BY <2>4, <2>5, <2>6, <2>7
<1>4. InOrder(e, Len(s), positions)
  <2>1. \A a \in 1 .. Len(s) : (IF a = 1 THEN 1 ELSE a + q - 2) \in positions
    BY <1>1
  <2>2. e \in [1 .. Len(s) -> positions]
    <3> HIDE DEF positions
    <3>1. QED
      BY <2>1
  <2>3. \A a, b \in 1 .. Len(s) : a < b => e[a] < e[b]
    BY <1>1
  <2>4. ASSUME NEW i \in positions PROVE \E a \in 1 .. Len(s) : e[a] = i
    <3>1. CASE i = 1
      <4>1. 1 \in 1 .. Len(s) /\ e[1] = 1
        BY <1>1
      <4>2. QED
        BY <3>1, <4>1
    <3>2. CASE i # 1
      <4>1. i \in q .. N /\ i - q + 2 \in 1 .. Len(s) /\ i - q + 2 # 1 /\ (i - q + 2) + q - 2 = i
        <5>1. i \in q .. N /\ i \in Int
          BY <1>1, <3>2
        <5>2. q \in Nat /\ N \in Nat /\ q >= 2 /\ Len(s) = N - q + 2
          BY <1>1
        <5> HIDE DEF N
        <5>3. QED
          BY <5>1, <5>2, SMTT(20)
      <4>2. e[i - q + 2] = i
        BY <4>1
      <4>3. QED
        BY <4>1, <4>2
    <3>3. QED
      BY <3>1, <3>2
  <2> HIDE DEF e, positions
  <2>5. QED
    BY <2>2, <2>3, <2>4 DEF InOrder
<1>5. \A a \in 1 .. Len(s) : s[a] = ms[e[a]]
  OBVIOUS
<1> HIDE DEF e, positions
<1>6. QED
  BY <1>2, <1>3, <1>4, <1>5, PartWellFormed

LEMMA RoundsStart ==
  ASSUME NEW n, NEW ms, InRounds(ms, n)
  PROVE  /\ ms \in Seq(MessageSet) /\ Len(ms) \in Nat /\ Len(ms) >= 2
         /\ SystemAt(ms) = 1 .. 1 /\ DOMAIN ms \ SystemAt(ms) = 2 .. Len(ms)
         /\ Selected(ms, SystemAt(ms)) = <<System>>
         /\ Selected(ms, DOMAIN ms \ SystemAt(ms)) = SubSeq(ms, 2, Len(ms))
<1>1. /\ ms \in Seq(MessageSet) /\ Len(ms) \in Nat /\ Len(ms) >= 2 /\ DOMAIN ms = 1 .. Len(ms)
      /\ ms[1] = System /\ \A i \in 2 .. Len(ms) : ms[i].role # "system"
  BY DEF InRounds
<1>2. SystemAt(ms) = 1 .. 1
  <2>1. \A i \in 1 .. Len(ms) : i = 1 \/ i \in 2 .. Len(ms)
    BY <1>1
  <2>2. System.role = "system"
    BY DEF System
  <2>3. \A i \in 1 .. Len(ms) : ms[i].role = "system" <=> i = 1
    BY <1>1, <2>1, <2>2
  <2>4. QED
    BY <1>1, <2>3 DEF SystemAt
<1>3. DOMAIN ms \ SystemAt(ms) = 2 .. Len(ms)
  BY <1>1, <1>2
<1>4. Selected(ms, 1 .. 1) = <<System>>
  <2>1. /\ Selected(ms, 1 .. 1) \in Seq(MessageSet) /\ Len(Selected(ms, 1 .. 1)) = 1 - 1 + 1
        /\ \A a \in 1 .. 1 - 1 + 1 : Selected(ms, 1 .. 1)[a] = ms[1 + a - 1]
    <3> DEFINE p == 1
    <3>1. p \in 1 .. Len(ms) + 1 /\ p \in 0 .. Len(ms) /\ p <= p + 1
      BY <1>1
    <3> HIDE DEF p
    <3>2. /\ Selected(ms, p .. p) \in Seq(MessageSet)
          /\ Len(Selected(ms, p .. p)) = p - p + 1
          /\ \A a \in 1 .. p - p + 1 : Selected(ms, p .. p)[a] = ms[p + a - 1]
      BY <1>1, <3>1, SelectedInterval
    <3>3. QED
      BY <3>2 DEF p
  <2>2. <<System>> \in Seq(MessageSet) /\ Len(<<System>>) = 1 /\ <<System>>[1] = System
    BY <1>1
  <2> DEFINE s == Selected(ms, 1 .. 1)
  <2>3. s \in Seq(MessageSet) /\ Len(s) = 1 /\ s[1] = System
    BY <1>1, <2>1
  <2> HIDE DEF s
  <2>4. \A i \in 1 .. Len(s) : s[i] = <<System>>[i]
    BY <2>2, <2>3
  <2>5. s = <<System>>
    BY <2>2, <2>3, <2>4, SameSequence
  <2>6. QED
    BY <2>5 DEF s
<1>5. Selected(ms, 2 .. Len(ms)) = SubSeq(ms, 2, Len(ms))
  <2> DEFINE s == Selected(ms, 2 .. Len(ms))
             t == SubSeq(ms, 2, Len(ms))
  <2>1. /\ s \in Seq(MessageSet) /\ Len(s) = Len(ms) - 2 + 1
        /\ \A a \in 1 .. Len(ms) - 2 + 1 : s[a] = ms[2 + a - 1]
    <3>1. 2 \in 1 .. Len(ms) + 1 /\ Len(ms) \in 0 .. Len(ms) /\ 2 <= Len(ms) + 1
      BY <1>1
    <3> DEFINE p == 2
               q == Len(ms)
    <3>2. p \in 1 .. Len(ms) + 1 /\ q \in 0 .. Len(ms) /\ p <= q + 1
      BY <3>1
    <3> HIDE DEF p, q
    <3>3. /\ Selected(ms, p .. q) \in Seq(MessageSet)
          /\ Len(Selected(ms, p .. q)) = q - p + 1
          /\ \A a \in 1 .. q - p + 1 : Selected(ms, p .. q)[a] = ms[p + a - 1]
      BY <1>1, <3>2, SelectedInterval
    <3>4. QED
      BY <3>3 DEF p, q
  <2> HIDE DEF s
  <2>2. /\ t \in Seq(MessageSet) /\ Len(t) = Len(ms) - 2 + 1
        /\ \A a \in 1 .. Len(ms) - 2 + 1 : t[a] = ms[2 + a - 1]
    BY <1>1
  <2> HIDE DEF t
  <2>3. s = t
    BY <2>1, <2>2, SameSequence
  <2>4. QED
    BY <2>3 DEF s, t
<1>6. QED
  BY <1>1, <1>2, <1>3, <1>4, <1>5

\* The system's prompt and an end of the conversation.
LEMMA EndIs ==
  ASSUME NEW n, NEW ms, InRounds(ms, n), NEW q \in 2 .. Len(ms) + 1,
         q = Len(ms) + 1 \/ ms[q].role # "tool"
  PROVE  /\ WellFormed(<<System>> \o SubSeq(ms, q, Len(ms)))
         /\ q <= Len(ms) => Last(<<System>> \o SubSeq(ms, q, Len(ms))).role # "system"
<1> DEFINE t == SubSeq(ms, q, Len(ms))
           s == <<System>> \o t
<1>1. /\ ms \in Seq(MessageSet) /\ Len(ms) \in Nat /\ Len(ms) >= 2 /\ q \in Nat
      /\ ms[1] = System /\ \A i \in 2 .. Len(ms) : ms[i].role # "system"
  BY DEF InRounds
<1>2. t \in Seq(MessageSet) /\ Len(t) = Len(ms) - q + 1 /\ \A a \in 1 .. Len(t) : t[a] = ms[q + a - 1]
  BY <1>1
<1> HIDE DEF t
<1>3. System \in MessageSet
  <2>1. 1 \in 1 .. Len(ms)
    BY <1>1
  <2>2. QED
    BY <1>1, <2>1
<1>4. /\ s \in Seq(MessageSet) /\ Len(s) = Len(t) + 1 /\ Len(t) \in Nat
      /\ s[1] = System /\ \A a \in 2 .. Len(t) + 1 : s[a] = t[a - 1]
  <2>1. <<System>> \in Seq(MessageSet) /\ Len(<<System>>) = 1 /\ <<System>>[1] = System
    BY <1>3
  <2>2. Len(t) \in Nat
    BY <1>2
  <2>3. \A u \in Seq(MessageSet) : \A v \in Seq(MessageSet) :
          /\ u \o v \in Seq(MessageSet) /\ Len(u \o v) = Len(u) + Len(v)
          /\ \A i \in 1 .. Len(u) + Len(v) : (u \o v)[i] = IF i <= Len(u) THEN u[i] ELSE v[i - Len(u)]
    OBVIOUS
  <2>4. s \in Seq(MessageSet) /\ Len(s) = 1 + Len(t)
        /\ \A i \in 1 .. 1 + Len(t) : s[i] = IF i <= 1 THEN <<System>>[i] ELSE t[i - 1]
    BY <1>2, <2>1, <2>3
  <2> HIDE DEF s
  <2>5. QED
    BY <2>1, <2>2, <2>4
<1> HIDE DEF s
<1>5. ASSUME NEW a \in 1 .. Len(s) PROVE s[a] = ms[IF a = 1 THEN 1 ELSE a + q - 2]
  <2>1. CASE a = 1
    BY <1>1, <1>4, <2>1
  <2>2. CASE a # 1
    <3>1. a \in 2 .. Len(t) + 1 /\ a - 1 \in 1 .. Len(t) /\ q + (a - 1) - 1 = a + q - 2
      BY <1>1, <1>4, <2>2
    <3>2. t[a - 1] = ms[q + (a - 1) - 1]
      BY <1>2, <3>1
    <3>3. QED
      BY <1>4, <2>2, <3>1, <3>2
  <2>3. QED
    BY <2>1, <2>2
<1>6. Len(s) = Len(ms) - q + 2
  BY <1>1, <1>2, <1>4
<1>7. WellFormed(s)
  <2>1. KeepsEnd(s, ms, q)
    BY <1>4, <1>5, <1>6 DEF KeepsEnd
  <2>2. QED
    BY <2>1, EndWellFormed
<1>8. q <= Len(ms) => Last(s).role # "system"
  <2>1. SUFFICES ASSUME q <= Len(ms) PROVE s[Len(s)].role # "system"
    BY DEF Last
  <2>2. Len(s) \in 1 .. Len(s) /\ Len(s) # 1 /\ Len(s) + q - 2 = Len(ms) /\ Len(ms) \in 2 .. Len(ms)
    BY <1>1, <1>6, <2>1
  <2>3. s[Len(s)] = ms[Len(ms)]
    BY <1>5, <2>2
  <2>4. QED
    BY <1>1, <2>2, <2>3
<1>9. QED
  BY <1>7, <1>8 DEF s, t

LEMMA AllWellFormed ==
  ASSUME NEW n, NEW ms, InRounds(ms, n)
  PROVE  WellFormed(ms) /\ Last(ms).role # "system"
<1>1. /\ ms \in Seq(MessageSet) /\ Len(ms) \in Nat /\ Len(ms) >= 2 /\ ms[2] = User
      /\ \A i \in 2 .. Len(ms) : ms[i].role # "system"
  BY DEF InRounds
<1>2. 2 \in 2 .. Len(ms) + 1 /\ ms[2].role # "tool"
  BY <1>1 DEF User
<1>3. /\ Len(ms) = Len(ms) - 2 + 2
      /\ \A a \in 1 .. Len(ms) : ms[a] = ms[IF a = 1 THEN 1 ELSE a + 2 - 2]
  BY <1>1
<1>4. WellFormed(ms)
  <2>1. KeepsEnd(ms, ms, 2)
    BY <1>1, <1>3 DEF KeepsEnd
  <2>2. QED
    BY <1>2, <2>1, EndWellFormed
<1>5. Len(ms) \in 2 .. Len(ms)
  BY <1>1
<1>6. QED
  BY <1>1, <1>4, <1>5 DEF Last

\* When every answer fits into the last four messages, so does an answer.
LEMMA FewHold ==
  ASSUME NEW n, NEW ms, InRounds(ms, n), \A m \in Range(ms) : Len(m.calls) <= 3
  PROVE  \E j \in 2 .. Len(ms) : ms[j].role # "tool" /\ Len(ms) - 3 <= j
<1>1. ms \in Seq(MessageSet) /\ Len(ms) \in Nat /\ Len(ms) >= 2 /\ ms[1] = System /\ DOMAIN ms = 1 .. Len(ms)
  BY DEF InRounds
<1>2. PICK j \in 1 .. Len(ms) : Opens(ms, j) /\ Len(ms) <= j + Len(ms[j].calls)
  <2>1. \A i \in 1 .. Len(ms) : \E j \in 1 .. i : Opens(ms, j) /\ i <= j + Len(ms[j].calls)
    BY Zenon DEF InRounds
  <2>2. Len(ms) \in 1 .. Len(ms)
    BY <1>1
  <2>3. QED
    BY <2>1, <2>2
<1>3. Len(ms[j].calls) \in Nat /\ Len(ms[j].calls) <= 3
  <2>1. ms[j] \in Range(ms)
    BY <1>1 DEF Range
  <2>2. QED
    BY <1>1, <2>1, MessageTypes
<1>4. j # 1
  <2>1. System.calls = <<>> /\ Len(<<>>) = 0
    BY DEF System
  <2>2. QED
    BY <1>1, <1>2, <2>1
<1>5. j \in 2 .. Len(ms) /\ Len(ms) - 3 <= j
  BY <1>1, <1>2, <1>3, <1>4
<1>6. QED
  BY <1>2, <1>5 DEF Opens

LEMMA SnipIs ==
  ASSUME NEW n, NEW ms, InRounds(ms, n), AgentRunAssumption
  PROVE  /\ WellFormed(Snip(ms))
         /\ (\A m \in Range(ms) : Len(m.calls) <= 3) => Last(Snip(ms)).role # "system"
<1> DEFINE N == Len(ms)
           rest == Selected(ms, DOMAIN ms \ SystemAt(ms))
           cut == SubSeq(rest, Len(rest) - Window + 1, Len(rest))
           ending == FromUser(cut)
           kept == From(ending, LegalStart(ending))
           few == Tail4(rest)
<1>1. /\ ms \in Seq(MessageSet) /\ N \in Nat /\ N >= 2
      /\ Selected(ms, SystemAt(ms)) = <<System>> /\ rest = SubSeq(ms, 2, N)
  BY RoundsStart
<1>2. rest \in Seq(MessageSet) /\ Len(rest) = N - 1
  <2>1. SubSeq(ms, 2, N) \in Seq(MessageSet) /\ Len(SubSeq(ms, 2, N)) = N - 1
    BY <1>1
  <2> HIDE DEF rest, N
  <2>2. QED
    BY <1>1, <2>1
<1>3. Snip(ms) = IF Len(rest) <= Window THEN ms
                 ELSE Selected(ms, SystemAt(ms))
                        \o (IF kept # <<>> THEN kept ELSE From(few, LegalStart(few)))
  BY DEF Snip
<1>4. Window \in Nat \ {0}
  BY DEF AgentRunAssumption
<1> HIDE DEF rest, cut, ending, kept, few, N
<1>5. CASE Len(rest) <= Window
  BY <1>3, <1>5, AllWellFormed
<1>6. CASE ~ Len(rest) <= Window
  <2>1. N - Window + 1 \in 3 .. N /\ N - Window \in 1 .. N - 2 + 2 /\ 2 \in 1 .. N + 1
    BY <1>1, <1>2, <1>4, <1>6
  <2>2. cut = SubSeq(ms, N - Window + 1, N)
    <3>1. SubSeq(SubSeq(ms, 2, N), N - Window, N - 2 + 1) = SubSeq(ms, 2 + (N - Window) - 1, N)
      BY <1>1, <2>1, EndOfEnd DEF N
    <3>2. 2 + (N - Window) - 1 = N - Window + 1 /\ N - 2 + 1 = N - 1 /\ (N - 1) - Window + 1 = N - Window
      BY <1>1, <1>4
    <3>3. cut = SubSeq(rest, (N - 1) - Window + 1, N - 1)
      BY <1>2 DEF cut
    <3>4. QED
      BY <1>1, <3>1, <3>2, <3>3
  <2>3. ending = cut
    <3>1. /\ cut \in Seq(MessageSet) /\ Len(cut) = N - (N - Window + 1) + 1
          /\ \A i \in 1 .. Len(cut) : cut[i] = ms[(N - Window + 1) + i - 1]
      BY <1>1, <2>1, <2>2, SMTT(20) DEF N
    <3>2. \A i \in 3 .. N : ms[i].role # "user"
      BY DEF InRounds, N
    <3>3. \A i \in 1 .. Len(cut) : (N - Window + 1) + i - 1 \in 3 .. N
      BY <1>1, <1>4, <2>1, <3>1
    <3>4. {i \in DOMAIN cut : cut[i].role = "user"} = {}
      BY <3>1, <3>2, <3>3
    <3>5. QED
      BY <3>4 DEF ending, FromUser
  <2>4. PICK q1 \in N - Window + 1 .. N + 1 :
          kept = SubSeq(ms, q1, N) /\ (q1 = N + 1 \/ ms[q1].role # "tool")
    <3>1. N - Window + 1 \in 2 .. Len(ms)
      BY <2>1 DEF N
    <3>2. kept = From(SubSeq(ms, N - Window + 1, Len(ms)), LegalStart(SubSeq(ms, N - Window + 1, Len(ms))))
      BY <2>2, <2>3 DEF kept, N
    <3>3. QED
      BY <3>1, <3>2, CutIs DEF N
  <2> DEFINE size == IF N - 1 < 4 THEN N - 1 ELSE 4
  <2>5. size \in 1 .. 4 /\ size <= N - 1 /\ (size = N - 1 \/ size = 4) /\ N - size + 1 \in 2 .. N
    BY <1>1
  <2> HIDE DEF size
  <2>6. few = SubSeq(ms, N - size + 1, N)
    <3>1. few = SubSeq(rest, (N - 1) - size + 1, N - 1)
      BY <1>2 DEF few, Tail4, size
    <3>2. N - size \in 1 .. N - 2 + 2
      BY <1>1, <2>5
    <3>3. SubSeq(SubSeq(ms, 2, N), N - size, N - 2 + 1) = SubSeq(ms, 2 + (N - size) - 1, N)
      BY <1>1, <2>1, <3>2, EndOfEnd DEF N
    <3>4. 2 + (N - size) - 1 = N - size + 1 /\ N - 2 + 1 = N - 1 /\ (N - 1) - size + 1 = N - size
      BY <1>1, <2>5
    <3>5. QED
      BY <1>1, <3>1, <3>3, <3>4
  <2>7. PICK q2 \in N - size + 1 .. N + 1 :
          /\ From(few, LegalStart(few)) = SubSeq(ms, q2, N) /\ (q2 = N + 1 \/ ms[q2].role # "tool")
          /\ \A i \in N - size + 1 .. q2 - 1 : ms[i].role = "tool"
    <3>1. N - size + 1 \in 2 .. Len(ms)
      BY <2>5 DEF N
    <3>2. From(few, LegalStart(few))
            = From(SubSeq(ms, N - size + 1, Len(ms)), LegalStart(SubSeq(ms, N - size + 1, Len(ms))))
      BY <2>6 DEF N
    <3>3. QED
      BY <3>1, <3>2, CutIs DEF N
  <2>8. q1 \in 2 .. N + 1 /\ q2 \in 2 .. N + 1
    BY <1>1, <1>4, <2>1, <2>5
  <2>9. kept # <<>> => q1 <= N
    <3>1. q1 = N + 1 => kept = <<>>
      BY <1>1, <2>4, SMTT(20)
    <3>2. QED
      BY <1>1, <2>8, <3>1
  <2>10. (\A m \in Range(ms) : Len(m.calls) <= 3) => q2 <= N
    <3>1. SUFFICES ASSUME \A m \in Range(ms) : Len(m.calls) <= 3 PROVE q2 <= N
      OBVIOUS
    <3>2. PICK j \in 2 .. N : ms[j].role # "tool" /\ N - 3 <= j
      BY <3>1, FewHold DEF N
    <3>3. j >= N - size + 1 /\ j <= N
      BY <1>1, <2>5, <3>2, SMTT(20)
    <3>4. ~ j \in N - size + 1 .. q2 - 1
      BY <2>7, <3>2
    <3>5. QED
      BY <1>1, <2>5, <2>8, <3>3, <3>4
  <2>11. Snip(ms) = <<System>> \o (IF kept # <<>> THEN kept ELSE From(few, LegalStart(few)))
    BY <1>1, <1>3, <1>6
  <2>12. \A q \in 2 .. N + 1 : (q = N + 1 \/ ms[q].role # "tool") =>
           /\ WellFormed(<<System>> \o SubSeq(ms, q, N))
           /\ q <= N => Last(<<System>> \o SubSeq(ms, q, N)).role # "system"
    BY EndIs DEF N
  <2>13. CASE kept # <<>>
    BY <2>4, <2>8, <2>9, <2>11, <2>12, <2>13
  <2>14. CASE kept = <<>>
    BY <2>7, <2>8, <2>10, <2>11, <2>12, <2>14
  <2>15. QED
    BY <2>13, <2>14
<1>7. QED
  BY <1>5, <1>6

\* Without what was made up for malformed answers a conversation stays one.
LEMMA StripWellFormed ==
  ASSUME NEW n, NEW ms, InRounds(ms, n)
  PROVE  WellFormed(Strip(ms))
<1> DEFINE positions == DOMAIN ms \ MadeUpAt(ms)
           s == Strip(ms)
<1>1. ms \in Seq(MessageSet) /\ Len(ms) \in Nat /\ DOMAIN ms = 1 .. Len(ms) /\ Uniform(ms)
  BY DEF InRounds
<1>2. positions \in SUBSET (1 .. Len(ms))
  BY <1>1
<1>3. /\ s \in Seq(MessageSet)
      /\ \E e : InOrder(e, Len(s), positions) /\ \A a \in 1 .. Len(s) : s[a] = ms[e[a]]
  <2>1. s = Selected(ms, positions)
    BY DEF Strip
  <2> HIDE DEF s, positions
  <2>2. QED
    BY <1>1, <1>2, <2>1, SelectedInOrder
<1>4. ASSUME NEW j \in 1 .. Len(ms), Opens(ms, j), NEW k \in 1 .. Len(ms[j].calls)
      PROVE  j \in positions <=> j + k \in positions
  <2>1. ms[j].calls \in Seq(CallIdSet) /\ Len(ms[j].calls) \in Nat
    BY <1>1, MessageTypes
  <2>2. ms[j + k] = ToolMessage(ms[j].calls[k]) /\ j + k \in 1 .. Len(ms)
    BY <1>1, <1>4, <2>1 DEF Opens
  <2>3. j + k \in positions <=> ~ MadeUp(ms[j].calls[k])
    <3>1. CallIds(ms[j + k]) = {}
      BY <2>2, ToolMessageIs DEF CallIds
    <3>2. j + k \in MadeUpAt(ms) <=> MadeUp(ms[j + k].call)
      BY <1>1, <2>2, <3>1 DEF MadeUpAt
    <3>3. QED
      BY <1>1, <2>2, <3>2, ToolMessageIs
  <2>4. j \in positions <=> ~ MadeUp(ms[j].calls[k])
    <3>1. ms[j].call = <<0, 0>>
      BY <1>4 DEF Opens, InRounds
    <3>2. ~ MadeUp(ms[j].call)
      BY <3>1 DEF MadeUp
    <3>3. (\E id \in CallIds(ms[j]) : MadeUp(id)) <=> MadeUp(ms[j].calls[k])
      <4>1. CallIds(ms[j]) = {ms[j].calls[l] : l \in 1 .. Len(ms[j].calls)}
        BY <2>1 DEF CallIds
      <4>2. \A l \in 1 .. Len(ms[j].calls) : MadeUp(ms[j].calls[l]) => MadeUp(ms[j].calls[k])
        BY <1>1 DEF Uniform
      <4>3. QED
        BY <4>1, <4>2
    <3>4. QED
      BY <1>1, <3>2, <3>3 DEF MadeUpAt
  <2>5. QED
    BY <2>3, <2>4
<1> HIDE DEF s, positions
<1>5. WellFormed(s)
  BY <1>2, <1>3, <1>4, PartWellFormed
<1>6. QED
  BY <1>5 DEF s

\* What is left of any messages whose last is a final answer has that at the end
\* and nothing made up.
LEMMA StripIs ==
  ASSUME NEW ms \in Seq(MessageSet), Len(ms) \in Nat \ {0}, ms[Len(ms)] = Assistant(<<>>)
  PROVE  /\ Strip(ms) \in Seq(MessageSet)
         /\ Last(Strip(ms)) = Assistant(<<>>)
         /\ \A m \in Range(Strip(ms)) : ~ MadeUp(m.call)
<1> DEFINE positions == DOMAIN ms \ MadeUpAt(ms)
           s == Strip(ms)
<1>1. DOMAIN ms = 1 .. Len(ms) /\ positions \in SUBSET (1 .. Len(ms)) /\ s = Selected(ms, positions)
  BY DEF Strip
<1>2. Len(ms) \in positions
  <2>1. Assistant(<<>>).call = <<0, 0>> /\ CallIds(Assistant(<<>>)) = {}
    BY DEF Assistant, CallIds
  <2>2. ~ MadeUp(ms[Len(ms)].call) /\ CallIds(ms[Len(ms)]) = {}
    BY <2>1 DEF MadeUp
  <2>3. QED
    BY <1>1, <2>2 DEF MadeUpAt
<1>3. \A i \in positions : ~ MadeUp(ms[i].call)
  BY DEF MadeUpAt
<1> HIDE DEF s, positions
<1>4. /\ s \in Seq(MessageSet)
      /\ \E e : InOrder(e, Len(s), positions) /\ \A a \in 1 .. Len(s) : s[a] = ms[e[a]]
  BY <1>1, SelectedInOrder
<1>5. Last(s) = Assistant(<<>>)
  BY <1>1, <1>2, SelectedKeepsLast
<1>6. ASSUME NEW m \in Range(s) PROVE ~ MadeUp(m.call)
  <2>1. PICK a \in 1 .. Len(s) : m = s[a]
    BY <1>4 DEF Range
  <2>2. PICK e : InOrder(e, Len(s), positions) /\ \A b \in 1 .. Len(s) : s[b] = ms[e[b]]
    BY <1>4
  <2>3. e[a] \in positions /\ m = ms[e[a]]
    BY <2>1, <2>2 DEF InOrder
  <2>4. QED
    BY <1>3, <2>3
<1>7. QED
  BY <1>4, <1>5, <1>6 DEF s

\* The calls of one answer.
FreshCalls(c, n) ==
  /\ \A k \in 1 .. Len(c) : c[k][1] = n
  /\ \A k, l \in 1 .. Len(c) : (c[k] = c[l] => k = l) /\ (MadeUp(c[k]) => MadeUp(c[l]))
\* It and their results behind a conversation.
AddsRound(new, ms, c) ==
  /\ Len(new) = Len(ms) + 1 + Len(c)
  /\ \A i \in 1 .. Len(ms) : new[i] = ms[i]
  /\ new[Len(ms) + 1] = Assistant(c)
  /\ \A k \in 1 .. Len(c) : new[Len(ms) + 1 + k] = ToolMessage(c[k])

\* An answer and the results of its calls, of the next iteration.
LEMMA RoundAppended ==
  ASSUME NEW n \in Nat, NEW ms, InRounds(ms, n),
         NEW c \in Seq(CallIdSet), FreshCalls(c, n + 1),
         NEW new \in Seq(MessageSet), AddsRound(new, ms, c)
  PROVE  InRounds(new, n + 1)
<1> DEFINE N == Len(ms)
           M == Len(c)
<1>0. /\ \A k \in 1 .. Len(c) : c[k][1] = n + 1
      /\ \A k, l \in 1 .. Len(c) : (c[k] = c[l] => k = l) /\ (MadeUp(c[k]) => MadeUp(c[l]))
      /\ Len(new) = Len(ms) + 1 + Len(c)
      /\ \A i \in 1 .. Len(ms) : new[i] = ms[i]
      /\ new[Len(ms) + 1] = Assistant(c)
      /\ \A k \in 1 .. Len(c) : new[Len(ms) + 1 + k] = ToolMessage(c[k])
  BY Zenon DEF FreshCalls, AddsRound
<1>1. /\ ms \in Seq(MessageSet) /\ N \in Nat /\ N >= 2 /\ ms[1] = System /\ ms[2] = User
      /\ M \in Nat /\ Len(new) = N + 1 + M /\ Len(new) \in Nat
  BY <1>0 DEF InRounds
<1>2. /\ \A i \in 2 .. N : ms[i].role # "system"
      /\ \A i \in 3 .. N : ms[i].role # "user"
      /\ \A i \in 1 .. N : ms[i].role # "tool" => ms[i].call = <<0, 0>>
      /\ \A i \in 1 .. N : \E j \in 1 .. i : Opens(ms, j) /\ i <= j + Len(ms[j].calls)
      /\ Numbered(ms, n) /\ Apart(ms) /\ Uniform(ms)
  BY Zenon DEF InRounds
<1>3. Assistant(c).role = "assistant" /\ Assistant(c).calls = c /\ Assistant(c).call = <<0, 0>>
  BY DEF Assistant
<1>4. /\ \A i \in 1 .. N : new[i] = ms[i]
      /\ new[N + 1].role = "assistant" /\ new[N + 1].calls = c /\ new[N + 1].call = <<0, 0>>
      /\ \A i \in N + 2 .. N + 1 + M :
           /\ i - (N + 1) \in 1 .. M /\ new[i].role = "tool" /\ new[i].calls = <<>>
           /\ new[i] = ToolMessage(c[i - (N + 1)])
  <2>1. ASSUME NEW i \in N + 2 .. N + 1 + M
        PROVE  i - (N + 1) \in 1 .. M /\ new[i] = ToolMessage(c[i - (N + 1)])
    <3> HIDE DEF N, M
    <3>1. i - (N + 1) \in 1 .. M /\ N + 1 + (i - (N + 1)) = i
      <4>1. N \in Nat /\ M \in Nat
        BY <1>1
      <4>2. i \in Int /\ N + 2 <= i /\ i <= N + 1 + M
        BY <4>1
      <4>3. QED
        BY <4>1, <4>2
    <3>2. new[N + 1 + (i - (N + 1))] = ToolMessage(c[i - (N + 1)])
      BY <1>0, <3>1 DEF N, M
    <3>3. QED
      BY <3>1, <3>2
  <2>2. \A i \in N + 2 .. N + 1 + M : new[i].role = "tool" /\ new[i].calls = <<>>
    BY <2>1, ToolMessageIs
  <2>3. QED
    BY <1>0, <1>3, <2>1, <2>2
<1> HIDE DEF N, M
<1>5. \A i \in 1 .. Len(new) : i \in 1 .. N \/ i = N + 1 \/ i \in N + 2 .. N + 1 + M
  BY <1>1
<1>6. new[1] = System /\ new[2] = User
  BY <1>1, <1>4
<1>7. /\ \A i \in 2 .. Len(new) : new[i].role # "system"
      /\ \A i \in 3 .. Len(new) : new[i].role # "user"
      /\ \A i \in 1 .. Len(new) : new[i].role # "tool" => new[i].call = <<0, 0>>
  <2>1. ASSUME NEW i \in 1 .. Len(new)
        PROVE  /\ i >= 2 => new[i].role # "system"
               /\ i >= 3 => new[i].role # "user"
               /\ new[i].role # "tool" => new[i].call = <<0, 0>>
    <3>1. CASE i \in 1 .. N
      <4>1. new[i] = ms[i] /\ (i >= 2 => i \in 2 .. N) /\ (i >= 3 => i \in 3 .. N)
        BY <1>1, <1>4, <3>1
      <4>2. QED
        BY <1>2, <3>1, <4>1
    <3>2. CASE i = N + 1
      BY <1>4, <3>2
    <3>3. CASE i \in N + 2 .. N + 1 + M
      BY <1>4, <3>3
    <3>4. QED
      BY <1>5, <3>1, <3>2, <3>3
  <2>2. /\ \A i \in 2 .. Len(new) : i \in 1 .. Len(new) /\ i >= 2
        /\ \A i \in 3 .. Len(new) : i \in 1 .. Len(new) /\ i >= 3
    BY <1>1
  <2>3. \A i \in 2 .. Len(new) : new[i].role # "system"
    BY <2>1, <2>2
  <2>4. \A i \in 3 .. Len(new) : new[i].role # "user"
    BY <2>1, <2>2
  <2>5. \A i \in 1 .. Len(new) : new[i].role # "tool" => new[i].call = <<0, 0>>
    BY <2>1
  <2>6. QED
    BY <2>3, <2>4, <2>5
<1>8. ASSUME NEW i \in 1 .. Len(new)
      PROVE  \E j \in 1 .. i : Opens(new, j) /\ i <= j + Len(new[j].calls)
  <2>1. CASE i \in 1 .. N
    <3>1. PICK j \in 1 .. i : Opens(ms, j) /\ i <= j + Len(ms[j].calls)
      BY <1>2, <2>1
    <3>2. j \in 1 .. N /\ Len(ms[j].calls) \in Nat /\ new[j] = ms[j]
      <4>1. j \in 1 .. N
        BY <1>1, <2>1
      <4>2. QED
        BY <1>1, <1>4, <4>1, MessageTypes DEF N
    <3>3. /\ ms[j].role # "tool" /\ j + Len(ms[j].calls) <= N
          /\ \A k \in 1 .. Len(ms[j].calls) : ms[j + k] = ToolMessage(ms[j].calls[k])
      BY <3>1 DEF Opens, N
    <3>4. \A k \in 1 .. Len(ms[j].calls) : j + k \in 1 .. N
      <4>1. SUFFICES ASSUME NEW k \in 1 .. Len(ms[j].calls) PROVE j + k \in 1 .. N
        OBVIOUS
      <4>2. k \in Nat /\ k >= 1 /\ k <= Len(ms[j].calls)
        BY <3>2
      <4>3. j \in Nat /\ j >= 1 /\ j + Len(ms[j].calls) <= N
        BY <3>2, <3>3
      <4>4. QED
        BY <1>1, <3>2, <4>2, <4>3
    <3>5. j + Len(ms[j].calls) <= Len(new)
      BY <1>1, <3>2, <3>3
    <3>6. Opens(new, j)
      BY <1>4, <3>2, <3>3, <3>4, <3>5 DEF Opens
    <3>7. QED
      BY <3>1, <3>2, <3>6
  <2>2. CASE i \in N + 1 .. N + 1 + M
    <3>1. N + 1 \in 1 .. i /\ i <= N + 1 + M
      BY <1>1, <2>2
    <3>2. Opens(new, N + 1)
      <4>1. \A k \in 1 .. M : new[N + 1 + k] = ToolMessage(c[k])
        BY <1>0 DEF N, M
      <4>2. QED
        BY <1>1, <1>4, <4>1 DEF Opens, M
    <3>3. QED
      BY <1>4, <3>1, <3>2 DEF M
  <2>3. QED
    BY <1>1, <2>1, <2>2
\* Where calls are, and whose they are.
<1>9. ASSUME NEW i \in 1 .. Len(new), NEW k \in 1 .. Len(new[i].calls)
      PROVE  \/ i \in 1 .. N /\ new[i].calls = ms[i].calls /\ new[i].calls[k][1] \in 1 .. n
             \/ i = N + 1 /\ new[i].calls = c /\ new[i].calls[k][1] = n + 1
  <2>1. CASE i \in 1 .. N
    BY <1>2, <1>4, <2>1 DEF Numbered, N
  <2>2. CASE i = N + 1
    BY <1>0, <1>4, <2>2
  <2>3. CASE i \in N + 2 .. N + 1 + M
    BY <1>4, <2>3
  <2>4. QED
    BY <1>5, <2>1, <2>2, <2>3
<1>10. Numbered(new, n + 1)
  <2>1. \A x \in 1 .. n : x \in 1 .. n + 1
    OBVIOUS
  <2>2. n + 1 \in 1 .. n + 1
    OBVIOUS
  <2>3. QED
    BY <1>9, <2>1, <2>2 DEF Numbered
<1>11. Apart(new)
  <2>1. SUFFICES ASSUME NEW i \in 1 .. Len(new), NEW j \in 1 .. Len(new),
                        NEW k \in 1 .. Len(new[i].calls), NEW l \in 1 .. Len(new[j].calls),
                        new[i].calls[k] = new[j].calls[l]
                 PROVE  i = j /\ k = l
    BY Zenon DEF Apart
  <2>2. ~ n + 1 \in 1 .. n
    OBVIOUS
  <2>3. new[i].calls[k][1] = new[j].calls[l][1]
    BY <2>1
  <2>4. \/ i \in 1 .. N /\ j \in 1 .. N /\ new[i].calls = ms[i].calls /\ new[j].calls = ms[j].calls
        \/ i = N + 1 /\ j = N + 1
    <3>1. \/ i \in 1 .. N /\ new[i].calls = ms[i].calls /\ new[i].calls[k][1] \in 1 .. n
          \/ i = N + 1 /\ new[i].calls[k][1] = n + 1
      BY <1>9
    <3>2. \/ j \in 1 .. N /\ new[j].calls = ms[j].calls /\ new[j].calls[l][1] \in 1 .. n
          \/ j = N + 1 /\ new[j].calls[l][1] = n + 1
      BY <1>9
    <3>3. QED
      BY <2>2, <2>3, <3>1, <3>2
  <2>5. CASE i \in 1 .. N /\ j \in 1 .. N /\ new[i].calls = ms[i].calls /\ new[j].calls = ms[j].calls
    BY <1>2, <2>1, <2>5, SMTT(20) DEF Apart, N
  <2>6. CASE i = N + 1 /\ j = N + 1
    BY <1>0, <1>4, <2>1, <2>6
  <2>7. QED
    BY <2>4, <2>5, <2>6
<1>12. Uniform(new)
  <2>1. SUFFICES ASSUME NEW i \in 1 .. Len(new),
                        NEW k \in 1 .. Len(new[i].calls), NEW l \in 1 .. Len(new[i].calls),
                        MadeUp(new[i].calls[k])
                 PROVE  MadeUp(new[i].calls[l])
    BY Zenon DEF Uniform
  <2>2. CASE i \in 1 .. N /\ new[i].calls = ms[i].calls
    BY <1>2, <2>1, <2>2 DEF Uniform, N
  <2>3. CASE i = N + 1 /\ new[i].calls = c
    BY <1>0, <2>1, <2>3
  <2>4. QED
    BY <1>9, <2>2, <2>3
<1>13. new \in Seq(MessageSet) /\ Len(new) >= 2
  BY <1>1
<1>14. QED
  BY <1>6, <1>7, <1>8, <1>10, <1>11, <1>12, <1>13, Zenon DEF InRounds

LEMMA FinalAppended ==
  ASSUME NEW n \in Nat, NEW ms, InRounds(ms, n)
  PROVE  InRounds(Append(ms, Assistant(<<>>)), n + 1)
<1>1. ms \in Seq(MessageSet) /\ <<>> \in Seq(CallIdSet) /\ Len(<<>>) = 0
  BY DEF InRounds
<1>2. Assistant(<<>>) \in MessageSet
  BY <1>1 DEF Assistant, MessageSet, CallIdSet
<1> DEFINE new == Append(ms, Assistant(<<>>))
<1>3. /\ new \in Seq(MessageSet) /\ Len(new) = Len(ms) + 1 + 0
      /\ \A i \in 1 .. Len(ms) : new[i] = ms[i]
      /\ new[Len(ms) + 1] = Assistant(<<>>)
  BY <1>1, <1>2
<1> DEFINE none == <<>>
<1>4. none \in Seq(CallIdSet) /\ Len(none) = 0 /\ \A k \in 1 .. Len(none) : FALSE
  BY <1>1
<1>5. FreshCalls(none, n + 1) /\ AddsRound(new, ms, none)
  <2>1. Len(new) = Len(ms) + 1 + Len(none) /\ new[Len(ms) + 1] = Assistant(none)
    BY <1>3
  <2> HIDE DEF new, none
  <2>2. QED
    BY <1>3, <1>4, <2>1 DEF FreshCalls, AddsRound
<1> HIDE DEF new, none
<1>6. InRounds(new, n + 1)
  BY <1>3, <1>4, <1>5, RoundAppended
<1>7. QED
  BY <1>6 DEF new

LEMMA FinalMessageIs ==
  ASSUME NEW ms \in Seq(MessageSet), Len(ms) \in Nat \ {0}
  PROVE  /\ FinalMessage(ms) \in Seq(MessageSet) /\ Len(FinalMessage(ms)) \in Nat \ {0}
         /\ FinalMessage(ms)[Len(FinalMessage(ms))] = Assistant(<<>>)
<1>1. Assistant(<<>>) \in MessageSet
  BY DEF Assistant, MessageSet, CallIdSet
<1>2. FinalMessage(ms) = [ms EXCEPT ![Len(ms)] = Assistant(<<>>)]
        \/ FinalMessage(ms) = Append(ms, Assistant(<<>>))
  BY DEF FinalMessage
<1>3. CASE FinalMessage(ms) = [ms EXCEPT ![Len(ms)] = Assistant(<<>>)]
  BY <1>1, <1>3
<1>4. CASE FinalMessage(ms) = Append(ms, Assistant(<<>>))
  BY <1>1, <1>4
<1>5. QED
  BY <1>2, <1>3, <1>4

LEMMA FinalMessageInRounds ==
  ASSUME NEW n \in Nat, NEW ms, InRounds(ms, n)
  PROVE  \E m \in Nat : InRounds(FinalMessage(ms), m)
<1>1. ms \in Seq(MessageSet) /\ Len(ms) \in Nat /\ Len(ms) >= 2
      /\ \A i \in 1 .. Len(ms) : ms[i].role # "tool" => ms[i].call = <<0, 0>>
  BY DEF InRounds
<1>2. CASE Last(ms).role = "assistant" /\ Last(ms).calls = <<>>
  <2>1. ms[Len(ms)].role = "assistant" /\ ms[Len(ms)].calls = <<>> /\ Len(ms) \in 1 .. Len(ms)
    BY <1>1, <1>2 DEF Last
  <2>2. ms[Len(ms)].call = <<0, 0>> /\ ms[Len(ms)] \in MessageSet
    BY <1>1, <2>1
  <2>3. ms[Len(ms)] = Assistant(<<>>)
    BY <2>1, <2>2 DEF Assistant, MessageSet
  <2>4. [ms EXCEPT ![Len(ms)] = Assistant(<<>>)] = ms
    BY <1>1, <2>1, <2>3
  <2>5. ms # <<>>
    BY <1>1
  <2>6. FinalMessage(ms) = ms
    BY <1>2, <2>4, <2>5 DEF FinalMessage
  <2>7. QED
    BY <2>6
<1>3. CASE ~ (Last(ms).role = "assistant" /\ Last(ms).calls = <<>>)
  <2>1. FinalMessage(ms) = Append(ms, Assistant(<<>>))
    BY <1>3 DEF FinalMessage
  <2>2. InRounds(FinalMessage(ms), n + 1)
    BY <2>1, FinalAppended
  <2>3. QED
    BY <2>2
<1>4. QED
  BY <1>2, <1>3

LEMMA IdsAre ==
  ASSUME RunTypeOK, AgentRunAssumption, answer.tools \in CallLists, iteration >= 1
  PROVE  /\ DOMAIN answer.tools = 1 .. Len(answer.tools) /\ Len(answer.tools) \in Nat \ {0}
         /\ Ids \in Seq(CallIdSet) /\ Len(Ids) = Len(answer.tools)
         /\ \A k \in 1 .. Len(Ids) : Ids[k] = <<iteration, k>> /\ Ids[k][1] = iteration
         /\ \A k, l \in 1 .. Len(Ids) :
              (Ids[k] = Ids[l] => k = l) /\ (MadeUp(Ids[k]) => MadeUp(Ids[l]))
         /\ \A k \in 1 .. Len(Ids) : ~ MadeUp(Ids[k])
         /\ Assistant(Ids) \in MessageSet
<1>1. answer.tools \in Seq(Tools) /\ answer.tools # <<>> /\ iteration \in Nat
  BY DEF AgentRunAssumption, RunTypeOK
<1>2. DOMAIN answer.tools = 1 .. Len(answer.tools) /\ Len(answer.tools) \in Nat \ {0}
  BY <1>1
<1> DEFINE L == Len(answer.tools)
<1>3. Ids = [k \in 1 .. L |-> <<iteration, k>>]
  BY <1>2 DEF Ids
<1> HIDE DEF L
<1>4. \A k \in 1 .. L : <<iteration, k>> \in CallIdSet /\ k \in Nat /\ k # 0
  BY <1>1 DEF CallIdSet
<1>5. Ids \in Seq(CallIdSet) /\ Len(Ids) = L
  <2>1. L \in Nat
    BY <1>2 DEF L
  <2>2. QED
    BY <1>3, <1>4, <2>1
<1>6. \A k \in 1 .. L : Ids[k] = <<iteration, k>> /\ Ids[k][1] = iteration /\ Ids[k][2] = k
  BY <1>3
<1>7. \A k \in 1 .. L : ~ MadeUp(Ids[k])
  BY <1>4, <1>6 DEF MadeUp
<1>8. \A k, l \in 1 .. L : Ids[k] = Ids[l] => k = l
  BY <1>6
<1>9. Assistant(Ids) \in MessageSet
  BY <1>5 DEF Assistant, MessageSet, CallIdSet
<1>10. QED
  BY <1>2, <1>5, <1>6, <1>7, <1>8, <1>9 DEF L

\* What is left to show of the end of a run.
LEMMA EndKeeps ==
  ASSUME NEW reason, NEW ms \in Seq(MessageSet), Len(ms) \in Nat \ {0},
         ms[Len(ms)] = Assistant(<<>>), EndRun(reason, ms), RunInv,
         reason # "tool_error" => \E n \in Nat : InRounds(ms, n)
  PROVE  RunInv'
<1>1. /\ messages' = Strip(ms) /\ stop' = reason /\ phase' = "done"
      /\ answer' = NoAnswer /\ status' = <<>>
      /\ failFast' = failFast /\ iteration' = iteration
  BY DEF EndRun, EndIteration
<1>2. RunTypeOK'
  <2>1. messages' \in Seq(MessageSet)
    BY <1>1, StripIs
  <2>2. QED
    BY <1>1, <2>1 DEF RunInv, RunTypeOK, NoAnswer
<1>3. CheckpointCoversTools' /\ RoundsInv'
  BY <1>1 DEF CheckpointCoversTools, RoundsInv
<1>4. ResultWellFormed'
  <2>1. Last(messages') = Assistant(<<>>) /\ \A m \in Range(messages') : ~ MadeUp(m.call)
    BY <1>1, StripIs
  <2>2. stop' # "tool_error" => WellFormed(messages')
    BY <1>1, StripWellFormed
  <2>3. QED
    BY <2>1, <2>2 DEF ResultWellFormed
<1>5. QED
  BY <1>1, <1>2, <1>3, <1>4 DEF RunInv

LEMMA RunInitInv == AgentRunAssumption /\ RunInit => RunInv
<1> SUFFICES ASSUME AgentRunAssumption, RunInit PROVE RunInv
  OBVIOUS
<1>1. /\ failFast \in BOOLEAN /\ phase = "iterate" /\ iteration = 0 /\ messages = <<System, User>>
      /\ answer = NoAnswer /\ status = <<>> /\ stop = "none"
  BY DEF RunInit
<1>2. System \in MessageSet /\ User \in MessageSet
  BY DEF System, User, MessageSet, CallIdSet
<1>3. /\ messages \in Seq(MessageSet) /\ Len(messages) = 2
      /\ messages[1] = System /\ messages[2] = User
  BY <1>1, <1>2
<1>4. RunTypeOK
  BY <1>1, <1>3 DEF RunTypeOK, NoAnswer
<1>5. InRounds(messages, 0)
  <2>1. /\ System.role = "system" /\ System.calls = <<>> /\ System.call = <<0, 0>>
        /\ User.role = "user" /\ User.calls = <<>> /\ User.call = <<0, 0>> /\ Len(<<>>) = 0
    BY DEF System, User
  <2>2. \A i \in 1 .. Len(messages) :
          /\ i = 1 \/ i = 2
          /\ messages[i].role # "tool" /\ messages[i].calls = <<>> /\ messages[i].call = <<0, 0>>
    BY <1>3, <2>1
  <2>3. \A i \in 1 .. Len(messages) : Opens(messages, i) /\ i \in 1 .. i
                                      /\ i <= i + Len(messages[i].calls)
    BY <1>3, <2>1, <2>2 DEF Opens
  <2>4. Numbered(messages, 0) /\ Apart(messages) /\ Uniform(messages)
    BY <2>1, <2>2 DEF Numbered, Apart, Uniform
  <2>5. messages[2].role # "system"
    BY <1>3, <2>1
  <2>6. \A i \in 2 .. Len(messages) : i = 2
    BY <1>3
  <2>7. \A i \in 3 .. Len(messages) : FALSE
    BY <1>3
  <2>8. QED
    BY <1>3, <2>2, <2>3, <2>4, <2>5, <2>6, <2>7 DEF InRounds
<1>6. RoundsInv
  BY <1>1, <1>5 DEF RoundsInv
<1>7. CheckpointCoversTools /\ ResultWellFormed
  <2>1. Last(messages).role # "tool"
    BY <1>3 DEF Last, User
  <2>2. QED
    BY <1>1, <2>1 DEF CheckpointCoversTools, ResultWellFormed
<1>8. QED
  BY <1>1, <1>4, <1>6, <1>7 DEF RunInv

LEMMA BeginKeeps == AgentRunAssumption /\ RunInv /\ BeginIteration => RunInv'
<1> SUFFICES ASSUME AgentRunAssumption, RunInv, BeginIteration PROVE RunInv'
  OBVIOUS
<1>1. /\ phase = "iterate" /\ phase' = "request" /\ iteration' = iteration + 1
      /\ prompt' = Snip(messages) /\ messages' = messages /\ answer' = answer
      /\ status' = status /\ failFast' = failFast
  BY DEF BeginIteration
<1>2. RunTypeOK /\ InRounds(messages, iteration) /\ iteration \in Nat
  BY <1>1 DEF RunInv, RunTypeOK, RoundsInv
<1>3. RunTypeOK'
  BY <1>1, <1>2 DEF RunTypeOK
<1>4. RoundsInv'
  <2>1. iteration' - 1 = iteration
    BY <1>1, <1>2
  <2>2. QED
    BY <1>1, <1>2, <2>1 DEF RoundsInv
<1>5. CheckpointCoversTools' /\ ResultWellFormed'
  BY <1>1 DEF CheckpointCoversTools, ResultWellFormed
<1>6. QED
  BY <1>1, <1>3, <1>4, <1>5 DEF RunInv

LEMMA AnswerKeeps ==
  AgentRunAssumption /\ RunInv /\ (Respond \/ TransientError \/ PermanentError) => RunInv'
<1> SUFFICES ASSUME AgentRunAssumption, RunInv, Respond \/ TransientError \/ PermanentError
             PROVE  RunInv'
  OBVIOUS
<1>1. /\ phase \in {"request", "finalize"}
      /\ failFast' = failFast /\ iteration' = iteration /\ messages' = messages
      /\ prompt' = prompt /\ status' = status
  BY DEF Respond, TransientError, PermanentError, Asking
<1>2. \/ phase' = phase /\ answer' = answer
      \/ phase' \in {"respond", "finalized"} /\ answer' \in Answers \cup {Text("error")}
  <2>1. CASE Respond
    BY <2>1 DEF Respond, Answered
  <2>2. CASE TransientError
    BY <2>2 DEF TransientError, Answered
  <2>3. CASE PermanentError
    BY <2>3 DEF PermanentError, Answered
  <2>4. QED
    BY <2>1, <2>2, <2>3
<1>3. /\ RunTypeOK /\ iteration >= 1 /\ status = <<>>
      /\ InRounds(messages, iteration - 1) /\ prompt = Snip(messages)
  BY <1>1 DEF RunInv, RunTypeOK, RoundsInv
<1>4. ASSUME NEW a \in Answers \cup {Text("error")}
      PROVE  /\ a \in [kind : {"none", "malformed", "blank", "text", "error", "calls"},
                       tools : CallLists \cup {<<>>}]
             /\ a.kind = "calls" => a.tools \in CallLists
  BY DEF Answers, Text
<1>5. RunTypeOK'
  <2>1. CASE phase' = phase /\ answer' = answer
    BY <1>1, <1>3, <2>1 DEF RunTypeOK
  <2>2. CASE phase' \in {"respond", "finalized"} /\ answer' \in Answers \cup {Text("error")}
    BY <1>1, <1>3, <1>4, <2>2 DEF RunTypeOK
  <2>3. QED
    BY <1>2, <2>1, <2>2
<1>6. phase' \in {"request", "respond", "finalize", "finalized"}
  BY <1>1, <1>2
<1>7. RoundsInv' /\ CheckpointCoversTools' /\ ResultWellFormed'
  BY <1>1, <1>3, <1>6 DEF RoundsInv, CheckpointCoversTools, ResultWellFormed
<1>8. QED
  BY <1>5, <1>6, <1>7 DEF RunInv

LEMMA AgainKeeps == RunInv /\ RequestFinalization => RunInv'
<1> SUFFICES ASSUME RunInv, RequestFinalization PROVE RunInv'
  OBVIOUS
<1>1. /\ phase = "respond" /\ phase' = "finalize"
      /\ failFast' = failFast /\ iteration' = iteration /\ messages' = messages
      /\ prompt' = prompt /\ status' = status /\ answer' = answer
  BY DEF RequestFinalization
<1>2. RunTypeOK /\ RoundsInv
  BY DEF RunInv
<1>3. RunTypeOK'
  BY <1>1, <1>2 DEF RunTypeOK
<1>4. RoundsInv' /\ CheckpointCoversTools' /\ ResultWellFormed'
  BY <1>1, <1>2 DEF RoundsInv, CheckpointCoversTools, ResultWellFormed
<1>5. QED
  BY <1>1, <1>3, <1>4 DEF RunInv

LEMMA CallToolsKeeps == AgentRunAssumption /\ RunInv /\ CallTools => RunInv'
<1> SUFFICES ASSUME AgentRunAssumption, RunInv, CallTools PROVE RunInv'
  OBVIOUS
<1>1. /\ phase = "respond" /\ answer.kind = "calls" /\ phase' = "tools"
      /\ messages' = Append(messages, Assistant(Ids))
      /\ checkpoint' = [phase |-> "awaiting_tools", calls |-> Ids]
      /\ status' = [k \in DOMAIN answer.tools |-> "pending"]
      /\ failFast' = failFast /\ iteration' = iteration /\ answer' = answer
  BY DEF CallTools
<1>2. /\ RunTypeOK /\ iteration >= 1 /\ iteration \in Nat /\ answer.tools \in CallLists
      /\ messages \in Seq(MessageSet) /\ Len(messages) \in Nat
      /\ InRounds(messages, iteration - 1)
  BY <1>1 DEF RunInv, RunTypeOK, RoundsInv
<1>3. DOMAIN answer.tools = 1 .. Len(answer.tools) /\ Assistant(Ids) \in MessageSet
  BY <1>2, IdsAre
<1>4. Ids' = Ids
  BY <1>1 DEF Ids
<1> DEFINE call == Assistant(Ids)
<1> HIDE DEF call
<1>5. /\ messages' \in Seq(MessageSet) /\ Len(messages') = Len(messages) + 1
      /\ messages'[Len(messages')] = call /\ Before(messages') = messages
  <2>1. messages' = Append(messages, call) /\ call \in MessageSet
    BY <1>1, <1>3 DEF call
  <2>2. messages' \in Seq(MessageSet) /\ Len(messages') = Len(messages) + 1
        /\ messages'[Len(messages')] = call /\ \A i \in 1 .. Len(messages) : messages'[i] = messages[i]
    BY <1>2, <2>1
  <2>3. Before(messages') \in Seq(MessageSet) /\ Len(Before(messages')) = Len(messages)
        /\ \A i \in 1 .. Len(messages) : Before(messages')[i] = messages'[i]
    <3>1. Len(messages') - 1 = Len(messages)
      BY <1>2, <2>2
    <3>2. Before(messages') = SubSeq(messages', 1, Len(messages))
      BY <3>1 DEF Before
    <3> HIDE DEF Before
    <3>3. QED
      BY <1>2, <2>2, <3>2
  <2>4. Before(messages') = messages
    BY <1>2, <2>2, <2>3, SameSequence
  <2>5. QED
    BY <2>2, <2>4
<1>6. RunTypeOK'
  BY <1>1, <1>2, <1>3, <1>5 DEF RunTypeOK
<1>7. StartedInOrder'
  BY <1>1 DEF StartedInOrder
<1>8. RoundsInv'
  <2>1. Before(messages)' = messages
    BY <1>5 DEF Before
  <2>2. Assistant(Ids)' = call /\ Len(messages') >= 1
    BY <1>2, <1>4, <1>5 DEF call
  <2>3. QED
    BY <1>1, <1>2, <1>5, <2>1, <2>2 DEF RoundsInv
<1>9. CheckpointCoversTools' /\ ResultWellFormed'
  BY <1>1, <1>4 DEF CheckpointCoversTools, ResultWellFormed
<1>10. QED
  BY <1>6, <1>7, <1>8, <1>9 DEF RunInv

\* While tools run only what becomes of the calls and the lookups counts.
LEMMA ToolKeeps ==
  ASSUME NEW k \in DOMAIN status, RunInv, StartTool(k) \/ FinishTool(k)
  PROVE  RunInv'
<1>1. /\ phase = "tools" /\ phase' = phase /\ failFast' = failFast /\ iteration' = iteration
      /\ messages' = messages /\ answer' = answer /\ checkpoint' = checkpoint
  BY DEF StartTool, FinishTool
<1>2. /\ RunTypeOK /\ RoundsInv /\ StartedInOrder /\ CheckpointCoversTools
      /\ status \in [1 .. Len(answer.tools) -> {"pending", "running", "ok", "error"}]
      /\ DOMAIN status = 1 .. Len(answer.tools)
  BY <1>1 DEF RunInv, RunTypeOK
<1>3. PICK to \in {"running", "ok", "error"} :
        /\ status' = [status EXCEPT ![k] = to]
        /\ \/ MayStart(k)
           \/ status[k] = "running" /\ to \in {"ok", "error"}
  BY DEF StartTool, FinishTool
<1>4. /\ status' \in [1 .. Len(answer.tools) -> {"pending", "running", "ok", "error"}]
      /\ DOMAIN status' = DOMAIN status
      /\ status'[k] = to /\ \A j \in DOMAIN status : j # k => status'[j] = status[j]
  BY <1>2, <1>3
<1>5. RunTypeOK'
  BY <1>1, <1>2, <1>4 DEF RunTypeOK
<1>6. StartedInOrder'
  <2>1. SUFFICES ASSUME NEW i \in DOMAIN status, NEW j \in DOMAIN status,
                        i < j, status'[j] # "pending"
                 PROVE  IF i \in Batch(j) THEN status'[i] # "pending"
                        ELSE status'[i] \in {"ok", "error"}
    <3>1. \A j : Batch(j)' = Batch(j)
      BY <1>1 DEF Batch
    <3>2. \A i : Over(i)' <=> status'[i] \in {"ok", "error"}
      BY DEF Over
    <3>3. QED
      BY <1>4, <3>1, <3>2 DEF StartedInOrder
  <2>2. CASE j = k
    <3>1. IF i \in Batch(k) THEN status[i] # "pending" ELSE Over(i)
      <4>1. CASE MayStart(k)
        <5>1. i \in DOMAIN answer.tools
          <6>1. status \in [DOMAIN answer.tools -> {"pending", "running", "ok", "error"}]
                \/ DOMAIN answer.tools = 1 .. Len(answer.tools)
            BY <1>1, <1>2, AgentRunAssumption DEF AgentRunAssumption, RunTypeOK
          <6>2. QED
            BY <1>2, <6>1
        <5>2. QED
          BY <2>1, <2>2, <4>1, <5>1 DEF MayStart
      <4>2. CASE status[k] = "running"
        BY <1>2, <2>1, <2>2, <4>2 DEF StartedInOrder
      <4>3. QED
        BY <1>3, <4>1, <4>2
    <3>2. status'[i] = status[i]
      BY <1>2, <1>4, <2>1, <2>2
    <3>3. QED
      BY <2>2, <3>1, <3>2 DEF Over
  <2>3. CASE j # k
    <3>1. status[j] # "pending"
      BY <1>4, <2>1, <2>3
    <3>2. IF i \in Batch(j) THEN status[i] # "pending" ELSE Over(i)
      BY <1>2, <2>1, <3>1 DEF StartedInOrder
    <3>3. CASE i # k
      BY <1>4, <3>2, <3>3 DEF Over
    <3>4. CASE i = k
      <4>1. ~ MayStart(k)
        BY <3>2, <3>4 DEF MayStart, Over
      <4>2. status[k] = "running" /\ to \in {"ok", "error"}
        BY <1>3, <4>1
      <4>3. QED
        BY <1>4, <3>4, <4>2
    <3>5. QED
      BY <3>3, <3>4
  <2>4. QED
    BY <2>2, <2>3
<1>7. Ids' = Ids /\ Before(messages)' = Before(messages)
  BY <1>1 DEF Ids, Before
<1>8. RoundsInv'
  BY <1>1, <1>2, <1>7 DEF RoundsInv, Assistant
<1>9. CheckpointCoversTools' /\ ResultWellFormed'
  BY <1>1, <1>2, <1>7 DEF CheckpointCoversTools, ResultWellFormed
<1>10. QED
  BY <1>5, <1>6, <1>8, <1>9 DEF RunInv

\* The messages and an answer behind them, with its results.
LEMMA CompletedKeeps == AgentRunAssumption /\ RunInv /\ ToolsCompleted => RunInv'
<1> SUFFICES ASSUME AgentRunAssumption, RunInv, ToolsCompleted PROVE RunInv'
  OBVIOUS
<1> DEFINE results == [k \in DOMAIN status |-> ToolMessage(<<iteration, k>>)]
           ms == Before(messages)
<1>1. /\ phase = "tools" /\ phase' = "iterate" /\ failFast' = failFast /\ iteration' = iteration
      /\ messages' = messages \o results /\ answer' = NoAnswer /\ status' = <<>>
      /\ checkpoint' = [phase |-> "tools_completed", calls |-> Ids]
  BY DEF ToolsCompleted, EndIteration
<1>2. /\ RunTypeOK /\ iteration \in Nat /\ iteration >= 1 /\ answer.tools \in CallLists
      /\ DOMAIN status = 1 .. Len(answer.tools)
      /\ messages \in Seq(MessageSet) /\ Len(messages) \in Nat /\ Len(messages) >= 1
      /\ messages[Len(messages)] = Assistant(Ids) /\ InRounds(ms, iteration - 1)
  BY <1>1 DEF RunInv, RunTypeOK, RoundsInv
<1>3. /\ Len(answer.tools) \in Nat \ {0}
      /\ Ids \in Seq(CallIdSet) /\ Len(Ids) = Len(answer.tools)
      /\ \A k \in 1 .. Len(Ids) : Ids[k] = <<iteration, k>> /\ Ids[k][1] = iteration
      /\ \A k, l \in 1 .. Len(Ids) :
           (Ids[k] = Ids[l] => k = l) /\ (MadeUp(Ids[k]) => MadeUp(Ids[l]))
  BY <1>2, IdsAre
<1> DEFINE M == Len(Ids)
           N == Len(messages)
<1> HIDE DEF M, N
<1>4. M \in Nat \ {0} /\ N \in Nat /\ N >= 1
  BY <1>2, <1>3 DEF M, N
<1>5. /\ results \in Seq(MessageSet) /\ Len(results) = M
      /\ \A k \in 1 .. M : results[k] = ToolMessage(Ids[k])
  <2>1. results = [k \in 1 .. M |-> ToolMessage(<<iteration, k>>)]
    BY <1>2, <1>3 DEF M
  <2>2. \A k \in 1 .. M : ToolMessage(<<iteration, k>>) \in MessageSet
    <3>1. \A id \in CallIdSet : ToolMessage(id) \in MessageSet
      BY DEF ToolMessage, MessageSet
    <3>2. \A k \in 1 .. M : <<iteration, k>> \in CallIdSet
      BY <1>2, <1>4 DEF CallIdSet
    <3>3. QED
      BY <3>1, <3>2, Zenon
  <2> HIDE DEF results
  <2>3. results \in Seq(MessageSet) /\ Len(results) = M
    BY <1>4, <2>1, <2>2
  <2>4. QED
    BY <1>3, <2>1, <2>3 DEF M
<1>6. /\ ms \in Seq(MessageSet) /\ Len(ms) = N - 1 /\ \A i \in 1 .. N - 1 : ms[i] = messages[i]
  <2>1. ms = SubSeq(messages, 1, N - 1)
    BY DEF Before, N
  <2> HIDE DEF ms
  <2>2. N - 1 \in 0 .. Len(messages)
    BY <1>4 DEF N
  <2>3. QED
    BY <1>2, <1>4, <2>1, <2>2
<1> HIDE DEF results, ms
<1>7. /\ messages' \in Seq(MessageSet) /\ Len(messages') = N + M
      /\ \A i \in 1 .. N : messages'[i] = messages[i]
      /\ \A k \in 1 .. M : messages'[N + k] = results[k]
  <2>1. \A u \in Seq(MessageSet) : \A v \in Seq(MessageSet) :
          /\ u \o v \in Seq(MessageSet) /\ Len(u \o v) = Len(u) + Len(v)
          /\ \A i \in 1 .. Len(u) : (u \o v)[i] = u[i]
          /\ \A i \in 1 .. Len(v) : (u \o v)[Len(u) + i] = v[i]
    OBVIOUS
  <2>2. /\ messages \o results \in Seq(MessageSet)
        /\ Len(messages \o results) = Len(messages) + Len(results)
        /\ \A i \in 1 .. Len(messages) : (messages \o results)[i] = messages[i]
        /\ \A i \in 1 .. Len(results) : (messages \o results)[Len(messages) + i] = results[i]
    BY <1>2, <1>5, <2>1, Zenon
  <2>3. QED
    BY <1>1, <1>5, <2>2, Zenon DEF N
<1>8. InRounds(messages', iteration)
  <2>1. /\ Len(messages') = Len(ms) + 1 + Len(Ids)
        /\ \A i \in 1 .. Len(ms) : messages'[i] = ms[i]
        /\ messages'[Len(ms) + 1] = Assistant(Ids)
        /\ \A k \in 1 .. Len(Ids) : messages'[Len(ms) + 1 + k] = ToolMessage(Ids[k])
    <3>1. Len(ms) + 1 = N /\ (\A i \in 1 .. Len(ms) : i \in 1 .. N /\ i \in 1 .. N - 1) /\ N \in 1 .. N
      BY <1>4, <1>6
    <3>2. QED
      BY <1>2, <1>5, <1>6, <1>7, <3>1 DEF M, N
  <2>2. iteration - 1 \in Nat /\ (iteration - 1) + 1 = iteration
    BY <1>2
  <2> DEFINE n == iteration - 1
  <2>3. n \in Nat /\ n + 1 = iteration /\ InRounds(ms, n)
    BY <1>2, <2>2
  <2> HIDE DEF n
  <2>4. FreshCalls(Ids, n + 1) /\ AddsRound(messages', ms, Ids)
    BY <1>3, <2>1, <2>3 DEF FreshCalls, AddsRound
  <2>5. InRounds(messages', n + 1)
    BY <1>3, <1>7, <2>3, <2>4, RoundAppended
  <2>6. QED
    BY <2>3, <2>5
<1>9. RunTypeOK'
  BY <1>1, <1>2, <1>7 DEF RunTypeOK, NoAnswer
<1>10. RoundsInv' /\ ResultWellFormed'
  BY <1>1, <1>8 DEF RoundsInv, ResultWellFormed
<1>11. CheckpointCoversTools'
  <2>1. Last(messages') = ToolMessage(Ids[M])
    BY <1>4, <1>5, <1>7 DEF Last
  <2>2. Last(Ids) = Ids[M]
    BY DEF Last, M
  <2>3. checkpoint'.phase = "tools_completed" /\ checkpoint'.calls = Ids
    BY <1>1
  <2>4. QED
    BY <1>1, <2>1, <2>2, <2>3, ToolMessageIs DEF CheckpointCoversTools
<1>12. QED
  BY <1>1, <1>9, <1>10, <1>11 DEF RunInv

LEMMA RetryKeeps == RunInv /\ RetryMalformed => RunInv'
<1> SUFFICES ASSUME RunInv, RetryMalformed PROVE RunInv'
  OBVIOUS
<1> DEFINE id == <<iteration, 0>>
           c == <<id>>
<1>1. /\ phase = "respond" /\ phase' = "iterate" /\ failFast' = failFast /\ iteration' = iteration
      /\ messages' = messages \o <<Assistant(c), ToolMessage(id)>>
      /\ answer' = NoAnswer /\ status' = <<>>
  BY DEF RetryMalformed, MalformedAnswer, EndIteration
<1>2. /\ RunTypeOK /\ iteration \in Nat /\ iteration >= 1
      /\ messages \in Seq(MessageSet) /\ Len(messages) \in Nat
      /\ InRounds(messages, iteration - 1)
  BY <1>1 DEF RunInv, RunTypeOK, RoundsInv
<1>3. /\ id \in CallIdSet /\ id[1] = iteration /\ MadeUp(id)
      /\ c \in Seq(CallIdSet) /\ Len(c) = 1 /\ c[1] = id
  BY <1>2 DEF CallIdSet, MadeUp
<1> HIDE DEF id, c
<1>4. Assistant(c) \in MessageSet /\ ToolMessage(id) \in MessageSet
  BY <1>3 DEF Assistant, ToolMessage, MessageSet, CallIdSet
<1> DEFINE N == Len(messages)
           call == Assistant(c)
           result == ToolMessage(id)
<1> HIDE DEF call, result
<1>5. /\ messages' \in Seq(MessageSet) /\ Len(messages') = N + 2
      /\ \A i \in 1 .. N : messages'[i] = messages[i]
      /\ messages'[N + 1] = call /\ messages'[N + 2] = result
  <2>1. messages' = messages \o <<call, result>> /\ call \in MessageSet /\ result \in MessageSet
    BY <1>1, <1>4 DEF call, result
  <2>2. QED
    BY <1>2, <2>1
<1>6. InRounds(messages', iteration)
  <2>1. /\ Len(messages') = N + 1 + Len(c)
        /\ messages'[N + 1] = Assistant(c)
        /\ \A k \in 1 .. Len(c) : messages'[N + 1 + k] = ToolMessage(c[k])
    <3>1. \A k \in 1 .. Len(c) : k = 1
      BY <1>3
    <3>2. N + 1 + 1 = N + 2 /\ N \in Nat
      BY <1>2
    <3>3. QED
      BY <1>3, <1>5, <3>1, <3>2 DEF call, result
  <2> DEFINE n == iteration - 1
  <2>2. n \in Nat /\ n + 1 = iteration /\ InRounds(messages, n)
    BY <1>2
  <2> HIDE DEF n
  <2>3. /\ \A k \in 1 .. Len(c) : c[k][1] = n + 1
        /\ \A k, l \in 1 .. Len(c) : (c[k] = c[l] => k = l) /\ (MadeUp(c[k]) => MadeUp(c[l]))
    <3>1. \A k \in 1 .. Len(c) : k = 1
      BY <1>3
    <3>2. QED
      BY <1>3, <2>2, <3>1
  <2>6. FreshCalls(c, n + 1) /\ AddsRound(messages', messages, c)
    BY <1>5, <2>1, <2>3 DEF FreshCalls, AddsRound
  <2>4. InRounds(messages', n + 1)
    BY <1>3, <1>5, <2>2, <2>6, RoundAppended
  <2>5. QED
    BY <2>2, <2>4
<1>7. RunTypeOK'
  BY <1>1, <1>2, <1>5 DEF RunTypeOK, NoAnswer
<1>8. RoundsInv' /\ ResultWellFormed'
  BY <1>1, <1>6 DEF RoundsInv, ResultWellFormed
<1>9. CheckpointCoversTools'
  <2>1. Last(messages') = result
    BY <1>2, <1>5 DEF Last
  <2>2. MadeUp(Last(messages').call)
    BY <1>3, <2>1, ToolMessageIs DEF result
  <2>3. QED
    BY <1>1, <2>2 DEF CheckpointCoversTools
<1>10. QED
  BY <1>1, <1>7, <1>8, <1>9 DEF RunInv

\* Every other way a run ends: the final message, and what it returns.
LEMMA EndsKeep ==
  RunInv /\ (ToolError \/ GiveUpMalformed \/ ErrorResponse \/ EmptyResponse \/ FinalResponse
             \/ MaxIterationsReached) => RunInv'
<1> SUFFICES ASSUME RunInv, ToolError \/ GiveUpMalformed \/ ErrorResponse \/ EmptyResponse
                            \/ FinalResponse \/ MaxIterationsReached
             PROVE  RunInv'
  OBVIOUS
<1>1. RunTypeOK /\ RoundsInv /\ messages \in Seq(MessageSet) /\ iteration \in Nat
  BY DEF RunInv, RunTypeOK
<1>2. ASSUME NEW reason, EndRun(reason, FinalMessage(messages)), reason # "tool_error",
             NEW n \in Nat, InRounds(messages, n)
      PROVE  RunInv'
  <2>1. Len(messages) \in Nat \ {0}
    <3>1. Len(messages) >= 2
      BY <1>2 DEF InRounds
    <3>2. QED
      BY <1>1, <3>1
  <2> DEFINE ms == FinalMessage(messages)
  <2>2. ms \in Seq(MessageSet) /\ Len(ms) \in Nat \ {0} /\ ms[Len(ms)] = Assistant(<<>>)
    BY <1>1, <2>1, FinalMessageIs
  <2>3. \E m \in Nat : InRounds(ms, m)
    BY <1>2, FinalMessageInRounds
  <2>4. EndRun(reason, ms)
    BY <1>2
  <2> HIDE DEF ms
  <2>5. QED
    BY <2>2, <2>3, <2>4, EndKeeps
\* Where the conversation is in rounds.
<1>3. ASSUME phase \in {"respond", "finalized"}
      PROVE  \E n \in Nat : InRounds(messages, n)
  <2>1. iteration - 1 \in Nat /\ InRounds(messages, iteration - 1)
    BY <1>1, <1>3 DEF RunTypeOK, RoundsInv
  <2>2. QED
    BY <2>1
<1>4. CASE ToolError
  <2>1. phase = "tools" /\ EndRun("tool_error", FinalMessage(messages))
    BY <1>4 DEF ToolError
  <2>2. Len(messages) \in Nat \ {0}
    BY <1>1, <2>1 DEF RoundsInv
  <2> DEFINE ms == FinalMessage(messages)
             reason == "tool_error"
  <2>3. ms \in Seq(MessageSet) /\ Len(ms) \in Nat \ {0} /\ ms[Len(ms)] = Assistant(<<>>)
    BY <1>1, <2>2, FinalMessageIs
  <2>4. EndRun(reason, ms) /\ (reason # "tool_error" => \E n \in Nat : InRounds(ms, n))
    BY <2>1
  <2> HIDE DEF ms
  <2>5. QED
    BY <2>3, <2>4, EndKeeps
<1>5. CASE GiveUpMalformed
  BY <1>2, <1>3, <1>5 DEF GiveUpMalformed, MalformedAnswer
<1>6. CASE ErrorResponse
  BY <1>2, <1>3, <1>6 DEF ErrorResponse, Final
<1>7. CASE EmptyResponse
  BY <1>2, <1>3, <1>7 DEF EmptyResponse, Final
<1>8. CASE FinalResponse
  <2> DEFINE ms == Append(messages, Assistant(<<>>))
  <2>1. phase \in {"respond", "finalized"} /\ EndRun("completed", ms)
    BY <1>8 DEF FinalResponse, Final
  <2>2. PICK n \in Nat : InRounds(messages, n)
    BY <1>3, <2>1
  <2>3. Assistant(<<>>) \in MessageSet
    BY DEF Assistant, MessageSet, CallIdSet
  <2>4. ms \in Seq(MessageSet) /\ Len(ms) \in Nat \ {0} /\ ms[Len(ms)] = Assistant(<<>>)
    BY <1>1, <2>3
  <2>5. InRounds(ms, n + 1) /\ n + 1 \in Nat
    BY <2>2, FinalAppended
  <2> HIDE DEF ms
  <2>6. QED
    BY <2>1, <2>4, <2>5, EndKeeps
<1>9. CASE MaxIterationsReached
  <2>1. phase = "iterate" /\ EndRun("max_iterations", FinalMessage(messages))
    BY <1>9 DEF MaxIterationsReached
  <2>2. InRounds(messages, iteration)
    BY <1>1, <2>1 DEF RoundsInv
  <2>3. QED
    BY <1>1, <1>2, <2>1, <2>2
<1>10. QED
  BY <1>4, <1>5, <1>6, <1>7, <1>8, <1>9

LEMMA RunStepInv == AgentRunAssumption /\ RunInv /\ [RunNext]_runVars => RunInv'
<1> SUFFICES ASSUME AgentRunAssumption, RunInv, [RunNext]_runVars PROVE RunInv'
  OBVIOUS
<1>1. CASE RunNext
  BY <1>1, BeginKeeps, AnswerKeeps, AgainKeeps, CallToolsKeeps, ToolKeeps, CompletedKeeps,
     RetryKeeps, EndsKeep DEF RunNext
<1>2. CASE UNCHANGED runVars
  <2>1. /\ failFast' = failFast /\ phase' = phase /\ iteration' = iteration
        /\ messages' = messages /\ prompt' = prompt /\ answer' = answer /\ status' = status
        /\ checkpoint' = checkpoint /\ stop' = stop
    BY <1>2 DEF runVars
  <2>2. RunTypeOK'
    BY <2>1 DEF RunInv, RunTypeOK
  <2>3. (phase = "tools" => StartedInOrder)'
    BY <2>1 DEF RunInv, StartedInOrder, Batch, Over
  <2>4. CheckpointCoversTools' /\ RoundsInv' /\ ResultWellFormed'
    BY <2>1 DEF RunInv, CheckpointCoversTools, RoundsInv, Before, Ids, ResultWellFormed
  <2>5. QED
    BY <2>2, <2>3, <2>4 DEF RunInv
<1>3. QED
  BY <1>1, <1>2

\* What the run of an agent keeps: its conversation is in rounds, and its tools
\* were started in order.
THEOREM RunInvariance == RunSpec => []RunInv
<1>1. RunInit => RunInv
  BY AgentRunAssumption, RunInitInv
<1>2. RunInv /\ [RunNext]_runVars => RunInv'
  BY AgentRunAssumption, RunStepInv
<1>3. QED
  BY <1>1, <1>2, PTL DEF RunSpec

\* What the model is sent, and what a run returns, is a conversation without a
\* result that has no call and without a call that has no result, however the
\* window cuts it and however the run ends, unless it failed fast on a tool
\* (_snip_history and the returns of AgentRunner.run).
THEOREM ConversationWellFormedCorrect == RunSpec => []ConversationWellFormed
<1>1. RunInv => ConversationWellFormed
  <2> SUFFICES ASSUME RunInv PROVE PromptWellFormed
    BY DEF RunInv, ConversationWellFormed
  <2> SUFFICES ASSUME Asking
               PROVE  /\ WellFormed(prompt)
                      /\ (\A m \in Range(messages) : Len(m.calls) <= 3)
                           => Last(prompt).role # "system"
    BY DEF PromptWellFormed
  <2>1. InRounds(messages, iteration - 1) /\ prompt = Snip(messages)
    BY DEF RunInv, RoundsInv, Asking
  <2>2. QED
    BY <2>1, AgentRunAssumption, SnipIs
<1>2. QED
  BY <1>1, RunInvariance, PTL

\* A tool that may change something runs alone, after every call before it and
\* before every call after it; and a crash while tools run, or after them, finds
\* in the last checkpoint what ran (_execute_tools, _partition_tool_batches and
\* the checkpoint callback).
THEOREM ToolsCoveredCorrect == RunSpec => []ToolsCovered
<1>1. RunInv => ToolsCovered
  <2> SUFFICES ASSUME RunInv PROVE UnsafeRunsAlone
    BY DEF RunInv, ToolsCovered
  <2> SUFFICES ASSUME NEW k \in DOMAIN status, status[k] = "running", answer.tools[k] \notin Safe
               PROVE  /\ \A j \in 1 .. k - 1 : Over(j)
                      /\ \A j \in k + 1 .. Len(status) : status[j] = "pending"
    BY DEF UnsafeRunsAlone
  <2>1. phase = "tools"
    BY DEF RunInv, RunTypeOK
  <2>2. /\ status \in [1 .. Len(answer.tools) -> {"pending", "running", "ok", "error"}]
        /\ StartedInOrder /\ answer.tools \in CallLists
    BY <2>1 DEF RunInv, RunTypeOK
  <2>3. answer.tools \in Seq(Tools)
    BY <2>2, AgentRunAssumption DEF AgentRunAssumption
  <2>4. /\ DOMAIN answer.tools = 1 .. Len(answer.tools) /\ DOMAIN status = 1 .. Len(answer.tools)
        /\ Len(answer.tools) \in Nat /\ Len(status) = Len(answer.tools)
    BY <2>2, <2>3
  <2>5. \A j \in DOMAIN status : j # k => j \notin Batch(k) /\ k \notin Batch(j)
    <3>1. SUFFICES ASSUME NEW j \in DOMAIN status, j # k
                   PROVE  j \notin Batch(k) /\ k \notin Batch(j)
      OBVIOUS
    <3>2. Batch(k) = {k}
      BY DEF Batch
    <3>3. k <= k /\ (j <= k \/ k <= j)
      BY <2>4
    <3>4. k \notin Batch(j)
      <4>1. CASE failFast \/ answer.tools[j] \notin Safe
        BY <3>1, <4>1 DEF Batch
      <4>2. CASE ~ (failFast \/ answer.tools[j] \notin Safe)
        BY <2>4, <3>3, <4>2 DEF Batch
      <4>3. QED
        BY <4>1, <4>2
    <3>5. QED
      BY <3>1, <3>2, <3>4
  <2>6. ASSUME NEW j \in 1 .. k - 1 PROVE Over(j)
    <3>1. j \in DOMAIN status /\ j < k
      BY <2>4
    <3>2. QED
      BY <2>2, <2>5, <3>1 DEF StartedInOrder
  <2>7. ASSUME NEW j \in k + 1 .. Len(status) PROVE status[j] = "pending"
    <3>1. j \in DOMAIN status /\ k < j
      BY <2>4
    <3>2. ~ Over(k)
      BY DEF Over
    <3>3. k \notin Batch(j)
      BY <2>5, <3>1
    <3>4. QED
      BY <2>2, <3>1, <3>2, <3>3 DEF StartedInOrder
  <2>8. QED
    BY <2>6, <2>7
<1>2. QED
  BY <1>1, RunInvariance, PTL
=============================================================================
