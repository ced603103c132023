------------------------- MODULE ReplaySessionProofs -------------------------
(***************************************************************************)
(* Proofs about ReplaySession for every set of paths and source actions    *)
(* and traces of every length: what the replay compares its container      *)
(* with, where a forced sync puts it, and what the records and the summary *)
(* say of the replay.                                                      *)
(***************************************************************************)
EXTENDS ReplaySession, FiniteSetTheorems, WellFoundedInduction, TLAPS

-----------------------------------------------------------------------------
(* The inductive invariant.                                                *)

PartialFiles == UNION {[S -> Contents] : S \in SUBSET Paths}
Ckpts == [kind : {"none", "full", "incremental"}, files : PartialFiles,
          deleted : SUBSET Paths, gone : BOOLEAN]
Entries == [a : SourceActions, ckpt : Ckpts, lost : BOOLEAN, root : Files]
Reasons == {"none", "outcome", "artifact", "cas"}
Results == [ok : BOOLEAN, reason : Reasons, effective : Reasons, laneInduced : BOOLEAN,
            attempted : BOOLEAN, success : BOOLEAN, continued : BOOLEAN,
            from : Nat, left : SUBSET Nat, exact : BOOLEAN]
Counts == [succeeded : Nat, mismatches : Nat, unresolved : Nat, attempts : Nat,
           successes : Nat, continued : Nat, fatal : Nat]
InHandPCs == {"llm", "execute", "ran", "sync", "restore", "reapply", "verify", "log"}

TypeOK ==
  /\ container \in BOOLEAN /\ laneActive \in BOOLEAN /\ strayed \in BOOLEAN
  /\ trace \in Seq(Entries)
  /\ base \in [main : Files \cup {NoBase}, lane : Files \cup {NoBase}]
  /\ root \in Files
  /\ pc \in {"next", "done"} \cup InHandPCs
  /\ cur \in Results
  /\ log \in Seq([action : Nat, res : Results])
  /\ errors \subseteq [action : Nat, at : {"execute", "log"}] /\ IsFiniteSet(errors)
  /\ counts \in Counts
  /\ faults \in Nat

\* Whether an action is taken up and neither recorded nor given up.
InHand == pc \in InHandPCs

\* What the action in hand has come to.
CurInv ==
  /\ pc \in {"next", "done", "llm", "execute"} => cur = Idle
  /\ InHand => now > 0 /\ (pc = "llm" <=> action.kind = "llm") /\ action.kind # "skipped"
  /\ pc \in {"execute", "ran", "sync"} =>
       ~cur.attempted /\ ~cur.success /\ ~cur.continued /\ cur.exact
  /\ pc = "ran" => /\ cur.effective = cur.reason /\ cur.reason # "cas"
                   /\ cur.reason # "none" => InStep /\ action.kind \in {"tool", "artifact"}
  /\ pc \in {"sync", "restore", "reapply", "verify"} => InStep /\ action.kind \in {"tool", "artifact"}
  /\ pc \in {"reapply", "verify"} => cur.attempted /\ cur.success /\ cur.continued
  /\ InHand => /\ cur.continued = cur.success
               /\ cur.success => cur.attempted
               /\ cur.effective = "cas" => InStep
               /\ cur.reason = "none" => pc \in {"llm", "execute"} \/ cur.ok = action.ok
  /\ cur.exact \/ strayed

\* The log, the errors and the action in hand are the actions taken up.
Waiting == IF InHand THEN {now} ELSE {}
Known == {i \in 1 .. now : trace[i].a.kind # "skipped"}
Logged == {log[n].action : n \in DOMAIN log}
Caught == {e.action : e \in errors}

LogInv ==
  /\ Known = Logged \cup Caught \cup Waiting
  /\ \A n \in DOMAIN log :
       /\ log[n].action \in 1 .. now /\ (InHand => log[n].action < now)
       /\ LET a == trace[log[n].action].a
          IN log[n].res.reason # "none" \/ a.kind = "llm" \/ log[n].res.ok = a.ok
       /\ log[n].res.success => log[n].res.attempted
       /\ log[n].res.continued => log[n].res.success
  /\ \A e \in errors : e.action \in 1 .. now /\ (InHand => e.action < now)
  /\ \A m, n \in DOMAIN log : m < n => log[m].action < log[n].action

Held == IF InHand THEN 1 ELSE 0

CountInv ==
  /\ Len(log) + Cardinality(errors) + Held = Cardinality(Known)
  /\ counts.attempts = Cardinality({n \in DOMAIN log : log[n].res.attempted})
  /\ counts.successes = Cardinality({n \in DOMAIN log : log[n].res.success})
  /\ counts.continued = Cardinality({n \in DOMAIN log : log[n].res.continued})
  /\ counts.mismatches = Cardinality({n \in DOMAIN log : log[n].res.reason # "none"})
  /\ counts.unresolved =
       Cardinality({n \in DOMAIN log : log[n].res.reason # "none" /\ ~log[n].res.continued})

\* The source's root after an action follows from the one before; it is the same
\* as long as no tool ran.
SourceInv ==
  /\ now > 0 => trace[1].root = Written(Image, trace[1].a.writes)
  /\ \A i \in 2 .. now : trace[i].root = Written(trace[i - 1].root, trace[i].a.writes)
  /\ \A i, j \in 1 .. now :
       i <= j /\ (\A k \in i + 1 .. j : trace[k].a.kind # "tool")
         => trace[i].root = trace[j].root

\* The actions of the agent at which its recorder made a checkpoint, those whose
\* line was lost among them; and the last of them before an action.
IsPoint(i) == ~trace[i].a.lane /\ (HasCheckpoint(i) \/ trace[i].lost)
IsLastPoint(j, i) == /\ j \in 1 .. i /\ IsPoint(j)
                     /\ \A k \in j + 1 .. i : ~IsPoint(k)

\* A checkpoint is what the recorder made of the root then, its manifest gone or not.
Made(c) == [c EXCEPT !.gone = FALSE]

CkptInv ==
  \A i \in 1 .. now :
    /\ HasCheckpoint(i) => trace[i].a.kind = "tool"
    /\ trace[i].lost => ~HasCheckpoint(i)
    /\ HasCheckpoint(i) /\ ~trace[i].a.lane =>
         LET files == trace[i].root
         IN \/ Made(trace[i].ckpt) = FullCheckpoint(files)
            \/ \E j \in 1 .. i - 1 :
                 IsLastPoint(j, i - 1) /\ Made(trace[i].ckpt) = Incremental(files, trace[j].root)

BaseInv ==
  \/ base.main = NoBase /\ \A i \in 1 .. now : ~IsPoint(i)
  \/ \E j \in 1 .. now : IsLastPoint(j, now) /\ base.main = trace[j].root

\* Nothing of the agent was lost up to an action.
KeptUpTo(i) == \A k \in 1 .. i : ~trace[k].a.lane => ~Lost(k)

\* A checkpoint of the agent has a full one of the agent at or before it.
FullInv ==
  \A i \in 1 .. now : HasCheckpoint(i) /\ ~trace[i].a.lane /\ KeptUpTo(i) =>
    \E k \in 1 .. i : trace[k].ckpt.kind = "full" /\ ~trace[k].a.lane

\* What is folded tells of the agent's last checkpoint, or with the one of the
\* action in hand would.
Unfolded == pc \in {"execute", "ran"} /\ ~IsLane /\ HasCheckpoint(now)
OnlyLogErrors == \A e \in errors : e.at = "log"

FoldInv ==
  container /\ KeptUpTo(now) /\ OnlyLogErrors =>
    IF Unfolded
    THEN Fold(folded, trace[now].ckpt) = Present(trace[now].root)
    ELSE (\E j \in 1 .. now : IsPoint(j)) => folded = Present(base.main)

\* The checkpoints, or the tools to execute again, up to a position are behind.
Behind(S, left, m) == \A j \in S : j > m <=> j \in left

SyncInv ==
  /\ pc = "restore" => /\ cur.from = Target /\ ChainStart(Target) # 0
                       /\ cur.left \subseteq Chain(Target)
                       /\ cur.attempted /\ ~cur.success /\ ~cur.continued /\ cur.exact
  /\ pc \in {"reapply", "verify"} => cur.from = Target /\ Target # 0 /\ cur.left \subseteq Reapplied
  /\ pc = "verify" => Reapplied = {}
  /\ CleanHistory =>
       /\ pc = "restore" => \/ cur.left = Chain(Target)
                            \/ \E k \in Chain(Target) : /\ root = trace[k].root
                                                        /\ Behind(Chain(Target), cur.left, k)
       /\ pc = "reapply" /\ cur.exact =>
            \E m \in Target .. now : root = trace[m].root /\ Behind(Reapplied, cur.left, m)
       /\ pc = "verify" => root = trace[now].root
       /\ pc = "log" /\ cur.continued /\ cur.exact => root = trace[now].root

\* Without lanes, faults and tools that went another way the container follows
\* the source; at a checkpoint it is brought back.
Followed == container /\ ~strayed /\ faults = 0 /\ CleanHistory
Before == IF now > 1 THEN trace[now - 1].root ELSE Image

FollowInv ==
  /\ errors # {} => faults > 0
  /\ pc = "execute" /\ IsLane => laneActive
  /\ Followed /\ ~laneActive =>
       /\ pc \in {"next", "llm", "ran", "log"} => root = SourceRoot
       /\ pc = "execute" => root = Before
       /\ pc = "sync" => HasCheckpoint(now) \/ root = SourceRoot
  /\ Followed /\ InHand /\ cur.effective = "cas" => cur.laneInduced

IInv == /\ TypeOK /\ CurInv /\ LogInv /\ CountInv /\ SourceInv /\ CkptInv /\ BaseInv
        /\ FullInv /\ FoldInv /\ SyncInv /\ FollowInv
-----------------------------------------------------------------------------
(* The last position of a set, and the actions of the trace.               *)

LEMMA LatestIs ==
  ASSUME NEW n \in Nat, NEW S \in SUBSET (1 .. n)
  PROVE  /\ S = {} => Latest(S) = 0
         /\ S # {} => Latest(S) \in S /\ \A j \in S : j <= Latest(S)
<1> SUFFICES ASSUME S # {} PROVE \E i \in S : \A j \in S : j <= i
  BY DEF Latest
<1> DEFINE T == {n - i : i \in S}
<1> DEFINE R == OpToRel(<, Nat)
<1>1. T \subseteq Nat /\ T # {}
  <2>1. \A i \in S : n - i \in Nat
    OBVIOUS
  <2>2. PICK i \in S : TRUE
    OBVIOUS
  <2>3. n - i \in T
    BY <2>2
  <2>4. QED
    BY <2>1, <2>3
<1>2. \E x \in T : \A y \in T : ~ (<<y, x>> \in R)
  <2>1. IsWellFoundedOn(R, Nat)
    BY NatLessThanWellFounded
  <2> HIDE DEF T, R
  <2>2. QED
    BY <1>1, <2>1, WFMin
<1>3. PICK i \in S : \A y \in T : ~ (<<y, n - i>> \in R)
  BY <1>2
<1>4. ASSUME NEW j \in S PROVE j <= i
  <2>1. n - j \in T /\ n - j \in Nat /\ n - i \in Nat
    BY <1>1
  <2>2. ~ (n - j < n - i)
    <3>1. <<n - j, n - i>> \notin R
      BY <1>3, <2>1
    <3>2. QED
      BY <2>1, <3>1 DEF OpToRel
  <2>3. QED
    BY <2>2
<1>5. QED
  BY <1>4

LEMMA TraceEntries ==
  ASSUME TypeOK
  PROVE  /\ now \in Nat
         /\ \A i \in 1 .. now : trace[i] \in Entries
<1>1. trace \in Seq(Entries)
  BY DEF TypeOK
<1>2. Len(trace) \in Nat /\ \A i \in 1 .. Len(trace) : trace[i] \in Entries
  <2> HIDE DEF Entries
  <2>1. QED
    BY <1>1
<1>3. QED
  BY <1>2 DEF now

LEMMA EntryForm ==
  ASSUME NEW e \in Entries
  PROVE  /\ e.a \in SourceActions /\ ActionShape(e.a)
         /\ e.ckpt \in Ckpts /\ e.lost \in BOOLEAN /\ e.root \in Files
<1>1. e.a \in SourceActions /\ e.ckpt \in Ckpts /\ e.lost \in BOOLEAN /\ e.root \in Files
  BY DEF Entries
<1>2. QED
  BY <1>1, ReplaySessionAssumption

LEMMA CkptForm ==
  ASSUME NEW c \in Ckpts
  PROVE  /\ c.kind \in {"none", "full", "incremental"} /\ c.deleted \subseteq Paths
         /\ c.gone \in BOOLEAN
         /\ DOMAIN c.files \subseteq Paths
         /\ \A p \in DOMAIN c.files : c.files[p] \in Contents
         /\ c = [kind |-> c.kind, files |-> c.files, deleted |-> c.deleted, gone |-> c.gone]
<1>1. c.files \in PartialFiles
  BY DEF Ckpts
<1>2. PICK S \in SUBSET Paths : c.files \in [S -> Contents]
  BY <1>1 DEF PartialFiles
<1>3. QED
  BY <1>2 DEF Ckpts

LEMMA WritesForm ==
  ASSUME NEW a, ActionShape(a)
  PROVE  /\ DOMAIN a.writes \subseteq Paths
         /\ \A p \in DOMAIN a.writes : a.writes[p] \in Contents \cup {Absent}
  BY DEF ActionShape
-----------------------------------------------------------------------------
(* Type correctness.                                                       *)

LEMMA WrittenType ==
  ASSUME NEW files \in Files, NEW a, ActionShape(a)
  PROVE  Written(files, a.writes) \in Files
  BY WritesForm DEF Written, Files

LEMMA RestoreOneType ==
  ASSUME NEW files \in Files, NEW c, \A p \in DOMAIN c.files : c.files[p] \in Contents
  PROVE  RestoreOne(files, c) \in Files
  BY DEF RestoreOne, Files

LEMMA PartialIs ==
  ASSUME NEW S \in SUBSET Paths, NEW f \in [S -> Contents]
  PROVE  f \in PartialFiles
  BY DEF PartialFiles

LEMMA PresentType ==
  ASSUME NEW files \in Files
  PROVE  Present(files) \in PartialFiles
<1> DEFINE S == {q \in Paths : files[q] # Absent}
<1>1. S \in SUBSET Paths /\ Present(files) \in [S -> Contents]
  BY DEF Present, Files
<1>2. QED
  <2> HIDE DEF S
  <2>1. QED
    BY <1>1, PartialIs

LEMMA NoCheckpointType == NoCheckpoint \in Ckpts
<1>1. {} \in SUBSET Paths /\ NoWrite \in [{} -> Contents]
  BY DEF NoWrite
<1>2. NoWrite \in PartialFiles
  BY <1>1, PartialIs
<1>3. QED
  BY <1>2 DEF NoCheckpoint, Ckpts

LEMMA CheckpointType ==
  ASSUME NEW files \in Files, NEW since, NEW a, NEW c \in CheckpointOf(a, files, since)
  PROVE  /\ c \in Ckpts /\ [c EXCEPT !.gone = TRUE] \in Ckpts
         /\ c.kind # "none" /\ ~c.gone /\ a.kind = "tool"
         /\ c = FullCheckpoint(files) \/ (since # NoBase /\ c = Incremental(files, since))
<1>1. a.kind = "tool" /\ (c = FullCheckpoint(files) \/ (since # NoBase /\ c = Incremental(files, since)))
  BY DEF CheckpointOf
<1>2. FullCheckpoint(files) \in Ckpts /\ FullCheckpoint(files).kind = "full" /\ ~FullCheckpoint(files).gone
  BY PresentType, NoCheckpointType DEF FullCheckpoint, Ckpts, NoCheckpoint
<1>3. Incremental(files, since) \in Ckpts /\ Incremental(files, since).kind = "incremental"
        /\ ~Incremental(files, since).gone
  <2> DEFINE S == {q \in Paths : files[q] \notin {Absent, since[q]}}
  <2> DEFINE f == [p \in S |-> files[p]]
  <2> DEFINE D == {p \in Paths : files[p] = Absent /\ since[p] # Absent}
  <2>1. S \in SUBSET Paths /\ f \in [S -> Contents] /\ D \in SUBSET Paths
    BY DEF Files
  <2>2. f \in PartialFiles
    <3> HIDE DEF S, f
    <3>1. QED
      BY <2>1, PartialIs
  <2>3. Incremental(files, since) = [NoCheckpoint EXCEPT !.kind = "incremental", !.files = f, !.deleted = D]
    BY DEF Incremental
  <2>4. QED
    <3> HIDE DEF f, D
    <3>1. QED
      BY <2>1, <2>2, <2>3, NoCheckpointType DEF Ckpts, NoCheckpoint
<1>4. [c EXCEPT !.gone = TRUE] \in Ckpts
  BY <1>1, <1>2, <1>3 DEF Ckpts
<1>5. QED
  BY <1>1, <1>2, <1>3, <1>4

\* What the replay finds in the trace next.
Taken(e, a, files) ==
  /\ trace' = Append(trace, e)
  /\ e \in [a : {a}, ckpt : Ckpts, lost : BOOLEAN, root : {files}]
  /\ \/ /\ e.ckpt = NoCheckpoint /\ ~e.lost
        /\ UNCHANGED <<base, faults>>
     \/ /\ base' = [base EXCEPT ![Agent(a)] = files]
        /\ \E c \in CheckpointOf(a, files, base[Agent(a)]) :
             \/ e.ckpt = c /\ ~e.lost /\ UNCHANGED faults
             \/ e.ckpt = [c EXCEPT !.gone = TRUE] /\ ~e.lost /\ Fault
             \/ e.ckpt = NoCheckpoint /\ e.lost /\ Fault

LEMMA ReadsIs ==
  ASSUME NEW a, NEW files \in Files, Reads(a, files)
  PROVE  \E e : Taken(e, a, files)
<1> DEFINE entry(c, lost) == [a |-> a, ckpt |-> c, lost |-> lost, root |-> files]
<1> DEFINE made == CheckpointOf(a, files, base[Agent(a)])
<1>1. CASE trace' = Append(trace, entry(NoCheckpoint, FALSE)) /\ UNCHANGED <<base, faults>>
  <2>1. Taken(entry(NoCheckpoint, FALSE), a, files)
    BY <1>1, NoCheckpointType DEF Taken
  <2>2. QED
    BY <2>1
<1>2. CASE base' = [base EXCEPT ![Agent(a)] = files] /\ \E c \in made :
             \/ trace' = Append(trace, entry(c, FALSE)) /\ UNCHANGED faults
             \/ trace' = Append(trace, entry([c EXCEPT !.gone = TRUE], FALSE)) /\ Fault
             \/ trace' = Append(trace, entry(NoCheckpoint, TRUE)) /\ Fault
  <2>1. PICK c \in made :
             \/ trace' = Append(trace, entry(c, FALSE)) /\ UNCHANGED faults
             \/ trace' = Append(trace, entry([c EXCEPT !.gone = TRUE], FALSE)) /\ Fault
             \/ trace' = Append(trace, entry(NoCheckpoint, TRUE)) /\ Fault
    BY <1>2
  <2>2. c \in Ckpts /\ [c EXCEPT !.gone = TRUE] \in Ckpts
    BY CheckpointType
  <2>3. CASE trace' = Append(trace, entry(c, FALSE)) /\ UNCHANGED faults
    <3>1. Taken(entry(c, FALSE), a, files)
      BY <1>2, <2>2, <2>3 DEF Taken
    <3>2. QED
      BY <3>1
  <2>4. CASE trace' = Append(trace, entry([c EXCEPT !.gone = TRUE], FALSE)) /\ Fault
    <3>1. Taken(entry([c EXCEPT !.gone = TRUE], FALSE), a, files)
      BY <1>2, <2>2, <2>4 DEF Taken
    <3>2. QED
      BY <3>1
  <2>5. CASE trace' = Append(trace, entry(NoCheckpoint, TRUE)) /\ Fault
    <3>1. Taken(entry(NoCheckpoint, TRUE), a, files)
      BY <1>2, <2>5, NoCheckpointType DEF Taken
    <3>2. QED
      BY <3>1
  <2>6. QED
    BY <2>1, <2>3, <2>4, <2>5
<1>3. QED
  BY <1>1, <1>2 DEF Reads

LEMMA SourceRootType == TypeOK => SourceRoot \in Files
<1> SUFFICES ASSUME TypeOK PROVE SourceRoot \in Files
  OBVIOUS
<1>1. CASE now = 0
  BY <1>1, ReplaySessionAssumption DEF SourceRoot
<1>2. CASE now # 0
  <2>1. now \in 1 .. now /\ trace[now] \in Entries
    BY <1>2, TraceEntries
  <2>2. QED
    BY <1>2, <2>1, EntryForm DEF SourceRoot
<1>3. QED
  BY <1>1, <1>2

\* The action taken up is the last of the trace.
TakesUp(e) ==
  /\ now' = now + 1
  /\ \A i \in 1 .. now : trace'[i] = trace[i]
  /\ trace'[now + 1] = e /\ e \in Entries
  /\ e.root = Written(SourceRoot, e.a.writes)
  /\ Taken(e, e.a, e.root)
  /\ laneActive' = (laneActive \/ e.a.lane)
  /\ pc' = CASE e.a.kind = "llm" -> "llm" [] e.a.kind = "skipped" -> "next" [] OTHER -> "execute"

LEMMA NextActionTakes ==
  ASSUME TypeOK, NextAction
  PROVE  \E e : TakesUp(e)
<1>1. PICK a \in SourceActions :
        /\ Reads(a, Written(SourceRoot, a.writes))
        /\ laneActive' = (laneActive \/ a.lane)
        /\ pc' = CASE a.kind = "llm" -> "llm" [] a.kind = "skipped" -> "next" [] OTHER -> "execute"
  BY DEF NextAction
<1> DEFINE files == Written(SourceRoot, a.writes)
<1>2. files \in Files
  BY SourceRootType, WrittenType, ReplaySessionAssumption
<1>3. PICK e : Taken(e, a, files)
  <2> HIDE DEF files
  <2>1. QED
    BY <1>1, <1>2, ReadsIs DEF files
<1>4. e \in Entries /\ e.a = a /\ e.root = files
  <2> HIDE DEF files
  <2>1. e \in [a : {a}, ckpt : Ckpts, lost : BOOLEAN, root : {files}]
    BY <1>3 DEF Taken
  <2>2. QED
    BY <1>2, <2>1 DEF Entries
<1>5. trace' = Append(trace, e) /\ trace \in Seq(Entries)
  BY <1>3 DEF Taken, TypeOK
<1>6. /\ now' = now + 1
      /\ \A i \in 1 .. now : trace'[i] = trace[i]
      /\ trace'[now + 1] = e
  <2> HIDE DEF Entries
  <2>1. Len(trace') = Len(trace) + 1 /\ trace'[Len(trace) + 1] = e
          /\ \A i \in 1 .. Len(trace) : trace'[i] = trace[i]
    BY <1>4, <1>5
  <2>2. QED
    BY <2>1 DEF now
<1>7. TakesUp(e)
  BY <1>1, <1>3, <1>4, <1>6 DEF TakesUp
<1>8. QED
  BY <1>7

LEMMA CurType ==
  ASSUME TypeOK
  PROVE  /\ cur \in Results /\ Failed(cur) \in Results /\ Restored(cur) \in Results
         /\ Idle \in Results
  BY DEF TypeOK, Results, Failed, Restored, Idle, Reasons

LEMMA OneIs == \A b \in BOOLEAN : One(b) \in Nat /\ One(b) = IF b THEN 1 ELSE 0
  BY DEF One

LEMMA CountedType ==
  ASSUME TypeOK
  PROVE  /\ Counted \in Counts
         /\ [counts EXCEPT !.succeeded = @ + 1] \in Counts
<1>1. counts \in Counts
  BY DEF TypeOK
<1>2. \A b \in BOOLEAN : One(b) \in Nat
  BY DEF One
<1>3. /\ One(cur.reason = "none" /\ cur.ok) \in Nat /\ One(cur.reason # "none") \in Nat
      /\ One(cur.reason # "none" /\ ~cur.continued) \in Nat
      /\ One(cur.attempted) \in Nat /\ One(cur.success) \in Nat
      /\ One(cur.continued) \in Nat /\ One(cur.reason = "artifact") \in Nat
  <2>1. cur \in Results
    BY DEF TypeOK
  <2>2. cur.attempted \in BOOLEAN /\ cur.success \in BOOLEAN /\ cur.continued \in BOOLEAN
    BY <2>1 DEF Results
  <2>3. QED
    BY <1>2, <2>2
<1>4. Counted \in Counts
  BY <1>1, <1>3 DEF Counts, Counted
<1>5. [counts EXCEPT !.succeeded = @ + 1] \in Counts
  <2>1. counts.succeeded + 1 \in Nat
    BY <1>1 DEF Counts
  <2>2. QED
    BY <1>1, <2>1 DEF Counts
<1>6. QED
  BY <1>4, <1>5

LEMMA PositionSets ==
  ASSUME TypeOK
  PROVE  /\ {i \in 1 .. now : HasCheckpoint(i)} \in SUBSET (1 .. now)
         /\ \A t \in Nat : {i \in 1 .. t : trace[i].ckpt.kind = "full"} \in SUBSET (1 .. t)
         /\ Target \in 0 .. now
         /\ \A t \in Nat : ChainStart(t) \in 0 .. t
         /\ Chain(Target) \subseteq 0 .. now
         /\ Reapplied \subseteq 1 .. now
<1>1. now \in Nat
  BY TraceEntries
<1>2. {i \in 1 .. now : HasCheckpoint(i)} \in SUBSET (1 .. now)
  OBVIOUS
<1>3. Target \in 0 .. now
  <2> DEFINE S == {i \in 1 .. now : HasCheckpoint(i)}
  <2>1. S \in SUBSET (1 .. now) /\ Target = Latest(S)
    BY DEF Target
  <2>2. Latest(S) = 0 \/ Latest(S) \in S
    <3> HIDE DEF S
    <3>1. QED
      BY <1>1, <2>1, LatestIs
  <2>3. QED
    BY <1>1, <2>1, <2>2
<1>4. ASSUME NEW t \in Nat PROVE ChainStart(t) \in 0 .. t
  <2> DEFINE S == {i \in 1 .. t : trace[i].ckpt.kind = "full"}
  <2>1. S \in SUBSET (1 .. t) /\ ChainStart(t) = Latest(S)
    BY DEF ChainStart
  <2>2. Latest(S) = 0 \/ Latest(S) \in S
    <3> HIDE DEF S
    <3>1. QED
      BY <2>1, LatestIs
  <2>3. QED
    BY <2>1, <2>2
<1>5. Chain(Target) \subseteq 0 .. now
  <2>1. Target \in Nat /\ Target <= now
    BY <1>1, <1>3
  <2>2. ChainStart(Target) \in 0 .. Target
    BY <1>4, <2>1
  <2>3. QED
    BY <1>1, <2>1, <2>2 DEF Chain
<1>6. Reapplied \subseteq 1 .. now
  <2>1. cur.from \in Nat
    BY DEF TypeOK, Results
  <2>2. QED
    BY <1>1, <2>1 DEF Reapplied
<1>7. QED
  BY <1>2, <1>3, <1>4, <1>5, <1>6

\* What is left to restore or to execute again are actions of the trace.
LEMMA LeftInTrace ==
  ASSUME IInv, pc \in {"restore", "reapply"}
  PROVE  \A n \in cur.left : n \in 1 .. now /\ trace[n] \in Entries
<1>1. TypeOK /\ SyncInv
  BY DEF IInv
<1>2. CASE pc = "restore"
  <2>1. cur.left \subseteq Chain(Target) /\ ChainStart(Target) # 0 /\ Target \in Nat /\ now \in Nat
    BY <1>1, <1>2, PositionSets, TraceEntries DEF SyncInv
  <2>2. ChainStart(Target) \in Nat
    BY <1>1, <2>1, PositionSets
  <2>3. \A n \in Chain(Target) : n # 0
    BY <2>1, <2>2 DEF Chain
  <2>4. QED
    BY <1>1, <2>1, <2>3, PositionSets, TraceEntries
<1>3. CASE pc = "reapply"
  BY <1>1, <1>3, PositionSets, TraceEntries DEF SyncInv
<1>4. QED
  BY <1>2, <1>3

LEMMA InitType == Init => TypeOK
<1> SUFFICES ASSUME Init PROVE TypeOK
  OBVIOUS
<1>1. Idle \in Results
  BY DEF Results, Idle, Reasons
<1>2. NoCounts \in Counts
  BY DEF Counts, NoCounts
<1>3. IsFiniteSet({})
  BY FS_EmptySet
<1>4. <<>> \in Seq(Entries) /\ <<>> \in Seq([action : Nat, res : Results])
  OBVIOUS
<1>5. [main |-> NoBase, lane |-> NoBase] \in [main : Files \cup {NoBase}, lane : Files \cup {NoBase}]
  OBVIOUS
<1>6. pc \in {"next", "done"} \cup InHandPCs /\ errors \subseteq [action : Nat, at : {"execute", "log"}]
  BY DEF Init
<1>7. QED
  BY <1>1, <1>2, <1>3, <1>4, <1>5, <1>6, ReplaySessionAssumption DEF Init, TypeOK

LEMMA CaughtType ==
  ASSUME TypeOK, NEW where \in {"execute", "log"}
  PROVE  /\ errors \cup {[action |-> now, at |-> where]} \subseteq [action : Nat, at : {"execute", "log"}]
         /\ IsFiniteSet(errors \cup {[action |-> now, at |-> where]})
<1>1. now \in Nat
  BY TraceEntries
<1>2. IsFiniteSet(errors \cup {[action |-> now, at |-> where]})
  BY FS_AddElement DEF TypeOK
<1>3. QED
  BY <1>1, <1>2 DEF TypeOK

LEMMA LoggedType ==
  ASSUME TypeOK, NEW r \in Results
  PROVE  /\ Append(log, [action |-> now, res |-> r]) \in Seq([action : Nat, res : Results])
         /\ Len(log) \in Nat
         /\ Len(Append(log, [action |-> now, res |-> r])) = Len(log) + 1
         /\ \A n \in 1 .. Len(log) :
              /\ Append(log, [action |-> now, res |-> r])[n] = log[n]
              /\ log[n] \in [action : Nat, res : Results]
         /\ Append(log, [action |-> now, res |-> r])[Len(log) + 1] = [action |-> now, res |-> r]
<1> DEFINE T == [action : Nat, res : Results]
<1> DEFINE e == [action |-> now, res |-> r]
<1>1. e \in T /\ log \in Seq(T)
  BY TraceEntries DEF TypeOK
<1>2. /\ Append(log, e) \in Seq(T) /\ Len(log) \in Nat /\ Len(Append(log, e)) = Len(log) + 1
      /\ \A n \in 1 .. Len(log) : Append(log, e)[n] = log[n] /\ log[n] \in T
      /\ Append(log, e)[Len(log) + 1] = e
  <2> HIDE DEF T, e
  <2>1. QED
    BY <1>1
<1>3. QED
  BY <1>2

LEMMA ActionForm ==
  ASSUME TypeOK, now > 0
  PROVE  trace[now] \in Entries /\ ActionShape(action) /\ now \in 1 .. now
  BY TraceEntries, EntryForm DEF action

LEMMA TypeStep ==
  ASSUME IInv, [Next]_vars
  PROVE  TypeOK'
<1>0. TypeOK /\ CurInv
  BY DEF IInv
<1>1. CASE UNCHANGED vars
  BY <1>0, <1>1 DEF vars, TypeOK
<1>2. CASE NextAction
  <2>1. PICK e : TakesUp(e)
    BY <1>0, <1>2, NextActionTakes
  <2>2. trace' \in Seq(Entries)
    BY <1>0, <2>1 DEF TakesUp, Taken, TypeOK
  <2>3. e.root \in Files /\ e.a.lane \in BOOLEAN
    BY <2>1, EntryForm DEF TakesUp, ActionShape
  <2>4. base' \in [main : Files \cup {NoBase}, lane : Files \cup {NoBase}]
    BY <1>0, <2>1, <2>3 DEF TakesUp, Taken, TypeOK, Agent
  <2>5. faults' \in Nat
    BY <1>0, <2>1 DEF TakesUp, Taken, TypeOK, Fault
  <2>6. pc' \in {"next", "llm", "execute"} /\ laneActive' \in BOOLEAN
    BY <1>0, <2>1, <2>3 DEF TakesUp, TypeOK
  <2>7. QED
    BY <1>0, <1>2, <2>2, <2>4, <2>5, <2>6 DEF NextAction, TypeOK, InHandPCs
<1>3. CASE ReplayLlm
  <2>1. CASE log' = Append(log, [action |-> now, res |-> Idle])
             /\ counts' = [counts EXCEPT !.succeeded = @ + 1]
             /\ pc' = "next" /\ UNCHANGED <<cur, errors, faults>>
    <3>1. log' \in Seq([action : Nat, res : Results])
      BY <1>0, <2>1, LoggedType, CurType
    <3>2. counts' \in Counts
      BY <1>0, <2>1, CountedType
    <3>3. QED
      BY <1>0, <1>3, <2>1, <3>1, <3>2 DEF ReplayLlm, TypeOK, InHandPCs
  <2>2. CASE Fault /\ Raised("log")
    BY <1>0, <1>3, <2>2, CaughtType, CurType DEF ReplayLlm, TypeOK, InHandPCs, Fault, Raised
  <2>3. QED
    BY <1>3, <2>1, <2>2 DEF ReplayLlm
<1>4. CASE ReplayFromTrace
  <2>1. cur' \in Results
    <3>1. action.ok \in BOOLEAN
      BY <1>0, <1>4, ActionForm DEF CurInv, InHand, InHandPCs, ReplayFromTrace, ActionShape
    <3>2. QED
      BY <1>0, <1>4, <3>1, CurType DEF ReplayFromTrace, Results
  <2>2. QED
    BY <1>0, <1>4, <2>1 DEF ReplayFromTrace, TypeOK, InHandPCs
<1>5. CASE ArtifactUnavailable
  <2>1. cur' \in Results
    BY <1>0, <1>5, CurType DEF ArtifactUnavailable, Results, Reasons
  <2>2. QED
    BY <1>0, <1>5, <2>1 DEF ArtifactUnavailable, TypeOK, InHandPCs
<1>6. CASE ExecuteInContainer
  <2>1. ActionShape(action)
    BY <1>0, <1>6, ActionForm DEF CurInv, InHand, InHandPCs, ExecuteInContainer
  <2>2. PICK r \in ToolRuns :
       /\ root' = IF r.asSource THEN Written(root, action.writes) ELSE root
       /\ strayed' = (strayed \/ (~r.asSource /\ action.writes # NoWrite))
       /\ \/ /\ cur' = [Idle EXCEPT !.ok = r.ok, !.reason = MismatchReason(r.ok),
                                   !.effective = MismatchReason(r.ok)]
             /\ pc' = "ran"
             /\ UNCHANGED <<log, errors, counts, faults>>
          \/ Fault /\ Raised("execute")
    BY <1>6 DEF ExecuteInContainer
  <2>3. root' \in Files /\ strayed' \in BOOLEAN
    BY <1>0, <2>1, <2>2, WrittenType DEF TypeOK
  <2>4. CASE /\ cur' = [Idle EXCEPT !.ok = r.ok, !.reason = MismatchReason(r.ok),
                                   !.effective = MismatchReason(r.ok)]
             /\ pc' = "ran"
             /\ UNCHANGED <<log, errors, counts, faults>>
    <3>1. MismatchReason(r.ok) \in Reasons /\ r.ok \in BOOLEAN
      BY DEF MismatchReason, Reasons, ToolRuns
    <3>2. cur' \in Results
      BY <1>0, <2>4, <3>1, CurType DEF Results
    <3>3. QED
      BY <1>0, <1>6, <2>3, <2>4, <3>2 DEF ExecuteInContainer, TypeOK, InHandPCs
  <2>5. CASE Fault /\ Raised("execute")
    BY <1>0, <1>6, <2>3, <2>5, CaughtType, CurType
      DEF ExecuteInContainer, TypeOK, InHandPCs, Fault, Raised
  <2>6. QED
    BY <2>2, <2>4, <2>5
<1>7. CASE CompareAtBoundary
  <2>1. cur' \in Results
    <3>1. [cur EXCEPT !.effective = "cas", !.laneInduced = laneActive] \in Results
      BY <1>0 DEF TypeOK, Results, Reasons
    <3>2. QED
      BY <1>0, <1>7, <3>1, CurType DEF CompareAtBoundary
  <2>2. faults' \in Nat /\ pc' \in {"sync", "log"}
    BY <1>0, <1>7 DEF CompareAtBoundary, TypeOK, Fault, Goes
  <2>3. QED
    BY <1>0, <1>7, <2>1, <2>2 DEF CompareAtBoundary, TypeOK, InHandPCs
<1>8. CASE NoBoundary
  BY <1>0, <1>8 DEF NoBoundary, TypeOK, InHandPCs, Goes
<1>9. CASE NothingToRestore
  BY <1>0, <1>9, CurType DEF NothingToRestore, TypeOK, InHandPCs
<1>10. CASE BeginRestore
  <2>1. Target \in Nat /\ Chain(Target) \subseteq Nat
    BY <1>0, PositionSets, TraceEntries
  <2>2. cur' \in Results
    BY <1>0, <1>10, <2>1, CurType DEF BeginRestore, Results
  <2>3. QED
    BY <1>0, <1>10, <2>2 DEF BeginRestore, TypeOK, InHandPCs
<1>11. CASE RestoreNext
  <2>1. PICK n \in cur.left :
       \/ /\ ~trace[n].ckpt.gone
          /\ root' = RestoreOne(root, trace[n].ckpt)
          /\ cur' = [cur EXCEPT !.left = @ \ {n}]
          /\ UNCHANGED <<pc, faults>>
       \/ RestoreStops(trace[n].ckpt) /\ cur' = Failed(cur) /\ pc' = "log"
    BY <1>11 DEF RestoreNext
  <2>2. trace[n].ckpt \in Ckpts
    BY <1>11, LeftInTrace, EntryForm DEF RestoreNext
  <2>3. \A p \in DOMAIN trace[n].ckpt.files : trace[n].ckpt.files[p] \in Contents
    BY <2>2, CkptForm
  <2>4. CASE /\ ~trace[n].ckpt.gone
             /\ root' = RestoreOne(root, trace[n].ckpt)
             /\ cur' = [cur EXCEPT !.left = @ \ {n}]
             /\ UNCHANGED <<pc, faults>>
    <3>1. root' \in Files
      BY <1>0, <2>3, <2>4, RestoreOneType DEF TypeOK
    <3>2. cur' \in Results
      BY <1>0, <2>4, CurType DEF Results
    <3>3. QED
      BY <1>0, <1>11, <2>4, <3>1, <3>2 DEF RestoreNext, TypeOK
  <2>5. CASE RestoreStops(trace[n].ckpt) /\ cur' = Failed(cur) /\ pc' = "log"
    <3>1. root' \in Files
      <4>1. CASE UNCHANGED root
        BY <1>0, <4>1 DEF TypeOK
      <4>2. ASSUME NEW done \in SUBSET DOMAIN trace[n].ckpt.files,
                   root' = RestoreOne(root, [trace[n].ckpt EXCEPT
                             !.files = [p \in done |-> trace[n].ckpt.files[p]]])
            PROVE  root' \in Files
        <5> DEFINE c == [trace[n].ckpt EXCEPT
                             !.files = [p \in done |-> trace[n].ckpt.files[p]]]
        <5>1. \A p \in DOMAIN c.files : c.files[p] \in Contents
          BY <2>2, <2>3 DEF Ckpts
        <5>2. root \in Files
          BY <1>0 DEF TypeOK
        <5> HIDE DEF c
        <5>3. RestoreOne(root, c) \in Files
          BY <5>1, <5>2, RestoreOneType
        <5>4. QED
          BY <4>2, <5>3 DEF c
      <4>3. QED
        BY <2>5, <4>1, <4>2 DEF RestoreStops
    <3>2. faults' \in Nat
      BY <1>0, <2>5 DEF RestoreStops, Fault, TypeOK
    <3>3. QED
      BY <1>0, <1>11, <2>5, <3>1, <3>2, CurType DEF RestoreNext, TypeOK, InHandPCs
  <2>6. QED
    BY <2>1, <2>4, <2>5
<1>12. CASE RestoreDone
  <2>1. Reapplied \in SUBSET Nat
    BY <1>0, PositionSets, TraceEntries
  <2>2. cur' \in Results
    BY <1>0, <1>12, <2>1, CurType DEF RestoreDone, Results
  <2>3. QED
    BY <1>0, <1>12, <2>2 DEF RestoreDone, TypeOK, InHandPCs
<1>13. CASE ReapplyNext
  <2>1. PICK n \in cur.left, asSource \in BOOLEAN :
         /\ root' = IF asSource THEN Written(root, trace[n].a.writes) ELSE root
         /\ strayed' = (strayed \/ ~(asSource \/ trace[n].a.writes = NoWrite))
         /\ \/ /\ cur' = [cur EXCEPT !.left = @ \ {n},
                                     !.exact = @ /\ (asSource \/ trace[n].a.writes = NoWrite)]
               /\ UNCHANGED <<pc, faults>>
            \/ Fault /\ cur' = Failed(cur) /\ pc' = "log"
    BY <1>13 DEF ReapplyNext
  <2>2. ActionShape(trace[n].a)
    BY <1>13, LeftInTrace, EntryForm DEF ReapplyNext
  <2>3. root' \in Files /\ strayed' \in BOOLEAN
    BY <1>0, <2>1, <2>2, WrittenType DEF TypeOK
  <2>4. cur' \in Results
    BY <1>0, <2>1, CurType DEF Results
  <2>5. faults' \in Nat /\ pc' \in {"log", pc}
    BY <1>0, <2>1 DEF Fault, TypeOK
  <2>6. QED
    BY <1>0, <1>13, <2>3, <2>4, <2>5 DEF ReapplyNext, TypeOK, InHandPCs
<1>14. CASE ReapplyDone
  BY <1>0, <1>14 DEF ReapplyDone, TypeOK, InHandPCs
<1>15. CASE VerifyRestore
  <2>1. cur' \in {cur, Failed(cur)} /\ faults' \in Nat
    BY <1>0, <1>15 DEF VerifyRestore, Fault, TypeOK
  <2>2. QED
    BY <1>0, <1>15, <2>1, CurType DEF VerifyRestore, TypeOK, InHandPCs
<1>16. CASE LogAction
  <2>1. CASE /\ log' = Append(log, [action |-> now, res |-> cur])
             /\ counts' = Counted
             /\ pc' = "next" /\ cur' = Idle
             /\ UNCHANGED <<errors, faults>>
    <3>1. log' \in Seq([action : Nat, res : Results])
      BY <1>0, <2>1, LoggedType, CurType
    <3>2. QED
      BY <1>0, <1>16, <2>1, <3>1, CountedType, CurType DEF LogAction, TypeOK, InHandPCs
  <2>2. CASE Fault /\ Raised("log")
    BY <1>0, <1>16, <2>2, CaughtType, CurType DEF LogAction, TypeOK, InHandPCs, Fault, Raised
  <2>3. QED
    BY <1>16, <2>1, <2>2 DEF LogAction
<1>17. CASE Finish
  BY <1>0, <1>17 DEF Finish, TypeOK, InHandPCs
<1>18. QED
  BY <1>1, <1>2, <1>3, <1>4, <1>5, <1>6, <1>7, <1>8, <1>9, <1>10, <1>11, <1>12, <1>13,
     <1>14, <1>15, <1>16, <1>17 DEF Next
-----------------------------------------------------------------------------
(* What the action in hand has come to.                                    *)

LEMMA Kept ==
  ASSUME UNCHANGED <<trace, container>>
  PROVE  /\ now' = now /\ action' = action /\ IsLane' = IsLane /\ InStep' = InStep
         /\ SourceRoot' = SourceRoot /\ Before' = Before /\ Known' = Known
         /\ \A i : HasCheckpoint(i)' = HasCheckpoint(i) /\ IsPoint(i)' = IsPoint(i)
                   /\ KeptUpTo(i)' = KeptUpTo(i)
         /\ CleanHistory' = CleanHistory
  BY DEF now, action, IsLane, InStep, SourceRoot, Before, HasCheckpoint, IsPoint, KeptUpTo,
         CleanHistory, Lost, Known

LEMMA SyncKept ==
  ASSUME UNCHANGED trace
  PROVE  /\ Target' = Target /\ Chain(Target)' = Chain(Target)
         /\ ChainStart(Target)' = ChainStart(Target)
  BY DEF Target, ChainStart, Chain, Latest, HasCheckpoint, now

LEMMA CurStep ==
  ASSUME IInv, [Next]_vars
  PROVE  CurInv'
<1>0. TypeOK /\ CurInv /\ cur \in Results /\ strayed \in BOOLEAN
  BY DEF IInv, TypeOK
<1> USE DEF InHand, InHandPCs
<1>1. CASE UNCHANGED vars
  BY <1>0, <1>1, Kept DEF vars, CurInv
<1>2. CASE NextAction
  <2>1. PICK e : TakesUp(e)
    BY <1>0, <1>2, NextActionTakes
  <2>2. now \in Nat /\ now' = now + 1 /\ trace'[now + 1] = e
    BY <1>0, <2>1, TraceEntries DEF TakesUp
  <2>3. action' = e.a /\ now' > 0
    BY <2>2 DEF action
  <2>4. cur = Idle /\ cur' = Idle /\ strayed' = strayed
    BY <1>0, <1>2 DEF NextAction, CurInv
  <2>5. \/ pc' = "next"
        \/ pc' = "llm" /\ e.a.kind = "llm"
        \/ pc' = "execute" /\ e.a.kind \notin {"llm", "skipped"}
    BY <2>1 DEF TakesUp
  <2>6. QED
    BY <2>3, <2>4, <2>5 DEF CurInv, Idle
<1>3. CASE ReplayLlm
  <2>1. pc' = "next" /\ cur' = Idle
    BY <1>0, <1>3 DEF ReplayLlm, Raised, CurInv
  <2>2. QED
    BY <2>1 DEF CurInv, Idle
<1>4. CASE ReplayFromTrace
  BY <1>0, <1>4, Kept DEF ReplayFromTrace, CurInv, Idle
<1>5. CASE ArtifactUnavailable
  BY <1>0, <1>5, Kept DEF ArtifactUnavailable, CurInv, Idle
<1>6. CASE ExecuteInContainer
  <2>1. PICK ok \in BOOLEAN :
          \/ /\ cur' = [Idle EXCEPT !.ok = ok, !.reason = MismatchReason(ok),
                                   !.effective = MismatchReason(ok)]
             /\ pc' = "ran"
          \/ Raised("execute")
    BY <1>6 DEF ExecuteInContainer, ToolRuns
  <2>2. CASE Raised("execute")
    BY <2>2 DEF Raised, CurInv, Idle
  <2>3. CASE /\ cur' = [Idle EXCEPT !.ok = ok, !.reason = MismatchReason(ok),
                                   !.effective = MismatchReason(ok)]
             /\ pc' = "ran"
    <3>1. MismatchReason(ok) \in {"none", "outcome"}
            /\ (MismatchReason(ok) = "none" => ok = action.ok)
      BY DEF MismatchReason
    <3>2. now' = now /\ action' = action /\ pc = "execute" /\ action.kind = "tool"
          /\ InStep' = InStep /\ InStep
      BY <1>6, Kept DEF ExecuteInContainer
    <3>3. QED
      BY <1>0, <2>3, <3>1, <3>2 DEF CurInv, Idle
  <2>4. QED
    BY <2>1, <2>2, <2>3
<1>7. CASE CompareAtBoundary
  <2>1. now' = now /\ action' = action /\ InStep' = InStep
    BY <1>7, Kept DEF CompareAtBoundary
  <2>2. \/ cur' = cur
        \/ cur' = [cur EXCEPT !.effective = "cas", !.laneInduced = laneActive]
    BY <1>7 DEF CompareAtBoundary
  <2>3. /\ cur'.attempted = cur.attempted /\ cur'.success = cur.success
        /\ cur'.continued = cur.continued /\ cur'.exact = cur.exact
        /\ cur'.reason = cur.reason /\ cur'.ok = cur.ok
    BY <1>0, <2>2 DEF Results
  <2>4. pc' = "sync" \/ pc' = "log"
    BY <1>7 DEF CompareAtBoundary, Goes
  <2>5. InStep /\ pc = "ran" /\ strayed' = strayed
    BY <1>7 DEF CompareAtBoundary
  <2>6. action.kind \in {"tool", "artifact"}
    <3>1. now \in 1 .. now /\ HasCheckpoint(now)
      BY <1>0, <1>7, <2>5, ActionForm DEF CurInv, CompareAtBoundary
    <3>2. QED
      BY <3>1 DEF IInv, CkptInv, action
  <2>7. QED
    BY <1>0, <2>1, <2>3, <2>4, <2>5, <2>6 DEF CurInv
<1>8. CASE NoBoundary
  <2>1. now' = now /\ action' = action /\ InStep' = InStep /\ cur' = cur /\ pc = "ran"
        /\ strayed' = strayed
    BY <1>8, Kept DEF NoBoundary
  <2>2. pc' = "log" \/ (pc' = "sync" /\ InStep /\ cur.effective # "none")
    BY <1>8 DEF NoBoundary, Goes
  <2>3. InStep /\ cur.effective # "none" => action.kind \in {"tool", "artifact"}
    BY <1>0, <2>1 DEF CurInv
  <2>4. QED
    BY <1>0, <2>1, <2>2, <2>3 DEF CurInv
<1>9. CASE NothingToRestore
  <2>1. pc = "sync" /\ pc' = "log" /\ cur' = Failed(cur) /\ strayed' = strayed
    BY <1>9 DEF NothingToRestore
  <2>2. now' = now /\ action' = action /\ InStep' = InStep
    BY <1>9, Kept DEF NothingToRestore
  <2>3. QED
    BY <1>0, <2>1, <2>2 DEF CurInv, Failed, Results
<1>10. CASE BeginRestore
  <2>1. pc = "sync" /\ pc' = "restore" /\ strayed' = strayed
        /\ cur' = [cur EXCEPT !.attempted = TRUE, !.from = Target, !.left = Chain(Target)]
    BY <1>10 DEF BeginRestore
  <2>2. now' = now /\ action' = action /\ InStep' = InStep
    BY <1>10, Kept DEF BeginRestore
  <2>3. QED
    BY <1>0, <2>1, <2>2 DEF CurInv, Results
<1>11. CASE RestoreNext
  <2>1. now' = now /\ action' = action /\ InStep' = InStep /\ pc = "restore" /\ strayed' = strayed
    BY <1>11, Kept DEF RestoreNext
  <2>2. \/ pc' = "restore" /\ \E n : cur' = [cur EXCEPT !.left = @ \ {n}]
        \/ pc' = "log" /\ cur' = Failed(cur)
    BY <1>11 DEF RestoreNext
  <2>3. QED
    BY <1>0, <2>1, <2>2 DEF CurInv, Failed, Results
<1>12. CASE RestoreDone
  <2>1. now' = now /\ action' = action /\ InStep' = InStep /\ pc = "restore" /\ strayed' = strayed
    BY <1>12, Kept DEF RestoreDone
  <2>2. pc' \in {"verify", "reapply"} /\ cur' = [Restored(cur) EXCEPT !.left = Reapplied]
    BY <1>12 DEF RestoreDone
  <2>3. QED
    BY <1>0, <2>1, <2>2 DEF CurInv, Restored, Results
<1>13. CASE ReapplyNext
  <2>1. now' = now /\ action' = action /\ InStep' = InStep /\ pc = "reapply"
    BY <1>13, Kept DEF ReapplyNext
  <2>2. PICK exact \in BOOLEAN :
          /\ strayed' = (strayed \/ ~exact)
          /\ \/ pc' = "reapply" /\ \E n : cur' = [cur EXCEPT !.left = @ \ {n}, !.exact = @ /\ exact]
             \/ pc' = "log" /\ cur' = Failed(cur)
    <3>1. PICK n \in cur.left, asSource \in BOOLEAN :
         /\ strayed' = (strayed \/ ~(asSource \/ trace[n].a.writes = NoWrite))
         /\ \/ /\ cur' = [cur EXCEPT !.left = @ \ {n},
                                     !.exact = @ /\ (asSource \/ trace[n].a.writes = NoWrite)]
               /\ UNCHANGED <<pc, faults>>
            \/ Fault /\ cur' = Failed(cur) /\ pc' = "log"
      BY <1>13 DEF ReapplyNext
    <3>2. (asSource \/ trace[n].a.writes = NoWrite) \in BOOLEAN
      OBVIOUS
    <3>3. QED
      BY <2>1, <3>1, <3>2
  <2>3. QED
    BY <1>0, <2>1, <2>2 DEF CurInv, Failed, Results
<1>14. CASE ReapplyDone
  <2>1. pc = "reapply" /\ pc' = "log" /\ cur' = cur /\ strayed' = strayed
    BY <1>14 DEF ReapplyDone
  <2>2. now' = now /\ action' = action /\ InStep' = InStep
    BY <1>14, Kept DEF ReapplyDone
  <2>3. QED
    BY <1>0, <2>1, <2>2 DEF CurInv
<1>15. CASE VerifyRestore
  <2>1. pc = "verify" /\ pc' = "log" /\ cur' \in {cur, Failed(cur)} /\ strayed' = strayed
    BY <1>15 DEF VerifyRestore
  <2>2. now' = now /\ action' = action /\ InStep' = InStep
    BY <1>15, Kept DEF VerifyRestore
  <2>3. QED
    BY <1>0, <2>1, <2>2 DEF CurInv, Failed, Results
<1>16. CASE LogAction
  <2>1. pc' = "next" /\ cur' = Idle
    BY <1>16 DEF LogAction, Raised
  <2>2. QED
    BY <2>1 DEF CurInv, Idle
<1>17. CASE Finish
  <2>1. pc' = "done" /\ cur' = Idle
    BY <1>0, <1>17 DEF Finish, CurInv
  <2>2. QED
    BY <2>1 DEF CurInv, Idle
<1>18. QED
  BY <1>1, <1>2, <1>3, <1>4, <1>5, <1>6, <1>7, <1>8, <1>9, <1>10, <1>11, <1>12, <1>13,
     <1>14, <1>15, <1>16, <1>17 DEF Next
-----------------------------------------------------------------------------
(* The records, the errors and the counters.                               *)

\* A step that neither takes up an action nor is through with one; one that
\* writes a record; and one that raises.
KeepsRecords == UNCHANGED <<trace, log, errors, counts>> /\ InHand' = InHand
Recorded(r) ==
  /\ InHand /\ ~InHand' /\ UNCHANGED <<trace, errors>>
  /\ log' = Append(log, [action |-> now, res |-> r])
  /\ r.reason # "none" \/ action.kind = "llm" \/ r.ok = action.ok
  /\ r.success => r.attempted
  /\ r.continued => r.success
  /\ counts'.attempts = counts.attempts + One(r.attempted)
  /\ counts'.successes = counts.successes + One(r.success)
  /\ counts'.continued = counts.continued + One(r.continued)
  /\ counts'.mismatches = counts.mismatches + One(r.reason # "none")
  /\ counts'.unresolved = counts.unresolved + One(r.reason # "none" /\ ~r.continued)
RaisedAt(where) ==
  /\ InHand /\ ~InHand' /\ UNCHANGED <<trace, log, counts>>
  /\ errors' = errors \cup {[action |-> now, at |-> where]}

LEMMA StepKinds ==
  ASSUME IInv, [Next]_vars
  PROVE  \/ NextAction
         \/ KeepsRecords
         \/ \E r \in Results : Recorded(r)
         \/ \E where \in {"execute", "log"} : RaisedAt(where)
<1>0. TypeOK /\ CurInv /\ cur \in Results /\ counts \in Counts
  BY DEF IInv, TypeOK
<1>1. CASE UNCHANGED vars
  BY <1>1 DEF vars, KeepsRecords, InHand
<1>2. CASE ReplayLlm
  <2>1. CASE log' = Append(log, [action |-> now, res |-> Idle])
             /\ counts' = [counts EXCEPT !.succeeded = @ + 1]
             /\ pc' = "next" /\ UNCHANGED <<cur, errors, faults>>
    <3>1. Idle \in Results /\ action.kind = "llm" /\ InHand /\ ~InHand'
      BY <1>0, <1>2, <2>1, CurType DEF ReplayLlm, CurInv, InHand, InHandPCs
    <3>2. /\ counts'.attempts = counts.attempts /\ counts'.successes = counts.successes
          /\ counts'.continued = counts.continued /\ counts'.mismatches = counts.mismatches
          /\ counts'.unresolved = counts.unresolved
      BY <1>0, <2>1 DEF Counts
    <3>3. Recorded(Idle)
      <4>1. /\ Idle.reason = "none" /\ ~Idle.attempted /\ ~Idle.success /\ ~Idle.continued
            /\ One(FALSE) = 0
        BY DEF Idle, One
      <4>2. /\ counts.attempts \in Nat /\ counts.successes \in Nat /\ counts.continued \in Nat
            /\ counts.mismatches \in Nat /\ counts.unresolved \in Nat
        BY <1>0 DEF Counts
      <4>3. /\ One(Idle.attempted) = 0 /\ One(Idle.success) = 0 /\ One(Idle.continued) = 0
            /\ One(Idle.reason # "none") = 0 /\ One(Idle.reason # "none" /\ ~Idle.continued) = 0
        BY <4>1 DEF One
      <4>4. UNCHANGED trace
        BY <1>2 DEF ReplayLlm
      <4>5. QED
        BY <2>1, <3>1, <3>2, <4>1, <4>2, <4>3, <4>4 DEF Recorded
    <3>4. QED
      BY <3>1, <3>3
  <2>2. CASE Raised("log")
    <3>1. RaisedAt("log")
      BY <1>2, <2>2 DEF ReplayLlm, Raised, RaisedAt, InHand, InHandPCs
    <3>2. QED
      BY <3>1
  <2>3. QED
    BY <1>2, <2>1, <2>2 DEF ReplayLlm
<1>3. CASE ReplayFromTrace \/ ArtifactUnavailable
  BY <1>3 DEF ReplayFromTrace, ArtifactUnavailable, KeepsRecords, InHand, InHandPCs
<1>4. CASE ExecuteInContainer
  <2>1. /\ pc = "execute" /\ UNCHANGED trace
        /\ \/ pc' = "ran" /\ UNCHANGED <<log, errors, counts>>
           \/ Raised("execute")
    BY <1>4 DEF ExecuteInContainer
  <2>2. CASE pc' = "ran" /\ UNCHANGED <<log, errors, counts>>
    BY <2>1, <2>2 DEF KeepsRecords, InHand, InHandPCs
  <2>3. CASE Raised("execute")
    <3>1. RaisedAt("execute")
      BY <2>1, <2>3 DEF Raised, RaisedAt, InHand, InHandPCs
    <3>2. QED
      BY <3>1
  <2>4. QED
    BY <2>1, <2>2, <2>3
<1>5. CASE CompareAtBoundary \/ NoBoundary
  BY <1>5 DEF CompareAtBoundary, NoBoundary, KeepsRecords, InHand, InHandPCs, Goes
<1>6. CASE NothingToRestore \/ BeginRestore \/ RestoreDone
  BY <1>6 DEF NothingToRestore, BeginRestore, RestoreDone, KeepsRecords, InHand, InHandPCs
<1>7. CASE RestoreNext \/ ReapplyNext
  <2>1. pc \in {"restore", "reapply"} /\ pc' \in {pc, "log"}
    BY <1>7 DEF RestoreNext, ReapplyNext
  <2>2. UNCHANGED <<trace, log, errors, counts>>
    BY <1>7 DEF RestoreNext, ReapplyNext
  <2>3. QED
    BY <2>1, <2>2 DEF KeepsRecords, InHand, InHandPCs
<1>8. CASE ReapplyDone \/ VerifyRestore
  BY <1>8 DEF ReapplyDone, VerifyRestore, KeepsRecords, InHand, InHandPCs
<1>9. CASE LogAction
  <2>1. CASE /\ log' = Append(log, [action |-> now, res |-> cur])
             /\ counts' = Counted
             /\ pc' = "next" /\ cur' = Idle
             /\ UNCHANGED <<errors, faults>>
    <3>1. InHand /\ ~InHand' /\ UNCHANGED trace
      BY <1>9, <2>1 DEF LogAction, InHand, InHandPCs
    <3>2. /\ cur.reason # "none" \/ action.kind = "llm" \/ cur.ok = action.ok
          /\ cur.success => cur.attempted
          /\ cur.continued => cur.success
      BY <1>0, <1>9, <3>1 DEF CurInv, LogAction
    <3>3. Recorded(cur)
      BY <2>1, <3>1, <3>2 DEF Recorded, Counted
    <3>4. QED
      BY <1>0, <3>3
  <2>2. CASE Raised("log")
    <3>1. RaisedAt("log")
      BY <1>9, <2>2 DEF LogAction, Raised, RaisedAt, InHand, InHandPCs
    <3>2. QED
      BY <3>1
  <2>3. QED
    BY <1>9, <2>1, <2>2 DEF LogAction
<1>10. CASE Finish
  BY <1>10 DEF Finish, KeepsRecords, InHand, InHandPCs
<1>11. QED
  BY <1>1, <1>2, <1>3, <1>4, <1>5, <1>6, <1>7, <1>8, <1>9, <1>10 DEF Next

\* One more position is counted or not.
LEMMA CountOneMore ==
  ASSUME NEW n \in Nat, NEW S \in SUBSET (1 .. n), NEW b \in BOOLEAN, NEW T,
         T = IF b THEN S \cup {n + 1} ELSE S
  PROVE  Cardinality(T) = Cardinality(S) + One(b) /\ Cardinality(S) \in Nat /\ IsFiniteSet(S)
<1>1. IsFiniteSet(1 .. n)
  BY FS_Interval
<1>2. IsFiniteSet(S) /\ Cardinality(S) \in Nat
  BY <1>1, FS_Subset, FS_CardinalityType
<1>3. n + 1 \notin S
  OBVIOUS
<1>4. CASE b
  BY <1>2, <1>3, <1>4, FS_AddElement DEF One
<1>5. CASE ~b
  BY <1>2, <1>5 DEF One
<1>6. QED
  BY <1>2, <1>4, <1>5

LEMMA KnownGrows ==
  ASSUME TypeOK, NEW e, TakesUp(e)
  PROVE  /\ Known' = IF e.a.kind # "skipped" THEN Known \cup {now + 1} ELSE Known
         /\ Known \in SUBSET (1 .. now) /\ now \in Nat /\ now' = now + 1
         /\ \A i \in 1 .. now : trace'[i] = trace[i]
         /\ trace'[now + 1] = e
<1>1. /\ now \in Nat /\ now' = now + 1 /\ trace'[now + 1] = e
      /\ \A i \in 1 .. now : trace'[i] = trace[i]
  BY TraceEntries DEF TakesUp
<1>2. 1 .. now' = (1 .. now) \cup {now + 1}
  BY <1>1
<1>3. Known' = {i \in (1 .. now) \cup {now + 1} : trace'[i].a.kind # "skipped"}
  BY <1>2 DEF Known
<1>4. QED
  BY <1>1, <1>3 DEF Known

LEMMA LogEntries ==
  ASSUME TypeOK
  PROVE  /\ Len(log) \in Nat /\ DOMAIN log = 1 .. Len(log)
         /\ \A n \in DOMAIN log : log[n].action \in Nat /\ log[n].res \in Results
<1> DEFINE T == [action : Nat, res : Results]
<1>1. log \in Seq(T)
  BY DEF TypeOK
<1>2. Len(log) \in Nat /\ DOMAIN log = 1 .. Len(log) /\ \A n \in DOMAIN log : log[n] \in T
  <2> HIDE DEF T
  <2>1. QED
    BY <1>1
<1>3. QED
  BY <1>2

LEMMA RecordedIs ==
  ASSUME TypeOK, NEW r \in Results, Recorded(r)
  PROVE  /\ DOMAIN log' = DOMAIN log \cup {Len(log) + 1} /\ Len(log') = Len(log) + 1
         /\ Len(log) + 1 \notin DOMAIN log
         /\ \A n \in DOMAIN log : log'[n] = log[n] /\ n < Len(log) + 1
         /\ log'[Len(log) + 1].action = now /\ log'[Len(log) + 1].res = r
<1>1. Len(log) \in Nat /\ DOMAIN log = 1 .. Len(log)
  BY LogEntries
<1>2. /\ log' = Append(log, [action |-> now, res |-> r])
      /\ Len(log') = Len(log) + 1 /\ \A n \in 1 .. Len(log) : log'[n] = log[n]
      /\ log'[Len(log) + 1] = [action |-> now, res |-> r]
  BY LoggedType DEF Recorded
<1>3. DOMAIN log' = 1 .. Len(log) + 1
  BY <1>1, <1>2
<1>4. QED
  BY <1>1, <1>2, <1>3

LEMMA InHandTaken ==
  ASSUME TypeOK, CurInv, NextAction, NEW e, TakesUp(e)
  PROVE  /\ ~InHand /\ InHand' = (e.a.kind # "skipped")
         /\ UNCHANGED <<container, root, folded, cur, log, errors, counts, strayed>>
<1>1. pc = "next" /\ UNCHANGED <<container, root, folded, cur, log, errors, counts, strayed>>
  BY DEF NextAction
<1>2. ~InHand
  BY <1>1 DEF InHand, InHandPCs
<1>3. InHand' = (e.a.kind # "skipped")
  BY DEF TakesUp, InHand, InHandPCs
<1>4. QED
  BY <1>1, <1>2, <1>3

LEMMA LogStep ==
  ASSUME IInv, [Next]_vars
  PROVE  LogInv'
<1>0. TypeOK /\ CurInv /\ LogInv
  BY DEF IInv
<1>1. CASE NextAction
  <2>1. PICK e : TakesUp(e)
    BY <1>0, <1>1, NextActionTakes
  <2>2. /\ ~InHand /\ InHand' = (e.a.kind # "skipped") /\ UNCHANGED <<log, errors>>
    BY <1>0, <1>1, <2>1, InHandTaken
  <2>3. /\ Known' = IF e.a.kind # "skipped" THEN Known \cup {now + 1} ELSE Known
        /\ now \in Nat /\ now' = now + 1
        /\ \A i \in 1 .. now : trace'[i] = trace[i]
    BY <1>0, <2>1, KnownGrows
  <2>4. Waiting = {} /\ Waiting' = IF InHand' THEN {now + 1} ELSE {}
    BY <2>2, <2>3 DEF Waiting
  <2>5. Logged' = Logged /\ Caught' = Caught
    BY <2>2 DEF Logged, Caught
  <2>6. Known' = Logged' \cup Caught' \cup Waiting'
    BY <1>0, <2>2, <2>3, <2>4, <2>5 DEF LogInv
  <2>7. ASSUME NEW n \in DOMAIN log'
        PROVE  /\ log'[n].action \in 1 .. now' /\ log'[n].action < now'
               /\ LET a == trace'[log'[n].action].a
                  IN log'[n].res.reason # "none" \/ a.kind = "llm" \/ log'[n].res.ok = a.ok
               /\ log'[n].res.success => log'[n].res.attempted
               /\ log'[n].res.continued => log'[n].res.success
    <3>1. n \in DOMAIN log /\ log'[n] = log[n] /\ log[n].action \in 1 .. now
      BY <1>0, <2>2 DEF LogInv
    <3>2. trace'[log[n].action] = trace[log[n].action]
      BY <2>3, <3>1
    <3>3. log[n].action \in 1 .. now' /\ log[n].action < now'
      BY <2>3, <3>1
    <3>4. QED
      BY <1>0, <3>1, <3>2, <3>3 DEF LogInv
  <2>8. \A x \in errors' : x.action \in 1 .. now' /\ x.action < now'
    BY <1>0, <2>2, <2>3 DEF LogInv
  <2>9. \A m, n \in DOMAIN log' : m < n => log'[m].action < log'[n].action
    BY <1>0, <2>2 DEF LogInv
  <2>10. QED
    BY <2>6, <2>7, <2>8, <2>9 DEF LogInv
<1>2. CASE KeepsRecords
  <2>1. UNCHANGED <<trace, log, errors>> /\ InHand' = InHand
    BY <1>2 DEF KeepsRecords
  <2>2. now' = now /\ Known' = Known /\ Logged' = Logged /\ Caught' = Caught
    BY <2>1 DEF now, Known, Logged, Caught
  <2>3. Waiting' = Waiting
    BY <2>1, <2>2 DEF Waiting
  <2>4. QED
    BY <1>0, <2>1, <2>2, <2>3 DEF LogInv
<1>3. ASSUME NEW r \in Results, Recorded(r)
      PROVE  LogInv'
  <2>1. InHand /\ ~InHand' /\ UNCHANGED <<trace, errors>>
    BY <1>3 DEF Recorded
  <2>2. now' = now /\ Known' = Known /\ Caught' = Caught /\ action = trace[now].a /\ now \in 1 .. now
    BY <1>0, <2>1, ActionForm DEF now, Known, Caught, CurInv, action
  <2>3. /\ DOMAIN log' = DOMAIN log \cup {Len(log) + 1}
        /\ Len(log) + 1 \notin DOMAIN log
        /\ \A n \in DOMAIN log : log'[n] = log[n] /\ n < Len(log) + 1
        /\ log'[Len(log) + 1].action = now /\ log'[Len(log) + 1].res = r
    BY <1>0, <1>3, RecordedIs
  <2>4. Logged' = Logged \cup {now}
    <3>1. Logged' = {log'[n].action : n \in DOMAIN log \cup {Len(log) + 1}}
      BY <2>3 DEF Logged
    <3>2. QED
      BY <2>3, <3>1 DEF Logged
  <2>5. Waiting = {now} /\ Waiting' = {}
    BY <2>1 DEF Waiting
  <2>6. Known' = Logged' \cup Caught' \cup Waiting'
    BY <1>0, <2>2, <2>4, <2>5 DEF LogInv
  <2>7. ASSUME NEW n \in DOMAIN log'
        PROVE  /\ log'[n].action \in 1 .. now'
               /\ LET a == trace'[log'[n].action].a
                  IN log'[n].res.reason # "none" \/ a.kind = "llm" \/ log'[n].res.ok = a.ok
               /\ log'[n].res.success => log'[n].res.attempted
               /\ log'[n].res.continued => log'[n].res.success
    <3>1. CASE n \in DOMAIN log
      BY <1>0, <2>1, <2>2, <2>3, <3>1 DEF LogInv
    <3>2. CASE n = Len(log) + 1
      BY <1>3, <2>1, <2>2, <2>3, <3>2 DEF Recorded
    <3>3. QED
      BY <2>3, <3>1, <3>2
  <2>8. \A x \in errors' : x.action \in 1 .. now'
    BY <1>0, <2>1, <2>2 DEF LogInv
  <2>9. ASSUME NEW m \in DOMAIN log', NEW n \in DOMAIN log', m < n
        PROVE  log'[m].action < log'[n].action
    <3>1. Len(log) \in Nat /\ DOMAIN log = 1 .. Len(log)
      BY <1>0, LogEntries
    <3>2. m \in DOMAIN log /\ (n \in DOMAIN log \/ n = Len(log) + 1)
      BY <2>3, <2>9, <3>1
    <3>3. QED
      BY <1>0, <2>1, <2>3, <2>9, <3>2 DEF LogInv
  <2>10. QED
    BY <2>1, <2>6, <2>7, <2>8, <2>9 DEF LogInv
<1>4. ASSUME NEW where \in {"execute", "log"}, RaisedAt(where)
      PROVE  LogInv'
  <2>1. InHand /\ ~InHand' /\ UNCHANGED <<trace, log>>
        /\ errors' = errors \cup {[action |-> now, at |-> where]}
    BY <1>4 DEF RaisedAt
  <2>2. now' = now /\ Known' = Known /\ Logged' = Logged /\ now \in 1 .. now
    BY <1>0, <2>1, ActionForm DEF now, Known, Logged, CurInv
  <2>3. Caught' = Caught \cup {now}
    <3> DEFINE x == [action |-> now, at |-> where]
    <3>1. errors' = errors \cup {x} /\ x.action = now
      BY <2>1
    <3> HIDE DEF x
    <3>2. QED
      BY <3>1 DEF Caught
  <2>4. Waiting = {now} /\ Waiting' = {}
    BY <2>1 DEF Waiting
  <2>5. Known' = Logged' \cup Caught' \cup Waiting'
    BY <1>0, <2>2, <2>3, <2>4 DEF LogInv
  <2>6. \A x \in errors' : x.action \in 1 .. now'
    BY <1>0, <2>1, <2>2 DEF LogInv
  <2>7. QED
    BY <1>0, <2>1, <2>2, <2>5, <2>6 DEF LogInv
<1>5. QED
  BY <1>1, <1>2, <1>3, <1>4, StepKinds

LEMMA CountStep ==
  ASSUME IInv, [Next]_vars
  PROVE  CountInv'
<1>0. TypeOK /\ CurInv /\ LogInv /\ CountInv
  BY DEF IInv
<1>1. /\ Held = IF InHand THEN 1 ELSE 0
      /\ Held' = IF InHand' THEN 1 ELSE 0
  BY DEF Held
<1> DEFINE total == Len(log) + Cardinality(errors)
<1>8. total + Held = Cardinality(Known)
  BY <1>0 DEF CountInv
<1>2. Len(log) \in Nat /\ Cardinality(errors) \in Nat /\ IsFiniteSet(errors)
  BY <1>0, LogEntries, FS_CardinalityType DEF TypeOK
<1>3. CASE NextAction
  <2>1. PICK e : TakesUp(e)
    BY <1>0, <1>3, NextActionTakes
  <2>2. /\ ~InHand /\ InHand' = (e.a.kind # "skipped") /\ UNCHANGED <<log, errors, counts>>
    BY <1>0, <1>3, <2>1, InHandTaken
  <2>3. /\ Known' = IF InHand' THEN Known \cup {now + 1} ELSE Known
        /\ now \in Nat /\ Known \in SUBSET (1 .. now)
    BY <1>0, <2>1, <2>2, KnownGrows
  <2>4. Cardinality(Known') = Cardinality(Known) + Held'
    <3>1. IsFiniteSet(1 .. now) /\ now + 1 \notin Known
      BY <2>3, FS_Interval
    <3>2. IsFiniteSet(Known) /\ Cardinality(Known) \in Nat
      BY <2>3, <3>1, FS_Subset, FS_CardinalityType
    <3>3. CASE InHand'
      BY <1>1, <2>3, <3>1, <3>2, <3>3, FS_AddElement
    <3>4. CASE ~InHand'
      BY <1>1, <2>3, <3>2, <3>4
    <3>5. QED
      BY <3>3, <3>4
  <2>5. total = Cardinality(Known)
    BY <1>1, <1>2, <1>8, <2>2
  <2>6. Len(log') + Cardinality(errors') + Held' = Cardinality(Known')
    BY <2>2, <2>4, <2>5
  <2>7. QED
    BY <1>0, <1>1, <2>2, <2>6 DEF CountInv
<1>4. CASE KeepsRecords
  <2>1. UNCHANGED <<trace, log, errors, counts>> /\ InHand' = InHand
    BY <1>4 DEF KeepsRecords
  <2>2. Known' = Known
    BY <2>1 DEF now, Known
  <2>3. Held' = Held
    BY <1>1, <2>1
  <2>4. QED
    BY <1>0, <2>1, <2>2, <2>3 DEF CountInv
<1>5. ASSUME NEW r \in Results, Recorded(r)
      PROVE  CountInv'
  <2>1. InHand /\ ~InHand' /\ UNCHANGED <<trace, errors>>
    BY <1>5 DEF Recorded
  <2>2. Known' = Known
    BY <2>1 DEF now, Known
  <2>3. /\ DOMAIN log' = DOMAIN log \cup {Len(log) + 1} /\ Len(log') = Len(log) + 1
        /\ Len(log) + 1 \notin DOMAIN log
        /\ \A n \in DOMAIN log : log'[n] = log[n]
        /\ log'[Len(log) + 1].res = r
        /\ DOMAIN log = 1 .. Len(log)
    BY <1>0, <1>5, RecordedIs, LogEntries
  <2>4. Len(log') + Cardinality(errors') + Held' = Cardinality(Known')
    <3>1. Held = 1 /\ Held' = 0
      BY <1>1, <2>1
    <3>2. QED
      BY <1>2, <1>8, <2>1, <2>2, <2>3, <3>1
  <2>5. r.attempted \in BOOLEAN /\ r.success \in BOOLEAN /\ r.continued \in BOOLEAN
    BY DEF Results
  <2>6. counts'.attempts = Cardinality({n \in DOMAIN log' : log'[n].res.attempted})
    <3> DEFINE S == {n \in DOMAIN log : log[n].res.attempted}
    <3> DEFINE T == {n \in DOMAIN log' : log'[n].res.attempted}
    <3>1. S \in SUBSET (1 .. Len(log))
      BY <2>3
    <3>2. T = IF r.attempted THEN S \cup {Len(log) + 1} ELSE S
      BY <2>3
    <3>3. Cardinality(T) = Cardinality(S) + One(r.attempted)
      <4> HIDE DEF S, T
      <4>1. QED
        BY <1>2, <2>5, <3>1, <3>2, CountOneMore
    <3>4. QED
      BY <1>0, <1>5, <3>3 DEF CountInv, Recorded
  <2>7. counts'.successes = Cardinality({n \in DOMAIN log' : log'[n].res.success})
    <3> DEFINE S == {n \in DOMAIN log : log[n].res.success}
    <3> DEFINE T == {n \in DOMAIN log' : log'[n].res.success}
    <3>1. S \in SUBSET (1 .. Len(log))
      BY <2>3
    <3>2. T = IF r.success THEN S \cup {Len(log) + 1} ELSE S
      BY <2>3
    <3>3. Cardinality(T) = Cardinality(S) + One(r.success)
      <4> HIDE DEF S, T
      <4>1. QED
        BY <1>2, <2>5, <3>1, <3>2, CountOneMore
    <3>4. QED
      BY <1>0, <1>5, <3>3 DEF CountInv, Recorded
  <2>8. counts'.continued = Cardinality({n \in DOMAIN log' : log'[n].res.continued})
    <3> DEFINE S == {n \in DOMAIN log : log[n].res.continued}
    <3> DEFINE T == {n \in DOMAIN log' : log'[n].res.continued}
    <3>1. S \in SUBSET (1 .. Len(log))
      BY <2>3
    <3>2. T = IF r.continued THEN S \cup {Len(log) + 1} ELSE S
      BY <2>3
    <3>3. Cardinality(T) = Cardinality(S) + One(r.continued)
      <4> HIDE DEF S, T
      <4>1. QED
        BY <1>2, <2>5, <3>1, <3>2, CountOneMore
    <3>4. QED
      BY <1>0, <1>5, <3>3 DEF CountInv, Recorded
  <2>9. counts'.mismatches = Cardinality({n \in DOMAIN log' : log'[n].res.reason # "none"})
    <3> DEFINE S == {n \in DOMAIN log : log[n].res.reason # "none"}
    <3> DEFINE T == {n \in DOMAIN log' : log'[n].res.reason # "none"}
    <3> DEFINE b == r.reason # "none"
    <3>1. S \in SUBSET (1 .. Len(log)) /\ b \in BOOLEAN
      BY <2>3
    <3>2. T = IF b THEN S \cup {Len(log) + 1} ELSE S
      BY <2>3
    <3>3. Cardinality(T) = Cardinality(S) + One(b)
      <4> HIDE DEF S, T, b
      <4>1. QED
        BY <1>2, <3>1, <3>2, CountOneMore
    <3>4. QED
      BY <1>0, <1>5, <3>3 DEF CountInv, Recorded
  <2>10. counts'.unresolved =
           Cardinality({n \in DOMAIN log' : log'[n].res.reason # "none" /\ ~log'[n].res.continued})
    <3> DEFINE S == {n \in DOMAIN log : log[n].res.reason # "none" /\ ~log[n].res.continued}
    <3> DEFINE T == {n \in DOMAIN log' : log'[n].res.reason # "none" /\ ~log'[n].res.continued}
    <3> DEFINE b == r.reason # "none" /\ ~r.continued
    <3>1. S \in SUBSET (1 .. Len(log)) /\ b \in BOOLEAN
      BY <2>3
    <3>2. T = IF b THEN S \cup {Len(log) + 1} ELSE S
      BY <2>3
    <3>3. Cardinality(T) = Cardinality(S) + One(b)
      <4> HIDE DEF S, T, b
      <4>1. QED
        BY <1>2, <3>1, <3>2, CountOneMore
    <3>4. QED
      BY <1>0, <1>5, <3>3 DEF CountInv, Recorded
  <2>11. QED
    BY <2>4, <2>6, <2>7, <2>8, <2>9, <2>10 DEF CountInv
<1>6. ASSUME NEW where \in {"execute", "log"}, RaisedAt(where)
      PROVE  CountInv'
  <2>1. InHand /\ ~InHand' /\ UNCHANGED <<trace, log, counts>>
        /\ errors' = errors \cup {[action |-> now, at |-> where]}
    BY <1>6 DEF RaisedAt
  <2>2. Known' = Known
    BY <2>1 DEF now, Known
  <2>3. [action |-> now, at |-> where] \notin errors
    BY <1>0, <2>1, TraceEntries DEF LogInv
  <2>4. Cardinality(errors') = Cardinality(errors) + 1
    BY <1>2, <2>1, <2>3, FS_AddElement
  <2>5. Held = 1 /\ Held' = 0
    BY <1>1, <2>1
  <2>6. Len(log') + Cardinality(errors') + Held' = Cardinality(Known')
    BY <1>2, <1>8, <2>1, <2>2, <2>4, <2>5
  <2>7. QED
    BY <1>0, <2>1, <2>6 DEF CountInv
<1>7. QED
  BY <1>3, <1>4, <1>5, <1>6, StepKinds
-----------------------------------------------------------------------------
(* The source's roots and checkpoints.                                     *)

LEMMA OnlyNextActionReads ==
  ASSUME [Next]_vars
  PROVE  /\ UNCHANGED container
         /\ NextAction \/ UNCHANGED <<trace, base>>
  BY DEF Next, vars, NextAction, ReplayLlm, ReplayFromTrace, ArtifactUnavailable,
         ExecuteInContainer, CompareAtBoundary, NoBoundary, NothingToRestore, BeginRestore,
         RestoreNext, RestoreDone, ReapplyNext, ReapplyDone, VerifyRestore, LogAction, Finish

LEMMA SamePast ==
  ASSUME TypeOK, NEW e, TakesUp(e)
  PROVE  /\ now \in Nat /\ now' = now + 1 /\ trace'[now + 1] = e /\ e \in Entries
         /\ \A i \in 1 .. now :
              /\ i \in 1 .. now' /\ trace'[i] = trace[i]
              /\ HasCheckpoint(i)' = HasCheckpoint(i) /\ IsPoint(i)' = IsPoint(i)
              /\ Lost(i)' = Lost(i) /\ KeptUpTo(i)' = KeptUpTo(i)
         /\ \A i \in 0 .. now : \A j : IsLastPoint(j, i)' = IsLastPoint(j, i)
         /\ \A i \in 1 .. now' : i \in 1 .. now \/ i = now + 1
<1>1. /\ now \in Nat /\ now' = now + 1 /\ trace'[now + 1] = e /\ e \in Entries
      /\ \A i \in 1 .. now : trace'[i] = trace[i]
  BY TraceEntries DEF TakesUp
<1>2. \A i \in 1 .. now : i \in 1 .. now'
  BY <1>1
<1>3. \A i \in 1 .. now : HasCheckpoint(i)' = HasCheckpoint(i) /\ IsPoint(i)' = IsPoint(i)
                          /\ Lost(i)' = Lost(i)
  BY <1>1 DEF HasCheckpoint, IsPoint, Lost
<1>4. ASSUME NEW i \in 1 .. now PROVE KeptUpTo(i)' = KeptUpTo(i)
  <2>1. \A k \in 1 .. i : k \in 1 .. now
    BY <1>1
  <2>2. QED
    BY <1>1, <1>3, <2>1 DEF KeptUpTo
<1>5. ASSUME NEW i \in 0 .. now, NEW j PROVE IsLastPoint(j, i)' = IsLastPoint(j, i)
  <2>1. \A k \in 1 .. i : k \in 1 .. now
    BY <1>1
  <2>2. ASSUME NEW m \in 1 .. i PROVE \A k \in m + 1 .. i : k \in 1 .. now
    BY <1>1
  <2>3. QED
    BY <1>3, <2>1, <2>2 DEF IsLastPoint
<1>6. QED
  BY <1>1, <1>2, <1>3, <1>4, <1>5

LEMMA NothingWritten ==
  ASSUME NEW files \in Files, NEW a, ActionShape(a), a.kind # "tool"
  PROVE  Written(files, a.writes) = files
<1>1. a.writes = NoWrite /\ DOMAIN NoWrite = {}
  BY DEF ActionShape, NoWrite
<1>2. QED
  BY <1>1 DEF Written, Files

LEMMA SourceStep ==
  ASSUME IInv, [Next]_vars
  PROVE  SourceInv'
<1>0. TypeOK /\ SourceInv
  BY DEF IInv
<1>1. CASE UNCHANGED trace
  BY <1>0, <1>1 DEF SourceInv, now
<1>2. CASE NextAction
  <2>1. PICK e : TakesUp(e)
    BY <1>0, <1>2, NextActionTakes
  <2>2. /\ now \in Nat /\ now' = now + 1 /\ trace'[now + 1] = e /\ e \in Entries
        /\ \A i \in 1 .. now : trace'[i] = trace[i]
    BY <1>0, <2>1, SamePast
  <2>3. e.root = Written(SourceRoot, e.a.writes) /\ SourceRoot \in Files /\ ActionShape(e.a)
    BY <1>0, <2>1, <2>2, SourceRootType, EntryForm DEF TakesUp
  <2>4. now > 0 => SourceRoot = trace[now].root
    BY <2>2 DEF SourceRoot
  <2>5. ASSUME NEW i \in 2 .. now'
        PROVE  trace'[i].root = Written(trace'[i - 1].root, trace'[i].a.writes)
    <3>1. i - 1 \in 1 .. now
      BY <2>2
    <3>2. CASE i \in 2 .. now
      BY <1>0, <2>2, <3>1, <3>2 DEF SourceInv
    <3>3. CASE i = now + 1
      BY <2>2, <2>3, <2>4, <3>1, <3>3
    <3>4. QED
      BY <2>2, <3>2, <3>3
  <2>6. ASSUME NEW i \in 1 .. now', NEW j \in 1 .. now', i <= j,
               \A k \in i + 1 .. j : trace'[k].a.kind # "tool"
        PROVE  trace'[i].root = trace'[j].root
    <3>1. CASE j \in 1 .. now
      <4>1. i \in 1 .. now /\ \A k \in i + 1 .. j : k \in 1 .. now
        BY <2>2, <2>6, <3>1
      <4>2. QED
        BY <1>0, <2>2, <2>6, <3>1, <4>1 DEF SourceInv
    <3>2. CASE j = now + 1 /\ i = j
      BY <3>2
    <3>3. CASE j = now + 1 /\ i # j
      <4>1. i \in 1 .. now /\ now \in 1 .. now /\ j \in i + 1 .. j
        BY <2>2, <2>6, <3>3
      <4>2. e.root = trace[now].root
        BY <2>2, <2>3, <2>4, <2>6, <3>3, <4>1, NothingWritten
      <4>3. \A k \in i + 1 .. now : k \in 1 .. now /\ k \in i + 1 .. j
        BY <2>2, <3>3
      <4>4. trace[i].root = trace[now].root
        <5>1. \A k \in i + 1 .. now : trace[k].a.kind # "tool"
          BY <2>2, <2>6, <4>3
        <5>2. i <= now
          BY <2>2, <4>1
        <5>3. QED
          BY <1>0, <4>1, <5>1, <5>2 DEF SourceInv
      <4>5. QED
        BY <2>2, <3>3, <4>1, <4>2, <4>4
    <3>4. QED
      BY <2>2, <3>1, <3>2, <3>3
  <2>7. now' > 0 => trace'[1].root = Written(Image, trace'[1].a.writes)
    <3>1. CASE now = 0
      BY <2>2, <2>3, <3>1 DEF SourceRoot
    <3>2. CASE now > 0
      <4>1. 1 \in 1 .. now
        BY <2>2, <3>2
      <4>2. QED
        BY <1>0, <2>2, <3>2, <4>1 DEF SourceInv
    <3>3. QED
      BY <2>2, <3>1, <3>2
  <2>8. QED
    BY <2>5, <2>6, <2>7 DEF SourceInv
<1>3. QED
  BY <1>1, <1>2, OnlyNextActionReads

\* What is read next, and the base it leaves.
LEMMA TakenCkpt ==
  ASSUME IInv, NEW e, TakesUp(e)
  PROVE  /\ e.ckpt.kind # "none" \/ e.lost => e.a.kind = "tool"
         /\ e.lost => e.ckpt.kind = "none"
         /\ e.ckpt.kind # "none" /\ ~e.a.lane =>
              \/ Made(e.ckpt) = FullCheckpoint(e.root)
              \/ base.main # NoBase /\ Made(e.ckpt) = Incremental(e.root, base.main)
         /\ ~e.a.lane /\ (e.ckpt.kind # "none" \/ e.lost) => base'.main = e.root
         /\ e.a.lane \/ (e.ckpt.kind = "none" /\ ~e.lost) => base'.main = base.main
         /\ e.lost \/ e.ckpt.gone => faults' > 0
         /\ faults' >= faults
<1>0. TypeOK /\ e \in Entries
  BY DEF IInv, TakesUp
<1>1. e.root \in Files /\ e.a.lane \in BOOLEAN /\ e.ckpt \in Ckpts /\ e.lost \in BOOLEAN
  BY <1>0, EntryForm DEF ActionShape
<1>2. base \in [main : Files \cup {NoBase}, lane : Files \cup {NoBase}] /\ faults \in Nat
  BY <1>0 DEF TypeOK
<1>3. NoCheckpoint.kind = "none" /\ ~NoCheckpoint.gone
  BY DEF NoCheckpoint
<1>4. CASE e.ckpt = NoCheckpoint /\ ~e.lost /\ UNCHANGED <<base, faults>>
  BY <1>2, <1>3, <1>4
<1>5. CASE /\ base' = [base EXCEPT ![Agent(e.a)] = e.root]
           /\ \E c \in CheckpointOf(e.a, e.root, base[Agent(e.a)]) :
                \/ e.ckpt = c /\ ~e.lost /\ UNCHANGED faults
                \/ e.ckpt = [c EXCEPT !.gone = TRUE] /\ ~e.lost /\ Fault
                \/ e.ckpt = NoCheckpoint /\ e.lost /\ Fault
  <2>1. PICK c \in CheckpointOf(e.a, e.root, base[Agent(e.a)]) :
                \/ e.ckpt = c /\ ~e.lost /\ UNCHANGED faults
                \/ e.ckpt = [c EXCEPT !.gone = TRUE] /\ ~e.lost /\ Fault
                \/ e.ckpt = NoCheckpoint /\ e.lost /\ Fault
    BY <1>5
  <2>2. /\ c \in Ckpts /\ c.kind # "none" /\ ~c.gone /\ e.a.kind = "tool"
        /\ \/ c = FullCheckpoint(e.root)
           \/ base[Agent(e.a)] # NoBase /\ c = Incremental(e.root, base[Agent(e.a)])
    <3> DEFINE since == base[Agent(e.a)]
    <3> DEFINE a == e.a
    <3> DEFINE files == e.root
    <3>1. files \in Files /\ c \in CheckpointOf(a, files, since)
      BY <1>1
    <3> HIDE DEF since, a, files
    <3>2. /\ c \in Ckpts /\ c.kind # "none" /\ ~c.gone /\ a.kind = "tool"
          /\ c = FullCheckpoint(files) \/ (since # NoBase /\ c = Incremental(files, since))
      BY <3>1, CheckpointType
    <3>3. QED
      BY <3>2 DEF since, a, files
  <2>3. c.gone = FALSE
    BY <2>2 DEF Ckpts
  <2>4. /\ [c EXCEPT !.gone = TRUE].kind = c.kind
        /\ [c EXCEPT !.gone = TRUE].gone
        /\ Made(c) = c /\ Made([c EXCEPT !.gone = TRUE]) = c
    BY <2>2, <2>3 DEF Ckpts, Made
  <2>5. /\ ~e.a.lane => base[Agent(e.a)] = base.main /\ base'.main = e.root
        /\ e.a.lane => base'.main = base.main
    BY <1>1, <1>2, <1>5 DEF Agent
  <2>6. Fault => faults' > 0 /\ faults' >= faults
    BY <1>2 DEF Fault
  <2>7. CASE e.ckpt = c /\ ~e.lost /\ UNCHANGED faults
    BY <1>2, <2>2, <2>3, <2>4, <2>5, <2>7
  <2>8. CASE e.ckpt = [c EXCEPT !.gone = TRUE] /\ ~e.lost /\ Fault
    BY <2>2, <2>4, <2>5, <2>6, <2>8
  <2>9. CASE e.ckpt = NoCheckpoint /\ e.lost /\ Fault
    BY <1>3, <2>2, <2>5, <2>6, <2>9
  <2>10. QED
    BY <2>1, <2>7, <2>8, <2>9
<1>6. QED
  BY <1>4, <1>5 DEF TakesUp, Taken

LEMMA CkptStep ==
  ASSUME IInv, [Next]_vars
  PROVE  CkptInv'
<1>0. TypeOK /\ CkptInv /\ BaseInv
  BY DEF IInv
<1>1. CASE UNCHANGED trace
  BY <1>0, <1>1 DEF CkptInv, now, HasCheckpoint, IsLastPoint, IsPoint
<1>2. CASE NextAction
  <2>1. PICK e : TakesUp(e)
    BY <1>0, <1>2, NextActionTakes
  <2> PICK n \in Nat : n = now
    BY <1>0, TraceEntries
  <2>2. /\ n \in Nat /\ now = n /\ now' = n + 1 /\ trace'[n + 1] = e /\ e \in Entries
        /\ \A i \in 1 .. n : trace'[i] = trace[i] /\ HasCheckpoint(i)' = HasCheckpoint(i)
        /\ \A i \in 0 .. n : \A j : IsLastPoint(j, i)' = IsLastPoint(j, i)
    BY <1>0, <2>1, SamePast
  <2>3. ASSUME NEW i \in 1 .. n
        PROVE  /\ HasCheckpoint(i)' => trace'[i].a.kind = "tool"
               /\ trace'[i].lost => ~HasCheckpoint(i)'
               /\ HasCheckpoint(i)' /\ ~trace'[i].a.lane =>
                    \/ Made(trace'[i].ckpt) = FullCheckpoint(trace'[i].root)
                    \/ \E j \in 1 .. i - 1 :
                         /\ IsLastPoint(j, i - 1)'
                         /\ Made(trace'[i].ckpt) = Incremental(trace'[i].root, trace'[j].root)
    <3>1. trace'[i] = trace[i] /\ HasCheckpoint(i)' = HasCheckpoint(i)
      BY <2>2
    <3>2. CASE HasCheckpoint(i) /\ ~trace[i].a.lane /\ Made(trace[i].ckpt) # FullCheckpoint(trace[i].root)
      <4>1. PICK j \in 1 .. i - 1 :
              /\ IsLastPoint(j, i - 1)
              /\ Made(trace[i].ckpt) = Incremental(trace[i].root, trace[j].root)
        BY <1>0, <3>2 DEF CkptInv
      <4>2. i - 1 \in 0 .. n /\ j \in 1 .. n
        BY <2>2
      <4>3. IsLastPoint(j, i - 1)' /\ trace'[j] = trace[j]
        BY <2>2, <4>1, <4>2
      <4>4. QED
        BY <1>0, <3>1, <4>1, <4>3 DEF CkptInv
    <3>3. CASE ~(HasCheckpoint(i) /\ ~trace[i].a.lane /\ Made(trace[i].ckpt) # FullCheckpoint(trace[i].root))
      BY <1>0, <3>1, <3>3 DEF CkptInv
    <3>4. QED
      BY <3>2, <3>3
  <2>4. HasCheckpoint(n + 1)' = (e.ckpt.kind # "none")
    BY <2>2 DEF HasCheckpoint
  <2>5. /\ e.ckpt.kind # "none" \/ e.lost => e.a.kind = "tool"
        /\ e.lost => e.ckpt.kind = "none"
        /\ e.ckpt.kind # "none" /\ ~e.a.lane =>
              \/ Made(e.ckpt) = FullCheckpoint(e.root)
              \/ base.main # NoBase /\ Made(e.ckpt) = Incremental(e.root, base.main)
    BY <2>1, TakenCkpt
  <2>6. ASSUME base.main # NoBase
        PROVE  \E j \in 1 .. n : IsLastPoint(j, n)' /\ base.main = trace'[j].root
    <3>1. PICK j \in 1 .. n : IsLastPoint(j, n) /\ base.main = trace[j].root
      BY <1>0, <2>6 DEF BaseInv
    <3>2. n \in 0 .. n
      BY <2>2
    <3>3. IsLastPoint(j, n)' = IsLastPoint(j, n)
      BY <2>2, <3>2
    <3>4. QED
      BY <2>2, <3>1, <3>3
  <2>7. (n + 1) - 1 = n
    BY <2>2
  <2>8. e.ckpt.kind # "none" /\ ~e.a.lane =>
           \/ Made(e.ckpt) = FullCheckpoint(e.root)
           \/ \E j \in 1 .. (n + 1) - 1 :
                         /\ IsLastPoint(j, (n + 1) - 1)'
                         /\ Made(e.ckpt) = Incremental(e.root, trace'[j].root)
    BY <2>2, <2>5, <2>6, <2>7
  <2>9. \A i \in 1 .. now' : i \in 1 .. n \/ i = n + 1
    BY <2>2
  <2>10. /\ HasCheckpoint(n + 1)' => trace'[n + 1].a.kind = "tool"
         /\ trace'[n + 1].lost => ~HasCheckpoint(n + 1)'
         /\ HasCheckpoint(n + 1)' /\ ~trace'[n + 1].a.lane =>
              \/ Made(trace'[n + 1].ckpt) = FullCheckpoint(trace'[n + 1].root)
              \/ \E j \in 1 .. (n + 1) - 1 :
                    /\ IsLastPoint(j, (n + 1) - 1)'
                    /\ Made(trace'[n + 1].ckpt) = Incremental(trace'[n + 1].root, trace'[j].root)
    BY <2>2, <2>4, <2>5, <2>8
  <2>11. QED
    BY <2>3, <2>9, <2>10 DEF CkptInv
<1>3. QED
  BY <1>1, <1>2, OnlyNextActionReads

LEMMA BaseStep ==
  ASSUME IInv, [Next]_vars
  PROVE  BaseInv'
<1>0. TypeOK /\ BaseInv
  BY DEF IInv
<1>1. CASE UNCHANGED <<trace, base>>
  BY <1>0, <1>1 DEF BaseInv, now, HasCheckpoint, IsLastPoint, IsPoint
<1>2. CASE NextAction
  <2>1. PICK e : TakesUp(e)
    BY <1>0, <1>2, NextActionTakes
  <2> PICK n \in Nat : n = now
    BY <1>0, TraceEntries
  <2>2. /\ n \in Nat /\ now = n /\ now' = n + 1 /\ trace'[n + 1] = e /\ e \in Entries
        /\ \A i \in 1 .. n : trace'[i] = trace[i] /\ IsPoint(i)' = IsPoint(i)
    BY <1>0, <2>1, SamePast
  <2>3. /\ ~e.a.lane /\ (e.ckpt.kind # "none" \/ e.lost) => base'.main = e.root
        /\ e.a.lane \/ (e.ckpt.kind = "none" /\ ~e.lost) => base'.main = base.main
    BY <2>1, TakenCkpt
  <2>4. IsPoint(n + 1)' <=> (~e.a.lane /\ (e.ckpt.kind # "none" \/ e.lost))
    BY <2>2 DEF IsPoint, HasCheckpoint
  <2>5. CASE IsPoint(n + 1)'
    <3>1. base'.main = trace'[n + 1].root /\ n + 1 \in 1 .. now'
      BY <2>2, <2>3, <2>4, <2>5
    <3>2. IsLastPoint(n + 1, now)'
      BY <2>2, <2>5, <3>1 DEF IsLastPoint
    <3>3. QED
      BY <3>1, <3>2 DEF BaseInv
  <2>6. CASE ~IsPoint(n + 1)'
    <3>1. base'.main = base.main
      BY <2>2, <2>3, <2>4, <2>6, EntryForm DEF ActionShape
    <3>2. CASE base.main = NoBase /\ \A i \in 1 .. n : ~IsPoint(i)
      <4>1. \A i \in 1 .. now' : ~IsPoint(i)'
        BY <2>2, <2>6, <3>2
      <4>2. QED
        BY <3>1, <3>2, <4>1 DEF BaseInv
    <3>3. ASSUME NEW j \in 1 .. n, IsLastPoint(j, n), base.main = trace[j].root
          PROVE  BaseInv'
      <4>1. IsPoint(j)' /\ \A k \in j + 1 .. now' : ~IsPoint(k)'
        BY <2>2, <2>6, <3>3 DEF IsLastPoint
      <4>2. j \in 1 .. now' /\ IsLastPoint(j, now)' /\ base'.main = trace'[j].root
        BY <2>2, <3>1, <3>3, <4>1 DEF IsLastPoint
      <4>3. QED
        BY <4>2 DEF BaseInv
    <3>4. QED
      BY <1>0, <3>2, <3>3 DEF BaseInv
  <2>7. QED
    BY <2>5, <2>6
<1>3. QED
  BY <1>1, <1>2, OnlyNextActionReads

LEMMA MadeKind ==
  ASSUME NEW c \in Ckpts
  PROVE  /\ Made(c).kind = c.kind /\ Made(c).files = c.files /\ Made(c).deleted = c.deleted
         /\ ~c.gone => Made(c) = c
  BY DEF Ckpts, Made

LEMMA KindsMade ==
  ASSUME NEW files, NEW since
  PROVE  /\ FullCheckpoint(files).kind = "full" /\ FullCheckpoint(files).files = Present(files)
         /\ FullCheckpoint(files).deleted = {}
         /\ Incremental(files, since).kind = "incremental"
         /\ Incremental(files, since).files =
              [p \in {q \in Paths : files[q] \notin {Absent, since[q]}} |-> files[p]]
         /\ Incremental(files, since).deleted =
              {p \in Paths : files[p] = Absent /\ since[p] # Absent}
  BY DEF FullCheckpoint, Incremental, NoCheckpoint

LEMMA FullStep ==
  ASSUME IInv, [Next]_vars
  PROVE  FullInv'
<1>0. TypeOK /\ FullInv /\ BaseInv
  BY DEF IInv
<1>1. CASE UNCHANGED trace
  BY <1>0, <1>1 DEF FullInv, now, HasCheckpoint, KeptUpTo, Lost
<1>2. CASE NextAction
  <2>1. PICK e : TakesUp(e)
    BY <1>0, <1>2, NextActionTakes
  <2> PICK n \in Nat : n = now
    BY <1>0, TraceEntries
  <2>2. /\ n \in Nat /\ now = n /\ now' = n + 1 /\ trace'[n + 1] = e /\ e \in Entries
        /\ \A i \in 1 .. n : /\ trace'[i] = trace[i] /\ HasCheckpoint(i)' = HasCheckpoint(i)
                               /\ KeptUpTo(i)' = KeptUpTo(i) /\ Lost(i)' = Lost(i)
    BY <1>0, <2>1, SamePast
  <2>3. ASSUME NEW i \in 1 .. n, HasCheckpoint(i)', ~trace'[i].a.lane, KeptUpTo(i)'
        PROVE  \E k \in 1 .. i : trace'[k].ckpt.kind = "full" /\ ~trace'[k].a.lane
    <3>1. PICK k \in 1 .. i : trace[k].ckpt.kind = "full" /\ ~trace[k].a.lane
      BY <1>0, <2>2, <2>3 DEF FullInv
    <3>2. k \in 1 .. n
      BY <2>2
    <3>3. QED
      BY <2>2, <3>1, <3>2
  <2>4. ASSUME e.ckpt.kind # "none", ~e.a.lane, KeptUpTo(n + 1)'
        PROVE  \E k \in 1 .. n + 1 : trace'[k].ckpt.kind = "full" /\ ~trace'[k].a.lane
    <3>1. e.ckpt \in Ckpts
      BY <2>2, EntryForm
    <3>2. \/ Made(e.ckpt) = FullCheckpoint(e.root)
          \/ base.main # NoBase
      BY <2>1, <2>4, TakenCkpt
    <3>3. CASE Made(e.ckpt) = FullCheckpoint(e.root)
      <4>1. e.ckpt.kind = "full"
        <5>1. Made(e.ckpt).kind = e.ckpt.kind
          BY <3>1, MadeKind
        <5>2. QED
          BY <3>3, <5>1, KindsMade
      <4>2. n + 1 \in 1 .. n + 1
        BY <2>2
      <4>3. QED
        BY <2>2, <2>4, <4>1, <4>2
    <3>4. CASE base.main # NoBase
      <4>1. PICK j \in 1 .. n : IsLastPoint(j, n)
        BY <1>0, <3>4 DEF BaseInv
      <4>2. IsPoint(j) /\ \A k \in 1 .. j : k \in 1 .. n + 1 /\ k \in 1 .. n
        BY <2>2, <4>1 DEF IsLastPoint
      <4>3. ~trace[j].a.lane /\ KeptUpTo(j)
        BY <2>2, <2>4, <4>2 DEF KeptUpTo, IsPoint
      <4>4. ~Lost(j) /\ j \in 1 .. j
        BY <2>2, <4>3 DEF KeptUpTo
      <4>5. HasCheckpoint(j)
        BY <4>2, <4>4 DEF IsPoint, Lost
      <4>6. PICK k \in 1 .. j : trace[k].ckpt.kind = "full" /\ ~trace[k].a.lane
        BY <1>0, <4>3, <4>5 DEF FullInv
      <4>7. QED
        BY <2>2, <4>2, <4>6
    <3>5. QED
      BY <3>2, <3>3, <3>4
  <2>5. HasCheckpoint(n + 1)' = (e.ckpt.kind # "none")
    BY <2>2 DEF HasCheckpoint
  <2>6. \A i \in 1 .. now' : i \in 1 .. n \/ i = n + 1
    BY <2>2
  <2>7. HasCheckpoint(n + 1)' /\ ~trace'[n + 1].a.lane /\ KeptUpTo(n + 1)' =>
          \E k \in 1 .. n + 1 : trace'[k].ckpt.kind = "full" /\ ~trace'[k].a.lane
    BY <2>2, <2>4, <2>5
  <2>8. QED
    BY <2>3, <2>6, <2>7 DEF FullInv
<1>3. QED
  BY <1>1, <1>2, OnlyNextActionReads
-----------------------------------------------------------------------------
(* What is folded.                                                         *)

LEMMA FoldOfFull ==
  ASSUME NEW c \in Ckpts, NEW files, NEW entries, ~c.gone, Made(c) = FullCheckpoint(files)
  PROVE  Fold(entries, c) = Present(files)
<1>1. c.kind = "full" /\ c.files = Present(files)
  <2>1. Made(c).kind = c.kind /\ Made(c).files = c.files
    BY MadeKind
  <2>2. QED
    BY <2>1, KindsMade
<1>2. QED
  BY <1>1 DEF Fold

LEMMA FoldOfIncremental ==
  ASSUME NEW c \in Ckpts, NEW files, NEW since,
         ~c.gone, Made(c) = Incremental(files, since)
  PROVE  Fold(Present(since), c) = Present(files)
<1> DEFINE written == {q \in Paths : files[q] \notin {Absent, since[q]}}
<1> DEFINE deleted == {p \in Paths : files[p] = Absent /\ since[p] # Absent}
<1>1. /\ c.kind = "incremental" /\ c.files = [p \in written |-> files[p]]
      /\ c.deleted = deleted
  BY MadeKind, KindsMade
<1>2. DOMAIN Present(since) = {q \in Paths : since[q] # Absent}
      /\ DOMAIN c.files = written
  BY <1>1 DEF Present
<1>3. Fold(Present(since), c) =
        [p \in (DOMAIN Present(since) \cup DOMAIN c.files) \ c.deleted |->
           IF p \in DOMAIN c.files THEN c.files[p] ELSE Present(since)[p]]
  BY <1>1 DEF Fold
<1>4. (DOMAIN Present(since) \cup DOMAIN c.files) \ c.deleted = {q \in Paths : files[q] # Absent}
  BY <1>1, <1>2
<1>5. ASSUME NEW p \in Paths, files[p] # Absent
      PROVE  (IF p \in DOMAIN c.files THEN c.files[p] ELSE Present(since)[p]) = files[p]
  <2>1. CASE p \in written
    BY <1>1, <2>1
  <2>2. CASE p \notin written
    <3>1. since[p] = files[p] /\ p \in DOMAIN Present(since)
      BY <1>2, <1>5, <2>2
    <3>2. Present(since)[p] = since[p]
      BY <1>2, <3>1 DEF Present
    <3>3. QED
      BY <1>2, <2>2, <3>1, <3>2
  <2>3. QED
    BY <2>1, <2>2
<1>6. QED
  BY <1>3, <1>4, <1>5 DEF Present

LEMMA BaseAtCheckpoint ==
  ASSUME TypeOK, BaseInv, now > 0, ~IsLane, HasCheckpoint(now)
  PROVE  base.main = trace[now].root
<1>1. now \in 1 .. now /\ IsPoint(now)
  BY ActionForm DEF IsPoint, IsLane, action
<1>2. PICK j \in 1 .. now : IsLastPoint(j, now) /\ base.main = trace[j].root
  BY <1>1 DEF BaseInv
<1>3. j = now
  <2>1. \A k \in j + 1 .. now : ~IsPoint(k)
    BY <1>2 DEF IsLastPoint
  <2>2. now \notin j + 1 .. now
    BY <1>1, <2>1
  <2>3. QED
    BY <1>1, <2>2
<1>4. QED
  BY <1>2, <1>3

LEMMA FoldQuiet ==
  ASSUME FoldInv, UNCHANGED <<container, trace, base, folded>>, errors \subseteq errors',
         Unfolded' <=> Unfolded
  PROVE  FoldInv'
<1>1. OnlyLogErrors' => OnlyLogErrors
  BY DEF OnlyLogErrors
<1>2. KeptUpTo(now)' = KeptUpTo(now) /\ now' = now
  BY DEF KeptUpTo, Lost, now
<1>3. \A j : IsPoint(j)' = IsPoint(j)
  BY DEF IsPoint, HasCheckpoint
<1>4. QED
  BY <1>1, <1>2, <1>3 DEF FoldInv

LEMMA FoldStep ==
  ASSUME IInv, [Next]_vars
  PROVE  FoldInv'
<1>0. TypeOK /\ CurInv /\ FoldInv /\ BaseInv /\ CkptInv
  BY DEF IInv
<1>1. CASE UNCHANGED vars
  BY <1>0, <1>1, FoldQuiet DEF vars, Unfolded, IsLane, action, HasCheckpoint, now
<1>2. CASE NextAction
  <2>1. PICK e : TakesUp(e)
    BY <1>0, <1>2, NextActionTakes
  <2> PICK n \in Nat : n = now
    BY <1>0, TraceEntries
  <2>2. /\ now' = n + 1 /\ trace'[n + 1] = e /\ e \in Entries
        /\ \A i \in 1 .. n : /\ trace'[i] = trace[i] /\ Lost(i)' = Lost(i)
                             /\ IsPoint(i)' = IsPoint(i)
    BY <1>0, <2>1, SamePast
  <2>3. UNCHANGED <<container, folded, errors>> /\ pc = "next"
    BY <1>2 DEF NextAction
  <2>4. SUFFICES ASSUME container, KeptUpTo(now)', OnlyLogErrors
                 PROVE  IF Unfolded' THEN Fold(folded, e.ckpt) = Present(e.root)
                        ELSE (\E j \in 1 .. n + 1 : IsPoint(j)') => folded = Present(base'.main)
    <3>1. OnlyLogErrors' = OnlyLogErrors
      BY <2>3 DEF OnlyLogErrors
    <3>2. trace'[now'] = e /\ now' = n + 1
      BY <2>2
    <3>3. Fold(folded, trace[now].ckpt)' = Fold(folded, e.ckpt)
      BY <2>3, <3>2 DEF Fold
    <3>4. Present(trace[now].root)' = Present(e.root) /\ Present(base.main)' = Present(base'.main)
      BY <3>2 DEF Present
    <3>5. QED
      BY <2>3, <3>1, <3>2, <3>3, <3>4 DEF FoldInv
  <2>5. KeptUpTo(n)
    <3>1. \A k \in 1 .. n : k \in 1 .. n + 1
      OBVIOUS
    <3>2. QED
      BY <2>2, <2>4, <3>1 DEF KeptUpTo
  <2>6. /\ (\E j \in 1 .. n : IsPoint(j)) => folded = Present(base.main)
        /\ base.main # NoBase => \E j \in 1 .. n : IsPoint(j)
    <3>1. ~Unfolded
      BY <2>3 DEF Unfolded
    <3>2. QED
      BY <1>0, <2>4, <2>5, <3>1 DEF FoldInv, BaseInv, IsLastPoint
  <2>7. ~e.a.lane => ~e.ckpt.gone /\ ~e.lost
    <3>1. n + 1 \in 1 .. n + 1
      OBVIOUS
    <3>2. QED
      BY <2>2, <2>4, <3>1 DEF KeptUpTo, Lost
  <2>8. e.a.lane \in BOOLEAN /\ e.ckpt \in Ckpts
    BY <2>2, EntryForm DEF ActionShape
  <2>9. Unfolded' <=> pc' = "execute" /\ ~e.a.lane /\ e.ckpt.kind # "none"
    <3>1. pc' \in {"next", "llm", "execute"}
      BY <2>1 DEF TakesUp
    <3>2. action' = e.a /\ (HasCheckpoint(now)' <=> e.ckpt.kind # "none")
      BY <2>2 DEF action, HasCheckpoint
    <3>3. QED
      BY <3>1, <3>2 DEF Unfolded, IsLane
  <2>10. CASE Unfolded'
    <3>1. \/ Made(e.ckpt) = FullCheckpoint(e.root)
          \/ base.main # NoBase /\ Made(e.ckpt) = Incremental(e.root, base.main)
      BY <2>1, <2>9, <2>10, TakenCkpt
    <3>2. Fold(folded, e.ckpt) = Present(e.root)
      BY <2>6, <2>7, <2>8, <2>9, <2>10, <3>1, FoldOfFull, FoldOfIncremental
    <3>3. QED
      BY <2>10, <3>2
  <2>11. CASE ~Unfolded'
    <3>1. e.ckpt.kind # "none" => pc' = "execute"
      <4>1. e.ckpt.kind # "none" => e.a.kind = "tool"
        BY <2>1, TakenCkpt
      <4>2. QED
        BY <2>1, <4>1 DEF TakesUp
    <3>2. e.a.lane \/ (e.ckpt.kind = "none" /\ ~e.lost)
      BY <2>7, <2>8, <2>9, <2>11, <3>1
    <3>3. base'.main = base.main
      BY <2>1, <3>2, TakenCkpt
    <3>4. ~IsPoint(n + 1)'
      BY <2>2, <3>2 DEF IsPoint, HasCheckpoint
    <3>5. (\E j \in 1 .. n + 1 : IsPoint(j)') => \E j \in 1 .. n : IsPoint(j)
      <4>1. \A j \in 1 .. n + 1 : j \in 1 .. n \/ j = n + 1
        OBVIOUS
      <4>2. QED
        BY <2>2, <3>4, <4>1
    <3>6. QED
      BY <2>6, <2>11, <3>3, <3>5
  <2>12. QED
    BY <2>10, <2>11
<1>3. CASE ExecuteInContainer
  <2>1. UNCHANGED <<container, trace, base, folded>> /\ pc = "execute"
        /\ ((pc' = "ran" /\ UNCHANGED errors) \/ Raised("execute"))
    BY <1>3 DEF ExecuteInContainer
  <2>2. CASE pc' = "ran" /\ UNCHANGED errors
    BY <1>0, <2>1, <2>2, FoldQuiet DEF Unfolded, IsLane, action, HasCheckpoint, now
  <2>3. CASE Raised("execute")
    <3> DEFINE x == [action |-> now, at |-> "execute"]
    <3>1. x \in errors' /\ x.at # "log"
      BY <2>3 DEF Raised
    <3>2. ~OnlyLogErrors'
      BY <3>1 DEF OnlyLogErrors
    <3>3. QED
      BY <3>2 DEF FoldInv
  <2>4. QED
    BY <2>1, <2>2, <2>3
<1>4. CASE CompareAtBoundary
  <2>1. /\ pc = "ran" /\ InStep /\ HasCheckpoint(now) /\ pc' \in {"sync", "log"}
        /\ folded' = Fold(folded, trace[now].ckpt)
        /\ UNCHANGED <<container, trace, base, errors>>
    BY <1>4 DEF CompareAtBoundary, Goes
  <2>2. Unfolded /\ ~Unfolded' /\ now > 0 /\ ~IsLane
    BY <1>0, <2>1 DEF Unfolded, InStep, IsLane, CurInv, InHand, InHandPCs
  <2>3. base.main = trace[now].root
    BY <1>0, <2>1, <2>2, BaseAtCheckpoint
  <2>4. now' = now /\ KeptUpTo(now)' = KeptUpTo(now) /\ OnlyLogErrors' = OnlyLogErrors
    BY <2>1 DEF now, KeptUpTo, Lost, OnlyLogErrors
  <2>5. container /\ KeptUpTo(now) /\ OnlyLogErrors => folded' = Present(base.main)
    BY <1>0, <2>1, <2>2, <2>3 DEF FoldInv
  <2>6. Present(base.main)' = Present(base.main)
    BY <2>1
  <2>7. QED
    BY <2>1, <2>2, <2>4, <2>5, <2>6 DEF FoldInv
<1>5. CASE NoBoundary
  <2>1. /\ pc = "ran" /\ ~(InStep /\ HasCheckpoint(now)) /\ pc' \in {"sync", "log"}
        /\ UNCHANGED <<container, trace, base, folded, errors>>
    BY <1>5 DEF NoBoundary, Goes
  <2>2. CASE container
    <3>1. ~Unfolded /\ ~Unfolded'
      BY <2>1, <2>2 DEF Unfolded, InStep, IsLane
    <3>2. QED
      BY <1>0, <2>1, <3>1, FoldQuiet
  <2>3. CASE ~container
    BY <2>1, <2>3 DEF FoldInv
  <2>4. QED
    BY <2>2, <2>3
<1>6. CASE ReplayFromTrace \/ ArtifactUnavailable
  <2>1. pc = "execute" /\ pc' = "ran" /\ UNCHANGED <<container, trace, base, folded, errors>>
    BY <1>6 DEF ReplayFromTrace, ArtifactUnavailable
  <2>2. Unfolded' <=> Unfolded
    BY <2>1 DEF Unfolded, IsLane, action, HasCheckpoint, now
  <2>3. QED
    BY <1>0, <2>1, <2>2, FoldQuiet
<1>7. CASE ReplayLlm \/ LogAction
  <2>1. /\ pc \notin {"execute", "ran"} /\ pc' \notin {"execute", "ran"}
        /\ UNCHANGED <<container, trace, base, folded>> /\ errors \subseteq errors'
    BY <1>7 DEF ReplayLlm, LogAction, Raised
  <2>2. QED
    BY <1>0, <2>1, FoldQuiet DEF Unfolded
<1>8. CASE NothingToRestore \/ BeginRestore \/ RestoreNext \/ RestoreDone
  <2>1. /\ pc \notin {"execute", "ran"} /\ pc' \notin {"execute", "ran"}
        /\ UNCHANGED <<container, trace, base, folded, errors>>
    BY <1>8 DEF NothingToRestore, BeginRestore, RestoreNext, RestoreDone
  <2>2. QED
    BY <1>0, <2>1, FoldQuiet DEF Unfolded
<1>9. CASE ReapplyNext \/ ReapplyDone \/ VerifyRestore \/ Finish
  <2>1. /\ pc \notin {"execute", "ran"} /\ pc' \notin {"execute", "ran"}
        /\ UNCHANGED <<container, trace, base, folded, errors>>
    BY <1>9 DEF ReapplyNext, ReapplyDone, VerifyRestore, Finish
  <2>2. QED
    BY <1>0, <2>1, FoldQuiet DEF Unfolded
<1>10. QED
  BY <1>1, <1>2, <1>3, <1>4, <1>5, <1>6, <1>7, <1>8, <1>9 DEF Next
-----------------------------------------------------------------------------
(* The forced sync.                                                        *)

LEMMA RestoreOfFull ==
  ASSUME NEW c \in Ckpts, NEW files \in Files, NEW before, Made(c) = FullCheckpoint(files)
  PROVE  RestoreOne(before, c) = files
<1>1. c.kind = "full" /\ c.files = Present(files)
  <2>1. Made(c).kind = c.kind /\ Made(c).files = c.files
    BY MadeKind
  <2>2. QED
    BY <2>1, KindsMade
<1>2. QED
  BY <1>1 DEF RestoreOne, Present, Files

LEMMA RestoreOfIncremental ==
  ASSUME NEW c \in Ckpts, NEW files \in Files, NEW since \in Files,
         Made(c) = Incremental(files, since)
  PROVE  RestoreOne(since, c) = files
<1> DEFINE written == {q \in Paths : files[q] \notin {Absent, since[q]}}
<1> DEFINE deleted == {p \in Paths : files[p] = Absent /\ since[p] # Absent}
<1>1. /\ c.kind = "incremental" /\ c.files = [p \in written |-> files[p]]
      /\ c.deleted = deleted
  BY MadeKind, KindsMade
<1>2. ASSUME NEW p \in Paths PROVE RestoreOne(since, c)[p] = files[p]
  BY <1>1 DEF RestoreOne
<1>3. RestoreOne(since, c) = [p \in Paths |-> RestoreOne(since, c)[p]]
  BY DEF RestoreOne
<1>4. files = [p \in Paths |-> files[p]]
  BY DEF Files
<1>5. QED
  BY <1>2, <1>3, <1>4

\* In a clean history the checkpoints are the agent's and all at hand.
LEMMA CleanCheckpoints ==
  ASSUME IInv, CleanHistory, NEW i \in 1 .. now
  PROVE  /\ trace[i].ckpt \in Ckpts /\ trace[i].root \in Files /\ ~trace[i].ckpt.gone
         /\ IsPoint(i) <=> HasCheckpoint(i)
         /\ HasCheckpoint(i) =>
              \/ Made(trace[i].ckpt) = FullCheckpoint(trace[i].root)
              \/ \E j \in 1 .. i - 1 :
                   /\ IsLastPoint(j, i - 1)
                   /\ Made(trace[i].ckpt) = Incremental(trace[i].root, trace[j].root)
<1>1. TypeOK /\ CkptInv
  BY DEF IInv
<1>2. trace[i].ckpt \in Ckpts /\ trace[i].root \in Files
  BY <1>1, TraceEntries, EntryForm
<1>3. ~Lost(i) /\ (HasCheckpoint(i) => ~trace[i].a.lane)
  BY DEF CleanHistory
<1>4. ~trace[i].ckpt.gone /\ (IsPoint(i) <=> HasCheckpoint(i))
  BY <1>3 DEF Lost, IsPoint
<1>5. QED
  BY <1>1, <1>2, <1>3, <1>4 DEF CkptInv

\* The chain starts with a full checkpoint and ends with the one to go back to.
LEMMA ChainEnds ==
  ASSUME TypeOK, ChainStart(Target) # 0
  PROVE  /\ now \in Nat /\ Target \in 1 .. now /\ ChainStart(Target) \in 1 .. Target
         /\ trace[ChainStart(Target)].ckpt.kind = "full"
         /\ ChainStart(Target) \in Chain(Target) /\ Target \in Chain(Target)
         /\ \A k \in Chain(Target) : /\ k \in 1 .. now /\ HasCheckpoint(k)
                                     /\ ChainStart(Target) <= k /\ k <= Target
<1> PICK t \in Nat : t = Target
  BY PositionSets, TraceEntries
<1>1. now \in Nat /\ t <= now
  BY PositionSets, TraceEntries
<1> DEFINE S == {i \in 1 .. now : HasCheckpoint(i)}
<1> DEFINE F == {i \in 1 .. t : trace[i].ckpt.kind = "full"}
<1>2. S \in SUBSET (1 .. now) /\ F \in SUBSET (1 .. t) /\ t = Latest(S) /\ ChainStart(t) = Latest(F)
  BY DEF Target, ChainStart
<1>3. F # {} /\ Latest(F) \in F
  <2> HIDE DEF F, S
  <2>1. QED
    BY <1>2, LatestIs
<1>4. Latest(F) # 0 /\ Latest(F) \in 1 .. t /\ trace[Latest(F)].ckpt.kind = "full"
  BY <1>2, <1>3
<1>5. S # {} /\ Latest(S) \in S
  <2>1. Latest(S) # 0
    BY <1>1, <1>2, <1>4
  <2> HIDE DEF F, S
  <2>2. QED
    BY <1>1, <1>2, <2>1, LatestIs
<1>6. HasCheckpoint(t) /\ t \in 1 .. now
  BY <1>2, <1>5
<1>7. HasCheckpoint(ChainStart(t)) /\ ChainStart(t) \in 1 .. t
  BY <1>2, <1>4 DEF HasCheckpoint
<1>8. trace[ChainStart(t)].ckpt.kind = "full"
  BY <1>2, <1>4
<1>9. Chain(t) = {i \in ChainStart(t) .. t : HasCheckpoint(i)}
  BY DEF Chain
<1>10. ChainStart(t) \in Chain(t) /\ t \in Chain(t)
  BY <1>6, <1>7, <1>9
<1>11. \A k \in Chain(t) : k \in 1 .. now /\ HasCheckpoint(k) /\ ChainStart(t) <= k /\ k <= t
  BY <1>1, <1>7, <1>9
<1>12. QED
  BY <1>1, <1>6, <1>7, <1>8, <1>10, <1>11

\* A checkpoint of the chain puts the root where the source was when it was made.
LEMMA RestoreInStep ==
  ASSUME IInv, CleanHistory, pc = "restore",
         NEW n \in cur.left, \A m \in cur.left : n <= m
  PROVE  /\ RestoreOne(root, trace[n].ckpt) = trace[n].root
         /\ n \in Chain(Target) /\ Behind(Chain(Target), cur.left \ {n}, n)
<1>1. TypeOK /\ cur.left \subseteq Chain(Target) /\ ChainStart(Target) # 0
  BY DEF IInv, SyncInv
<1>2. /\ now \in Nat /\ Target \in 1 .. now /\ ChainStart(Target) \in 1 .. Target
      /\ trace[ChainStart(Target)].ckpt.kind = "full"
      /\ ChainStart(Target) \in Chain(Target)
      /\ \A k \in Chain(Target) : /\ k \in 1 .. now /\ HasCheckpoint(k)
                                  /\ ChainStart(Target) <= k /\ k <= Target
  BY <1>1, ChainEnds
<1>3. \A i \in Chain(Target) : i \in Int
  BY <1>2
<1>4. n \in Chain(Target) /\ n \in 1 .. now /\ HasCheckpoint(n)
  BY <1>1, <1>2
<1>5. /\ trace[n].ckpt \in Ckpts /\ trace[n].root \in Files
      /\ \/ Made(trace[n].ckpt) = FullCheckpoint(trace[n].root)
         \/ \E j \in 1 .. n - 1 :
              /\ IsLastPoint(j, n - 1)
              /\ Made(trace[n].ckpt) = Incremental(trace[n].root, trace[j].root)
  BY <1>4, CleanCheckpoints
<1>6. ASSUME NEW j \in cur.left \ {n} PROVE j > n
  <2>1. j \in Int /\ n \in Int /\ n <= j /\ j # n
    BY <1>1, <1>3, <1>4
  <2>2. QED
    BY <2>1
<1>7. CASE cur.left = Chain(Target)
  <2>1. n = ChainStart(Target)
    BY <1>2, <1>4, <1>7
  <2>2. Made(trace[n].ckpt) = FullCheckpoint(trace[n].root)
    <3>1. Made(trace[n].ckpt).kind = "full"
      BY <1>2, <1>5, <2>1, MadeKind
    <3>2. ASSUME NEW j PROVE Made(trace[n].ckpt) # Incremental(trace[n].root, trace[j].root)
      <4>1. Incremental(trace[n].root, trace[j].root).kind = "incremental"
        BY DEF Incremental, NoCheckpoint
      <4>2. QED
        BY <3>1, <4>1
    <3>3. QED
      BY <1>5, <3>2
  <2>3. Behind(Chain(Target), cur.left \ {n}, n)
    BY <1>3, <1>4, <1>6, <1>7 DEF Behind
  <2>4. QED
    BY <1>4, <1>5, <2>2, <2>3, RestoreOfFull
<1>8. ASSUME NEW k \in Chain(Target), root = trace[k].root, Behind(Chain(Target), cur.left, k)
      PROVE  /\ RestoreOne(root, trace[n].ckpt) = trace[n].root
             /\ Behind(Chain(Target), cur.left \ {n}, n)
  <2>1. n > k /\ k \in 1 .. now /\ HasCheckpoint(k)
    BY <1>2, <1>4, <1>8 DEF Behind
  <2>2. Behind(Chain(Target), cur.left \ {n}, n)
    <3>1. ASSUME NEW j \in Chain(Target), j > n PROVE j \in cur.left \ {n}
      <4>1. j \in Int /\ n \in Int /\ k \in Int
        BY <1>3, <1>4, <2>1
      <4>2. j > k
        BY <2>1, <3>1, <4>1
      <4>3. QED
        BY <1>8, <3>1, <4>1, <4>2 DEF Behind
    <3>2. QED
      BY <1>6, <3>1 DEF Behind
  <2>3. CASE Made(trace[n].ckpt) = FullCheckpoint(trace[n].root)
    BY <1>5, <2>2, <2>3, RestoreOfFull
  <2>4. ASSUME NEW j \in 1 .. n - 1, IsLastPoint(j, n - 1),
               Made(trace[n].ckpt) = Incremental(trace[n].root, trace[j].root)
        PROVE  RestoreOne(root, trace[n].ckpt) = trace[n].root
    <3>1. j \in 1 .. now /\ IsPoint(j) /\ \A i \in j + 1 .. n - 1 : ~IsPoint(i)
      BY <1>2, <1>4, <2>4 DEF IsLastPoint
    <3>2. HasCheckpoint(j) /\ IsPoint(k) /\ trace[j].root \in Files
      BY <2>1, <3>1, CleanCheckpoints
    <3>3. k <= j
      <4>1. k \notin j + 1 .. n - 1
        BY <3>1, <3>2
      <4>2. QED
        BY <1>4, <2>1, <3>1, <4>1
    <3>4. j \in Chain(Target)
      <4>1. ChainStart(Target) \in Int /\ Target \in Int /\ ChainStart(Target) <= k /\ n <= Target
        BY <1>2, <1>4
      <4>2. j \in ChainStart(Target) .. Target
        BY <1>4, <2>1, <3>1, <3>3, <4>1
      <4>3. QED
        BY <3>2, <4>2 DEF Chain
    <3>5. j \notin cur.left
      BY <1>4, <2>4
    <3>6. j = k
      BY <1>8, <2>1, <3>1, <3>3, <3>4, <3>5 DEF Behind
    <3>7. QED
      BY <1>5, <1>8, <2>4, <3>2, <3>6, RestoreOfIncremental
  <2>5. QED
    BY <1>5, <2>2, <2>3, <2>4
<1>9. QED
  BY <1>4, <1>7, <1>8 DEF IInv, SyncInv

\* The tools between two positions done, the root is the source's at the second.
LEMMA QuietBetween ==
  ASSUME IInv, NEW i \in 1 .. now, NEW j \in 1 .. now, i <= j,
         \A k \in i + 1 .. j : trace[k].a.kind # "tool"
  PROVE  trace[i].root = trace[j].root
  BY DEF IInv, SourceInv
\* The same of an action that came to c, at p, with these files in the container.
ToolsSince(from) == {i \in from + 1 .. now : trace[i].a.kind = "tool"}
SyncFor(p, c, files) ==
  /\ p = "restore" => /\ c.from = Target /\ ChainStart(Target) # 0
                      /\ c.left \subseteq Chain(Target)
                      /\ c.attempted /\ ~c.success /\ ~c.continued /\ c.exact
  /\ p \in {"reapply", "verify"} =>
       c.from = Target /\ Target # 0 /\ c.left \subseteq ToolsSince(c.from)
  /\ p = "verify" => ToolsSince(c.from) = {}
  /\ CleanHistory =>
       /\ p = "restore" => \/ c.left = Chain(Target)
                           \/ \E k \in Chain(Target) : /\ files = trace[k].root
                                                       /\ Behind(Chain(Target), c.left, k)
       /\ p = "reapply" /\ c.exact =>
            \E m \in Target .. now : files = trace[m].root /\ Behind(ToolsSince(c.from), c.left, m)
       /\ p = "verify" => files = trace[now].root
       /\ p = "log" /\ c.continued /\ c.exact => files = trace[now].root

LEMMA SyncIs ==
  ASSUME UNCHANGED <<trace, container>>
  PROVE  SyncInv' <=> SyncFor(pc', cur', root')
<1>1. /\ Target' = Target /\ Chain(Target)' = Chain(Target)
      /\ ChainStart(Target)' = ChainStart(Target)
  BY SyncKept
<1>2. now' = now /\ CleanHistory' = CleanHistory
  BY Kept
<1>3. Reapplied' = ToolsSince(cur'.from)
  BY <1>2 DEF Reapplied, ToolsSince
<1>4. QED
  BY <1>1, <1>2, <1>3 DEF SyncInv, SyncFor, Behind

LEMMA SyncNow == SyncInv <=> SyncFor(pc, cur, root)
<1>1. Reapplied = ToolsSince(cur.from)
  BY DEF Reapplied, ToolsSince
<1>2. QED
  BY <1>1 DEF SyncInv, SyncFor, Behind

\* Outside of a sync there is nothing to keep.
LEMMA SyncQuiet ==
  ASSUME NEW p, NEW c, NEW files, p \notin {"restore", "reapply", "verify"},
         p = "log" => ~c.continued
  PROVE  SyncFor(p, c, files)
  BY DEF SyncFor

\* A tool executed again as in the source takes the root one tool further.
LEMMA ReapplyInStep ==
  ASSUME IInv, CleanHistory, pc = "reapply", cur.exact,
         NEW n \in cur.left, \A m \in cur.left : n <= m,
         NEW asSource \in BOOLEAN, asSource \/ trace[n].a.writes = NoWrite
  PROVE  /\ n \in Target .. now
         /\ (IF asSource THEN Written(root, trace[n].a.writes) ELSE root) = trace[n].root
         /\ Behind(ToolsSince(cur.from), cur.left \ {n}, n)
<1>1. TypeOK /\ SyncFor(pc, cur, root) /\ SourceInv
  BY SyncNow DEF IInv
<1> PICK t \in Nat : t = Target
  BY <1>1, PositionSets, TraceEntries
<1> DEFINE S == ToolsSince(cur.from)
<1>2. /\ now \in Nat /\ cur.from = t /\ t # 0 /\ t <= now /\ cur.left \subseteq S
      /\ S = {i \in t + 1 .. now : trace[i].a.kind = "tool"}
  BY <1>1, PositionSets, TraceEntries DEF SyncFor, ToolsSince
<1>3. PICK m \in t .. now : root = trace[m].root /\ Behind(S, cur.left, m)
  BY <1>1 DEF SyncFor
<1> HIDE DEF S
<1>4. n \in S /\ n \in t + 1 .. now
  BY <1>2
<1>5. n > m /\ n - 1 \in 1 .. now /\ m \in 1 .. now /\ m <= n - 1 /\ n \in 2 .. now
  <2>1. n > m
    BY <1>3, <1>4 DEF Behind
  <2>2. QED
    BY <1>2, <1>4, <2>1
<1>6. ASSUME NEW i \in m + 1 .. n - 1 PROVE trace[i].a.kind # "tool"
  <2> SUFFICES ASSUME trace[i].a.kind = "tool" PROVE FALSE
    OBVIOUS
  <2>1. i \in S /\ i > m
    BY <1>2, <1>4, <1>5
  <2>2. i \in cur.left
    BY <1>3, <2>1 DEF Behind
  <2>3. n <= i
    BY <2>2
  <2>4. QED
    BY <1>4, <1>5, <2>3
<1>7. root = trace[n - 1].root
  BY <1>3, <1>5, <1>6, QuietBetween
<1>8. trace[n].root = Written(root, trace[n].a.writes)
  BY <1>1, <1>5, <1>7 DEF SourceInv
<1>9. asSource => (IF asSource THEN Written(root, trace[n].a.writes) ELSE root) = trace[n].root
  BY <1>8
<1>10. ASSUME ~asSource PROVE root = trace[n].root
  <2>1. trace[n].a.writes = NoWrite /\ root \in Files
    BY <1>1, <1>10 DEF TypeOK
  <2>2. Written(root, NoWrite) = root
    BY <2>1 DEF Written, NoWrite, Files
  <2>3. QED
    BY <1>8, <1>10, <2>1, <2>2
<1>11. Behind(S, cur.left \ {n}, n)
  <2>1. ASSUME NEW j \in S PROVE j > n <=> j \in cur.left \ {n}
    <3>1. j \in Int /\ n \in Int /\ m \in Int
      BY <1>2, <1>4, <1>5
    <3>2. j \in cur.left => n <= j
      OBVIOUS
    <3>3. j > m <=> j \in cur.left
      BY <1>3 DEF Behind
    <3>4. QED
      BY <1>5, <3>1, <3>2, <3>3
  <2>2. QED
    BY <2>1 DEF Behind
<1>12. QED
  BY <1>2, <1>4, <1>9, <1>10, <1>11 DEF S

LEMMA SyncStep ==
  ASSUME IInv, [Next]_vars
  PROVE  SyncInv'
<1>0. TypeOK /\ CurInv /\ SyncInv /\ SyncFor(pc, cur, root) /\ cur \in Results
  BY SyncNow DEF IInv, TypeOK
<1>1. CASE UNCHANGED vars
  BY <1>0, <1>1, SyncIs DEF vars
<1>2. CASE NextAction \/ ReplayLlm \/ LogAction \/ Finish
  <2>1. pc' \notin {"restore", "reapply", "verify", "log"}
    <3>1. CASE NextAction
      <4>1. PICK e : TakesUp(e)
        BY <1>0, <3>1, NextActionTakes
      <4>2. QED
        BY <4>1 DEF TakesUp
    <3>2. QED
      BY <1>2, <3>1 DEF ReplayLlm, LogAction, Finish, Raised
  <2>2. QED
    BY <2>1 DEF SyncInv
<1>3. CASE ReplayFromTrace \/ ArtifactUnavailable \/ ExecuteInContainer
  <2>1. pc' \notin {"restore", "reapply", "verify", "log"}
    BY <1>3 DEF ReplayFromTrace, ArtifactUnavailable, ExecuteInContainer, Raised
  <2>2. QED
    BY <2>1 DEF SyncInv
<1>4. CASE CompareAtBoundary
  <2>1. pc = "ran" /\ pc' \in {"sync", "log"} /\ UNCHANGED <<trace, container>>
    BY <1>4 DEF CompareAtBoundary, Goes
  <2>2. ~cur'.continued
    <3>1. ~cur.continued
      BY <1>0, <2>1 DEF CurInv
    <3>2. cur' = cur \/ cur' = [cur EXCEPT !.effective = "cas", !.laneInduced = laneActive]
      BY <1>4 DEF CompareAtBoundary
    <3>3. QED
      BY <1>0, <3>1, <3>2 DEF Results
  <2>3. QED
    BY <2>1, <2>2, SyncIs, SyncQuiet
<1>5. CASE NoBoundary
  <2>1. pc' \in {"sync", "log"} /\ UNCHANGED <<trace, container, cur>> /\ ~cur.continued
    BY <1>0, <1>5 DEF NoBoundary, Goes, CurInv
  <2>2. QED
    BY <2>1, SyncIs, SyncQuiet
<1>6. CASE NothingToRestore
  <2>1. pc' = "log" /\ UNCHANGED <<trace, container>> /\ cur' = Failed(cur)
    BY <1>6 DEF NothingToRestore
  <2>2. ~cur'.continued
    BY <1>0, <2>1 DEF Failed, Results
  <2>3. QED
    BY <2>1, <2>2, SyncIs, SyncQuiet
<1>7. CASE BeginRestore
  <2>1. /\ pc = "sync" /\ pc' = "restore" /\ UNCHANGED <<trace, container>>
        /\ cur' = [cur EXCEPT !.attempted = TRUE, !.from = Target, !.left = Chain(Target)]
        /\ ChainStart(Target) # 0
    BY <1>7 DEF BeginRestore
  <2>2. /\ cur'.from = Target /\ cur'.left = Chain(Target) /\ cur'.attempted
        /\ cur'.success = cur.success /\ cur'.continued = cur.continued /\ cur'.exact = cur.exact
    BY <1>0, <2>1 DEF Results
  <2>3. ~cur.success /\ ~cur.continued /\ cur.exact
    BY <1>0, <2>1 DEF CurInv
  <2>4. SyncFor(pc', cur', root')
    BY <2>1, <2>2, <2>3 DEF SyncFor
  <2>5. QED
    BY <2>1, <2>4, SyncIs
<1>8. CASE RestoreNext
  <2>1. pc = "restore" /\ UNCHANGED <<trace, container>>
    BY <1>8 DEF RestoreNext
  <2>2. PICK n \in cur.left :
          /\ \A m \in cur.left : n <= m
          /\ \/ /\ root' = RestoreOne(root, trace[n].ckpt)
                /\ cur' = [cur EXCEPT !.left = @ \ {n}]
                /\ UNCHANGED pc
             \/ cur' = Failed(cur) /\ pc' = "log"
    BY <1>8 DEF RestoreNext
  <2>3. CASE cur' = Failed(cur) /\ pc' = "log"
    <3>1. ~cur'.continued
      BY <1>0, <2>3 DEF Failed, Results
    <3>2. QED
      BY <2>1, <2>3, <3>1, SyncIs, SyncQuiet
  <2>4. CASE /\ root' = RestoreOne(root, trace[n].ckpt)
             /\ cur' = [cur EXCEPT !.left = @ \ {n}]
             /\ UNCHANGED pc
    <3>1. /\ cur'.from = cur.from /\ cur'.left = cur.left \ {n} /\ cur'.attempted = cur.attempted
          /\ cur'.success = cur.success /\ cur'.continued = cur.continued /\ cur'.exact = cur.exact
      BY <1>0, <2>4 DEF Results
    <3>2. /\ cur.from = Target /\ ChainStart(Target) # 0 /\ cur.left \subseteq Chain(Target)
          /\ cur.attempted /\ ~cur.success /\ ~cur.continued /\ cur.exact
      BY <1>0, <2>1 DEF SyncFor
    <3>3. CleanHistory => \E k \in Chain(Target) : /\ root' = trace[k].root
                                                   /\ Behind(Chain(Target), cur'.left, k)
      <4> SUFFICES ASSUME CleanHistory
                   PROVE  /\ n \in Chain(Target) /\ root' = trace[n].root
                          /\ Behind(Chain(Target), cur'.left, n)
        OBVIOUS
      <4>1. QED
        BY <2>1, <2>2, <2>4, <3>1, RestoreInStep
    <3>4. pc' = "restore"
      BY <2>1, <2>4
    <3>5. SyncFor(pc', cur', root')
      BY <3>1, <3>2, <3>3, <3>4 DEF SyncFor
    <3>6. QED
      BY <2>1, <3>5, SyncIs
  <2>5. QED
    BY <2>2, <2>3, <2>4
<1>9. CASE RestoreDone
  <2>1. /\ pc = "restore" /\ UNCHANGED <<trace, container, root>> /\ cur.left = {}
        /\ cur' = [Restored(cur) EXCEPT !.left = Reapplied]
        /\ pc' = IF Reapplied = {} THEN "verify" ELSE "reapply"
    BY <1>9 DEF RestoreDone
  <2> PICK t \in Nat : t = Target
    BY <1>0, PositionSets, TraceEntries
  <2>2. cur.from = t /\ ChainStart(Target) # 0 /\ cur.exact
    BY <1>0, <2>1 DEF SyncFor
  <2>3. cur'.from = t /\ cur'.left = Reapplied
    BY <1>0, <2>1, <2>2 DEF Results, Restored
  <2>4. Reapplied = ToolsSince(t) /\ ToolsSince(t) = {i \in t + 1 .. now : trace[i].a.kind = "tool"}
    BY <2>2 DEF Reapplied, ToolsSince
  <2>5. /\ now \in Nat /\ t \in 1 .. now /\ t \in Chain(Target)
        /\ ChainStart(Target) \in Chain(Target)
        /\ \A k \in Chain(Target) : k \in 1 .. now /\ k <= t
    BY <1>0, <2>2, ChainEnds
  <2>6. CleanHistory => root = trace[t].root
    <3> SUFFICES ASSUME CleanHistory PROVE root = trace[t].root
      OBVIOUS
    <3>1. cur.left # Chain(Target)
      BY <2>1, <2>5
    <3>2. PICK k \in Chain(Target) : root = trace[k].root /\ Behind(Chain(Target), cur.left, k)
      BY <1>0, <2>1, <3>1 DEF SyncFor
    <3>3. k = t
      BY <2>1, <2>5, <3>2 DEF Behind
    <3>4. QED
      BY <3>2, <3>3
  <2>7. CASE Reapplied = {}
    <3>1. CleanHistory => root = trace[now].root
      <4>1. \A k \in t + 1 .. now : trace[k].a.kind # "tool"
        BY <2>4, <2>7
      <4>2. trace[t].root = trace[now].root
        BY <2>5, <4>1, QuietBetween
      <4>3. QED
        BY <2>6, <4>2
    <3>2. pc' = "verify" /\ root' = root
      BY <2>1, <2>7
    <3>3. SyncFor(pc', cur', root')
      BY <2>3, <2>4, <2>5, <2>7, <3>1, <3>2 DEF SyncFor
    <3>4. QED
      BY <2>1, <3>3, SyncIs
  <2>8. CASE Reapplied # {}
    <3>1. pc' = "reapply" /\ root' = root
      BY <2>1, <2>8
    <3>2. Behind(ToolsSince(t), Reapplied, t) /\ t \in t .. now /\ t # 0
      BY <2>4, <2>5 DEF Behind
    <3>3. CleanHistory => \E m \in t .. now : /\ root' = trace[m].root
                                             /\ Behind(ToolsSince(t), cur'.left, m)
      BY <2>3, <2>6, <3>1, <3>2
    <3>4. SyncFor(pc', cur', root')
      BY <2>3, <2>4, <3>1, <3>2, <3>3 DEF SyncFor
    <3>5. QED
      BY <2>1, <3>4, SyncIs
  <2>9. QED
    BY <2>7, <2>8
<1>10. CASE ReapplyNext
  <2>1. pc = "reapply" /\ UNCHANGED <<trace, container>>
    BY <1>10 DEF ReapplyNext
  <2>2. PICK n \in cur.left, asSource \in BOOLEAN :
         /\ \A m \in cur.left : n <= m
         /\ root' = IF asSource THEN Written(root, trace[n].a.writes) ELSE root
         /\ \/ /\ cur' = [cur EXCEPT !.left = @ \ {n},
                                     !.exact = @ /\ (asSource \/ trace[n].a.writes = NoWrite)]
               /\ UNCHANGED pc
            \/ cur' = Failed(cur) /\ pc' = "log"
    BY <1>10 DEF ReapplyNext
  <2>3. CASE cur' = Failed(cur) /\ pc' = "log"
    <3>1. ~cur'.continued
      BY <1>0, <2>3 DEF Failed, Results
    <3>2. QED
      BY <2>1, <2>3, <3>1, SyncIs, SyncQuiet
  <2>4. CASE /\ cur' = [cur EXCEPT !.left = @ \ {n},
                                   !.exact = @ /\ (asSource \/ trace[n].a.writes = NoWrite)]
             /\ UNCHANGED pc
    <3>1. /\ cur'.from = cur.from /\ cur'.left = cur.left \ {n}
          /\ cur'.exact <=> (cur.exact /\ (asSource \/ trace[n].a.writes = NoWrite))
      BY <1>0, <2>4 DEF Results
    <3>2. cur.from = Target /\ Target # 0 /\ cur.left \subseteq ToolsSince(cur.from)
      BY <1>0, <2>1 DEF SyncFor
    <3>3. CleanHistory /\ cur'.exact =>
            \E m \in Target .. now : /\ root' = trace[m].root
                                     /\ Behind(ToolsSince(cur'.from), cur'.left, m)
      <4> SUFFICES ASSUME CleanHistory, cur'.exact
                   PROVE  /\ n \in Target .. now /\ root' = trace[n].root
                          /\ Behind(ToolsSince(cur'.from), cur'.left, n)
        OBVIOUS
      <4>1. cur.exact /\ (asSource \/ trace[n].a.writes = NoWrite)
        BY <3>1
      <4>2. /\ n \in Target .. now
            /\ (IF asSource THEN Written(root, trace[n].a.writes) ELSE root) = trace[n].root
            /\ Behind(ToolsSince(cur.from), cur.left \ {n}, n)
        BY <2>1, <2>2, <4>1, ReapplyInStep
      <4>3. QED
        BY <2>2, <3>1, <4>2
    <3>4. pc' = "reapply"
      BY <2>1, <2>4
    <3>5. SyncFor(pc', cur', root')
      BY <3>1, <3>2, <3>3, <3>4 DEF SyncFor
    <3>6. QED
      BY <2>1, <3>5, SyncIs
  <2>5. QED
    BY <2>2, <2>3, <2>4
<1>11. CASE ReapplyDone
  <2>1. pc = "reapply" /\ cur.left = {} /\ pc' = "log" /\ UNCHANGED <<trace, container, root, cur>>
    BY <1>11 DEF ReapplyDone
  <2>2. CleanHistory /\ cur.exact => root = trace[now].root
    <3> SUFFICES ASSUME CleanHistory, cur.exact PROVE root = trace[now].root
      OBVIOUS
    <3> PICK t \in Nat : t = Target
      BY <1>0, PositionSets, TraceEntries
    <3>1. /\ now \in Nat /\ cur.from = t /\ t # 0 /\ t <= now
      BY <1>0, <2>1, PositionSets, TraceEntries DEF SyncFor
    <3>2. PICK m \in t .. now : root = trace[m].root /\ Behind(ToolsSince(t), {}, m)
      BY <1>0, <2>1, <3>1 DEF SyncFor
    <3>3. ASSUME NEW k \in m + 1 .. now PROVE trace[k].a.kind # "tool"
      <4>1. k > m /\ k \in t + 1 .. now
        BY <3>1
      <4>2. k \notin ToolsSince(t)
        BY <3>2, <4>1 DEF Behind
      <4>3. QED
        BY <4>1, <4>2 DEF ToolsSince
    <3>4. m \in 1 .. now /\ now \in 1 .. now /\ m <= now
      BY <3>1
    <3>5. QED
      BY <3>2, <3>3, <3>4, QuietBetween
  <2>3. SyncFor(pc', cur', root')
    BY <2>1, <2>2 DEF SyncFor
  <2>4. QED
    BY <2>1, <2>3, SyncIs
<1>12. CASE VerifyRestore
  <2>1. /\ pc = "verify" /\ pc' = "log" /\ UNCHANGED <<trace, container, root>>
        /\ cur' = cur \/ cur' = Failed(cur)
    BY <1>12 DEF VerifyRestore
  <2>2. CleanHistory => root = trace[now].root
    BY <1>0, <2>1 DEF SyncFor
  <2>3. SyncFor(pc', cur', root')
    BY <2>1, <2>2 DEF SyncFor
  <2>4. QED
    BY <2>1, <2>3, SyncIs
<1>13. QED
  BY <1>1, <1>2, <1>3, <1>4, <1>5, <1>6, <1>7, <1>8, <1>9, <1>10, <1>11, <1>12 DEF Next
-----------------------------------------------------------------------------
(* The container follows the source.                                       *)

LEMMA SamePresent ==
  ASSUME NEW f \in Files, NEW g \in Files, Present(f) = Present(g)
  PROVE  f = g
<1>1. ASSUME NEW p \in Paths PROVE f[p] = g[p]
  <2>1. /\ DOMAIN Present(f) = {q \in Paths : f[q] # Absent}
        /\ DOMAIN Present(g) = {q \in Paths : g[q] # Absent}
    BY DEF Present
  <2>2. f[p] # Absent <=> g[p] # Absent
    BY <2>1
  <2>3. CASE f[p] # Absent
    <3>1. Present(f)[p] = f[p] /\ Present(g)[p] = g[p]
      BY <2>2, <2>3 DEF Present
    <3>2. QED
      BY <3>1
  <2>4. QED
    BY <2>2, <2>3
<1>2. QED
  BY <1>1 DEF Files

\* What makes a replay stray from the source does so for good.
LEMMA FollowedBefore ==
  ASSUME IInv, [Next]_vars
  PROVE  /\ Followed' => Followed /\ faults' = faults /\ strayed' = strayed
         /\ faults' >= faults
<1>0. TypeOK /\ faults \in Nat /\ strayed \in BOOLEAN
  BY DEF IInv, TypeOK
<1>1. CASE NextAction
  <2>1. PICK e : TakesUp(e)
    BY <1>0, <1>1, NextActionTakes
  <2>2. faults' >= faults /\ faults' \in Nat
    BY <1>0, <2>1, TakenCkpt DEF TakesUp, Taken, Fault
  <2>3. UNCHANGED <<container, strayed>>
    BY <1>1 DEF NextAction
  <2>4. CleanHistory' => CleanHistory
    <3> SUFFICES ASSUME CleanHistory', NEW i \in 1 .. now
                 PROVE  ~Lost(i) /\ ~(trace[i].a.lane /\ HasCheckpoint(i))
      BY DEF CleanHistory
    <3>1. /\ i \in 1 .. now' /\ trace'[i] = trace[i]
          /\ HasCheckpoint(i)' = HasCheckpoint(i) /\ Lost(i)' = Lost(i)
      BY <1>0, <2>1, SamePast
    <3>2. QED
      BY <3>1 DEF CleanHistory
  <2>5. QED
    BY <1>0, <2>2, <2>3, <2>4 DEF Followed
<1>2. CASE ~NextAction
  <2>1. UNCHANGED <<container, trace>>
    BY <1>2, OnlyNextActionReads
  <2>2. CleanHistory' = CleanHistory
    BY <2>1, Kept
  <2>3. faults' = faults \/ faults' = faults + 1
    BY <1>2 DEF Next, vars, ReplayLlm, ReplayFromTrace, ArtifactUnavailable,
         ExecuteInContainer, CompareAtBoundary, NoBoundary, NothingToRestore, BeginRestore,
         RestoreNext, RestoreStops, RestoreDone, ReapplyNext, ReapplyDone, VerifyRestore,
         LogAction, Finish, Fault
  <2>4. strayed => strayed'
    BY <1>2 DEF Next, vars, ReplayLlm, ReplayFromTrace, ArtifactUnavailable,
         ExecuteInContainer, CompareAtBoundary, NoBoundary, NothingToRestore, BeginRestore,
         RestoreNext, RestoreDone, ReapplyNext, ReapplyDone, VerifyRestore, LogAction, Finish
  <2>5. strayed' \in BOOLEAN
    BY TypeStep DEF TypeOK
  <2>6. QED
    BY <1>0, <2>1, <2>2, <2>3, <2>4, <2>5 DEF Followed
<1>3. QED
  BY <1>1, <1>2

\* Where an action started from, and where its writes lead.
LEMMA SourceMoves ==
  ASSUME IInv, now > 0
  PROVE  /\ SourceRoot = trace[now].root /\ SourceRoot \in Files /\ Before \in Files
         /\ SourceRoot = Written(Before, action.writes)
         /\ action.kind # "tool" => SourceRoot = Before
<1>1. TypeOK /\ SourceInv /\ now \in Nat
  BY TraceEntries DEF IInv
<1>2. SourceRoot = trace[now].root /\ SourceRoot \in Files
  BY SourceRootType, <1>1 DEF SourceRoot
<1>3. Before \in Files
  <2>1. CASE now = 1
    BY <2>1, ReplaySessionAssumption DEF Before
  <2>2. CASE now > 1
    <3>1. now - 1 \in 1 .. now
      BY <1>1, <2>2
    <3>2. trace[now - 1].root \in Files
      BY <1>1, <3>1, TraceEntries, EntryForm
    <3>3. QED
      BY <2>2, <3>2 DEF Before
  <2>3. QED
    BY <1>1, <2>1, <2>2
<1>4. SourceRoot = Written(Before, action.writes)
  <2>1. CASE now = 1
    BY <1>1, <1>2, <2>1 DEF Before, SourceInv, action
  <2>2. CASE now > 1
    <3>1. now \in 2 .. now
      BY <1>1, <2>2
    <3>2. QED
      BY <1>1, <1>2, <2>2, <3>1 DEF Before, SourceInv, action
  <2>3. QED
    BY <1>1, <2>1, <2>2
<1>5. action.kind # "tool" => SourceRoot = Before
  BY <1>1, <1>3, <1>4, ActionForm, NothingWritten
<1>6. QED
  BY <1>2, <1>3, <1>4, <1>5

\* A container that holds what the checkpoints tell of is where the source was.
LEMMA HeldIsSource ==
  ASSUME IInv, Followed, pc = "ran", InStep, HasCheckpoint(now)
  PROVE  Holds(root, Fold(folded, trace[now].ckpt)) <=> root = SourceRoot
<1>1. now > 0 /\ container /\ ~IsLane
  BY DEF IInv, CurInv, InHand, InHandPCs, InStep
<1>2. KeptUpTo(now) /\ OnlyLogErrors
  <2>1. errors = {}
    BY DEF IInv, FollowInv, Followed
  <2>2. QED
    BY <2>1 DEF Followed, CleanHistory, KeptUpTo, OnlyLogErrors
<1>3. Unfolded
  BY <1>1 DEF Unfolded
<1>4. Fold(folded, trace[now].ckpt) = Present(trace[now].root)
  BY <1>1, <1>2, <1>3 DEF IInv, FoldInv
<1>5. SourceRoot = trace[now].root /\ SourceRoot \in Files /\ root \in Files
  BY <1>1, SourceMoves DEF IInv, TypeOK
<1>6. QED
  BY <1>4, <1>5, SamePresent DEF Holds, SnapshotOf

\* At a checkpoint of the agent there is something to restore.
LEMMA ChainAtCheckpoint ==
  ASSUME IInv, CleanHistory, now > 0, HasCheckpoint(now)
  PROVE  ChainStart(Target) # 0
<1>1. TypeOK /\ FullInv /\ now \in Nat /\ now \in 1 .. now
  BY TraceEntries DEF IInv
<1>2. ~trace[now].a.lane /\ KeptUpTo(now)
  BY <1>1 DEF CleanHistory, KeptUpTo
<1>3. PICK k \in 1 .. now : trace[k].ckpt.kind = "full"
  BY <1>1, <1>2 DEF FullInv
<1>4. Target = now
  <2> DEFINE S == {i \in 1 .. now : HasCheckpoint(i)}
  <2>1. S \in SUBSET (1 .. now) /\ now \in S /\ Target = Latest(S)
    BY <1>1 DEF Target
  <2>2. Latest(S) \in S /\ now <= Latest(S)
    <3> HIDE DEF S
    <3>1. QED
      BY <1>1, <2>1, LatestIs
  <2>3. QED
    BY <1>1, <2>1, <2>2
<1>5. ChainStart(now) # 0
  <2> DEFINE F == {i \in 1 .. now : trace[i].ckpt.kind = "full"}
  <2>1. F \in SUBSET (1 .. now) /\ k \in F /\ ChainStart(now) = Latest(F)
    BY <1>3 DEF ChainStart
  <2>2. Latest(F) \in F
    <3> HIDE DEF F
    <3>1. QED
      BY <1>1, <2>1, LatestIs
  <2>3. QED
    BY <1>1, <2>1, <2>2
<1>6. QED
  BY <1>4, <1>5

\* Where the container is while it follows the source, no lane since the last boundary.
RootInStep ==
  /\ pc \in {"next", "llm", "ran", "log"} => root = SourceRoot
  /\ pc = "execute" => root = Before
  /\ pc = "sync" => HasCheckpoint(now) \/ root = SourceRoot
LaneSaid == InHand /\ cur.effective = "cas" => cur.laneInduced

LEMMA FollowIs ==
  ASSUME (errors # {} => faults > 0)',
         (pc = "execute" /\ IsLane => laneActive)',
         Followed' /\ ~laneActive' => RootInStep',
         Followed' => LaneSaid'
  PROVE  FollowInv'
  BY DEF FollowInv, RootInStep, LaneSaid

LEMMA FollowStep ==
  ASSUME IInv, [Next]_vars
  PROVE  FollowInv'
<1>0. TypeOK /\ CurInv /\ FollowInv /\ SyncInv /\ cur \in Results /\ faults \in Nat
      /\ laneActive \in BOOLEAN
  BY DEF IInv, TypeOK
<1>1. /\ Followed' => Followed /\ faults' = faults /\ strayed' = strayed
      /\ faults' >= faults
  BY FollowedBefore
<1>2. Followed => (~laneActive => RootInStep) /\ LaneSaid
  BY <1>0 DEF FollowInv, RootInStep, LaneSaid
<1>3. ~Fault \/ ~Followed'
  BY <1>0, <1>1 DEF Fault
<1>4. CASE UNCHANGED vars
  BY <1>0, <1>4, Kept DEF vars, FollowInv, InHand, Followed
<1>5. CASE NextAction
  <2>1. PICK e : TakesUp(e)
    BY <1>0, <1>5, NextActionTakes
  <2> PICK n \in Nat : n = now
    BY <1>0, TraceEntries
  <2>2. /\ now' = n + 1 /\ trace'[n + 1] = e /\ e \in Entries
        /\ \A i \in 1 .. n : trace'[i] = trace[i]
    BY <1>0, <2>1, SamePast
  <2>3. pc = "next" /\ UNCHANGED <<root, cur, errors>> /\ cur = Idle
    BY <1>0, <1>5 DEF NextAction, CurInv
  <2>4. /\ e.root = Written(SourceRoot, e.a.writes) /\ laneActive' = (laneActive \/ e.a.lane)
        /\ pc' = CASE e.a.kind = "llm" -> "llm" [] e.a.kind = "skipped" -> "next"
                   [] OTHER -> "execute"
    BY <2>1 DEF TakesUp
  <2>5. SourceRoot' = e.root /\ Before' = SourceRoot /\ IsLane' = e.a.lane
    BY <2>2 DEF SourceRoot, Before, IsLane, action
  <2>6. e.a.kind # "tool" => e.root = SourceRoot
    BY <1>0, <2>2, <2>4, SourceRootType, EntryForm, NothingWritten
  <2>7. Followed' /\ ~laneActive' => RootInStep'
    <3> SUFFICES ASSUME Followed', ~laneActive' PROVE RootInStep'
      OBVIOUS
    <3>1. root' = SourceRoot
      BY <1>1, <1>2, <2>3, <2>4 DEF RootInStep
    <3>2. pc' = "execute" \/ (pc' \in {"next", "llm"} /\ e.a.kind # "tool")
      BY <2>4
    <3>3. QED
      BY <2>5, <2>6, <3>1, <3>2 DEF RootInStep
  <2>8. LaneSaid'
    BY <2>3 DEF LaneSaid, Idle
  <2>9. (errors # {} => faults > 0)'
    <3>1. errors' # {} => faults > 0 /\ faults' \in Nat
      BY <1>0, <2>3, TypeStep DEF FollowInv, TypeOK
    <3>2. QED
      BY <1>0, <1>1, <3>1
  <2>10. (pc = "execute" /\ IsLane => laneActive)'
    BY <2>4, <2>5
  <2>11. QED
    BY <2>7, <2>8, <2>9, <2>10, FollowIs
<1>6. CASE ~NextAction /\ ~UNCHANGED vars
  <2>1. UNCHANGED <<container, trace>>
    BY <1>6, OnlyNextActionReads
  <2>2. /\ now' = now /\ action' = action /\ IsLane' = IsLane /\ InStep' = InStep
        /\ SourceRoot' = SourceRoot /\ Before' = Before
        /\ HasCheckpoint(now)' = HasCheckpoint(now) /\ CleanHistory' = CleanHistory
    <3>1. /\ now' = now /\ action' = action /\ IsLane' = IsLane /\ InStep' = InStep
          /\ SourceRoot' = SourceRoot /\ Before' = Before /\ CleanHistory' = CleanHistory
      BY <2>1, Kept
    <3>2. HasCheckpoint(now)' = HasCheckpoint(now)
      BY <2>1 DEF HasCheckpoint, now
    <3>3. QED
      BY <3>1, <3>2
  <2>3. (errors # {} => faults > 0)'
    <3>1. UNCHANGED errors \/ Fault
      BY <1>6 DEF Next, ReplayLlm, ReplayFromTrace, ArtifactUnavailable, ExecuteInContainer,
           CompareAtBoundary, NoBoundary, NothingToRestore, BeginRestore, RestoreNext,
           RestoreDone, ReapplyNext, ReapplyDone, VerifyRestore, LogAction, Finish, Raised
    <3>2. CASE UNCHANGED errors
      <4>1. errors' # {} => faults > 0 /\ faults' \in Nat
        BY <1>0, <3>2, TypeStep DEF FollowInv, TypeOK
      <4>2. QED
        BY <1>0, <1>1, <4>1
    <3>3. CASE Fault
      BY <1>0, <3>3 DEF Fault
    <3>4. QED
      BY <3>1, <3>2, <3>3
  <2>4. (pc = "execute" /\ IsLane => laneActive)'
    <3>1. pc' # "execute"
      BY <1>6 DEF Next, ReplayLlm, ReplayFromTrace, ArtifactUnavailable, ExecuteInContainer,
           CompareAtBoundary, NoBoundary, NothingToRestore, BeginRestore, RestoreNext,
           RestoreDone, ReapplyNext, ReapplyDone, VerifyRestore, LogAction, Finish, Raised, Goes
    <3>2. QED
      BY <3>1
  <2>5. Followed' => (~laneActive' => RootInStep') /\ LaneSaid'
    <3> SUFFICES ASSUME Followed' PROVE (~laneActive' => RootInStep') /\ LaneSaid'
      OBVIOUS
    <3>1. /\ Followed /\ ~Fault /\ faults' = faults /\ ~strayed' /\ container /\ CleanHistory
          /\ (~laneActive => RootInStep) /\ LaneSaid
      BY <1>1, <1>2, <1>3 DEF Followed
    <3>2. CASE ReplayLlm
      BY <2>2, <3>1, <3>2 DEF ReplayLlm, RootInStep, LaneSaid, InHand, InHandPCs
    <3>3. CASE ReplayFromTrace \/ ArtifactUnavailable
      <4>1. pc = "execute" /\ pc' = "ran" /\ UNCHANGED <<root, laneActive>>
            /\ (~InStep \/ action.kind # "tool")
        BY <3>3 DEF ReplayFromTrace, ArtifactUnavailable
      <4>2. cur'.effective # "cas"
        BY <3>3 DEF ReplayFromTrace, ArtifactUnavailable, Idle
      <4>3. now > 0
        BY <1>0, <4>1 DEF CurInv, InHand, InHandPCs
      <4>4. ~laneActive => action.kind # "tool"
        BY <1>0, <3>1, <4>1 DEF FollowInv, InStep
      <4>5. ~laneActive' => root' = SourceRoot'
        BY <2>2, <3>1, <4>1, <4>3, <4>4, SourceMoves DEF RootInStep
      <4>6. QED
        BY <4>1, <4>2, <4>5 DEF RootInStep, LaneSaid
    <3>4. CASE ExecuteInContainer
      <4>1. pc = "execute" /\ UNCHANGED laneActive
        BY <3>4 DEF ExecuteInContainer
      <4>2. PICK r \in ToolRuns :
             /\ root' = IF r.asSource THEN Written(root, action.writes) ELSE root
             /\ strayed' = (strayed \/ (~r.asSource /\ action.writes # NoWrite))
             /\ cur' = [Idle EXCEPT !.ok = r.ok, !.reason = MismatchReason(r.ok),
                                    !.effective = MismatchReason(r.ok)]
             /\ pc' = "ran"
        BY <3>1, <3>4 DEF ExecuteInContainer
      <4>3. cur'.effective # "cas"
        BY <4>2 DEF Idle, MismatchReason
      <4>4. now > 0
        BY <1>0, <4>1 DEF CurInv, InHand, InHandPCs
      <4>5. ASSUME ~laneActive' PROVE root' = SourceRoot'
        <5>1. root = Before /\ SourceRoot = Written(Before, action.writes) /\ Before \in Files
          BY <3>1, <4>1, <4>4, <4>5, SourceMoves DEF RootInStep
        <5>2. r.asSource \/ action.writes = NoWrite
          BY <3>1, <4>2 DEF ToolRuns
        <5>3. Written(Before, NoWrite) = Before
          BY <5>1 DEF Written, NoWrite, Files
        <5>4. QED
          BY <2>2, <4>2, <5>1, <5>2, <5>3
      <4>6. QED
        BY <4>2, <4>3, <4>5 DEF RootInStep, LaneSaid
    <3>5. CASE CompareAtBoundary
      <4>1. /\ pc = "ran" /\ InStep /\ HasCheckpoint(now)
            /\ folded' = Fold(folded, trace[now].ckpt) /\ laneActive' = FALSE
            /\ UNCHANGED root /\ pc' = Goes(cur'.effective)
            /\ \/ /\ cur.reason = "none" /\ ~Holds(root, folded')
                  /\ cur' = [cur EXCEPT !.effective = "cas", !.laneInduced = laneActive]
               \/ (cur.reason # "none" \/ Holds(root, folded')) /\ cur' = cur
        BY <3>1, <3>5 DEF CompareAtBoundary
      <4>2. Holds(root, folded') <=> root = SourceRoot
        BY <3>1, <4>1, HeldIsSource
      <4>3. ~laneActive => root = SourceRoot
        BY <3>1, <4>1 DEF RootInStep
      <4>4. cur.effective = cur.reason /\ cur.reason # "cas"
        BY <1>0, <4>1 DEF CurInv
      <4>5. CASE /\ cur.reason = "none" /\ ~Holds(root, folded')
                 /\ cur' = [cur EXCEPT !.effective = "cas", !.laneInduced = laneActive]
        <5>1. laneActive /\ cur'.effective = "cas" /\ cur'.laneInduced = laneActive
          BY <1>0, <4>2, <4>3, <4>5 DEF Results
        <5>2. pc' = "sync"
          BY <4>1, <5>1 DEF Goes
        <5>3. QED
          BY <2>2, <4>1, <5>1, <5>2 DEF RootInStep, LaneSaid
      <4>6. CASE (cur.reason # "none" \/ Holds(root, folded')) /\ cur' = cur
        <5>1. cur'.effective # "cas"
          BY <4>4, <4>6
        <5>2. pc' = "sync" \/ (pc' = "log" /\ root = SourceRoot)
          BY <4>1, <4>2, <4>4, <4>6 DEF Goes
        <5>3. QED
          BY <2>2, <4>1, <5>1, <5>2 DEF RootInStep, LaneSaid
      <4>7. QED
        BY <4>1, <4>5, <4>6
    <3>6. CASE NoBoundary
      <4>1. /\ pc = "ran" /\ pc' \in {"sync", "log"} /\ UNCHANGED <<root, laneActive, cur>>
        BY <3>6 DEF NoBoundary, Goes
      <4>2. cur.effective # "cas"
        BY <1>0, <4>1 DEF CurInv
      <4>3. QED
        BY <2>2, <3>1, <4>1, <4>2 DEF RootInStep, LaneSaid
    <3>7. CASE NothingToRestore
      <4>1. /\ pc = "sync" /\ pc' = "log" /\ UNCHANGED <<root, laneActive>>
            /\ ChainStart(Target) = 0 /\ cur' = Failed(cur)
        BY <3>7 DEF NothingToRestore
      <4>2. now > 0
        BY <1>0, <4>1 DEF CurInv, InHand, InHandPCs
      <4>3. ~HasCheckpoint(now)
        BY <3>1, <4>1, <4>2, ChainAtCheckpoint
      <4>4. cur'.effective = cur.effective /\ cur'.laneInduced = cur.laneInduced
        BY <1>0, <4>1 DEF Failed, Results
      <4>5. QED
        BY <2>2, <3>1, <4>1, <4>3, <4>4 DEF RootInStep, LaneSaid, InHand, InHandPCs
    <3>8. CASE BeginRestore \/ RestoreDone
      <4>1. pc \in {"sync", "restore"} /\ pc' \in {"restore", "verify", "reapply"}
        BY <3>8 DEF BeginRestore, RestoreDone
      <4>2. cur'.effective = cur.effective /\ cur'.laneInduced = cur.laneInduced
        BY <1>0, <3>8 DEF BeginRestore, RestoreDone, Restored, Results
      <4>3. QED
        BY <3>1, <4>1, <4>2 DEF RootInStep, LaneSaid, InHand, InHandPCs
    <3>9. CASE RestoreNext
      <4>1. PICK n \in cur.left :
              \/ /\ cur' = [cur EXCEPT !.left = @ \ {n}]
                 /\ UNCHANGED pc
              \/ trace[n].ckpt.gone
        BY <3>1, <3>9 DEF RestoreNext, RestoreStops
      <4>2. pc = "restore" /\ ~trace[n].ckpt.gone
        BY <3>1, <3>9, LeftInTrace, CleanCheckpoints DEF RestoreNext
      <4>3. cur'.effective = cur.effective /\ cur'.laneInduced = cur.laneInduced
        BY <1>0, <4>1, <4>2 DEF Results
      <4>4. QED
        BY <3>1, <4>1, <4>2, <4>3 DEF RootInStep, LaneSaid, InHand, InHandPCs
    <3>10. CASE ReapplyNext
      <4>1. PICK n \in cur.left, exact \in BOOLEAN :
              cur' = [cur EXCEPT !.left = @ \ {n}, !.exact = @ /\ exact]
        BY <3>1, <3>10 DEF ReapplyNext
      <4>2. pc = "reapply" /\ UNCHANGED pc
        BY <3>1, <3>10 DEF ReapplyNext
      <4>3. cur'.effective = cur.effective /\ cur'.laneInduced = cur.laneInduced
        BY <1>0, <4>1 DEF Results
      <4>4. QED
        BY <3>1, <4>2, <4>3 DEF RootInStep, LaneSaid, InHand, InHandPCs
    <3>11. CASE ReapplyDone \/ VerifyRestore
      <4>1. /\ pc \in {"reapply", "verify"} /\ pc' = "log" /\ UNCHANGED <<root, laneActive>>
            /\ cur' = cur \/ (pc = "verify" /\ cur' = Failed(cur))
        BY <3>11 DEF ReapplyDone, VerifyRestore
      <4>2. now > 0 /\ (pc = "reapply" => cur.continued /\ cur.exact)
        BY <1>0, <3>1, <4>1 DEF CurInv, InHand, InHandPCs, Followed
      <4>3. root' = trace[now].root
        <5>1. CASE pc = "verify"
          BY <1>0, <3>1, <4>1, <5>1 DEF SyncInv
        <5>2. CASE pc = "reapply"
          BY <2>1, <2>2, <3>1, <4>1, <4>2, <5>2, SyncStep, SyncIs DEF SyncFor
        <5>3. QED
          BY <4>1, <5>1, <5>2
      <4>4. SourceRoot' = trace[now].root
        BY <2>2, <4>2 DEF SourceRoot
      <4>5. cur'.effective = cur.effective /\ cur'.laneInduced = cur.laneInduced
        BY <1>0, <4>1 DEF Failed, Results
      <4>6. QED
        BY <3>1, <4>1, <4>3, <4>4, <4>5 DEF RootInStep, LaneSaid, InHand, InHandPCs
    <3>12. CASE LogAction
      BY <2>2, <3>1, <3>12 DEF LogAction, RootInStep, LaneSaid, InHand, InHandPCs
    <3>13. CASE Finish
      BY <3>13 DEF Finish, RootInStep, LaneSaid, InHand, InHandPCs
    <3>14. QED
      BY <1>6, <3>2, <3>3, <3>4, <3>5, <3>6, <3>7, <3>8, <3>9, <3>10, <3>11, <3>12, <3>13
        DEF Next
  <2>6. QED
    BY <2>3, <2>4, <2>5, FollowIs
<1>7. QED
  BY <1>4, <1>5, <1>6
-----------------------------------------------------------------------------
(* The theorems.                                                           *)

LEMMA InitInv == Init => IInv
<1> SUFFICES ASSUME Init PROVE IInv
  OBVIOUS
<1>1. TypeOK
  BY InitType
<1>2. now = 0 /\ pc = "next" /\ cur = Idle /\ log = <<>> /\ errors = {} /\ counts = NoCounts
      /\ ~InHand
  BY DEF Init, now, InHand, InHandPCs
<1>3. CurInv
  BY <1>2 DEF CurInv, Idle
<1>4. DOMAIN log = {} /\ Known = {} /\ Cardinality({}) = 0 /\ Len(log) = 0
  BY <1>2, FS_EmptySet DEF Known
<1>5. LogInv
  BY <1>2, <1>4 DEF LogInv, Logged, Caught, Waiting
<1>6. CountInv
  <2>1. \A S \in SUBSET DOMAIN log : Cardinality(S) = 0
    BY <1>4
  <2>2. QED
    BY <1>2, <1>4, <2>1 DEF CountInv, Held, NoCounts
<1>7. SourceInv /\ CkptInv /\ FullInv /\ BaseInv
  BY <1>2 DEF SourceInv, CkptInv, FullInv, BaseInv, Init
<1>8. FoldInv
  BY <1>2 DEF FoldInv, Unfolded, Init
<1>9. SyncInv
  BY <1>2 DEF SyncInv
<1>10. FollowInv
  BY <1>2 DEF FollowInv, Init, SourceRoot, InHand, InHandPCs
<1>11. QED
  BY <1>1, <1>3, <1>5, <1>6, <1>7, <1>8, <1>9, <1>10 DEF IInv

LEMMA Invariance == Spec => []IInv
<1>1. IInv /\ [Next]_vars => IInv'
  BY TypeStep, CurStep, LogStep, CountStep, SourceStep, CkptStep, BaseStep, FullStep,
     FoldStep, SyncStep, FollowStep DEF IInv
<1>2. QED
  BY <1>1, InitInv, PTL DEF Spec

\* At a boundary the container is compared with the root the source had there,
\* whatever its lanes did (boundary comparison of _replay_cloud_model_session).
THEOREM ComparedWithRecordedCorrect == Spec => []ComparedWithRecorded
<1>1. IInv => ComparedWithRecorded
  <2> SUFFICES ASSUME IInv,
                      /\ pc # "next" /\ now > 0 /\ ~trace[now].a.lane /\ HasCheckpoint(now)
                      /\ container /\ pc \notin {"execute", "ran", "done"}
                      /\ \A i \in 1 .. now : ~trace[i].a.lane => ~Lost(i)
                      /\ \A e \in errors : e.at = "log"
               PROVE  Holds(trace[now].root, folded)
    BY DEF ComparedWithRecorded
  <2>1. TypeOK /\ BaseInv /\ FoldInv /\ ~Unfolded
    BY DEF IInv, Unfolded
  <2>2. base.main = trace[now].root
    BY <2>1, BaseAtCheckpoint DEF IsLane, action
  <2>3. now \in 1 .. now /\ IsPoint(now)
    BY <2>1, ActionForm DEF IsPoint
  <2>4. folded = Present(base.main)
    BY <2>1, <2>3 DEF FoldInv, KeptUpTo, OnlyLogErrors
  <2>5. QED
    BY <2>2, <2>4 DEF Holds, SnapshotOf
<1>2. QED
  BY <1>1, Invariance, PTL

\* A forced sync that lets the replay continue has put the container where the
\* source was after this action (_force_sync and the reapplied tools).
THEOREM ContinuedIsRecordedCorrect == Spec => []ContinuedIsRecorded
<1>1. IInv => ContinuedIsRecorded
  BY DEF IInv, SyncInv, ContinuedIsRecorded
<1>2. QED
  BY <1>1, Invariance, PTL

LEMMA SummaryFromInv == IInv => SummaryMatchesTrace
<1> SUFFICES ASSUME IInv PROVE SummaryMatchesTrace
  OBVIOUS
<1>1. TypeOK /\ LogInv /\ CountInv /\ counts \in Counts
  BY DEF IInv, TypeOK
<1>2. Len(log) \in Nat /\ DOMAIN log = 1 .. Len(log) /\ IsFiniteSet(DOMAIN log)
  BY <1>1, LogEntries, FS_Interval
<1>3. counts.continued <= counts.successes /\ counts.successes <= counts.attempts
  <2> DEFINE A == {n \in DOMAIN log : log[n].res.attempted}
  <2> DEFINE S == {n \in DOMAIN log : log[n].res.success}
  <2> DEFINE C == {n \in DOMAIN log : log[n].res.continued}
  <2>1. C \subseteq S /\ S \subseteq A /\ A \subseteq DOMAIN log
    BY <1>1 DEF LogInv
  <2>2. /\ counts.continued = Cardinality(C) /\ counts.successes = Cardinality(S)
        /\ counts.attempts = Cardinality(A)
    BY <1>1 DEF CountInv
  <2>3. Cardinality(C) <= Cardinality(S) /\ Cardinality(S) <= Cardinality(A)
    <3> HIDE DEF A, S, C
    <3>1. IsFiniteSet(A) /\ IsFiniteSet(S)
      BY <1>2, <2>1, FS_Subset
    <3>2. QED
      BY <2>1, <3>1, FS_Subset
  <2>4. QED
    BY <2>2, <2>3
<1>4. pc = "next" => Len(log) + Cardinality(errors) = Cardinality(Known)
  <2>1. pc = "next" => Held = 0
    BY DEF Held, InHand, InHandPCs
  <2>2. IsFiniteSet(errors) /\ Cardinality(errors) \in Nat
    BY <1>1, FS_CardinalityType DEF TypeOK
  <2>3. QED
    BY <1>1, <1>2, <2>1, <2>2 DEF CountInv
<1>5. QED
  BY <1>1, <1>3, <1>4 DEF SummaryMatchesTrace, Records, CountInv, Known

LEMMA FaithfulFromInv == IInv => SuccessIsFaithful
<1> SUFFICES ASSUME IInv, pc = "done", Success PROVE SuccessIsFaithful
  BY DEF SuccessIsFaithful
<1>1. TypeOK /\ LogInv /\ CountInv /\ counts \in Counts
  BY DEF IInv, TypeOK
<1>2. IsFiniteSet(errors) /\ Cardinality(errors) \in Nat /\ counts.mismatches \in Nat
  BY <1>1, FS_CardinalityType DEF TypeOK, Counts
<1>3. counts.mismatches = 0 /\ Cardinality(errors) = 0
  BY <1>2 DEF Success, FailedActions
<1>4. errors = {}
  BY <1>2, <1>3, FS_EmptySet
<1>5. \A n \in DOMAIN log : log[n].res.reason = "none"
  <2> DEFINE S == {n \in DOMAIN log : log[n].res.reason # "none"}
  <2>1. IsFiniteSet(S) /\ Cardinality(S) = 0
    <3>1. IsFiniteSet(DOMAIN log) /\ S \subseteq DOMAIN log
      BY <1>1, LogEntries, FS_Interval
    <3>2. QED
      BY <1>1, <1>3, <3>1, FS_Subset DEF CountInv
  <2>2. S = {}
    <3> HIDE DEF S
    <3>1. QED
      BY <2>1, FS_EmptySet
  <2>3. QED
    BY <2>2
<1>6. Logged = Known
  <2>1. Waiting = {} /\ Caught = {}
    BY <1>4 DEF Waiting, InHand, InHandPCs, Caught
  <2>2. QED
    BY <1>1, <2>1 DEF LogInv
<1>7. QED
  BY <1>1, <1>5, <1>6 DEF SuccessIsFaithful, LogInv, Logged, Known

LEMMA FlaggedFromInv == IInv => LaneMismatchFlagged
<1> SUFFICES ASSUME IInv, pc # "next", cur.effective = "cas", ~strayed, faults = 0, CleanHistory
             PROVE  cur.laneInduced
  BY DEF LaneMismatchFlagged
<1>1. TypeOK /\ CurInv /\ FollowInv
  BY DEF IInv
<1>2. InHand
  BY <1>1 DEF TypeOK, CurInv, Idle, InHand
<1>3. container
  BY <1>1, <1>2 DEF CurInv, InStep
<1>4. QED
  BY <1>1, <1>2, <1>3 DEF FollowInv, Followed

\* The records, the counters, the success and the lane flag are what happened
\* (the summary of _replay_cloud_model_session and its action records).
THEOREM ReportFaithfulCorrect == Spec => []ReportFaithful
<1>1. IInv => ReportFaithful
  BY SummaryFromInv, FaithfulFromInv, FlaggedFromInv DEF ReportFaithful
<1>2. QED
  BY <1>1, Invariance, PTL
=============================================================================
