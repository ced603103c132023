---------------------------- MODULE PersistenceProofs ----------------------------
(***************************************************************************)
(* Proofs about what a run leaves on disk.  CheckpointChain, for every set *)
(* of paths and contents, every rebaseline limit and every length of the   *)
(* trace: the chain of an action restores what the source had, a skipped   *)
(* checkpoint changed nothing, and the fold is right for the paths that    *)
(* keep their type.  AgentSession, for every set of plans and every bound: *)
(* the saved history only grows, what is archived is noted, and, where no  *)
(* subagent announces into the session, the history is well formed and     *)
(* what the user was told of a step is on record.                          *)
(***************************************************************************)
EXTENDS CheckpointChain, AgentSession, FiniteSetTheorems, SequenceTheorems,
        WellFoundedInduction, TLAPS

-----------------------------------------------------------------------------
(* Induction, and functions that are defined by recursion.                 *)

LEMMA SetInduction ==
  ASSUME NEW T, 0 \in T, \A n \in Nat : n \in T => n + 1 \in T
  PROVE  \A n \in Nat : n \in T
<1> SUFFICES ASSUME NEW x \in Nat, x \notin T PROVE FALSE
  OBVIOUS
<1> DEFINE D == {d \in 0 .. x : d \notin T}
<1> DEFINE E == D \ {x}
<1> DEFINE f == [d \in D |-> d - 1]
<1>1. IsFiniteSet(D) /\ Cardinality(D) \in Nat
  <2>1. D \subseteq 0 .. x /\ IsFiniteSet(0 .. x)
    BY FS_Interval
  <2>2. QED
    BY <2>1, FS_Subset, FS_CardinalityType
<1>2. x \in D
  OBVIOUS
<1>3. ASSUME NEW d \in D PROVE d - 1 \in E
  <2>1. d # 0 /\ d - 1 \in Nat /\ d - 1 \notin T
    BY <1>3
  <2>2. QED
    BY <2>1
<1>4. f \in [D -> E]
  BY <1>3
<1>5. \A d, e \in D : d # e => f[d] # f[e]
  OBVIOUS
<1>6. IsFiniteSet(E) /\ Cardinality(E) = Cardinality(D) - 1
  <2> HIDE DEF D
  <2>1. QED
    BY <1>1, <1>2, FS_RemoveElement
<1>7. QED
  <2> HIDE DEF D, E, f
  <2>1. Cardinality(E) < Cardinality(D)
    BY <1>1, <1>6
  <2>2. \E d, e \in D : d # e /\ f[d] = f[e]
    BY <1>1, <1>4, <1>6, <2>1, FS_PigeonHole
  <2>3. QED
    BY <1>5, <2>2

\* The same up to a bound.
LEMMA UpTo ==
  ASSUME NEW n \in Nat, NEW T, 0 \in T, \A k \in 1 .. n : k - 1 \in T => k \in T
  PROVE  \A k \in 0 .. n : k \in T
<1> DEFINE U == {k \in Nat : k <= n => k \in T}
<1>1. 0 \in U
  OBVIOUS
<1>2. \A k \in Nat : k \in U => k + 1 \in U
  <2>1. SUFFICES ASSUME NEW k \in Nat, k \in U, k + 1 <= n PROVE k + 1 \in T
    OBVIOUS
  <2>2. k \in T /\ k + 1 \in 1 .. n /\ (k + 1) - 1 = k
    BY <2>1
  <2>3. QED
    BY <2>2
<1>3. \A k \in Nat : k \in U
  <2> HIDE DEF U
  <2>1. QED
    BY <1>1, <1>2, SetInduction
<1>4. QED
  BY <1>3

\* A function on 0 .. n given by its first value and by the step from each value
\* to the next exists.
Steps(n, S) == [1 .. n -> [S -> S]]
IsRecursion(g, n, S, first, step) ==
  g \in [0 .. n -> S] /\ g[0] = first /\ \A k \in 1 .. n : g[k] = step[k][g[k - 1]]

LEMMA RecursionExists ==
  ASSUME NEW n \in Nat, NEW S, NEW first \in S, NEW step \in Steps(n, S)
  PROVE  \E g : IsRecursion(g, n, S, first, step)
<1> USE DEF Steps, IsRecursion
<1> DEFINE T == {m \in 0 .. n : \E g \in [0 .. m -> S] :
                   g[0] = first /\ \A k \in 1 .. m : g[k] = step[k][g[k - 1]]}
<1>1. 0 \in T
  <2> DEFINE g == [k \in 0 .. 0 |-> first]
  <2>1. g \in [0 .. 0 -> S] /\ g[0] = first /\ 0 \in 0 .. n
    OBVIOUS
  <2>2. \A k \in 1 .. 0 : g[k] = step[k][g[k - 1]]
    OBVIOUS
  <2> HIDE DEF g
  <2>3. QED
    BY <2>1, <2>2
<1>2. \A m \in 1 .. n : m - 1 \in T => m \in T
  <2>1. SUFFICES ASSUME NEW m \in 1 .. n, m - 1 \in T PROVE m \in T
    OBVIOUS
  <2>2. PICK g \in [0 .. m - 1 -> S] :
          g[0] = first /\ \A k \in 1 .. m - 1 : g[k] = step[k][g[k - 1]]
    BY <2>1
  <2> DEFINE h == [k \in 0 .. m |-> IF k = m THEN step[m][g[m - 1]] ELSE g[k]]
  <2>3. g[m - 1] \in S /\ step[m] \in [S -> S]
    BY <2>1
  <2>4. h \in [0 .. m -> S]
    BY <2>3
  <2>5. h[0] = first
    BY <2>2
  <2>6. ASSUME NEW k \in 1 .. m PROVE h[k] = step[k][h[k - 1]]
    <3>1. CASE k = m
      <4>1. k - 1 \in 0 .. m /\ k - 1 # m
        BY <3>1
      <4>2. QED
        BY <3>1, <4>1
    <3>2. CASE k # m
      <4>1. k \in 1 .. m - 1 /\ k - 1 \in 0 .. m - 1 /\ k - 1 # m
        BY <3>2
      <4>2. h[k] = g[k] /\ h[k - 1] = g[k - 1]
        BY <3>2, <4>1
      <4>3. QED
        BY <2>2, <4>1, <4>2
    <3>3. QED
      BY <3>1, <3>2
  <2>7. m \in 0 .. n
    OBVIOUS
  <2> HIDE DEF h
  <2>8. QED
    BY <2>4, <2>5, <2>6, <2>7
<1>3. n \in T
  <2> HIDE DEF T
  <2>1. \A k \in 0 .. n : k \in T
    BY <1>1, <1>2, UpTo
  <2>2. QED
    BY <2>1
<1>4. QED
  BY <1>3
-----------------------------------------------------------------------------
(* The inductive invariant.                                                *)

PCs == {"idle", "begun", "scanned", "written", "listed", "walked", "rechecked"}
Snapshots == [Paths -> Entries]
CheckpointKinds == {"none", "error", "skipped", "full", "incremental"}
Checkpoints == [kind : CheckpointKinds, entries : [Paths -> ManifestEntries],
                deleted : SUBSET Paths, bytes : Nat]

ChainTypeOK ==
  /\ recorder \in {"host", "container"}
  /\ root \in Snapshots /\ scan \in Snapshots
  /\ base \in Snapshots \cup {NoSnapshot}
  /\ now \in Nat /\ rootMtime \in Nat /\ marker \in Nat /\ chainBytes \in Nat
  /\ pc \in PCs
  /\ draft \in Checkpoints
  /\ unread \in SUBSET Paths /\ doubt \in SUBSET Paths
  /\ trace \in Seq([checkpoint : Checkpoints, root : Snapshots, doubt : SUBSET Paths])

\* An entry of a manifest whatever its mode, and what a manifest would say of
\* an entry of a snapshot.
Plain(e) == IF e.kind = "file" THEN [kind |-> "file", data |-> e.data] ELSE e
Seen(e) == Plain(ManifestEntry(e))

\* The mtime and the type of a path stand for its contents.
SameStamp(old, new) ==
  \A p \in Paths :
    old[p].kind # "none" /\ EntryType(old[p]) = EntryType(new[p])
      /\ old[p].mtime = new[p].mtime
    => Seen(old[p]) = Seen(new[p])

\* Nothing of a snapshot is newer than the clock.
Past(snapshot) == \A p \in Paths : snapshot[p].kind # "none" => snapshot[p].mtime <= now

Scanning == {"scanned", "written", "listed", "walked", "rechecked"}

ClockInv ==
  /\ marker <= now
  /\ Past(root) /\ Past(scan) /\ (base # NoSnapshot => Past(base))
  /\ base # NoSnapshot => SameStamp(base, root)
  /\ pc \in Scanning => SameStamp(scan, root)
  /\ pc \in Scanning /\ ~ IsFull => SameStamp(base, scan)

\* Only the container recorder leaves files unread, of those it was to read.
UnreadInv ==
  /\ pc \notin {"walked", "rechecked"} => unread = {}
  /\ unread \subseteq ToRead

\* What a path is after the manifests up to a snapshot.  A path in doubt may be
\* anything but a link, which nothing could be written through.
Agrees(files, snapshot, d) ==
  \A p \in Paths : IF p \in d THEN files[p].kind # "link" ELSE Plain(files[p]) = Seen(snapshot[p])

\* What a full manifest says of its snapshot, and an incremental one of its
\* snapshot and the one before, with the paths in doubt behind and before it.
IsFullOf(c, snapshot, d) == Agrees(c.entries, snapshot, d)
IsStepOf(c, prev, was, snapshot, d) ==
  \A p \in Paths :
    /\ c.entries[p] # Absent => p \notin d /\ Plain(c.entries[p]) = Seen(snapshot[p])
    /\ c.entries[p].kind = "file" /\ prev[p].kind = "link" => p \in c.deleted
    /\ c.entries[p] = Absent /\ p \in d =>
         p \in c.deleted \/ p \in was \/ prev[p].kind # "link"
    /\ c.entries[p] = Absent /\ p \notin d =>
         IF p \in c.deleted THEN Seen(snapshot[p]) = Absent
         ELSE p \notin was /\ Seen(prev[p]) = Seen(snapshot[p])
    /\ p \in c.deleted => /\ prev[p].kind # "none"
                          /\ EntryType(prev[p]) # EntryType(snapshot[p])
Stored(c, store) ==
  \A p \in Paths : c.entries[p].kind = "file" => c.entries[p].data \in store

\* The host's check passes if it is made now.
Settled == ~ EntryNewer /\ rootMtime <= marker

DraftInv ==
  /\ pc = "scanned" /\ Settled => \A p \in Paths : Seen(root[p]) = Seen(scan[p])
  /\ pc = "written" =>
       /\ Stored(draft, blobs)
       /\ draft.kind = IF IsFull THEN "full" ELSE "incremental"
       /\ Settled => IF IsFull THEN IsFullOf(draft, scan, Doubted(draft))
                     ELSE IsStepOf(draft, base, doubt, scan, Doubted(draft))

\* The last manifest and the last full one of the first i actions.
IsLast(j, i) == j \in ManifestsUpTo(i) /\ \A k \in ManifestsUpTo(i) : k <= j
IsLastFull(j, i) == j \in FullsUpTo(i) /\ \A k \in FullsUpTo(i) : k <= j

ManifestInv ==
  \A i \in 1 .. Len(trace) :
    LET c == trace[i].checkpoint
        snapshot == trace[i].root
        d == trace[i].doubt
    IN  /\ ~ HasManifest(c) => c.bytes = 0
        /\ HasManifest(c) => Stored(c, blobs) /\ \E s \in 1 .. i : IsLastFull(s, i)
        /\ c.kind = "full" => IsFullOf(c, snapshot, d)
        /\ c.kind = "incremental" =>
             \E j \in 1 .. i - 1 : /\ IsLast(j, i - 1)
                                   /\ IsStepOf(c, trace[j].root, trace[j].doubt, snapshot, d)
        /\ c.kind = "skipped" =>
             \E j \in 1 .. i : /\ IsLast(j, i)
                               /\ \A p \in Paths \ d : Seen(trace[j].root[p]) = Seen(snapshot[p])

\* The base is the snapshot of the last manifest.
BaseInv ==
  base # NoSnapshot =>
    \E j \in 1 .. Len(trace) :
      IsLast(j, Len(trace)) /\ trace[j].root = base /\ trace[j].doubt = doubt

BytesInv == chainBytes = NewBytes[Len(trace)] /\ ChainBounded

IInv ==
  ChainTypeOK /\ ClockInv /\ UnreadInv /\ DraftInv /\ ManifestInv /\ BaseInv /\ BytesInv
-----------------------------------------------------------------------------
(* Entries of a snapshot.                                                  *)

LEMMA EntryForms ==
  ASSUME NEW e \in Entries
  PROVE  \/ e = Absent
         \/ /\ e.kind = "file" /\ e.data \in Contents /\ e.exec \in BOOLEAN
            /\ e.mtime \in 0 .. MaxChanges
            /\ e = [kind |-> "file", data |-> e.data, exec |-> e.exec, mtime |-> e.mtime]
         \/ /\ e.kind = "link" /\ e.data \in Contents /\ e.mtime \in 0 .. MaxChanges
            /\ e = [kind |-> "link", data |-> e.data, mtime |-> e.mtime]
         \/ e.kind = "dir" /\ e.mtime \in 0 .. MaxChanges
            /\ e = [kind |-> "dir", mtime |-> e.mtime]
  BY DEF Entries

LEMMA KindOf ==
  ASSUME NEW e \in Entries
  PROVE  /\ e.kind \in {"none", "file", "link", "dir"}
         /\ e.kind = "none" <=> e = Absent
         /\ e.kind # "none" => e.mtime \in Nat
  BY EntryForms, CheckpointChainAssumption DEF Absent

LEMMA ManifestEntryForms ==
  ASSUME NEW e \in Entries
  PROVE  /\ e.kind = "file" => ManifestEntry(e) = [kind |-> "file", data |-> e.data, exec |-> e.exec]
         /\ e.kind = "link" => ManifestEntry(e) = [kind |-> "link", data |-> e.data]
         /\ e.kind \notin {"file", "link"} => ManifestEntry(e) = Absent
         /\ e.kind \in {"file", "link"} => ManifestEntry(e) # Absent
         /\ ManifestEntry(e) \in ManifestEntries
  BY DEF ManifestEntry, ManifestEntries, Absent

LEMMA SeenForms ==
  ASSUME NEW e \in Entries
  PROVE  /\ e.kind = "file" => Seen(e) = [kind |-> "file", data |-> e.data]
         /\ e.kind = "link" => Seen(e) = [kind |-> "link", data |-> e.data]
         /\ e.kind \notin {"file", "link"} => Seen(e) = Absent
  BY ManifestEntryForms DEF Seen, Plain, Absent

LEMMA EntryTypes ==
  ASSUME NEW e \in Entries, NEW f \in Entries
  PROVE  EntryType(e) = EntryType(f) <=>
           e.kind = f.kind /\ (e.kind = "link" => e.data = f.data)
  BY KindOf DEF EntryType
-----------------------------------------------------------------------------
(* The recursive functions of the replay.                                  *)

LEMMA TraceEntries ==
  ASSUME ChainTypeOK
  PROVE  /\ Len(trace) \in Nat
         /\ \A i \in 1 .. Len(trace) :
              /\ trace[i].checkpoint \in Checkpoints /\ trace[i].root \in Snapshots
              /\ trace[i].doubt \in SUBSET Paths
<1> DEFINE Actions == [checkpoint : Checkpoints, root : Snapshots, doubt : SUBSET Paths]
<1>1. trace \in Seq(Actions)
  BY DEF ChainTypeOK
<1>2. Len(trace) \in Nat /\ \A i \in 1 .. Len(trace) : trace[i] \in Actions
  <2> HIDE DEF Actions
  <2>1. QED
    BY <1>1
<1>3. QED
  BY <1>2

LEMMA CheckpointForm ==
  ASSUME NEW c \in Checkpoints
  PROVE  /\ c.kind \in CheckpointKinds /\ c.deleted \subseteq Paths /\ c.bytes \in Nat
         /\ \A p \in Paths : c.entries[p] \in ManifestEntries
  BY DEF Checkpoints

BytesRecursion ==
  /\ NewBytes \in [0 .. Len(trace) -> Nat]
  /\ NewBytes[0] = 0
  /\ \A i \in 1 .. Len(trace) :
       NewBytes[i] = IF i \in FullsUpTo(i) THEN 0
                     ELSE NewBytes[i - 1] + trace[i].checkpoint.bytes

LEMMA NewBytesIs == ChainTypeOK => BytesRecursion
<1> SUFFICES ASSUME ChainTypeOK PROVE BytesRecursion
  OBVIOUS
<1> DEFINE n == Len(trace)
<1> DEFINE first == 0
<1> DEFINE Body(g, i) == IF i = 0 \/ i \in FullsUpTo(i) THEN 0
                         ELSE g[i - 1] + trace[i].checkpoint.bytes
<1> DEFINE step == [i \in 1 .. n |-> [x \in Nat |->
                      IF i \in FullsUpTo(i) THEN 0 ELSE x + trace[i].checkpoint.bytes]]
<1>1. n \in Nat /\ first \in Nat /\ \A i \in 1 .. n : trace[i].checkpoint.bytes \in Nat
  BY TraceEntries, CheckpointForm
<1>2. step \in Steps(n, Nat)
  BY <1>1 DEF Steps
<1>3. PICK g : g \in [0 .. n -> Nat] /\ g[0] = first /\ \A k \in 1 .. n : g[k] = step[k][g[k - 1]]
  <2> HIDE DEF n, step, first
  <2>1. \E g : IsRecursion(g, n, Nat, first, step)
    BY <1>1, <1>2, RecursionExists
  <2>2. QED
    BY <2>1 DEF IsRecursion
<1>4. ASSUME NEW i \in 1 .. n PROVE g[i] = Body(g, i)
  <2>1. i - 1 \in 0 .. n /\ g[i - 1] \in Nat /\ i # 0
    <3>1. i - 1 \in 0 .. n /\ i # 0
      BY <1>1
    <3> HIDE DEF n
    <3>2. QED
      BY <1>3, <3>1
  <2>2. g[i] = step[i][g[i - 1]]
    BY <1>3
  <2>3. QED
    BY <2>1, <2>2
<1>5. g = [i \in 0 .. n |-> Body(g, i)]
  <2>1. \A i \in 0 .. n : g[i] = Body(g, i)
    BY <1>1, <1>3, <1>4
  <2>2. g = [i \in 0 .. n |-> g[i]]
    BY <1>3
  <2> HIDE DEF n, Body
  <2>3. QED
    BY <2>1, <2>2
<1>6. NewBytes = [i \in 0 .. n |-> Body(NewBytes, i)]
  BY <1>5 DEF NewBytes
<1>7. \A i \in 0 .. n : NewBytes[i] = Body(NewBytes, i)
  BY <1>6
<1>8. NewBytes \in [0 .. n -> Nat]
  <2> DEFINE T == {k \in 0 .. n : NewBytes[k] \in Nat}
  <2>1. 0 \in T
    BY <1>1, <1>7
  <2>2. \A k \in 1 .. n : k - 1 \in T => k \in T
    BY <1>1, <1>7
  <2>3. \A k \in 0 .. n : k \in T
    <3> HIDE DEF T, n
    <3>1. QED
      BY <1>1, <2>1, <2>2, UpTo
  <2> HIDE DEF n
  <2>4. QED
    BY <1>6, <2>3
<1>9. \A i \in 1 .. n : i # 0
  OBVIOUS
<1>10. QED
  BY <1>1, <1>7, <1>8, <1>9 DEF BytesRecursion

LEMMA NewBytesNext == ChainTypeOK' => BytesRecursion'
  BY NewBytesIs, PTL
-----------------------------------------------------------------------------
(* What the recorder computes from two snapshots.                          *)

LEMMA SnapshotEntries ==
  ASSUME NEW s \in Snapshots, NEW p \in Paths
  PROVE  s[p] \in Entries
  BY DEF Snapshots

\* A path without a difference between two snapshots.
LEMMA SameUnlessChanged ==
  ASSUME NEW prev \in Snapshots, NEW snapshot \in Snapshots, SameStamp(prev, snapshot),
         NEW p \in Paths, p \notin ChangedPaths(prev, snapshot)
  PROVE  IF p \in DeletedPaths(prev, snapshot) THEN Seen(snapshot[p]) = Absent
         ELSE Seen(prev[p]) = Seen(snapshot[p])
<1> DEFINE e == prev[p]
<1> DEFINE f == snapshot[p]
<1>1. e \in Entries /\ f \in Entries
  BY SnapshotEntries
<1>2. p \in DeletedPaths(prev, snapshot) <=> e.kind # "none" /\ EntryType(e) # EntryType(f)
  BY DEF DeletedPaths
<1>3. f.kind \in {"file", "link"} =>
        e.kind # "none" /\ EntryType(e) = EntryType(f) /\ e.mtime = f.mtime
  BY DEF ChangedPaths
<1>4. e.kind # "none" /\ EntryType(e) = EntryType(f) /\ e.mtime = f.mtime => Seen(e) = Seen(f)
  BY DEF SameStamp
<1>5. CASE f.kind \in {"file", "link"}
  BY <1>2, <1>3, <1>4, <1>5
<1>6. CASE f.kind \notin {"file", "link"}
  <2>1. Seen(f) = Absent
    BY <1>1, <1>6, SeenForms
  <2>2. p \notin DeletedPaths(prev, snapshot) => e.kind \notin {"file", "link"}
    BY <1>1, <1>2, <1>6, EntryTypes
  <2>3. p \notin DeletedPaths(prev, snapshot) => Seen(e) = Absent
    BY <2>2, <1>1, SeenForms
  <2>4. QED
    BY <2>1, <2>3
<1>7. QED
  BY <1>5, <1>6

\* An incremental manifest of the differences between two snapshots, but for some
\* files, with the contents of a source that agrees with the newer one, is a step
\* between them that leaves those files in doubt.
LEMMA DifferencesAreAStep ==
  ASSUME NEW prev \in Snapshots, NEW snapshot \in Snapshots, NEW source \in Snapshots,
         SameStamp(prev, snapshot),
         \A p \in Paths : Seen(source[p]) = Seen(snapshot[p]),
         NEW lost, \A p \in lost : snapshot[p].kind = "file",
         NEW c, c.deleted = DeletedPaths(prev, snapshot),
         \A p \in Paths :
           c.entries[p] = IF p \in ChangedPaths(prev, snapshot) \ lost
                          THEN ManifestEntry(source[p]) ELSE Absent,
         NEW was \in SUBSET Paths, NEW d,
         d = {p \in was \ c.deleted : c.entries[p] = Absent} \cup lost
  PROVE  IsStepOf(c, prev, was, snapshot, d)
<1>1. SUFFICES ASSUME NEW p \in Paths
      PROVE  /\ c.entries[p] # Absent => p \notin d /\ Plain(c.entries[p]) = Seen(snapshot[p])
             /\ c.entries[p].kind = "file" /\ prev[p].kind = "link" => p \in c.deleted
             /\ c.entries[p] = Absent /\ p \in d =>
                  p \in c.deleted \/ p \in was \/ prev[p].kind # "link"
             /\ c.entries[p] = Absent /\ p \notin d =>
                  IF p \in c.deleted THEN Seen(snapshot[p]) = Absent
                  ELSE p \notin was /\ Seen(prev[p]) = Seen(snapshot[p])
             /\ p \in c.deleted => /\ prev[p].kind # "none"
                                   /\ EntryType(prev[p]) # EntryType(snapshot[p])
  BY DEF IsStepOf
<1> DEFINE e == prev[p]
<1> DEFINE f == snapshot[p]
<1> DEFINE g == source[p]
<1>2. e \in Entries /\ f \in Entries /\ g \in Entries
  BY SnapshotEntries
<1>3. p \in c.deleted <=> e.kind # "none" /\ EntryType(e) # EntryType(f)
  BY DEF DeletedPaths
<1>4. p \in ChangedPaths(prev, snapshot) => f.kind \in {"file", "link"}
  BY DEF ChangedPaths
<1>5. Seen(g) = Seen(f) /\ Plain(ManifestEntry(g)) = Seen(g)
  BY DEF Seen
<1>6. g.kind = f.kind \/ (g.kind \notin {"file", "link"} /\ f.kind \notin {"file", "link"})
  BY <1>2, <1>5, SeenForms DEF Absent
<1>7. p \in d <=> (p \in was /\ p \notin c.deleted /\ c.entries[p] = Absent) \/ p \in lost
  OBVIOUS
<1>8. f.kind = "file" /\ e.kind = "link" => p \in c.deleted
  BY <1>2, <1>3, EntryTypes
<1>9. CASE p \in ChangedPaths(prev, snapshot) \ lost
  <2>1. c.entries[p] = ManifestEntry(g) /\ ManifestEntry(g) # Absent
    BY <1>2, <1>4, <1>6, <1>9, ManifestEntryForms
  <2>2. c.entries[p].kind = "file" => f.kind = "file"
    BY <2>1, <1>2, <1>4, <1>6, <1>9, ManifestEntryForms
  <2> HIDE DEF e, f, g
  <2>3. QED
    BY <2>1, <2>2, <1>3, <1>5, <1>7, <1>8, <1>9 DEF e, f, g
<1>10. CASE p \notin ChangedPaths(prev, snapshot) /\ p \notin lost
  <2>1. c.entries[p] = Absent /\ c.entries[p].kind # "file"
    BY <1>10 DEF Absent
  <2>2. IF p \in c.deleted THEN Seen(f) = Absent ELSE Seen(e) = Seen(f)
    BY <1>10, SameUnlessChanged
  <2> HIDE DEF e, f, g
  <2>3. QED
    BY <2>1, <2>2, <1>3, <1>7, <1>10 DEF e, f, g
<1>11. CASE p \in lost
  <2>1. c.entries[p] = Absent /\ c.entries[p].kind # "file" /\ p \in d /\ f.kind = "file"
    BY <1>11 DEF Absent
  <2> HIDE DEF e, f, g
  <2>2. QED
    BY <2>1, <1>3, <1>8 DEF e, f, g
<1>12. QED
  BY <1>9, <1>10, <1>11

\* Two snapshots without a difference show the same files, but for some paths.
LEMMA NoDifferences ==
  ASSUME NEW prev \in Snapshots, NEW snapshot \in Snapshots, SameStamp(prev, snapshot), NEW d,
         ChangedPaths(prev, snapshot) \ d = {}, DeletedPaths(prev, snapshot) = {}
  PROVE  \A p \in Paths \ d : Seen(prev[p]) = Seen(snapshot[p])
<1>1. \A p \in Paths \ d : p \notin ChangedPaths(prev, snapshot)
  OBVIOUS
<1>2. QED
  BY <1>1, SameUnlessChanged

LEMMA ManifestType ==
  ASSUME NEW paths \in SUBSET Paths, NEW snapshot \in Snapshots,
         NEW deleted \in SUBSET Paths, NEW store
  PROVE  LET stored == FileContents(paths, snapshot) \ store
         IN  /\ Manifest(paths, snapshot, deleted, stored) \in Checkpoints
             /\ Stored(Manifest(paths, snapshot, deleted, stored), store \cup stored)
<1> DEFINE S == {q \in paths : snapshot[q].kind = "file"}
<1> DEFINE T == FileContents(paths, snapshot)
<1> DEFINE c == Manifest(paths, snapshot, deleted, T \ store)
<1>1. IsFiniteSet(T)
  <2>1. IsFiniteSet(S)
    BY FS_Subset, CheckpointChainAssumption
  <2> DEFINE f == [q \in S |-> snapshot[q].data]
  <2>2. f \in Surjection(S, T)
    BY DEF FileContents, Surjection
  <2> HIDE DEF S, T, f
  <2>3. QED
    BY <2>1, <2>2, FS_Surjection
<1>2. Cardinality(T \ store) \in Nat
  <2> HIDE DEF T
  <2>1. QED
    BY <1>1, FS_Subset, FS_CardinalityType
<1>3. Absent \in ManifestEntries
  BY ManifestEntryForms DEF Entries, Absent
<1>4. \A p \in Paths : snapshot[p] \in Entries /\ ManifestEntry(snapshot[p]) \in ManifestEntries
  BY SnapshotEntries, ManifestEntryForms
<1>5. c \in Checkpoints
  <2> HIDE DEF T
  <2>1. QED
    BY <1>2, <1>3, <1>4 DEF Manifest, Checkpoints, CheckpointKinds
<1>6. ASSUME NEW p \in Paths, c.entries[p].kind = "file"
      PROVE  c.entries[p].data \in T
  <2>1. p \in paths /\ c.entries[p] = ManifestEntry(snapshot[p])
    BY <1>6 DEF Manifest, Absent
  <2>2. snapshot[p].kind = "file" /\ c.entries[p].data = snapshot[p].data
    BY <2>1, <1>4, <1>6, KindOf, ManifestEntryForms DEF Absent
  <2>3. QED
    BY <2>1, <2>2 DEF FileContents
<1>7. Stored(c, store \cup (T \ store))
  BY <1>6 DEF Stored
<1>8. QED
  BY <1>5, <1>7
-----------------------------------------------------------------------------
(* Type correctness.                                                       *)

LEMMA ConstantTypes ==
  /\ Absent \in Entries /\ Absent \in ManifestEntries /\ Nothing \in Snapshots
  /\ \A kind \in CheckpointKinds : NoManifest(kind) \in Checkpoints
<1>1. Absent \in Entries /\ Absent \in ManifestEntries
  BY ManifestEntryForms DEF Entries, Absent
<1>2. QED
  BY <1>1 DEF Nothing, NoManifest, Checkpoints, Snapshots

Actions == [checkpoint : Checkpoints, root : Snapshots, doubt : SUBSET Paths]

LEMMA RecordType ==
  ASSUME ChainTypeOK, NEW c \in Checkpoints, NEW s \in Snapshots, NEW d \in SUBSET Paths,
         Record(c, s, d)
  PROVE  trace' \in Seq(Actions)
<1>1. [checkpoint |-> c, root |-> s, doubt |-> d] \in Actions
  BY DEF Actions
<1>2. trace \in Seq(Actions)
  BY DEF ChainTypeOK, Actions
<1>3. QED
  BY <1>1, <1>2 DEF Record

LEMMA RecordsNoManifest ==
  ASSUME ChainTypeOK, NEW kind \in CheckpointKinds, NEW s \in Snapshots, NEW d \in SUBSET Paths,
         Record(NoManifest(kind), s, d)
  PROVE  trace' \in Seq(Actions)
  BY RecordType, ConstantTypes

LEMMA EndType ==
  ASSUME ChainTypeOK, End
  PROVE  /\ pc' \in PCs /\ marker' \in Nat /\ scan' \in Snapshots /\ draft' \in Checkpoints
         /\ unread' \in SUBSET Paths
  BY ConstantTypes DEF End, PCs, CheckpointKinds

\* The changes the recorder has for its manifest, of either kind.
LEMMA PathSets ==
  ASSUME NEW prev, NEW snapshot
  PROVE  ChangedPaths(prev, snapshot) \subseteq Paths /\ DeletedPaths(prev, snapshot) \subseteq Paths
  BY DEF ChangedPaths, DeletedPaths

LEMMA InitType == Init => ChainTypeOK
<1>1. Init => trace \in Seq([checkpoint : Checkpoints, root : Snapshots, doubt : SUBSET Paths])
  BY DEF Init
<1>2. Init => /\ root \in Snapshots /\ scan \in Snapshots
              /\ draft \in Checkpoints
  BY ConstantTypes DEF Init, Snapshots, CheckpointKinds
<1>3. QED
  BY <1>1, <1>2, CheckpointChainAssumption DEF Init, ChainTypeOK, PCs

LEMMA RootStepType ==
  ASSUME ChainTypeOK, \E p \in Paths : Change(p) \/ Chmod(p)
  PROVE  ChainTypeOK'
<1>1. CASE \E p \in Paths : Change(p)
  <2>1. root' \in Snapshots /\ now' \in Nat /\ rootMtime' \in Nat
    BY <1>1 DEF Change, ChainTypeOK, Snapshots
  <2>2. QED
    BY <1>1, <2>1 DEF Change, ChainTypeOK
<1>2. CASE \E p \in Paths : Chmod(p)
  <2>1. PICK p \in Paths : Chmod(p)
    BY <1>2
  <2>2. root[p] \in Entries /\ root[p].kind = "file"
    BY <2>1, SnapshotEntries DEF ChainTypeOK, Chmod
  <2> DEFINE e == [root[p] EXCEPT !.exec = ~ @]
  <2>3. root[p] = [kind |-> "file", data |-> root[p].data, exec |-> root[p].exec, mtime |-> root[p].mtime]
        /\ root[p].data \in Contents /\ root[p].exec \in BOOLEAN /\ root[p].mtime \in 0 .. MaxChanges
    BY <2>2, EntryForms DEF Absent
  <2>4. e = [kind |-> "file", data |-> root[p].data, exec |-> ~ root[p].exec, mtime |-> root[p].mtime]
    BY <2>3
  <2>5. e \in Entries
    BY <2>3, <2>4 DEF Entries
  <2>6. root' = [root EXCEPT ![p] = e]
    BY <2>1 DEF Chmod
  <2>7. root' \in Snapshots
    <3> HIDE DEF e
    <3>1. QED
      BY <2>5, <2>6 DEF ChainTypeOK, Snapshots
  <2>8. QED
    BY <2>1, <2>7 DEF ChainTypeOK, Chmod
<1>3. QED
  BY <1>1, <1>2

LEMMA RejectType == ASSUME ChainTypeOK, Reject PROVE ChainTypeOK'
<1>1. trace' \in Seq(Actions)
  BY RecordType, ConstantTypes DEF Reject, ChainTypeOK, CheckpointKinds
<1>2. QED
  BY <1>1, EndType DEF Reject, ChainTypeOK, Actions

LEMMA DoubtType ==
  ASSUME ChainTypeOK, NEW c
  PROVE  Doubted(c) \in SUBSET Paths
  BY DEF Doubted, ChainTypeOK

LEMMA CommitType ==
  ASSUME ChainTypeOK, NEW c \in Checkpoints, Commit(c),
         UNCHANGED <<recorder, root, rootMtime, now>>
  PROVE  ChainTypeOK'
<1>1. trace' \in Seq(Actions)
  BY RecordType, DoubtType DEF Commit, ChainTypeOK
<1>2. chainBytes' \in Nat /\ doubt' \in SUBSET Paths
  BY CheckpointForm, DoubtType DEF Commit, ChainTypeOK
<1>3. QED
  BY <1>1, <1>2, EndType DEF Commit, ChainTypeOK, Actions

LEMMA DraftTypes ==
  ASSUME ChainTypeOK
  PROVE  /\ HostWrite => draft' \in Checkpoints
         /\ ContainerManifest \in Checkpoints
<1>1. IsFull \/ base \in Snapshots
  BY DEF IsFull, ChainTypeOK
<1>2. /\ (IF IsFull THEN {} ELSE DeletedPaths(base, scan)) \in SUBSET Paths
      /\ (IF IsFull THEN Paths ELSE ChangedPaths(base, scan)) \in SUBSET Paths
      /\ ContainerDeleted \in SUBSET Paths /\ ContainerPaths \in SUBSET Paths
  BY PathSets DEF ContainerDeleted, ContainerPaths, Differing
<1>3. HostWrite => draft' \in Checkpoints
  <2> DEFINE paths == IF IsFull THEN Paths ELSE ChangedPaths(base, scan)
  <2> DEFINE deleted == IF IsFull THEN {} ELSE DeletedPaths(base, scan)
  <2>1. HostWrite => draft' = Manifest(paths, root, deleted, FileContents(paths, root) \ blobs)
    BY DEF HostWrite
  <2>2. paths \in SUBSET Paths /\ deleted \in SUBSET Paths /\ root \in Snapshots
    BY <1>2 DEF ChainTypeOK
  <2> HIDE DEF paths, deleted
  <2>3. QED
    BY <2>1, <2>2, ManifestType
<1>4. ContainerManifest \in Checkpoints
  BY <1>2, ManifestType DEF ContainerManifest, ChainTypeOK
<1>5. QED
  BY <1>3, <1>4

\* What reading the files that differ makes of the snapshot.
LEMMA ContainerReadIs ==
  ASSUME ChainTypeOK, ContainerRead
  PROVE  /\ scan' \in Snapshots /\ unread' \in SUBSET ToRead
         /\ \A p \in Paths : p \notin ToRead => scan'[p] = scan[p]
         /\ \A p \in ToRead :
              /\ scan[p].kind = "file" /\ scan'[p].kind = "file"
              /\ scan'[p].mtime = scan[p].mtime
              /\ p \in unread' => scan'[p].data = scan[p].data
              /\ p \notin unread' =>
                   root[p].kind = "link" \/ (root[p].kind = "file" /\ scan'[p].data = root[p].data)
<1>1. PICK lost \in SUBSET ToRead, data \in [ToRead -> Contents] :
        /\ \A p \in ToRead \ lost :
             root[p].kind = "link" \/ (root[p].kind = "file" /\ data[p] = root[p].data)
        /\ \A p \in lost : data[p] = scan[p].data
        /\ unread' = lost
        /\ scan' = [p \in Paths |-> IF p \in ToRead THEN [scan[p] EXCEPT !.data = data[p]]
                                    ELSE scan[p]]
  BY DEF ContainerRead
<1>2. ASSUME NEW p \in ToRead
      PROVE  /\ p \in Paths /\ scan[p].kind = "file" /\ scan'[p] \in Entries
             /\ scan'[p].kind = "file" /\ scan'[p].mtime = scan[p].mtime
             /\ scan'[p].data = data[p]
  <2>1. p \in Paths /\ scan[p].kind = "file" /\ data[p] \in Contents
    BY <1>1, PathSets DEF ToRead, Differing
  <2>2. scan[p] \in Entries
    BY <2>1, SnapshotEntries DEF ChainTypeOK
  <2>3. /\ scan[p] = [kind |-> "file", data |-> scan[p].data, exec |-> scan[p].exec,
                      mtime |-> scan[p].mtime]
        /\ scan[p].exec \in BOOLEAN /\ scan[p].mtime \in 0 .. MaxChanges
    BY <2>1, <2>2, EntryForms DEF Absent
  <2>4. scan'[p] = [kind |-> "file", data |-> data[p], exec |-> scan[p].exec,
                    mtime |-> scan[p].mtime]
    <3>1. scan'[p] = [scan[p] EXCEPT !.data = data[p]]
      BY <1>1, <2>1
    <3>2. QED
      BY <2>3, <3>1
  <2>5. scan'[p] \in Entries
    BY <2>1, <2>3, <2>4 DEF Entries
  <2>6. QED
    BY <2>1, <2>4, <2>5
<1>3. \A p \in Paths : p \notin ToRead => scan'[p] = scan[p]
  BY <1>1
<1>4. scan' \in Snapshots
  <2>1. \A p \in Paths : scan'[p] \in Entries
    BY <1>2, <1>3, SnapshotEntries DEF ChainTypeOK
  <2>2. scan' = [p \in Paths |-> scan'[p]]
    BY <1>1
  <2>3. QED
    BY <2>1, <2>2 DEF Snapshots
<1>5. ASSUME NEW p \in ToRead
      PROVE  /\ p \in unread' => scan'[p].data = scan[p].data
             /\ p \notin unread' =>
                  root[p].kind = "link" \/ (root[p].kind = "file" /\ scan'[p].data = root[p].data)
  <2>1. scan'[p].data = data[p]
    BY <1>2
  <2>2. /\ p \in unread' => data[p] = scan[p].data
        /\ p \notin unread' =>
             root[p].kind = "link" \/ (root[p].kind = "file" /\ data[p] = root[p].data)
    BY <1>1
  <2>3. QED
    BY <2>1, <2>2
<1>6. unread' \in SUBSET ToRead
  BY <1>1
<1>7. QED
  BY <1>2, <1>3, <1>4, <1>5, <1>6

LEMMA TypeStep == ChainTypeOK /\ [Next]_vars => ChainTypeOK'
<1> SUFFICES ASSUME ChainTypeOK, [Next]_vars PROVE ChainTypeOK'
  OBVIOUS
<1> USE DEF Actions
<1> {} \in SUBSET Paths /\ {"none", "skipped", "error"} \subseteq CheckpointKinds
  BY DEF CheckpointKinds
<1>1. CASE \E p \in Paths : Change(p) \/ Chmod(p)
  BY <1>1, RootStepType
<1>2. CASE OtherTool
  <2>1. trace' \in Seq(Actions)
    BY <1>2, RecordsNoManifest DEF OtherTool, ChainTypeOK
  <2>2. QED
    BY <1>2, <2>1 DEF OtherTool, ChainTypeOK
<1>3. CASE Begin
  BY <1>3 DEF Begin, ChainTypeOK, PCs
<1>4. CASE HostScan
  <2>1. CASE Unchanged(root)
    <3>1. trace' \in Seq(Actions)
      BY <1>4, <2>1, RecordsNoManifest DEF HostScan, ChainTypeOK
    <3>2. QED
      BY <1>4, <2>1, <3>1, EndType DEF HostScan, ChainTypeOK
  <2>2. CASE ~ Unchanged(root)
    BY <1>4, <2>2 DEF HostScan, ChainTypeOK, PCs
  <2>3. QED
    BY <2>1, <2>2
<1>5. CASE HostWrite
  BY <1>5, DraftTypes DEF HostWrite, ChainTypeOK, PCs
<1>6. CASE HostCheck
  BY <1>6, CommitType DEF HostCheck, ChainTypeOK
<1>7. CASE HostReject \/ HostFails \/ SnapshotFails \/ FetchFails
  BY <1>7, RejectType DEF HostReject, HostFails, SnapshotFails, FetchFails
<1>8. CASE ContainerList \/ ContainerRead
  <2>1. CASE ContainerList
    BY <2>1 DEF ContainerList, ChainTypeOK, PCs
  <2>2. CASE ContainerRead
    <3>1. ToRead \subseteq Paths
      BY PathSets DEF ToRead, Differing
    <3>2. QED
      BY <2>2, <3>1, ContainerReadIs DEF ContainerRead, ChainTypeOK, PCs
  <2>3. QED
    BY <1>8, <2>1, <2>2
<1>9. CASE ContainerRecheck
  <2>1. CASE EntryNewer
    <3>1. trace' \in Seq(Actions)
      BY <1>9, <2>1, RecordsNoManifest DEF ContainerRecheck, ChainTypeOK
    <3>2. QED
      BY <1>9, <2>1, <3>1, EndType DEF ContainerRecheck, ChainTypeOK
  <2>2. CASE ~ EntryNewer /\ ContainerUnchanged
    <3>1. trace' \in Seq(Actions)
      BY <1>9, <2>2, RecordsNoManifest DEF ContainerRecheck, ChainTypeOK
    <3>2. QED
      BY <1>9, <2>2, <3>1, EndType DEF ContainerRecheck, ChainTypeOK
  <2>3. CASE ~ EntryNewer /\ ~ ContainerUnchanged
    BY <1>9, <2>3 DEF ContainerRecheck, ChainTypeOK, PCs
  <2>4. QED
    BY <2>1, <2>2, <2>3
<1>10. CASE ContainerWrite
  BY <1>10, DraftTypes, CommitType DEF ContainerWrite
<1>11. CASE UNCHANGED vars
  BY <1>11 DEF vars, ChainTypeOK
<1>12. QED
  BY <1>1, <1>2, <1>3, <1>4, <1>5, <1>6, <1>7, <1>8, <1>9, <1>10, <1>11 DEF Next, Done
-----------------------------------------------------------------------------
(* The clock and the draft.                                                *)

\* A change of the root has a time of its own, so no older snapshot takes it for
\* what it has; and whoever checks for changes after it sees it.
LEMMA ChangeIsNew ==
  ASSUME ChainTypeOK, ClockInv, NEW p \in Paths, Change(p)
  PROVE  /\ now' = now + 1 /\ now' \in Nat
         /\ \A q \in Paths : q # p => root'[q] = root[q]
         /\ root'[p].kind # "none" => root'[p].mtime = now'
         /\ ~ Settled'
         /\ UNCHANGED <<pc, marker, scan, unread, draft, base, chainBytes, blobs, trace, doubt>>
<1>1. PICK e \in Entries :
        /\ e # root[p] /\ (e.kind # "none" => e.mtime = now + 1)
        /\ root' = [root EXCEPT ![p] = e]
        /\ rootMtime' = IF EntryType(e) # EntryType(root[p]) THEN now + 1 ELSE rootMtime
  BY DEF Change
<1>2. now \in Nat /\ marker \in Nat /\ marker <= now /\ root[p] \in Entries
  BY SnapshotEntries DEF ChainTypeOK, ClockInv
<1>3. now' = now + 1 /\ marker' = marker
  BY DEF Change
<1>4. root'[p] = e /\ \A q \in Paths : q # p => root'[q] = root[q]
  BY <1>1 DEF ChainTypeOK, Snapshots
<1>5. CASE e.kind # "none"
  <2>1. e.mtime > marker
    BY <1>1, <1>2, <1>5
  <2>2. EntryNewer'
    BY <1>3, <1>4, <1>5, <2>1 DEF EntryNewer
  <2>3. QED
    BY <1>1, <1>2, <1>3, <1>4, <2>2 DEF Settled, Change
<1>6. CASE e.kind = "none"
  <2>1. e = Absent /\ root[p].kind # "none"
    BY <1>1, <1>2, <1>6, KindOf
  <2>2. EntryType(e) # EntryType(root[p])
    BY <1>2, <1>6, <2>1, EntryTypes
  <2>3. rootMtime' = now + 1
    BY <1>1, <2>2
  <2>4. ~ (rootMtime' <= marker')
    BY <1>2, <1>3, <2>3
  <2>5. QED
    BY <1>1, <1>2, <1>3, <1>4, <1>6, <2>4 DEF Settled, Change
<1>7. QED
  BY <1>5, <1>6

LEMMA ChmodKeeps ==
  ASSUME ChainTypeOK, NEW p \in Paths, Chmod(p)
  PROVE  /\ now' = now + 1 /\ now' \in Nat
         /\ \A q \in Paths : /\ root'[q].kind = root[q].kind
                             /\ root[q].kind # "none" => root'[q].mtime = root[q].mtime
                             /\ EntryType(root'[q]) = EntryType(root[q])
                             /\ Seen(root'[q]) = Seen(root[q])
         /\ Settled' <=> Settled
         /\ UNCHANGED <<pc, marker, scan, unread, draft, base, chainBytes, blobs, trace, doubt>>
<1>1. now' = now + 1 /\ now' \in Nat
  BY DEF Chmod, ChainTypeOK
<1>2. root[p] \in Entries /\ root[p].kind = "file"
  BY SnapshotEntries DEF ChainTypeOK, Chmod
<1>3. root[p] = [kind |-> "file", data |-> root[p].data, exec |-> root[p].exec, mtime |-> root[p].mtime]
      /\ root[p].data \in Contents /\ root[p].exec \in BOOLEAN /\ root[p].mtime \in 0 .. MaxChanges
  BY <1>2, EntryForms DEF Absent
<1>4. root'[p] = [kind |-> "file", data |-> root[p].data, exec |-> ~ root[p].exec, mtime |-> root[p].mtime]
  <2>1. root'[p] = [root[p] EXCEPT !.exec = ~ @]
    BY DEF Chmod, ChainTypeOK, Snapshots
  <2>2. QED
    BY <1>3, <2>1
<1>5. root'[p] \in Entries
  BY <1>3, <1>4 DEF Entries
<1>6. \A q \in Paths : q # p => root'[q] = root[q]
  BY DEF Chmod, ChainTypeOK, Snapshots
<1>7. \A q \in Paths : /\ root'[q].kind = root[q].kind
                       /\ root[q].kind # "none" => root'[q].mtime = root[q].mtime
                       /\ EntryType(root'[q]) = EntryType(root[q])
                       /\ Seen(root'[q]) = Seen(root[q])
  <2>1. SUFFICES ASSUME NEW q \in Paths, q = p
                 PROVE  /\ root'[q].kind = root[q].kind
                        /\ root[q].kind # "none" => root'[q].mtime = root[q].mtime
                        /\ EntryType(root'[q]) = EntryType(root[q])
                        /\ Seen(root'[q]) = Seen(root[q])
    BY <1>6
  <2>2. root'[p].kind = root[p].kind /\ root'[p].mtime = root[p].mtime
        /\ root'[p].data = root[p].data /\ root'[p].kind = "file"
    BY <1>2, <1>4
  <2>3. Seen(root'[p]) = Seen(root[p])
    BY <1>2, <1>5, <2>2, SeenForms
  <2>4. QED
    BY <2>1, <2>2, <2>3, <1>2, <1>5, EntryTypes
<1>8. UNCHANGED <<rootMtime, marker>>
  BY DEF Chmod
<1>9. EntryNewer' <=> EntryNewer
  BY <1>7, <1>8 DEF EntryNewer
<1>10. QED
  BY <1>1, <1>7, <1>8, <1>9 DEF Chmod, Settled

LEMMA StampsKept ==
  ASSUME ChainTypeOK, ClockInv, \E p \in Paths : Change(p) \/ Chmod(p),
         NEW s \in Snapshots, Past(s), SameStamp(s, root)
  PROVE  SameStamp(s, root')
<1>1. SUFFICES ASSUME NEW q \in Paths, s[q].kind # "none",
                      EntryType(s[q]) = EntryType(root'[q]), s[q].mtime = root'[q].mtime
               PROVE  Seen(s[q]) = Seen(root'[q])
  BY DEF SameStamp
<1>2. CASE \E p \in Paths : Change(p)
  <2>1. PICK p \in Paths : Change(p)
    BY <1>2
  <2>2. CASE q # p
    BY <1>1, <2>1, <2>2, ChangeIsNew DEF SameStamp
  <2>3. CASE q = p
    <3>1. ChainTypeOK'
      BY <2>1, TypeStep DEF Next
    <3>2. root'[q] \in Entries /\ s[q] \in Entries
      BY <3>1, SnapshotEntries DEF ChainTypeOK
    <3>3. root'[q].kind # "none"
      BY <1>1, <3>2, EntryTypes
    <3>4. root'[q].mtime = now + 1 /\ now \in Nat
      BY <2>1, <2>3, <3>3, ChangeIsNew DEF ChainTypeOK
    <3>5. s[q].mtime <= now /\ s[q].mtime \in Nat
      BY <1>1, <3>2, KindOf DEF Past
    <3>6. QED
      BY <1>1, <3>4, <3>5
  <2>4. QED
    BY <2>2, <2>3
<1>3. CASE \E p \in Paths : Chmod(p)
  <2>1. PICK p \in Paths : Chmod(p)
    BY <1>3
  <2>2. EntryType(root'[q]) = EntryType(root[q]) /\ Seen(root'[q]) = Seen(root[q])
    BY <2>1, ChmodKeeps
  <2>3. root[q].kind # "none"
    <3>1. root[q] \in Entries /\ s[q] \in Entries
      BY SnapshotEntries DEF ChainTypeOK
    <3>2. QED
      BY <1>1, <2>2, <3>1, EntryTypes
  <2>4. root'[q].mtime = root[q].mtime
    BY <2>1, <2>3, ChmodKeeps
  <2>5. QED
    BY <1>1, <2>2, <2>4 DEF SameStamp
<1>4. QED
  BY <1>2, <1>3

LEMMA LaterIsPast ==
  ASSUME now \in Nat, now' \in Nat, now <= now', NEW s \in Snapshots, Past(s)
  PROVE  \A p \in Paths : s[p].kind # "none" => s[p].mtime <= now'
<1>1. SUFFICES ASSUME NEW p \in Paths, s[p].kind # "none" PROVE s[p].mtime <= now'
  OBVIOUS
<1>2. s[p].mtime \in Nat
  BY <1>1, SnapshotEntries, KindOf
<1>3. QED
  BY <1>1, <1>2 DEF Past

\* What the recorder knows stays as it is.
LEMMA RecorderSame ==
  ASSUME UNCHANGED <<scan, unread, draft, base, chainBytes, doubt>>
  PROVE  /\ IsFull' = IsFull /\ ToRead' = ToRead /\ Doubted(draft)' = Doubted(draft)
         /\ UnreadInv /\ (pc \notin {"walked", "rechecked"} <=> pc' \notin {"walked", "rechecked"})
              => UnreadInv'
<1>1. IsFull' = IsFull
  BY DEF IsFull, ForceFull
<1>2. ToRead' = ToRead
  BY <1>1 DEF ToRead, Differing
<1>3. Doubted(draft)' = Doubted(draft)
  BY DEF Doubted
<1>4. QED
  BY <1>1, <1>2, <1>3 DEF UnreadInv

LEMMA RootStepKeeps ==
  ASSUME ChainTypeOK, ClockInv, UnreadInv, DraftInv, \E p \in Paths : Change(p) \/ Chmod(p)
  PROVE  ClockInv' /\ UnreadInv' /\ DraftInv'
<1>1. ChainTypeOK'
  BY TypeStep DEF Next
<1>2. /\ now' = now + 1
      /\ UNCHANGED <<pc, marker, scan, unread, draft, base, chainBytes, blobs, trace, doubt>>
  BY ChangeIsNew, ChmodKeeps
<1>3. now \in Nat /\ now' \in Nat /\ marker \in Nat /\ now <= now'
  BY <1>2 DEF ChainTypeOK
<1>4. Past(scan)' /\ (base # NoSnapshot => Past(base)')
  <2>1. Past(scan)'
    BY <1>2, <1>3, LaterIsPast DEF Past, ChainTypeOK, ClockInv
  <2>2. base # NoSnapshot => Past(base)'
    BY <1>2, <1>3, LaterIsPast DEF Past, ChainTypeOK, ClockInv
  <2>3. QED
    BY <2>1, <2>2
<1>5. Past(root)'
  <2>1. SUFFICES ASSUME NEW q \in Paths, root'[q].kind # "none" PROVE root'[q].mtime <= now'
    BY DEF Past
  <2>2. root[q].kind # "none" => root[q].mtime <= now'
    BY <1>3, LaterIsPast DEF ChainTypeOK, ClockInv
  <2>3. QED
    BY <2>1, <2>2, <1>3, ChangeIsNew, ChmodKeeps
<1>6. base # NoSnapshot => SameStamp(base, root')
  BY StampsKept DEF ChainTypeOK, ClockInv
<1>7. pc \in Scanning => SameStamp(scan, root')
  BY StampsKept DEF ChainTypeOK, ClockInv
<1>8. ClockInv'
  <2>1. marker <= now'
    BY <1>3 DEF ClockInv
  <2>2. QED
    BY <1>2, <1>4, <1>5, <1>6, <1>7, <2>1, RecorderSame DEF ClockInv
<1>9. DraftInv'
  <2>1. IsFull' = IsFull /\ Doubted(draft)' = Doubted(draft)
    BY <1>2, RecorderSame
  <2>2. CASE \E p \in Paths : Change(p)
    BY <1>2, <2>1, <2>2, ChangeIsNew DEF DraftInv
  <2>3. CASE \E p \in Paths : Chmod(p)
    BY <1>2, <2>1, <2>3, ChmodKeeps DEF DraftInv
  <2>4. QED
    BY <2>2, <2>3
<1>10. UnreadInv'
  BY <1>2, RecorderSame
<1>11. QED
  BY <1>8, <1>9, <1>10

\* The checkpoint under way is over.
LEMMA EndKeeps ==
  ASSUME ChainTypeOK, ClockInv, End, UNCHANGED <<root, now>>,
         \/ base' = base
         \/ base' = scan /\ pc \in Scanning
  PROVE  ClockInv' /\ UnreadInv' /\ DraftInv'
<1>1. pc' = "idle" /\ marker' = 0 /\ scan' = Nothing /\ unread' = {}
  BY DEF End
<1>2. Past(scan)'
  BY <1>1 DEF Past, Nothing, Absent
<1>3. Past(root)' /\ (base' # NoSnapshot => Past(base)' /\ SameStamp(base, root)')
  BY DEF ClockInv, Past, SameStamp
<1>4. marker' <= now'
  BY <1>1 DEF ChainTypeOK
<1>5. QED
  BY <1>1, <1>2, <1>3, <1>4 DEF ClockInv, UnreadInv, DraftInv, Scanning

\* The root is read.
LEMMA ScanKeeps ==
  ASSUME ChainTypeOK, ClockInv, UnreadInv, scan' = root,
         UNCHANGED <<root, rootMtime, now, marker, unread, base, chainBytes>>,
         pc \notin {"walked", "rechecked"}, pc' \in {"scanned", "listed"}
  PROVE  ClockInv' /\ UnreadInv' /\ DraftInv'
<1>1. SameStamp(root, root)
  BY DEF SameStamp
<1>2. IsFull' = IsFull /\ (~ IsFull => base # NoSnapshot)
  BY DEF IsFull, ForceFull
<1>3. ClockInv'
  BY <1>1, <1>2 DEF ClockInv, Past, SameStamp
<1>4. DraftInv' /\ UnreadInv'
  BY DEF DraftInv, UnreadInv
<1>5. QED
  BY <1>3, <1>4

\* The files that differ are read, some of them from what took their place.
LEMMA ContainerReadKeeps ==
  ASSUME ChainTypeOK, ClockInv, ContainerRead
  PROVE  ClockInv' /\ UnreadInv' /\ DraftInv'
<1>1. /\ pc = "listed" /\ pc' = "walked"
      /\ UNCHANGED <<root, rootMtime, now, marker, base, chainBytes>>
  BY DEF ContainerRead
<1>2. /\ scan' \in Snapshots /\ unread' \in SUBSET ToRead
      /\ \A p \in Paths : p \notin ToRead => scan'[p] = scan[p]
      /\ \A p \in ToRead :
           /\ scan[p].kind = "file" /\ scan'[p].kind = "file"
           /\ scan'[p].mtime = scan[p].mtime
           /\ p \in unread' => scan'[p].data = scan[p].data
           /\ p \notin unread' =>
                root[p].kind = "link" \/ (root[p].kind = "file" /\ scan'[p].data = root[p].data)
  BY ContainerReadIs
<1>3. IsFull' = IsFull /\ (~ IsFull => base # NoSnapshot)
  BY <1>1 DEF IsFull, ForceFull
<1>4. \A p \in Paths : /\ scan'[p].kind = scan[p].kind /\ scan'[p].mtime = scan[p].mtime
                       /\ EntryType(scan'[p]) = EntryType(scan[p])
  <2>1. SUFFICES ASSUME NEW p \in Paths, p \in ToRead
                 PROVE  /\ scan'[p].kind = scan[p].kind /\ scan'[p].mtime = scan[p].mtime
                        /\ EntryType(scan'[p]) = EntryType(scan[p])
    BY <1>2
  <2>2. QED
    BY <1>2, <2>1 DEF EntryType
<1>5. ToRead' = ToRead
  <2>1. ChangedPaths(base, scan)' = ChangedPaths(base, scan)
    BY <1>1, <1>4 DEF ChangedPaths
  <2>2. Differing' = Differing
    BY <1>3, <2>1 DEF Differing
  <2>3. Differing \subseteq Paths
    BY PathSets DEF Differing
  <2>4. QED
    BY <1>4, <2>2, <2>3 DEF ToRead
<1>6. Past(scan)'
  BY <1>1, <1>4 DEF ClockInv, Past
<1>7. SameStamp(scan', root)
  <2>1. SUFFICES ASSUME NEW p \in Paths, scan'[p].kind # "none",
                        EntryType(scan'[p]) = EntryType(root[p]), scan'[p].mtime = root[p].mtime
                 PROVE  Seen(scan'[p]) = Seen(root[p])
    BY DEF SameStamp
  <2>2. scan[p] \in Entries /\ scan'[p] \in Entries /\ root[p] \in Entries
    BY <1>2, SnapshotEntries DEF ChainTypeOK
  <2>3. Seen(scan[p]) = Seen(root[p])
    BY <1>1, <1>4, <2>1 DEF ClockInv, Scanning, SameStamp
  <2>4. CASE p \notin ToRead
    BY <1>2, <2>3, <2>4
  <2>5. CASE p \in unread'
    <3>1. Seen(scan'[p]) = Seen(scan[p])
      BY <1>2, <2>2, <2>5, SeenForms
    <3>2. QED
      BY <2>3, <3>1
  <2>6. CASE p \in ToRead /\ p \notin unread'
    <3>1. root[p].kind = "file" /\ scan'[p].kind = "file" /\ scan'[p].data = root[p].data
      BY <1>2, <2>1, <2>2, <2>6, EntryTypes
    <3>2. QED
      BY <2>2, <3>1, SeenForms
  <2>7. QED
    BY <2>4, <2>5, <2>6
<1>8. ASSUME ~ IsFull PROVE SameStamp(base, scan')
  <2>1. SUFFICES ASSUME NEW p \in Paths, base[p].kind # "none",
                        EntryType(base[p]) = EntryType(scan'[p]), base[p].mtime = scan'[p].mtime
                 PROVE  Seen(base[p]) = Seen(scan'[p])
    BY DEF SameStamp
  <2>2. p \notin ChangedPaths(base, scan)
    BY <1>4, <2>1 DEF ChangedPaths
  <2>3. p \notin ToRead
    BY <1>8, <2>2 DEF ToRead, Differing
  <2>4. SameStamp(base, scan)
    BY <1>1, <1>8 DEF ClockInv, Scanning
  <2>5. QED
    BY <1>2, <2>1, <2>3, <2>4 DEF SameStamp
<1>9. ClockInv'
  BY <1>1, <1>3, <1>6, <1>7, <1>8 DEF ClockInv, Past, SameStamp
<1>10. UnreadInv' /\ DraftInv'
  BY <1>1, <1>2, <1>5 DEF UnreadInv, DraftInv
<1>11. QED
  BY <1>9, <1>10

LEMMA HostWriteKeeps ==
  ASSUME ChainTypeOK, ClockInv, UnreadInv, DraftInv, HostWrite
  PROVE  ClockInv' /\ UnreadInv' /\ DraftInv' /\ blobs \subseteq blobs'
<1> DEFINE paths == IF IsFull THEN Paths ELSE ChangedPaths(base, scan)
<1> DEFINE deleted == IF IsFull THEN {} ELSE DeletedPaths(base, scan)
<1> DEFINE stored == FileContents(paths, root) \ blobs
<1>1. /\ draft' = Manifest(paths, root, deleted, stored)
      /\ blobs' = blobs \cup stored /\ pc = "scanned" /\ pc' = "written"
      /\ UNCHANGED <<root, rootMtime, now, marker, scan, unread, base, chainBytes, doubt>>
  BY DEF HostWrite
<1>2. ClockInv'
  BY <1>1 DEF ClockInv, Past, SameStamp, Scanning, IsFull, ForceFull
<1>3. paths \in SUBSET Paths /\ deleted \in SUBSET Paths /\ root \in Snapshots
  BY PathSets DEF ChainTypeOK
<1>4. Stored(draft', blobs')
  <2> HIDE DEF paths, deleted
  <2>1. QED
    BY <1>1, <1>3, ManifestType
<1>5. /\ draft'.kind = IF IsFull THEN "full" ELSE "incremental"
      /\ draft'.deleted = deleted
      /\ \A p \in Paths :
           draft'.entries[p] = IF p \in paths THEN ManifestEntry(root[p]) ELSE Absent
  BY <1>1 DEF Manifest
<1>6. IsFull' = IsFull
  BY <1>1 DEF IsFull, ForceFull
<1>7. Settled' <=> Settled
  BY <1>1 DEF Settled, EntryNewer
<1>8. Settled => \A p \in Paths : Seen(root[p]) = Seen(scan[p])
  BY <1>1 DEF DraftInv
<1>9. unread = {} /\ unread' = {} /\ UnreadInv'
  BY <1>1 DEF UnreadInv
<1>10. ASSUME Settled, IsFull PROVE IsFullOf(draft', scan, Doubted(draft)')
  <2>1. Doubted(draft)' = {}
    BY <1>5, <1>9, <1>10 DEF Doubted
  <2>2. QED
    BY <1>5, <1>8, <1>10, <2>1 DEF IsFullOf, Agrees, Seen
<1>11. ASSUME Settled, ~ IsFull PROVE IsStepOf(draft', base, doubt, scan, Doubted(draft)')
  <2>1. base \in Snapshots /\ scan \in Snapshots /\ root \in Snapshots /\ SameStamp(base, scan)
        /\ doubt \in SUBSET Paths
    BY <1>1, <1>11 DEF ChainTypeOK, IsFull, ClockInv, Scanning
  <2>2. /\ draft'.deleted = DeletedPaths(base, scan)
        /\ \A p \in Paths :
             draft'.entries[p] = IF p \in ChangedPaths(base, scan) \ {}
                                 THEN ManifestEntry(root[p]) ELSE Absent
    BY <1>5, <1>11
  <2>3. Doubted(draft)' = {p \in doubt \ draft'.deleted : draft'.entries[p] = Absent} \cup {}
    BY <1>1, <1>5, <1>9, <1>11 DEF Doubted
  <2>4. \A p \in {} : scan[p].kind = "file"
    OBVIOUS
  <2>5. QED
    BY <1>8, <1>11, <2>1, <2>2, <2>3, <2>4, DifferencesAreAStep
<1>12. DraftInv'
  BY <1>1, <1>4, <1>5, <1>6, <1>7, <1>10, <1>11 DEF DraftInv
<1>13. QED
  BY <1>1, <1>2, <1>9, <1>12

\* The manifest of the container recorder is right, whatever the root is by now.
LEMMA ContainerManifestIs ==
  ASSUME ChainTypeOK, ClockInv, UnreadInv, pc \in Scanning
  PROVE  /\ ContainerManifest \in Checkpoints
         /\ Stored(ContainerManifest, blobs \cup FileContents(ContainerPaths, scan))
         /\ ContainerManifest.kind = IF IsFull THEN "full" ELSE "incremental"
         /\ IF IsFull THEN IsFullOf(ContainerManifest, scan, Doubted(ContainerManifest))
            ELSE IsStepOf(ContainerManifest, base, doubt, scan, Doubted(ContainerManifest))
<1> DEFINE stored == FileContents(ContainerPaths, scan) \ blobs
<1>1. ContainerPaths \in SUBSET Paths /\ ContainerDeleted \in SUBSET Paths /\ scan \in Snapshots
  BY PathSets DEF ContainerPaths, ContainerDeleted, Differing, ChainTypeOK
<1>2. Stored(ContainerManifest, blobs \cup stored)
  BY <1>1, ManifestType DEF ContainerManifest
<1>3. blobs \cup stored = blobs \cup FileContents(ContainerPaths, scan)
  OBVIOUS
<1>4. /\ ContainerManifest.kind = IF IsFull THEN "full" ELSE "incremental"
      /\ ContainerManifest.deleted = ContainerDeleted
      /\ \A p \in Paths :
           ContainerManifest.entries[p] =
             IF p \in ContainerPaths THEN ManifestEntry(scan[p]) ELSE Absent
  BY DEF ContainerManifest, Manifest
<1>5. ASSUME IsFull PROVE IsFullOf(ContainerManifest, scan, Doubted(ContainerManifest))
  <2>1. Doubted(ContainerManifest) = unread
    BY <1>4, <1>5 DEF Doubted
  <2>2. \A p \in Paths : p \in ContainerPaths <=> p \notin unread
    BY <1>5 DEF ContainerPaths, Differing
  <2>3. QED
    BY <1>4, <2>1, <2>2 DEF IsFullOf, Agrees, Seen, Absent
<1>6. ASSUME ~ IsFull
      PROVE  IsStepOf(ContainerManifest, base, doubt, scan, Doubted(ContainerManifest))
  <2>1. base \in Snapshots /\ scan \in Snapshots /\ SameStamp(base, scan) /\ doubt \in SUBSET Paths
    BY <1>6 DEF ChainTypeOK, IsFull, ClockInv
  <2>2. /\ ContainerManifest.deleted = DeletedPaths(base, scan)
        /\ \A p \in Paths :
             ContainerManifest.entries[p] = IF p \in ChangedPaths(base, scan) \ unread
                                            THEN ManifestEntry(scan[p]) ELSE Absent
    BY <1>4, <1>6 DEF ContainerPaths, ContainerDeleted, Differing, IsFull
  <2>3. \A p \in Paths : Seen(scan[p]) = Seen(scan[p])
    OBVIOUS
  <2>4. \A p \in unread : scan[p].kind = "file"
    BY DEF UnreadInv, ToRead
  <2>5. Doubted(ContainerManifest) =
          {p \in doubt \ ContainerManifest.deleted : ContainerManifest.entries[p] = Absent}
            \cup unread
    BY <1>4, <1>6 DEF Doubted
  <2>6. QED
    BY <2>1, <2>2, <2>3, <2>4, <2>5, DifferencesAreAStep
<1>7. QED
  BY <1>2, <1>3, <1>4, <1>5, <1>6, DraftTypes
-----------------------------------------------------------------------------
(* The trace grows by an action.                                           *)

\* The trace has one more action, and the manifests up to it.
Grown(c, s, d, n) ==
  /\ n \in Nat /\ Len(trace') = n + 1
  /\ \A i \in 1 .. n : trace'[i] = trace[i]
  /\ trace'[n + 1] = [checkpoint |-> c, root |-> s, doubt |-> d]
  /\ \A i \in 0 .. n : ManifestsUpTo(i)' = ManifestsUpTo(i) /\ FullsUpTo(i)' = FullsUpTo(i)
  /\ ManifestsUpTo(n + 1)' = IF HasManifest(c) THEN ManifestsUpTo(n) \cup {n + 1}
                               ELSE ManifestsUpTo(n)
  /\ FullsUpTo(n + 1)' = IF c.kind = "full" THEN FullsUpTo(n) \cup {n + 1}
                             ELSE FullsUpTo(n)

LEMMA Appending ==
  ASSUME ChainTypeOK, NEW c \in Checkpoints, NEW s \in Snapshots, NEW d \in SUBSET Paths,
         Record(c, s, d), NEW n, n = Len(trace)
  PROVE  Grown(c, s, d, n)
<1> DEFINE a == [checkpoint |-> c, root |-> s, doubt |-> d]
<1>1. trace \in Seq(Actions) /\ a \in Actions
  BY DEF ChainTypeOK, Actions
<1>2. trace' = Append(trace, a)
  BY DEF Record
<1>3. n \in Nat /\ Len(trace') = n + 1
      /\ (\A i \in 1 .. n : trace'[i] = trace[i]) /\ trace'[n + 1] = a
  <2> HIDE DEF a
  <2>1. QED
    BY <1>1, <1>2
<1>4. \A i \in 0 .. n : ManifestsUpTo(i)' = ManifestsUpTo(i) /\ FullsUpTo(i)' = FullsUpTo(i)
  <2>1. SUFFICES ASSUME NEW i \in 0 .. n
                 PROVE  ManifestsUpTo(i)' = ManifestsUpTo(i) /\ FullsUpTo(i)' = FullsUpTo(i)
    OBVIOUS
  <2>2. \A k \in 1 .. i : k \in 1 .. n
    BY <1>3
  <2>3. \A k \in 1 .. i : trace'[k] = trace[k]
    BY <1>3, <2>2
  <2>4. QED
    BY <2>3 DEF ManifestsUpTo, FullsUpTo
<1>5. 1 .. n + 1 = (1 .. n) \cup {n + 1}
  BY <1>3
<1>6. trace'[n + 1].checkpoint = c
  BY <1>3
<1>7. /\ ManifestsUpTo(n + 1)' = {k \in 1 .. n + 1 : HasManifest(trace'[k].checkpoint)}
      /\ FullsUpTo(n + 1)' = {k \in 1 .. n + 1 : trace'[k].checkpoint.kind = "full"}
  BY DEF ManifestsUpTo, FullsUpTo, HasManifest
<1>8. /\ ManifestsUpTo(n)' = {k \in 1 .. n : HasManifest(trace'[k].checkpoint)}
      /\ FullsUpTo(n)' = {k \in 1 .. n : trace'[k].checkpoint.kind = "full"}
  BY DEF ManifestsUpTo, FullsUpTo, HasManifest
<1>9. ManifestsUpTo(n)' = ManifestsUpTo(n) /\ FullsUpTo(n)' = FullsUpTo(n)
  BY <1>3, <1>4
<1>10. ManifestsUpTo(n + 1)' = IF HasManifest(c) THEN ManifestsUpTo(n) \cup {n + 1}
                               ELSE ManifestsUpTo(n)
  <2>1. ManifestsUpTo(n + 1)' = IF HasManifest(c) THEN ManifestsUpTo(n)' \cup {n + 1}
                                ELSE ManifestsUpTo(n)'
    BY <1>5, <1>6, <1>7, <1>8
  <2>2. QED
    BY <1>9, <2>1
<1>11. FullsUpTo(n + 1)' = IF c.kind = "full" THEN FullsUpTo(n) \cup {n + 1}
                           ELSE FullsUpTo(n)
  <2>1. FullsUpTo(n + 1)' = IF c.kind = "full" THEN FullsUpTo(n)' \cup {n + 1}
                            ELSE FullsUpTo(n)'
    BY <1>5, <1>6, <1>7, <1>8
  <2>2. QED
    BY <1>9, <2>1
<1>12. QED
  BY <1>3, <1>4, <1>10, <1>11 DEF Grown

\* What is recorded is right with respect to the base.
Fits(c, s, d, store) ==
  /\ ~ HasManifest(c) =>
       c.bytes = 0 /\ base' = base /\ doubt' = doubt /\ chainBytes' = chainBytes
  /\ HasManifest(c) => Stored(c, store) /\ base' = s /\ doubt' = d
  /\ c.kind = "full" => IsFullOf(c, s, d) /\ chainBytes' = 0
  /\ c.kind = "incremental" =>
       /\ base # NoSnapshot /\ IsStepOf(c, base, doubt, s, d)
       /\ chainBytes < RebaselineBytes /\ chainBytes' = chainBytes + c.bytes
  /\ c.kind = "skipped" => base # NoSnapshot /\ \A p \in Paths \ d : Seen(base[p]) = Seen(s[p])

\* Which manifest is the last one, before and after.
LEMMA LastKept ==
  ASSUME ChainTypeOK, NEW c \in Checkpoints, NEW s \in Snapshots, NEW d \in SUBSET Paths,
         Record(c, s, d), NEW n, n = Len(trace)
  PROVE  /\ \A i \in 0 .. n : \A j : IsLast(j, i)' <=> IsLast(j, i)
         /\ \A i \in 0 .. n : \A j : IsLastFull(j, i)' <=> IsLastFull(j, i)
         /\ ~ HasManifest(c) => \A j : IsLast(j, n + 1)' <=> IsLast(j, n)
         /\ c.kind # "full" => \A j : IsLastFull(j, n + 1)' <=> IsLastFull(j, n)
         /\ HasManifest(c) => IsLast(n + 1, n + 1)'
         /\ c.kind = "full" => IsLastFull(n + 1, n + 1)'
<1>1. /\ n \in Nat
      /\ \A i \in 0 .. n : ManifestsUpTo(i)' = ManifestsUpTo(i) /\ FullsUpTo(i)' = FullsUpTo(i)
      /\ ManifestsUpTo(n + 1)' = IF HasManifest(c) THEN ManifestsUpTo(n) \cup {n + 1}
                                ELSE ManifestsUpTo(n)
      /\ FullsUpTo(n + 1)' = IF c.kind = "full" THEN FullsUpTo(n) \cup {n + 1}
                             ELSE FullsUpTo(n)
  <2>1. Grown(c, s, d, n)
    BY Appending
  <2>2. QED
    BY <2>1 DEF Grown
<1>2. \A i \in 0 .. n : \A j : (IsLast(j, i)' <=> IsLast(j, i)) /\ (IsLastFull(j, i)' <=> IsLastFull(j, i))
  BY <1>1 DEF IsLast, IsLastFull
<1>3. ~ HasManifest(c) => \A j : IsLast(j, n + 1)' <=> IsLast(j, n)
  BY <1>1 DEF IsLast
<1>4. c.kind # "full" => \A j : IsLastFull(j, n + 1)' <=> IsLastFull(j, n)
  BY <1>1 DEF IsLastFull
<1>5. \A k \in ManifestsUpTo(n) \cup FullsUpTo(n) \cup {n + 1} : k <= n + 1
  BY <1>1 DEF ManifestsUpTo, FullsUpTo
<1>6. HasManifest(c) => IsLast(n + 1, n + 1)'
  BY <1>1, <1>5 DEF IsLast
<1>7. c.kind = "full" => IsLastFull(n + 1, n + 1)'
  BY <1>1, <1>5 DEF IsLastFull
<1>8. QED
  BY <1>2, <1>3, <1>4, <1>6, <1>7

LEMMA RecordKeepsManifests ==
  ASSUME ChainTypeOK, ManifestInv, BaseInv,
         NEW c \in Checkpoints, NEW s \in Snapshots, NEW d \in SUBSET Paths, Record(c, s, d),
         blobs \subseteq blobs', Fits(c, s, d, blobs')
  PROVE  ManifestInv'
<1>1. PICK n \in Nat : n = Len(trace)
  BY TraceEntries
<1>2. /\ Len(trace') = n + 1
      /\ \A i \in 1 .. n : trace'[i] = trace[i]
      /\ trace'[n + 1] = [checkpoint |-> c, root |-> s, doubt |-> d]
  <2>1. Grown(c, s, d, n)
    BY <1>1, Appending
  <2>2. QED
    BY <2>1 DEF Grown
<1>3. \A j, i : j \in ManifestsUpTo(i) \/ j \in FullsUpTo(i) => j \in 1 .. i
  BY DEF ManifestsUpTo, FullsUpTo
<1>4. base # NoSnapshot =>
        \E j \in 1 .. n : IsLast(j, n) /\ trace[j].root = base /\ trace[j].doubt = doubt
  BY <1>1 DEF BaseInv
<1> DEFINE Local(i) ==
      LET m == trace[i].checkpoint
          snapshot == trace[i].root
          e == trace[i].doubt
      IN  /\ ~ HasManifest(m) => m.bytes = 0
          /\ HasManifest(m) => Stored(m, blobs) /\ \E k \in 1 .. i : IsLastFull(k, i)
          /\ m.kind = "full" => IsFullOf(m, snapshot, e)
          /\ m.kind = "incremental" =>
               \E j \in 1 .. i - 1 : /\ IsLast(j, i - 1)
                                     /\ IsStepOf(m, trace[j].root, trace[j].doubt, snapshot, e)
          /\ m.kind = "skipped" =>
               \E j \in 1 .. i : /\ IsLast(j, i)
                                 /\ \A p \in Paths \ e : Seen(trace[j].root[p]) = Seen(snapshot[p])
<1>5. \A i \in 1 .. n : Local(i)
  BY <1>1 DEF ManifestInv
<1>6. ASSUME NEW i \in 1 .. n PROVE Local(i)'
  <2>1. trace'[i] = trace[i] /\ i \in 0 .. n /\ i - 1 \in 0 .. n
    BY <1>2
  <2>2. \A j \in 1 .. i : trace'[j] = trace[j]
    BY <1>2
  <2>3. \A j \in 1 .. i - 1 : j \in 1 .. i
    OBVIOUS
  <2>4. \A j : /\ IsLast(j, i)' <=> IsLast(j, i)
               /\ IsLastFull(j, i)' <=> IsLastFull(j, i)
               /\ IsLast(j, i - 1)' <=> IsLast(j, i - 1)
    BY <1>1, <2>1, LastKept
  <2>5. \A m : Stored(m, blobs) => Stored(m, blobs')
    BY DEF Stored
  <2>6. /\ ~ HasManifest(trace'[i].checkpoint) => trace'[i].checkpoint.bytes = 0
        /\ HasManifest(trace'[i].checkpoint) =>
             Stored(trace'[i].checkpoint, blobs') /\ \E k \in 1 .. i : IsLastFull(k, i)'
        /\ trace'[i].checkpoint.kind = "full" =>
             IsFullOf(trace'[i].checkpoint, trace'[i].root, trace'[i].doubt)
    BY <1>5, <2>1, <2>4, <2>5
  <2>7. trace'[i].checkpoint.kind = "incremental" =>
          \E j \in 1 .. i - 1 : /\ IsLast(j, i - 1)'
                                /\ IsStepOf(trace'[i].checkpoint, trace'[j].root, trace'[j].doubt,
                                            trace'[i].root, trace'[i].doubt)
    BY <1>5, <2>1, <2>2, <2>3, <2>4
  <2>8. trace'[i].checkpoint.kind = "skipped" =>
          \E j \in 1 .. i : /\ IsLast(j, i)'
                            /\ \A p \in Paths \ trace'[i].doubt :
                                 Seen(trace'[j].root[p]) = Seen(trace'[i].root[p])
    BY <1>5, <2>1, <2>2, <2>4
  <2>9. QED
    BY <2>6, <2>7, <2>8
<1>7. Local(n + 1)'
  <2>1. trace'[n + 1].checkpoint = c /\ trace'[n + 1].root = s /\ trace'[n + 1].doubt = d
    BY <1>2
  <2>2. /\ n \in 0 .. n /\ (n + 1) - 1 = n
        /\ \A j \in 1 .. n : j \in 1 .. n + 1
        /\ n + 1 \in 1 .. n + 1
    OBVIOUS
  <2>3. HasManifest(c) => \E k \in 1 .. n + 1 : IsLastFull(k, n + 1)'
    <3>1. CASE c.kind = "full"
      BY <1>1, <2>2, <3>1, LastKept
    <3>2. CASE c.kind = "incremental"
      <4>1. PICK j \in 1 .. n : IsLast(j, n)
        BY <1>4, <3>2 DEF Fits
      <4>2. HasManifest(trace[j].checkpoint)
        BY <4>1 DEF IsLast, ManifestsUpTo
      <4>3. PICK k \in 1 .. j : IsLastFull(k, j)
        BY <1>5, <4>2
      <4>4. IsLastFull(k, n)
        <5>1. k \in 1 .. n /\ trace[k].checkpoint.kind = "full"
          BY <4>3 DEF IsLastFull, FullsUpTo
        <5>2. ASSUME NEW m \in FullsUpTo(n) PROVE m <= k
          <6>1. m \in ManifestsUpTo(n)
            BY <5>2 DEF FullsUpTo, ManifestsUpTo, HasManifest
          <6>2. m \in Nat /\ m >= 1 /\ m <= j
            BY <4>1, <6>1 DEF IsLast, ManifestsUpTo
          <6>3. m \in FullsUpTo(j)
            BY <5>2, <6>2 DEF FullsUpTo
          <6>4. QED
            BY <4>3, <6>3 DEF IsLastFull
        <5>3. QED
          BY <5>1, <5>2 DEF IsLastFull, FullsUpTo
      <4>5. k \in 1 .. n + 1
        BY <4>3
      <4>6. QED
        BY <1>1, <3>2, <4>4, <4>5, LastKept
    <3>3. QED
      BY <3>1, <3>2 DEF HasManifest
  <2>4. c.kind = "incremental" =>
          \E j \in 1 .. n : IsLast(j, n)' /\ IsStepOf(c, trace'[j].root, trace'[j].doubt, s, d)
    <3>1. \A j : IsLast(j, n)' <=> IsLast(j, n)
      BY <1>1, <2>2, LastKept
    <3>2. QED
      BY <1>2, <1>4, <3>1 DEF Fits
  <2>5. c.kind = "skipped" =>
          \E j \in 1 .. n + 1 : /\ IsLast(j, n + 1)'
                                /\ \A p \in Paths \ d : Seen(trace'[j].root[p]) = Seen(s[p])
    <3>1. ASSUME c.kind = "skipped" PROVE \A j : IsLast(j, n + 1)' <=> IsLast(j, n)
      BY <1>1, <3>1, LastKept DEF HasManifest
    <3>2. QED
      BY <1>2, <1>4, <2>2, <3>1 DEF Fits
  <2>6. HasManifest(c) => Stored(c, blobs')
    BY DEF Fits
  <2>7. (c.kind = "full" => IsFullOf(c, s, d)) /\ (~ HasManifest(c) => c.bytes = 0)
    BY DEF Fits
  <2>8. QED
    BY <2>1, <2>2, <2>3, <2>4, <2>5, <2>6, <2>7
<1>8. \A i \in 1 .. n + 1 : i \in 1 .. n \/ i = n + 1
  OBVIOUS
<1>9. \A i \in 1 .. n + 1 : Local(i)'
  <2> HIDE DEF Local
  <2>1. QED
    BY <1>6, <1>7, <1>8
<1>10. QED
  BY <1>2, <1>9 DEF ManifestInv

LEMMA RecordKeepsBase ==
  ASSUME ChainTypeOK, BaseInv,
         NEW c \in Checkpoints, NEW s \in Snapshots, NEW d \in SUBSET Paths, Record(c, s, d),
         Fits(c, s, d, blobs')
  PROVE  BaseInv'
<1>1. PICK n \in Nat : n = Len(trace)
  BY TraceEntries
<1>2. /\ Len(trace') = n + 1
      /\ \A i \in 1 .. n : trace'[i] = trace[i] /\ i \in 1 .. n + 1
      /\ trace'[n + 1].root = s /\ trace'[n + 1].doubt = d /\ n + 1 \in 1 .. n + 1
  <2>1. /\ Len(trace') = n + 1
        /\ \A i \in 1 .. n : trace'[i] = trace[i]
        /\ trace'[n + 1] = [checkpoint |-> c, root |-> s, doubt |-> d]
    <3>1. Grown(c, s, d, n)
      BY <1>1, Appending
    <3>2. QED
      BY <3>1 DEF Grown
  <2>2. QED
    BY <2>1
<1>3. CASE HasManifest(c)
  <2>1. IsLast(n + 1, n + 1)' /\ base' = s /\ doubt' = d
    BY <1>1, <1>3, LastKept DEF Fits
  <2>2. QED
    BY <1>2, <2>1 DEF BaseInv
<1>4. CASE ~ HasManifest(c)
  <2>1. base' = base /\ doubt' = doubt /\ \A j : IsLast(j, n + 1)' <=> IsLast(j, n)
    BY <1>1, <1>4, LastKept DEF Fits
  <2>2. base # NoSnapshot =>
          \E j \in 1 .. n : IsLast(j, n) /\ trace[j].root = base /\ trace[j].doubt = doubt
    BY <1>1 DEF BaseInv
  <2>3. QED
    BY <1>2, <2>1, <2>2 DEF BaseInv
<1>5. QED
  BY <1>3, <1>4

LEMMA NewBytesKept ==
  ASSUME ChainTypeOK, ChainTypeOK', NEW c \in Checkpoints, NEW s \in Snapshots,
         NEW d \in SUBSET Paths, Record(c, s, d), NEW n, n = Len(trace)
  PROVE  /\ \A i \in 0 .. n : NewBytes'[i] = NewBytes[i]
         /\ NewBytes'[n + 1] = IF c.kind = "full" THEN 0 ELSE NewBytes[n] + c.bytes
<1>1. /\ n \in Nat /\ Len(trace') = n + 1
      /\ \A i \in 1 .. n : trace'[i] = trace[i]
      /\ trace'[n + 1] = [checkpoint |-> c, root |-> s, doubt |-> d]
      /\ \A i \in 0 .. n : FullsUpTo(i)' = FullsUpTo(i)
      /\ FullsUpTo(n + 1)' = IF c.kind = "full" THEN FullsUpTo(n) \cup {n + 1}
                             ELSE FullsUpTo(n)
  <2>1. Grown(c, s, d, n)
    BY Appending
  <2>2. QED
    BY <2>1 DEF Grown
<1>2. BytesRecursion /\ BytesRecursion'
  BY NewBytesIs, NewBytesNext
<1>3. NewBytes[0] = 0 /\ NewBytes'[0] = 0
  BY <1>2 DEF BytesRecursion
<1>4. \A i \in 1 .. n : NewBytes[i] = IF i \in FullsUpTo(i) THEN 0
                                      ELSE NewBytes[i - 1] + trace[i].checkpoint.bytes
  BY <1>2 DEF BytesRecursion
<1>5. \A i \in 1 .. n + 1 : NewBytes'[i] = IF i \in FullsUpTo(i)' THEN 0
                                           ELSE NewBytes'[i - 1] + trace'[i].checkpoint.bytes
  <2>1. \A i \in 1 .. Len(trace') : NewBytes'[i] = IF i \in FullsUpTo(i)' THEN 0
                                    ELSE NewBytes'[i - 1] + trace'[i].checkpoint.bytes
    BY <1>2 DEF BytesRecursion
  <2>2. QED
    BY <1>1, <2>1
<1> DEFINE T == {i \in 0 .. n : NewBytes'[i] = NewBytes[i]}
<1>6. 0 \in T
  BY <1>1, <1>3
<1>7. \A i \in 1 .. n : i - 1 \in T => i \in T
  <2>1. SUFFICES ASSUME NEW i \in 1 .. n, NewBytes'[i - 1] = NewBytes[i - 1]
                 PROVE  NewBytes'[i] = NewBytes[i]
    BY <1>1
  <2>2. i \in 1 .. n + 1 /\ i \in 0 .. n
    BY <1>1
  <2>3. QED
    BY <1>1, <1>4, <1>5, <2>1, <2>2
<1>8. \A i \in 0 .. n : i \in T
  <2> HIDE DEF T
  <2>1. QED
    BY <1>1, <1>6, <1>7, UpTo
<1>9. n + 1 \in FullsUpTo(n + 1)' <=> c.kind = "full"
  BY <1>1 DEF FullsUpTo
<1>10. n \in 0 .. n /\ n + 1 \in 1 .. n + 1 /\ (n + 1) - 1 = n
  BY <1>1
<1>11. NewBytes'[n + 1] = IF c.kind = "full" THEN 0 ELSE NewBytes'[n] + c.bytes
  BY <1>1, <1>5, <1>9, <1>10
<1>12. QED
  BY <1>8, <1>10, <1>11

LEMMA RecordKeepsBytes ==
  ASSUME ChainTypeOK, ChainTypeOK', BytesInv,
         NEW c \in Checkpoints, NEW s \in Snapshots, NEW d \in SUBSET Paths, Record(c, s, d),
         Fits(c, s, d, blobs')
  PROVE  BytesInv'
<1>1. PICK n \in Nat : n = Len(trace)
  BY TraceEntries
<1>2. /\ Len(trace') = n + 1
      /\ \A i \in 0 .. n : ManifestsUpTo(i)' = ManifestsUpTo(i) /\ FullsUpTo(i)' = FullsUpTo(i)
      /\ ManifestsUpTo(n + 1)' = IF HasManifest(c) THEN ManifestsUpTo(n) \cup {n + 1}
                                ELSE ManifestsUpTo(n)
      /\ FullsUpTo(n + 1)' = IF c.kind = "full" THEN FullsUpTo(n) \cup {n + 1}
                             ELSE FullsUpTo(n)
  <2>1. Grown(c, s, d, n)
    BY <1>1, Appending
  <2>2. QED
    BY <2>1 DEF Grown
<1>3. /\ \A i \in 0 .. n : NewBytes'[i] = NewBytes[i]
      /\ NewBytes'[n + 1] = IF c.kind = "full" THEN 0 ELSE NewBytes[n] + c.bytes
  BY <1>1, NewBytesKept
<1>4. chainBytes = NewBytes[n] /\ chainBytes \in Nat
  BY <1>1 DEF BytesInv, ChainTypeOK
<1>5. chainBytes' = NewBytes'[n + 1]
  <2>1. c.kind \in CheckpointKinds /\ c.bytes \in Nat
    BY CheckpointForm
  <2>2. QED
    BY <1>3, <1>4, <2>1 DEF Fits, HasManifest, CheckpointKinds
<1>6. ASSUME NEW i \in ManifestsUpTo(n + 1)' \ FullsUpTo(n + 1)'
      PROVE  NewBytes'[i - 1] < RebaselineBytes
  <2>1. CASE i = n + 1
    <3>1. i \notin ManifestsUpTo(n)
      BY <1>1, <2>1 DEF ManifestsUpTo
    <3>2. HasManifest(c) /\ c.kind # "full"
      BY <1>2, <1>6, <2>1, <3>1
    <3>3. n \in 0 .. n /\ i - 1 = n
      BY <2>1
    <3>4. QED
      BY <1>3, <1>4, <3>2, <3>3 DEF Fits, HasManifest
  <2>2. CASE i # n + 1
    <3>1. i \in ManifestsUpTo(n) \ FullsUpTo(n)
      BY <1>2, <1>6, <2>2
    <3>2. NewBytes[i - 1] < RebaselineBytes
      BY <1>1, <3>1 DEF BytesInv, ChainBounded
    <3>3. i \in 1 .. n /\ i - 1 \in 0 .. n
      BY <3>1 DEF ManifestsUpTo
    <3>4. QED
      BY <1>3, <3>2, <3>3
  <2>3. QED
    BY <2>1, <2>2
<1>7. ChainBounded'
  <2>1. \A i \in ManifestsUpTo(Len(trace))' \ FullsUpTo(Len(trace))' :
          NewBytes'[i - 1] < RebaselineBytes
    <3>1. ManifestsUpTo(Len(trace))' = ManifestsUpTo(n + 1)' /\ FullsUpTo(Len(trace))' = FullsUpTo(n + 1)'
      BY <1>2 DEF ManifestsUpTo, FullsUpTo
    <3>2. QED
      BY <1>6, <3>1
  <2>2. QED
    BY <2>1 DEF ChainBounded
<1>8. QED
  BY <1>2, <1>5, <1>7 DEF BytesInv
-----------------------------------------------------------------------------
(* The invariant.                                                          *)

LEMMA NewBytesSame ==
  ASSUME UNCHANGED trace
  PROVE  NewBytes' = NewBytes
  BY Zenon DEF NewBytes, FullsUpTo

LEMMA QuietKeeps ==
  ASSUME ManifestInv, BaseInv, BytesInv, UNCHANGED <<trace, base, doubt, chainBytes>>,
         blobs \subseteq blobs'
  PROVE  ManifestInv' /\ BaseInv' /\ BytesInv'
<1>1. \A i : ManifestsUpTo(i)' = ManifestsUpTo(i) /\ FullsUpTo(i)' = FullsUpTo(i)
  BY DEF ManifestsUpTo, FullsUpTo
<1>2. \A i, j : (IsLast(j, i)' <=> IsLast(j, i)) /\ (IsLastFull(j, i)' <=> IsLastFull(j, i))
  BY <1>1 DEF IsLast, IsLastFull
<1>3. \A c : Stored(c, blobs) => Stored(c, blobs')
  BY DEF Stored
<1>4. ManifestInv'
  BY <1>2, <1>3 DEF ManifestInv
<1>5. BaseInv'
  BY <1>2 DEF BaseInv
<1>6. BytesInv'
  BY <1>1, NewBytesSame DEF BytesInv, ChainBounded
<1>7. QED
  BY <1>4, <1>5, <1>6

LEMMA RecordKeeps ==
  ASSUME IInv, ChainTypeOK', NEW c \in Checkpoints, NEW s \in Snapshots,
         NEW d \in SUBSET Paths, Record(c, s, d), blobs \subseteq blobs', Fits(c, s, d, blobs')
  PROVE  ManifestInv' /\ BaseInv' /\ BytesInv'
  BY RecordKeepsManifests, RecordKeepsBase, RecordKeepsBytes DEF IInv

\* An action without a manifest that is not called a skip.
LEMMA PlainFits ==
  ASSUME NEW kind \in {"none", "error"}, NEW s, NEW d, UNCHANGED <<base, doubt, chainBytes>>
  PROVE  Fits(NoManifest(kind), s, d, blobs')
  BY DEF Fits, NoManifest, HasManifest

LEMMA RejectKeeps == ASSUME IInv, ChainTypeOK', Reject PROVE IInv'
<1>1. NoManifest("error") \in Checkpoints /\ root \in Snapshots /\ {} \in SUBSET Paths
  BY ConstantTypes DEF IInv, ChainTypeOK, CheckpointKinds
<1>2. /\ End /\ Record(NoManifest("error"), root, {})
      /\ UNCHANGED <<root, now, base, doubt, chainBytes, blobs>>
  BY DEF Reject
<1>3. Fits(NoManifest("error"), root, {}, blobs')
  BY <1>2, PlainFits
<1>4. ManifestInv' /\ BaseInv' /\ BytesInv'
  BY <1>1, <1>2, <1>3, RecordKeeps
<1>5. ClockInv' /\ UnreadInv' /\ DraftInv'
  BY <1>2, EndKeeps DEF IInv
<1>6. QED
  BY <1>4, <1>5 DEF IInv

\* A skipped checkpoint: the snapshot has no difference to the base that was read.
LEMMA SkipKeeps ==
  ASSUME IInv, ChainTypeOK', NEW s \in Snapshots, NEW d \in SUBSET Paths,
         base # NoSnapshot, SameStamp(base, s),
         ChangedPaths(base, s) \ d = {}, DeletedPaths(base, s) = {},
         End, Record(NoManifest("skipped"), s, d),
         UNCHANGED <<root, now, base, doubt, chainBytes, blobs>>
  PROVE  IInv'
<1>1. NoManifest("skipped") \in Checkpoints
  BY ConstantTypes DEF CheckpointKinds
<1>2. base \in Snapshots
  BY DEF IInv, ChainTypeOK
<1>3. \A p \in Paths \ d : Seen(base[p]) = Seen(s[p])
  BY <1>2, NoDifferences
<1>4. Fits(NoManifest("skipped"), s, d, blobs')
  BY <1>3 DEF Fits, NoManifest, HasManifest
<1>5. ManifestInv' /\ BaseInv' /\ BytesInv'
  BY <1>1, <1>4, RecordKeeps
<1>6. ClockInv' /\ UnreadInv' /\ DraftInv'
  BY EndKeeps DEF IInv
<1>7. QED
  BY <1>5, <1>6 DEF IInv

\* A manifest is committed that is right with respect to the base.
LEMMA CommitKeeps ==
  ASSUME IInv, ChainTypeOK', NEW c \in Checkpoints, Commit(c), pc \in Scanning,
         UNCHANGED <<root, now>>, blobs \subseteq blobs', Stored(c, blobs'),
         c.kind = IF IsFull THEN "full" ELSE "incremental",
         IF IsFull THEN IsFullOf(c, scan, Doubted(c)) ELSE IsStepOf(c, base, doubt, scan, Doubted(c))
  PROVE  IInv'
<1>1. /\ End /\ base' = scan /\ doubt' = Doubted(c) /\ Record(c, scan, Doubted(c))
      /\ chainBytes' = IF c.kind = "full" THEN 0 ELSE chainBytes + c.bytes
  BY DEF Commit
<1>2. HasManifest(c)
  BY DEF HasManifest
<1>3. ~ IsFull => base # NoSnapshot /\ chainBytes < RebaselineBytes
  BY CheckpointChainAssumption DEF IsFull, ForceFull, IInv, ChainTypeOK
<1>4. Fits(c, scan, Doubted(c), blobs')
  BY <1>1, <1>2, <1>3 DEF Fits
<1>5. scan \in Snapshots /\ Doubted(c) \in SUBSET Paths
  BY DoubtType DEF IInv, ChainTypeOK
<1>6. ManifestInv' /\ BaseInv' /\ BytesInv'
  BY <1>1, <1>4, <1>5, RecordKeeps
<1>7. ClockInv' /\ UnreadInv' /\ DraftInv'
  BY <1>1, EndKeeps DEF IInv
<1>8. QED
  BY <1>6, <1>7 DEF IInv

LEMMA InitInv == Init => IInv
<1> SUFFICES ASSUME Init PROVE IInv
  OBVIOUS
<1>1. ChainTypeOK
  BY InitType
<1>2. Len(trace) = 0 /\ trace = <<>> /\ base = NoSnapshot /\ pc = "idle"
  BY DEF Init
<1>3. ClockInv
  BY <1>2 DEF Init, ClockInv, Past, Scanning, Nothing, Absent
<1>4. UnreadInv /\ DraftInv /\ ManifestInv /\ BaseInv
  BY <1>2 DEF Init, UnreadInv, DraftInv, ManifestInv, BaseInv
<1>5. BytesInv
  <2>1. NewBytes[0] = 0
    BY <1>1, NewBytesIs DEF BytesRecursion
  <2>2. ManifestsUpTo(0) = {}
    BY DEF ManifestsUpTo
  <2>3. QED
    BY <1>2, <2>1, <2>2 DEF BytesInv, ChainBounded, Init
<1>6. QED
  BY <1>1, <1>3, <1>4, <1>5 DEF IInv

LEMMA StepInv == IInv /\ [Next]_vars => IInv'
<1> SUFFICES ASSUME IInv, [Next]_vars PROVE IInv'
  OBVIOUS
<1>1. /\ ChainTypeOK /\ ChainTypeOK' /\ ClockInv /\ UnreadInv /\ DraftInv
      /\ ManifestInv /\ BaseInv /\ BytesInv
  BY TypeStep DEF IInv
<1>2. CASE \E p \in Paths : Change(p) \/ Chmod(p)
  <2>1. UNCHANGED <<trace, base, doubt, chainBytes, blobs>>
    BY <1>1, <1>2, ChangeIsNew, ChmodKeeps
  <2>2. QED
    BY <1>1, <1>2, <2>1, QuietKeeps, RootStepKeeps DEF IInv
<1>3. CASE OtherTool
  <2>1. NoManifest("none") \in Checkpoints /\ root \in Snapshots /\ {} \in SUBSET Paths
    BY <1>1, ConstantTypes DEF ChainTypeOK, CheckpointKinds
  <2>2. Fits(NoManifest("none"), root, {}, blobs')
    BY <1>3, PlainFits DEF OtherTool
  <2>3. ManifestInv' /\ BaseInv' /\ BytesInv'
    BY <1>1, <1>3, <2>1, <2>2, RecordKeeps DEF OtherTool
  <2>4. /\ pc = "idle" /\ UNCHANGED <<root, now, pc, marker, scan, unread, draft, base,
                                      chainBytes, doubt>>
    BY <1>3 DEF OtherTool
  <2>5. ClockInv' /\ UnreadInv' /\ DraftInv'
    BY <1>1, <2>4, RecorderSame DEF ClockInv, DraftInv, Past, SameStamp, Scanning
  <2>6. QED
    BY <1>1, <2>3, <2>5 DEF IInv
<1>4. CASE Begin
  <2>1. ClockInv' /\ DraftInv'
    BY <1>1, <1>4 DEF Begin, ClockInv, DraftInv, Past, SameStamp, Scanning, ChainTypeOK
  <2>2. UnreadInv'
    BY <1>1, <1>4 DEF Begin, UnreadInv
  <2>3. QED
    BY <1>1, <1>4, <2>1, <2>2, QuietKeeps DEF IInv, Begin
<1>5. CASE HostScan
  <2>1. CASE Unchanged(root)
    <3>1. /\ root \in Snapshots /\ {} \in SUBSET Paths /\ base # NoSnapshot
          /\ SameStamp(base, root)
          /\ ChangedPaths(base, root) \ {} = {} /\ DeletedPaths(base, root) = {}
      BY <1>1, <2>1 DEF Unchanged, ChainTypeOK, ClockInv
    <3>2. /\ End /\ Record(NoManifest("skipped"), root, {})
          /\ UNCHANGED <<root, now, base, doubt, chainBytes, blobs>>
      BY <1>5, <2>1 DEF HostScan
    <3>3. QED
      BY <1>1, <3>1, <3>2, SkipKeeps
  <2>2. CASE ~ Unchanged(root)
    <3>1. /\ scan' = root /\ pc = "begun" /\ pc' = "scanned"
          /\ UNCHANGED <<root, rootMtime, now, marker, unread, base, chainBytes>>
      BY <1>5, <2>2 DEF HostScan
    <3>2. SameStamp(root, root) /\ (~ IsFull => base # NoSnapshot) /\ IsFull' = IsFull
      BY <3>1 DEF SameStamp, IsFull, ForceFull
    <3>3. ClockInv'
      BY <1>1, <3>1, <3>2 DEF ClockInv, Past, SameStamp
    <3>4. UnreadInv'
      BY <1>1, <3>1 DEF UnreadInv
    <3>5. DraftInv'
      BY <3>1 DEF DraftInv
    <3>6. QED
      BY <1>1, <1>5, <2>2, <3>3, <3>4, <3>5, QuietKeeps DEF IInv, HostScan
  <2>3. QED
    BY <2>1, <2>2
<1>6. CASE HostWrite
  <2>1. UNCHANGED <<trace, base, doubt, chainBytes>>
    BY <1>6 DEF HostWrite
  <2>2. QED
    BY <1>1, <1>6, <2>1, HostWriteKeeps, QuietKeeps DEF IInv
<1>7. CASE HostCheck
  <2>1. pc = "written" /\ Settled /\ Commit(draft) /\ UNCHANGED <<root, now, blobs>>
    BY <1>7 DEF HostCheck, Settled
  <2>2. draft \in Checkpoints /\ pc \in Scanning
    BY <1>1, <2>1 DEF ChainTypeOK, Scanning
  <2>3. /\ Stored(draft, blobs')
        /\ draft.kind = IF IsFull THEN "full" ELSE "incremental"
        /\ IF IsFull THEN IsFullOf(draft, scan, Doubted(draft))
           ELSE IsStepOf(draft, base, doubt, scan, Doubted(draft))
    BY <1>1, <2>1 DEF DraftInv
  <2>4. QED
    BY <1>1, <2>1, <2>2, <2>3, CommitKeeps
<1>8. CASE HostReject \/ HostFails \/ SnapshotFails \/ FetchFails
  BY <1>1, <1>8, RejectKeeps DEF HostReject, HostFails, SnapshotFails, FetchFails
<1>9. CASE ContainerList \/ ContainerRead
  <2>1. UNCHANGED <<trace, base, doubt, chainBytes, blobs>>
    BY <1>9 DEF ContainerList, ContainerRead
  <2>2. CASE ContainerList
    BY <1>1, <2>1, <2>2, ScanKeeps, QuietKeeps DEF IInv, ContainerList
  <2>3. CASE ContainerRead
    BY <1>1, <2>1, <2>3, ContainerReadKeeps, QuietKeeps DEF IInv
  <2>4. QED
    BY <1>9, <2>2, <2>3
<1>10. CASE ContainerRecheck
  <2>1. CASE EntryNewer
    BY <1>1, <1>10, <2>1, RejectKeeps DEF ContainerRecheck, Reject
  <2>2. CASE ~ EntryNewer /\ ContainerUnchanged
    <3>1. /\ scan \in Snapshots /\ unread \in SUBSET Paths /\ base # NoSnapshot
          /\ SameStamp(base, scan)
          /\ ChangedPaths(base, scan) \ unread = {} /\ DeletedPaths(base, scan) = {}
      BY <1>1, <1>10, <2>2
         DEF ContainerRecheck, ContainerUnchanged, ContainerPaths, ContainerDeleted, Differing,
             IsFull, ChainTypeOK, ClockInv, Scanning
    <3>2. /\ End /\ Record(NoManifest("skipped"), scan, unread)
          /\ UNCHANGED <<root, now, base, doubt, chainBytes, blobs>>
      BY <1>10, <2>2 DEF ContainerRecheck
    <3>3. QED
      BY <1>1, <3>1, <3>2, SkipKeeps
  <2>3. CASE ~ EntryNewer /\ ~ ContainerUnchanged
    <3>1. /\ pc = "walked" /\ pc' = "rechecked"
          /\ UNCHANGED <<root, rootMtime, now, marker, scan, unread, draft, base, chainBytes,
                         doubt, trace, blobs>>
      BY <1>10, <2>3 DEF ContainerRecheck
    <3>2. IsFull' = IsFull /\ UnreadInv'
      BY <1>1, <3>1, RecorderSame
    <3>3. ClockInv' /\ DraftInv'
      BY <1>1, <3>1, <3>2 DEF ClockInv, DraftInv, Past, SameStamp, Scanning
    <3>4. QED
      BY <1>1, <3>1, <3>2, <3>3, QuietKeeps DEF IInv
  <2>4. QED
    BY <2>1, <2>2, <2>3
<1>11. CASE ContainerWrite
  <2>1. /\ Commit(ContainerManifest) /\ UNCHANGED <<root, now>>
        /\ blobs' = blobs \cup FileContents(ContainerPaths, scan) /\ pc \in Scanning
    BY <1>11 DEF ContainerWrite, Scanning
  <2>2. blobs \subseteq blobs'
    BY <2>1
  <2>3. QED
    BY <1>1, <2>1, <2>2, ContainerManifestIs, CommitKeeps
<1>12. CASE UNCHANGED vars
  <2>1. UNCHANGED <<root, rootMtime, now, pc, marker, scan, unread, draft, base, chainBytes,
                    blobs, trace, doubt>>
    BY <1>12 DEF vars
  <2>2. IsFull' = IsFull /\ UnreadInv' /\ Doubted(draft)' = Doubted(draft)
    BY <1>1, <2>1, RecorderSame
  <2>3. ClockInv' /\ DraftInv'
    BY <1>1, <2>1, <2>2 DEF ClockInv, DraftInv, Past, SameStamp, Settled, EntryNewer
  <2>4. QED
    BY <1>1, <2>1, <2>2, <2>3, QuietKeeps DEF IInv
<1>13. QED
  BY <1>2, <1>3, <1>4, <1>5, <1>6, <1>7, <1>8, <1>9, <1>10, <1>11, <1>12 DEF Next, Done

LEMMA Invariance == Spec => []IInv
  BY InitInv, StepInv, PTL DEF Spec
-----------------------------------------------------------------------------
(* What one manifest does to the files it is restored over.                *)

LEMMA PlainKind == ASSUME NEW e PROVE Plain(e).kind = e.kind
  BY DEF Plain

LEMMA PlainAbsent == Plain(Absent) = Absent
  BY DEF Plain, Absent

LEMMA SeenLink ==
  ASSUME NEW e \in Entries, Seen(e).kind = "link"
  PROVE  e.kind = "link"
  BY KindOf, SeenForms DEF Absent

LEMMA RestoreFull ==
  ASSUME NEW c, NEW snapshot, NEW d, NEW files, IsFullOf(c, snapshot, d), Stored(c, blobs)
  PROVE  Agrees(RestoreManifest(files, c, TRUE), snapshot, d)
<1> DEFINE after == RestoreManifest(files, c, TRUE)
<1>1. Absent.kind # "link"
  BY DEF Absent
<1>2. ASSUME NEW p \in Paths PROVE after[p] = c.entries[p]
  <2>1. after[p] =
          IF c.entries[p] = Absent THEN Absent
          ELSE IF c.entries[p].kind = "file" /\
                  (Absent.kind = "link" \/ c.entries[p].data \notin blobs)
          THEN Unrestorable ELSE c.entries[p]
    BY DEF RestoreManifest
  <2>2. QED
    BY <1>1, <2>1 DEF Stored
<1> HIDE DEF after
<1>3. Agrees(after, snapshot, d)
  BY <1>2 DEF IsFullOf, Agrees
<1>4. QED
  BY <1>3 DEF after

LEMMA RestoreStep ==
  ASSUME NEW c, NEW prev \in Snapshots, NEW was, NEW snapshot, NEW d, NEW files,
         IsStepOf(c, prev, was, snapshot, d), Stored(c, blobs), Agrees(files, prev, was)
  PROVE  Agrees(RestoreManifest(files, c, FALSE), snapshot, d)
<1> DEFINE after == RestoreManifest(files, c, FALSE)
<1> SUFFICES ASSUME NEW p \in Paths
             PROVE  IF p \in d THEN after[p].kind # "link" ELSE Plain(after[p]) = Seen(snapshot[p])
  BY DEF Agrees
<1> DEFINE kept == IF p \in c.deleted THEN Absent ELSE files[p]
<1>1. after[p] =
        IF c.entries[p] = Absent THEN kept
        ELSE IF c.entries[p].kind = "file" /\
                (kept.kind = "link" \/ c.entries[p].data \notin blobs)
        THEN Unrestorable ELSE c.entries[p]
  BY DEF RestoreManifest
<1>2. kept.kind = "link" => p \notin c.deleted /\ p \notin was /\ prev[p].kind = "link"
  <2>1. CASE p \in c.deleted
    BY <2>1 DEF Absent
  <2>2. CASE p \notin c.deleted
    <3>1. p \in was => files[p].kind # "link"
      BY DEF Agrees
    <3>2. p \notin was => Plain(files[p]) = Seen(prev[p])
      BY DEF Agrees
    <3>3. p \notin was /\ files[p].kind = "link" => prev[p].kind = "link"
      BY <3>2, PlainKind, SeenLink, SnapshotEntries
    <3>4. QED
      BY <2>2, <3>1, <3>3
  <2>3. QED
    BY <2>1, <2>2
<1>3. CASE c.entries[p] = Absent
  <2>1. after[p] = kept
    BY <1>1, <1>3
  <2>2. CASE p \in d
    <3>1. p \in c.deleted \/ p \in was \/ prev[p].kind # "link"
      BY <1>3, <2>2 DEF IsStepOf
    <3>2. QED
      BY <1>2, <2>1, <2>2, <3>1
  <2>3. CASE p \notin d
    <3>1. IF p \in c.deleted THEN Seen(snapshot[p]) = Absent
          ELSE p \notin was /\ Seen(prev[p]) = Seen(snapshot[p])
      BY <1>3, <2>3 DEF IsStepOf
    <3>2. p \notin was => Plain(files[p]) = Seen(prev[p])
      BY DEF Agrees
    <3>3. Plain(kept) = Seen(snapshot[p])
      BY <3>1, <3>2, PlainAbsent
    <3>4. QED
      BY <2>1, <2>3, <3>3
  <2>4. QED
    BY <2>2, <2>3
<1>4. CASE c.entries[p] # Absent
  <2>1. p \notin d /\ Plain(c.entries[p]) = Seen(snapshot[p])
    BY <1>4 DEF IsStepOf
  <2>2. c.entries[p].kind = "file" => kept.kind # "link"
    BY <1>2 DEF IsStepOf
  <2>3. after[p] = c.entries[p]
    BY <1>1, <1>4, <2>2 DEF Stored
  <2>4. QED
    BY <2>1, <2>3
<1>5. QED
  BY <1>3, <1>4

-----------------------------------------------------------------------------
(* The restored chain.                                                     *)

LEMMA SourceIs ==
  ASSUME NEW i
  PROVE  SourceContents(i) = [p \in Paths |-> Seen(trace[i].root[p])]
  BY DEF SourceContents, WithoutMode, FilesOf, Seen, Plain

LEMMA LastIsUnique ==
  ASSUME NEW i, NEW j, IsLast(j, i), NEW k, IsLast(k, i)
  PROVE  j = k
<1>1. j \in Int /\ k \in Int /\ j <= k /\ k <= j
  BY DEF IsLast, ManifestsUpTo
<1>2. QED
  BY <1>1

LEMMA ChainIs ==
  ASSUME NEW i, NEW s, IsLastFull(s, i)
  PROVE  /\ ChainStart(i) = s /\ s \in 1 .. i
         /\ Chain(i) = {k \in ManifestsUpTo(i) : k >= s}
<1>1. s \in FullsUpTo(i) /\ \A k \in FullsUpTo(i) : k <= s
  BY DEF IsLastFull
<1>2. \A k \in FullsUpTo(i) : k \in Int
  BY DEF FullsUpTo
<1>3. \A k \in FullsUpTo(i) : (\A j \in FullsUpTo(i) : j <= k) => k = s
  BY <1>1, <1>2
<1>4. ChainStart(i) = s
  BY <1>1, <1>3 DEF ChainStart
<1>5. QED
  BY <1>1, <1>4 DEF Chain, FullsUpTo

Restorable == [Paths -> ManifestEntries \cup {Unrestorable}
                         \cup {[kind |-> "link", data |-> CHOOSE c \in Contents : TRUE]}]

LEMMA RestoreType ==
  ASSUME NEW files \in Restorable, NEW c \in Checkpoints, NEW clear
  PROVE  RestoreManifest(files, c, clear) \in Restorable
<1>1. \A p \in Paths : RestoreManifest(files, c, clear)[p] \in
        {files[p], Absent, c.entries[p], Unrestorable}
  BY DEF RestoreManifest
<1>2. \A p \in Paths : c.entries[p] \in ManifestEntries
  BY CheckpointForm
<1>3. RestoreManifest(files, c, clear) =
        [p \in Paths |-> RestoreManifest(files, c, clear)[p]]
  BY DEF RestoreManifest
<1>4. QED
  BY <1>1, <1>2, <1>3, ConstantTypes DEF Restorable

LEMMA RestoringIs ==
  ASSUME ChainTypeOK, NEW i \in 0 .. Len(trace)
  PROVE  \A k \in 1 .. i :
           Restoring(i)[k] = IF k \in Chain(i)
                             THEN RestoreManifest(Restoring(i)[k - 1], trace[k].checkpoint,
                                                  k = ChainStart(i))
                             ELSE Restoring(i)[k - 1]
<1> DEFINE Body(g, k) ==
      IF k = 0 THEN Foreign
      ELSE IF k \in Chain(i) THEN RestoreManifest(g[k - 1], trace[k].checkpoint, k = ChainStart(i))
      ELSE g[k - 1]
<1> DEFINE step == [k \in 1 .. i |-> [f \in Restorable |->
      IF k \in Chain(i) THEN RestoreManifest(f, trace[k].checkpoint, k = ChainStart(i)) ELSE f]]
<1>1. i \in Nat /\ \A k \in 1 .. i : trace[k].checkpoint \in Checkpoints /\ k # 0
  BY TraceEntries
<1>2. Foreign \in Restorable
  BY DEF Foreign, Restorable
<1>3. step \in Steps(i, Restorable)
  BY <1>1, RestoreType DEF Steps
<1>4. PICK g : g \in [0 .. i -> Restorable] /\ g[0] = Foreign
               /\ \A k \in 1 .. i : g[k] = step[k][g[k - 1]]
  <2> HIDE DEF step
  <2>1. \E g : IsRecursion(g, i, Restorable, Foreign, step)
    BY <1>1, <1>2, <1>3, RecursionExists
  <2>2. QED
    BY <2>1 DEF IsRecursion
<1>5. ASSUME NEW k \in 1 .. i PROVE g[k] = Body(g, k)
  <2>1. k - 1 \in 0 .. i /\ g[k - 1] \in Restorable
    BY <1>1, <1>4
  <2>2. QED
    BY <1>1, <1>4, <2>1
<1>6. g = [k \in 0 .. i |-> Body(g, k)]
  <2>1. \A k \in 0 .. i : g[k] = Body(g, k)
    BY <1>1, <1>4, <1>5
  <2>2. g = [k \in 0 .. i |-> g[k]]
    BY <1>4
  <2> HIDE DEF Body
  <2>3. QED
    BY <2>1, <2>2
<1>7. Restoring(i) = [k \in 0 .. i |-> Body(Restoring(i), k)]
  BY <1>6 DEF Restoring
<1>8. \A k \in 1 .. i : Restoring(i)[k] = Body(Restoring(i), k)
  <2> HIDE DEF Body
  <2>1. QED
    BY <1>1, <1>7
<1>9. QED
  BY <1>1, <1>8
\* From its start on, the chain has restored the last manifest so far.
LEMMA ChainRestores ==
  ASSUME IInv, NEW i \in 1 .. Len(trace), NEW s, IsLastFull(s, i)
  PROVE  \A k \in s .. i, j \in 1 .. i :
           IsLast(j, k) => Agrees(Restoring(i)[k], trace[j].root, trace[j].doubt)
<1> DEFINE g == Restoring(i)
<1> DEFINE T == {k \in 0 .. i : k < s \/ \A j \in 1 .. i :
                   IsLast(j, k) => Agrees(g[k], trace[j].root, trace[j].doubt)}
<1>1. /\ ChainTypeOK /\ ManifestInv /\ Len(trace) \in Nat
      /\ \A k \in 1 .. i : k \in 1 .. Len(trace) /\ trace[k].root \in Snapshots
  BY TraceEntries DEF IInv
<1>2. ChainStart(i) = s /\ s \in 1 .. i /\ Chain(i) = {k \in ManifestsUpTo(i) : k >= s}
  BY ChainIs
<1>3. \A k \in 1 .. i :
        g[k] = IF k \in Chain(i)
               THEN RestoreManifest(g[k - 1], trace[k].checkpoint, k = s) ELSE g[k - 1]
  <2>1. i \in 0 .. Len(trace)
    BY <1>1
  <2>2. QED
    BY <1>1, <1>2, <2>1, RestoringIs
<1> HIDE DEF g
<1>4. 0 \in T
  BY <1>2
<1>5. ASSUME NEW k \in 1 .. i, k - 1 \in T PROVE k \in T
  <2>1. SUFFICES ASSUME ~ (k < s), NEW j \in 1 .. i, IsLast(j, k)
                 PROVE  Agrees(g[k], trace[j].root, trace[j].doubt)
    BY <1>2
  <2> DEFINE c == trace[k].checkpoint
  <2>2. k \in ManifestsUpTo(k) <=> HasManifest(c)
    BY DEF ManifestsUpTo
  <2>3. k \in Chain(i) <=> HasManifest(c)
    BY <1>2, <2>1 DEF ManifestsUpTo
  <2>4. HasManifest(c) => Stored(c, blobs) /\ j = k
    <3>1. k \in ManifestsUpTo(k) => j = k
      <4>1. j \in Int /\ j <= k /\ (k \in ManifestsUpTo(k) => k <= j)
        BY <2>1 DEF IsLast, ManifestsUpTo
      <4>2. QED
        BY <4>1
    <3>2. QED
      BY <1>1, <2>2, <3>1 DEF ManifestInv
  <2>5. CASE k = s
    <3>1. c.kind = "full"
      BY <2>5 DEF IsLastFull, FullsUpTo
    <3>2. HasManifest(c) /\ IsFullOf(c, trace[k].root, trace[k].doubt)
      BY <1>1, <3>1 DEF HasManifest, ManifestInv
    <3>3. g[k] = RestoreManifest(g[k - 1], c, TRUE)
      BY <1>3, <2>3, <2>5, <3>2
    <3>4. Agrees(g[k], trace[k].root, trace[k].doubt)
      <4> HIDE DEF c
      <4>1. Agrees(RestoreManifest(g[k - 1], c, TRUE), trace[k].root, trace[k].doubt)
        BY <2>4, <3>2, RestoreFull
      <4>2. QED
        BY <3>3, <4>1
    <3>5. QED
      BY <2>4, <3>2, <3>4
  <2>6. CASE k # s /\ HasManifest(c)
    <3>1. c.kind = "incremental"
      <4>1. c.kind # "full"
        <5>1. k \in Int /\ s \in Int /\ k > s
          BY <1>2, <2>1, <2>6
        <5>2. k \notin FullsUpTo(i)
          BY <5>1 DEF IsLastFull
        <5>3. QED
          BY <5>2 DEF FullsUpTo
      <4>2. QED
        BY <2>6, <4>1 DEF HasManifest
    <3>2. PICK m \in 1 .. k - 1 :
            /\ IsLast(m, k - 1)
            /\ IsStepOf(c, trace[m].root, trace[m].doubt, trace[k].root, trace[k].doubt)
      BY <1>1, <3>1 DEF ManifestInv
    <3>3. m \in 1 .. i /\ ~ (k - 1 < s)
      BY <1>2, <2>1, <2>6
    <3>4. Agrees(g[k - 1], trace[m].root, trace[m].doubt)
      BY <1>5, <3>2, <3>3
    <3>5. g[k] = RestoreManifest(g[k - 1], c, FALSE)
      BY <1>3, <2>3, <2>6
    <3>6. Agrees(g[k], trace[k].root, trace[k].doubt)
      <4>1. trace[m].root \in Snapshots /\ Stored(c, blobs)
        BY <1>1, <2>4, <2>6, <3>3
      <4> HIDE DEF c
      <4>2. Agrees(RestoreManifest(g[k - 1], c, FALSE), trace[k].root, trace[k].doubt)
        BY <3>2, <3>4, <4>1, RestoreStep
      <4>3. QED
        BY <3>5, <4>2
    <3>7. QED
      BY <2>4, <2>6, <3>6
  <2>7. CASE k # s /\ ~ HasManifest(c)
    <3>1. g[k] = g[k - 1] /\ ~ (k - 1 < s)
      BY <1>2, <1>3, <2>1, <2>3, <2>7
    <3>2. ManifestsUpTo(k) = ManifestsUpTo(k - 1)
      <4>1. 1 .. k = (1 .. k - 1) \cup {k}
        OBVIOUS
      <4>2. QED
        BY <2>7, <4>1 DEF ManifestsUpTo
    <3>3. IsLast(j, k - 1)
      BY <2>1, <3>2 DEF IsLast
    <3>4. QED
      BY <1>5, <3>1, <3>3
  <2>8. QED
    BY <2>5, <2>6, <2>7
<1>6. \A k \in 0 .. i : k \in T
  <2>1. i \in Nat
    OBVIOUS
  <2> HIDE DEF T
  <2>2. QED
    BY <1>4, <1>5, <2>1, UpTo
<1>7. ASSUME NEW k \in s .. i PROVE k \in 0 .. i /\ ~ (k < s)
  BY <1>2
<1>8. QED
  BY <1>6, <1>7 DEF g

LEMMA Restores == IInv => RestoreReproduces
<1> SUFFICES ASSUME IInv, NEW i \in ManifestsUpTo(Len(trace))
             PROVE  /\ Chain(i) # {}
                    /\ AreTheSources(WithoutMode(RestoreChain(i)), i)
  BY DEF RestoreReproduces
<1>1. i \in 1 .. Len(trace) /\ HasManifest(trace[i].checkpoint)
  BY DEF ManifestsUpTo
<1>2. PICK s \in 1 .. i : IsLastFull(s, i)
  BY <1>1 DEF IInv, ManifestInv
<1>3. i \in ManifestsUpTo(i) /\ IsLast(i, i) /\ i \in s .. i /\ i \in 1 .. i
  BY <1>1, <1>2 DEF IsLast, ManifestsUpTo
<1>4. Chain(i) # {}
  BY <1>2, <1>3, ChainIs
<1>5. Agrees(RestoreChain(i), trace[i].root, trace[i].doubt)
  BY <1>1, <1>2, <1>3, ChainRestores DEF RestoreChain
<1>6. WithoutMode(RestoreChain(i)) = [p \in Paths |-> Plain(RestoreChain(i)[p])]
  BY DEF WithoutMode, Plain
<1>7. QED
  BY <1>4, <1>5, <1>6, SourceIs DEF AreTheSources, Agrees

LEMMA Skips == IInv => SkipMeansUnchanged
<1> SUFFICES ASSUME IInv, NEW i \in Skipped
             PROVE  /\ ManifestsUpTo(i) # {}
                    /\ AreTheSources(SourceContents(LastManifest(i)), i)
  BY DEF SkipMeansUnchanged
<1>1. i \in 1 .. Len(trace) /\ trace[i].checkpoint.kind = "skipped"
  BY DEF Skipped, IInv, ChainTypeOK
<1>2. PICK j \in 1 .. i : /\ IsLast(j, i)
                          /\ \A p \in Paths \ trace[i].doubt :
                               Seen(trace[j].root[p]) = Seen(trace[i].root[p])
  BY <1>1 DEF IInv, ManifestInv
<1>3. LastManifest(i) = j
  <2>1. \A k \in ManifestsUpTo(i) : (\A m \in ManifestsUpTo(i) : m <= k) => k = j
    BY <1>2, LastIsUnique DEF IsLast
  <2>2. QED
    BY <1>2, <2>1 DEF LastManifest, IsLast
<1>4. ManifestsUpTo(i) # {}
  BY <1>2 DEF IsLast
<1>5. QED
  BY <1>2, <1>3, <1>4, SourceIs DEF AreTheSources

\* The chain of manifests of a trace restores every checkpoint, also those it
\* says to have skipped, and is rebased in time
\* (`_restore_checkpoint_chain_to_container`), but for the files of a container
\* that the recorder silently could not read.
THEOREM ChainFaithfulCorrect == Spec => []ChainFaithful
<1>1. IInv => ChainFaithful
  BY Restores, Skips DEF ChainFaithful, IInv, BytesInv
<1>2. QED
  BY <1>1, Invariance, PTL

-----------------------------------------------------------------------------
(* The fold.                                                               *)

FoldRecursion ==
  /\ Folded[0] = Nothing
  /\ \A i \in 1 .. Len(trace) : Folded[i] = FoldManifest(Folded[i - 1], trace[i])

FoldedFiles == [Paths -> ManifestEntries]

LEMMA FoldedIs == ChainTypeOK => FoldRecursion
<1> SUFFICES ASSUME ChainTypeOK PROVE FoldRecursion
  OBVIOUS
<1> DEFINE n == Len(trace)
<1> DEFINE Body(g, i) == IF i = 0 THEN Nothing ELSE FoldManifest(g[i - 1], trace[i])
<1> DEFINE step == [i \in 1 .. n |-> [f \in FoldedFiles |-> FoldManifest(f, trace[i])]]
<1>1. n \in Nat /\ \A i \in 1 .. n : trace[i].checkpoint \in Checkpoints /\ i # 0
  BY TraceEntries
<1>2. Nothing \in FoldedFiles
  BY ConstantTypes DEF Nothing, FoldedFiles
<1>3. ASSUME NEW f \in FoldedFiles, NEW i \in 1 .. n
      PROVE  FoldManifest(f, trace[i]) \in FoldedFiles
  <2>1. trace[i].checkpoint.entries \in [Paths -> ManifestEntries]
    BY <1>1 DEF Checkpoints
  <2>2. QED
    BY <2>1, ConstantTypes DEF FoldManifest, FoldedFiles
<1>4. step \in Steps(n, FoldedFiles)
  BY <1>3 DEF Steps
<1>5. PICK g : g \in [0 .. n -> FoldedFiles] /\ g[0] = Nothing
               /\ \A k \in 1 .. n : g[k] = step[k][g[k - 1]]
  <2> HIDE DEF n, step
  <2>1. \E g : IsRecursion(g, n, FoldedFiles, Nothing, step)
    BY <1>1, <1>2, <1>4, RecursionExists
  <2>2. QED
    BY <2>1 DEF IsRecursion
<1>6. ASSUME NEW k \in 1 .. n PROVE g[k] = Body(g, k)
  <2>1. k - 1 \in 0 .. n
    BY <1>1
  <2>2. g[k - 1] \in FoldedFiles
    <3> HIDE DEF n
    <3>1. QED
      BY <1>5, <2>1
  <2>3. QED
    BY <1>1, <1>5, <2>2
<1>7. g = [k \in 0 .. n |-> Body(g, k)]
  <2>1. \A k \in 0 .. n : g[k] = Body(g, k)
    BY <1>1, <1>5, <1>6
  <2>2. g = [k \in 0 .. n |-> g[k]]
    BY <1>5
  <2> HIDE DEF n, Body
  <2>3. QED
    BY <2>1, <2>2
<1>8. Folded = [k \in 0 .. n |-> Body(Folded, k)]
  BY <1>7 DEF Folded
<1>9. \A k \in 0 .. n : Folded[k] = Body(Folded, k)
  <2> HIDE DEF Body
  <2>1. QED
    BY <1>8
<1>10. QED
  BY <1>1, <1>9 DEF FoldRecursion

\* A path that has one type in two snapshots, apart from being absent.
StablePath(p, i) ==
  \A j, k \in ManifestsUpTo(i) :
    LET types == {EntryType(trace[j].root[p]), EntryType(trace[k].root[p])}
    IN  Cardinality(types \ {EntryType(Absent)}) <= 1

LEMMA StableTypes ==
  ASSUME NEW p, NEW i, StablePath(p, i), NEW j \in ManifestsUpTo(i), NEW k \in ManifestsUpTo(i)
  PROVE  \/ EntryType(trace[j].root[p]) = EntryType(trace[k].root[p])
         \/ EntryType(trace[j].root[p]) = EntryType(Absent)
         \/ EntryType(trace[k].root[p]) = EntryType(Absent)
<1> DEFINE a == EntryType(trace[j].root[p])
<1> DEFINE b == EntryType(trace[k].root[p])
<1> DEFINE n == EntryType(Absent)
<1>1. Cardinality({a, b} \ {n}) <= 1
  BY DEF StablePath
<1> HIDE DEF a, b, n
<1>2. SUFFICES ASSUME a # b, a # n, b # n PROVE FALSE
  BY DEF a, b, n
<1>3. {a, b} \ {n} = {a} \cup {b}
  BY <1>2
<1>4. IsFiniteSet({a}) /\ Cardinality({a}) = 1
  BY FS_Singleton
<1>5. Cardinality({a} \cup {b}) = Cardinality({a}) + 1
  BY <1>2, <1>4, FS_AddElement
<1>6. QED
  BY <1>1, <1>3, <1>4, <1>5

\* The fold of the replay is what the source had at every manifest, for the
\* paths that never change their type from one manifest to a later one
\* (`_fold_checkpoint_manifest`).
LEMMA FoldFollows ==
  ASSUME IInv, NEW i \in 1 .. Len(trace), NEW p \in Paths, StablePath(p, i)
  PROVE  \A k \in 0 .. i, j \in 1 .. i :
           IsLast(j, k) /\ p \notin trace[j].doubt => Plain(Folded[k][p]) = Seen(trace[j].root[p])
<1> DEFINE T == {k \in 0 .. i : \A j \in 1 .. i :
                   IsLast(j, k) /\ p \notin trace[j].doubt
                   => Plain(Folded[k][p]) = Seen(trace[j].root[p])}
<1>1. /\ ChainTypeOK /\ ManifestInv /\ Len(trace) \in Nat
      /\ \A k \in 1 .. i : /\ k \in 1 .. Len(trace)
                           /\ trace[k].root \in Snapshots /\ trace[k].checkpoint \in Checkpoints
  BY TraceEntries DEF IInv
<1>2. \A k \in 1 .. i : Folded[k] = FoldManifest(Folded[k - 1], trace[k])
  BY <1>1, FoldedIs DEF FoldRecursion
<1>3. 0 \in T
  BY DEF IsLast, ManifestsUpTo
<1>4. ASSUME NEW k \in 1 .. i, k - 1 \in T PROVE k \in T
  <2>1. SUFFICES ASSUME NEW j \in 1 .. i, IsLast(j, k), p \notin trace[j].doubt
                 PROVE  Plain(Folded[k][p]) = Seen(trace[j].root[p])
    OBVIOUS
  <2> DEFINE c == trace[k].checkpoint
  <2>2. HasManifest(c) => j = k /\ k \in ManifestsUpTo(i)
    <3>1. HasManifest(c) => k \in ManifestsUpTo(k) /\ k \in ManifestsUpTo(i)
      BY DEF ManifestsUpTo
    <3>2. j \in Int /\ j <= k /\ (k \in ManifestsUpTo(k) => k <= j)
      BY <2>1 DEF IsLast, ManifestsUpTo
    <3>3. QED
      BY <3>1, <3>2
  <2>3. CASE c.kind = "full"
    <3>1. Folded[k] = c.entries /\ HasManifest(c)
          /\ IsFullOf(c, trace[k].root, trace[k].doubt)
      BY <1>1, <1>2, <2>3 DEF FoldManifest, ManifestInv, HasManifest
    <3>2. QED
      BY <2>1, <2>2, <3>1 DEF IsFullOf, Agrees
  <2>4. CASE c.kind = "incremental"
    <3>1. PICK m \in 1 .. k - 1 :
            /\ IsLast(m, k - 1)
            /\ IsStepOf(c, trace[m].root, trace[m].doubt, trace[k].root, trace[k].doubt)
      BY <1>1, <2>4 DEF ManifestInv
    <3>2. m \in 1 .. i /\ m \in ManifestsUpTo(i)
      BY <3>1 DEF IsLast, ManifestsUpTo
    <3>3. p \notin trace[m].doubt => Plain(Folded[k - 1][p]) = Seen(trace[m].root[p])
      BY <1>4, <3>1, <3>2
    <3>4. HasManifest(c) /\ j = k /\ k \in ManifestsUpTo(i) /\ p \notin trace[k].doubt
      BY <2>1, <2>2, <2>4 DEF HasManifest
    <3>5. Folded[k][p] = IF p \in c.deleted THEN Absent
                         ELSE IF c.entries[p] # Absent THEN c.entries[p] ELSE Folded[k - 1][p]
      BY <1>2, <2>4 DEF FoldManifest
    <3>6. CASE p \in c.deleted
      <4>1. /\ trace[m].root[p] \in Entries /\ trace[k].root[p] \in Entries
            /\ trace[m].root[p].kind # "none"
            /\ EntryType(trace[m].root[p]) # EntryType(trace[k].root[p])
        BY <1>1, <3>1, <3>2, <3>6, SnapshotEntries DEF IsStepOf
      <4>2. EntryType(trace[m].root[p]) # EntryType(Absent)
        BY <4>1, ConstantTypes, EntryTypes DEF Absent
      <4>3. EntryType(trace[k].root[p]) = EntryType(Absent)
        BY <3>2, <3>4, <4>1, <4>2, StableTypes
      <4>4. trace[k].root[p].kind = "none"
        BY <4>1, <4>3, ConstantTypes, EntryTypes DEF Absent
      <4>5. Seen(trace[k].root[p]) = Absent
        BY <4>1, <4>4, SeenForms
      <4>6. QED
        BY <3>4, <3>5, <3>6, <4>5, PlainAbsent
    <3>7. CASE p \notin c.deleted
      BY <3>1, <3>3, <3>4, <3>5, <3>7 DEF IsStepOf
    <3>8. QED
      BY <3>6, <3>7
  <2>5. CASE ~ HasManifest(c)
    <3>1. Folded[k] = Folded[k - 1]
      BY <1>2, <2>5 DEF FoldManifest, HasManifest
    <3>2. ManifestsUpTo(k) = ManifestsUpTo(k - 1)
      <4>1. 1 .. k = (1 .. k - 1) \cup {k}
        OBVIOUS
      <4>2. QED
        BY <2>5, <4>1 DEF ManifestsUpTo
    <3>3. IsLast(j, k - 1)
      BY <2>1, <3>2 DEF IsLast
    <3>4. QED
      BY <1>4, <2>1, <3>1, <3>3
  <2>6. QED
    BY <2>3, <2>4, <2>5 DEF HasManifest
<1>5. \A k \in 0 .. i : k \in T
  <2>1. i \in Nat
    OBVIOUS
  <2> HIDE DEF T
  <2>2. QED
    BY <1>3, <1>4, <2>1, UpTo
<1>6. QED
  BY <1>5

\* The contents the replay compares its container with are what the source had,
\* at every manifest and for every path that keeps its type and is not one the
\* recorder of a container silently could not read.
THEOREM FoldOfStableTypesCorrect == Spec => []FoldOfStableTypes
<1>1. ASSUME IInv, NEW i \in ManifestsUpTo(Len(trace)), NEW p \in Paths,
             p \notin trace[i].doubt, StablePath(p, i)
      PROVE  WithoutMode(Folded[i])[p] = SourceContents(i)[p]
  <2>1. i \in 1 .. Len(trace) /\ IsLast(i, i) /\ i \in 0 .. i /\ i \in 1 .. i
    BY DEF ManifestsUpTo, IsLast
  <2>2. Plain(Folded[i][p]) = Seen(trace[i].root[p])
    BY <1>1, <2>1, FoldFollows
  <2>3. WithoutMode(Folded[i])[p] = Plain(Folded[i][p])
    BY DEF WithoutMode, Plain
  <2>4. QED
    BY <2>2, <2>3, SourceIs
<1>2. IInv => FoldOfStableTypes
  BY <1>1 DEF FoldOfStableTypes, StablePath
<1>3. QED
  BY <1>2, Invariance, PTL

-----------------------------------------------------------------------------
(* The agent's session.                                                    *)

(* Types. *)
SessionCheckpoints ==
    [message : Messages, completed : Seq(Messages), pending : Seq(1..MaxIterations)]

IsSaved(s) ==
    /\ s \in [messages : Seq(Messages), archived : Nat, checkpoint : SessionCheckpoints]
    /\ s.archived <= Len(s.messages)
    /\ Len(s.checkpoint.completed) + Len(s.checkpoint.pending) <= 1

TurnRecords ==
    [pc : Running \cup Ended \cup {"queued", "lock", "gate"}, iter : 0..MaxIterations,
     base : Nat, messages : Seq(Messages),
     stop : {"none", "completed", "error", "empty_final_response", "max_iterations"}]

SessionType ==
    /\ plan \in Plans /\ run \in 0..MaxRuns
    /\ phase \in {"idle", "waiting", "stopping", "returned"}
    /\ turn \in [Turns -> TurnRecords]
    /\ IsSaved(file) /\ (cache = NotLoaded \/ IsSaved(cache))
    /\ consol \in [turn : Turns \cup {0}, bg : BOOLEAN, upto : Nat]
    /\ background \subseteq Turns
    /\ emitted \in [Turns -> Messages]
    /\ subs \in [Announcements -> {"unborn", "running", "announced", "lost"}]
    /\ inbound \in Seq(Turns)
    /\ \A t \in Turns : turn[t].pc = "tool" => turn[t].iter < plan.iterations

CacheInv ==
    /\ cache # NotLoaded =>
         /\ IsPrefix(file.messages, cache.messages)
         /\ cache.archived = file.archived
         /\ cache.checkpoint = file.checkpoint
    /\ (\E t \in Turns : turn[t].pc \in Running) \/ background # {} \/ consol.turn # 0
         => cache # NotLoaded
    /\ consol.turn # 0 => cache.archived < consol.upto /\ consol.upto < Len(cache.messages)

SavedInv == SessionType /\ CacheInv /\ ArchivedIsNoted

(* The saved history as a sequence of turns, the run's own turn the last.  *)
Paired(ms) ==
    \A i \in 1..Len(ms) :
        /\ ms[i].text = "call" =>
               i < Len(ms) /\ ms[i + 1].role = "tool" /\ IsCallOf(ms[i], ms[i + 1])
        /\ ms[i].role = "tool" => i > 1 /\ IsCallOf(ms[i - 1], ms[i])
InOrder(ms) == \A i, j \in 1..Len(ms) : i < j => ms[i].turn <= ms[j].turn
WellFormed(ms) == IsInjective(ms) /\ Paired(ms) /\ InOrder(ms)

Before(ms, t) == \A i \in 1..Len(ms) : ms[i].turn < t
OfTurn(ms, t) == \A i \in 1..Len(ms) : ms[i].turn = t
TurnSteps(ms, t, n) ==
    \A i \in 1..Len(ms) :
        ms[i] = Request(t) \/ \E k \in 1..n : ms[i] = Call(t, k) \/ ms[i] = Result(t, k)
OpenLog(ms, t, n) == TurnSteps(ms, t, n) /\ IsInjective(ms) /\ Paired(ms)
ClosedLog(ms, t) == OfTurn(ms, t) /\ IsInjective(ms) /\ Paired(ms)

(* A checkpoint of turn t: its answer, or a call with or without result.   *)
StepCheckpoint(c, t) ==
    \/ c = [message |-> Final(t), completed |-> <<>>, pending |-> <<>>]
    \/ \E i \in 1..MaxIterations :
         \/ c = [message |-> Call(t, i), completed |-> <<>>, pending |-> <<i>>]
         \/ c = [message |-> Call(t, i), completed |-> <<Result(t, i)>>, pending |-> <<>>]
NoneOrStep(c, t) == c = NoCheckpoint \/ StepCheckpoint(c, t)

(* What follows the history in a turn's messages is what _save_turn takes. *)
TailFrom(ms, past) == SubSeq(ms, past + 1, Len(ms))
TailOf(r) == TailFrom(r.messages, r.base)

TurnOf(pc_, iter, from, ms, stop) ==
  [pc |-> pc_, iter |-> iter, base |-> from, messages |-> ms, stop |-> stop]
Fresh(pc_) == TurnOf(pc_, 0, 0, <<>>, "none")

(* Without subagents only the run's own turn is under way, *)
AloneInv ==
    /\ \A a \in Announcements :
         subs[a] = "unborn" /\ turn[a].pc = "idle" /\ emitted[a] = NoMessage
    /\ \A t \in Prompts :
         /\ t # run \/ phase = "idle" => turn[t].pc \in Ended
         /\ t > run => turn[t] = NoTurn /\ emitted[t] = NoMessage
    /\ phase = "idle" => inbound = <<>> /\ background = {} /\ consol.turn = 0 /\ cache = NotLoaded
    /\ phase # "idle" => run \in Prompts
    /\ inbound # <<>> => inbound = <<run>> /\ turn[run].pc = "queued"
    /\ background \subseteq {run}
    /\ background # {} => turn[run].pc = "done"
    /\ consol.turn # 0 =>
         consol.turn = run /\ turn[run].pc = IF consol.bg THEN "done" ELSE "consolidate"

(* the file holds the turns so far, *)
FileHolds(f, n) ==
    /\ WellFormed(f.messages)
    /\ Before(f.messages, n + 1)
    /\ f.checkpoint = NoCheckpoint
       \/ \E t \in 1..n : StepCheckpoint(f.checkpoint, t) /\ Before(f.messages, t)

(* and every step they checkpointed, *)
OnRecord(f, m) == f.checkpoint.message = m \/ Contains(f.messages, m)
EmittedHeld(e, f) == \A t \in Prompts : e[t] # NoMessage => e[t].turn = t /\ OnRecord(f, e[t])

(* and the run's turn is where its record r, the cache c, the file f and   *)
(* the step e it checkpointed last say.                                    *)
StillWaits(t, r, c, f, e) ==
    /\ c = NotLoaded /\ Before(f.messages, t) /\ r = Fresh(r.pc) /\ e = NoMessage
    /\ f.checkpoint = NoCheckpoint \/ \E u \in 1..t-1 : StepCheckpoint(f.checkpoint, u)
Started(t, r, c, f, e) ==
    /\ c = f /\ Before(f.messages, t) /\ NoneOrStep(f.checkpoint, t)
    /\ e # NoMessage => e = f.checkpoint.message /\ Contains(TailOf(r), e)
Begun(r, f, e) == f.checkpoint = NoCheckpoint /\ e = NoMessage /\ r = Fresh("consolidate")
Asking(t, r) ==
    /\ r.base <= Len(r.messages) /\ OpenLog(TailOf(r), t, r.iter)
    /\ r.messages # <<>> /\ Last(r.messages).role # "assistant"
Calling(t, r, e) ==
    /\ r.base <= Len(r.messages)
    /\ TailOf(r) = Append(Front(TailOf(r)), Call(t, r.iter + 1))
    /\ OpenLog(Front(TailOf(r)), t, r.iter)
    /\ e = Call(t, r.iter + 1)
AtTurn(t, r, c, f, e) ==
    /\ r.pc \in {"queued", "lock", "gate"} => StillWaits(t, r, c, f, e)
    /\ r.pc \in Running => Started(t, r, c, f, e)
    /\ r.pc = "consolidate" => Begun(r, f, e)
    /\ r.pc = "model" => Asking(t, r)
    /\ r.pc = "tool" => Calling(t, r, e)
    /\ r.pc = "closing" => ClosedLog(TailOf(r), t)
    /\ r.pc = "done" => c = f /\ f.checkpoint = NoCheckpoint

FileInv == FileHolds(file, run)
EmittedInv == EmittedHeld(emitted, file)
TurnInv == phase # "idle" => AtTurn(run, turn[run], cache, file, emitted[run])

Solo == AloneInv /\ FileInv /\ EmittedInv /\ TurnInv
SoloInv == plan.spawns = 0 => Solo

-----------------------------------------------------------------------------
(* Sequences.                                                              *)

\* A function on 1 .. n is a sequence.
LEMMA FunctionIsSeq ==
  ASSUME NEW S, NEW n \in Nat, NEW f \in [1 .. n -> S]
  PROVE  f \in Seq(S) /\ Len(f) = n
<1>1. f \in Seq(S)
  BY SeqDef
<1>2. QED
  BY <1>1, LenProperties

\* A prefix, element by element.
LEMMA PrefixIs ==
  ASSUME NEW S, NEW u \in Seq(S), NEW v \in Seq(S)
  PROVE  IsPrefix(u, v) <=> Len(u) <= Len(v) /\ \A i \in 1 .. Len(u) : u[i] = v[i]
<1>1. Len(u) \in Nat /\ Len(v) \in Nat
  BY LenProperties
<1> DEFINE n == Len(u)
<1>2. SUFFICES ASSUME n <= Len(v)
               PROVE  SubSeq(u, 1, n) = SubSeq(v, 1, n) <=> \A i \in 1 .. n : u[i] = v[i]
  BY DEF IsPrefix
<1>3. SubSeq(u, 1, n) = u
  BY SubSeqFull
<1>4. /\ SubSeq(v, 1, n) \in Seq(S) /\ Len(SubSeq(v, 1, n)) = n
      /\ \A i \in 1 .. n : SubSeq(v, 1, n)[i] = v[i]
  <2>1. n \in Int /\ 1 \in Int /\ \A i \in 1 .. n : v[i] \in S
    BY <1>1, <1>2, ElementOfSeq
  <2>2. /\ SubSeq(v, 1, n) \in Seq(S) /\ Len(SubSeq(v, 1, n)) = IF 1 <= n THEN n - 1 + 1 ELSE 0
        /\ \A i \in 1 .. n - 1 + 1 : SubSeq(v, 1, n)[i] = v[1 + i - 1]
    BY <2>1, SubSeqProperties
  <2>3. QED
    BY <1>1, <2>2
<1>5. QED
  BY <1>3, <1>4, SeqEqual

LEMMA PrefixOfConcat ==
  ASSUME NEW S, NEW u \in Seq(S), NEW v \in Seq(S)
  PROVE  IsPrefix(u, u \o v)
<1>1. Len(u) \in Nat /\ Len(v) \in Nat
  BY LenProperties
<1>2. /\ u \o v \in Seq(S) /\ Len(u \o v) = Len(u) + Len(v)
      /\ \A i \in 1 .. Len(u) + Len(v) : (u \o v)[i] = IF i <= Len(u) THEN u[i] ELSE v[i - Len(u)]
  BY ConcatProperties
<1>3. Len(u) <= Len(u \o v) /\ \A i \in 1 .. Len(u) : u[i] = (u \o v)[i]
  BY <1>1, <1>2
<1>4. QED
  BY <1>2, <1>3, PrefixIs

LEMMA PrefixReflexive ==
  ASSUME NEW S, NEW u \in Seq(S)
  PROVE  IsPrefix(u, u)
<1>1. Len(u) \in Nat
  BY LenProperties
<1>2. QED
  BY <1>1, PrefixIs

LEMMA PrefixTransitive ==
  ASSUME NEW S, NEW u \in Seq(S), NEW v \in Seq(S), NEW w \in Seq(S),
         IsPrefix(u, v), IsPrefix(v, w)
  PROVE  IsPrefix(u, w)
<1>1. Len(u) \in Nat /\ Len(v) \in Nat /\ Len(w) \in Nat
  BY LenProperties
<1>2. Len(u) <= Len(v) /\ \A i \in 1 .. Len(u) : u[i] = v[i]
  BY PrefixIs
<1>3. Len(v) <= Len(w) /\ \A i \in 1 .. Len(v) : v[i] = w[i]
  BY PrefixIs
<1>4. Len(u) <= Len(w) /\ \A i \in 1 .. Len(u) : u[i] = w[i]
  BY <1>1, <1>2, <1>3
<1>5. QED
  BY <1>4, PrefixIs

\* A set of numbers has a least one.
LEMMA LeastExists ==
  ASSUME NEW U \in SUBSET Nat, U # {}
  PROVE  \E i \in U : \A j \in U : i <= j
<1> DEFINE R == OpToRel(<, Nat)
<1>1. IsWellFoundedOn(R, Nat)
  BY NatLessThanWellFounded
<1>2. \E i \in U : \A j \in U : ~ (<<j, i>> \in R)
  <2> HIDE DEF R
  <2>1. QED
    BY <1>1, WFMin
<1>3. PICK i \in U : \A j \in U : ~ (<<j, i>> \in R)
  BY <1>2
<1>4. ASSUME NEW j \in U PROVE i <= j
  <2>1. j \in Nat /\ i \in Nat
    OBVIOUS
  <2>2. ~ (j < i)
    <3>1. <<j, i>> \notin R
      BY <1>3
    <3>2. QED
      BY <2>1, <3>1 DEF OpToRel
  <2>3. QED
    BY <2>1, <2>2
<1>5. QED
  BY <1>4

\* One sequence after another.
LEMMA ConcatIs ==
  ASSUME NEW S, NEW u \in Seq(S), NEW v \in Seq(S)
  PROVE  /\ u \o v \in Seq(S) /\ Len(u \o v) = Len(u) + Len(v)
         /\ \A i \in 1 .. Len(u) : (u \o v)[i] = u[i]
         /\ \A i \in 1 .. Len(v) : (u \o v)[Len(u) + i] = v[i]
<1>1. Len(u) \in Nat /\ Len(v) \in Nat
  BY LenProperties
<1>2. /\ u \o v \in Seq(S) /\ Len(u \o v) = Len(u) + Len(v)
      /\ \A i \in 1 .. Len(u) + Len(v) : (u \o v)[i] = IF i <= Len(u) THEN u[i] ELSE v[i - Len(u)]
  BY ConcatProperties
<1>3. \A i \in 1 .. Len(u) : i \in 1 .. Len(u) + Len(v) /\ i <= Len(u)
  BY <1>1
<1>4. \A i \in 1 .. Len(v) :
        Len(u) + i \in 1 .. Len(u) + Len(v) /\ ~ (Len(u) + i <= Len(u)) /\ (Len(u) + i) - Len(u) = i
  BY <1>1
<1>5. QED
  BY <1>2, <1>3, <1>4

\* A part of a sequence.
LEMMA PartOfSeq ==
  ASSUME NEW S, NEW u \in Seq(S), NEW m \in Nat, NEW n \in Nat, m >= 1, n <= Len(u), m <= n + 1
  PROVE  /\ SubSeq(u, m, n) \in Seq(S)
         /\ Len(SubSeq(u, m, n)) = n + 1 - m
         /\ \A i \in 1 .. n + 1 - m : SubSeq(u, m, n)[i] = u[m + i - 1]
<1>1. Len(u) \in Nat
  BY LenProperties
<1>2. m \in Int /\ n \in Int /\ \A i \in m .. n : u[i] \in S
  BY <1>1, ElementOfSeq
<1>3. /\ SubSeq(u, m, n) \in Seq(S)
      /\ Len(SubSeq(u, m, n)) = IF m <= n THEN n - m + 1 ELSE 0
      /\ \A i \in 1 .. n - m + 1 : SubSeq(u, m, n)[i] = u[m + i - 1]
  BY <1>2, SubSeqProperties
<1>4. n - m + 1 = n + 1 - m /\ (m <= n \/ n + 1 - m = 0)
  OBVIOUS
<1>5. QED
  BY <1>3, <1>4

-----------------------------------------------------------------------------
(* Messages, checkpoints and sessions.                                     *)

\* The bounds are numbers, and a turn is none of the marks for none.
LEMMA SessionBounds ==
  /\ MaxIterations \in Nat /\ MaxIterations >= 1 /\ MaxRuns \in Nat /\ MaxSpawns \in Nat
  /\ MaxConcurrent \in Nat /\ RawAfter \in Nat
  /\ Prompts \subseteq Turns /\ Announcements \subseteq Turns
  /\ Turns \subseteq Nat /\ 0 \notin Turns
  /\ \A t \in Prompts : t \notin Announcements /\ t <= MaxRuns /\ t >= 1
  /\ \A t \in Announcements : t > MaxRuns /\ t \notin Prompts
  /\ \A t \in Turns : t \in Prompts \/ t \in Announcements
  /\ \A t \in 1 .. MaxRuns : t \in Prompts
  /\ \A p \in Plans :
       /\ p.runs \in 0 .. MaxRuns /\ p.iterations \in 1 .. MaxIterations
       /\ p.spawns \in 0 .. MaxSpawns /\ p.faults \in Nat /\ p.crashes \in Nat
BY BoundsAssumption DEF Turns, Prompts, Announcements

LEMMA MessageTypes ==
  /\ NoMessage \in Messages
  /\ \A t \in Turns : Request(t) \in Messages /\ Final(t) \in Messages
  /\ \A t \in Turns, i \in 0 .. MaxIterations :
       Call(t, i) \in Messages /\ Result(t, i) \in Messages /\ Interrupted(t, i) \in Messages
BY SessionBounds DEF Messages, NoMessage, Request, Final, Call, Result, Interrupted, Message

LEMMA CheckpointTypes ==
  /\ NoCheckpoint \in SessionCheckpoints
  /\ Len(NoCheckpoint.completed) = 0 /\ Len(NoCheckpoint.pending) = 0
  /\ \A c \in SessionCheckpoints :
       /\ c.message \in Messages /\ c.completed \in Seq(Messages)
       /\ c.pending \in Seq(1 .. MaxIterations)
       /\ c # NoMessage
<1>1. NoCheckpoint \in SessionCheckpoints
  BY MessageTypes, EmptySeq DEF SessionCheckpoints, NoCheckpoint
<1>2. ASSUME NEW c \in SessionCheckpoints PROVE c # NoMessage
  <2>1. "message" \in DOMAIN c
    BY DEF SessionCheckpoints
  <2>2. "message" \notin DOMAIN NoMessage
    BY DEF NoMessage
  <2>3. QED
    BY <2>1, <2>2
<1>3. QED
  BY <1>1, <1>2, EmptySeq DEF SessionCheckpoints, NoCheckpoint

\* A loaded session is not the mark for none.
LEMMA SavedFacts ==
  ASSUME NEW s, IsSaved(s)
  PROVE  /\ s # NotLoaded
         /\ s.messages \in Seq(Messages) /\ Len(s.messages) \in Nat
         /\ s.archived \in Nat /\ s.archived <= Len(s.messages)
         /\ s.checkpoint \in SessionCheckpoints
         /\ s = [messages |-> s.messages, archived |-> s.archived, checkpoint |-> s.checkpoint]
<1>1. s.checkpoint \in SessionCheckpoints
  BY DEF IsSaved
<1>2. NotLoaded.checkpoint = NoMessage
  BY DEF NotLoaded
<1>3. s # NotLoaded
  BY <1>1, <1>2, CheckpointTypes
<1>4. QED
  BY <1>1, <1>3, LenProperties DEF IsSaved

LEMMA EmptyIsSaved == IsSaved(EmptySession)
<1>1. /\ EmptySession.messages = <<>> /\ EmptySession.archived = 0
      /\ EmptySession.checkpoint = NoCheckpoint
      /\ EmptySession \in [messages : Seq(Messages), archived : Nat, checkpoint : SessionCheckpoints]
  BY CheckpointTypes, EmptySeq DEF EmptySession
<1>2. QED
  BY <1>1, CheckpointTypes, EmptySeq DEF IsSaved

\* What replaces the fields of a session makes a session.
IsParts(r, ms, n, c) ==
  r = [messages |-> ms, archived |-> n, checkpoint |-> c]
  /\ r.messages = ms /\ r.archived = n /\ r.checkpoint = c

LEMMA ArchivedParts ==
  ASSUME NEW s, IsSaved(s), NEW n \in Nat, n <= Len(s.messages)
  PROVE  IsSaved([s EXCEPT !.archived = n]) /\ IsParts([s EXCEPT !.archived = n], s.messages, n, s.checkpoint)
<1>1. s \in [messages : Seq(Messages), archived : Nat, checkpoint : SessionCheckpoints]
      /\ Len(s.checkpoint.completed) + Len(s.checkpoint.pending) <= 1
  BY DEF IsSaved
<1>2. [s EXCEPT !.archived = n] = [messages |-> s.messages, archived |-> n, checkpoint |-> s.checkpoint]
  BY <1>1
<1>3. QED
  BY <1>1, <1>2 DEF IsSaved, IsParts

LEMMA CheckpointParts ==
  ASSUME NEW s, IsSaved(s), NEW c \in SessionCheckpoints, Len(c.completed) + Len(c.pending) <= 1
  PROVE  IsSaved([s EXCEPT !.checkpoint = c]) /\ IsParts([s EXCEPT !.checkpoint = c], s.messages, s.archived, c)
<1>1. s \in [messages : Seq(Messages), archived : Nat, checkpoint : SessionCheckpoints]
      /\ s.archived <= Len(s.messages)
  BY DEF IsSaved
<1>2. [s EXCEPT !.checkpoint = c] = [messages |-> s.messages, archived |-> s.archived, checkpoint |-> c]
  BY <1>1
<1>3. QED
  BY <1>1, <1>2 DEF IsSaved, IsParts

LEMMA MessagesParts ==
  ASSUME NEW s, IsSaved(s), NEW more \in Seq(Messages)
  PROVE  LET r == [s EXCEPT !.messages = s.messages \o more]
             q == [s EXCEPT !.messages = s.messages \o more, !.checkpoint = NoCheckpoint]
         IN  /\ IsSaved(r) /\ IsParts(r, s.messages \o more, s.archived, s.checkpoint)
             /\ IsSaved(q) /\ IsParts(q, s.messages \o more, s.archived, NoCheckpoint)
             /\ IsPrefix(s.messages, s.messages \o more)
<1> DEFINE ms == s.messages \o more
           r == [messages |-> ms, archived |-> s.archived, checkpoint |-> s.checkpoint]
           q == [messages |-> ms, archived |-> s.archived, checkpoint |-> NoCheckpoint]
<1>1. s \in [messages : Seq(Messages), archived : Nat, checkpoint : SessionCheckpoints]
      /\ s.archived <= Len(s.messages)
      /\ Len(s.checkpoint.completed) + Len(s.checkpoint.pending) <= 1
  BY DEF IsSaved
<1>2. s.messages \in Seq(Messages) /\ Len(s.messages) \in Nat /\ Len(more) \in Nat /\ s.archived \in Nat
  BY <1>1, LenProperties
<1>3. ms \in Seq(Messages) /\ Len(ms) = Len(s.messages) + Len(more) /\ IsPrefix(s.messages, ms)
  BY <1>2, ConcatIs, PrefixOfConcat
<1>4. s.archived <= Len(ms)
  BY <1>1, <1>2, <1>3
<1> HIDE DEF ms
<1>5. NoCheckpoint \in SessionCheckpoints /\ Len(NoCheckpoint.completed) + Len(NoCheckpoint.pending) <= 1
  BY CheckpointTypes
<1>6. IsSaved(r) /\ IsSaved(q)
  BY <1>1, <1>2, <1>3, <1>4, <1>5 DEF IsSaved
<1>7. r = [s EXCEPT !.messages = ms]
  BY <1>1
<1>8. q = [s EXCEPT !.messages = ms, !.checkpoint = NoCheckpoint]
  <2>1. [s EXCEPT !.messages = ms, !.checkpoint = NoCheckpoint]
          = [[s EXCEPT !.messages = ms] EXCEPT !.checkpoint = NoCheckpoint]
    OBVIOUS
  <2>2. q = [r EXCEPT !.checkpoint = NoCheckpoint]
    OBVIOUS
  <2> HIDE DEF r, q
  <2>3. QED
    BY <1>7, <2>1, <2>2
<1>9. IsParts(r, ms, s.archived, s.checkpoint) /\ IsParts(q, ms, s.archived, NoCheckpoint)
  BY DEF IsParts
<1> HIDE DEF r, q
<1>10. QED
  BY <1>3, <1>6, <1>7, <1>8, <1>9 DEF ms

-----------------------------------------------------------------------------
(* Restoring a checkpoint.                                                 *)

\* The messages a checkpoint stands for: its message and at most one result.
LEMMA MaterialisedIs ==
  ASSUME NEW c \in SessionCheckpoints, Len(c.completed) + Len(c.pending) <= 1
  PROVE  /\ Materialised(c) \in Seq(Messages)
         /\ Len(Materialised(c)) = 1 + Len(c.completed) + Len(c.pending)
         /\ Materialised(c)[1] = c.message
         /\ Len(c.completed) = 1 => Materialised(c)[2] = c.completed[1]
         /\ Len(c.pending) = 1 => Materialised(c)[2] = Interrupted(c.message.turn, c.pending[1])
<1> DEFINE np == Len(c.pending)
           nc == Len(c.completed)
           cut == [i \in 1 .. np |-> Interrupted(c.message.turn, c.pending[i])]
           first == <<c.message>>
<1>1. c.message \in Messages /\ c.completed \in Seq(Messages) /\ c.pending \in Seq(1 .. MaxIterations)
  BY CheckpointTypes
<1>2. np \in Nat /\ nc \in Nat /\ nc + np <= 1
  BY <1>1, LenProperties
<1>3. cut \in Seq(Messages) /\ Len(cut) = np
  <2>1. \A i \in 1 .. np : c.pending[i] \in 1 .. MaxIterations
    BY <1>1, ElementOfSeq
  <2>2. \A i \in 1 .. np : Interrupted(c.message.turn, c.pending[i]) \in Messages
    BY <1>1, <2>1, SessionBounds DEF Interrupted, Message, Messages
  <2>3. cut \in [1 .. np -> Messages]
    BY <2>2
  <2> HIDE DEF cut, np
  <2>4. QED
    BY <1>2, <2>3, FunctionIsSeq
<1>4. first \in Seq(Messages) /\ Len(first) = 1 /\ first[1] = c.message
  BY <1>1
<1>5. np = 1 => cut[1] = Interrupted(c.message.turn, c.pending[1])
  OBVIOUS
<1>6. Materialised(c) = (first \o c.completed) \o cut
  BY DEF Materialised
<1> HIDE DEF cut, first
<1> DEFINE front == first \o c.completed
<1>7. /\ front \in Seq(Messages) /\ Len(front) = 1 + nc
      /\ front[1] = c.message
      /\ nc = 1 => front[2] = c.completed[1]
  <2>1. /\ front \in Seq(Messages)
        /\ Len(front) = Len(first) + Len(c.completed)
        /\ \A i \in 1 .. Len(first) : front[i] = first[i]
        /\ \A i \in 1 .. Len(c.completed) : front[Len(first) + i] = c.completed[i]
    BY <1>1, <1>4, ConcatIs
  <2> HIDE DEF front
  <2>2. nc = 1 => front[2] = c.completed[1]
    BY <1>4, <2>1
  <2>3. QED
    BY <1>4, <2>1, <2>2
<1> HIDE DEF front
<1>8. /\ Materialised(c) \in Seq(Messages) /\ Len(Materialised(c)) = 1 + nc + np
      /\ Materialised(c)[1] = c.message
      /\ nc = 1 => Materialised(c)[2] = c.completed[1]
      /\ np = 1 => Materialised(c)[2] = cut[1]
  <2> HIDE DEF nc, np
  <2>1. Materialised(c) = front \o cut
    BY <1>6 DEF front
  <2>20. cut \in Seq(Messages)
    BY <1>3
  <2>21. front \in Seq(Messages)
    BY <1>7
  <2>2. /\ front \o cut \in Seq(Messages)
        /\ Len(front \o cut) = Len(front) + Len(cut)
        /\ \A i \in 1 .. Len(front) : (front \o cut)[i] = front[i]
        /\ \A i \in 1 .. Len(cut) : (front \o cut)[Len(front) + i] = cut[i]
    BY <2>20, <2>21, ConcatIs
  <2>3. (front \o cut)[1] = front[1]
    BY <1>2, <1>7, <2>2
  <2>4. nc = 1 => (front \o cut)[2] = front[2]
    BY <1>2, <1>7, <2>2
  <2>5. ASSUME np = 1 PROVE (front \o cut)[2] = cut[1]
    <3>1. nc = 0 /\ Len(front) = 1 /\ 1 \in 1 .. Len(cut) /\ Len(front) + 1 = 2
      BY <1>2, <1>3, <1>7, <2>5
    <3>2. QED
      BY <2>2, <3>1
  <2>6. QED
    BY <1>3, <1>7, <2>1, <2>2, <2>3, <2>4, <2>5
<1>9. QED
  BY <1>5, <1>8

\* A suffix ends with the same elements.
LEMMA SuffixIs ==
  ASSUME NEW S, NEW u \in Seq(S), NEW v \in Seq(S)
  PROVE  /\ Len(u) = 0 => IsSuffix(u, v)
         /\ IsSuffix(u, v) =>
              Len(u) <= Len(v) /\ \A i \in 1 .. Len(u) : u[i] = v[Len(v) - Len(u) + i]
<1>1. Len(u) \in Nat /\ Len(v) \in Nat
  BY LenProperties
<1>2. ASSUME NEW w \in Seq(S)
      PROVE  /\ Reverse(w) \in Seq(S) /\ Len(Reverse(w)) = Len(w)
             /\ \A i \in 1 .. Len(w) : Reverse(w)[i] = w[(Len(w) - i) + 1]
  <2> DEFINE n == Len(w)
             f == [i \in 1 .. n |-> w[(n - i) + 1]]
  <2>1. n \in Nat
    BY LenProperties
  <2>2. \A i \in 1 .. n : (n - i) + 1 \in 1 .. n
    BY <2>1
  <2>3. \A i \in 1 .. n : w[(n - i) + 1] \in S
    BY <2>2, ElementOfSeq
  <2>4. f \in [1 .. n -> S] /\ \A i \in 1 .. n : f[i] = w[(n - i) + 1]
    BY <2>3
  <2>5. Reverse(w) = f
    BY DEF Reverse
  <2> HIDE DEF f, n
  <2>6. f \in Seq(S) /\ Len(f) = n
    BY <2>1, <2>4, FunctionIsSeq
  <2>7. QED
    BY <2>4, <2>5, <2>6 DEF n
<1>3. IsSuffix(u, v) <=> Len(u) <= Len(v) /\ \A i \in 1 .. Len(u) : Reverse(u)[i] = Reverse(v)[i]
  <2>1. IsPrefix(Reverse(u), Reverse(v))
          <=> Len(Reverse(u)) <= Len(Reverse(v))
              /\ \A i \in 1 .. Len(Reverse(u)) : Reverse(u)[i] = Reverse(v)[i]
    BY <1>2, PrefixIs
  <2>2. QED
    BY <1>2, <2>1 DEF IsSuffix
<1>4. Len(u) = 0 => IsSuffix(u, v)
  BY <1>1, <1>3
<1>5. ASSUME IsSuffix(u, v), NEW i \in 1 .. Len(u) PROVE u[i] = v[Len(v) - Len(u) + i]
  <2> DEFINE j == Len(u) - i + 1
  <2>1. j \in 1 .. Len(u) /\ j \in 1 .. Len(v) /\ (Len(u) - j) + 1 = i
        /\ (Len(v) - j) + 1 = Len(v) - Len(u) + i
    BY <1>1, <1>3, <1>5
  <2>2. Reverse(u)[j] = u[i] /\ Reverse(v)[j] = v[Len(v) - Len(u) + i]
    BY <1>2, <2>1
  <2>3. QED
    BY <1>3, <1>5, <2>1, <2>2
<1>6. QED
  BY <1>3, <1>4, <1>5

\* The overlap is the longest start of the restored messages that the session ends with.
Overlaps(ms, restored, n) ==
  n \in 0 .. Len(restored) /\ n <= Len(ms) /\ IsSuffix(SubSeq(restored, 1, n), ms)

LEMMA OverlapIs ==
  ASSUME NEW ms \in Seq(Messages), NEW restored \in Seq(Messages), Len(restored) <= 2
  PROVE  Overlaps(ms, restored, Overlap(ms, restored))
<1> DEFINE EndsWith(n) == n <= Len(ms) /\ IsSuffix(SubSeq(restored, 1, n), ms)
           Longest(n) == EndsWith(n) /\ \A k \in n + 1 .. Len(restored) :
                           k <= Len(ms) => ~ IsSuffix(SubSeq(restored, 1, k), ms)
<1>1. Len(ms) \in Nat /\ Len(restored) \in Nat
  BY LenProperties
<1>2. EndsWith(0)
  <2>1. SubSeq(restored, 1, 0) \in Seq(Messages) /\ Len(SubSeq(restored, 1, 0)) = 0
    BY <1>1, PartOfSeq
  <2>2. QED
    BY <1>1, <2>1, SuffixIs
<1>3. \E n \in 0 .. Len(restored) : Longest(n)
  <2> HIDE DEF EndsWith
  <2> SUFFICES \E n \in 0 .. Len(restored) : EndsWith(n) /\ \A k \in n + 1 .. Len(restored) : ~ EndsWith(k)
    BY DEF EndsWith
  <2>1. CASE Len(restored) = 0
    BY <1>2, <2>1
  <2>2. CASE Len(restored) = 1
    <3>1. CASE EndsWith(1)
      <4>1. \A k \in 1 + 1 .. Len(restored) : FALSE
        BY <2>2
      <4>2. QED
        BY <2>2, <3>1, <4>1
    <3>2. CASE ~ EndsWith(1)
      <4>1. \A k \in 0 + 1 .. Len(restored) : k = 1
        BY <2>2
      <4>2. QED
        BY <1>2, <2>2, <3>2, <4>1
    <3>3. QED
      BY <3>1, <3>2
  <2>3. CASE Len(restored) = 2
    <3>1. CASE EndsWith(2)
      <4>1. \A k \in 2 + 1 .. Len(restored) : FALSE
        BY <2>3
      <4>2. QED
        BY <2>3, <3>1, <4>1
    <3>2. CASE ~ EndsWith(2) /\ EndsWith(1)
      <4>1. \A k \in 1 + 1 .. Len(restored) : k = 2
        BY <2>3
      <4>2. QED
        BY <2>3, <3>2, <4>1
    <3>3. CASE ~ EndsWith(2) /\ ~ EndsWith(1)
      <4>1. \A k \in 0 + 1 .. Len(restored) : k = 1 \/ k = 2
        BY <2>3
      <4>2. QED
        BY <1>2, <2>3, <3>3, <4>1
    <3>4. QED
      BY <3>1, <3>2, <3>3
  <2>4. Len(restored) = 0 \/ Len(restored) = 1 \/ Len(restored) = 2
    <3> DEFINE l == Len(restored)
    <3>1. l \in Nat /\ l <= 2
      BY <1>1
    <3> HIDE DEF l
    <3>2. l = 0 \/ l = 1 \/ l = 2
      BY <3>1
    <3>3. QED
      BY <3>2 DEF l
  <2>5. QED
    BY <2>1, <2>2, <2>3, <2>4
<1>4. Overlap(ms, restored) = CHOOSE n \in 0 .. Len(restored) : Longest(n)
  BY DEF Overlap
<1>5. Overlap(ms, restored) \in 0 .. Len(restored) /\ Longest(Overlap(ms, restored))
  <2> HIDE DEF Longest
  <2>1. QED
    BY <1>3, <1>4
<1>6. QED
  BY <1>5 DEF Overlaps

\* Restoring adds the messages the session does not have yet, and no more.
Appended(s, r, more) ==
  /\ more \in Seq(Messages)
  /\ r = [messages |-> s.messages \o more, archived |-> s.archived, checkpoint |-> NoCheckpoint]
  /\ IsSaved(r)
  /\ IsPrefix(s.messages, r.messages)

LEMMA RestoreIs ==
  ASSUME NEW s, IsSaved(s), s.checkpoint # NoCheckpoint
  PROVE  LET restored == Materialised(s.checkpoint)
             n == Overlap(s.messages, restored)
         IN  /\ Overlaps(s.messages, restored, n)
             /\ Appended(s, Restore(s), SubSeq(restored, n + 1, Len(restored)))
<1> DEFINE restored == Materialised(s.checkpoint)
           n == Overlap(s.messages, restored)
           more == SubSeq(restored, n + 1, Len(restored))
<1>1. /\ s.messages \in Seq(Messages) /\ s.checkpoint \in SessionCheckpoints /\ Len(s.messages) \in Nat
      /\ s.archived \in Nat /\ s.archived <= Len(s.messages)
      /\ Len(s.checkpoint.completed) + Len(s.checkpoint.pending) <= 1
  BY SavedFacts DEF IsSaved
<1>2. restored \in Seq(Messages) /\ Len(restored) = 1 + Len(s.checkpoint.completed) + Len(s.checkpoint.pending)
  BY <1>1, MaterialisedIs
<1>3. Len(restored) \in Nat /\ Len(restored) <= 2
  <2> DEFINE nc == Len(s.checkpoint.completed)
             np == Len(s.checkpoint.pending)
  <2>1. s.checkpoint.completed \in Seq(Messages) /\ s.checkpoint.pending \in Seq(1 .. MaxIterations)
    BY <1>1, CheckpointTypes
  <2>2. nc \in Nat /\ np \in Nat
    BY <2>1, LenProperties
  <2>3. nc + np <= 1 /\ Len(restored) = 1 + nc + np
    BY <1>1, <1>2
  <2> HIDE DEF nc, np
  <2>4. QED
    BY <2>2, <2>3
<1> HIDE DEF restored
<1>4. Overlaps(s.messages, restored, n)
  BY <1>1, <1>2, <1>3, OverlapIs
<1>5. more \in Seq(Messages)
  <2>1. n \in Nat /\ n <= Len(restored)
    BY <1>3, <1>4 DEF Overlaps
  <2> DEFINE m == n + 1
             l == Len(restored)
  <2>2. m \in Nat /\ m >= 1 /\ m <= l + 1 /\ l \in Nat /\ l <= Len(restored)
    BY <1>3, <2>1
  <2>3. more = SubSeq(restored, m, l)
    OBVIOUS
  <2> HIDE DEF n, m, l, more
  <2>4. SubSeq(restored, m, l) \in Seq(Messages)
    BY <1>2, <2>2, PartOfSeq
  <2>5. QED
    BY <2>3, <2>4
<1> HIDE DEF more
<1>6. /\ Restore(s) = [s EXCEPT !.messages = s.messages \o more, !.checkpoint = NoCheckpoint]
      /\ Restore(s) = [messages |-> s.messages \o more, archived |-> s.archived, checkpoint |-> NoCheckpoint]
      /\ IsSaved(Restore(s)) /\ IsPrefix(s.messages, Restore(s).messages)
  <2>1. Restore(s) = [s EXCEPT !.messages = s.messages \o more, !.checkpoint = NoCheckpoint]
    BY DEF Restore, restored, more
  <2> DEFINE q == [s EXCEPT !.messages = s.messages \o more, !.checkpoint = NoCheckpoint]
  <2>4. IsSaved(s)
    BY <1>1
  <2>5. /\ IsSaved(q) /\ IsParts(q, s.messages \o more, s.archived, NoCheckpoint)
        /\ IsPrefix(s.messages, s.messages \o more)
    BY <1>5, <2>4, MessagesParts
  <2> HIDE DEF q
  <2>2. /\ IsSaved(Restore(s)) /\ IsParts(Restore(s), s.messages \o more, s.archived, NoCheckpoint)
        /\ IsPrefix(s.messages, s.messages \o more)
    BY <2>1, <2>5 DEF q
  <2>3. QED
    BY <2>1, <2>2 DEF IsParts
<1>7. Appended(s, Restore(s), more)
  BY <1>5, <1>6 DEF Appended
<1>8. QED
  BY <1>4, <1>7 DEF restored, more

-----------------------------------------------------------------------------
(* The prompt.                                                             *)

\* The legal start of a history is its end from some message on.
LEMMA LegalStartIsEnd ==
  ASSUME NEW ms \in Seq(Messages)
  PROVE  \E d \in 0 .. Len(ms) : LegalStart(ms) = SubSeq(ms, d + 1, Len(ms))
<1> DEFINE N == Len(ms)
           Cut(x, k) == IF ms[k].role = "tool" /\ ~ \E j \in x + 1 .. k - 1 : IsCallOf(ms[j], ms[k])
                        THEN k ELSE x
           step == [k \in 1 .. N |-> [x \in 0 .. N |-> Cut(x, k)]]
           Body(h, i) == IF i = 0 THEN 0 ELSE Cut(h[i - 1], i)
           dropped == CHOOSE h : h = [i \in 0 .. Len(ms) |-> Body(h, i)]
<1>1. N \in Nat
  BY LenProperties
<1>2. LegalStart(ms) = SubSeq(ms, dropped[N] + 1, N)
  BY DEF LegalStart
<1>3. \A k \in 1 .. N : \A x : Cut(x, k) = k \/ Cut(x, k) = x
  OBVIOUS
<1> HIDE DEF N, Cut, dropped
<1>4. step \in Steps(N, 0 .. N)
  <2>1. \A k \in 1 .. N : k \in 0 .. N
    BY <1>1
  <2>2. \A k \in 1 .. N : [x \in 0 .. N |-> Cut(x, k)] \in [0 .. N -> 0 .. N]
    BY <1>3, <2>1
  <2>3. QED
    BY <2>2 DEF Steps
<1>5. PICK g : IsRecursion(g, N, 0 .. N, 0, step)
  <2>1. 0 \in 0 .. N
    BY <1>1
  <2> HIDE DEF step
  <2>2. QED
    BY <1>1, <1>4, <2>1, RecursionExists
<1>6. /\ g \in [0 .. N -> 0 .. N] /\ g[0] = 0 /\ \A k \in 1 .. N : g[k] = step[k][g[k - 1]]
  BY <1>5 DEF IsRecursion
<1>7. ASSUME NEW k \in 1 .. N PROVE g[k] = Cut(g[k - 1], k)
  <2>1. k - 1 \in 0 .. N
    BY <1>1
  <2>2. g[k - 1] \in 0 .. N /\ g[k] = step[k][g[k - 1]]
    BY <1>6, <2>1
  <2>3. QED
    BY <2>2
<1>8. g = [i \in 0 .. N |-> Body(g, i)]
  <2>1. ASSUME NEW i \in 0 .. N PROVE g[i] = Body(g, i)
    <3>1. i = 0 \/ (i \in 1 .. N /\ i # 0)
      BY <1>1
    <3>2. QED
      BY <1>6, <1>7, <3>1
  <2>2. g = [i \in 0 .. N |-> g[i]]
    BY <1>6
  <2> HIDE DEF Body
  <2>3. QED
    BY <2>1, <2>2
<1>9. \A i \in 0 .. N : dropped[i] = Body(dropped, i)
  <2> HIDE DEF Body
  <2>1. dropped = [i \in 0 .. N |-> Body(dropped, i)]
    BY <1>8 DEF dropped, N
  <2>2. QED
    BY <2>1
<1>10. \A i \in 0 .. N : dropped[i] \in 0 .. N
  <2> DEFINE U == {i \in 0 .. N : dropped[i] \in 0 .. N}
  <2>1. 0 \in U
    BY <1>1, <1>9
  <2>2. ASSUME NEW k \in 1 .. N, k - 1 \in U PROVE k \in U
    <3>1. k \in 0 .. N /\ k # 0
      BY <1>1
    <3>2. dropped[k] = Cut(dropped[k - 1], k)
      BY <1>9, <3>1
    <3>3. QED
      BY <1>3, <2>2, <3>1, <3>2
  <2>3. \A k \in 0 .. N : k \in U
    <3> HIDE DEF U
    <3>1. QED
      BY <1>1, <2>1, <2>2, UpTo
  <2>4. QED
    BY <2>3
<1>11. N \in 0 .. N
  BY <1>1
<1>12. QED
  BY <1>2, <1>10, <1>11 DEF N

LEMMA LegalStartType ==
  ASSUME NEW ms \in Seq(Messages)
  PROVE  LegalStart(ms) \in Seq(Messages)
<1>1. PICK d \in 0 .. Len(ms) : LegalStart(ms) = SubSeq(ms, d + 1, Len(ms))
  BY LegalStartIsEnd
<1> DEFINE m == d + 1
           l == Len(ms)
<1>2. l \in Nat
  BY LenProperties
<1>3. m \in Nat /\ m >= 1 /\ m <= l + 1 /\ l <= Len(ms)
  BY <1>2
<1>4. LegalStart(ms) = SubSeq(ms, m, l)
  BY <1>1
<1> HIDE DEF m, l
<1>5. QED
  BY <1>2, <1>3, <1>4, PartOfSeq

LEMMA HistoryType ==
  ASSUME NEW s, IsSaved(s)
  PROVE  History(s) \in Seq(Messages)
<1> DEFINE live == SubSeq(s.messages, s.archived + 1, Len(s.messages))
           users == {i \in 1 .. Len(live) : live[i].role = "user"}
           first == CHOOSE i \in users : \A j \in users : i <= j
           shown == IF users = {} THEN live ELSE SubSeq(live, first, Len(live))
<1>1. s.messages \in Seq(Messages) /\ Len(s.messages) \in Nat /\ s.archived \in Nat
      /\ s.archived <= Len(s.messages)
  BY SavedFacts
<1>2. live \in Seq(Messages)
  <2> DEFINE m == s.archived + 1
             l == Len(s.messages)
  <2>1. m \in Nat /\ m >= 1 /\ m <= l + 1 /\ l \in Nat /\ l <= Len(s.messages)
    BY <1>1
  <2>2. live = SubSeq(s.messages, m, l)
    OBVIOUS
  <2> HIDE DEF m, l, live
  <2>3. QED
    BY <1>1, <2>1, <2>2, PartOfSeq
<1>3. History(s) = LegalStart(shown)
  BY DEF History
<1> HIDE DEF live
<1>4. Len(live) \in Nat
  BY <1>2, LenProperties
<1>5. shown \in Seq(Messages)
  <2>1. CASE users = {}
    BY <1>2, <2>1
  <2>2. CASE users # {}
    <3>1. users \subseteq Nat /\ users # {}
      BY <1>4, <2>2
    <3>2. \E i \in users : \A j \in users : i <= j
      <4> HIDE DEF users
      <4>1. QED
        BY <3>1, LeastExists
    <3>3. first \in users
      <4> HIDE DEF users
      <4>1. QED
        BY <3>2
    <3> DEFINE l == Len(live)
    <3>4. first \in Nat /\ first >= 1 /\ first <= l + 1 /\ l \in Nat /\ l <= Len(live)
      BY <1>4, <3>3
    <3>5. shown = SubSeq(live, first, l)
      BY <2>2
    <3> HIDE DEF first, l, shown, users
    <3>6. QED
      BY <1>2, <3>4, <3>5, PartOfSeq
  <2>3. QED
    BY <2>1, <2>2
<1> HIDE DEF shown
<1>6. QED
  BY <1>3, <1>5, LegalStartType

\* What follows the history is a part of the messages.
LEMMA TailFromIs ==
  ASSUME NEW ms \in Seq(Messages), NEW past \in Nat, past <= Len(ms)
  PROVE  /\ TailFrom(ms, past) \in Seq(Messages)
         /\ Len(TailFrom(ms, past)) = Len(ms) - past
         /\ \A i \in 1 .. Len(ms) - past : TailFrom(ms, past)[i] = ms[past + i]
<1> DEFINE m == past + 1
           l == Len(ms)
<1>1. m \in Nat /\ m >= 1 /\ m <= l + 1 /\ l \in Nat /\ l <= Len(ms)
  BY LenProperties
<1>2. TailFrom(ms, past) = SubSeq(ms, m, l)
  BY DEF TailFrom
<1>3. l + 1 - m = Len(ms) - past /\ \A i \in 1 .. l + 1 - m : m + i - 1 = past + i
  BY <1>1
<1> HIDE DEF m, l
<1>4. /\ SubSeq(ms, m, l) \in Seq(Messages) /\ Len(SubSeq(ms, m, l)) = l + 1 - m
      /\ \A i \in 1 .. l + 1 - m : SubSeq(ms, m, l)[i] = ms[m + i - 1]
  BY <1>1, PartOfSeq
<1>5. QED
  BY <1>2, <1>3, <1>4

\* A message more, and the tail has it too.
LEMMA TailFromAppend ==
  ASSUME NEW ms \in Seq(Messages), NEW past \in Nat, past <= Len(ms), NEW m \in Messages
  PROVE  /\ Append(ms, m) \in Seq(Messages) /\ past <= Len(Append(ms, m))
         /\ Append(ms, m) # <<>> /\ Last(Append(ms, m)) = m
         /\ TailFrom(Append(ms, m), past) = Append(TailFrom(ms, past), m)
<1> DEFINE n == Len(ms)
           more == Append(ms, m)
           tail == TailFrom(ms, past)
<1>1. n \in Nat /\ past <= n
  BY LenProperties
<1>2. /\ more \in Seq(Messages) /\ more # <<>> /\ Len(more) = n + 1
      /\ \A i \in 1 .. n : more[i] = ms[i]
      /\ more[n + 1] = m
  BY AppendProperties
<1>3. /\ tail \in Seq(Messages) /\ Len(tail) = n - past
      /\ \A i \in 1 .. n - past : tail[i] = ms[past + i]
  BY TailFromIs
<1> HIDE DEF more, n, tail
<1>4. past <= Len(more)
  BY <1>1, <1>2
<1>5. /\ TailFrom(more, past) \in Seq(Messages) /\ Len(TailFrom(more, past)) = Len(more) - past
      /\ \A i \in 1 .. Len(more) - past : TailFrom(more, past)[i] = more[past + i]
  BY <1>2, <1>4, TailFromIs
<1>6. /\ Append(tail, m) \in Seq(Messages) /\ Len(Append(tail, m)) = (n - past) + 1
      /\ \A i \in 1 .. n - past : Append(tail, m)[i] = tail[i]
      /\ Append(tail, m)[(n - past) + 1] = m
  <2> DEFINE k == Len(tail)
  <2>1. /\ Append(tail, m) \in Seq(Messages) /\ Len(Append(tail, m)) = k + 1
        /\ \A i \in 1 .. k : Append(tail, m)[i] = tail[i]
        /\ Append(tail, m)[k + 1] = m
    BY <1>3, AppendProperties
  <2>2. k = n - past
    BY <1>3
  <2> HIDE DEF k
  <2>3. QED
    BY <2>1, <2>2
<1>7. Len(more) - past = (n - past) + 1
  BY <1>1, <1>2
<1>8. ASSUME NEW i \in 1 .. (n - past) + 1 PROVE TailFrom(more, past)[i] = Append(tail, m)[i]
  <2>1. i \in 1 .. Len(more) - past
    BY <1>7
  <2>2. CASE i = (n - past) + 1
    <3>1. past + i = n + 1
      BY <1>1, <2>2
    <3>2. QED
      BY <1>2, <1>5, <1>6, <2>1, <2>2, <3>1
  <2>3. CASE i # (n - past) + 1
    <3>1. i \in 1 .. n - past /\ past + i \in 1 .. n
      BY <1>1, <2>3
    <3>2. QED
      BY <1>2, <1>3, <1>5, <1>6, <2>1, <3>1
  <2>4. QED
    BY <2>2, <2>3
<1>9. TailFrom(more, past) = Append(tail, m)
  BY <1>5, <1>6, <1>7, <1>8, SeqEqual
<1>10. QED
  BY <1>2, <1>4, <1>9 DEF more, tail, Last

\* The prompt of a turn holds the history; what a run asks comes last, by itself
\* or in the message it was merged into.
LEMMA PromptIs ==
  ASSUME NEW s, IsSaved(s), NEW t \in Turns
  PROVE  LET h == History(s)
             ms == PromptMessages(s, t)
         IN  /\ ms \in Seq(Messages) /\ ms # <<>> /\ Len(h) \in Nat /\ Len(h) <= Len(ms)
             /\ Last(ms).role = Request(t).role
             /\ \/ TailFrom(ms, Len(h)) = <<>>
                \/ TailFrom(ms, Len(h)) = Append(<<>>, Request(t))
<1> DEFINE h == History(s)
           ms == PromptMessages(s, t)
           past == Len(h)
<1>1. h \in Seq(Messages)
  BY HistoryType
<1>2. past \in Nat
  BY <1>1, LenProperties
<1>3. Request(t) \in Messages
  BY MessageTypes
<1>4. CASE h # <<>> /\ Last(h).role = Request(t).role
  <2> DEFINE m == [h[past] EXCEPT !.text = "merged"]
  <2>1. ms = [h EXCEPT ![past] = m]
    BY <1>4 DEF PromptMessages
  <2>2. past \in 1 .. past
    BY <1>1, <1>2, <1>4, EmptySeq
  <2>3. h[past] \in Messages /\ h[past].role = Request(t).role
    BY <1>1, <1>4, <2>2, ElementOfSeq DEF Last
  <2>4. m \in Messages /\ m.role = Request(t).role
    BY <2>3 DEF Messages
  <2> HIDE DEF h, m, past
  <2>5. /\ [h EXCEPT ![past] = m] \in Seq(Messages) /\ Len([h EXCEPT ![past] = m]) = Len(h)
        /\ \A j \in 1 .. Len(h) : [h EXCEPT ![past] = m][j] = IF j = past THEN m ELSE h[j]
    BY <1>1, <2>2, <2>4, ExceptSeq DEF past
  <2>6. /\ ms \in Seq(Messages) /\ Len(ms) = past /\ ms[past] = m
    BY <2>1, <2>2, <2>5 DEF past
  <2> HIDE DEF ms
  <2>7. ms # <<>> /\ past <= Len(ms) /\ Last(ms).role = Request(t).role
    BY <1>2, <2>2, <2>4, <2>6, EmptySeq DEF Last
  <2>8. TailFrom(ms, past) \in Seq(Messages) /\ Len(TailFrom(ms, past)) = Len(ms) - past
    BY <1>2, <2>6, <2>7, TailFromIs
  <2>9. Len(TailFrom(ms, past)) = 0
    BY <1>2, <2>6, <2>8
  <2>10. TailFrom(ms, past) = <<>>
    BY <2>8, <2>9, EmptySeq
  <2>11. QED
    BY <1>2, <2>6, <2>7, <2>10 DEF ms, past, h
<1>5. CASE ~ (h # <<>> /\ Last(h).role = Request(t).role)
  <2>1. ms = Append(h, Request(t))
    BY <1>5 DEF PromptMessages
  <2> HIDE DEF h
  <2>2. past <= Len(h)
    BY <1>2
  <2>3. /\ Append(h, Request(t)) \in Seq(Messages) /\ past <= Len(Append(h, Request(t)))
        /\ Append(h, Request(t)) # <<>> /\ Last(Append(h, Request(t))) = Request(t)
        /\ TailFrom(Append(h, Request(t)), past) = Append(TailFrom(h, past), Request(t))
    <3> HIDE DEF past
    <3>1. QED
      BY <1>1, <1>2, <1>3, <2>2, TailFromAppend
  <2>4. TailFrom(h, past) = <<>>
    <3>1. TailFrom(h, past) \in Seq(Messages) /\ Len(TailFrom(h, past)) = Len(h) - past
      BY <1>1, <1>2, <2>2, TailFromIs
    <3>2. Len(TailFrom(h, past)) = 0
      BY <1>2, <3>1
    <3>3. QED
      BY <3>1, <3>2, EmptySeq
  <2> HIDE DEF ms
  <2>5. QED
    BY <1>2, <2>1, <2>3, <2>4 DEF ms, h
<1>6. QED
  BY <1>4, <1>5

-----------------------------------------------------------------------------
(* What each step makes of its turn.                                       *)

Becomes(t, r) == turn' = [turn EXCEPT ![t] = r]

LEMMA TurnFacts ==
  ASSUME SessionType, NEW t \in Turns
  PROVE  /\ turn[t] \in TurnRecords
         /\ turn[t].iter \in 0 .. MaxIterations /\ turn[t].iter \in Nat /\ turn[t].base \in Nat
         /\ turn[t].messages \in Seq(Messages)
         /\ turn[t].pc \in Running \cup Ended \cup {"queued", "lock", "gate"}
         /\ turn[t].stop \in {"none", "completed", "error", "empty_final_response", "max_iterations"}
         /\ turn[t] = TurnOf(turn[t].pc, turn[t].iter, turn[t].base, turn[t].messages, turn[t].stop)
<1>1. turn[t] \in TurnRecords
  BY DEF SessionType
<1>2. QED
  BY <1>1 DEF TurnRecords, TurnOf

LEMMA TurnSet ==
  ASSUME turn \in [Turns -> TurnRecords], NEW t \in Turns, NEW r \in TurnRecords, Becomes(t, r)
  PROVE  /\ turn' \in [Turns -> TurnRecords]
         /\ turn'[t] = r
         /\ \A u \in Turns : u # t => turn'[u] = turn[u]
BY DEF Becomes

\* The updates of a turn's fields, as the actions write them.
SetMessages(r, p, ms) == [r EXCEPT !.pc = p, !.messages = ms]
SetStep(r, p, iter, ms) == [r EXCEPT !.pc = p, !.iter = iter, !.messages = ms]
SetStop(r, p, stop, ms) == [r EXCEPT !.pc = p, !.stop = stop, !.messages = ms]
SetPrompt(r, p, from, ms) == [r EXCEPT !.pc = p, !.base = from, !.messages = ms]

UpdatesOf(r, q, j, start, new, why) ==
  /\ [r EXCEPT !.pc = q] = TurnOf(q, r.iter, r.base, r.messages, r.stop)
  /\ [r EXCEPT !.iter = j] = TurnOf(r.pc, j, r.base, r.messages, r.stop)
  /\ SetMessages(r, q, new) = TurnOf(q, r.iter, r.base, new, r.stop)
  /\ SetStep(r, q, j, new) = TurnOf(q, j, r.base, new, r.stop)
  /\ SetStop(r, q, why, new) = TurnOf(q, r.iter, r.base, new, why)
  /\ SetPrompt(r, q, start, new) = TurnOf(q, r.iter, start, new, r.stop)

LEMMA TurnUpdates ==
  ASSUME NEW r \in TurnRecords, NEW q, NEW j, NEW start, NEW new, NEW why
  PROVE  UpdatesOf(r, q, j, start, new, why)
<1> DEFINE a == r.pc
           b == r.iter
           c == r.base
           d == r.messages
           e == r.stop
           r1 == [r EXCEPT !.pc = q]
           r2 == TurnOf(q, b, c, d, e)
           r3 == TurnOf(q, j, c, d, e)
           r4 == TurnOf(q, b, c, d, why)
           r5 == TurnOf(q, b, start, d, e)
<1>1. r = TurnOf(a, b, c, d, e)
  BY DEF TurnRecords, TurnOf
<1> HIDE DEF a, b, c, d, e
<1>2. [TurnOf(a, b, c, d, e) EXCEPT !.pc = q] = r2 /\ [TurnOf(a, b, c, d, e) EXCEPT !.iter = j] = TurnOf(a, j, c, d, e)
      /\ [r2 EXCEPT !.iter = j] = r3 /\ [r2 EXCEPT !.stop = why] = r4 /\ [r2 EXCEPT !.base = start] = r5
  BY DEF TurnOf
<1>3. /\ [r2 EXCEPT !.messages = new] = TurnOf(q, b, c, new, e)
      /\ [r3 EXCEPT !.messages = new] = TurnOf(q, j, c, new, e)
      /\ [r4 EXCEPT !.messages = new] = TurnOf(q, b, c, new, why)
      /\ [r5 EXCEPT !.messages = new] = TurnOf(q, b, start, new, e)
  BY DEF TurnOf
<1>4. SetMessages(r, q, new) = [r1 EXCEPT !.messages = new]
  BY DEF SetMessages
<1>5. SetStep(r, q, j, new) = [[r1 EXCEPT !.iter = j] EXCEPT !.messages = new]
  BY DEF SetStep
<1>6. SetStop(r, q, why, new) = [[r1 EXCEPT !.stop = why] EXCEPT !.messages = new]
  BY DEF SetStop
<1>7. SetPrompt(r, q, start, new) = [[r1 EXCEPT !.base = start] EXCEPT !.messages = new]
  BY DEF SetPrompt
<1>8. r1 = r2 /\ [r EXCEPT !.iter = j] = TurnOf(a, j, c, d, e)
  <2> HIDE DEF r2
  <2>1. QED
    BY <1>1, <1>2
<1> HIDE DEF r1, r2, r3, r4, r5
<1>9. /\ SetMessages(r, q, new) = TurnOf(q, b, c, new, e)
      /\ SetStep(r, q, j, new) = TurnOf(q, j, c, new, e)
      /\ SetStop(r, q, why, new) = TurnOf(q, b, c, new, why)
      /\ SetPrompt(r, q, start, new) = TurnOf(q, b, start, new, e)
  BY <1>2, <1>3, <1>4, <1>5, <1>6, <1>7, <1>8
<1>10. QED
  BY <1>8, <1>9 DEF a, b, c, d, e, r1, r2, UpdatesOf

LEMMA GotoIs ==
  ASSUME SessionType, NEW t \in Turns, NEW p, Goto(t, p)
  PROVE  Becomes(t, TurnOf(p, turn[t].iter, turn[t].base, turn[t].messages, turn[t].stop))
<1>1. turn[t] \in TurnRecords
  BY TurnFacts
<1>2. turn' = [turn EXCEPT ![t] = [turn[t] EXCEPT !.pc = p]]
  BY DEF Goto
<1>3. QED
  <2>1. UpdatesOf(turn[t], p, turn[t].iter, turn[t].base, turn[t].messages, turn[t].stop)
    BY <1>1, TurnUpdates
  <2>2. QED
    BY <1>2, <2>1 DEF Becomes, UpdatesOf

LEMMA CallToolIs ==
  ASSUME SessionType, NEW t \in Turns, CallTool(t)
  PROVE  Becomes(t, TurnOf("tool", turn[t].iter, turn[t].base,
                           Append(turn[t].messages, Call(t, turn[t].iter + 1)), turn[t].stop))
<1>1. turn[t] \in TurnRecords
  BY TurnFacts
<1>2. turn' = [turn EXCEPT ![t] = SetMessages(turn[t], "tool", Append(turn[t].messages, Call(t, turn[t].iter + 1)))]
  BY DEF CallTool, SetMessages
<1>3. QED
  <2>1. UpdatesOf(turn[t], "tool", turn[t].iter, turn[t].base, Append(turn[t].messages, Call(t, turn[t].iter + 1)), turn[t].stop)
    BY <1>1, TurnUpdates
  <2>2. QED
    BY <1>2, <2>1 DEF Becomes, UpdatesOf

LEMMA ToolReturnsIs ==
  ASSUME SessionType, NEW t \in Turns, ToolReturns(t)
  PROVE  Becomes(t, TurnOf("model", turn[t].iter + 1, turn[t].base,
                           Append(turn[t].messages, Result(t, turn[t].iter + 1)), turn[t].stop))
<1>1. turn[t] \in TurnRecords
  BY TurnFacts
<1>2. turn' = [turn EXCEPT ![t] = SetStep(turn[t], "model", turn[t].iter + 1,
                                          Append(turn[t].messages, Result(t, turn[t].iter + 1)))]
  BY DEF ToolReturns, SetStep
<1>3. QED
  <2>1. UpdatesOf(turn[t], "model", turn[t].iter + 1, turn[t].base, Append(turn[t].messages, Result(t, turn[t].iter + 1)), turn[t].stop)
    BY <1>1, TurnUpdates
  <2>2. QED
    BY <1>2, <2>1 DEF Becomes, UpdatesOf

LEMMA MalformedCallIs ==
  ASSUME SessionType, NEW t \in Turns, MalformedCall(t)
  PROVE  Becomes(t, TurnOf(turn[t].pc, turn[t].iter + 1, turn[t].base, turn[t].messages, turn[t].stop))
<1>1. turn[t] \in TurnRecords
  BY TurnFacts
<1>2. turn' = [turn EXCEPT ![t] = [turn[t] EXCEPT !.iter = turn[t].iter + 1]]
  BY DEF MalformedCall
<1>3. QED
  <2>1. UpdatesOf(turn[t], turn[t].pc, turn[t].iter + 1, turn[t].base, turn[t].messages, turn[t].stop)
    BY <1>1, TurnUpdates
  <2>2. QED
    BY <1>2, <2>1 DEF Becomes, UpdatesOf

LEMMA AnswerIs ==
  ASSUME SessionType, NEW t \in Turns, Answer(t)
  PROVE  Becomes(t, TurnOf("closing", turn[t].iter, turn[t].base,
                           Append(turn[t].messages, Final(t)), "completed"))
<1>1. turn[t] \in TurnRecords
  BY TurnFacts
<1>2. turn' = [turn EXCEPT ![t] = SetStop(turn[t], "closing", "completed", Append(turn[t].messages, Final(t)))]
  BY DEF Answer, SetStop
<1>3. QED
  <2>1. UpdatesOf(turn[t], "closing", turn[t].iter, turn[t].base, Append(turn[t].messages, Final(t)), "completed")
    BY <1>1, TurnUpdates
  <2>2. QED
    BY <1>2, <2>1 DEF Becomes, UpdatesOf

LEMMA GiveUpIs ==
  ASSUME SessionType, NEW t \in Turns, GiveUp(t)
  PROVE  \E stop \in {"error", "empty_final_response", "max_iterations"} :
           Becomes(t, TurnOf("closing", turn[t].iter, turn[t].base,
                             AppendFinal(turn[t].messages, t), stop))
<1>1. turn[t] \in TurnRecords
  BY TurnFacts
<1>2. PICK stop \in {"error", "empty_final_response", "max_iterations"} :
        turn' = [turn EXCEPT ![t].pc = "closing", ![t].stop = stop, ![t].messages = AppendFinal(@, t)]
  BY DEF GiveUp
<1>3. turn' = [turn EXCEPT ![t] = SetStop(turn[t], "closing", stop, AppendFinal(turn[t].messages, t))]
  BY <1>2 DEF SetStop
<1>4. Becomes(t, TurnOf("closing", turn[t].iter, turn[t].base, AppendFinal(turn[t].messages, t), stop))
  <2>1. UpdatesOf(turn[t], "closing", turn[t].iter, turn[t].base, AppendFinal(turn[t].messages, t), stop)
    BY <1>1, TurnUpdates
  <2>2. QED
    BY <1>3, <2>1 DEF Becomes, UpdatesOf
<1>5. QED
  BY <1>4

LEMMA PromptBuilt ==
  ASSUME SessionType, NEW w, NEW s, EndConsolidation(w, s), ~ w.bg, w.turn \in Turns
  PROVE  Becomes(w.turn, TurnOf("model", turn[w.turn].iter, Len(History(s)),
                                PromptMessages(s, w.turn), turn[w.turn].stop))
         /\ background' = background
<1> DEFINE t == w.turn
<1>1. turn[t] \in TurnRecords
  BY TurnFacts
<1>2. turn' = [turn EXCEPT ![t] = SetPrompt(turn[t], "model", Len(History(s)), PromptMessages(s, t))]
      /\ background' = background
  BY DEF EndConsolidation, SetPrompt
<1> HIDE DEF t
<1>3. Becomes(t, TurnOf("model", turn[t].iter, Len(History(s)), PromptMessages(s, t), turn[t].stop))
  <2>1. UpdatesOf(turn[t], "model", turn[t].iter, Len(History(s)), PromptMessages(s, t), turn[t].stop)
    BY <1>1, TurnUpdates
  <2>2. QED
    BY <1>2, <2>1 DEF Becomes, UpdatesOf
<1>4. QED
  BY <1>2, <1>3 DEF t

-----------------------------------------------------------------------------
(* The cache, the file and the archive.                                    *)

\* What SavedHistoryKept says of a step.
KeptStep ==
  IsPrefix(file.messages, file'.messages) /\ file.archived <= file'.archived

\* What a step leaves of the invariant.
Kept == CacheInv' /\ ArchivedIsNoted' /\ KeptStep

LEMMA LoadedIs ==
  ASSUME SavedInv
  PROVE  /\ IsSaved(file) /\ IsSaved(Loaded) /\ Loaded # NotLoaded
         /\ cache # NotLoaded => Loaded = cache /\ IsSaved(cache)
         /\ IsPrefix(file.messages, Loaded.messages)
         /\ Loaded.archived = file.archived /\ Loaded.checkpoint = file.checkpoint
<1>1. IsSaved(file) /\ (cache = NotLoaded \/ IsSaved(cache))
  BY DEF SavedInv, SessionType
<1>2. CASE cache = NotLoaded
  <2>1. Loaded = file
    BY <1>2 DEF Loaded
  <2>2. IsPrefix(file.messages, file.messages)
    BY <1>1, SavedFacts, PrefixReflexive
  <2>3. QED
    BY <1>1, <1>2, <2>1, <2>2, SavedFacts
<1>3. CASE cache # NotLoaded
  <2>1. Loaded = cache
    BY <1>3 DEF Loaded
  <2>2. QED
    BY <1>1, <1>3, <2>1 DEF SavedInv, CacheInv
<1>4. QED
  BY <1>2, <1>3

\* A step that saves nothing.
LEMMA NothingSaved ==
  ASSUME SavedInv, file' = file, cache' = cache, consol' = consol, noted \subseteq noted',
         \/ cache # NotLoaded
         \/ /\ background' \subseteq background
            /\ \A t \in Turns : turn'[t].pc \in Running => turn[t].pc \in Running
  PROVE  Kept
<1>1. IsPrefix(file.messages, file.messages) /\ file.archived \in Nat
  BY LoadedIs, SavedFacts, PrefixReflexive
<1>2. KeptStep
  BY <1>1 DEF KeptStep
<1>3. CacheInv'
  BY DEF CacheInv, SavedInv
<1>4. ArchivedIsNoted'
  BY DEF ArchivedIsNoted, SavedInv
<1>5. QED
  BY <1>2, <1>3, <1>4 DEF Kept

\* A step that saves a longer session.
LEMMA LongerSaved ==
  ASSUME SavedInv, NEW s, IsSaved(s), cache' = s, file' = s, consol' = consol, noted' = noted,
         IsPrefix(Loaded.messages, s.messages), s.archived = Loaded.archived
  PROVE  Kept
<1>1. /\ file.messages \in Seq(Messages) /\ Loaded.messages \in Seq(Messages) /\ s.messages \in Seq(Messages)
      /\ IsPrefix(file.messages, Loaded.messages) /\ Loaded.archived = file.archived
      /\ file.archived \in Nat /\ file.archived <= Len(file.messages) /\ Len(file.messages) \in Nat
      /\ s # NotLoaded
  BY LoadedIs, SavedFacts
<1>2. IsPrefix(file.messages, s.messages) /\ IsPrefix(s.messages, s.messages)
  BY <1>1, PrefixTransitive, PrefixReflexive
<1>3. KeptStep
  BY <1>1, <1>2 DEF KeptStep
<1>4. CacheInv'
  <2>1. ASSUME consol.turn # 0 PROVE s.archived < consol.upto /\ consol.upto < Len(s.messages)
    <3>1. cache # NotLoaded /\ cache.archived < consol.upto /\ consol.upto < Len(cache.messages)
      BY <2>1 DEF SavedInv, CacheInv
    <3>2. Loaded = cache
      BY <3>1 DEF Loaded
    <3>3. Len(Loaded.messages) <= Len(s.messages) /\ Len(Loaded.messages) \in Nat /\ Len(s.messages) \in Nat
      BY <1>1, PrefixIs, LenProperties
    <3>4. consol.upto \in Nat
      BY DEF SavedInv, SessionType
    <3>5. QED
      BY <3>1, <3>2, <3>3, <3>4
  <2>2. QED
    BY <1>1, <1>2, <2>1 DEF CacheInv
<1>5. ArchivedIsNoted'
  <2>1. \A i \in 1 .. Len(file.messages) : file.messages[i] = s.messages[i]
    BY <1>1, <1>2, PrefixIs
  <2>2. \A i \in 1 .. file.archived : i \in 1 .. Len(file.messages)
    BY <1>1
  <2>3. \A i \in 1 .. file.archived : file.messages[i].text # "call" => file.messages[i] \in noted
    BY DEF SavedInv, ArchivedIsNoted
  <2>4. \A i \in 1 .. s.archived : s.messages[i].text # "call" => s.messages[i] \in noted
    BY <1>1, <2>1, <2>2, <2>3
  <2>5. QED
    BY <2>4 DEF ArchivedIsNoted
<1>6. QED
  BY <1>3, <1>4, <1>5 DEF Kept

\* The chunk of a round is all it will archive.
LEMMA ChunkIs ==
  ASSUME SavedInv, consol.turn # 0,
         NEW i \in cache.archived + 1 .. consol.upto, cache.messages[i].text # "call"
  PROVE  cache.messages[i] \in Chunk
<1> DEFINE m == cache.archived + 1
           l == consol.upto
           part == SubSeq(cache.messages, m, l)
           k == i - cache.archived
<1>1. cache # NotLoaded /\ cache.archived < l /\ l < Len(cache.messages) /\ l \in Nat
  BY DEF SavedInv, CacheInv, SessionType
<1>2. cache.messages \in Seq(Messages) /\ cache.archived \in Nat /\ Len(cache.messages) \in Nat
  BY <1>1, LoadedIs, SavedFacts
<1>3. m \in Nat /\ m >= 1 /\ l <= Len(cache.messages) /\ m <= l + 1 /\ k \in 1 .. l + 1 - m /\ m + k - 1 = i
  <2> DEFINE a == cache.archived
             n == Len(cache.messages)
  <2>1. a \in Nat /\ n \in Nat /\ l \in Nat /\ a < l /\ l < n /\ i \in a + 1 .. l
    BY <1>1, <1>2
  <2>2. m = a + 1 /\ k = i - a
    OBVIOUS
  <2> HIDE DEF a, n, m, l, k
  <2>3. m \in Nat /\ m >= 1 /\ l <= n /\ m <= l + 1 /\ k \in 1 .. l + 1 - m /\ m + k - 1 = i
    BY <2>1, <2>2
  <2>4. QED
    BY <2>3 DEF n
<1> HIDE DEF m, l, k
<1>4. /\ part \in Seq(Messages) /\ Len(part) = l + 1 - m
      /\ \A j \in 1 .. l + 1 - m : part[j] = cache.messages[m + j - 1]
  BY <1>1, <1>2, <1>3, PartOfSeq
<1>5. part[k] = cache.messages[i]
  BY <1>3, <1>4
<1>6. k \in DOMAIN part
  BY <1>3, <1>4, LenProperties
<1>7. cache.messages[i] \in Range(part)
  BY <1>5, <1>6 DEF Range
<1>8. QED
  BY <1>7 DEF Chunk, m, l

LEMMA ChunkArchived ==
  ASSUME SavedInv, consol.turn # 0, NEW s, s = [cache EXCEPT !.archived = consol.upto],
         cache' = s, file' = s, noted' = noted \cup Chunk,
         \/ consol'.turn = 0
         \/ \E n \in Boundaries(s) : consol' = [consol EXCEPT !.upto = n]
  PROVE  Kept /\ IsSaved(s) /\ s.messages = cache.messages /\ s.checkpoint = cache.checkpoint
<1>1. /\ cache # NotLoaded /\ cache.archived < consol.upto /\ consol.upto < Len(cache.messages)
      /\ consol.upto \in Nat
  BY DEF SavedInv, CacheInv, SessionType
<1>2. /\ file.messages \in Seq(Messages) /\ Len(file.messages) \in Nat /\ file.archived \in Nat
      /\ file.archived <= Len(file.messages)
      /\ cache.messages \in Seq(Messages) /\ Len(cache.messages) \in Nat /\ cache.archived = file.archived
      /\ IsPrefix(file.messages, cache.messages) /\ IsSaved(cache)
      /\ cache.checkpoint \in SessionCheckpoints
      /\ Len(cache.checkpoint.completed) + Len(cache.checkpoint.pending) <= 1
  BY <1>1, LoadedIs, SavedFacts DEF IsSaved
<1>3. /\ s = [messages |-> cache.messages, archived |-> consol.upto, checkpoint |-> cache.checkpoint]
      /\ IsSaved([messages |-> cache.messages, archived |-> consol.upto, checkpoint |-> cache.checkpoint])
  <2> DEFINE n == consol.upto
  <2>1. IsSaved(cache) /\ n \in Nat /\ n <= Len(cache.messages)
    BY <1>1, <1>2
  <2> HIDE DEF n
  <2>2. IsSaved([cache EXCEPT !.archived = n])
        /\ IsParts([cache EXCEPT !.archived = n], cache.messages, n, cache.checkpoint)
    BY <2>1, ArchivedParts
  <2>3. QED
    BY <2>2 DEF n, IsParts
<1>4. s.messages = cache.messages /\ s.archived = consol.upto /\ s.checkpoint = cache.checkpoint
  BY <1>3
<1>5. IsSaved(s) /\ s # NotLoaded
  BY <1>3, SavedFacts
<1>6. KeptStep
  BY <1>1, <1>2, <1>4 DEF KeptStep
<1>7. CacheInv'
  <2>1. ASSUME NEW n \in Boundaries(s), consol' = [consol EXCEPT !.upto = n]
        PROVE  s.archived < consol'.upto /\ consol'.upto < Len(s.messages)
    <3>1. n \in s.archived + 1 .. Len(s.messages) - 1
      BY <2>1 DEF Boundaries
    <3>2. consol'.upto = n
      BY <2>1 DEF SavedInv, SessionType
    <3>3. QED
      BY <1>1, <1>2, <1>4, <3>1, <3>2
  <2>2. IsPrefix(s.messages, s.messages)
    BY <1>2, <1>4, PrefixReflexive
  <2>3. consol'.turn # 0 => s.archived < consol'.upto /\ consol'.upto < Len(s.messages)
    BY <2>1
  <2>4. QED
    BY <1>5, <2>2, <2>3 DEF CacheInv
<1>8. ArchivedIsNoted'
  <2>1. ASSUME NEW i \in 1 .. s.archived, s.messages[i].text # "call" PROVE s.messages[i] \in noted'
    <3>1. CASE i <= file.archived
      <4>1. i \in 1 .. file.archived /\ i \in 1 .. Len(file.messages)
        BY <1>1, <1>2, <1>4, <3>1
      <4>2. s.messages[i] = file.messages[i]
        BY <1>2, <1>4, <4>1, PrefixIs
      <4>3. QED
        BY <2>1, <4>1, <4>2 DEF SavedInv, ArchivedIsNoted
    <3>2. CASE ~ (i <= file.archived)
      <4>1. i \in cache.archived + 1 .. consol.upto
        BY <1>1, <1>2, <1>4, <3>2
      <4>2. QED
        BY <1>4, <2>1, <4>1, ChunkIs
    <3>3. QED
      BY <3>1, <3>2
  <2>2. QED
    BY <2>1 DEF ArchivedIsNoted
<1>9. QED
  BY <1>4, <1>5, <1>6, <1>7, <1>8 DEF Kept

LEMMA ProcessGone ==
  ASSUME SavedInv, ProcessEnds, noted \subseteq noted'
  PROVE  Kept
<1>1. IsPrefix(file.messages, file.messages) /\ file.archived \in Nat
  BY LoadedIs, SavedFacts, PrefixReflexive
<1>2. KeptStep
  BY <1>1 DEF KeptStep, ProcessEnds
<1>3. \A t \in Turns : turn'[t].pc \in Ended
  BY DEF ProcessEnds, NoTurn, Ended
<1>4. CacheInv'
  BY <1>3 DEF CacheInv, ProcessEnds, Running, Ended
<1>5. ArchivedIsNoted'
  BY DEF ArchivedIsNoted, SavedInv, ProcessEnds
<1>6. QED
  BY <1>2, <1>4, <1>5 DEF Kept

-----------------------------------------------------------------------------
(* Every step keeps the cache, the file and the archive.                   *)

TurnTypes ==
  /\ turn \in [Turns -> TurnRecords]
  /\ \A t \in Turns : turn[t].pc = "tool" => turn[t].iter < plan.iterations

LEMMA TurnTypeStep ==
  ASSUME SavedInv, NEW t \in Turns, NEW r \in TurnRecords, Becomes(t, r), plan' = plan,
         r.pc = "tool" => r.iter < plan.iterations
  PROVE  /\ TurnTypes'
         /\ turn'[t] = r
         /\ \A u \in Turns : u # t => turn'[u] = turn[u]
<1>1. /\ turn' \in [Turns -> TurnRecords] /\ turn'[t] = r
      /\ \A u \in Turns : u # t => turn'[u] = turn[u]
  BY TurnSet DEF SavedInv, SessionType
<1>2. \A u \in Turns : turn[u].pc = "tool" => turn[u].iter < plan.iterations
  BY DEF SavedInv, SessionType
<1>3. \A u \in Turns : turn'[u].pc = "tool" => turn'[u].iter < plan'.iterations
  BY <1>1, <1>2
<1>4. QED
  BY <1>1, <1>3 DEF TurnTypes

LEMMA GotoType ==
  ASSUME SavedInv, NEW t \in Turns, NEW p \in (Running \cup Ended \cup {"queued", "lock", "gate"}) \ {"tool"},
         Goto(t, p), plan' = plan
  PROVE  /\ TurnTypes'
         /\ turn'[t] = TurnOf(p, turn[t].iter, turn[t].base, turn[t].messages, turn[t].stop)
         /\ turn'[t].pc = p
         /\ \A u \in Turns : u # t => turn'[u] = turn[u]
<1> DEFINE r == TurnOf(p, turn[t].iter, turn[t].base, turn[t].messages, turn[t].stop)
<1>1. SessionType
  BY DEF SavedInv
<1>2. r \in TurnRecords /\ r.pc = p
  BY <1>1, TurnFacts DEF TurnOf, TurnRecords
<1>3. Becomes(t, r)
  BY <1>1, GotoIs
<1> HIDE DEF r
<1>4. QED
  BY <1>2, <1>3, TurnTypeStep DEF r

LEMMA StartRunKept ==
  ASSUME SavedInv, StartRun
  PROVE  SavedInv' /\ KeptStep
<1>1. run + 1 \in Turns /\ run + 1 \in 0 .. MaxRuns /\ plan' = plan /\ Goto(run + 1, "queued")
  BY SessionBounds DEF SavedInv, SessionType, StartRun, bounds
<1>2. TurnTypes' /\ turn'[run + 1].pc = "queued" /\ \A u \in Turns : u # run + 1 => turn'[u] = turn[u]
  <2>1. "queued" \in (Running \cup Ended \cup {"queued", "lock", "gate"}) \ {"tool"}
    OBVIOUS
  <2> DEFINE t == run + 1
  <2> HIDE DEF t
  <2>2. t \in Turns /\ plan' = plan /\ Goto(t, "queued")
    BY <1>1 DEF t
  <2>3. TurnTypes' /\ turn'[t].pc = "queued" /\ \A u \in Turns : u # t => turn'[u] = turn[u]
    BY <2>1, <2>2, GotoType
  <2>4. QED
    BY <2>3 DEF t
<1>3. Kept
  <2>1. \A t \in Turns : turn'[t].pc \in Running => turn[t].pc \in Running
    BY <1>2 DEF Running
  <2>2. file' = file /\ cache' = cache /\ consol' = consol /\ noted' = noted /\ background' = background
    BY DEF StartRun, session, memory
  <2>3. QED
    BY <2>1, <2>2, NothingSaved
<1>4. SessionType'
  <2>1. inbound' \in Seq(Turns)
    BY <1>1 DEF StartRun
  <2>2. QED
    BY <1>1, <1>2, <2>1 DEF SavedInv, SessionType, TurnTypes, StartRun, session, memory, bounds
<1>5. QED
  BY <1>3, <1>4 DEF SavedInv, Kept

\* The steps of SessionRunner and of the loop that leave turns and session alone.
LEMMA HostKept ==
  ASSUME SavedInv, Collect \/ TakeResult \/ LoopExits \/ Report
  PROVE  SavedInv' /\ KeptStep
<1>1. /\ UNCHANGED <<plan, run, turn, file, cache, consol, background, noted, emitted, subs, inbound>>
      /\ phase' \in {"idle", "waiting", "stopping", "returned"}
  BY DEF Collect, TakeResult, LoopExits, Report, SavedInv, SessionType, process, session, memory, bounds
<1>2. Kept
  BY <1>1, NothingSaved
<1>3. SessionType'
  BY <1>1 DEF SavedInv, SessionType
<1>4. QED
  BY <1>2, <1>3 DEF SavedInv, Kept

LEMMA ProcessEndsType ==
  ASSUME SavedInv, ProcessEnds, plan' = plan
  PROVE  SessionType'
<1> DEFINE lost == [NoTurn EXCEPT !.pc = "lost"]
<1>1. lost \in TurnRecords /\ lost.pc = "lost"
  <2>1. lost = TurnOf("lost", 0, 0, <<>>, "none")
    BY DEF NoTurn, TurnOf
  <2>2. 0 \in 0 .. MaxIterations /\ 0 \in Nat /\ <<>> \in Seq(Messages)
    BY SessionBounds, EmptySeq
  <2>3. QED
    BY <2>1, <2>2 DEF TurnOf, TurnRecords, Ended
<1>2. turn' = [t \in Turns |-> IF turn[t].pc \in Ended THEN turn[t] ELSE lost]
  BY DEF ProcessEnds
<1> HIDE DEF lost
<1>3. turn' \in [Turns -> TurnRecords]
  BY <1>1, <1>2 DEF SavedInv, SessionType
<1>4. \A t \in Turns : turn'[t].pc # "tool"
  BY <1>1, <1>2 DEF Ended
<1>5. subs' \in [Announcements -> {"unborn", "running", "announced", "lost"}]
  BY DEF ProcessEnds, SavedInv, SessionType
<1>6. consol' \in [turn : Turns \cup {0}, bg : BOOLEAN, upto : Nat]
  BY DEF ProcessEnds
<1>7. inbound' \in Seq(Turns)
  BY EmptySeq DEF ProcessEnds
<1>8. QED
  BY <1>3, <1>4, <1>5, <1>6, <1>7 DEF SavedInv, SessionType, ProcessEnds

LEMMA ProcessEndKept ==
  ASSUME SavedInv, Exit \/ Crash
  PROVE  SavedInv' /\ KeptStep
<1>1. ProcessEnds /\ noted \subseteq noted' /\ plan' = plan
  BY DEF Exit, Crash, bounds
<1>2. Kept
  BY <1>1, ProcessGone
<1>3. QED
  BY <1>1, <1>2, ProcessEndsType DEF SavedInv, Kept

LEMMA ConsumeKept ==
  ASSUME SavedInv, Consume
  PROVE  SavedInv' /\ KeptStep
<1> DEFINE t == Head(inbound)
<1>1. t \in Turns /\ inbound' \in Seq(Turns) /\ Goto(t, "lock") /\ plan' = plan
  BY HeadTailProperties DEF SavedInv, SessionType, Consume, bounds
<1> HIDE DEF t
<1>2. "lock" \in (Running \cup Ended \cup {"queued", "lock", "gate"}) \ {"tool"}
  OBVIOUS
<1>3. TurnTypes' /\ turn'[t].pc = "lock" /\ \A u \in Turns : u # t => turn'[u] = turn[u]
  BY <1>1, <1>2, GotoType
<1>4. UNCHANGED <<phase, run, file, cache, consol, background, noted, emitted, subs>>
  BY DEF Consume, session, memory
<1>5. Kept
  <2>1. \A u \in Turns : turn'[u].pc \in Running => turn[u].pc \in Running
    BY <1>3 DEF Running
  <2>2. QED
    BY <1>4, <2>1, NothingSaved
<1>6. SessionType'
  BY <1>1, <1>3, <1>4 DEF SavedInv, SessionType, TurnTypes
<1>7. QED
  BY <1>5, <1>6 DEF SavedInv, Kept

LEMMA AcquireLockKept ==
  ASSUME SavedInv, NEW t \in Turns, AcquireLock(t)
  PROVE  SavedInv' /\ KeptStep
<1>1. Goto(t, "gate") /\ UNCHANGED <<plan, phase, run, file, cache, consol, background, noted, emitted, subs, inbound>>
  BY DEF AcquireLock, process, session, memory, bounds
<1>2. "gate" \in (Running \cup Ended \cup {"queued", "lock", "gate"}) \ {"tool"}
  OBVIOUS
<1>3. TurnTypes' /\ turn'[t].pc = "gate" /\ \A u \in Turns : u # t => turn'[u] = turn[u]
  BY <1>1, <1>2, GotoType
<1>4. Kept
  <2>1. \A u \in Turns : turn'[u].pc \in Running => turn[u].pc \in Running
    BY <1>3 DEF Running
  <2>2. QED
    BY <1>1, <2>1, NothingSaved
<1>5. SessionType'
  BY <1>1, <1>3 DEF SavedInv, SessionType, TurnTypes
<1>6. QED
  BY <1>4, <1>5 DEF SavedInv, Kept

LEMMA BeginTurnKept ==
  ASSUME SavedInv, NEW t \in Turns, BeginTurn(t)
  PROVE  SavedInv' /\ KeptStep
<1>1. Goto(t, "consolidate") /\ UNCHANGED <<plan, phase, run, consol, background, noted, emitted, subs, inbound>>
  BY DEF BeginTurn, process, memory, bounds
<1>2. "consolidate" \in (Running \cup Ended \cup {"queued", "lock", "gate"}) \ {"tool"}
  BY DEF Running
<1>3. TurnTypes' /\ turn'[t].pc = "consolidate" /\ \A u \in Turns : u # t => turn'[u] = turn[u]
  BY <1>1, <1>2, GotoType
<1>4. Kept /\ IsSaved(file') /\ IsSaved(cache')
  <2>1. CASE Loaded.checkpoint = NoCheckpoint
    <3>1. cache' = Loaded /\ file' = file
      BY <2>1 DEF BeginTurn
    <3>2. /\ IsSaved(file) /\ IsSaved(Loaded) /\ Loaded # NotLoaded
          /\ IsPrefix(file.messages, Loaded.messages)
          /\ Loaded.archived = file.archived /\ Loaded.checkpoint = file.checkpoint
          /\ cache # NotLoaded => Loaded = cache
      BY LoadedIs
    <3>3. IsPrefix(file.messages, file.messages) /\ file.archived \in Nat
      BY <3>2, SavedFacts, PrefixReflexive
    <3>4. KeptStep
      BY <3>1, <3>3 DEF KeptStep
    <3>5. CacheInv'
      <4>1. consol.turn # 0 => cache # NotLoaded /\ cache.archived < consol.upto /\ consol.upto < Len(cache.messages)
        BY DEF SavedInv, CacheInv
      <4>2. QED
        BY <1>1, <3>1, <3>2, <4>1 DEF CacheInv
    <3>6. ArchivedIsNoted'
      BY <1>1, <3>1 DEF SavedInv, ArchivedIsNoted
    <3>7. QED
      BY <3>1, <3>2, <3>4, <3>5, <3>6 DEF Kept
  <2>2. CASE Loaded.checkpoint # NoCheckpoint
    <3>1. cache' = Restore(Loaded) /\ file' = Restore(Loaded)
      BY <2>2 DEF BeginTurn, Save
    <3>2. IsSaved(Loaded)
      BY LoadedIs
    <3>3. \E more : Appended(Loaded, Restore(Loaded), more)
      BY <2>2, <3>2, RestoreIs
    <3>4. /\ IsSaved(Restore(Loaded)) /\ IsPrefix(Loaded.messages, Restore(Loaded).messages)
          /\ Restore(Loaded).archived = Loaded.archived
      BY <3>3 DEF Appended
    <3>5. Kept
      BY <1>1, <3>1, <3>4, LongerSaved
    <3>6. QED
      BY <3>1, <3>4, <3>5
  <2>3. QED
    BY <2>1, <2>2
<1>5. SessionType'
  BY <1>1, <1>3, <1>4 DEF SavedInv, SessionType, TurnTypes
<1>6. QED
  BY <1>4, <1>5 DEF SavedInv, Kept

-----------------------------------------------------------------------------
(* Consolidation keeps the cache, the file and the archive.                *)

\* Whoever may consolidate has loaded the session.
LEMMA WorkerFacts ==
  ASSUME SavedInv, NEW w \in Workers
  PROVE  /\ w.turn \in Turns /\ w.bg \in BOOLEAN /\ cache # NotLoaded /\ IsSaved(cache)
         /\ w.bg => w.turn \in background
         /\ ~ w.bg => turn[w.turn].pc = "consolidate"
<1>1. /\ w.turn \in Turns /\ w.bg \in BOOLEAN
      /\ w.bg => w.turn \in background
      /\ ~ w.bg => turn[w.turn].pc = "consolidate"
  <2>1. CASE w \in {[turn |-> t, bg |-> FALSE] : t \in {u \in Turns : turn[u].pc = "consolidate"}}
    <3>1. PICK t \in {u \in Turns : turn[u].pc = "consolidate"} : w = [turn |-> t, bg |-> FALSE]
      BY <2>1
    <3>2. QED
      BY <3>1
  <2>2. CASE w \in {[turn |-> t, bg |-> TRUE] : t \in background}
    <3>1. PICK t \in background : w = [turn |-> t, bg |-> TRUE]
      BY <2>2
    <3>2. QED
      BY <3>1 DEF SavedInv, SessionType
  <2>3. QED
    BY <2>1, <2>2 DEF Workers
<1>2. cache # NotLoaded
  BY <1>1 DEF SavedInv, CacheInv, Running
<1>3. QED
  BY <1>1, <1>2, LoadedIs

LEMMA StartConsolidationKept ==
  ASSUME SavedInv, NEW w \in Workers, StartConsolidation(w)
  PROVE  SavedInv' /\ KeptStep
<1>1. PICK n \in Boundaries(cache) : consol' = [turn |-> w.turn, bg |-> w.bg, upto |-> n]
  BY DEF StartConsolidation
<1>2. UNCHANGED <<plan, phase, run, turn, file, cache, background, noted, emitted, subs, inbound>>
  BY DEF StartConsolidation, process, session, bounds
<1>3. /\ w.turn \in Turns /\ w.bg \in BOOLEAN /\ cache # NotLoaded
      /\ cache.archived \in Nat /\ Len(cache.messages) \in Nat
      /\ file.messages \in Seq(Messages) /\ file.archived \in Nat
  BY WorkerFacts, LoadedIs, SavedFacts
<1>4. n \in Nat /\ cache.archived < n /\ n < Len(cache.messages)
  BY <1>1, <1>3 DEF Boundaries
<1>5. CacheInv'
  BY <1>1, <1>2, <1>3, <1>4 DEF SavedInv, CacheInv
<1>6. ArchivedIsNoted'
  BY <1>2 DEF SavedInv, ArchivedIsNoted
<1>7. KeptStep
  BY <1>2, <1>3, PrefixReflexive DEF KeptStep
<1>8. SessionType'
  BY <1>1, <1>2, <1>3, <1>4 DEF SavedInv, SessionType
<1>9. QED
  BY <1>5, <1>6, <1>7, <1>8 DEF SavedInv

\* A consolidation that ends leaves turns and background well typed.
LEMMA EndConsolidationType ==
  ASSUME SavedInv, NEW w, w.turn \in Turns, w.bg \in BOOLEAN, NEW s, IsSaved(s), EndConsolidation(w, s), plan' = plan
  PROVE  TurnTypes' /\ background' \subseteq background
<1>1. CASE w.bg
  <2>1. turn' = turn /\ background' \subseteq background
    BY <1>1 DEF EndConsolidation
  <2>2. QED
    BY <2>1 DEF SavedInv, SessionType, TurnTypes
<1>2. CASE ~ w.bg
  <2> DEFINE t == w.turn
             r == TurnOf("model", turn[t].iter, Len(History(s)), PromptMessages(s, t), turn[t].stop)
  <2>1. SessionType
    BY DEF SavedInv
  <2>2. Becomes(t, r) /\ background' = background
    BY <1>2, <2>1, PromptBuilt
  <2>3. PromptMessages(s, t) \in Seq(Messages) /\ Len(History(s)) \in Nat
    BY PromptIs
  <2>4. r \in TurnRecords /\ r.pc # "tool" /\ t \in Turns
    BY <2>1, <2>3, TurnFacts DEF TurnOf, TurnRecords, Running
  <2> HIDE DEF r, t
  <2>5. TurnTypes'
    BY <2>2, <2>4, TurnTypeStep
  <2>6. QED
    BY <2>2, <2>5
<1>3. QED
  BY <1>1, <1>2

LEMMA NoConsolidationKept ==
  ASSUME SavedInv, NEW w \in Workers, NoConsolidation(w)
  PROVE  SavedInv' /\ KeptStep
<1>1. w.turn \in Turns /\ w.bg \in BOOLEAN /\ cache # NotLoaded /\ IsSaved(cache)
  BY WorkerFacts
<1>2. EndConsolidation(w, cache) /\ UNCHANGED <<plan, phase, run, file, cache, consol, noted, emitted, subs, inbound>>
  BY DEF NoConsolidation, process, session, bounds
<1>3. TurnTypes' /\ background' \subseteq background
  BY <1>1, <1>2, EndConsolidationType
<1>4. Kept
  BY <1>1, <1>2, NothingSaved
<1>5. SessionType'
  BY <1>2, <1>3 DEF SavedInv, SessionType, TurnTypes
<1>6. QED
  BY <1>4, <1>5 DEF SavedInv, Kept

\* The record of the consolidation under way names a turn.
LEMMA ConsolFacts ==
  ASSUME SavedInv, ~ Unlocked
  PROVE  /\ consol.turn # 0 /\ consol.turn \in Turns /\ consol.bg \in BOOLEAN /\ consol.upto \in Nat
         /\ cache # NotLoaded /\ IsSaved(cache)
<1>1. consol.turn # 0 /\ consol.turn \in Turns /\ consol.bg \in BOOLEAN /\ consol.upto \in Nat
  BY DEF SavedInv, SessionType, Unlocked
<1>2. cache # NotLoaded
  BY <1>1 DEF SavedInv, CacheInv
<1>3. QED
  BY <1>1, <1>2, LoadedIs

LEMMA AbandonRoundKept ==
  ASSUME SavedInv, AbandonRound
  PROVE  SavedInv' /\ KeptStep
<1> DEFINE w == [turn |-> consol.turn, bg |-> consol.bg]
<1>1. w.turn \in Turns /\ w.bg \in BOOLEAN /\ cache # NotLoaded /\ IsSaved(cache)
  BY ConsolFacts DEF AbandonRound
<1>2. /\ EndConsolidation(w, cache) /\ UNCHANGED <<plan, phase, run, file, cache, emitted, subs, inbound>>
      /\ consol' = [turn |-> 0, bg |-> FALSE, upto |-> 0] /\ noted \subseteq noted'
  BY DEF AbandonRound, process, session, bounds
<1> HIDE DEF w
<1>3. TurnTypes' /\ background' \subseteq background
  BY <1>1, <1>2, EndConsolidationType
<1>4. file.messages \in Seq(Messages) /\ file.archived \in Nat
  BY LoadedIs, SavedFacts
<1>5. KeptStep
  BY <1>2, <1>4, PrefixReflexive DEF KeptStep
<1>6. CacheInv'
  BY <1>1, <1>2 DEF SavedInv, CacheInv
<1>7. ArchivedIsNoted'
  BY <1>2 DEF SavedInv, ArchivedIsNoted
<1>8. consol' \in [turn : Turns \cup {0}, bg : BOOLEAN, upto : Nat]
  BY <1>2
<1>9. SessionType'
  BY <1>2, <1>3, <1>8 DEF SavedInv, SessionType, TurnTypes
<1>10. QED
  BY <1>5, <1>6, <1>7, <1>9 DEF SavedInv

LEMMA FinishRoundKept ==
  ASSUME SavedInv, FinishRound
  PROVE  SavedInv' /\ KeptStep
<1> DEFINE s == [cache EXCEPT !.archived = consol.upto]
           w == [turn |-> consol.turn, bg |-> consol.bg]
<1>1. w.turn \in Turns /\ w.bg \in BOOLEAN /\ consol.turn # 0 /\ consol.upto \in Nat
  BY ConsolFacts DEF FinishRound
<1>2. /\ cache' = s /\ file' = s /\ noted' = noted \cup Chunk
      /\ UNCHANGED <<plan, phase, run, emitted, subs, inbound>>
      /\ \/ (\E n \in Boundaries(s) : consol' = [consol EXCEPT !.upto = n])
            /\ UNCHANGED <<turn, background>>
         \/ consol' = [turn |-> 0, bg |-> FALSE, upto |-> 0] /\ EndConsolidation(w, s)
  BY DEF FinishRound, Save, NoteChunk, process, bounds
<1> HIDE DEF w
<1>3. Kept /\ IsSaved(s)
  <2>1. consol'.turn = 0 \/ \E n \in Boundaries(s) : consol' = [consol EXCEPT !.upto = n]
    BY <1>2
  <2>2. \E r : r = s
    OBVIOUS
  <2>3. PICK r : r = s
    BY <2>2
  <2> HIDE DEF s
  <2>4. r = [cache EXCEPT !.archived = consol.upto] /\ cache' = r /\ file' = r /\ noted' = noted \cup Chunk
        /\ (consol'.turn = 0 \/ \E n \in Boundaries(r) : consol' = [consol EXCEPT !.upto = n])
    BY <1>2, <2>1, <2>3 DEF s
  <2>5. Kept /\ IsSaved(r)
    BY <1>1, <2>4, ChunkArchived
  <2>6. QED
    BY <2>3, <2>5
<1>4. consol' \in [turn : Turns \cup {0}, bg : BOOLEAN, upto : Nat] /\ TurnTypes' /\ background' \subseteq background
  <2>1. CASE (\E n \in Boundaries(s) : consol' = [consol EXCEPT !.upto = n]) /\ UNCHANGED <<turn, background>>
    <3>1. PICK n \in Boundaries(s) : consol' = [consol EXCEPT !.upto = n]
      BY <2>1
    <3>2. n \in Nat
      <4>1. s.archived \in Nat /\ Len(s.messages) \in Nat
        BY <1>3, SavedFacts
      <4> HIDE DEF s
      <4>2. QED
        BY <4>1 DEF Boundaries
    <3>3. consol' \in [turn : Turns \cup {0}, bg : BOOLEAN, upto : Nat]
      BY <3>1, <3>2 DEF SavedInv, SessionType
    <3>4. QED
      BY <1>2, <2>1, <3>3 DEF SavedInv, SessionType, TurnTypes
  <2>2. CASE consol' = [turn |-> 0, bg |-> FALSE, upto |-> 0] /\ EndConsolidation(w, s)
    <3> HIDE DEF s
    <3>1. TurnTypes' /\ background' \subseteq background
      BY <1>1, <1>2, <1>3, <2>2, EndConsolidationType
    <3>2. QED
      BY <2>2, <3>1
  <2>3. QED
    BY <1>2, <2>1, <2>2
<1> HIDE DEF s
<1>5. SessionType'
  BY <1>2, <1>3, <1>4 DEF SavedInv, SessionType, TurnTypes
<1>6. QED
  BY <1>3, <1>5 DEF SavedInv, Kept

-----------------------------------------------------------------------------
(* The model, its tools and the end of a turn.                             *)

\* What a turn saves are messages, and so is any part of it.
LEMMA TailTypes ==
  ASSUME SessionType, NEW t \in Turns
  PROVE  /\ TurnTail(t) \in Seq(Messages)
         /\ \A i \in 1 .. Len(TurnTail(t)) : SubSeq(TurnTail(t), 1, i - 1) \in Seq(Messages)
<1> DEFINE ms == turn[t].messages
           past == turn[t].base
           tail == TurnTail(t)
<1>1. ms \in Seq(Messages) /\ past \in Nat /\ Len(ms) \in Nat
  BY TurnFacts, LenProperties
<1>2. tail = SubSeq(ms, past + 1, Len(ms))
  BY DEF TurnTail
<1>3. tail \in Seq(Messages)
  <2>1. past + 1 \in Int /\ Len(ms) \in Int /\ \A i \in past + 1 .. Len(ms) : ms[i] \in Messages
    <3>1. \A i \in past + 1 .. Len(ms) : i \in 1 .. Len(ms)
      BY <1>1
    <3>2. QED
      BY <1>1, <3>1, ElementOfSeq
  <2> HIDE DEF ms, past, tail
  <2>2. QED
    BY <1>1, <1>2, <2>1, SubSeqProperties
<1> HIDE DEF tail
<1>4. ASSUME NEW i \in 1 .. Len(tail) PROVE SubSeq(tail, 1, i - 1) \in Seq(Messages)
  <2> DEFINE n == i - 1
  <2>1. Len(tail) \in Nat
    BY <1>3, LenProperties
  <2>2. n \in Nat /\ n <= Len(tail)
    BY <2>1
  <2> HIDE DEF n
  <2>3. SubSeq(tail, 1, n) \in Seq(Messages)
    BY <1>3, <2>2, PartOfSeq
  <2>4. QED
    BY <2>3 DEF n
<1>5. QED
  BY <1>3, <1>4 DEF tail

\* A running turn has a session.
LEMMA RunningCache ==
  ASSUME SavedInv, NEW t \in Turns, turn[t].pc \in Running
  PROVE  cache # NotLoaded /\ IsSaved(cache) /\ Loaded = cache
<1>1. cache # NotLoaded
  BY DEF SavedInv, CacheInv
<1>2. QED
  BY <1>1, LoadedIs

\* A step that checkpoints keeps what is saved.
LEMMA CheckpointKept ==
  ASSUME SavedInv, NEW t \in Turns, turn[t].pc \in Running,
         NEW message \in Messages, NEW completed \in Seq(Messages), NEW pending \in Seq(1 .. MaxIterations),
         Len(completed) + Len(pending) <= 1,
         Checkpoint(message, completed, pending), consol' = consol, noted' = noted
  PROVE  /\ Kept /\ IsSaved(file') /\ IsSaved(cache') /\ cache' = file'
         /\ file'.messages = cache.messages
         /\ file'.checkpoint = [message |-> message, completed |-> completed, pending |-> pending]
<1> DEFINE c == [message |-> message, completed |-> completed, pending |-> pending]
           s == [cache EXCEPT !.checkpoint = c]
<1>1. IsSaved(cache) /\ Loaded = cache
  BY RunningCache
<1>2. c \in SessionCheckpoints /\ Len(c.completed) + Len(c.pending) <= 1
  BY DEF SessionCheckpoints
<1>3. cache' = s /\ file' = s
  BY DEF Checkpoint, Save
<1> HIDE DEF c
<1>4. IsSaved(s) /\ IsParts(s, cache.messages, cache.archived, c)
  BY <1>1, <1>2, CheckpointParts
<1>5. /\ IsSaved(s) /\ s.messages = cache.messages /\ s.archived = cache.archived /\ s.checkpoint = c
      /\ IsPrefix(Loaded.messages, s.messages) /\ s.archived = Loaded.archived
  BY <1>1, <1>4, SavedFacts, PrefixReflexive DEF IsParts
<1> HIDE DEF s
<1>6. Kept
  BY <1>3, <1>5, LongerSaved
<1>7. QED
  BY <1>3, <1>5, <1>6 DEF c

\* A step of a turn that leaves the rest in its place keeps the types.
LEMMA TurnTyped ==
  ASSUME SavedInv, NEW t \in Turns, NEW r \in TurnRecords, Becomes(t, r),
         r.pc = "tool" => r.iter < plan.iterations,
         UNCHANGED <<plan, phase, run, consol, background, inbound>>,
         subs' \in [Announcements -> {"unborn", "running", "announced", "lost"}],
         emitted' \in [Turns -> Messages],
         IsSaved(file'), cache' = NotLoaded \/ IsSaved(cache')
  PROVE  SessionType'
<1>1. TurnTypes'
  BY TurnTypeStep
<1>2. QED
  BY <1>1 DEF SavedInv, SessionType, TurnTypes

LEMMA AskFacts ==
  ASSUME SavedInv, NEW t \in Turns, Ask(t)
  PROVE  /\ turn[t].iter + 1 \in 1 .. MaxIterations /\ turn[t].iter + 1 \in 0 .. MaxIterations
         /\ turn[t].iter < plan.iterations /\ turn[t].pc = "model" /\ turn[t].pc \in Running
<1>1. plan \in Plans /\ turn[t].iter \in Nat
  BY TurnFacts DEF SavedInv, SessionType
<1>2. plan.iterations \in 1 .. MaxIterations /\ MaxIterations \in Nat
  BY <1>1, SessionBounds
<1>3. turn[t].iter < plan.iterations /\ turn[t].pc = "model"
  BY DEF Ask
<1> DEFINE i == turn[t].iter
           n == plan.iterations
<1>4. i \in Nat /\ n \in 1 .. MaxIterations /\ MaxIterations \in Nat /\ i < n
  BY <1>1, <1>2, <1>3
<1> HIDE DEF i, n
<1>5. i + 1 \in 1 .. MaxIterations /\ i + 1 \in 0 .. MaxIterations
  BY <1>4
<1>6. QED
  BY <1>3, <1>5 DEF Running, i, n

LEMMA CallToolKept ==
  ASSUME SavedInv, NEW t \in Turns, CallTool(t)
  PROVE  SavedInv' /\ KeptStep
<1> DEFINE i == turn[t].iter + 1
           m == Call(t, i)
           r == TurnOf("tool", turn[t].iter, turn[t].base, Append(turn[t].messages, m), turn[t].stop)
<1>1. SessionType
  BY DEF SavedInv
<1>2. i \in 1 .. MaxIterations /\ i \in 0 .. MaxIterations /\ turn[t].iter < plan.iterations /\ turn[t].pc \in Running
  BY AskFacts DEF CallTool
<1>3. m \in Messages
  BY <1>2, MessageTypes
<1>4. Becomes(t, r)
  BY <1>1, CallToolIs
<1>5. /\ Checkpoint(m, <<>>, <<i>>) /\ emitted' = [emitted EXCEPT ![t] = m]
      /\ UNCHANGED <<plan, phase, run, consol, background, noted, subs, inbound>>
  BY DEF CallTool, process, memory, bounds
<1>6. <<>> \in Seq(Messages) /\ <<i>> \in Seq(1 .. MaxIterations) /\ Len(<<>>) + Len(<<i>>) <= 1
  BY <1>2, EmptySeq
<1>7. r \in TurnRecords /\ (r.pc = "tool" => r.iter < plan.iterations)
  <2>1. Append(turn[t].messages, m) \in Seq(Messages)
    BY <1>1, <1>3, TurnFacts, AppendProperties
  <2> HIDE DEF m
  <2>2. QED
    BY <1>1, <1>2, <2>1, TurnFacts DEF TurnOf, TurnRecords, Running
<1> DEFINE pending == <<i>>
<1> HIDE DEF i, m, r, pending
<1>8. Kept /\ IsSaved(file') /\ IsSaved(cache')
  <2>1. Checkpoint(m, <<>>, pending) /\ pending \in Seq(1 .. MaxIterations) /\ Len(<<>>) + Len(pending) <= 1
    BY <1>5, <1>6 DEF pending
  <2>2. QED
    BY <1>2, <1>3, <1>5, <1>6, <2>1, CheckpointKept
<1>9. emitted' \in [Turns -> Messages] /\ subs' \in [Announcements -> {"unborn", "running", "announced", "lost"}]
  BY <1>1, <1>3, <1>5 DEF SessionType
<1>10. SessionType'
  BY <1>4, <1>5, <1>7, <1>8, <1>9, TurnTyped
<1>11. QED
  BY <1>8, <1>10 DEF SavedInv, Kept

LEMMA ToolFacts ==
  ASSUME SavedInv, NEW t \in Turns, turn[t].pc = "tool"
  PROVE  /\ turn[t].iter + 1 \in 1 .. MaxIterations /\ turn[t].iter + 1 \in 0 .. MaxIterations
         /\ turn[t].iter < plan.iterations /\ turn[t].pc \in Running
<1>1. plan \in Plans /\ turn[t].iter \in Nat /\ turn[t].iter < plan.iterations
  BY TurnFacts DEF SavedInv, SessionType
<1>2. plan.iterations \in 1 .. MaxIterations /\ MaxIterations \in Nat
  BY <1>1, SessionBounds
<1> DEFINE i == turn[t].iter
           n == plan.iterations
<1>3. i \in Nat /\ n \in 1 .. MaxIterations /\ MaxIterations \in Nat /\ i < n
  BY <1>1, <1>2
<1> HIDE DEF i, n
<1>4. i + 1 \in 1 .. MaxIterations /\ i + 1 \in 0 .. MaxIterations
  BY <1>3
<1>5. QED
  BY <1>3, <1>4 DEF Running, i, n

LEMMA ToolReturnsKept ==
  ASSUME SavedInv, NEW t \in Turns, ToolReturns(t)
  PROVE  SavedInv' /\ KeptStep
<1> DEFINE i == turn[t].iter + 1
           c == Call(t, i)
           m == Result(t, i)
           r == TurnOf("model", i, turn[t].base, Append(turn[t].messages, m), turn[t].stop)
<1>1. SessionType
  BY DEF SavedInv
<1>2. i \in 1 .. MaxIterations /\ i \in 0 .. MaxIterations /\ turn[t].pc \in Running
  BY ToolFacts DEF ToolReturns
<1>3. m \in Messages /\ c \in Messages
  BY <1>2, MessageTypes
<1>4. Becomes(t, r)
  BY <1>1, ToolReturnsIs
<1>5. /\ Checkpoint(c, <<m>>, <<>>)
      /\ UNCHANGED <<plan, phase, run, consol, background, noted, emitted, inbound>>
  BY DEF ToolReturns, process, memory, bounds
<1>6. r \in TurnRecords /\ r.pc # "tool"
  <2>1. Append(turn[t].messages, m) \in Seq(Messages)
    BY <1>1, <1>3, TurnFacts, AppendProperties
  <2> HIDE DEF m, i
  <2>2. QED
    BY <1>1, <1>2, <2>1, TurnFacts DEF TurnOf, TurnRecords, Running
<1>7. subs' \in [Announcements -> {"unborn", "running", "announced", "lost"}]
  <2>1. subs' = subs \/ \E a \in Announcements : Spawn(a)
    BY DEF ToolReturns
  <2>2. QED
    BY <1>1, <2>1 DEF SessionType, Spawn
<1>8. emitted' \in [Turns -> Messages]
  BY <1>1, <1>5 DEF SessionType
<1> HIDE DEF i, c, m, r
<1>9. Kept /\ IsSaved(file') /\ IsSaved(cache')
  <2> DEFINE completed == <<m>>
             pending == <<>>
  <2>1. completed \in Seq(Messages) /\ pending \in Seq(1 .. MaxIterations) /\ Len(completed) + Len(pending) <= 1
    BY <1>3, EmptySeq
  <2>2. Checkpoint(c, completed, pending)
    BY <1>5
  <2> HIDE DEF completed, pending
  <2>3. QED
    BY <1>2, <1>3, <1>5, <2>1, <2>2, CheckpointKept
<1>10. SessionType'
  BY <1>4, <1>5, <1>6, <1>7, <1>8, <1>9, TurnTyped
<1>11. QED
  BY <1>9, <1>10 DEF SavedInv, Kept

LEMMA MalformedCallKept ==
  ASSUME SavedInv, NEW t \in Turns, MalformedCall(t)
  PROVE  SavedInv' /\ KeptStep
<1> DEFINE r == TurnOf(turn[t].pc, turn[t].iter + 1, turn[t].base, turn[t].messages, turn[t].stop)
<1>1. SessionType
  BY DEF SavedInv
<1>2. turn[t].iter + 1 \in 0 .. MaxIterations /\ turn[t].pc = "model" /\ turn[t].pc \in Running
  BY AskFacts DEF MalformedCall
<1>3. Becomes(t, r)
  BY <1>1, MalformedCallIs
<1>4. UNCHANGED <<plan, phase, run, file, cache, consol, background, noted, emitted, subs, inbound>>
  BY DEF MalformedCall, process, session, memory, bounds
<1>5. r \in TurnRecords /\ r.pc # "tool"
  BY <1>1, <1>2, TurnFacts DEF TurnOf, TurnRecords, Running
<1>6. cache # NotLoaded /\ IsSaved(cache) /\ IsSaved(file)
  BY <1>2, RunningCache, LoadedIs
<1>7. Kept
  BY <1>4, <1>6, NothingSaved
<1> HIDE DEF r
<1>8. SessionType'
  <2>1. /\ subs' \in [Announcements -> {"unborn", "running", "announced", "lost"}]
        /\ emitted' \in [Turns -> Messages] /\ IsSaved(file') /\ IsSaved(cache')
    BY <1>1, <1>4, <1>6 DEF SessionType
  <2>2. QED
    BY <1>3, <1>4, <1>5, <2>1, TurnTyped
<1>9. QED
  BY <1>7, <1>8 DEF SavedInv, Kept

LEMMA AnswerKept ==
  ASSUME SavedInv, NEW t \in Turns, Answer(t)
  PROVE  SavedInv' /\ KeptStep
<1> DEFINE m == Final(t)
           r == TurnOf("closing", turn[t].iter, turn[t].base, Append(turn[t].messages, m), "completed")
<1>1. SessionType
  BY DEF SavedInv
<1>2. turn[t].pc \in Running
  BY AskFacts DEF Answer
<1>3. m \in Messages
  BY MessageTypes
<1>4. Becomes(t, r)
  BY <1>1, AnswerIs
<1>5. /\ Checkpoint(m, <<>>, <<>>) /\ emitted' = [emitted EXCEPT ![t] = m]
      /\ UNCHANGED <<plan, phase, run, consol, background, noted, subs, inbound>>
  BY DEF Answer, process, memory, bounds
<1>6. r \in TurnRecords /\ r.pc # "tool"
  <2>1. Append(turn[t].messages, m) \in Seq(Messages)
    BY <1>1, <1>3, TurnFacts, AppendProperties
  <2> HIDE DEF m
  <2>2. QED
    BY <1>1, <2>1, TurnFacts DEF TurnOf, TurnRecords, Running
<1>7. emitted' \in [Turns -> Messages] /\ subs' \in [Announcements -> {"unborn", "running", "announced", "lost"}]
  BY <1>1, <1>3, <1>5 DEF SessionType
<1> HIDE DEF m, r
<1>8. Kept /\ IsSaved(file') /\ IsSaved(cache')
  <2> DEFINE completed == <<>>
             pending == <<>>
  <2>1. completed \in Seq(Messages) /\ pending \in Seq(1 .. MaxIterations) /\ Len(completed) + Len(pending) <= 1
    BY EmptySeq
  <2>2. Checkpoint(m, completed, pending)
    BY <1>5
  <2> HIDE DEF completed, pending
  <2>3. QED
    BY <1>2, <1>3, <1>5, <2>1, <2>2, CheckpointKept
<1>9. SessionType'
  BY <1>4, <1>5, <1>6, <1>7, <1>8, TurnTyped
<1>10. QED
  BY <1>8, <1>9 DEF SavedInv, Kept

\* The final message comes last, in the place of a trailing text or after the rest.
LEMMA AppendFinalIs ==
  ASSUME NEW ms \in Seq(Messages), NEW t \in Turns
  PROVE  AppendFinal(ms, t) \in Seq(Messages)
<1>1. Final(t) \in Messages
  BY MessageTypes
<1> DEFINE m == Final(t)
           n == Len(ms)
<1>2. m \in Messages /\ n \in Nat
  BY <1>1, LenProperties
<1> HIDE DEF m
<1>3. AppendFinal(ms, t) = [ms EXCEPT ![Len(ms)] = m] \/ AppendFinal(ms, t) = Append(ms, m)
  BY DEF AppendFinal, m
<1>4. Append(ms, m) \in Seq(Messages)
  BY <1>2, AppendProperties
<1>5. CASE ms = <<>>
  <2>1. AppendFinal(ms, t) = Append(ms, m)
    BY <1>5 DEF AppendFinal, m
  <2>2. QED
    BY <1>4, <2>1
<1>6. CASE ms # <<>>
  <2>1. Len(ms) \in 1 .. Len(ms)
    BY <1>2, <1>6, EmptySeq
  <2>2. [ms EXCEPT ![Len(ms)] = m] \in Seq(Messages)
    BY <1>2, <2>1, ExceptSeq
  <2>3. QED
    BY <1>3, <1>4, <2>2
<1>7. QED
  BY <1>5, <1>6

LEMMA GiveUpKept ==
  ASSUME SavedInv, NEW t \in Turns, GiveUp(t)
  PROVE  SavedInv' /\ KeptStep
<1>1. SessionType
  BY DEF SavedInv
<1>2. turn[t].pc \in Running
  BY DEF GiveUp, Running
<1>3. PICK stop \in {"error", "empty_final_response", "max_iterations"} :
        Becomes(t, TurnOf("closing", turn[t].iter, turn[t].base, AppendFinal(turn[t].messages, t), stop))
  BY <1>1, GiveUpIs
<1> DEFINE r == TurnOf("closing", turn[t].iter, turn[t].base, AppendFinal(turn[t].messages, t), stop)
<1>4. UNCHANGED <<plan, phase, run, file, cache, consol, background, noted, emitted, subs, inbound>>
  BY DEF GiveUp, process, session, memory, bounds
<1>5. r \in TurnRecords /\ r.pc # "tool"
  <2>1. AppendFinal(turn[t].messages, t) \in Seq(Messages)
    BY <1>1, TurnFacts, AppendFinalIs
  <2>2. QED
    BY <1>1, <2>1, TurnFacts DEF TurnOf, TurnRecords, Running
<1>6. cache # NotLoaded /\ IsSaved(cache) /\ IsSaved(file)
  BY <1>2, RunningCache, LoadedIs
<1>7. Kept
  BY <1>4, <1>6, NothingSaved
<1>8. Becomes(t, r)
  BY <1>3
<1> HIDE DEF r
<1>9. SessionType'
  <2>1. /\ subs' \in [Announcements -> {"unborn", "running", "announced", "lost"}]
        /\ emitted' \in [Turns -> Messages] /\ IsSaved(file') /\ IsSaved(cache')
    BY <1>1, <1>4, <1>6 DEF SessionType
  <2>2. QED
    BY <1>4, <1>5, <1>8, <2>1, TurnTyped
<1>10. QED
  BY <1>7, <1>9 DEF SavedInv, Kept

\* The end of a turn appends its messages.
LEMMA SaveTurnKept ==
  ASSUME SavedInv, NEW t \in Turns, turn[t].pc \in Running, SaveTurn(t), consol' = consol, noted' = noted
  PROVE  /\ Kept /\ IsSaved(file') /\ IsSaved(cache') /\ cache' = file'
         /\ file'.messages = cache.messages \o TurnTail(t) /\ file'.checkpoint = NoCheckpoint
<1> DEFINE more == TurnTail(t)
           s == [cache EXCEPT !.messages = cache.messages \o more, !.checkpoint = NoCheckpoint]
<1>1. IsSaved(cache) /\ Loaded = cache
  BY RunningCache
<1>2. more \in Seq(Messages)
  BY TailTypes DEF SavedInv
<1>3. cache' = s /\ file' = s
  BY DEF SaveTurn, Save
<1> HIDE DEF more
<1>4. IsSaved(s) /\ IsParts(s, cache.messages \o more, cache.archived, NoCheckpoint)
      /\ IsPrefix(cache.messages, cache.messages \o more)
  BY <1>1, <1>2, MessagesParts
<1>5. /\ s.messages = cache.messages \o more /\ s.archived = cache.archived /\ s.checkpoint = NoCheckpoint
      /\ IsPrefix(Loaded.messages, s.messages) /\ s.archived = Loaded.archived
  BY <1>1, <1>4 DEF IsParts
<1> HIDE DEF s
<1>6. Kept
  BY <1>3, <1>4, <1>5, LongerSaved
<1>7. QED
  BY <1>3, <1>4, <1>5, <1>6 DEF more

LEMMA CloseTurnKept ==
  ASSUME SavedInv, NEW t \in Turns, CloseTurn(t)
  PROVE  SavedInv' /\ KeptStep
<1>1. turn[t].pc \in Running
  BY DEF CloseTurn, Running
<1>2. /\ SaveTurn(t) /\ Goto(t, "done") /\ background' = background \cup {t}
      /\ UNCHANGED <<plan, phase, run, consol, noted, subs, emitted, inbound>>
  BY DEF CloseTurn, process, bounds
<1>3. Kept /\ IsSaved(file') /\ IsSaved(cache')
  BY <1>1, <1>2, SaveTurnKept
<1>4. TurnTypes'
  <2>1. "done" \in (Running \cup Ended \cup {"queued", "lock", "gate"}) \ {"tool"}
    BY DEF Ended
  <2>2. QED
    BY <1>2, <2>1, GotoType
<1>5. SessionType'
  BY <1>2, <1>3, <1>4 DEF SavedInv, SessionType, TurnTypes
<1>6. QED
  BY <1>3, <1>5 DEF SavedInv, Kept

\* An exception may leave a part of the turn in the cached session, not in the file.
LEMMA FailTurnKept ==
  ASSUME SavedInv, NEW t \in Turns, FailTurn(t)
  PROVE  SavedInv' /\ KeptStep
<1>1. turn[t].pc \in Running
  BY DEF FailTurn, Running
<1>2. /\ Goto(t, "failed")
      /\ UNCHANGED <<plan, phase, run, file, consol, background, noted, subs, emitted, inbound>>
  BY DEF FailTurn, process, memory
<1>3. IsSaved(cache) /\ IsSaved(file) /\ cache # NotLoaded
  BY <1>1, RunningCache, LoadedIs
<1>4. PICK more \in Seq(Messages) : cache' = [cache EXCEPT !.messages = cache.messages \o more]
  <2>1. CASE cache' = cache
    <3>1. <<>> \in Seq(Messages)
      BY EmptySeq
    <3>2. cache.messages \o <<>> = cache.messages
      BY <1>3, SavedFacts, ConcatEmptySeq
    <3>3. cache = [cache EXCEPT !.messages = cache.messages]
      BY <1>3 DEF IsSaved
    <3>4. QED
      BY <2>1, <3>1, <3>2, <3>3
  <2>2. CASE \E i \in 1 .. Len(TurnTail(t)) :
               cache' = [cache EXCEPT !.messages = cache.messages \o SubSeq(TurnTail(t), 1, i - 1)]
    BY <2>2, TailTypes DEF SavedInv
  <2>3. QED
    BY <2>1, <2>2 DEF FailTurn
<1> DEFINE s == [cache EXCEPT !.messages = cache.messages \o more]
<1>5. IsSaved(s) /\ IsParts(s, cache.messages \o more, cache.archived, cache.checkpoint)
      /\ IsPrefix(cache.messages, cache.messages \o more)
  BY <1>3, MessagesParts
<1>6. cache' = s
  BY <1>4
<1>7. /\ s # NotLoaded /\ s.messages \in Seq(Messages) /\ s.archived = cache.archived
      /\ s.checkpoint = cache.checkpoint /\ IsPrefix(cache.messages, s.messages)
      /\ cache.messages \in Seq(Messages) /\ file.messages \in Seq(Messages) /\ file.archived \in Nat
  BY <1>3, <1>5, SavedFacts DEF IsParts
<1> HIDE DEF s
<1>8. CacheInv'
  <2>1. IsPrefix(file.messages, s.messages) /\ s.archived = file.archived /\ s.checkpoint = file.checkpoint
    BY <1>3, <1>7, PrefixTransitive DEF SavedInv, CacheInv
  <2>2. ASSUME consol.turn # 0 PROVE s.archived < consol.upto /\ consol.upto < Len(s.messages)
    <3>1. cache.archived < consol.upto /\ consol.upto < Len(cache.messages) /\ consol.upto \in Nat
      BY <2>2 DEF SavedInv, CacheInv, SessionType
    <3>2. Len(cache.messages) <= Len(s.messages) /\ Len(cache.messages) \in Nat /\ Len(s.messages) \in Nat
      BY <1>7, PrefixIs, LenProperties
    <3>3. QED
      BY <1>7, <3>1, <3>2
  <2>3. QED
    BY <1>2, <1>6, <1>7, <2>1, <2>2 DEF CacheInv
<1>9. KeptStep
  BY <1>2, <1>7, PrefixReflexive DEF KeptStep
<1>10. ArchivedIsNoted'
  BY <1>2 DEF SavedInv, ArchivedIsNoted
<1>11. TurnTypes'
  <2>1. "failed" \in (Running \cup Ended \cup {"queued", "lock", "gate"}) \ {"tool"}
    BY DEF Ended
  <2>2. QED
    BY <1>2, <2>1, GotoType
<1>12. SessionType'
  BY <1>2, <1>3, <1>5, <1>6, <1>11 DEF SavedInv, SessionType, TurnTypes
<1>13. QED
  BY <1>8, <1>9, <1>10, <1>12 DEF SavedInv

LEMMA AnnounceKept ==
  ASSUME SavedInv, NEW a \in Announcements, Announce(a)
  PROVE  SavedInv' /\ KeptStep
<1>1. a \in Turns
  BY SessionBounds
<1>2. /\ Goto(a, "queued") /\ inbound' = Append(inbound, a) /\ subs' = [subs EXCEPT ![a] = "announced"]
      /\ UNCHANGED <<plan, phase, run, file, cache, consol, background, noted, emitted>>
  BY DEF Announce, AnnounceResult, process, session, memory, bounds
<1>3. "queued" \in (Running \cup Ended \cup {"queued", "lock", "gate"}) \ {"tool"}
  OBVIOUS
<1>4. TurnTypes' /\ turn'[a].pc = "queued" /\ \A u \in Turns : u # a => turn'[u] = turn[u]
  BY <1>1, <1>2, <1>3, GotoType
<1>5. Kept
  <2>1. \A u \in Turns : turn'[u].pc \in Running => turn[u].pc \in Running
    BY <1>4 DEF Running
  <2>2. QED
    BY <1>2, <2>1, NothingSaved
<1>6. SessionType'
  <2>1. inbound' \in Seq(Turns)
    BY <1>1, <1>2, AppendProperties DEF SavedInv, SessionType
  <2>2. QED
    BY <1>2, <1>4, <2>1 DEF SavedInv, SessionType, TurnTypes
<1>7. QED
  BY <1>5, <1>6 DEF SavedInv, Kept

LEMMA SavedInit ==
  ASSUME SessionInit
  PROVE  SavedInv
<1>1. turn \in [Turns -> TurnRecords] /\ \A t \in Turns : turn[t].pc = "idle"
  <2>1. NoTurn = TurnOf("idle", 0, 0, <<>>, "none")
    BY DEF NoTurn, TurnOf
  <2>2. 0 \in 0 .. MaxIterations /\ 0 \in Nat /\ <<>> \in Seq(Messages)
    BY SessionBounds, EmptySeq
  <2>3. NoTurn \in TurnRecords /\ NoTurn.pc = "idle"
    BY <2>1, <2>2 DEF TurnOf, TurnRecords, Ended
  <2>4. QED
    BY <2>3 DEF SessionInit
<1>2. emitted \in [Turns -> Messages]
  BY MessageTypes DEF SessionInit
<1>3. subs \in [Announcements -> {"unborn", "running", "announced", "lost"}]
  BY DEF SessionInit
<1>4. IsSaved(file) /\ cache = NotLoaded /\ file.archived = 0
  BY EmptyIsSaved DEF SessionInit, EmptySession
<1>5. consol \in [turn : Turns \cup {0}, bg : BOOLEAN, upto : Nat] /\ consol.turn = 0 /\ background = {}
  BY DEF SessionInit
<1>6. run \in 0 .. MaxRuns /\ inbound \in Seq(Turns)
  BY SessionBounds, EmptySeq DEF SessionInit
<1>7. SessionType
  BY <1>1, <1>2, <1>3, <1>4, <1>5, <1>6 DEF SessionInit, SessionType
<1>8. CacheInv
  BY <1>1, <1>4, <1>5 DEF CacheInv, Running
<1>9. ArchivedIsNoted
  BY <1>4 DEF ArchivedIsNoted
<1>10. QED
  BY <1>7, <1>8, <1>9 DEF SavedInv

LEMMA SavedStep ==
  ASSUME SavedInv, [SessionNext]_sessionVars
  PROVE  SavedInv' /\ KeptStep
<1>1. CASE SessionNext
  <2>1. CASE StartRun
    BY <2>1, StartRunKept
  <2>2. CASE Host
    BY <2>2, HostKept, ProcessEndKept DEF Host
  <2>3. CASE Crash
    BY <2>3, ProcessEndKept
  <2>4. CASE Consume
    BY <2>4, ConsumeKept
  <2>5. CASE Consolidate
    BY <2>5, StartConsolidationKept, NoConsolidationKept, FinishRoundKept, AbandonRoundKept DEF Consolidate
  <2>6. ASSUME NEW t \in Turns, Step(t) PROVE SavedInv' /\ KeptStep
    BY <2>6, AcquireLockKept, BeginTurnKept, CallToolKept, ToolReturnsKept, MalformedCallKept,
       AnswerKept, GiveUpKept, CloseTurnKept DEF Step
  <2>7. ASSUME NEW t \in Turns, FailTurn(t) PROVE SavedInv' /\ KeptStep
    BY <2>7, FailTurnKept
  <2>8. ASSUME NEW a \in Announcements, Announce(a) PROVE SavedInv' /\ KeptStep
    BY <2>8, AnnounceKept
  <2>9. QED
    BY <1>1, <2>1, <2>2, <2>3, <2>4, <2>5, <2>6, <2>7, <2>8 DEF SessionNext
<1>2. CASE UNCHANGED sessionVars
  <2>1. UNCHANGED <<plan, phase, run, turn, file, cache, consol, background, noted, emitted, subs, inbound>>
    BY <1>2 DEF sessionVars, process, session, memory, bounds
  <2>2. file.messages \in Seq(Messages) /\ file.archived \in Nat
    BY LoadedIs, SavedFacts
  <2>3. KeptStep
    BY <2>1, <2>2, PrefixReflexive DEF KeptStep
  <2>4. SessionType' /\ CacheInv' /\ ArchivedIsNoted'
    BY <2>1 DEF SavedInv, SessionType, CacheInv, ArchivedIsNoted
  <2>5. QED
    BY <2>3, <2>4 DEF SavedInv
<1>3. QED
  BY <1>1, <1>2

\* Whatever crashes, raises or is resumed, the cached session is an extension of the
\* saved one and agrees with it on what is archived and checkpointed
\* (`SessionManager.get_or_create`, `save`).
THEOREM SessionSaved == SessionSpec => []SavedInv
<1>1. SessionInit => SavedInv
  BY SavedInit
<1>2. SavedInv /\ [SessionNext]_sessionVars => SavedInv'
  BY SavedStep
<1>3. QED
  BY <1>1, <1>2, PTL DEF SessionSpec

\* What the session says is archived, and no later prompt shows, is in the history
\* file, whatever the model answered, failed or was killed in
\* (`MemoryConsolidator.maybe_consolidate_by_tokens`).
THEOREM SessionArchivedIsNoted == SessionSpec => []ArchivedIsNoted
<1>1. SavedInv => ArchivedIsNoted
  BY DEF SavedInv
<1>2. QED
  BY <1>1, SessionSaved, PTL

\* What a process has saved no later process, restore or consolidation takes back:
\* the saved history only grows, and what was archived stays archived
\* (`_restore_runtime_checkpoint`, `_save_turn`).
THEOREM SessionHistoryKept == SessionSpec => SavedHistoryKept
<1>1. SavedInv /\ [SessionNext]_sessionVars => [KeptStep]_sessionVars
  BY SavedStep
<1>2. SessionSpec => [][KeptStep]_sessionVars
  BY <1>1, SessionSaved, PTL DEF SessionSpec
<1>3. QED
  BY <1>2, PTL DEF SavedHistoryKept, KeptStep

-----------------------------------------------------------------------------
(* Histories made of turns.                                                *)

\* No message twice, by position.
LEMMA InjectiveIs ==
  ASSUME NEW ms \in Seq(Messages)
  PROVE  IsInjective(ms) <=> \A i, j \in 1 .. Len(ms) : ms[i] = ms[j] => i = j
<1>1. DOMAIN ms = 1 .. Len(ms)
  BY LenProperties
<1>2. QED
  BY <1>1 DEF IsInjective

\* The turns of messages are numbered.
LEMMA MessageTurns ==
  ASSUME NEW x \in Messages
  PROVE  x.turn \in Nat
<1>1. x.turn \in Turns \/ x.turn = 0
  <2>1. x.turn \in Turns \cup {0}
    BY DEF Messages
  <2>2. QED
    BY <2>1
<1>2. \A t \in Turns : t \in Nat
  BY SessionBounds
<1>3. CASE x.turn \in Turns
  BY <1>2, <1>3, Zenon
<1>4. CASE x.turn = 0
  BY <1>4
<1>5. QED
  BY <1>1, <1>3, <1>4, Zenon

\* A turn added to a history of earlier turns.
LEMMA TurnAdded ==
  ASSUME NEW ms \in Seq(Messages), NEW more \in Seq(Messages), NEW t \in Turns,
         WellFormed(ms), Before(ms, t), ClosedLog(more, t)
  PROVE  WellFormed(ms \o more) /\ Before(ms \o more, t + 1)
<1> DEFINE all == ms \o more
           m == Len(ms)
           n == Len(more)
<1>1. /\ all \in Seq(Messages) /\ Len(all) = m + n /\ m \in Nat /\ n \in Nat
      /\ \A i \in 1 .. m : all[i] = ms[i]
      /\ \A i \in 1 .. n : all[m + i] = more[i]
  BY ConcatIs, LenProperties
<1>2. t \in Nat
  BY SessionBounds
<1>3. /\ \A i \in 1 .. m : ms[i].turn < t /\ ms[i].turn \in Nat
      /\ \A i \in 1 .. n : more[i].turn = t
  <2>1. \A i \in 1 .. m : ms[i] \in Messages
    BY ElementOfSeq
  <2>2. \A x \in Messages : x.turn \in Nat
    BY MessageTurns
  <2>3. QED
    BY <2>1, <2>2 DEF Before, ClosedLog, OfTurn
<1>4. \A i \in 1 .. m + n : i \in 1 .. m \/ \E k \in 1 .. n : i = m + k
  <2>1. ASSUME NEW i \in 1 .. m + n, ~ (i \in 1 .. m) PROVE i - m \in 1 .. n /\ i = m + (i - m)
    BY <1>1, <2>1
  <2>2. QED
    BY <2>1
<1>5. /\ \A i, j \in 1 .. m : ms[i] = ms[j] => i = j
      /\ \A i, j \in 1 .. n : more[i] = more[j] => i = j
  BY InjectiveIs DEF WellFormed, ClosedLog
<1>6. /\ \A i \in 1 .. m :
           /\ ms[i].text = "call" => i < m /\ ms[i + 1].role = "tool" /\ IsCallOf(ms[i], ms[i + 1])
           /\ ms[i].role = "tool" => i > 1 /\ IsCallOf(ms[i - 1], ms[i])
      /\ \A i, j \in 1 .. m : i < j => ms[i].turn <= ms[j].turn
      /\ \A i \in 1 .. n :
           /\ more[i].text = "call" => i < n /\ more[i + 1].role = "tool" /\ IsCallOf(more[i], more[i + 1])
           /\ more[i].role = "tool" => i > 1 /\ IsCallOf(more[i - 1], more[i])
  BY DEF WellFormed, ClosedLog, Paired, InOrder
<1> HIDE DEF all, m, n
<1>7. \A i \in 1 .. m + n : all[i].turn < t + 1
  <2>1. ASSUME NEW i \in 1 .. m PROVE all[i].turn < t + 1
    <3>1. all[i].turn < t /\ all[i].turn \in Nat
      BY <1>1, <1>3
    <3>2. QED
      BY <1>2, <3>1
  <2>2. ASSUME NEW i \in 1 .. n PROVE all[m + i].turn < t + 1
    <3>1. all[m + i].turn = t
      BY <1>1, <1>3
    <3>2. QED
      BY <1>2, <3>1
  <2>3. QED
    BY <1>4, <2>1, <2>2
<1>8. IsInjective(all)
  <2>1. ASSUME NEW i \in 1 .. m + n, NEW j \in 1 .. m + n, all[i] = all[j] PROVE i = j
    <3>1. CASE i \in 1 .. m /\ j \in 1 .. m
      BY <1>1, <1>5, <2>1, <3>1
    <3>2. ASSUME NEW a \in 1 .. n, NEW b \in 1 .. n, i = m + a, j = m + b PROVE i = j
      <4>1. all[m + a] = more[a] /\ all[m + b] = more[b] /\ all[m + a] = all[m + b]
        BY <1>1, <2>1, <3>2
      <4>2. a = b
        BY <1>5, <4>1
      <4>3. QED
        BY <3>2, <4>2
    <3>3. ASSUME NEW a \in 1 .. m, NEW b \in 1 .. n PROVE all[a] # all[m + b]
      <4>1. all[a].turn < t /\ all[m + b].turn = t
        BY <1>1, <1>3
      <4>2. QED
        BY <1>2, <4>1
    <3>4. QED
      BY <1>4, <2>1, <3>1, <3>2, <3>3
  <2>2. QED
    BY <1>1, <2>1, InjectiveIs
<1>9. Paired(all)
  <2>1. ASSUME NEW i \in 1 .. m
        PROVE  /\ all[i].text = "call" =>
                    i < m + n /\ all[i + 1].role = "tool" /\ IsCallOf(all[i], all[i + 1])
               /\ all[i].role = "tool" => i > 1 /\ IsCallOf(all[i - 1], all[i])
    <3>1. ASSUME all[i].text = "call"
          PROVE  i < m + n /\ all[i + 1].role = "tool" /\ IsCallOf(all[i], all[i + 1])
      <4>1. i < m /\ ms[i + 1].role = "tool" /\ IsCallOf(ms[i], ms[i + 1])
        BY <1>1, <1>6, <3>1
      <4>2. i + 1 \in 1 .. m /\ i < m + n
        BY <1>1, <4>1
      <4>3. QED
        BY <1>1, <4>1, <4>2
    <3>2. ASSUME all[i].role = "tool" PROVE i > 1 /\ IsCallOf(all[i - 1], all[i])
      <4>1. i > 1 /\ IsCallOf(ms[i - 1], ms[i])
        BY <1>1, <1>6, <3>2
      <4>2. i - 1 \in 1 .. m
        BY <1>1, <4>1
      <4>3. QED
        BY <1>1, <4>1, <4>2
    <3>3. QED
      BY <3>1, <3>2
  <2>2. ASSUME NEW k \in 1 .. n
        PROVE  /\ all[m + k].text = "call" =>
                    m + k < m + n /\ all[(m + k) + 1].role = "tool" /\ IsCallOf(all[m + k], all[(m + k) + 1])
               /\ all[m + k].role = "tool" => m + k > 1 /\ IsCallOf(all[(m + k) - 1], all[m + k])
    <3>1. ASSUME all[m + k].text = "call"
          PROVE  m + k < m + n /\ all[(m + k) + 1].role = "tool" /\ IsCallOf(all[m + k], all[(m + k) + 1])
      <4>1. k < n /\ more[k + 1].role = "tool" /\ IsCallOf(more[k], more[k + 1])
        BY <1>1, <1>6, <3>1
      <4>2. k + 1 \in 1 .. n /\ m + k < m + n /\ m + (k + 1) = (m + k) + 1
        <5>1. m \in Nat /\ n \in Nat /\ k < n
          BY <1>1, <4>1
        <5>2. QED
          BY <5>1
      <4>3. all[m + k] = more[k] /\ all[(m + k) + 1] = more[k + 1]
        <5>1. all[m + k] = more[k] /\ all[m + (k + 1)] = more[k + 1]
          BY <1>1, <4>2
        <5>2. QED
          BY <4>2, <5>1
      <4>4. QED
        BY <4>1, <4>2, <4>3
    <3>2. ASSUME all[m + k].role = "tool" PROVE m + k > 1 /\ IsCallOf(all[(m + k) - 1], all[m + k])
      <4>1. k > 1 /\ IsCallOf(more[k - 1], more[k])
        BY <1>1, <1>6, <3>2
      <4>2. k - 1 \in 1 .. n /\ m + k > 1 /\ m + (k - 1) = (m + k) - 1
        <5>1. m \in Nat /\ n \in Nat /\ k > 1
          BY <1>1, <4>1
        <5>2. QED
          BY <5>1
      <4>3. all[m + k] = more[k] /\ all[(m + k) - 1] = more[k - 1]
        BY <1>1, <4>2
      <4>4. QED
        BY <4>1, <4>2, <4>3
    <3>3. QED
      BY <3>1, <3>2
  <2>3. ASSUME NEW i \in 1 .. m + n
        PROVE  /\ all[i].text = "call" =>
                    i < m + n /\ all[i + 1].role = "tool" /\ IsCallOf(all[i], all[i + 1])
               /\ all[i].role = "tool" => i > 1 /\ IsCallOf(all[i - 1], all[i])
    BY <1>4, <2>1, <2>2
  <2>4. QED
    BY <1>1, <2>3 DEF Paired
<1>10. InOrder(all)
  <2>1. ASSUME NEW i \in 1 .. m + n, NEW j \in 1 .. m + n, i < j PROVE all[i].turn <= all[j].turn
    <3>1. CASE i \in 1 .. m /\ j \in 1 .. m
      BY <1>1, <1>6, <2>1, <3>1
    <3>2. ASSUME NEW k \in 1 .. n, j = m + k PROVE all[i].turn <= all[j].turn
      <4>1. all[j].turn = t
        BY <1>1, <1>3, <3>2
      <4>2. all[i].turn <= t
        <5>1. \A a \in 1 .. m : all[a].turn < t /\ all[a].turn \in Nat
          BY <1>1, <1>3
        <5>2. \A a \in 1 .. n : all[m + a].turn = t
          BY <1>1, <1>3
        <5>3. QED
          BY <1>2, <1>4, <5>1, <5>2
      <4>3. QED
        BY <4>1, <4>2
    <3>3. CASE ~ (i \in 1 .. m) /\ j \in 1 .. m
      BY <1>1, <2>1, <3>3
    <3>4. QED
      BY <1>4, <3>1, <3>2, <3>3
  <2>2. QED
    BY <1>1, <2>1 DEF InOrder
<1>11. QED
  BY <1>1, <1>7, <1>8, <1>9, <1>10 DEF WellFormed, Before, all

\* A message more at the end of a log.
LEMMA AppendIs ==
  ASSUME NEW ms \in Seq(Messages), NEW m \in Messages
  PROVE  /\ Append(ms, m) \in Seq(Messages) /\ Len(Append(ms, m)) = Len(ms) + 1 /\ Len(ms) \in Nat
         /\ \A i \in 1 .. Len(ms) : Append(ms, m)[i] = ms[i]
         /\ Append(ms, m)[Len(ms) + 1] = m
         /\ \A i \in 1 .. Len(ms) + 1 : i \in 1 .. Len(ms) \/ i = Len(ms) + 1
         /\ Append(ms, m) # <<>> /\ Last(Append(ms, m)) = m
         /\ Front(Append(ms, m)) = ms
<1>1. Len(ms) \in Nat
  BY LenProperties
<1>2. /\ Append(ms, m) \in Seq(Messages) /\ Append(ms, m) # <<>> /\ Len(Append(ms, m)) = Len(ms) + 1
      /\ \A i \in 1 .. Len(ms) : Append(ms, m)[i] = ms[i]
      /\ Append(ms, m)[Len(ms) + 1] = m
  BY AppendProperties
<1> DEFINE all == Append(ms, m)
           n == Len(ms)
<1>3. Front(all) = ms
  <2>1. n \in Nat /\ Len(all) = n + 1 /\ all \in Seq(Messages) /\ \A i \in 1 .. n : all[i] = ms[i]
    BY <1>1, <1>2
  <2>2. (n + 1) - 1 = n /\ 1 \in Nat /\ 1 <= n + 1 /\ n <= Len(all) /\ n + 1 - 1 = n /\ 1 >= 1
    BY <2>1
  <2>3. Front(all) = SubSeq(all, 1, n)
    BY <2>1, <2>2 DEF Front
  <2> DEFINE one == 1
  <2>4. one \in Nat /\ one >= 1 /\ one <= n + 1 /\ n + 1 - one = n /\ \A i \in 1 .. n : one + i - 1 = i
    BY <2>1
  <2>5. Front(all) = SubSeq(all, one, n)
    BY <2>3
  <2> HIDE DEF one, all
  <2>6. /\ SubSeq(all, one, n) \in Seq(Messages) /\ Len(SubSeq(all, one, n)) = n
        /\ \A i \in 1 .. n : SubSeq(all, one, n)[i] = all[i]
    <3>1. /\ SubSeq(all, one, n) \in Seq(Messages) /\ Len(SubSeq(all, one, n)) = n + 1 - one
          /\ \A i \in 1 .. n + 1 - one : SubSeq(all, one, n)[i] = all[one + i - 1]
      BY <2>1, <2>2, <2>4, PartOfSeq
    <3>2. QED
      BY <2>4, <3>1
  <2>7. QED
    BY <2>1, <2>5, <2>6, SeqEqual
<1>4. \A i \in 1 .. n + 1 : i \in 1 .. n \/ i = n + 1
  BY <1>1
<1>5. QED
  BY <1>1, <1>2, <1>3, <1>4 DEF Last

\* A log of steps is of its turn.
LEMMA OpenIsClosed ==
  ASSUME NEW ms \in Seq(Messages), NEW t \in Turns, NEW n \in Nat, OpenLog(ms, t, n)
  PROVE  ClosedLog(ms, t)
<1>1. Request(t).turn = t /\ \A k : Call(t, k).turn = t /\ Result(t, k).turn = t
  BY DEF Request, Call, Result, Message
<1>2. QED
  BY <1>1 DEF OpenLog, ClosedLog, TurnSteps, OfTurn

\* An iteration more changes nothing in it.
LEMMA OpenLater ==
  ASSUME NEW ms \in Seq(Messages), NEW t \in Turns, NEW n \in Nat, OpenLog(ms, t, n)
  PROVE  OpenLog(ms, t, n + 1)
<1>1. \A k \in 1 .. n : k \in 1 .. n + 1
  OBVIOUS
<1>2. QED
  BY <1>1 DEF OpenLog, TurnSteps

\* The final message closes it.
LEMMA FinalCloses ==
  ASSUME NEW ms \in Seq(Messages), NEW t \in Turns, NEW n \in Nat, OpenLog(ms, t, n)
  PROVE  ClosedLog(Append(ms, Final(t)), t)
<1> DEFINE m == Final(t)
           all == Append(ms, m)
           l == Len(ms)
<1>1. m \in Messages
  BY MessageTypes
<1>2. /\ m.turn = t /\ m.text = "final" /\ m.role = "assistant"
      /\ Request(t).text # "final" /\ \A k : Call(t, k).text # "final" /\ Result(t, k).text # "final"
  BY DEF Final, Request, Call, Result, Message
<1>3. ClosedLog(ms, t)
  BY OpenIsClosed
<1>4. \A i \in 1 .. Len(ms) : ms[i] # m
  BY <1>2 DEF OpenLog, TurnSteps
<1> HIDE DEF m
<1>5. /\ all \in Seq(Messages) /\ Len(all) = l + 1 /\ l \in Nat
      /\ \A i \in 1 .. l : all[i] = ms[i]
      /\ all[l + 1] = m
      /\ \A i \in 1 .. l + 1 : i \in 1 .. l \/ i = l + 1
  BY <1>1, AppendIs
<1>6. /\ \A i \in 1 .. l : ms[i].turn = t
      /\ \A i, j \in 1 .. l : ms[i] = ms[j] => i = j
      /\ \A i \in 1 .. l :
           /\ ms[i].text = "call" => i < l /\ ms[i + 1].role = "tool" /\ IsCallOf(ms[i], ms[i + 1])
           /\ ms[i].role = "tool" => i > 1 /\ IsCallOf(ms[i - 1], ms[i])
  BY <1>3, InjectiveIs DEF ClosedLog, OfTurn, Paired
<1>7. \A i \in 1 .. l : (i < l => i + 1 \in 1 .. l) /\ (i > 1 => i - 1 \in 1 .. l) /\ i < l + 1
  BY <1>5
<1>8. \A i \in 1 .. l : ms[i] # m
  BY <1>4
<1> HIDE DEF all, l
<1>9. OfTurn(all, t)
  BY <1>2, <1>5, <1>6 DEF OfTurn
<1>10. IsInjective(all)
  <2>1. \A i, j \in 1 .. l + 1 : all[i] = all[j] => i = j
    BY <1>5, <1>6, <1>8
  <2>2. QED
    BY <1>5, <2>1, InjectiveIs
<1>11. Paired(all)
  <2>1. ASSUME NEW i \in 1 .. l
        PROVE  /\ all[i].text = "call" =>
                    i < l + 1 /\ all[i + 1].role = "tool" /\ IsCallOf(all[i], all[i + 1])
               /\ all[i].role = "tool" => i > 1 /\ IsCallOf(all[i - 1], all[i])
    BY <1>5, <1>6, <1>7
  <2>2. all[l + 1].text # "call" /\ all[l + 1].role # "tool"
    BY <1>2, <1>5
  <2>3. \A i \in 1 .. l + 1 :
          /\ all[i].text = "call" =>
                i < l + 1 /\ all[i + 1].role = "tool" /\ IsCallOf(all[i], all[i + 1])
          /\ all[i].role = "tool" => i > 1 /\ IsCallOf(all[i - 1], all[i])
    BY <1>5, <2>1, <2>2
  <2>4. QED
    BY <1>5, <2>3 DEF Paired
<1>12. QED
  BY <1>9, <1>10, <1>11 DEF ClosedLog, all, m

\* A call and its result make it longer by an iteration.
LEMMA CallAndResult ==
  ASSUME NEW ms \in Seq(Messages), NEW t \in Turns, NEW n \in 0 .. MaxIterations, n + 1 \in 0 .. MaxIterations,
         OpenLog(ms, t, n)
  PROVE  OpenLog(Append(Append(ms, Call(t, n + 1)), Result(t, n + 1)), t, n + 1)
<1> DEFINE c == Call(t, n + 1)
           m == Result(t, n + 1)
           some == Append(ms, c)
           all == Append(some, m)
           l == Len(ms)
<1>1. c \in Messages /\ m \in Messages /\ n \in Nat
  BY MessageTypes, SessionBounds
<1>2. /\ c.text = "call" /\ c.role = "assistant" /\ m.text = "result" /\ m.role = "tool" /\ IsCallOf(c, m) /\ c # m
      /\ Request(t).text \notin {"call", "result"}
      /\ \A k : Call(t, k) # m /\ Result(t, k) # c
      /\ \A k : Call(t, k).iter = k /\ Result(t, k).iter = k
      /\ c.iter = n + 1 /\ m.iter = n + 1
  BY DEF Request, Call, Result, Message, IsCallOf
<1>3. \A i \in 1 .. Len(ms) : ms[i] # c /\ ms[i] # m
  <2>1. ASSUME NEW i \in 1 .. Len(ms) PROVE ms[i] # c /\ ms[i] # m
    <3>1. CASE ms[i] = Request(t)
      BY <1>2, <3>1
    <3>2. ASSUME NEW k \in 1 .. n, ms[i] = Call(t, k) \/ ms[i] = Result(t, k) PROVE ms[i] # c /\ ms[i] # m
      <4>1. ms[i].iter = k
        BY <1>2, <3>2
      <4>2. k # n + 1
        BY <1>1
      <4>3. QED
        BY <1>2, <4>1, <4>2
    <3>3. QED
      BY <3>1, <3>2 DEF OpenLog, TurnSteps
  <2>2. QED
    BY <2>1
<1>4. \A i \in 1 .. Len(ms) :
        ms[i] = Request(t) \/ \E k \in 1 .. n + 1 : ms[i] = Call(t, k) \/ ms[i] = Result(t, k)
  <2>1. OpenLog(ms, t, n + 1)
    BY <1>1, OpenLater
  <2>2. QED
    BY <2>1 DEF OpenLog, TurnSteps
<1>5. n + 1 \in 1 .. n + 1 /\ c = Call(t, n + 1) /\ m = Result(t, n + 1)
  BY <1>1
<1>6. /\ \A i, j \in 1 .. Len(ms) : ms[i] = ms[j] => i = j
      /\ \A i \in 1 .. Len(ms) :
           /\ ms[i].text = "call" => i < Len(ms) /\ ms[i + 1].role = "tool" /\ IsCallOf(ms[i], ms[i + 1])
           /\ ms[i].role = "tool" => i > 1 /\ IsCallOf(ms[i - 1], ms[i])
  BY InjectiveIs DEF OpenLog, Paired
<1> HIDE DEF c, m
<1>7. /\ some \in Seq(Messages) /\ Len(some) = l + 1 /\ l \in Nat
      /\ \A i \in 1 .. l : some[i] = ms[i]
      /\ some[l + 1] = c
      /\ \A i \in 1 .. l + 1 : i \in 1 .. l \/ i = l + 1
  BY <1>1, AppendIs
<1>8. /\ all \in Seq(Messages) /\ Len(all) = Len(some) + 1
      /\ \A i \in 1 .. Len(some) : all[i] = some[i]
      /\ all[Len(some) + 1] = m
  <2> HIDE DEF some
  <2>1. QED
    BY <1>1, <1>7, AppendIs
<1> DEFINE p == l + 1
           q == l + 2
<1>9. /\ q \in Nat /\ p + 1 = q /\ q - 1 = p /\ p \in 1 .. q /\ p < q /\ q > 1 /\ p \in Nat /\ q # p
      /\ \A i \in 1 .. q : i \in 1 .. l \/ i = p \/ i = q
      /\ \A i \in 1 .. l : i # p /\ i # q /\ i \in 1 .. p /\ i < q
                           /\ (i < l => i + 1 \in 1 .. l) /\ (i > 1 => i - 1 \in 1 .. l)
      /\ p \in 1 .. p
  BY <1>7
<1>10. /\ Len(all) = q
       /\ \A i \in 1 .. l : all[i] = ms[i]
       /\ all[p] = c /\ all[q] = m
  <2>1. Len(some) = p /\ Len(some) + 1 = q
    BY <1>7
  <2> HIDE DEF p, q, some, all
  <2>2. QED
    <3>1. some[p] = c
      BY <1>7 DEF p
    <3>2. QED
      BY <1>7, <1>8, <1>9, <2>1, <3>1
<1> HIDE DEF p, q, some, l
<1>11. TurnSteps(all, t, n + 1)
  <2>1. \A i \in 1 .. l :
          all[i] = Request(t) \/ \E k \in 1 .. n + 1 : all[i] = Call(t, k) \/ all[i] = Result(t, k)
    BY <1>4, <1>10 DEF l
  <2>2. \A i \in 1 .. q :
          all[i] = Request(t) \/ \E k \in 1 .. n + 1 : all[i] = Call(t, k) \/ all[i] = Result(t, k)
    BY <1>5, <1>9, <1>10, <2>1
  <2> HIDE DEF all
  <2>3. QED
    BY <1>10, <2>2 DEF TurnSteps
<1>12. IsInjective(all)
  <2>1. \A i, j \in 1 .. l : all[i] = all[j] => i = j
    BY <1>6, <1>10 DEF l
  <2>2. \A i \in 1 .. l : all[i] # c /\ all[i] # m
    BY <1>3, <1>10 DEF l
  <2> HIDE DEF all
  <2>3. \A i, j \in 1 .. q : all[i] = all[j] => i = j
    BY <1>2, <1>9, <1>10, <2>1, <2>2
  <2>4. QED
    BY <1>8, <1>10, <2>3, InjectiveIs
<1>13. Paired(all)
  <2>1. ASSUME NEW i \in 1 .. l
        PROVE  /\ all[i].text = "call" =>
                    i < q /\ all[i + 1].role = "tool" /\ IsCallOf(all[i], all[i + 1])
               /\ all[i].role = "tool" => i > 1 /\ IsCallOf(all[i - 1], all[i])
    <3>1. /\ ms[i].text = "call" => i < l /\ ms[i + 1].role = "tool" /\ IsCallOf(ms[i], ms[i + 1])
          /\ ms[i].role = "tool" => i > 1 /\ IsCallOf(ms[i - 1], ms[i])
      BY <1>6 DEF l
    <3> HIDE DEF all
    <3>2. QED
      BY <1>9, <1>10, <3>1
  <2> HIDE DEF all
  <2>2. all[p].role # "tool" /\ p < q /\ all[p + 1].role = "tool" /\ IsCallOf(all[p], all[p + 1])
    BY <1>2, <1>9, <1>10
  <2>3. all[q].text # "call" /\ q > 1 /\ IsCallOf(all[q - 1], all[q])
    BY <1>2, <1>9, <1>10
  <2>4. \A i \in 1 .. q :
          /\ all[i].text = "call" =>
                i < q /\ all[i + 1].role = "tool" /\ IsCallOf(all[i], all[i + 1])
          /\ all[i].role = "tool" => i > 1 /\ IsCallOf(all[i - 1], all[i])
    BY <1>9, <2>1, <2>2, <2>3
  <2>5. QED
    BY <1>10, <2>4 DEF Paired
<1>14. QED
  BY <1>11, <1>12, <1>13 DEF OpenLog, all, some, c, m

\* What a turn starts with: nothing, or its request.
LEMMA LogStarts ==
  ASSUME NEW t \in Prompts
  PROVE  OpenLog(<<>>, t, 0) /\ OpenLog(Append(<<>>, Request(t)), t, 0) /\ Request(t).role = "user"
<1> DEFINE m == Request(t)
           one == Append(<<>>, m)
<1>1. m \in Messages /\ <<>> \in Seq(Messages) /\ Len(<<>>) = 0
  BY MessageTypes, SessionBounds, EmptySeq
<1>2. m.role = "user" /\ m.text = "prompt"
  BY DEF Request, Message
<1> HIDE DEF m
<1>3. one \in Seq(Messages) /\ Len(one) = 1 /\ one[1] = m
  <2> DEFINE none == <<>>
  <2>1. none \in Seq(Messages) /\ Len(none) = 0 /\ one = Append(none, m)
    BY <1>1
  <2> HIDE DEF none, one
  <2>2. Append(none, m) \in Seq(Messages) /\ Len(Append(none, m)) = Len(none) + 1 /\ Append(none, m)[Len(none) + 1] = m
    BY <1>1, <2>1, AppendIs
  <2>3. QED
    BY <2>1, <2>2
<1>4. OpenLog(<<>>, t, 0)
  <2> DEFINE none == <<>>
  <2>1. none \in Seq(Messages) /\ 1 .. Len(none) = {}
    BY <1>1
  <2> HIDE DEF none
  <2>2. IsInjective(none)
    BY <2>1, InjectiveIs
  <2>3. TurnSteps(none, t, 0) /\ Paired(none)
    BY <2>1 DEF TurnSteps, Paired
  <2>4. OpenLog(none, t, 0)
    BY <2>2, <2>3 DEF OpenLog
  <2>5. QED
    BY <2>4 DEF none
<1> HIDE DEF one
<1>5. OpenLog(one, t, 0)
  <2>1. \A i \in 1 .. 1 : i = 1
    OBVIOUS
  <2>2. IsInjective(one)
    <3>1. \A i, j \in 1 .. Len(one) : i = j
      BY <1>3
    <3>2. QED
      BY <1>3, <3>1, InjectiveIs
  <2>3. TurnSteps(one, t, 0)
    <3>1. \A i \in 1 .. 1 : one[i] = Request(t)
      BY <1>3, <2>1 DEF m
    <3>2. QED
      BY <1>3, <3>1 DEF TurnSteps
  <2>4. Paired(one)
    <3>1. \A i \in 1 .. 1 : one[i].text # "call" /\ one[i].role # "tool"
      BY <1>2, <1>3, <2>1
    <3>2. QED
      BY <1>3, <3>1 DEF Paired
  <2>5. QED
    BY <2>2, <2>3, <2>4 DEF OpenLog
<1>6. QED
  BY <1>2, <1>4, <1>5 DEF one, m

\* What a sequence contains any longer one contains.
LEMMA ContainsIs ==
  ASSUME NEW u \in Seq(Messages), NEW v \in Seq(Messages), NEW m
  PROVE  /\ Contains(u, m) /\ IsPrefix(u, v) => Contains(v, m)
         /\ Contains(u, m) \/ Contains(v, m) => Contains(u \o v, m)
<1>1. Len(u) \in Nat /\ Len(v) \in Nat
  BY LenProperties
<1>2. ASSUME Contains(u, m), IsPrefix(u, v) PROVE Contains(v, m)
  <2>1. Len(u) <= Len(v) /\ \A i \in 1 .. Len(u) : u[i] = v[i]
    BY <1>2, PrefixIs
  <2>2. PICK i \in 1 .. Len(u) : u[i] = m
    BY <1>2 DEF Contains
  <2>3. i \in 1 .. Len(v) /\ v[i] = m
    BY <1>1, <2>1, <2>2
  <2>4. QED
    BY <2>3 DEF Contains
<1>3. /\ Len(u \o v) = Len(u) + Len(v)
      /\ \A i \in 1 .. Len(u) : (u \o v)[i] = u[i]
      /\ \A i \in 1 .. Len(v) : (u \o v)[Len(u) + i] = v[i]
  BY ConcatIs
<1>4. ASSUME Contains(u, m) PROVE Contains(u \o v, m)
  <2>1. PICK i \in 1 .. Len(u) : u[i] = m
    BY <1>4 DEF Contains
  <2>2. i \in 1 .. Len(u \o v) /\ (u \o v)[i] = m
    BY <1>1, <1>3, <2>1
  <2>3. QED
    BY <2>2 DEF Contains
<1>5. ASSUME Contains(v, m) PROVE Contains(u \o v, m)
  <2>1. PICK i \in 1 .. Len(v) : v[i] = m
    BY <1>5 DEF Contains
  <2> DEFINE j == Len(u) + i
  <2>2. j \in 1 .. Len(u) + Len(v)
    BY <1>1
  <2>3. j \in 1 .. Len(u \o v) /\ (u \o v)[j] = m
    BY <1>3, <2>1, <2>2
  <2> HIDE DEF j
  <2>4. QED
    BY <2>3 DEF Contains
<1>6. QED
  BY <1>2, <1>4, <1>5

LEMMA AppendContains ==
  ASSUME NEW u \in Seq(Messages), NEW m \in Messages
  PROVE  Contains(Append(u, m), m) /\ \A x : Contains(u, x) => Contains(Append(u, m), x)
<1> DEFINE all == Append(u, m)
           n == Len(u)
<1>1. /\ Len(all) = n + 1 /\ n \in Nat /\ \A i \in 1 .. n : all[i] = u[i]
      /\ all[n + 1] = m
  BY AppendIs
<1>2. n + 1 \in 1 .. n + 1 /\ \A i \in 1 .. n : i \in 1 .. n + 1
  BY <1>1
<1> HIDE DEF all
<1>3. Contains(all, m)
  BY <1>1, <1>2 DEF Contains
<1>4. ASSUME NEW x, Contains(u, x) PROVE Contains(all, x)
  BY <1>1, <1>2, <1>4 DEF Contains
<1>5. QED
  BY <1>3, <1>4 DEF all

\* A message alone, a call with its result.
LEMMA ShortLogs ==
  ASSUME NEW ms \in Seq(Messages), NEW t \in Turns,
         \/ Len(ms) = 1 /\ ms[1] = Final(t)
         \/ /\ Len(ms) = 2
            /\ \E i \in 1 .. MaxIterations : ms[1] = Call(t, i) /\ (ms[2] = Result(t, i) \/ ms[2] = Interrupted(t, i))
  PROVE  ClosedLog(ms, t)
<1>1. CASE Len(ms) = 1 /\ ms[1] = Final(t)
  <2>1. ms[1].turn = t /\ ms[1].text # "call" /\ ms[1].role # "tool"
    BY <1>1 DEF Final, Message
  <2>2. Len(ms) = 1 /\ \A i \in 1 .. 1 : i = 1
    BY <1>1
  <2>3. OfTurn(ms, t)
    BY <2>1, <2>2 DEF OfTurn
  <2>4. Paired(ms)
    BY <2>1, <2>2 DEF Paired
  <2>5. IsInjective(ms)
    <3>1. \A i, j \in 1 .. Len(ms) : ms[i] = ms[j] => i = j
      BY <2>2
    <3>2. QED
      BY <3>1, InjectiveIs
  <2>6. QED
    BY <2>3, <2>4, <2>5 DEF ClosedLog
<1>2. ASSUME Len(ms) = 2,
             NEW k \in 1 .. MaxIterations, ms[1] = Call(t, k), ms[2] = Result(t, k) \/ ms[2] = Interrupted(t, k)
      PROVE  ClosedLog(ms, t)
  <2>1. /\ ms[1].turn = t /\ ms[1].role # "tool" /\ ms[2].turn = t /\ ms[2].text # "call" /\ ms[2].role = "tool"
        /\ IsCallOf(ms[1], ms[2]) /\ ms[1] # ms[2]
    BY <1>2 DEF Call, Result, Interrupted, Message, IsCallOf
  <2>2. Len(ms) = 2 /\ \A i \in 1 .. 2 : i = 1 \/ i = 2
    BY <1>2
  <2>3. OfTurn(ms, t)
    BY <2>1, <2>2 DEF OfTurn
  <2>4. Paired(ms)
    <3>1. \A i \in 1 .. Len(ms) :
            /\ ms[i].text = "call" =>
                 i < Len(ms) /\ ms[i + 1].role = "tool" /\ IsCallOf(ms[i], ms[i + 1])
            /\ ms[i].role = "tool" => i > 1 /\ IsCallOf(ms[i - 1], ms[i])
      <4>1. 1 < 2 /\ 1 + 1 = 2 /\ 2 > 1 /\ 2 - 1 = 1
        OBVIOUS
      <4>2. QED
        BY <2>1, <2>2, <4>1
    <3>2. QED
      BY <3>1 DEF Paired
  <2>5. IsInjective(ms)
    <3>1. \A i, j \in 1 .. Len(ms) : ms[i] = ms[j] => i = j
      BY <2>1, <2>2
    <3>2. QED
      BY <3>1, InjectiveIs
  <2>6. QED
    BY <2>3, <2>4, <2>5 DEF ClosedLog
<1>3. QED
  BY <1>1, <1>2

\* What a turn's checkpoint stands for is a turn of its own.
LEMMA MaterialisedTurn ==
  ASSUME NEW t \in Turns, NEW c, StepCheckpoint(c, t)
  PROVE  /\ c \in SessionCheckpoints /\ Len(c.completed) + Len(c.pending) <= 1
         /\ c # NoCheckpoint /\ c.message.turn = t /\ c.message # NoMessage
         /\ Materialised(c) \in Seq(Messages) /\ Len(Materialised(c)) \in 1 .. 2
         /\ Materialised(c)[1] = c.message
         /\ ClosedLog(Materialised(c), t)
<1>1. t # 0 /\ NoMessage.turn = 0 /\ NoCheckpoint.message = NoMessage
  BY SessionBounds DEF NoMessage, NoCheckpoint
<1>2. <<>> \in Seq(Messages) /\ <<>> \in Seq(1 .. MaxIterations) /\ Len(<<>>) = 0
  BY EmptySeq
<1>3. Final(t) \in Messages /\ Final(t).turn = t
  BY MessageTypes DEF Final, Message
<1>4. CASE c = [message |-> Final(t), completed |-> <<>>, pending |-> <<>>]
  <2>1. c.message = Final(t) /\ Len(c.completed) = 0 /\ Len(c.pending) = 0
    BY <1>2, <1>4
  <2>2. c \in SessionCheckpoints
    BY <1>2, <1>3, <1>4 DEF SessionCheckpoints
  <2>3. /\ Materialised(c) \in Seq(Messages) /\ Len(Materialised(c)) = 1
        /\ Materialised(c)[1] = Final(t)
    <3>1. Len(c.completed) + Len(c.pending) <= 1 /\ 1 + Len(c.completed) + Len(c.pending) = 1
      BY <2>1
    <3>2. /\ Materialised(c) \in Seq(Messages) /\ Len(Materialised(c)) = 1 + Len(c.completed) + Len(c.pending)
          /\ Materialised(c)[1] = c.message
      BY <2>2, <3>1, MaterialisedIs
    <3>3. QED
      BY <2>1, <3>1, <3>2
  <2>4. ClosedLog(Materialised(c), t)
    BY <2>3, ShortLogs
  <2>5. c.message # NoMessage /\ c # NoCheckpoint
    BY <1>1, <1>3, <2>1
  <2>6. QED
    BY <1>3, <2>1, <2>2, <2>3, <2>4, <2>5
<1>5. ASSUME NEW i \in 1 .. MaxIterations, c = [message |-> Call(t, i), completed |-> <<>>, pending |-> <<i>>]
      PROVE  /\ c \in SessionCheckpoints /\ Len(c.completed) = 0 /\ Len(c.pending) = 1 /\ c.pending[1] = i
             /\ c.message = Call(t, i)
  <2>1. Call(t, i) \in Messages
    BY MessageTypes, SessionBounds
  <2>2. <<i>> \in Seq(1 .. MaxIterations) /\ Len(<<i>>) = 1 /\ <<i>>[1] = i
    OBVIOUS
  <2>3. QED
    BY <1>2, <1>5, <2>1, <2>2 DEF SessionCheckpoints
<1>6. ASSUME NEW i \in 1 .. MaxIterations, c = [message |-> Call(t, i), completed |-> <<Result(t, i)>>, pending |-> <<>>]
      PROVE  /\ c \in SessionCheckpoints /\ Len(c.completed) = 1 /\ Len(c.pending) = 0 /\ c.completed[1] = Result(t, i)
             /\ c.message = Call(t, i)
  <2> DEFINE m == Result(t, i)
  <2>1. Call(t, i) \in Messages /\ m \in Messages
    BY MessageTypes, SessionBounds
  <2> HIDE DEF m
  <2>2. <<m>> \in Seq(Messages) /\ Len(<<m>>) = 1 /\ <<m>>[1] = m
    BY <2>1
  <2>3. c = [message |-> Call(t, i), completed |-> <<m>>, pending |-> <<>>]
    BY <1>6 DEF m
  <2>4. QED
    BY <1>2, <2>1, <2>2, <2>3 DEF SessionCheckpoints, m
<1>7. ASSUME NEW i \in 1 .. MaxIterations, c.message = Call(t, i), c \in SessionCheckpoints,
             \/ Len(c.completed) = 0 /\ Len(c.pending) = 1 /\ c.pending[1] = i
             \/ Len(c.completed) = 1 /\ Len(c.pending) = 0 /\ c.completed[1] = Result(t, i)
      PROVE  /\ Len(c.completed) + Len(c.pending) <= 1
             /\ c # NoCheckpoint /\ c.message.turn = t /\ c.message # NoMessage
             /\ Materialised(c) \in Seq(Messages) /\ Len(Materialised(c)) = 2
             /\ Materialised(c)[1] = c.message /\ ClosedLog(Materialised(c), t)
  <2>1. Call(t, i).turn = t
    BY DEF Call, Message
  <2>2. c.message.turn = t /\ c.message # NoMessage /\ c # NoCheckpoint
    BY <1>1, <1>7, <2>1
  <2>3. Len(c.completed) + Len(c.pending) <= 1 /\ 1 + Len(c.completed) + Len(c.pending) = 2
    <3> DEFINE nc == Len(c.completed)
               np == Len(c.pending)
    <3>1. (nc = 0 /\ np = 1) \/ (nc = 1 /\ np = 0)
      BY <1>7
    <3> HIDE DEF nc, np
    <3>2. nc + np <= 1 /\ 1 + nc + np = 2
      BY <3>1
    <3>3. QED
      BY <3>2 DEF nc, np
  <2>4. /\ Materialised(c) \in Seq(Messages)
        /\ Len(Materialised(c)) = 1 + Len(c.completed) + Len(c.pending)
        /\ Materialised(c)[1] = c.message
        /\ Len(c.completed) = 1 => Materialised(c)[2] = c.completed[1]
        /\ Len(c.pending) = 1 => Materialised(c)[2] = Interrupted(c.message.turn, c.pending[1])
    BY <1>7, <2>3, MaterialisedIs
  <2>5. Len(Materialised(c)) = 2
    BY <2>3, <2>4
  <2>6. Materialised(c)[2] = Result(t, i) \/ Materialised(c)[2] = Interrupted(t, i)
    BY <1>7, <2>2, <2>4
  <2>7. ClosedLog(Materialised(c), t)
    BY <1>7, <2>4, <2>5, <2>6, ShortLogs
  <2>8. QED
    BY <2>2, <2>3, <2>4, <2>5, <2>7
<1>8. ASSUME NEW i \in 1 .. MaxIterations, c.message = Call(t, i), c \in SessionCheckpoints,
             \/ Len(c.completed) = 0 /\ Len(c.pending) = 1 /\ c.pending[1] = i
             \/ Len(c.completed) = 1 /\ Len(c.pending) = 0 /\ c.completed[1] = Result(t, i)
      PROVE  /\ c \in SessionCheckpoints /\ Len(c.completed) + Len(c.pending) <= 1
             /\ c # NoCheckpoint /\ c.message.turn = t /\ c.message # NoMessage
             /\ Materialised(c) \in Seq(Messages) /\ Len(Materialised(c)) \in 1 .. 2
             /\ Materialised(c)[1] = c.message
             /\ ClosedLog(Materialised(c), t)
  <2>1. /\ Len(c.completed) + Len(c.pending) <= 1
        /\ c # NoCheckpoint /\ c.message.turn = t /\ c.message # NoMessage
        /\ Materialised(c) \in Seq(Messages) /\ Len(Materialised(c)) = 2
        /\ Materialised(c)[1] = c.message /\ ClosedLog(Materialised(c), t)
    BY <1>7, <1>8
  <2>2. 2 \in 1 .. 2
    OBVIOUS
  <2>3. QED
    BY <1>8, <2>1, <2>2
<1>9. QED
  BY <1>4, <1>5, <1>6, <1>8 DEF StepCheckpoint

\* Without subagents the session has none of the messages of a checkpoint yet.
LEMMA TurnRestored ==
  ASSUME NEW s, IsSaved(s), NEW t \in Turns, StepCheckpoint(s.checkpoint, t),
         WellFormed(s.messages), Before(s.messages, t)
  PROVE  /\ IsSaved(Restore(s)) /\ IsPrefix(s.messages, Restore(s).messages)
         /\ Restore(s).checkpoint = NoCheckpoint
         /\ WellFormed(Restore(s).messages) /\ Before(Restore(s).messages, t + 1)
         /\ Contains(Restore(s).messages, s.checkpoint.message)
<1> DEFINE ms == s.messages
           restored == Materialised(s.checkpoint)
           n == Overlap(ms, restored)
           more == SubSeq(restored, n + 1, Len(restored))
           u == SubSeq(restored, 1, n)
<1>1. /\ s.checkpoint # NoCheckpoint /\ restored \in Seq(Messages) /\ Len(restored) \in 1 .. 2
      /\ restored[1] = s.checkpoint.message /\ s.checkpoint.message.turn = t
      /\ ClosedLog(restored, t)
  BY MaterialisedTurn
<1>2. Overlaps(ms, restored, n) /\ Appended(s, Restore(s), more)
  BY <1>1, RestoreIs
<1>3. ms \in Seq(Messages) /\ Len(ms) \in Nat /\ t \in Nat
  BY SavedFacts, SessionBounds
<1> HIDE DEF ms, restored, n
<1>4. n = 0
  <2>1. SUFFICES ASSUME n # 0 PROVE FALSE
    OBVIOUS
  <2>2. n \in 0 .. Len(restored) /\ n <= Len(ms) /\ IsSuffix(u, ms)
    BY <1>2 DEF Overlaps
  <2>3. n \in Nat /\ n >= 1 /\ n <= Len(restored) /\ n <= Len(ms)
    BY <1>1, <2>1, <2>2
  <2>4. u \in Seq(Messages) /\ Len(u) = n /\ u[1] = restored[1]
    <3> DEFINE one == 1
    <3>1. one \in Nat /\ one >= 1 /\ one <= n + 1 /\ n + 1 - one = n /\ 1 \in 1 .. n /\ one + 1 - 1 = 1
      BY <2>3
    <3>2. u = SubSeq(restored, one, n)
      OBVIOUS
    <3> HIDE DEF one, u
    <3>3. /\ u \in Seq(Messages) /\ Len(u) = n + 1 - one
          /\ \A i \in 1 .. n + 1 - one : u[i] = restored[one + i - 1]
      BY <1>1, <2>3, <3>1, <3>2, PartOfSeq
    <3>4. QED
      BY <3>1, <3>3
  <2> HIDE DEF u
  <2>5. u[1] = ms[Len(ms) - n + 1]
    <3>1. 1 \in 1 .. Len(u)
      BY <2>3, <2>4
    <3>2. u[1] = ms[Len(ms) - Len(u) + 1]
      BY <1>3, <2>2, <2>4, <3>1, SuffixIs
    <3>3. QED
      BY <2>4, <3>2
  <2>6. Len(ms) - n + 1 \in 1 .. Len(ms)
    BY <1>3, <2>3
  <2>7. ms[Len(ms) - n + 1].turn < t
    BY <2>6 DEF Before, ms
  <2>8. ms[Len(ms) - n + 1].turn = t
    BY <1>1, <2>4, <2>5
  <2>9. QED
    BY <1>3, <2>7, <2>8
<1>5. more = restored
  <2>1. more = SubSeq(restored, 1, Len(restored))
    BY <1>4
  <2>2. QED
    BY <1>1, <2>1, SubSeqFull
<1> HIDE DEF more
<1>6. WellFormed(ms \o restored) /\ Before(ms \o restored, t + 1)
  BY <1>1, <1>3, TurnAdded DEF ms
<1>7. /\ Restore(s).messages = ms \o restored /\ Restore(s).checkpoint = NoCheckpoint
      /\ IsSaved(Restore(s)) /\ IsPrefix(ms, Restore(s).messages)
  BY <1>2, <1>5 DEF Appended, ms
<1>8. Contains(ms \o restored, s.checkpoint.message)
  <2>1. 1 \in 1 .. Len(restored) /\ restored[1] = s.checkpoint.message
    BY <1>1
  <2>2. Contains(restored, s.checkpoint.message)
    BY <2>1 DEF Contains
  <2>3. QED
    BY <1>1, <1>3, <2>2, ContainsIs
<1>9. QED
  BY <1>6, <1>7, <1>8 DEF ms

-----------------------------------------------------------------------------
(* Without subagents: one turn at a time.                                  *)

LEMMA BeforeLater ==
  ASSUME NEW ms \in Seq(Messages), NEW t \in Nat, Before(ms, t)
  PROVE  Before(ms, t + 1)
<1>1. ASSUME NEW i \in 1 .. Len(ms) PROVE ms[i].turn < t + 1
  <2>1. ms[i] \in Messages
    BY ElementOfSeq
  <2>2. ms[i].turn < t /\ ms[i].turn \in Nat
    BY <2>1, MessageTurns DEF Before
  <2>3. QED
    BY <2>2
<1>2. QED
  BY <1>1 DEF Before

LEMMA RunFacts ==
  ASSUME SavedInv
  PROVE  /\ run \in Nat /\ run + 1 \in Nat
         /\ file.messages \in Seq(Messages) /\ IsSaved(file)
         /\ turn \in [Turns -> TurnRecords] /\ emitted \in [Turns -> Messages]
<1>1. run \in 0 .. MaxRuns /\ MaxRuns \in Nat
  BY SessionBounds DEF SavedInv, SessionType
<1>2. QED
  BY <1>1, LoadedIs, SavedFacts DEF SavedInv, SessionType

\* A turn under way is the run's, and nothing else is.
LEMMA ActiveTurn ==
  ASSUME SavedInv, Solo, NEW t \in Turns, turn[t].pc \notin Ended
  PROVE  /\ t = run /\ run \in Prompts /\ run \in Turns /\ phase # "idle"
         /\ turn[run].pc # "queued" => inbound = <<>>
         /\ background = {}
         /\ turn[run].pc # "consolidate" => consol.turn = 0
         /\ AtTurn(run, turn[run], cache, file, emitted[run])
<1>1. t \in Prompts
  BY SessionBounds DEF Solo, AloneInv, Ended
<1>2. t = run /\ phase # "idle"
  BY <1>1 DEF Solo, AloneInv
<1>3. turn[run].pc # "done"
  BY <1>2 DEF Ended
<1>4. QED
  BY <1>1, <1>2, <1>3 DEF Solo, AloneInv, TurnInv

\* A step of the run's turn, r what becomes of it.
OneTurn(r) ==
  /\ Becomes(run, r)
  /\ UNCHANGED <<phase, run, subs, inbound, consol>>
  /\ background' = background \/ (r.pc = "done" /\ background' = background \cup {run})
  /\ \A u \in Turns : u # run => emitted'[u] = emitted[u]

LEMMA OneTurnAlone ==
  ASSUME SavedInv, Solo, phase # "idle", run \in Prompts,
         turn[run].pc \in {"lock", "gate", "model", "tool", "closing"},
         NEW r \in TurnRecords, OneTurn(r)
  PROVE  AloneInv'
<1>1. run \in Turns /\ turn[run].pc \notin Ended /\ turn[run].pc \notin {"queued", "consolidate", "done"}
  BY SessionBounds DEF Ended
<1>2. inbound = <<>> /\ background = {} /\ consol.turn = 0
  BY <1>1, ActiveTurn
<1>3. turn'[run] = r /\ \A u \in Turns : u # run => turn'[u] = turn[u]
  BY <1>1, TurnSet, RunFacts DEF OneTurn
<1>4. UNCHANGED <<phase, run, subs, inbound, consol>> /\ \A u \in Turns : u # run => emitted'[u] = emitted[u]
  BY DEF OneTurn
<1>5. background' \subseteq {run} /\ (background' # {} => r.pc = "done")
  BY <1>2 DEF OneTurn
<1>6. \A a \in Announcements : a \in Turns /\ a # run
  BY SessionBounds
<1>7. \A a \in Announcements : subs'[a] = "unborn" /\ turn'[a].pc = "idle" /\ emitted'[a] = NoMessage
  BY <1>3, <1>4, <1>6 DEF Solo, AloneInv
<1>8. ASSUME NEW u \in Prompts
      PROVE  /\ u # run' \/ phase' = "idle" => turn'[u].pc \in Ended
             /\ u > run' => turn'[u] = NoTurn /\ emitted'[u] = NoMessage
  <2>1. u \in Turns /\ u \in Nat /\ run \in Nat
    BY SessionBounds, RunFacts
  <2>2. CASE u = run
    BY <1>4, <2>1, <2>2
  <2>3. CASE u # run
    BY <1>3, <1>4, <2>1, <2>3 DEF Solo, AloneInv
  <2>4. QED
    BY <2>2, <2>3
<1>9. QED
  BY <1>2, <1>3, <1>4, <1>5, <1>7, <1>8 DEF AloneInv

\* A turn's checkpoint of its own step gives nothing of an earlier turn away.
LEMMA EarlierOnRecord ==
  ASSUME SavedInv, Solo, run \in Prompts, NoneOrStep(file.checkpoint, run),
         NEW u \in Prompts, u # run, emitted[u] # NoMessage
  PROVE  emitted[u].turn = u /\ Contains(file.messages, emitted[u])
<1>1. emitted[u].turn = u /\ (file.checkpoint.message = emitted[u] \/ Contains(file.messages, emitted[u]))
  BY DEF Solo, EmittedInv, EmittedHeld, OnRecord
<1>2. CASE file.checkpoint = NoCheckpoint
  BY <1>1, <1>2 DEF NoCheckpoint
<1>3. CASE StepCheckpoint(file.checkpoint, run)
  <2>1. file.checkpoint.message.turn = run
    BY <1>3, MaterialisedTurn, SessionBounds
  <2>2. QED
    BY <1>1, <2>1
<1>4. QED
  BY <1>2, <1>3 DEF NoneOrStep

LEMMA EmittedKept ==
  ASSUME SavedInv, Solo, run \in Prompts, NoneOrStep(file.checkpoint, run),
         \A u \in Turns : u # run => emitted'[u] = emitted[u],
         IsSaved(file'), IsPrefix(file.messages, file'.messages),
         emitted'[run] # NoMessage => emitted'[run].turn = run /\ OnRecord(file', emitted'[run])
  PROVE  EmittedInv'
<1>1. file.messages \in Seq(Messages) /\ file'.messages \in Seq(Messages)
  BY RunFacts, SavedFacts
<1>2. ASSUME NEW u \in Prompts, emitted'[u] # NoMessage
      PROVE  emitted'[u].turn = u /\ OnRecord(file', emitted'[u])
  <2>1. CASE u = run
    BY <1>2, <2>1
  <2>2. CASE u # run
    <3>1. emitted'[u] = emitted[u]
      BY <2>2, SessionBounds
    <3>2. emitted[u].turn = u /\ Contains(file.messages, emitted[u])
      BY <1>2, <2>2, <3>1, EarlierOnRecord
    <3>3. Contains(file'.messages, emitted[u])
      BY <1>1, <3>2, ContainsIs
    <3>4. QED
      BY <3>1, <3>2, <3>3 DEF OnRecord
  <2>3. QED
    BY <2>1, <2>2
<1>3. QED
  BY <1>2 DEF EmittedInv, EmittedHeld

\* What the agent loop does within a turn.
LEMMA OneTurnSolo ==
  ASSUME SavedInv, Solo, phase # "idle", run \in Prompts,
         turn[run].pc \in {"model", "tool", "closing"},
         NEW r \in TurnRecords, OneTurn(r), r.pc \in {"model", "tool", "closing"},
         IsSaved(file'), cache' = file', file'.messages = file.messages, NoneOrStep(file'.checkpoint, run),
         emitted'[run] # NoMessage =>
           /\ emitted'[run].turn = run /\ emitted'[run] = file'.checkpoint.message
           /\ Contains(TailOf(r), emitted'[run]),
         r.pc = "model" => Asking(run, r),
         r.pc = "tool" => Calling(run, r, emitted'[run]),
         r.pc = "closing" => ClosedLog(TailOf(r), run)
  PROVE  Solo'
<1>1. run \in Turns /\ run \in Nat /\ file.messages \in Seq(Messages)
  BY SessionBounds, RunFacts
<1>2. AloneInv'
  BY OneTurnAlone
<1>3. Started(run, turn[run], cache, file, emitted[run])
  BY DEF Solo, TurnInv, AtTurn, Running
<1>4. turn'[run] = r /\ run' = run /\ phase' = phase
  BY <1>1, TurnSet, RunFacts DEF OneTurn
<1>5. TurnInv'
  <2>1. Started(run, r, cache', file', emitted'[run])
    BY <1>3 DEF Started
  <2>2. AtTurn(run, r, cache', file', emitted'[run])
    BY <2>1 DEF AtTurn
  <2>3. QED
    BY <1>4, <2>2 DEF TurnInv
<1>6. EmittedInv'
  <2>1. IsPrefix(file.messages, file'.messages)
    BY <1>1, PrefixReflexive
  <2>2. emitted'[run] # NoMessage => emitted'[run].turn = run /\ OnRecord(file', emitted'[run])
    BY DEF OnRecord
  <2>3. QED
    BY <1>3, <2>1, <2>2, EmittedKept DEF Started, OneTurn
<1>7. FileInv'
  <2>1. WellFormed(file'.messages) /\ Before(file'.messages, run + 1)
    BY DEF Solo, FileInv, FileHolds
  <2>2. file'.checkpoint = NoCheckpoint
        \/ \E u \in 1 .. run : StepCheckpoint(file'.checkpoint, u) /\ Before(file'.messages, u)
    <3>1. run \in 1 .. run
      BY <1>1 DEF Prompts
    <3>2. Before(file'.messages, run)
      BY <1>3 DEF Started
    <3>3. QED
      BY <3>1, <3>2 DEF NoneOrStep
  <2>3. QED
    BY <1>4, <2>1, <2>2 DEF FileInv, FileHolds
<1>8. QED
  BY <1>2, <1>5, <1>6, <1>7 DEF Solo

\* The steps that leave turns, session and the rest of it alone.
LEMMA SoloUnmoved ==
  ASSUME Solo, UNCHANGED <<run, turn, cache, file, consol, background, emitted, subs, inbound>>,
         phase' = "idle" <=> phase = "idle"
  PROVE  Solo'
<1>1. AloneInv'
  BY DEF Solo, AloneInv
<1>2. FileInv' /\ EmittedInv'
  BY DEF Solo, FileInv, EmittedInv
<1>3. TurnInv'
  BY DEF Solo, TurnInv
<1>4. QED
  BY <1>1, <1>2, <1>3 DEF Solo

\* A turn that was not yet begun is a fresh record.
LEMMA FreshIs ==
  /\ NoTurn = Fresh("idle")
  /\ \A p : Fresh(p).pc = p
  /\ \A r, p, q : r = Fresh(q) => TurnOf(p, r.iter, r.base, r.messages, r.stop) = Fresh(p)
BY DEF Fresh, TurnOf, NoTurn

LEMMA StartRunSolo ==
  ASSUME SavedInv, Solo, StartRun
  PROVE  Solo'
<1> DEFINE n == run + 1
<1>1. /\ n \in Prompts /\ n \in Turns /\ n \in Nat /\ run \in Nat /\ n > run /\ n - 1 = run
  <2>1. run < plan.runs /\ plan.runs \in 0 .. MaxRuns /\ run \in Nat /\ MaxRuns \in Nat
    BY SessionBounds, RunFacts DEF StartRun, SavedInv, SessionType
  <2>2. n \in 1 .. MaxRuns
    BY <2>1
  <2>3. QED
    BY <2>1, <2>2, SessionBounds
<1>2. /\ phase = "idle" /\ phase' = "waiting" /\ run' = n /\ inbound' = <<n>> /\ Goto(n, "queued")
      /\ UNCHANGED <<cache, file, consol, background, emitted, subs, plan>>
  BY DEF StartRun, session, memory, bounds
<1>3. /\ turn[n] = NoTurn /\ emitted[n] = NoMessage /\ background = {} /\ consol.turn = 0 /\ cache = NotLoaded
      /\ \A t \in Prompts : turn[t].pc \in Ended
  BY <1>1, <1>2 DEF Solo, AloneInv
<1> HIDE DEF n
<1>4. turn'[n] = Fresh("queued") /\ turn'[n].pc = "queued" /\ \A u \in Turns : u # n => turn'[u] = turn[u]
  <2>1. /\ turn'[n] = TurnOf("queued", turn[n].iter, turn[n].base, turn[n].messages, turn[n].stop)
        /\ turn'[n].pc = "queued"
        /\ \A u \in Turns : u # n => turn'[u] = turn[u]
    BY <1>1, <1>2, GotoType
  <2>2. QED
    BY <1>3, <2>1, FreshIs
<1>5. AloneInv'
  <2>1. \A a \in Announcements : subs'[a] = "unborn" /\ turn'[a].pc = "idle" /\ emitted'[a] = NoMessage
    BY <1>1, <1>2, <1>4, SessionBounds DEF Solo, AloneInv
  <2>2. ASSUME NEW t \in Prompts
        PROVE  /\ t # n => turn'[t].pc \in Ended
               /\ t > n => turn'[t] = NoTurn /\ emitted'[t] = NoMessage
    <3>1. t \in Turns /\ t \in Nat
      BY SessionBounds
    <3>2. t > n => t # n /\ t > run
      BY <1>1, <3>1
    <3>3. QED
      BY <1>2, <1>3, <1>4, <3>1, <3>2 DEF Solo, AloneInv
  <2>3. QED
    BY <1>1, <1>2, <1>3, <1>4, <2>1, <2>2 DEF AloneInv
<1>6. FileInv'
  <2>1. file.messages \in Seq(Messages) /\ WellFormed(file.messages) /\ Before(file.messages, n)
    BY RunFacts DEF Solo, FileInv, FileHolds, n
  <2>2. Before(file.messages, n + 1)
    BY <1>1, <2>1, BeforeLater
  <2>3. \A t \in 1 .. run : t \in 1 .. n
    BY <1>1
  <2>4. QED
    BY <1>2, <2>1, <2>2, <2>3 DEF Solo, FileInv, FileHolds
<1>7. TurnInv'
  <2>1. Before(file.messages, n)
    BY DEF Solo, FileInv, FileHolds, n
  <2>2. file.checkpoint = NoCheckpoint \/ \E u \in 1 .. n - 1 : StepCheckpoint(file.checkpoint, u)
    BY <1>1 DEF Solo, FileInv, FileHolds
  <2>3. StillWaits(n, turn'[n], cache', file', emitted'[n])
    BY <1>2, <1>3, <1>4, <2>1, <2>2 DEF StillWaits
  <2>4. AtTurn(n, turn'[n], cache', file', emitted'[n])
    BY <1>4, <2>3 DEF AtTurn, Running
  <2>5. QED
    BY <1>2, <2>4 DEF TurnInv
<1>8. EmittedInv'
  BY <1>2 DEF Solo, EmittedInv
<1>9. QED
  BY <1>5, <1>6, <1>7, <1>8 DEF Solo

LEMMA HostSolo ==
  ASSUME SavedInv, Solo, Collect \/ TakeResult \/ LoopExits \/ Report
  PROVE  Solo'
<1>1. /\ UNCHANGED <<run, turn, cache, file, consol, background, emitted, subs, inbound>>
      /\ phase' = "idle" <=> phase = "idle"
  BY DEF Collect, TakeResult, LoopExits, Report, process, session, memory
<1>2. QED
  BY <1>1, SoloUnmoved

LEMMA ProcessEndSolo ==
  ASSUME SavedInv, Solo, Exit \/ Crash
  PROVE  Solo'
<1>1. ProcessEnds
  BY DEF Exit, Crash
<1>2. /\ phase' = "idle" /\ run' = run /\ inbound' = <<>> /\ background' = {} /\ consol'.turn = 0
      /\ cache' = NotLoaded /\ UNCHANGED <<file, emitted>>
      /\ turn' = [t \in Turns |-> IF turn[t].pc \in Ended THEN turn[t] ELSE [NoTurn EXCEPT !.pc = "lost"]]
      /\ subs' = [a \in Announcements |-> IF subs[a] = "running" THEN "lost" ELSE subs[a]]
  BY <1>1 DEF ProcessEnds
<1>3. \A t \in Turns : turn'[t].pc \in Ended /\ (turn[t].pc \in Ended => turn'[t] = turn[t])
  BY <1>2 DEF NoTurn, Ended
<1>4. \A a \in Announcements : subs'[a] = "unborn" /\ turn'[a].pc = "idle" /\ emitted'[a] = NoMessage
  BY <1>2, <1>3, SessionBounds DEF Solo, AloneInv, Ended
<1>5. ASSUME NEW t \in Prompts
      PROVE  turn'[t].pc \in Ended /\ (t > run => turn'[t] = NoTurn /\ emitted'[t] = NoMessage)
  <2>1. t \in Turns /\ NoTurn.pc \in Ended
    BY SessionBounds DEF NoTurn, Ended
  <2>2. QED
    BY <1>2, <1>3, <2>1 DEF Solo, AloneInv
<1>6. AloneInv'
  BY <1>2, <1>4, <1>5 DEF AloneInv
<1>7. QED
  BY <1>2, <1>6 DEF Solo, FileInv, EmittedInv, TurnInv

\* Waiting for the lock, for the gate.
LEMMA WaitsOn ==
  ASSUME SavedInv, Solo, NEW p \in {"lock", "gate"}, run \in Prompts, phase # "idle",
         turn[run].pc \in {"queued", "lock", "gate"}, Goto(run, p), inbound' = <<>>,
         UNCHANGED <<plan, phase, run, cache, file, consol, background, emitted, subs>>
  PROVE  Solo'
<1>1. run \in Turns /\ turn[run].pc \notin Ended /\ turn[run].pc # "consolidate"
  BY SessionBounds DEF Ended
<1>2. background = {} /\ consol.turn = 0 /\ AtTurn(run, turn[run], cache, file, emitted[run])
  BY <1>1, ActiveTurn
<1>3. turn[run] = Fresh(turn[run].pc)
  BY <1>2 DEF AtTurn, StillWaits
<1>4. turn'[run] = Fresh(p) /\ turn'[run].pc = p /\ \A u \in Turns : u # run => turn'[u] = turn[u]
  <2>1. p \in (Running \cup Ended \cup {"queued", "lock", "gate"}) \ {"tool"}
    OBVIOUS
  <2>2. /\ turn'[run] = TurnOf(p, turn[run].iter, turn[run].base, turn[run].messages, turn[run].stop)
        /\ turn'[run].pc = p
        /\ \A u \in Turns : u # run => turn'[u] = turn[u]
    BY <1>1, <2>1, GotoType
  <2>3. QED
    BY <1>3, <2>2, FreshIs
<1>5. AloneInv'
  <2>1. \A a \in Announcements : subs'[a] = "unborn" /\ turn'[a].pc = "idle" /\ emitted'[a] = NoMessage
    BY <1>1, <1>4, SessionBounds DEF Solo, AloneInv
  <2>2. ASSUME NEW t \in Prompts
        PROVE  /\ t # run => turn'[t].pc \in Ended
               /\ t > run => turn'[t] = NoTurn /\ emitted'[t] = NoMessage
    <3>1. t \in Turns /\ t \in Nat /\ run \in Nat
      BY SessionBounds, RunFacts
    <3>2. t > run => t # run
      BY <3>1
    <3>3. QED
      BY <1>4, <3>1, <3>2 DEF Solo, AloneInv
  <2>3. QED
    BY <1>2, <1>4, <2>1, <2>2 DEF AloneInv
<1>6. TurnInv'
  <2>1. StillWaits(run, turn'[run], cache', file', emitted'[run])
    BY <1>2, <1>4 DEF AtTurn, StillWaits
  <2>2. AtTurn(run, turn'[run], cache', file', emitted'[run])
    BY <1>4, <2>1 DEF AtTurn, Running
  <2>3. QED
    BY <2>2 DEF TurnInv
<1>7. QED
  BY <1>5, <1>6 DEF Solo, FileInv, EmittedInv

LEMMA ConsumeSolo ==
  ASSUME SavedInv, Solo, Consume
  PROVE  Solo'
<1>1. inbound # <<>> /\ inbound = <<run>> /\ turn[run].pc = "queued" /\ phase # "idle" /\ run \in Prompts
  BY DEF Consume, Solo, AloneInv
<1>2. Head(inbound) = run /\ Tail(inbound) = <<>>
  BY <1>1
<1>3. Goto(run, "lock") /\ inbound' = <<>> /\ UNCHANGED <<plan, phase, run, cache, file, consol, background, emitted, subs>>
  BY <1>2 DEF Consume, session, memory, bounds
<1>4. QED
  BY <1>1, <1>3, WaitsOn

LEMMA AcquireLockSolo ==
  ASSUME SavedInv, Solo, NEW t \in Turns, AcquireLock(t)
  PROVE  Solo'
<1>1. turn[t].pc = "lock" /\ turn[t].pc \notin Ended
  BY DEF AcquireLock, Ended
<1>2. t = run /\ run \in Prompts /\ phase # "idle" /\ inbound = <<>>
  BY <1>1, ActiveTurn
<1>3. Goto(run, "gate") /\ inbound' = <<>> /\ UNCHANGED <<plan, phase, run, cache, file, consol, background, emitted, subs>>
  BY <1>2 DEF AcquireLock, process, session, memory, bounds
<1>4. QED
  BY <1>1, <1>2, <1>3, WaitsOn

\* The turn begins, and what an earlier one left in its checkpoint is restored.
LEMMA BeginTurnSolo ==
  ASSUME SavedInv, Solo, NEW t \in Turns, BeginTurn(t)
  PROVE  Solo'
<1>1. turn[t].pc = "gate" /\ turn[t].pc \notin Ended
  BY DEF BeginTurn, Ended
<1>2. t = run /\ run \in Prompts /\ run \in Turns /\ phase # "idle" /\ AtTurn(run, turn[run], cache, file, emitted[run])
  BY <1>1, ActiveTurn
<1>3. /\ Goto(run, "consolidate")
      /\ UNCHANGED <<plan, phase, run, consol, background, emitted, subs, inbound>>
  BY <1>2 DEF BeginTurn, process, memory, bounds
<1>4. StillWaits(run, turn[run], cache, file, emitted[run])
  BY <1>1, <1>2 DEF AtTurn
<1>5. /\ cache = NotLoaded /\ Loaded = file /\ Before(file.messages, run) /\ turn[run] = Fresh("gate")
      /\ emitted[run] = NoMessage
  BY <1>1, <1>2, <1>4 DEF StillWaits, Loaded
<1>6. turn'[run] = Fresh("consolidate") /\ turn'[run].pc = "consolidate" /\ Becomes(run, Fresh("consolidate"))
      /\ Fresh("consolidate") \in TurnRecords
  <2>1. "consolidate" \in (Running \cup Ended \cup {"queued", "lock", "gate"}) \ {"tool"}
    BY DEF Running
  <2>2. /\ turn'[run] = TurnOf("consolidate", turn[run].iter, turn[run].base, turn[run].messages, turn[run].stop)
        /\ turn'[run].pc = "consolidate" /\ TurnTypes'
    BY <1>2, <1>3, <2>1, GotoType
  <2>3. turn'[run] = Fresh("consolidate")
    BY <1>5, <2>2, FreshIs
  <2>4. Becomes(run, turn'[run])
    <3>1. Becomes(run, TurnOf("consolidate", turn[run].iter, turn[run].base, turn[run].messages, turn[run].stop))
      BY <1>2, <1>3, GotoIs DEF SavedInv
    <3>2. QED
      BY <2>2, <3>1
  <2>5. QED
    BY <1>2, <2>2, <2>3, <2>4 DEF TurnTypes
<1>7. AloneInv'
  <2> DEFINE r == Fresh("consolidate")
  <2>1. OneTurn(r)
    BY <1>3, <1>6 DEF OneTurn
  <2> HIDE DEF r
  <2>2. r \in TurnRecords /\ turn[run].pc \in {"lock", "gate", "model", "tool", "closing"}
    BY <1>1, <1>2, <1>6 DEF r
  <2>3. QED
    BY <1>2, <2>1, <2>2, OneTurnAlone
<1>8. /\ IsSaved(file) /\ file.messages \in Seq(Messages) /\ run \in Nat /\ run \in 1 .. run
      /\ WellFormed(file.messages)
  BY <1>2, RunFacts, SessionBounds DEF Solo, FileInv, FileHolds, Prompts
<1>9. /\ cache' = file' /\ IsSaved(file') /\ IsPrefix(file.messages, file'.messages)
      /\ file'.checkpoint = NoCheckpoint /\ WellFormed(file'.messages) /\ Before(file'.messages, run)
      /\ \A u \in Prompts : emitted[u] # NoMessage => Contains(file'.messages, emitted[u])
  <2>1. \A u \in Prompts : emitted[u] # NoMessage =>
           file.checkpoint.message = emitted[u] \/ Contains(file.messages, emitted[u])
    BY DEF Solo, EmittedInv, EmittedHeld, OnRecord
  <2>2. CASE file.checkpoint = NoCheckpoint
    <3>1. cache' = file /\ file' = file
      BY <1>2, <1>5, <2>2 DEF BeginTurn
    <3>2. \A u \in Prompts : emitted[u] # NoMessage => Contains(file.messages, emitted[u])
      BY <2>1, <2>2 DEF NoCheckpoint
    <3>3. QED
      BY <1>5, <1>8, <2>2, <3>1, <3>2, PrefixReflexive
  <2>3. CASE file.checkpoint # NoCheckpoint
    <3>1. cache' = Restore(file) /\ file' = Restore(file)
      BY <1>5, <2>3 DEF BeginTurn, Save
    <3>2. PICK u \in 1 .. run - 1 : StepCheckpoint(file.checkpoint, u)
      BY <1>4, <2>3 DEF StillWaits
    <3>3. PICK v \in 1 .. run : StepCheckpoint(file.checkpoint, v) /\ Before(file.messages, v)
      BY <2>3 DEF Solo, FileInv, FileHolds
    <3>4. u \in Turns /\ v \in Turns /\ u \in Nat /\ u + 1 <= run
      <4>1. run <= MaxRuns /\ MaxRuns \in Nat
        BY <1>2, SessionBounds
      <4>2. u \in 1 .. MaxRuns /\ v \in 1 .. MaxRuns /\ u \in Nat /\ u + 1 <= run
        BY <1>8, <4>1
      <4>3. QED
        BY <4>2, SessionBounds
    <3>5. u = v
      <4>1. file.checkpoint.message.turn = u
        BY <3>2, <3>4, MaterialisedTurn
      <4>2. file.checkpoint.message.turn = v
        BY <3>3, <3>4, MaterialisedTurn
      <4>3. QED
        BY <4>1, <4>2
    <3>6. Before(file.messages, u)
      BY <3>3, <3>5
    <3>7. /\ IsSaved(Restore(file)) /\ IsPrefix(file.messages, Restore(file).messages)
          /\ Restore(file).checkpoint = NoCheckpoint
          /\ WellFormed(Restore(file).messages) /\ Before(Restore(file).messages, u + 1)
          /\ Contains(Restore(file).messages, file.checkpoint.message)
      BY <1>8, <3>2, <3>4, <3>6, TurnRestored
    <3>8. Restore(file).messages \in Seq(Messages)
      BY <3>7, SavedFacts
    <3>9. Before(Restore(file).messages, run)
      <4>1. ASSUME NEW i \in 1 .. Len(Restore(file).messages) PROVE Restore(file).messages[i].turn < run
        <5>1. Restore(file).messages[i] \in Messages
          BY <3>8, ElementOfSeq
        <5>2. Restore(file).messages[i].turn \in Nat /\ Restore(file).messages[i].turn < u + 1
          BY <3>7, <5>1, MessageTurns DEF Before
        <5>3. QED
          BY <1>8, <3>4, <5>2
      <4>2. QED
        BY <4>1 DEF Before
    <3>10. \A w \in Prompts : emitted[w] # NoMessage => Contains(Restore(file).messages, emitted[w])
      BY <1>8, <2>1, <3>7, <3>8, ContainsIs
    <3>11. QED
      BY <3>1, <3>7, <3>9, <3>10
  <2>4. QED
    BY <2>2, <2>3
<1>10. FileInv'
  <2>1. file'.messages \in Seq(Messages)
    BY <1>9, SavedFacts
  <2>2. Before(file'.messages, run + 1)
    BY <1>8, <1>9, <2>1, BeforeLater
  <2>3. QED
    BY <1>3, <1>9, <2>2 DEF FileInv, FileHolds
<1>11. EmittedInv'
  BY <1>3, <1>9 DEF Solo, EmittedInv, EmittedHeld, OnRecord
<1>12. TurnInv'
  <2>1. Started(run, turn'[run], cache', file', emitted'[run])
    BY <1>3, <1>5, <1>9 DEF Started, NoneOrStep
  <2>2. Begun(turn'[run], file', emitted'[run])
    BY <1>3, <1>5, <1>6, <1>9 DEF Begun
  <2>3. AtTurn(run, turn'[run], cache', file', emitted'[run])
    BY <1>6, <2>1, <2>2 DEF AtTurn
  <2>4. QED
    BY <1>3, <2>3 DEF TurnInv
<1>13. QED
  BY <1>7, <1>10, <1>11, <1>12 DEF Solo

\* Who consolidates is the run's turn, before its prompt or after its end.
Consolidates(w) ==
  /\ w.turn = run /\ run \in Prompts /\ run \in Turns /\ phase # "idle"
  /\ turn[run].pc = (IF w.bg THEN "done" ELSE "consolidate")
  /\ cache = file /\ AtTurn(run, turn[run], cache, file, emitted[run])

LEMMA SessionOfRun ==
  ASSUME SavedInv, Solo, run \in Prompts, phase # "idle", turn[run].pc \in {"done", "consolidate"}
  PROVE  cache = file /\ AtTurn(run, turn[run], cache, file, emitted[run])
<1>1. AtTurn(run, turn[run], cache, file, emitted[run])
  BY DEF Solo, TurnInv
<1>2. QED
  BY <1>1 DEF AtTurn, Started, Running

LEMMA WorkerAlone ==
  ASSUME SavedInv, Solo, NEW w \in Workers
  PROVE  Consolidates(w)
<1>1. w.turn \in Turns /\ w.bg \in BOOLEAN
      /\ (w.bg => w.turn \in background) /\ (~ w.bg => turn[w.turn].pc = "consolidate")
  BY WorkerFacts
<1>2. CASE w.bg
  <2>1. w.turn = run /\ turn[run].pc = "done" /\ phase # "idle" /\ run \in Prompts
    BY <1>1, <1>2 DEF Solo, AloneInv
  <2>2. QED
    BY <1>2, <2>1, SessionOfRun, SessionBounds DEF Consolidates
<1>3. CASE ~ w.bg
  <2>1. turn[w.turn].pc \notin Ended
    BY <1>1, <1>3 DEF Ended
  <2>2. w.turn = run /\ run \in Prompts /\ phase # "idle"
    BY <1>1, <2>1, ActiveTurn
  <2>3. QED
    BY <1>1, <1>3, <2>2, SessionOfRun, SessionBounds DEF Consolidates
<1>4. QED
  BY <1>2, <1>3

LEMMA RoundAlone ==
  ASSUME SavedInv, Solo, ~ Unlocked, NEW w, w.turn = consol.turn, w.bg = consol.bg
  PROVE  Consolidates(w)
<1>1. consol.turn # 0
  BY DEF Unlocked
<1>2. consol.turn = run /\ phase # "idle" /\ run \in Prompts /\ turn[run].pc = (IF consol.bg THEN "done" ELSE "consolidate")
  BY <1>1 DEF Solo, AloneInv
<1>3. QED
  BY <1>2, SessionOfRun, SessionBounds DEF Consolidates

\* A consolidation that begins or goes on.
LEMMA RoundGoesOn ==
  ASSUME SavedInv, Solo, NEW w, Consolidates(w), IsSaved(file'), cache' = file',
         file'.messages = file.messages, file'.checkpoint = file.checkpoint,
         consol'.turn = run, consol'.bg = w.bg,
         UNCHANGED <<phase, run, turn, background, emitted, subs, inbound>>
  PROVE  Solo'
<1>1. AloneInv'
  BY DEF Solo, AloneInv, Consolidates
<1>2. FileInv' /\ EmittedInv'
  BY DEF Solo, FileInv, FileHolds, EmittedInv, EmittedHeld, OnRecord
<1>3. AtTurn(run, turn[run], cache', file', emitted[run])
  BY DEF Consolidates, AtTurn, StillWaits, Started, Begun, NoneOrStep
<1>4. QED
  BY <1>1, <1>2, <1>3 DEF Solo, TurnInv

\* A consolidation that is over: the turn asks the model, or the background is done.
LEMMA RoundEnds ==
  ASSUME SavedInv, Solo, NEW w, Consolidates(w), w.bg \in BOOLEAN, NEW s, IsSaved(s), cache' = s, file' = s,
         s.messages = file.messages, s.checkpoint = file.checkpoint,
         consol'.turn = 0, EndConsolidation(w, s),
         UNCHANGED <<phase, run, emitted, subs, inbound>>
  PROVE  Solo'
<1>1. /\ w.turn = run /\ run \in Prompts /\ run \in Turns /\ phase # "idle" /\ cache = file
      /\ turn[run].pc = (IF w.bg THEN "done" ELSE "consolidate")
      /\ AtTurn(run, turn[run], cache, file, emitted[run])
  BY DEF Consolidates
<1>2. FileInv' /\ EmittedInv'
  BY DEF Solo, FileInv, FileHolds, EmittedInv, EmittedHeld, OnRecord
<1>3. CASE w.bg
  <2>1. turn' = turn /\ background' = background \ {w.turn}
    BY <1>3 DEF EndConsolidation
  <2>2. AloneInv'
    BY <1>1, <2>1 DEF Solo, AloneInv
  <2>3. AtTurn(run, turn[run], cache', file', emitted[run])
    BY <1>1, <1>3 DEF AtTurn, Running
  <2>4. QED
    BY <1>2, <2>1, <2>2, <2>3 DEF Solo, TurnInv
<1>4. CASE ~ w.bg
  <2> DEFINE h == History(s)
             ms == PromptMessages(s, run)
             r == TurnOf("model", turn[run].iter, Len(h), ms, turn[run].stop)
  <2>1. /\ turn[run].pc = "consolidate" /\ Begun(turn[run], file, emitted[run])
        /\ Started(run, turn[run], cache, file, emitted[run])
    BY <1>1, <1>4 DEF AtTurn, Running
  <2>2. turn[run].iter = 0 /\ turn[run].stop = "none" /\ emitted[run] = NoMessage /\ file.checkpoint = NoCheckpoint
    BY <2>1 DEF Begun, Fresh, TurnOf
  <2>3. Becomes(run, r) /\ background' = background
    BY <1>1, <1>4, PromptBuilt DEF SavedInv
  <2>4. /\ ms \in Seq(Messages) /\ ms # <<>> /\ Len(h) \in Nat /\ Len(h) <= Len(ms)
        /\ Last(ms).role = Request(run).role
        /\ TailFrom(ms, Len(h)) = <<>> \/ TailFrom(ms, Len(h)) = Append(<<>>, Request(run))
    BY <1>1, PromptIs
  <2>5. /\ r.pc = "model" /\ r.iter = 0 /\ r.base = Len(h) /\ r.messages = ms /\ r.stop = "none"
        /\ r.base <= Len(r.messages)
    BY <2>2, <2>4 DEF TurnOf
  <2>6. r \in TurnRecords
    <3>1. 0 \in 0 .. MaxIterations
      BY SessionBounds
    <3>2. QED
      BY <2>2, <2>4, <3>1 DEF TurnOf, TurnRecords, Running
  <2> HIDE DEF h, ms, r
  <2>7. OpenLog(TailOf(r), run, 0)
    BY <1>1, <2>4, <2>5, LogStarts DEF TailOf
  <2>8. Asking(run, r)
    <3>1. Last(ms).role = "user"
      BY <1>1, <2>4, LogStarts
    <3>2. QED
      BY <2>4, <2>5, <2>7, <3>1 DEF Asking
  <2>9. turn'[run] = r /\ \A u \in Turns : u # run => turn'[u] = turn[u]
    BY <1>1, <2>3, <2>6, TurnSet, RunFacts
  <2>10. AloneInv'
    <3>1. background = {} /\ inbound = <<>>
      <4>1. turn[run].pc \notin Ended /\ turn[run].pc # "queued"
        BY <2>1 DEF Ended
      <4>2. QED
        BY <1>1, <4>1, ActiveTurn
    <3>2. \A a \in Announcements : subs'[a] = "unborn" /\ turn'[a].pc = "idle" /\ emitted'[a] = NoMessage
      BY <1>1, <2>9, SessionBounds DEF Solo, AloneInv
    <3>3. ASSUME NEW t \in Prompts
          PROVE  /\ t # run => turn'[t].pc \in Ended
                 /\ t > run => turn'[t] = NoTurn /\ emitted'[t] = NoMessage
      <4>1. t \in Turns /\ t \in Nat /\ run \in Nat
        BY SessionBounds, RunFacts
      <4>2. t > run => t # run
        BY <4>1
      <4>3. QED
        BY <2>9, <4>1, <4>2 DEF Solo, AloneInv
    <3>4. QED
      BY <1>1, <2>3, <3>1, <3>2, <3>3 DEF AloneInv
  <2>11. AtTurn(run, r, s, s, emitted[run])
    <3>1. Started(run, r, s, s, emitted[run])
      BY <2>1, <2>2 DEF Started, NoneOrStep
    <3>2. QED
      BY <2>5, <2>8, <3>1 DEF AtTurn
  <2>12. QED
    BY <1>2, <2>9, <2>10, <2>11 DEF Solo, TurnInv
<1>5. QED
  BY <1>3, <1>4

LEMMA StartConsolidationSolo ==
  ASSUME SavedInv, Solo, NEW w \in Workers, StartConsolidation(w)
  PROVE  Solo'
<1>1. Consolidates(w)
  BY WorkerAlone
<1>2. PICK n \in Boundaries(cache) : consol' = [turn |-> w.turn, bg |-> w.bg, upto |-> n]
  BY DEF StartConsolidation
<1>3. consol'.turn = w.turn /\ consol'.bg = w.bg
  BY <1>2
<1>4. UNCHANGED <<phase, run, turn, file, cache, background, emitted, subs, inbound>>
  BY DEF StartConsolidation, process, session, bounds
<1>5. w.turn = run /\ cache = file /\ IsSaved(file)
  BY <1>1, LoadedIs DEF Consolidates
<1>6. consol'.turn = run /\ cache' = file' /\ IsSaved(file')
  BY <1>3, <1>4, <1>5
<1>7. QED
  BY <1>1, <1>3, <1>4, <1>6, RoundGoesOn

LEMMA NoConsolidationSolo ==
  ASSUME SavedInv, Solo, NEW w \in Workers, NoConsolidation(w)
  PROVE  Solo'
<1>1. Consolidates(w) /\ w.bg \in BOOLEAN /\ IsSaved(cache)
  BY WorkerAlone, WorkerFacts
<1>2. /\ Unlocked \/ cache.messages = <<>>
      /\ EndConsolidation(w, cache) /\ UNCHANGED <<phase, run, file, cache, consol, emitted, subs, inbound>>
  BY DEF NoConsolidation, process, session, bounds
<1>3. consol.turn = 0
  <2>1. SUFFICES ASSUME consol.turn # 0 PROVE FALSE
    OBVIOUS
  <2>2. cache.archived < consol.upto /\ consol.upto < Len(cache.messages) /\ cache.messages = <<>>
        /\ cache.archived \in Nat /\ consol.upto \in Nat
    BY <1>1, <1>2, <2>1, SavedFacts DEF SavedInv, CacheInv, SessionType, Unlocked
  <2>3. Len(cache.messages) = 0
    BY <2>2, EmptySeq
  <2>4. QED
    BY <2>2, <2>3
<1>4. cache = file
  BY <1>1 DEF Consolidates
<1>5. /\ cache' = cache /\ file' = cache /\ cache.messages = file.messages /\ cache.checkpoint = file.checkpoint
      /\ consol'.turn = 0
  BY <1>2, <1>3, <1>4
<1>6. QED
  BY <1>1, <1>2, <1>5, RoundEnds

LEMMA AbandonRoundSolo ==
  ASSUME SavedInv, Solo, AbandonRound
  PROVE  Solo'
<1> DEFINE w == [turn |-> consol.turn, bg |-> consol.bg]
<1>1. ~ Unlocked /\ w.turn = consol.turn /\ w.bg = consol.bg
  BY DEF AbandonRound
<1>2. /\ EndConsolidation(w, cache) /\ UNCHANGED <<phase, run, file, cache, emitted, subs, inbound>>
      /\ consol'.turn = 0
  BY DEF AbandonRound, process, session, bounds
<1>3. IsSaved(cache) /\ w.bg \in BOOLEAN
  BY <1>1, ConsolFacts
<1> HIDE DEF w
<1>4. Consolidates(w)
  BY <1>1, RoundAlone
<1>5. cache = file
  BY <1>4 DEF Consolidates
<1>6. cache' = cache /\ file' = cache /\ cache.messages = file.messages /\ cache.checkpoint = file.checkpoint
  BY <1>2, <1>5
<1>7. QED
  BY <1>2, <1>3, <1>4, <1>6, RoundEnds

LEMMA FinishRoundSolo ==
  ASSUME SavedInv, Solo, FinishRound
  PROVE  Solo'
<1> DEFINE s == [cache EXCEPT !.archived = consol.upto]
           w == [turn |-> consol.turn, bg |-> consol.bg]
<1>1. ~ Unlocked /\ w.turn = consol.turn /\ w.bg = consol.bg
  BY DEF FinishRound
<1>2. /\ cache' = s /\ file' = s
      /\ UNCHANGED <<phase, run, emitted, subs, inbound>>
      /\ \/ (\E n \in Boundaries(s) : consol' = [consol EXCEPT !.upto = n])
            /\ UNCHANGED <<turn, background>>
         \/ consol' = [turn |-> 0, bg |-> FALSE, upto |-> 0] /\ EndConsolidation(w, s)
  BY DEF FinishRound, Save, NoteChunk, process, bounds
<1>3. IsSaved(cache) /\ w.bg \in BOOLEAN /\ consol.turn # 0
  BY <1>1, ConsolFacts
<1>4. IsSaved(s) /\ IsParts(s, cache.messages, consol.upto, cache.checkpoint)
  <2>1. consol.upto \in Nat /\ consol.upto <= Len(cache.messages)
    <3>1. consol.upto \in Nat /\ consol.upto < Len(cache.messages) /\ Len(cache.messages) \in Nat
      BY <1>3, SavedFacts DEF SavedInv, CacheInv, SessionType
    <3>2. QED
      BY <3>1
  <2>2. QED
    BY <1>3, <2>1, ArchivedParts
<1> HIDE DEF w
<1>5. Consolidates(w)
  BY <1>1, RoundAlone
<1>6. cache = file /\ w.turn = run
  BY <1>5 DEF Consolidates
<1>7. s.messages = file.messages /\ s.checkpoint = file.checkpoint
  BY <1>4, <1>6 DEF IsParts
<1> HIDE DEF s
<1>8. CASE (\E n \in Boundaries(s) : consol' = [consol EXCEPT !.upto = n]) /\ UNCHANGED <<turn, background>>
  <2>1. PICK n \in Boundaries(s) : consol' = [consol EXCEPT !.upto = n]
    BY <1>8
  <2>2. consol'.turn = consol.turn /\ consol'.bg = consol.bg
    BY <2>1 DEF SavedInv, SessionType
  <2>3. /\ consol'.turn = run /\ consol'.bg = w.bg /\ cache' = file' /\ IsSaved(file')
        /\ file'.messages = file.messages /\ file'.checkpoint = file.checkpoint
    BY <1>1, <1>2, <1>4, <1>6, <1>7, <2>2
  <2>4. QED
    BY <1>2, <1>5, <1>8, <2>3, RoundGoesOn
<1>9. CASE consol' = [turn |-> 0, bg |-> FALSE, upto |-> 0] /\ EndConsolidation(w, s)
  <2>1. consol'.turn = 0
    BY <1>9
  <2>2. QED
    BY <1>2, <1>3, <1>4, <1>5, <1>7, <1>9, <2>1, RoundEnds
<1>10. QED
  BY <1>2, <1>8, <1>9

\* What a turn that asks the model, waits for a tool or closes has in hand.
LEMMA AgentFacts ==
  ASSUME SavedInv, Solo, NEW t \in Turns, turn[t].pc \in {"model", "tool", "closing"}
  PROVE  /\ t = run /\ run \in Prompts /\ run \in Turns /\ phase # "idle" /\ run \in Nat
         /\ Started(run, turn[run], cache, file, emitted[run]) /\ cache = file
         /\ turn[run].pc = "model" => Asking(run, turn[run])
         /\ turn[run].pc = "tool" => Calling(run, turn[run], emitted[run])
         /\ turn[run].pc = "closing" => ClosedLog(TailOf(turn[run]), run)
         /\ turn[run].messages \in Seq(Messages) /\ turn[run].base \in Nat /\ turn[run].iter \in Nat
         /\ TailOf(turn[run]) \in Seq(Messages)
         /\ TurnTail(run) = TailOf(turn[run])
         /\ emitted[run] # NoMessage => emitted[run].turn = run
<1>1. turn[t].pc \notin Ended
  BY DEF Ended
<1>2. t = run /\ run \in Prompts /\ run \in Turns /\ phase # "idle" /\ AtTurn(run, turn[run], cache, file, emitted[run])
  BY <1>1, ActiveTurn
<1>3. /\ Started(run, turn[run], cache, file, emitted[run])
      /\ turn[run].pc = "model" => Asking(run, turn[run])
      /\ turn[run].pc = "tool" => Calling(run, turn[run], emitted[run])
      /\ turn[run].pc = "closing" => ClosedLog(TailOf(turn[run]), run)
  BY <1>2 DEF AtTurn, Running
<1>4. cache = file
  BY <1>3 DEF Started
<1>5. TurnTail(run) = TailOf(turn[run])
  BY DEF TurnTail, TailOf, TailFrom
<1>6. TailOf(turn[run]) \in Seq(Messages)
  BY <1>2, <1>5, TailTypes DEF SavedInv
<1>7. emitted[run] # NoMessage => emitted[run].turn = run
  BY <1>2 DEF Solo, EmittedInv, EmittedHeld
<1>8. turn[run].messages \in Seq(Messages) /\ turn[run].base \in Nat /\ turn[run].iter \in Nat
  BY <1>2, TurnFacts DEF SavedInv
<1>9. QED
  BY <1>2, <1>3, <1>4, <1>5, <1>6, <1>7, <1>8, RunFacts

\* The fields of a turn's record.
LEMMA FieldsOf ==
  ASSUME NEW p, NEW i, NEW from, NEW ms, NEW stop
  PROVE  /\ TurnOf(p, i, from, ms, stop).pc = p /\ TurnOf(p, i, from, ms, stop).iter = i
         /\ TurnOf(p, i, from, ms, stop).base = from /\ TurnOf(p, i, from, ms, stop).messages = ms
         /\ TailOf(TurnOf(p, i, from, ms, stop)) = TailFrom(ms, from)
BY DEF TurnOf, TailOf

\* A message more in a turn's messages.
OneMore(r, m, q) ==
  /\ q.messages \in Seq(Messages) /\ q.base <= Len(q.messages) /\ q.messages # <<>> /\ Last(q.messages) = m
  /\ TailOf(r) \in Seq(Messages) /\ TailOf(q) = Append(TailOf(r), m)
  /\ Contains(TailOf(q), m) /\ (\A x : Contains(TailOf(r), x) => Contains(TailOf(q), x))
  /\ Front(TailOf(q)) = TailOf(r)

LEMMA MessageMore ==
  ASSUME NEW r, r.messages \in Seq(Messages), r.base \in Nat, r.base <= Len(r.messages), NEW m \in Messages,
         NEW q, q.messages = Append(r.messages, m), q.base = r.base
  PROVE  OneMore(r, m, q)
<1> DEFINE ms == r.messages
           past == r.base
           tail == TailFrom(ms, past)
<1>1. ms \in Seq(Messages) /\ past \in Nat /\ past <= Len(ms)
  OBVIOUS
<1> HIDE DEF ms, past
<1>2. /\ Append(ms, m) \in Seq(Messages) /\ past <= Len(Append(ms, m))
      /\ Append(ms, m) # <<>> /\ Last(Append(ms, m)) = m
      /\ TailFrom(Append(ms, m), past) = Append(tail, m)
  BY <1>1, TailFromAppend
<1>3. tail \in Seq(Messages)
  BY <1>1, TailFromIs
<1>4. tail = TailOf(r) /\ q.messages = Append(ms, m) /\ TailOf(q) = TailFrom(Append(ms, m), past) /\ q.base = past
  BY DEF ms, past, TailOf
<1> HIDE DEF tail
<1>5. Contains(Append(tail, m), m) /\ (\A x : Contains(tail, x) => Contains(Append(tail, m), x))
      /\ Front(Append(tail, m)) = tail
  BY <1>3, AppendContains, AppendIs
<1>6. QED
  BY <1>2, <1>3, <1>4, <1>5 DEF OneMore

LEMMA CallToolSolo ==
  ASSUME SavedInv, Solo, NEW t \in Turns, CallTool(t)
  PROVE  Solo'
<1> DEFINE i == turn[run].iter + 1
           m == Call(run, i)
           r == TurnOf("tool", turn[run].iter, turn[run].base, Append(turn[run].messages, m), turn[run].stop)
           c == [message |-> m, completed |-> <<>>, pending |-> <<i>>]
<1>1. turn[t].pc = "model" /\ turn[t].pc \in Running /\ turn[t].iter + 1 \in 1 .. MaxIterations
      /\ turn[t].iter + 1 \in 0 .. MaxIterations /\ turn[t].iter < plan.iterations
  BY AskFacts DEF CallTool
<1>2. /\ t = run /\ run \in Prompts /\ run \in Turns /\ phase # "idle"
      /\ cache = file /\ Asking(run, turn[run])
      /\ turn[run].messages \in Seq(Messages) /\ turn[run].base \in Nat
  BY <1>1, AgentFacts
<1>3. m \in Messages /\ m.turn = run /\ m # NoMessage
  BY <1>1, <1>2, MessageTypes, SessionBounds DEF Call, Message, NoMessage
<1>4. /\ Becomes(run, r) /\ Checkpoint(m, <<>>, <<i>>) /\ emitted' = [emitted EXCEPT ![run] = m]
      /\ UNCHANGED <<phase, run, consol, background, noted, subs, inbound>>
  BY <1>2, CallToolIs DEF SavedInv, CallTool, process, memory
<1>5. <<>> \in Seq(Messages) /\ <<i>> \in Seq(1 .. MaxIterations) /\ Len(<<>>) + Len(<<i>>) <= 1
  BY <1>1, <1>2, EmptySeq
<1>6. r.pc = "tool" /\ r.iter = turn[run].iter /\ r.base = turn[run].base /\ r.messages = Append(turn[run].messages, m)
  BY DEF TurnOf
<1>7. NoneOrStep(c, run)
  BY <1>1, <1>2 DEF NoneOrStep, StepCheckpoint
<1>8. r \in TurnRecords
  <2>1. Append(turn[run].messages, m) \in Seq(Messages)
    BY <1>2, <1>3, AppendProperties
  <2> HIDE DEF m
  <2>2. QED
    BY <1>2, <2>1, TurnFacts DEF SavedInv, TurnOf, TurnRecords, Running
<1> DEFINE pending == <<i>>
<1>9. c = [message |-> m, completed |-> <<>>, pending |-> pending] /\ Checkpoint(m, <<>>, pending)
      /\ pending \in Seq(1 .. MaxIterations) /\ Len(<<>>) + Len(pending) <= 1
  BY <1>4, <1>5
<1>10. m = Call(run, turn[run].iter + 1)
  OBVIOUS
<1> HIDE DEF i, m, r, c, pending
<1>11. IsSaved(file') /\ cache' = file' /\ file'.messages = file.messages /\ file'.checkpoint = c
  <2>1. turn[run].pc \in Running
    BY <1>1, <1>2
  <2>2. IsSaved(file') /\ cache' = file' /\ file'.messages = cache.messages
        /\ file'.checkpoint = [message |-> m, completed |-> <<>>, pending |-> pending]
    BY <1>2, <1>3, <1>4, <1>5, <1>9, <2>1, CheckpointKept
  <2>3. QED
    BY <1>2, <1>9, <2>2
<1>12. emitted'[run] = m /\ file'.checkpoint.message = m /\ \A u \in Turns : u # run => emitted'[u] = emitted[u]
  BY <1>2, <1>4, <1>9, <1>11, RunFacts
<1>13. OneTurn(r)
  BY <1>4, <1>12 DEF OneTurn
<1>14. /\ r.base <= Len(r.messages) /\ TailOf(r) = Append(TailOf(turn[run]), m)
       /\ Contains(TailOf(r), m) /\ Front(TailOf(r)) = TailOf(turn[run])
  <2>1. turn[run].base <= Len(turn[run].messages)
    BY <1>2 DEF Asking
  <2>2. OneMore(turn[run], m, r)
    BY <1>2, <1>3, <1>6, <2>1, MessageMore
  <2>3. QED
    BY <2>2 DEF OneMore
<1>15. Calling(run, r, emitted'[run])
  BY <1>2, <1>6, <1>10, <1>12, <1>14 DEF Asking, Calling
<1>16. turn[run].pc \in {"model", "tool", "closing"} /\ r.pc \in {"model", "tool", "closing"}
       /\ r.pc # "model" /\ r.pc # "closing" /\ NoneOrStep(file'.checkpoint, run)
  BY <1>1, <1>2, <1>6, <1>7, <1>11
<1>17. QED
  BY <1>2, <1>3, <1>8, <1>11, <1>12, <1>13, <1>14, <1>15, <1>16, OneTurnSolo

LEMMA ToolReturnsSolo ==
  ASSUME SavedInv, Solo, plan.spawns = 0, NEW t \in Turns, ToolReturns(t)
  PROVE  Solo'
<1> DEFINE i == turn[run].iter + 1
           a == Call(run, i)
           m == Result(run, i)
           r == TurnOf("model", i, turn[run].base, Append(turn[run].messages, m), turn[run].stop)
           c == [message |-> a, completed |-> <<m>>, pending |-> <<>>]
<1>1. turn[t].pc = "tool" /\ turn[t].pc \in Running /\ turn[t].iter + 1 \in 1 .. MaxIterations
      /\ turn[t].iter + 1 \in 0 .. MaxIterations
  BY ToolFacts DEF ToolReturns
<1>2. /\ t = run /\ run \in Prompts /\ run \in Turns /\ phase # "idle"
      /\ cache = file /\ Calling(run, turn[run], emitted[run])
      /\ Started(run, turn[run], cache, file, emitted[run])
      /\ turn[run].messages \in Seq(Messages) /\ turn[run].base \in Nat
      /\ emitted[run] # NoMessage => emitted[run].turn = run
      /\ TailOf(turn[run]) \in Seq(Messages)
  BY <1>1, AgentFacts
<1>3. m \in Messages /\ a \in Messages /\ m.role = "tool"
  BY <1>1, <1>2, MessageTypes DEF Result, Message
<1>4. /\ Becomes(run, r) /\ Checkpoint(a, <<m>>, <<>>)
      /\ UNCHANGED <<phase, run, consol, background, noted, emitted, inbound>>
  BY <1>2, ToolReturnsIs DEF SavedInv, ToolReturns, process, memory
<1>5. subs' = subs
  <2>1. SUFFICES ASSUME NEW b \in Announcements, Spawn(b) PROVE FALSE
    BY DEF ToolReturns
  <2>2. {d \in Announcements : subs[d] # "unborn"} = {}
    BY DEF Solo, AloneInv
  <2>3. Cardinality({}) < 0
    BY <2>1, <2>2 DEF Spawn
  <2>4. QED
    BY <2>3, FS_EmptySet
<1>6. r.pc = "model" /\ r.iter = i /\ r.base = turn[run].base /\ r.messages = Append(turn[run].messages, m)
  BY DEF TurnOf
<1>7. NoneOrStep(c, run)
  BY <1>1, <1>2 DEF NoneOrStep, StepCheckpoint
<1>8. r \in TurnRecords
  <2>1. Append(turn[run].messages, m) \in Seq(Messages)
    BY <1>2, <1>3, AppendProperties
  <2> HIDE DEF m, i
  <2>2. i \in 0 .. MaxIterations
    BY <1>1, <1>2 DEF i
  <2>3. QED
    BY <1>2, <2>1, <2>2, TurnFacts DEF SavedInv, TurnOf, TurnRecords, Running
<1> DEFINE completed == <<m>>
           pending == <<>>
<1>9. /\ c = [message |-> a, completed |-> completed, pending |-> pending] /\ Checkpoint(a, completed, pending)
      /\ completed \in Seq(Messages) /\ pending \in Seq(1 .. MaxIterations) /\ Len(completed) + Len(pending) <= 1
  <2> HIDE DEF m
  <2>1. QED
    BY <1>3, <1>4, EmptySeq DEF c
<1>10. m = Result(run, turn[run].iter + 1) /\ a = Call(run, turn[run].iter + 1) /\ i = turn[run].iter + 1
  OBVIOUS
<1> HIDE DEF i, a, m, r, c, pending, completed
<1>11. IsSaved(file') /\ cache' = file' /\ file'.messages = file.messages /\ file'.checkpoint = c
  <2>1. turn[run].pc \in Running
    BY <1>1, <1>2
  <2>2. IsSaved(file') /\ cache' = file' /\ file'.messages = cache.messages
        /\ file'.checkpoint = [message |-> a, completed |-> completed, pending |-> pending]
    BY <1>2, <1>3, <1>4, <1>9, <2>1, CheckpointKept
  <2>3. QED
    BY <1>2, <1>9, <2>2
<1>12. emitted'[run] = a /\ file'.checkpoint.message = a /\ \A u \in Turns : u # run => emitted'[u] = emitted[u]
  BY <1>2, <1>4, <1>9, <1>10, <1>11 DEF Calling
<1>13. OneTurn(r)
  BY <1>4, <1>5, <1>12 DEF OneTurn
<1>14. /\ r.base <= Len(r.messages) /\ TailOf(r) = Append(TailOf(turn[run]), m)
       /\ r.messages # <<>> /\ Last(r.messages) = m
       /\ \A x : Contains(TailOf(turn[run]), x) => Contains(TailOf(r), x)
  <2>1. turn[run].base <= Len(turn[run].messages)
    BY <1>2 DEF Calling
  <2>2. OneMore(turn[run], m, r)
    BY <1>2, <1>3, <1>6, <2>1, MessageMore
  <2>3. QED
    BY <2>2 DEF OneMore
<1>15. OpenLog(TailOf(r), run, i)
  <2> DEFINE front == Front(TailOf(turn[run]))
             n == turn[run].iter
  <2>1. TailOf(turn[run]) = Append(front, a) /\ OpenLog(front, run, n)
    BY <1>2, <1>10 DEF Calling
  <2>2. front \in Seq(Messages)
    <3> DEFINE tail == TailOf(turn[run])
               l == Len(tail) - 1
    <3>1. tail \in Seq(Messages) /\ Len(tail) \in Nat /\ front = SubSeq(tail, 1, l)
      BY <1>2, LenProperties DEF Front
    <3>2. l \in Int /\ 1 \in Int /\ \A j \in 1 .. l : tail[j] \in Messages
      <4> HIDE DEF tail
      <4>1. \A j \in 1 .. l : j \in 1 .. Len(tail)
        BY <3>1
      <4>2. QED
        BY <3>1, <4>1, ElementOfSeq
    <3> HIDE DEF tail, l, front
    <3>3. QED
      BY <3>1, <3>2, SubSeqProperties
  <2>3. n \in 0 .. MaxIterations /\ n + 1 \in 0 .. MaxIterations /\ i = n + 1
    BY <1>1, <1>2, <1>10, TurnFacts DEF SavedInv
  <2> HIDE DEF front, n
  <2>4. OpenLog(Append(Append(front, Call(run, n + 1)), Result(run, n + 1)), run, n + 1)
    BY <1>2, <2>1, <2>2, <2>3, CallAndResult
  <2>5. QED
    BY <1>10, <1>14, <2>1, <2>3, <2>4 DEF n
<1>16. Asking(run, r)
  BY <1>3, <1>6, <1>14, <1>15 DEF Asking
<1>17. emitted'[run] # NoMessage =>
           /\ emitted'[run].turn = run /\ emitted'[run] = file'.checkpoint.message
           /\ Contains(TailOf(r), emitted'[run])
  <2>1. emitted'[run] = emitted[run]
    BY <1>4
  <2>2. QED
    BY <1>2, <1>12, <1>14, <2>1 DEF Started
<1>18. turn[run].pc \in {"model", "tool", "closing"} /\ r.pc \in {"model", "tool", "closing"}
       /\ r.pc # "tool" /\ r.pc # "closing" /\ NoneOrStep(file'.checkpoint, run)
  BY <1>1, <1>2, <1>6, <1>7, <1>11
<1>19. QED
  BY <1>2, <1>8, <1>11, <1>13, <1>16, <1>17, <1>18, OneTurnSolo

LEMMA MalformedCallSolo ==
  ASSUME SavedInv, Solo, NEW t \in Turns, MalformedCall(t)
  PROVE  Solo'
<1> DEFINE n == turn[run].iter
           r == TurnOf("model", n + 1, turn[run].base, turn[run].messages, turn[run].stop)
<1>1. turn[t].pc = "model" /\ turn[t].pc \in Running /\ turn[t].iter + 1 \in 0 .. MaxIterations
  BY AskFacts DEF MalformedCall
<1>2. /\ t = run /\ run \in Prompts /\ run \in Turns /\ phase # "idle"
      /\ cache = file /\ Asking(run, turn[run])
      /\ Started(run, turn[run], cache, file, emitted[run])
      /\ n \in Nat /\ TailOf(turn[run]) \in Seq(Messages)
      /\ emitted[run] # NoMessage => emitted[run].turn = run
  BY <1>1, AgentFacts
<1>3. /\ Becomes(run, r)
      /\ UNCHANGED <<phase, run, file, cache, consol, background, noted, emitted, subs, inbound>>
  <2>1. Becomes(run, TurnOf(turn[run].pc, n + 1, turn[run].base, turn[run].messages, turn[run].stop))
    BY <1>2, MalformedCallIs DEF SavedInv
  <2>2. QED
    BY <1>1, <1>2, <2>1 DEF MalformedCall, process, session, memory
<1>4. r.pc = "model" /\ r.iter = n + 1 /\ r.base = turn[run].base /\ r.messages = turn[run].messages
      /\ TailOf(r) = TailOf(turn[run])
  BY FieldsOf DEF TailOf
<1>5. r \in TurnRecords
  BY <1>1, <1>2, TurnFacts DEF SavedInv, TurnOf, TurnRecords, Running
<1> HIDE DEF r
<1>6. OneTurn(r)
  BY <1>3 DEF OneTurn
<1>7. Asking(run, r)
  <2>1. OpenLog(TailOf(turn[run]), run, n + 1)
    <3> HIDE DEF n
    <3>1. OpenLog(TailOf(turn[run]), run, n)
      BY <1>2 DEF Asking, n
    <3>2. QED
      BY <1>2, <3>1, OpenLater
  <2>2. QED
    BY <1>2, <1>4, <2>1 DEF Asking
<1>8. /\ IsSaved(file') /\ cache' = file' /\ file'.messages = file.messages /\ NoneOrStep(file'.checkpoint, run)
      /\ emitted'[run] # NoMessage =>
           /\ emitted'[run].turn = run /\ emitted'[run] = file'.checkpoint.message
           /\ Contains(TailOf(r), emitted'[run])
  BY <1>2, <1>3, <1>4, RunFacts DEF Started
<1>9. turn[run].pc \in {"model", "tool", "closing"} /\ r.pc \in {"model", "tool", "closing"}
      /\ r.pc # "tool" /\ r.pc # "closing"
  BY <1>1, <1>2, <1>4
<1>10. QED
  BY <1>2, <1>5, <1>6, <1>7, <1>8, <1>9, OneTurnSolo

LEMMA AnswerSolo ==
  ASSUME SavedInv, Solo, NEW t \in Turns, Answer(t)
  PROVE  Solo'
<1> DEFINE m == Final(run)
           r == TurnOf("closing", turn[run].iter, turn[run].base, Append(turn[run].messages, m), "completed")
           c == [message |-> m, completed |-> <<>>, pending |-> <<>>]
<1>1. turn[t].pc = "model" /\ turn[t].pc \in Running
  BY AskFacts DEF Answer
<1>2. /\ t = run /\ run \in Prompts /\ run \in Turns /\ phase # "idle"
      /\ cache = file /\ Asking(run, turn[run])
      /\ turn[run].messages \in Seq(Messages) /\ turn[run].base \in Nat /\ turn[run].iter \in Nat
  BY <1>1, AgentFacts
<1>3. m \in Messages /\ m.turn = run /\ m # NoMessage
  BY <1>2, MessageTypes, SessionBounds DEF Final, Message, NoMessage
<1>4. /\ Becomes(run, r) /\ Checkpoint(m, <<>>, <<>>) /\ emitted' = [emitted EXCEPT ![run] = m]
      /\ UNCHANGED <<phase, run, consol, background, noted, subs, inbound>>
  BY <1>2, AnswerIs DEF SavedInv, Answer, process, memory
<1>5. r.pc = "closing" /\ r.base = turn[run].base /\ r.messages = Append(turn[run].messages, m)
  BY DEF TurnOf
<1>6. NoneOrStep(c, run)
  BY DEF NoneOrStep, StepCheckpoint
<1>7. r \in TurnRecords
  <2>1. Append(turn[run].messages, m) \in Seq(Messages)
    BY <1>2, <1>3, AppendProperties
  <2> HIDE DEF m
  <2>2. QED
    BY <1>2, <2>1, TurnFacts DEF SavedInv, TurnOf, TurnRecords, Running
<1> DEFINE completed == <<>>
           pending == <<>>
<1>8. /\ c = [message |-> m, completed |-> completed, pending |-> pending] /\ Checkpoint(m, completed, pending)
      /\ completed \in Seq(Messages) /\ pending \in Seq(1 .. MaxIterations) /\ Len(completed) + Len(pending) <= 1
  BY <1>4, EmptySeq
<1>9. m = Final(run)
  OBVIOUS
<1> HIDE DEF m, r, c, pending, completed
<1>10. IsSaved(file') /\ cache' = file' /\ file'.messages = file.messages /\ file'.checkpoint = c
  <2>1. turn[run].pc \in Running
    BY <1>1, <1>2
  <2>2. IsSaved(file') /\ cache' = file' /\ file'.messages = cache.messages
        /\ file'.checkpoint = [message |-> m, completed |-> completed, pending |-> pending]
    BY <1>2, <1>3, <1>4, <1>8, <2>1, CheckpointKept
  <2>3. QED
    BY <1>2, <1>8, <2>2
<1>11. emitted'[run] = m /\ file'.checkpoint.message = m /\ \A u \in Turns : u # run => emitted'[u] = emitted[u]
  BY <1>2, <1>4, <1>8, <1>10, RunFacts
<1>12. OneTurn(r)
  BY <1>4, <1>11 DEF OneTurn
<1>13. TailOf(r) = Append(TailOf(turn[run]), m) /\ Contains(TailOf(r), m) /\ TailOf(turn[run]) \in Seq(Messages)
  <2>1. turn[run].base <= Len(turn[run].messages)
    BY <1>2 DEF Asking
  <2>2. OneMore(turn[run], m, r)
    BY <1>2, <1>3, <1>5, <2>1, MessageMore
  <2>3. QED
    BY <2>2 DEF OneMore
<1>14. ClosedLog(TailOf(r), run)
  BY <1>2, <1>9, <1>13, FinalCloses DEF Asking
<1>15. turn[run].pc \in {"model", "tool", "closing"} /\ r.pc \in {"model", "tool", "closing"}
       /\ r.pc # "model" /\ r.pc # "tool" /\ NoneOrStep(file'.checkpoint, run)
  BY <1>1, <1>2, <1>5, <1>6, <1>10
<1>16. QED
  BY <1>2, <1>3, <1>7, <1>10, <1>11, <1>12, <1>13, <1>14, <1>15, OneTurnSolo

LEMMA GiveUpSolo ==
  ASSUME SavedInv, Solo, NEW t \in Turns, GiveUp(t)
  PROVE  Solo'
<1> DEFINE m == Final(run)
<1>1. turn[t].pc = "model" /\ turn[t].pc \in Running
  BY DEF GiveUp, Running
<1>2. /\ t = run /\ run \in Prompts /\ run \in Turns /\ phase # "idle"
      /\ cache = file /\ Asking(run, turn[run])
      /\ Started(run, turn[run], cache, file, emitted[run])
      /\ turn[run].messages \in Seq(Messages) /\ turn[run].base \in Nat /\ turn[run].iter \in Nat
      /\ emitted[run] # NoMessage => emitted[run].turn = run
  BY <1>1, AgentFacts
<1>3. m \in Messages
  BY <1>2, MessageTypes
<1>4. AppendFinal(turn[run].messages, run) = Append(turn[run].messages, m)
  BY <1>2 DEF Asking, AppendFinal
<1>5. PICK stop \in {"error", "empty_final_response", "max_iterations"} :
        Becomes(run, TurnOf("closing", turn[run].iter, turn[run].base, Append(turn[run].messages, m), stop))
  BY <1>2, <1>4, GiveUpIs DEF SavedInv
<1> DEFINE r == TurnOf("closing", turn[run].iter, turn[run].base, Append(turn[run].messages, m), stop)
<1>6. /\ Becomes(run, r)
      /\ UNCHANGED <<phase, run, file, cache, consol, background, noted, emitted, subs, inbound>>
  BY <1>5 DEF GiveUp, process, session, memory
<1>7. r.pc = "closing" /\ r.base = turn[run].base /\ r.messages = Append(turn[run].messages, m)
  BY DEF TurnOf
<1>8. r \in TurnRecords
  <2>1. Append(turn[run].messages, m) \in Seq(Messages)
    BY <1>2, <1>3, AppendProperties
  <2> HIDE DEF m
  <2>2. QED
    BY <1>2, <2>1, TurnFacts DEF SavedInv, TurnOf, TurnRecords, Running
<1>9. m = Final(run)
  OBVIOUS
<1> HIDE DEF m, r
<1>10. OneTurn(r)
  BY <1>6 DEF OneTurn
<1>11. /\ TailOf(r) = Append(TailOf(turn[run]), m) /\ TailOf(turn[run]) \in Seq(Messages)
       /\ \A x : Contains(TailOf(turn[run]), x) => Contains(TailOf(r), x)
  <2>1. turn[run].base <= Len(turn[run].messages)
    BY <1>2 DEF Asking
  <2>2. OneMore(turn[run], m, r)
    BY <1>2, <1>3, <1>7, <2>1, MessageMore
  <2>3. QED
    BY <2>2 DEF OneMore
<1>12. ClosedLog(TailOf(r), run)
  BY <1>2, <1>9, <1>11, FinalCloses DEF Asking
<1>13. /\ IsSaved(file') /\ cache' = file' /\ file'.messages = file.messages /\ NoneOrStep(file'.checkpoint, run)
       /\ emitted'[run] # NoMessage =>
            /\ emitted'[run].turn = run /\ emitted'[run] = file'.checkpoint.message
            /\ Contains(TailOf(r), emitted'[run])
  BY <1>2, <1>6, <1>11, RunFacts DEF Started
<1>14. turn[run].pc \in {"model", "tool", "closing"} /\ r.pc \in {"model", "tool", "closing"}
       /\ r.pc # "model" /\ r.pc # "tool"
  BY <1>1, <1>2, <1>7
<1>15. QED
  BY <1>2, <1>8, <1>10, <1>12, <1>13, <1>14, OneTurnSolo

LEMMA CloseTurnSolo ==
  ASSUME SavedInv, Solo, NEW t \in Turns, CloseTurn(t)
  PROVE  Solo'
<1> DEFINE r == TurnOf("done", turn[run].iter, turn[run].base, turn[run].messages, turn[run].stop)
           tail == TailOf(turn[run])
<1>1. turn[t].pc = "closing" /\ turn[t].pc \in Running
  BY DEF CloseTurn, Running
<1>2. /\ t = run /\ run \in Prompts /\ run \in Turns /\ phase # "idle" /\ run \in Nat
      /\ cache = file /\ ClosedLog(tail, run) /\ tail \in Seq(Messages) /\ TurnTail(run) = tail
      /\ Started(run, turn[run], cache, file, emitted[run])
      /\ emitted[run] # NoMessage => emitted[run].turn = run
  BY <1>1, AgentFacts
<1>3. /\ SaveTurn(run) /\ Goto(run, "done") /\ background' = background \cup {run}
      /\ UNCHANGED <<phase, run, consol, noted, subs, emitted, inbound>>
  BY <1>2 DEF CloseTurn, process
<1>4. /\ IsSaved(file') /\ cache' = file' /\ file'.messages = file.messages \o tail
      /\ file'.checkpoint = NoCheckpoint
  BY <1>1, <1>2, <1>3, SaveTurnKept
<1>5. Becomes(run, r) /\ r \in TurnRecords /\ r.pc = "done"
  <2>1. Becomes(run, r)
    BY <1>2, <1>3, GotoIs DEF SavedInv
  <2>2. r \in TurnRecords
    BY <1>2, TurnFacts DEF SavedInv, TurnOf, TurnRecords, Ended
  <2>3. QED
    BY <2>1, <2>2 DEF TurnOf
<1> HIDE DEF r, tail
<1>6. OneTurn(r)
  BY <1>3, <1>5 DEF OneTurn
<1>7. AloneInv'
  <2>1. turn[run].pc \in {"lock", "gate", "model", "tool", "closing"}
    BY <1>1, <1>2
  <2>2. QED
    BY <1>2, <1>5, <1>6, <2>1, OneTurnAlone
<1>8. file.messages \in Seq(Messages) /\ WellFormed(file.messages) /\ Before(file.messages, run)
  BY <1>2, RunFacts DEF Solo, FileInv, FileHolds, Started
<1>9. WellFormed(file.messages \o tail) /\ Before(file.messages \o tail, run + 1)
  BY <1>2, <1>8, TurnAdded
<1>10. FileInv'
  BY <1>3, <1>4, <1>9 DEF FileInv, FileHolds
<1>11. EmittedInv'
  <2>1. NoneOrStep(file.checkpoint, run) /\ IsPrefix(file.messages, file'.messages)
    BY <1>2, <1>4, <1>8, PrefixOfConcat DEF Started
  <2>2. emitted'[run] # NoMessage => emitted'[run].turn = run /\ OnRecord(file', emitted'[run])
    <3>1. SUFFICES ASSUME emitted[run] # NoMessage PROVE emitted[run].turn = run /\ OnRecord(file', emitted[run])
      BY <1>3
    <3>2. Contains(tail, emitted[run])
      BY <1>2, <3>1 DEF Started, tail
    <3>3. Contains(file.messages \o tail, emitted[run])
      BY <1>2, <1>8, <3>2, ContainsIs
    <3>4. QED
      BY <1>2, <1>4, <3>1, <3>3 DEF OnRecord
  <2>3. \A u \in Turns : u # run => emitted'[u] = emitted[u]
    BY <1>3
  <2>4. QED
    BY <1>2, <1>4, <2>1, <2>2, <2>3, EmittedKept
<1>12. TurnInv'
  <2>1. turn'[run] = r
    BY <1>2, <1>5, TurnSet, RunFacts
  <2>2. AtTurn(run, r, cache', file', emitted'[run])
    BY <1>4, <1>5 DEF AtTurn, Running
  <2>3. QED
    BY <1>3, <2>1, <2>2 DEF TurnInv
<1>13. QED
  BY <1>7, <1>10, <1>11, <1>12 DEF Solo

\* A turn that raises saves nothing: its checkpoint stays for the next process.
LEMMA FailTurnSolo ==
  ASSUME SavedInv, Solo, NEW t \in Turns, FailTurn(t)
  PROVE  Solo'
<1> DEFINE r == TurnOf("failed", turn[run].iter, turn[run].base, turn[run].messages, turn[run].stop)
<1>1. turn[t].pc \in {"model", "tool", "closing"}
  BY DEF FailTurn
<1>2. t = run /\ run \in Prompts /\ run \in Turns /\ phase # "idle"
  BY <1>1, AgentFacts
<1>3. /\ Goto(run, "failed")
      /\ UNCHANGED <<phase, run, file, consol, background, subs, emitted, inbound>>
  BY <1>2 DEF FailTurn, process, memory
<1>4. Becomes(run, r) /\ r \in TurnRecords /\ r.pc = "failed"
  <2>1. Becomes(run, r)
    BY <1>2, <1>3, GotoIs DEF SavedInv
  <2>2. r \in TurnRecords
    BY <1>2, TurnFacts DEF SavedInv, TurnOf, TurnRecords, Ended
  <2>3. QED
    BY <2>1, <2>2 DEF TurnOf
<1> HIDE DEF r
<1>5. OneTurn(r)
  BY <1>3, <1>4 DEF OneTurn
<1>6. AloneInv'
  <2>1. turn[run].pc \in {"lock", "gate", "model", "tool", "closing"}
    BY <1>1, <1>2
  <2>2. QED
    BY <1>2, <1>4, <1>5, <2>1, OneTurnAlone
<1>7. FileInv' /\ EmittedInv'
  BY <1>3 DEF Solo, FileInv, EmittedInv
<1>8. TurnInv'
  <2>1. turn'[run] = r
    BY <1>2, <1>4, TurnSet, RunFacts
  <2>2. AtTurn(run, r, cache', file', emitted'[run])
    BY <1>4 DEF AtTurn, Running
  <2>3. QED
    BY <1>3, <2>1, <2>2 DEF TurnInv
<1>9. QED
  BY <1>6, <1>7, <1>8 DEF Solo

LEMMA SoloInit ==
  ASSUME SessionInit
  PROVE  Solo
<1>1. /\ phase = "idle" /\ run = 0 /\ inbound = <<>> /\ background = {} /\ consol.turn = 0
      /\ cache = NotLoaded /\ file = EmptySession
      /\ subs = [a \in Announcements |-> "unborn"] /\ emitted = [t \in Turns |-> NoMessage]
      /\ turn = [t \in Turns |-> NoTurn]
  BY DEF SessionInit
<1>2. /\ \A a \in Announcements : subs[a] = "unborn" /\ turn[a].pc = "idle" /\ emitted[a] = NoMessage
      /\ \A t \in Prompts : turn[t].pc \in Ended /\ turn[t] = NoTurn /\ emitted[t] = NoMessage
  BY <1>1, SessionBounds DEF NoTurn, Ended
<1>3. AloneInv
  BY <1>1, <1>2 DEF AloneInv
<1>4. file.messages = <<>> /\ file.checkpoint = NoCheckpoint
  BY <1>1 DEF EmptySession
<1>5. WellFormed(<<>>) /\ Before(<<>>, run + 1)
  <2> DEFINE none == <<>>
  <2>1. none \in Seq(Messages) /\ 1 .. Len(none) = {}
    BY EmptySeq
  <2> HIDE DEF none
  <2>2. IsInjective(none) /\ Paired(none) /\ InOrder(none) /\ Before(none, run + 1)
    BY <2>1, InjectiveIs DEF Paired, InOrder, Before
  <2>3. WellFormed(none) /\ Before(none, run + 1)
    BY <2>2 DEF WellFormed
  <2>4. QED
    BY <2>3 DEF none
<1>6. FileInv
  BY <1>4, <1>5 DEF FileInv, FileHolds
<1>7. EmittedInv /\ TurnInv
  BY <1>1, <1>2 DEF EmittedInv, EmittedHeld, TurnInv
<1>8. QED
  BY <1>3, <1>6, <1>7 DEF Solo

LEMMA SoloStep ==
  ASSUME SavedInv, Solo, plan.spawns = 0, [SessionNext]_sessionVars
  PROVE  Solo'
<1>1. CASE SessionNext
  <2>1. CASE StartRun
    BY <2>1, StartRunSolo
  <2>2. CASE Host
    BY <2>2, HostSolo, ProcessEndSolo DEF Host
  <2>3. CASE Crash
    BY <2>3, ProcessEndSolo
  <2>4. CASE Consume
    BY <2>4, ConsumeSolo
  <2>5. CASE Consolidate
    BY <2>5, StartConsolidationSolo, NoConsolidationSolo, FinishRoundSolo, AbandonRoundSolo DEF Consolidate
  <2>6. ASSUME NEW t \in Turns, Step(t) PROVE Solo'
    BY <2>6, AcquireLockSolo, BeginTurnSolo, CallToolSolo, ToolReturnsSolo, MalformedCallSolo,
       AnswerSolo, GiveUpSolo, CloseTurnSolo DEF Step
  <2>7. ASSUME NEW t \in Turns, FailTurn(t) PROVE Solo'
    BY <2>7, FailTurnSolo
  <2>8. ASSUME NEW a \in Announcements, Announce(a) PROVE Solo'
    BY <2>8 DEF Announce, Solo, AloneInv
  <2>9. QED
    BY <1>1, <2>1, <2>2, <2>3, <2>4, <2>5, <2>6, <2>7, <2>8 DEF SessionNext
<1>2. CASE UNCHANGED sessionVars
  <2>1. UNCHANGED <<phase, run, turn, cache, file, consol, background, emitted, subs, inbound>>
    BY <1>2 DEF sessionVars, process, session, memory
  <2>2. QED
    BY <2>1, SoloUnmoved
<1>3. QED
  BY <1>1, <1>2

LEMMA PlanKept ==
  ASSUME [SessionNext]_sessionVars
  PROVE  plan' = plan
<1>1. CASE SessionNext
  <2>1. CASE StartRun \/ Host \/ Crash \/ Consume
    BY <2>1 DEF StartRun, Host, Collect, TakeResult, LoopExits, Report, Exit, Crash, Consume, bounds
  <2>2. CASE Consolidate
    BY <2>2 DEF Consolidate, StartConsolidation, NoConsolidation, FinishRound, AbandonRound, bounds
  <2>3. ASSUME NEW t \in Turns, Step(t) \/ FailTurn(t) PROVE plan' = plan
    BY <2>3 DEF Step, AcquireLock, BeginTurn, CallTool, ToolReturns, MalformedCall, Answer, GiveUp,
       CloseTurn, FailTurn, bounds
  <2>4. ASSUME NEW a \in Announcements, Announce(a) PROVE plan' = plan
    BY <2>4 DEF Announce, bounds
  <2>5. QED
    BY <1>1, <2>1, <2>2, <2>3, <2>4 DEF SessionNext
<1>2. CASE UNCHANGED sessionVars
  BY <1>2 DEF sessionVars, bounds
<1>3. QED
  BY <1>1, <1>2

\* Without subagents there is one turn at a time, its record, the cached and the saved
\* session agree on how far it is, and the file holds the turns before it in order.
THEOREM SessionAlone == SessionSpec => [](SavedInv /\ SoloInv)
<1>1. SessionInit => SavedInv /\ SoloInv
  BY SavedInit, SoloInit DEF SoloInv
<1>2. SavedInv /\ SoloInv /\ [SessionNext]_sessionVars => SavedInv' /\ SoloInv'
  BY SavedStep, SoloStep, PlanKept DEF SoloInv
<1>3. QED
  BY <1>1, <1>2, PTL DEF SessionSpec

\* Without subagents the saved history is one a provider accepts, whatever crashed,
\* raised or was resumed before: no message twice, every call followed at once by its
\* one result, every result preceded by its call, the turns in order
\* (`_restore_runtime_checkpoint` and its overlap).
THEOREM SessionHistoryWellFormed == SessionSpec => []HistoryWellFormed
<1>1. SavedInv /\ SoloInv => HistoryWellFormed
  BY DEF SoloInv, Solo, FileInv, FileHolds, WellFormed, Paired, InOrder, HistoryWellFormed
<1>2. QED
  BY <1>1, SessionAlone, PTL

\* The last step a turn checkpointed, a call whose tool may have changed the workspace
\* or the final response, stays on record across crashes, exceptions and resumes: in the
\* history or in the pending checkpoint (of a session without subagents;
\* `_set_runtime_checkpoint`, `_clear_runtime_checkpoint`).
THEOREM SessionLastStepOnRecord == SessionSpec => []LastStepOnRecord
<1>1. SavedInv /\ SoloInv => LastStepOnRecord
  <2>1. SUFFICES ASSUME SavedInv, Solo, NEW t \in Turns, emitted[t] # NoMessage
                 PROVE  \/ file.checkpoint.message = emitted[t]
                        \/ \E i \in 1 .. Len(file.messages) : file.messages[i] = emitted[t]
    BY DEF SoloInv, LastStepOnRecord
  <2>2. t \in Prompts
    BY <2>1, SessionBounds DEF Solo, AloneInv
  <2>3. QED
    BY <2>1, <2>2 DEF Solo, EmittedInv, EmittedHeld, OnRecord, Contains
<1>2. QED
  BY <1>1, SessionAlone, PTL
=============================================================================
