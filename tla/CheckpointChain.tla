--------------------------- MODULE CheckpointChain ---------------------------
(***************************************************************************)
(* Checkpoints of a recorded session and what a replay makes of them.      *)
(*                                                                         *)
(* After an exec tool call the recorder (TraceCollectorHook in             *)
(* src/src/agents/openclaw/_session_runner.py, or with a container         *)
(* run_container_checkpoint in _checkpoint_container.py) writes a manifest  *)
(* of the sandbox root: a full one, or the changes since the last one.     *)
(* Processes the tools left behind keep changing the root meanwhile.       *)
(*                                                                         *)
(* The replay (src/src/trace_collect/simulator.py) uses the manifests      *)
(* twice: it restores the chain that ends at an action into its container, *)
(* and it folds them into the contents the container is compared with.     *)
(***************************************************************************)
EXTENDS Integers, FiniteSets, Sequences

CONSTANTS
  Paths,            \* paths below the root
  Contents,         \* file contents, also the targets of symbolic links
  RebaselineBytes,  \* new blob bytes after which a full manifest is due
  Recorders,        \* how the root is read: "host", "container"
  Kinds,            \* what a path may become: "file", "link", "dir"
  MaxActions,       \* bound on the actions of the trace
  MaxChanges        \* bound on the changes of the root

ASSUME CheckpointChainAssumption ==
  /\ IsFiniteSet(Paths)
  /\ RebaselineBytes \in Nat
  /\ Recorders \subseteq {"host", "container"}
  /\ Kinds \subseteq {"file", "link", "dir"}
  /\ MaxActions \in Nat /\ MaxChanges \in Nat

VARIABLES
  recorder,    \* which recorder the session has
  root,        \* the sandbox root: an entry per path
  rootMtime,   \* when a name was last added to the root or removed from it
  now,         \* changes so far: the clock that mtimes are read from
  pc,          \* "idle", "begun", then "scanned", "written" or "listed", "walked", "rechecked"
  marker,      \* time at which the checkpoint under way began
  scan,        \* the snapshot of the checkpoint under way
  unread,      \* the files of it that changed and could not be read
  draft,       \* and its manifest
  base,        \* snapshot of the last committed checkpoint, or NoSnapshot
  chainBytes,  \* new blob bytes of the incremental manifests since a full one
  blobs,       \* contents in the content-addressed store
  trace,       \* actions of the trace: what they recorded, and the root then
  doubt        \* history: what base has and no manifest since it changed

vars == <<recorder, root, rootMtime, now, pc, marker, scan, unread, draft, base,
          chainBytes, blobs, trace, doubt>>

Absent == [kind |-> "none"]
Entries == {Absent}
  \cup [kind : {"file"}, data : Contents, exec : BOOLEAN, mtime : 0 .. MaxChanges]
  \cup [kind : {"link"}, data : Contents, mtime : 0 .. MaxChanges]
  \cup [kind : {"dir"}, mtime : 0 .. MaxChanges]

\* The type of a snapshot entry: a link is typed by its target.
EntryType(e) == IF e.kind = "link" THEN <<"link", e.data>> ELSE <<e.kind>>

\* What a manifest says of an entry: directories are not in it.
ManifestEntry(e) ==
  CASE e.kind = "file" -> [kind |-> "file", data |-> e.data, exec |-> e.exec]
    [] e.kind = "link" -> [kind |-> "link", data |-> e.data]
    [] OTHER -> Absent
ManifestEntries == {ManifestEntry(e) : e \in Entries}
\* The files and links of a snapshot; and their contents, whatever their modes.
FilesOf(snapshot) == [p \in Paths |-> ManifestEntry(snapshot[p])]
WithoutMode(files) ==
  [p \in Paths |-> IF files[p].kind = "file"
                   THEN [kind |-> "file", data |-> files[p].data] ELSE files[p]]
Nothing == [p \in Paths |-> Absent]
NoSnapshot == [p \in Paths |-> [kind |-> "unread"]]

HasManifest(c) == c.kind \in {"full", "incremental"}
NoManifest(kind) == [kind |-> kind, entries |-> Nothing, deleted |-> {}, bytes |-> 0]

Init ==
  /\ recorder \in Recorders
  /\ root = [p \in Paths |-> Absent]
  /\ rootMtime = 0 /\ now = 0
  /\ pc = "idle"
  /\ marker = 0
  /\ scan = Nothing /\ unread = {}
  /\ draft = NoManifest("none")
  /\ base = NoSnapshot
  /\ chainBytes = 0
  /\ blobs = {}
  /\ trace = <<>>
  /\ doubt = {}
-----------------------------------------------------------------------------
(* The root changes at any time: a tool writes, or a process it left.      *)

\* A write, creation, replacement or removal; every one has a time of its own.
Change(p) ==
  /\ now < MaxChanges
  /\ now' = now + 1
  /\ \E e \in Entries :
       /\ e # root[p]
       /\ e.kind \in Kinds \cup {"none"}
       /\ e.kind # "none" => e.mtime = now + 1
       /\ e.kind = "file" => e.exec = (root[p].kind = "file" /\ root[p].exec)
       /\ root' = [root EXCEPT ![p] = e]
       /\ rootMtime' = IF EntryType(e) # EntryType(root[p]) THEN now + 1 ELSE rootMtime
  /\ UNCHANGED <<recorder, pc, marker, scan, unread, draft, base, chainBytes, blobs, trace, doubt>>

\* chmod leaves the mtime of the file alone.
Chmod(p) ==
  /\ now < MaxChanges
  /\ root[p].kind = "file"
  /\ now' = now + 1
  /\ root' = [root EXCEPT ![p].exec = ~ @]
  /\ UNCHANGED <<recorder, rootMtime, pc, marker, scan, unread, draft, base, chainBytes,
                 blobs, trace, doubt>>
-----------------------------------------------------------------------------
(* The recorder.                                                           *)

ChangedPaths(prev, cur) ==
  {p \in Paths : /\ cur[p].kind \in {"file", "link"}
                 /\ \/ prev[p].kind = "none"
                    \/ EntryType(prev[p]) # EntryType(cur[p])
                    \/ prev[p].mtime # cur[p].mtime}

DeletedPaths(prev, cur) ==
  {p \in Paths : prev[p].kind # "none" /\ EntryType(prev[p]) # EntryType(cur[p])}

ForceFull == base # NoSnapshot /\ chainBytes >= RebaselineBytes
IsFull == base = NoSnapshot \/ ForceFull

Unchanged(cur) ==
  /\ base # NoSnapshot
  /\ ChangedPaths(base, cur) = {}
  /\ DeletedPaths(base, cur) = {}

\* An action of the trace, the root at it and the paths the checkpoint is in
\* doubt about.
Record(checkpoint, snapshot, doubted) ==
  trace' = Append(trace, [checkpoint |-> checkpoint, root |-> snapshot, doubt |-> doubted])

\* The checkpoint under way ends, and with it what only it knew.
End ==
  pc' = "idle" /\ marker' = 0 /\ scan' = Nothing /\ unread' = {} /\ draft' = NoManifest("none")

\* An action whose tool is not a single exec command has no checkpoint.
OtherTool ==
  /\ pc = "idle"
  /\ Len(trace) < MaxActions
  /\ Record(NoManifest("none"), root, {})
  /\ UNCHANGED <<recorder, root, rootMtime, now, pc, marker, scan, unread, draft, base,
                 chainBytes, blobs, doubt>>

Begin ==
  /\ pc = "idle"
  /\ Len(trace) < MaxActions
  /\ pc' = "begun"
  /\ marker' = now
  /\ UNCHANGED <<recorder, root, rootMtime, now, scan, unread, draft, base, chainBytes,
                 blobs, trace, doubt>>

\* A checkpoint that fails is an error of its action; the base stays as it was.
Reject ==
  /\ End
  /\ Record(NoManifest("error"), root, {})
  /\ UNCHANGED <<recorder, root, rootMtime, now, base, chainBytes, blobs, doubt>>

\* Reading the root or writing the manifest raises.
HostFails == recorder = "host" /\ pc # "idle" /\ Reject

\* What the chain does not have behind a manifest: what was unread before and
\* is not in it, and what is unread now.
Doubted(manifest) ==
  (IF manifest.kind = "full" THEN {}
   ELSE {p \in doubt \ manifest.deleted : manifest.entries[p] = Absent}) \cup unread

Commit(manifest) ==
  /\ End
  /\ base' = scan
  /\ chainBytes' = IF manifest.kind = "full" THEN 0 ELSE chainBytes + manifest.bytes
  /\ doubt' = Doubted(manifest)
  /\ Record(manifest, scan, Doubted(manifest))

Manifest(paths, snapshot, deleted, stored) ==
  [kind |-> IF IsFull THEN "full" ELSE "incremental",
   entries |-> [p \in Paths |-> IF p \in paths THEN ManifestEntry(snapshot[p]) ELSE Absent],
   deleted |-> deleted,
   bytes |-> Cardinality(stored)]

FileContents(paths, snapshot) ==
  {snapshot[p].data : p \in {q \in paths : snapshot[q].kind = "file"}}
-----------------------------------------------------------------------------
(* The host recorder reads the root twice, for the snapshot and for the    *)
(* manifest, and gives up if anything is newer than the start.             *)

HostScan ==
  /\ recorder = "host"
  /\ pc = "begun"
  /\ IF Unchanged(root)
     THEN End /\ Record(NoManifest("skipped"), root, {})
     ELSE /\ pc' = "scanned"
          /\ scan' = root
          /\ UNCHANGED <<marker, unread, draft, trace>>
  /\ UNCHANGED <<recorder, root, rootMtime, now, base, chainBytes, blobs, doubt>>

HostWrite ==
  LET paths == IF IsFull THEN Paths ELSE ChangedPaths(base, scan)
      stored == FileContents(paths, root) \ blobs
  IN  /\ recorder = "host"
      /\ pc = "scanned"
      /\ draft' = Manifest(paths, root,
                           IF IsFull THEN {} ELSE DeletedPaths(base, scan), stored)
      /\ blobs' = blobs \cup stored
      /\ pc' = "written"
      /\ UNCHANGED <<recorder, root, rootMtime, now, marker, scan, unread, base,
                     chainBytes, trace, doubt>>

EntryNewer == \E p \in Paths : root[p].kind # "none" /\ root[p].mtime > marker

\* Mutant: only the entries are looked at, not the root.
HostCheckEntries ==
  /\ recorder = "host"
  /\ pc = "written"
  /\ ~ EntryNewer
  /\ Commit(draft)
  /\ UNCHANGED <<recorder, root, rootMtime, now, blobs>>

\* A change during the write removes the manifest again; see Reject.
HostCheck ==
  /\ recorder = "host"
  /\ pc = "written"
  /\ ~ EntryNewer /\ rootMtime <= marker
  /\ Commit(draft)
  /\ UNCHANGED <<recorder, root, rootMtime, now, blobs>>

HostReject ==
  /\ recorder = "host"
  /\ pc = "written"
  /\ EntryNewer \/ rootMtime > marker
  /\ Reject
-----------------------------------------------------------------------------
(* The container recorder hashes what changed in one walk, looks for newer *)
(* entries in a second, and fetches the contents it lacks in a third.      *)

\* The entries, as lstat has them.
ContainerList ==
  /\ recorder = "container"
  /\ pc = "begun"
  /\ scan' = root
  /\ pc' = "listed"
  /\ UNCHANGED <<recorder, root, rootMtime, now, marker, unread, draft, base, chainBytes,
                 blobs, trace, doubt>>

\* The entries that differ from the base, all of them for a full manifest.
Differing == IF IsFull THEN Paths ELSE ChangedPaths(base, scan)
ToRead == {p \in Differing : scan[p].kind = "file"}

\* The files that differ are read, as they are by then, through a link that took
\* a file's place too.  One that is gone by then, or cannot be read, stays among
\* the entries and is not among the changes: nobody is told.
ContainerRead ==
  /\ recorder = "container"
  /\ pc = "listed"
  /\ \E lost \in SUBSET ToRead, data \in [ToRead -> Contents] :
       /\ \A p \in ToRead \ lost :
            root[p].kind = "link" \/ (root[p].kind = "file" /\ data[p] = root[p].data)
       /\ \A p \in lost : data[p] = scan[p].data
       /\ unread' = lost
       /\ scan' = [p \in Paths |-> IF p \in ToRead THEN [scan[p] EXCEPT !.data = data[p]]
                                   ELSE scan[p]]
  /\ pc' = "walked"
  /\ UNCHANGED <<recorder, root, rootMtime, now, marker, draft, base, chainBytes, blobs, trace,
                 doubt>>

\* Without a usable Python, or when the script fails or is out of time, there is
\* no snapshot; nor when its second walk meets an entry that is gone.
SnapshotFails == recorder = "container" /\ pc \in {"begun", "listed", "walked"} /\ Reject

ContainerPaths == Differing \ unread
ContainerDeleted == IF base = NoSnapshot THEN {} ELSE DeletedPaths(base, scan)

\* Nothing to write: not the first manifest, not a rebaseline, no difference that
\* was read.
ContainerUnchanged == ~ IsFull /\ ContainerPaths = {} /\ ContainerDeleted = {}

ContainerRecheck ==
  /\ recorder = "container"
  /\ pc = "walked"
  /\ IF EntryNewer
     THEN End /\ Record(NoManifest("error"), root, {})
     ELSE IF ContainerUnchanged
     THEN End /\ Record(NoManifest("skipped"), scan, unread)
     ELSE /\ pc' = "rechecked"
          /\ UNCHANGED <<marker, scan, unread, draft, trace>>
  /\ UNCHANGED <<recorder, root, rootMtime, now, base, chainBytes, blobs, doubt>>

\* The files whose hash of the walk is not in the store yet.
Lacking == {p \in ContainerPaths : scan[p].kind = "file" /\ scan[p].data \notin blobs}

\* What the archive that is streamed out of the container has of a path, now:
\* only regular files are taken from it.
Streamed(p) == IF root[p].kind = "file" THEN {root[p].data} ELSE {}

\* A content fetched is verified against the hash of the walk.
Fetched == \A p \in Lacking : Streamed(p) = {scan[p].data}

FetchFails ==
  /\ recorder = "container"
  /\ pc = "rechecked"
  /\ Reject

ContainerManifest ==
  Manifest(ContainerPaths, scan, ContainerDeleted, FileContents(ContainerPaths, scan) \ blobs)

ContainerWrite ==
  /\ recorder = "container"
  /\ pc = "rechecked"
  /\ Fetched
  /\ Commit(ContainerManifest)
  /\ blobs' = blobs \cup FileContents(ContainerPaths, scan)
  /\ UNCHANGED <<recorder, root, rootMtime, now>>
-----------------------------------------------------------------------------
Done == pc = "idle" /\ Len(trace) = MaxActions /\ UNCHANGED vars

Next ==
  \/ \E p \in Paths : Change(p) \/ Chmod(p)
  \/ OtherTool \/ Begin
  \/ HostScan \/ HostWrite \/ HostCheck \/ HostReject \/ HostFails
  \/ ContainerList \/ ContainerRead \/ SnapshotFails \/ ContainerRecheck \/ FetchFails \/ ContainerWrite
  \/ Done

Spec == Init /\ [][Next]_vars
-----------------------------------------------------------------------------
(* The replay.                                                             *)

\* Mutant: a full manifest is folded like an incremental one.
FoldManifestUpdates(folded, action) ==
  LET c == action.checkpoint IN
  IF ~ HasManifest(c) THEN folded
  ELSE [p \in Paths |-> IF p \in c.deleted THEN Absent
                        ELSE IF c.entries[p] # Absent THEN c.entries[p] ELSE folded[p]]

\* The entries of an incremental manifest are added, then its deleted paths go.
FoldManifest(folded, action) ==
  LET c == action.checkpoint IN
  CASE c.kind = "full" -> c.entries
    [] c.kind = "incremental" ->
         [p \in Paths |-> IF p \in c.deleted THEN Absent
                          ELSE IF c.entries[p] # Absent THEN c.entries[p] ELSE folded[p]]
    [] OTHER -> folded

\* What the replay has folded when it is through with action i.
Folded[i \in 0 .. Len(trace)] ==
  IF i = 0 THEN Nothing ELSE FoldManifest(Folded[i - 1], trace[i])

ManifestsUpTo(i) == {k \in 1 .. i : HasManifest(trace[k].checkpoint)}
FullsUpTo(i) == {k \in 1 .. i : trace[k].checkpoint.kind = "full"}

\* The manifests from the last full one up to action i, or none without one.
ChainStart(i) == CHOOSE k \in FullsUpTo(i) : \A j \in FullsUpTo(i) : j <= k
Chain(i) ==
  IF FullsUpTo(i) = {} THEN {} ELSE {k \in ManifestsUpTo(i) : k >= ChainStart(i)}

Unrestorable == [kind |-> "unrestorable"]

\* Without clear_root the deleted paths go first.  A file is never written
\* through a link, nor without its blob.
RestoreManifest(files, c, clear) ==
  LET kept == [p \in Paths |-> IF clear \/ p \in c.deleted THEN Absent ELSE files[p]]
      Write(p) == IF c.entries[p].kind = "file" /\
                     (kept[p].kind = "link" \/ c.entries[p].data \notin blobs)
                  THEN Unrestorable ELSE c.entries[p]
  IN  [p \in Paths |-> IF c.entries[p] = Absent THEN kept[p] ELSE Write(p)]

\* A replay container whose root holds links where the source had none.
Foreign == [p \in Paths |-> [kind |-> "link", data |-> CHOOSE c \in Contents : TRUE]]

\* The files after the manifests of the chain of action i up to action k.
Restoring(i) ==
  LET files[k \in 0 .. i] ==
        IF k = 0 THEN Foreign
        ELSE IF k \in Chain(i)
        THEN RestoreManifest(files[k - 1], trace[k].checkpoint, k = ChainStart(i))
        ELSE files[k - 1]
  IN  files
RestoreChain(i) == Restoring(i)[i]
-----------------------------------------------------------------------------
(* Properties.                                                             *)

\* The contents of the files and links the source had at action i, and whether
\* the files f are those, but for the paths in doubt at i: a container's file that
\* changed and could not be read is in no manifest, though the next checkpoints
\* take it for recorded until it changes again.
SourceContents(i) == WithoutMode(FilesOf(trace[i].root))
AreTheSources(f, i) == \A p \in Paths \ trace[i].doubt : f[p] = SourceContents(i)[p]

\* Restoring the chain of any checkpointed action brings back exactly what the
\* source had when the checkpoint was taken, but for the paths in doubt, whatever
\* failed, changed or was skipped before it:
\* `_restore_checkpoint_chain_to_container`.
RestoreReproduces ==
  \A i \in ManifestsUpTo(Len(trace)) :
    /\ Chain(i) # {}
    /\ AreTheSources(WithoutMode(RestoreChain(i)), i)

LastManifest(i) ==
  CHOOSE k \in ManifestsUpTo(i) : \A j \in ManifestsUpTo(i) : j <= k
Skipped == {i \in DOMAIN trace : trace[i].checkpoint.kind = "skipped"}

\* The same with the modes, which the replay compares too.
SkipMeansUnchangedModes ==
  \A i \in Skipped :
    FilesOf(trace[i].root) = FilesOf(trace[LastManifest(i)].root)

\* The fold the replay compares with is what the source had then.
FoldReproduces ==
  \A i \in ManifestsUpTo(Len(trace)) : AreTheSources(WithoutMode(Folded[i]), i)

\* ... which is true at least of the paths that never change their type from one
\* manifest to a later one, and are not in doubt.
FoldOfStableTypes ==
  \A i \in ManifestsUpTo(Len(trace)) : \A p \in Paths \ trace[i].doubt :
    (\A j, k \in ManifestsUpTo(i) :
       LET types == {EntryType(trace[j].root[p]), EntryType(trace[k].root[p])}
       IN  Cardinality(types \ {EntryType(Absent)}) <= 1)
    => WithoutMode(Folded[i])[p] = SourceContents(i)[p]

\* A checkpoint is "skipped: no filesystem changes since last checkpoint" only
\* over what the last manifest of the trace has, or over files it could not read:
\* failures in between count.
SkipMeansUnchanged ==
  \A i \in Skipped : /\ ManifestsUpTo(i) # {}
                     /\ AreTheSources(SourceContents(LastManifest(i)), i)

\* New blob bytes of the incremental manifests since the last full one.
NewBytes[i \in 0 .. Len(trace)] ==
  IF i = 0 \/ i \in FullsUpTo(i) THEN 0 ELSE NewBytes[i - 1] + trace[i].checkpoint.bytes

\* A chain stops growing once its incremental manifests hold RebaselineBytes of
\* new contents: what an incremental manifest is added to holds less.
ChainBounded ==
  \A i \in ManifestsUpTo(Len(trace)) \ FullsUpTo(Len(trace)) :
    NewBytes[i - 1] < RebaselineBytes

\* The chain of manifests of a trace restores every checkpoint, also those it
\* says to have skipped, and is rebased in time.
ChainFaithful == RestoreReproduces /\ SkipMeansUnchanged /\ ChainBounded
=============================================================================
