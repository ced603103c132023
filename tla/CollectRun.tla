------------------------------ MODULE CollectRun ------------------------------
(***************************************************************************)
(* `trace collect` on one run directory over several invocations:          *)
(* src/src/trace_collect/collector.py, _run_scaffold_tasks, with run_attempt *)
(* (attempt_pipeline.py) and ensure_fixed_image (container_image_prep.py).  *)
(*                                                                         *)
(* With --concurrency 1 the tasks run one after the other while a thread   *)
(* prefetches the next task's image, and each task's images are removed    *)
(* behind it.  With more, attempts run in threads under a semaphore, and   *)
(* images are removed at the end.  An invocation may be killed anywhere;   *)
(* the next one resumes from the attempts on disk.                         *)
(*                                                                         *)
(* Image cleanup is enabled (TASK_CONTAINER_CLEANUP_IMAGES=1).             *)
(***************************************************************************)
EXTENDS Integers, Sequences, FiniteSets, FiniteSetsExt

CONSTANTS
  TaskLists,       \* lists of selected tasks, by instance_id
  Images,          \* source images
  NoImage,         \* the image of a task that runs on the host
  ImageName,       \* _task_source_image: per instance
  Concurrencies,   \* values of --concurrency an invocation may be given
  MaxInvocations,  \* bound on the invocations
  MaxKills,        \* bound on the invocations that are killed
  MaxFaults        \* bound on the pulls, checks, builds, writes, removals that fail

Instances == DOMAIN ImageName

ASSUME CollectRunAssumption ==
  /\ TaskLists \subseteq Seq(Instances)
  /\ NoImage \notin Images
  /\ ImageName \in [Instances -> Images \cup {NoImage}]
  /\ Concurrencies \subseteq Nat \ {0}
  /\ MaxInvocations \in Nat /\ MaxKills \in Nat /\ MaxFaults \in Nat

VARIABLES
  \* the run directory, which survives a kill
  attempts,     \* per instance: its attempt directories, in order
  resultsFile,  \* results.jsonl
  \* the container engine's images, which survive too
  source,       \* source images present
  fixed,        \* source images whose fixed derivative is present
  \* the process
  taskList,     \* the selected tasks, the same for every invocation
  concurrency,  \* --concurrency, or 0 when no invocation is running
  completed,    \* load_completed_ids when it began
  task,         \* per task: how far it is, its attempt, its outcome
  jobs,         \* the image-prefetch thread: pulls submitted and not over
  prefetch,     \* prefetched_source_image, and whether its future failed
  cache,        \* _IMAGE_CACHE
  \* bookkeeping of the bounds and the properties
  invocations, kills, faults,
  leftover      \* images a kill, a failed build or a failed removal left behind

disk == <<attempts, resultsFile>>
images == <<source, fixed, cache>>
process == <<taskList, concurrency, completed>>
prefetching == <<jobs, prefetch>>
history == <<invocations, kills, faults, leftover>>
vars == <<disk, images, process, task, prefetching, history>>

Tasks == DOMAIN taskList
ImageOf(i) == ImageName[taskList[i]]
Terminal == {"completed", "exhausted"}

\* A task that is "locking" waits for the build lock of its image.
Working == {"prepare", "locking", "building", "inner", "manifest", "artifacts"}
Stages == Working \cup {"skipped", "waiting", "over", "done"}
Skipped == [at |-> "skipped", attempt |-> 0, outcome |-> "none", fixed |-> FALSE]
NoPrefetch == [image |-> NoImage, failed |-> FALSE]

Running == concurrency > 0
At(i, stages) == task[i].at \in stages
Over(i, outcome) == task' = [task EXCEPT ![i].at = "over", ![i].outcome = outcome]
Fault == faults < MaxFaults /\ faults' = faults + 1
-----------------------------------------------------------------------------
(* The run directory.                                                      *)

\* Mutant: an exhausted attempt is run again.
CompletedOnlyIds ==
  {x \in Instances : \E n \in DOMAIN attempts[x] : attempts[x][n].status = "completed"}

CompletedIds ==
  {x \in Instances : \E n \in DOMAIN attempts[x] : attempts[x][n].status \in Terminal}

NextAttempt(x) == Max(DOMAIN attempts[x] \cup {0}) + 1

\* Mutant: repetitions of an instance are numbered alike.
PreassignedAlike(i, pending) == NextAttempt(taskList[i])

\* Concurrent attempts are numbered when they are scheduled; repetitions of an
\* instance in the task list get consecutive numbers.
Preassigned(i, pending) ==
  NextAttempt(taskList[i]) + Cardinality({j \in pending : j < i /\ taskList[j] = taskList[i]})

\* The image of the next task that is to run and has one.
NextImage(i) ==
  LET later == {j \in Tasks : j > i /\ taskList[j] \notin completed /\ ImageOf(j) # NoImage}
  IN  IF later = {} THEN NoImage ELSE ImageOf(Min(later))
-----------------------------------------------------------------------------
(* An invocation begins, resuming what the run directory holds.            *)

\* The tasks were selected, an instance possibly twice; nothing is on disk yet.
Init ==
  /\ attempts = [x \in Instances |-> <<>>]
  /\ resultsFile = [whole |-> TRUE, lines |-> <<>>]
  /\ source = {} /\ fixed = {} /\ cache = {}
  /\ taskList \in TaskLists /\ concurrency = 0 /\ completed = {}
  /\ task = [i \in Tasks |-> Skipped]
  /\ jobs = <<>> /\ prefetch = NoPrefetch
  /\ invocations = 0 /\ kills = 0 /\ faults = 0 /\ leftover = {}

Invoke ==
  /\ ~ Running
  /\ invocations < MaxInvocations
  /\ \E c \in Concurrencies :
       LET pending == {i \in Tasks : taskList[i] \notin CompletedIds}
       IN  /\ concurrency' = c
           /\ task' = [i \in Tasks |->
                IF i \notin pending THEN Skipped
                ELSE [at |-> "waiting", attempt |-> IF c > 1 THEN Preassigned(i, pending) ELSE 0,
                      outcome |-> "none", fixed |-> FALSE]]
  /\ completed' = CompletedIds
  /\ invocations' = invocations + 1
  /\ UNCHANGED <<taskList, disk, images, prefetching, kills, faults, leftover>>

(***************************************************************************)
(* A task starts: in order, after the one before or when the semaphore     *)
(* lets it.  _ensure_task_source_ready takes the prefetched image, waiting *)
(* for it, or pulls in the foreground; then the next image is prefetched.  *)
(***************************************************************************)
CanStart(i) ==
  /\ Running /\ At(i, {"waiting"})
  /\ \A j \in Tasks : j < i => ~ At(j, {"waiting"})
  /\ IF concurrency = 1 THEN \A j \in Tasks : j < i => At(j, {"skipped", "done"})
     ELSE Cardinality({j \in Tasks : At(j, Working)}) < concurrency
  /\ prefetch.image = ImageOf(i) /\ ImageOf(i) # NoImage => jobs = <<>>

Prefetched(i) == prefetch.image = ImageOf(i) /\ ~ prefetch.failed

PrefetchNext(i) ==
  LET next == NextImage(i)
  IN  IF concurrency = 1 /\ next \notin {NoImage, ImageOf(i)}
      THEN jobs' = Append(jobs, next) /\ prefetch' = [image |-> next, failed |-> FALSE]
      ELSE prefetch' = NoPrefetch /\ UNCHANGED jobs

Number(i) == IF concurrency = 1 THEN NextAttempt(taskList[i]) ELSE task[i].attempt

Start(i) ==
  /\ CanStart(i)
  /\ task' = [task EXCEPT ![i].at = "prepare", ![i].attempt = Number(i)]
  /\ source' = IF ImageOf(i) = NoImage \/ Prefetched(i) THEN source
               ELSE source \cup {ImageOf(i)}
  /\ PrefetchNext(i)
  /\ UNCHANGED <<disk, fixed, cache, process, history>>

\* Neither the prefetch nor the pull in the foreground got the image.
SourceFails(i) ==
  /\ CanStart(i)
  /\ Fault
  /\ ImageOf(i) \notin source \cup {NoImage} /\ ~ Prefetched(i)
  /\ task' = [task EXCEPT ![i].at = "over", ![i].attempt = Number(i), ![i].outcome = "error"]
  /\ UNCHANGED <<disk, images, process, prefetching, invocations, kills, leftover>>

\* The thread has one worker.  The future the driver holds is that of the job
\* submitted last.
PrefetchJob ==
  /\ jobs # <<>>
  /\ \E arrived \in BOOLEAN :
       /\ IF arrived THEN UNCHANGED faults ELSE Head(jobs) \notin source /\ Fault
       /\ source' = IF arrived THEN source \cup {Head(jobs)} ELSE source
       /\ prefetch' = IF Len(jobs) = 1 /\ prefetch # NoPrefetch
                      THEN [prefetch EXCEPT !.failed = ~ arrived] ELSE prefetch
  /\ jobs' = Tail(jobs)
  /\ UNCHANGED <<disk, fixed, cache, process, task, invocations, kills, leftover>>
-----------------------------------------------------------------------------
(* run_attempt: the directory, the fixed image, the agent, the artifacts.  *)

\* The attempt directory is made, or found.
WithAttempt(dirs, n) ==
  [k \in DOMAIN dirs \cup {n} |->
     IF k \in DOMAIN dirs THEN dirs[k] ELSE [status |-> "none", artifacts |-> FALSE]]

Prepare(i) ==
  /\ Running /\ At(i, {"prepare"})
  /\ LET x == taskList[i]
         cached == ImageOf(i) \in cache
     IN  /\ attempts' = [attempts EXCEPT ![x] = WithAttempt(@, task[i].attempt)]
         /\ task' = [task EXCEPT
              ![i].at = IF ImageOf(i) = NoImage \/ cached THEN "inner" ELSE "locking",
              ![i].fixed = cached]
  /\ UNCHANGED <<resultsFile, images, process, prefetching, history>>

\* preflight_disk comes before the directory is made.
PreflightFails(i) ==
  /\ Running /\ At(i, {"prepare"})
  /\ Fault
  /\ Over(i, "error")
  /\ UNCHANGED <<disk, images, process, prefetching, invocations, kills, leftover>>

\* ensure_fixed_image under the build lock: the cache is read again, and the
\* engine may have the image from an earlier process.
LockBuild(i) ==
  /\ Running /\ At(i, {"locking"})
  /\ \A j \in Tasks : At(j, {"building"}) => ImageOf(j) # ImageOf(i)
  /\ IF ImageOf(i) \in cache \cup fixed
     THEN /\ task' = [task EXCEPT ![i].at = "inner", ![i].fixed = TRUE]
          /\ cache' = cache \cup {ImageOf(i)}
     ELSE task' = [task EXCEPT ![i].at = "building"] /\ UNCHANGED cache
  /\ UNCHANGED <<disk, source, fixed, process, prefetching, history>>

Build(i) ==
  /\ Running /\ At(i, {"building"})
  /\ source' = source \cup {ImageOf(i)}
  /\ fixed' = fixed \cup {ImageOf(i)}
  /\ cache' = cache \cup {ImageOf(i)}
  /\ task' = [task EXCEPT ![i].at = "inner", ![i].fixed = TRUE]
  /\ UNCHANGED <<disk, process, prefetching, history>>

\* The pull or the container may fail, or stopping the container after the
\* commit: then a fixed image is left that no attempt knows of.
BuildFails(i) ==
  /\ Running /\ At(i, {"building"})
  /\ Fault
  /\ \E pulled \in SUBSET {ImageOf(i)} : \E made \in SUBSET pulled :
       /\ source' = source \cup pulled
       /\ fixed' = fixed \cup made
       /\ leftover' = leftover \cup made
  /\ Over(i, "error")
  /\ UNCHANGED <<disk, cache, process, prefetching, invocations, kills>>

\* The agent runs.  An exception is recorded as a result with status error.
Inner(i) ==
  /\ Running /\ At(i, {"inner"})
  /\ \E outcome \in Terminal \cup {"error"} :
       task' = [task EXCEPT ![i].at = "manifest", ![i].outcome = outcome]
  /\ UNCHANGED <<disk, images, process, prefetching, history>>

WriteManifest(i) ==
  /\ Running /\ At(i, {"manifest"})
  /\ attempts' = [attempts EXCEPT ![taskList[i]][task[i].attempt].status = task[i].outcome]
  /\ task' = [task EXCEPT ![i].at = "artifacts"]
  /\ UNCHANGED <<resultsFile, images, process, prefetching, history>>

WriteArtifacts(i) ==
  /\ Running /\ At(i, {"artifacts"})
  /\ attempts' = [attempts EXCEPT ![taskList[i]][task[i].attempt].artifacts = TRUE]
  /\ Over(i, task[i].outcome)
  /\ UNCHANGED <<resultsFile, images, process, prefetching, history>>

WriteFails(i) ==
  /\ Running /\ At(i, {"manifest", "artifacts"})
  /\ Fault
  /\ Over(i, "error")
  /\ UNCHANGED <<disk, images, process, prefetching, invocations, kills, leftover>>
-----------------------------------------------------------------------------
(* Images are removed behind the tasks, and the results are written.       *)

\* Mutant: a task without a fixed image leaves its source image.
CleanupFixedOnly(ended, keep) ==
  LET built == {ImageOf(i) : i \in {j \in ended : task[j].fixed}} \ {NoImage}
  IN  /\ source' = source \ (built \ {keep})
      /\ fixed' = fixed \ built
      /\ cache' = cache \ built
      /\ UNCHANGED <<faults, leftover>>

\* _cleanup_task_images for every ended task: a removal that fails is logged.
Cleanup(ended, keep) ==
  LET used == {ImageOf(i) : i \in ended} \ {NoImage}
      built == {ImageOf(i) : i \in {j \in ended : task[j].fixed}} \ {NoImage}
  IN  \E stuckSource \in SUBSET (used \ {keep}), stuckFixed \in SUBSET built :
        /\ IF stuckSource \cup stuckFixed = {} THEN UNCHANGED faults ELSE Fault
        /\ source' = source \ (used \ (stuckSource \cup {keep}))
        /\ fixed' = fixed \ (built \ stuckFixed)
        /\ cache' = cache \ used
        /\ leftover' = leftover \cup stuckSource \cup stuckFixed

CleanupTask(i) ==
  /\ concurrency = 1 /\ At(i, {"over"})
  /\ Cleanup({i}, NextImage(i))
  /\ task' = [task EXCEPT ![i].at = "done"]
  /\ UNCHANGED <<disk, process, prefetching, invocations, kills>>

CleanupAll ==
  LET ended == {i \in Tasks : At(i, {"over"})}
  IN  /\ concurrency > 1 /\ ended # {}
      /\ \A i \in Tasks : At(i, {"skipped", "over"})
      /\ Cleanup(ended, NoImage)
      /\ task' = [i \in Tasks |-> [task[i] EXCEPT !.at = IF i \in ended THEN "done" ELSE @]]
      /\ UNCHANGED <<disk, process, prefetching, invocations, kills>>

ProcessEnds ==
  /\ concurrency' = 0 /\ completed' = {} /\ cache' = {} /\ UNCHANGED taskList
  /\ task' = [i \in Tasks |-> Skipped]
  /\ jobs' = <<>> /\ prefetch' = NoPrefetch

Line(i) == [task |-> i, attempt |-> task[i].attempt, outcome |-> task[i].outcome]

\* Mutant: the skipped tasks have lines too.
AllLines == [i \in Tasks |-> Line(i)]

\* The tasks that ran, in the order of the list.
ResultLines ==
  LET lines[n \in 0 .. Len(taskList)] ==
        IF n = 0 THEN <<>>
        ELSE IF At(n, {"done"}) THEN Append(lines[n - 1], Line(n)) ELSE lines[n - 1]
  IN  lines[Len(taskList)]

AllOver == Running /\ jobs = <<>> /\ \A i \in Tasks : At(i, {"skipped", "done"})

\* results.jsonl is replaced by this invocation's results.
WriteResults ==
  /\ AllOver
  /\ resultsFile' = [whole |-> TRUE, lines |-> ResultLines]
  /\ ProcessEnds
  /\ UNCHANGED <<attempts, source, fixed, history>>

\* A kill may come while results.jsonl is being replaced: how many of its lines
\* are there then is left out, since nothing reads them.
Kill ==
  /\ Running
  /\ kills < MaxKills
  /\ kills' = kills + 1
  /\ leftover' = leftover \cup source \cup fixed
  /\ \/ UNCHANGED resultsFile
     \/ AllOver /\ resultsFile' = [whole |-> FALSE, lines |-> <<>>]
  /\ ProcessEnds
  /\ UNCHANGED <<attempts, source, fixed, invocations, faults>>

Rest == ~ Running /\ invocations = MaxInvocations /\ UNCHANGED vars
-----------------------------------------------------------------------------
TaskStep(i) ==
  \/ Start(i) \/ SourceFails(i) \/ Prepare(i) \/ PreflightFails(i)
  \/ LockBuild(i) \/ Build(i) \/ BuildFails(i) \/ Inner(i)
  \/ WriteManifest(i) \/ WriteArtifacts(i) \/ WriteFails(i) \/ CleanupTask(i)

Next ==
  \/ Invoke \/ (\E i \in Tasks : TaskStep(i)) \/ PrefetchJob
  \/ CleanupAll \/ WriteResults \/ Kill \/ Rest

Spec == Init /\ [][Next]_vars
-----------------------------------------------------------------------------
(* Properties.                                                             *)

Dirs == [status : {"none", "error"} \cup Terminal, artifacts : BOOLEAN]

\* Attempts are never mixed up: whatever ran before, failed, was killed or runs
\* at the same time, an attempt directory once there stays, and neither its
\* status nor its artifacts are ever replaced by another attempt's.
AttemptsKept ==
  [][ \A x \in Instances : \A n \in DOMAIN attempts[x] :
        /\ n \in DOMAIN attempts'[x]
        /\ attempts[x][n].status # "none" => attempts'[x][n].status = attempts[x][n].status
        /\ attempts[x][n].artifacts => attempts'[x][n].artifacts ]_vars

\* "completed and exhausted tasks are skipped on resume": over all invocations
\* an instance has no more finished attempts than the task list asks for.
FinishedOnce ==
  \A x \in Instances :
    Cardinality({n \in DOMAIN attempts[x] : attempts[x][n].status \in Terminal})
      <= Cardinality({i \in Tasks : taskList[i] = x})

\* results.jsonl once it is written agrees with the run directory: a task it calls
\* completed or exhausted has a directory that says so and is complete; one it
\* calls failed has not, unless it failed before its directory was made and
\* left its number to a repetition; its lines are in task order; and a task it
\* does not list was finished before.
Faithful ==
  LET lines == resultsFile.lines
      Recorded(l) == LET dirs == attempts[taskList[l.task]]
                     IN  IF l.attempt \in DOMAIN dirs /\ dirs[l.attempt].artifacts
                         THEN dirs[l.attempt].status ELSE "error"
      Repeats(l, m) == taskList[m.task] = taskList[l.task] /\ m.attempt = l.attempt
  IN  /\ \A k \in DOMAIN lines :
           \/ lines[k].outcome = Recorded(lines[k])
           \/ lines[k].outcome = "error" /\ \E j \in DOMAIN lines : j > k /\ Repeats(lines[k], lines[j])
      /\ \A j, k \in DOMAIN lines : j < k => lines[j].task < lines[k].task
      /\ \A i \in Tasks :
           taskList[i] \in CompletedIds \/ \E k \in DOMAIN lines : lines[k].task = i
\* What is written when an invocation ends is faithful.
ResultsFaithful == [][WriteResults => Faithful']_vars

\* Whoever runs an agent in a container has its fixed image, whatever was
\* cached, removed or built by others before.
FixedImagePresent ==
  \A i \in Tasks : At(i, {"inner"}) /\ ImageOf(i) # NoImage => ImageOf(i) \in fixed

\* "keeps only the current/next-image budget": a sequential collection holds the
\* source images of the task at hand and of the next one with an image, and
\* the fixed image of the former, besides what a kill, a failed build or a failed
\* removal left.
ImageBudget ==
  LET current == Min({i \in Tasks : ~ At(i, {"skipped", "done"})})
  IN  concurrency = 1 /\ (\E i \in Tasks : ~ At(i, {"skipped", "done"})) =>
        /\ source \subseteq {ImageOf(current), NextImage(current)} \cup leftover
        /\ fixed \subseteq {ImageOf(current)} \cup leftover

\* The images at hand are those that are needed, and no more than the budget.
ImagesInHand == FixedImagePresent /\ ImageBudget
=============================================================================
