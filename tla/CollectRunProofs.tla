-------------------------- MODULE CollectRunProofs --------------------------
(***************************************************************************)
(* Proofs about CollectRun for every list of tasks, every concurrency and  *)
(* every number of invocations, kills and failures.                        *)
(***************************************************************************)
EXTENDS CollectRun, FiniteSetTheorems, NaturalsInduction, WellFoundedInduction, TLAPS

Outcomes == {"none", "error"} \cup Terminal
TaskStates == [at : Stages, attempt : Nat, outcome : Outcomes, fixed : BOOLEAN]

\* The tasks of the invocation.
TaskInv ==
  /\ taskList \in Seq(Instances)
  /\ concurrency \in Nat
  /\ task \in [Tasks -> TaskStates]
  /\ concurrency = 0 => \A i \in Tasks : At(i, {"skipped"})

\* The attempt directories of each instance, one of them with the highest number.
DirInv ==
  /\ attempts = [x \in Instances |-> attempts[x]]
  /\ \A x \in Instances :
       /\ DOMAIN attempts[x] \subseteq Nat
       /\ \E m \in DOMAIN attempts[x] \cup {0} : \A n \in DOMAIN attempts[x] : n <= m
       /\ attempts[x] \in [DOMAIN attempts[x] -> Dirs]

-----------------------------------------------------------------------------
(* Attempt directories.                                                    *)

\* The next number is one that no directory has.
LEMMA NextAttemptFresh ==
  ASSUME DirInv, NEW x \in Instances
  PROVE  /\ NextAttempt(x) \in Nat
         /\ \A n \in DOMAIN attempts[x] : n < NextAttempt(x)
<1> DEFINE S == DOMAIN attempts[x] \cup {0}
<1>1. /\ DOMAIN attempts[x] \subseteq Nat
      /\ \E m \in DOMAIN attempts[x] \cup {0} : \A n \in DOMAIN attempts[x] : n <= m
  BY DEF DirInv
<1>2. S \subseteq Nat /\ \E m \in S : \A n \in S : n <= m
  BY <1>1
<1> HIDE DEF S
<1>3. Max(S) \in S /\ \A n \in S : n <= Max(S)
  BY <1>2 DEF Max
<1>4. QED
  BY <1>2, <1>3 DEF NextAttempt, S

\* A directory that is made is a new one or the one that is there.
LEMMA Registered ==
  ASSUME DirInv, NEW x \in Instances, NEW n \in Nat,
         attempts' = [attempts EXCEPT ![x] = WithAttempt(@, n)]
  PROVE  /\ DirInv'
         /\ DOMAIN attempts'[x] = DOMAIN attempts[x] \cup {n}
         /\ n \notin DOMAIN attempts[x] => attempts'[x][n] = [status |-> "none", artifacts |-> FALSE]
         /\ \A k \in DOMAIN attempts[x] : attempts'[x][k] = attempts[x][k]
         /\ \A y \in Instances \ {x} : attempts'[y] = attempts[y]
<1>1. attempts = [y \in Instances |-> attempts[y]]
  BY DEF DirInv
<1>2. /\ attempts' = [y \in Instances |-> attempts'[y]]
      /\ attempts'[x] = WithAttempt(attempts[x], n)
      /\ \A y \in Instances \ {x} : attempts'[y] = attempts[y]
  BY <1>1
<1>3. attempts[x] \in [DOMAIN attempts[x] -> Dirs] /\ DOMAIN attempts[x] \subseteq Nat
  BY DEF DirInv
<1>4. [status |-> "none", artifacts |-> FALSE] \in Dirs
  BY DEF Dirs
<1>5. /\ DOMAIN attempts'[x] = DOMAIN attempts[x] \cup {n}
      /\ \A k \in DOMAIN attempts[x] : attempts'[x][k] = attempts[x][k]
      /\ n \notin DOMAIN attempts[x] => attempts'[x][n] = [status |-> "none", artifacts |-> FALSE]
      /\ attempts'[x] \in [DOMAIN attempts'[x] -> Dirs]
  BY <1>2, <1>3, <1>4 DEF WithAttempt
<1>6. \E m \in DOMAIN attempts'[x] \cup {0} : \A k \in DOMAIN attempts'[x] : k <= m
  <2>1. PICK m \in DOMAIN attempts[x] \cup {0} : \A k \in DOMAIN attempts[x] : k <= m
    BY DEF DirInv
  <2>2. m \in Nat
    BY <1>3
  <2>3. CASE m <= n
    <3>1. \A k \in DOMAIN attempts'[x] : k <= n
      BY <1>3, <1>5, <2>1, <2>2, <2>3
    <3>2. QED
      BY <1>5, <3>1
  <2>4. CASE ~ (m <= n)
    <3>1. \A k \in DOMAIN attempts'[x] : k <= m
      BY <1>3, <1>5, <2>1, <2>2, <2>4
    <3>2. QED
      BY <1>5, <2>1, <3>1
  <2>5. QED
    BY <2>3, <2>4
<1>7. DirInv'
  <2>1. ASSUME NEW y \in Instances
        PROVE  /\ DOMAIN attempts'[y] \subseteq Nat
               /\ \E m \in DOMAIN attempts'[y] \cup {0} : \A k \in DOMAIN attempts'[y] : k <= m
               /\ attempts'[y] \in [DOMAIN attempts'[y] -> Dirs]
    <3>1. CASE y = x
      BY <1>3, <1>5, <1>6, <3>1
    <3>2. CASE y # x
      BY <1>2, <3>2 DEF DirInv
    <3>3. QED
      BY <3>1, <3>2
  <2>2. QED
    BY <1>2, <2>1 DEF DirInv
<1>8. QED
  BY <1>2, <1>5, <1>7

\* One field of one directory is written.
LEMMA Written ==
  ASSUME DirInv, NEW x \in Instances, NEW n \in DOMAIN attempts[x], NEW d \in Dirs,
         attempts' = [attempts EXCEPT ![x][n] = d]
  PROVE  /\ DirInv'
         /\ \A y \in Instances : DOMAIN attempts'[y] = DOMAIN attempts[y]
         /\ \A y \in Instances : \A k \in DOMAIN attempts[y] :
              attempts'[y][k] = IF y = x /\ k = n THEN d ELSE attempts[y][k]
<1>1. attempts = [y \in Instances |-> attempts[y]]
  BY DEF DirInv
<1>2. /\ attempts' = [y \in Instances |-> attempts'[y]]
      /\ attempts'[x] = [attempts[x] EXCEPT ![n] = d]
      /\ \A y \in Instances \ {x} : attempts'[y] = attempts[y]
  BY <1>1
<1>3. attempts[x] \in [DOMAIN attempts[x] -> Dirs]
  BY DEF DirInv
<1>4. /\ DOMAIN attempts'[x] = DOMAIN attempts[x]
      /\ \A k \in DOMAIN attempts[x] : attempts'[x][k] = IF k = n THEN d ELSE attempts[x][k]
      /\ attempts'[x] \in [DOMAIN attempts'[x] -> Dirs]
  BY <1>2, <1>3
<1>5. \A y \in Instances : DOMAIN attempts'[y] = DOMAIN attempts[y]
  BY <1>2, <1>4
<1>6. \A y \in Instances : \A k \in DOMAIN attempts[y] :
        attempts'[y][k] = IF y = x /\ k = n THEN d ELSE attempts[y][k]
  BY <1>2, <1>4
<1>7. ASSUME NEW y \in Instances
      PROVE  /\ DOMAIN attempts'[y] \subseteq Nat
             /\ \E m \in DOMAIN attempts'[y] \cup {0} : \A k \in DOMAIN attempts'[y] : k <= m
             /\ attempts'[y] \in [DOMAIN attempts'[y] -> Dirs]
  BY <1>2, <1>4, <1>5 DEF DirInv
<1>8. QED
  BY <1>2, <1>5, <1>6, <1>7 DEF DirInv

-----------------------------------------------------------------------------
(* Types.                                                                  *)

LEMMA TaskInvInit == Init => TaskInv /\ DirInv
<1> SUFFICES ASSUME Init PROVE TaskInv /\ DirInv
  OBVIOUS
<1>1. TaskInv
  BY CollectRunAssumption DEF Init, TaskInv, TaskStates, Skipped, Stages, Outcomes, At
<1>2. \A x \in Instances : attempts[x] = <<>>
  BY DEF Init
<1>3. DOMAIN <<>> = {} /\ <<>> \in [{} -> Dirs]
  OBVIOUS
<1>4. DirInv
  BY <1>2, <1>3 DEF Init, DirInv
<1>5. QED
  BY <1>1, <1>4

\* A step of task i changes nothing but the state of task i.
LEMMA TaskStepType ==
  ASSUME TaskInv, DirInv, NEW i \in Tasks, TaskStep(i)
  PROVE  /\ UNCHANGED <<taskList, concurrency, completed>>
         /\ \E st \in TaskStates : task' = [task EXCEPT ![i] = st]
<1> USE DEF Working, Terminal, Outcomes, TaskStates, Stages, Over, process
<1>1. task[i] \in TaskStates /\ task = [task EXCEPT ![i] = task[i]]
  BY DEF TaskInv
<1>2. Number(i) \in Nat
  <2>1. taskList[i] \in Instances
    BY DEF TaskInv, Tasks
  <2>2. QED
    BY <1>1, <2>1, NextAttemptFresh DEF Number
<1>3. CASE Start(i)
  <2>1. task' = [task EXCEPT ![i] = [task[i] EXCEPT !.at = "prepare", !.attempt = Number(i)]]
    BY <1>3 DEF Start, TaskInv
  <2>2. QED
    BY <1>1, <1>2, <1>3, <2>1 DEF Start
<1>4. CASE SourceFails(i)
  <2>1. task' = [task EXCEPT ![i] = [task[i] EXCEPT !.at = "over", !.attempt = Number(i), !.outcome = "error"]]
    BY <1>4 DEF SourceFails, TaskInv
  <2>2. QED
    BY <1>1, <1>2, <1>4, <2>1 DEF SourceFails
<1>6. ASSUME NEW to \in Stages, NEW outcome \in Outcomes,
             task' = [task EXCEPT ![i].at = to, ![i].outcome = outcome], UNCHANGED process
      PROVE  /\ UNCHANGED <<taskList, concurrency, completed>>
             /\ \E st \in TaskStates : task' = [task EXCEPT ![i] = st]
  <2>1. task' = [task EXCEPT ![i] = [task[i] EXCEPT !.at = to, !.outcome = outcome]]
    BY <1>6 DEF TaskInv
  <2>2. QED
    BY <1>1, <1>6, <2>1
<1>7. CASE PreflightFails(i) \/ BuildFails(i) \/ WriteFails(i)
  BY <1>6, <1>7 DEF PreflightFails, BuildFails, WriteFails
<1>8. CASE Inner(i)
  BY <1>6, <1>8 DEF Inner
<1>9. CASE WriteArtifacts(i)
  BY <1>1, <1>6, <1>9 DEF WriteArtifacts
<1>10. ASSUME NEW to \in Stages, NEW b \in BOOLEAN,
              task' = [task EXCEPT ![i].at = to, ![i].fixed = b] \/ task' = [task EXCEPT ![i].at = to],
              UNCHANGED process
      PROVE  /\ UNCHANGED <<taskList, concurrency, completed>>
             /\ \E st \in TaskStates : task' = [task EXCEPT ![i] = st]
  <2>1. \/ task' = [task EXCEPT ![i] = [task[i] EXCEPT !.at = to, !.fixed = b]]
        \/ task' = [task EXCEPT ![i] = [task[i] EXCEPT !.at = to]]
    BY <1>10 DEF TaskInv
  <2>2. QED
    BY <1>1, <1>10, <2>1
<1>5. CASE Prepare(i)
  <2> DEFINE to == IF ImageOf(i) = NoImage \/ ImageOf(i) \in cache THEN "inner" ELSE "locking"
             b == ImageOf(i) \in cache
  <2>1. to \in Stages /\ b \in BOOLEAN
    OBVIOUS
  <2>2. task' = [task EXCEPT ![i].at = to, ![i].fixed = b] /\ UNCHANGED process
    BY <1>5 DEF Prepare
  <2> HIDE DEF to, b
  <2>3. QED
    BY <1>10, <2>1, <2>2
<1>11. CASE LockBuild(i) \/ Build(i) \/ WriteManifest(i) \/ CleanupTask(i)
  BY <1>10, <1>11 DEF LockBuild, Build, WriteManifest, CleanupTask
<1>12. QED
  BY <1>3, <1>4, <1>5, <1>7, <1>8, <1>9, <1>11 DEF TaskStep

-----------------------------------------------------------------------------
(* The inductive invariant.                                                *)

\* With --concurrency 1 the tasks go one after the other.
OrderInv ==
  concurrency = 1 =>
    \A i, j \in Tasks :
      i < j /\ At(j, Working \cup {"over", "done"}) => At(i, {"skipped", "done"})

\* A number belongs to one task at a time, and its directory to nobody before.
Numbered == {"locking", "building", "inner", "manifest", "artifacts"}
NumberInv ==
  /\ concurrency > 1 =>
       \A i, j \in Tasks :
         i < j /\ taskList[i] = taskList[j] /\ ~ At(i, {"skipped"}) /\ ~ At(j, {"skipped"})
           => task[i].attempt # task[j].attempt
  /\ \A i \in Tasks :
       At(i, {"prepare"}) \/ (concurrency > 1 /\ At(i, {"waiting"}))
         => task[i].attempt \notin DOMAIN attempts[taskList[i]]
  /\ \A i \in Tasks : At(i, Numbered) =>
       /\ task[i].attempt \in DOMAIN attempts[taskList[i]]
       /\ ~ attempts[taskList[i]][task[i].attempt].artifacts
       /\ ~ At(i, {"artifacts"}) => attempts[taskList[i]][task[i].attempt].status = "none"

\* What is in the cache, and what an agent runs in, is there.
ImageInv ==
  /\ cache \subseteq fixed
  /\ \A i \in Tasks : At(i, {"inner"}) /\ ImageOf(i) # NoImage => ImageOf(i) \in fixed

CollectInv == TaskInv /\ DirInv /\ OrderInv /\ NumberInv /\ ImageInv

\* How far a step takes its task.
LEMMA TaskMoves ==
  ASSUME TaskInv, DirInv, NEW i \in Tasks, TaskStep(i)
  PROVE  /\ UNCHANGED <<taskList, concurrency>>
         /\ DOMAIN task' = Tasks /\ \A j \in Tasks \ {i} : task'[j] = task[j]
         /\ task'[i].at # "waiting" /\ task'[i].at # "skipped"
         /\ task[i].at \in Working => task'[i].attempt = task[i].attempt
         /\ concurrency > 1 => task'[i].attempt = task[i].attempt
         /\ \/ task[i].at = "waiting" /\ task'[i].at \in {"prepare", "over"} /\ CanStart(i)
            \/ task[i].at \in Working /\ task'[i].at \in Working \cup {"over"}
            \/ task[i].at = "over" /\ task'[i].at = "done" /\ concurrency = 1
<1>1. /\ UNCHANGED <<taskList, concurrency>>
      /\ \E st \in TaskStates : task' = [task EXCEPT ![i] = st]
  BY TaskStepType
<1>2. DOMAIN task' = Tasks /\ \A j \in Tasks \ {i} : task'[j] = task[j]
  BY <1>1 DEF TaskInv
<1>3. task \in [Tasks -> TaskStates]
  BY DEF TaskInv
<1> HIDE DEF TaskInv, Tasks
<1> USE DEF TaskStates, Working, At, Over
<1>4. CASE Start(i) \/ SourceFails(i)
  <2>1. /\ task[i].at = "waiting" /\ CanStart(i)
        /\ task'[i].at \in {"prepare", "over"} /\ task'[i].attempt = Number(i)
    BY <1>3, <1>4 DEF Start, SourceFails, CanStart
  <2>2. concurrency > 1 => Number(i) = task[i].attempt
    BY DEF Number
  <2>3. QED
    BY <1>1, <1>2, <2>1, <2>2
<1>5. CASE CleanupTask(i)
  BY <1>1, <1>2, <1>3, <1>5 DEF CleanupTask
<1>6. CASE Prepare(i)
  BY <1>1, <1>2, <1>3, <1>6 DEF Prepare
<1>7. CASE LockBuild(i)
  BY <1>1, <1>2, <1>3, <1>7 DEF LockBuild
<1>8. CASE PreflightFails(i) \/ Build(i) \/ BuildFails(i) \/ WriteManifest(i) \/ WriteArtifacts(i) \/ WriteFails(i)
  BY <1>1, <1>2, <1>3, <1>8 DEF PreflightFails, Build, BuildFails, WriteManifest, WriteArtifacts, WriteFails
<1>9. CASE Inner(i)
  <2>1. PICK outcome \in Terminal \cup {"error"} :
          task' = [task EXCEPT ![i].at = "manifest", ![i].outcome = outcome]
    BY <1>9 DEF Inner
  <2>2. task[i].at = "inner"
    BY <1>9 DEF Inner
  <2>3. QED
    BY <1>1, <1>2, <1>3, <2>1, <2>2
<1>10. QED
  BY <1>4, <1>5, <1>6, <1>7, <1>8, <1>9 DEF TaskStep

\* Two tasks of one instance that work at the same time have different numbers.
LEMMA NumbersDiffer ==
  ASSUME TaskInv, OrderInv, NumberInv, NEW i \in Tasks, NEW j \in Tasks, i # j,
         taskList[i] = taskList[j], At(i, Working),
         At(j, Working) \/ (concurrency > 1 /\ At(j, {"waiting"}))
  PROVE  task[i].attempt # task[j].attempt
<1>1. i \in Nat /\ j \in Nat /\ concurrency \in Nat
  BY DEF TaskInv, Tasks
<1>2. concurrency # 0
  BY DEF TaskInv, At, Working
<1>3. i < j \/ j < i
  BY <1>1
<1>4. CASE concurrency = 1
  BY <1>3, <1>4 DEF OrderInv, At, Working
<1>5. CASE concurrency > 1
  BY <1>3, <1>5 DEF NumberInv, At, Working
<1>6. QED
  BY <1>1, <1>2, <1>4, <1>5

\* A task that ends has all tasks before it behind, one that starts too.
LEMMA TaskKeepsOrder ==
  ASSUME TaskInv, DirInv, OrderInv, NEW i \in Tasks, TaskStep(i)
  PROVE  OrderInv'
<1> SUFFICES ASSUME concurrency = 1, NEW j \in Tasks, NEW k \in Tasks,
                    j < k, At(k, Working \cup {"over", "done"})'
             PROVE  At(j, {"skipped", "done"})'
  BY TaskMoves DEF OrderInv, Tasks
<1> USE DEF At, Working
<1>1. j \in Nat /\ k \in Nat /\ i \in Nat
  BY DEF Tasks, TaskInv
<1>2. CASE k = i
  <2>1. task[j].at \in {"skipped", "done"}
    BY <1>1, <1>2, TaskMoves DEF OrderInv, CanStart
  <2>2. task'[j] = task[j]
    BY <1>1, <1>2, TaskMoves
  <2>3. QED
    BY <2>1, <2>2
<1>3. CASE k # i
  <2>1. task'[k] = task[k]
    BY <1>3, TaskMoves
  <2>2. task[j].at \in {"skipped", "done"}
    BY <2>1 DEF OrderInv
  <2>3. j # i
    BY <2>2, TaskMoves
  <2>4. QED
    BY <2>2, <2>3, TaskMoves
<1>4. QED
  BY <1>2, <1>3

\* What a task's step leaves of the numbers, given what it does to the directories.
LEMMA TaskKeepsNumbers ==
  ASSUME TaskInv, DirInv, OrderInv, NumberInv, NEW i \in Tasks, TaskStep(i)
  PROVE  NumberInv'
<1> USE DEF At, Working, Numbered
<1>1. Tasks' = Tasks /\ \A j \in Tasks : taskList[j] \in Instances /\ j \in Nat
  BY TaskMoves DEF Tasks, TaskInv
<1>2. concurrency > 1 =>
        \A j, k \in Tasks :
          j < k /\ taskList[j] = taskList[k] /\ task'[j].at # "skipped" /\ task'[k].at # "skipped"
            => task'[j].attempt # task'[k].attempt
  <2>1. \A j \in Tasks : /\ task'[j].at # "skipped" => task[j].at # "skipped"
                         /\ concurrency > 1 => task'[j].attempt = task[j].attempt
    BY TaskMoves
  <2>2. QED
    BY <2>1 DEF NumberInv
<1>3. task[i] \in TaskStates /\ task[i].attempt \in Nat
  BY DEF TaskInv, TaskStates
<1> DEFINE x == taskList[i]
           n == task[i].attempt
           Fresh(j) == task'[j].attempt \notin DOMAIN attempts'[taskList[j]]
           Held(j) == /\ task'[j].attempt \in DOMAIN attempts'[taskList[j]]
                      /\ ~ attempts'[taskList[j]][task'[j].attempt].artifacts
                      /\ task'[j].at # "artifacts" =>
                           attempts'[taskList[j]][task'[j].attempt].status = "none"
\* The other tasks.
<1>4. ASSUME NEW j \in Tasks \ {i}
      PROVE  /\ task'[j].at = "prepare" \/ (concurrency > 1 /\ task'[j].at = "waiting") => Fresh(j)
             /\ task'[j].at \in Numbered => Held(j)
  <2>1. task'[j] = task[j]
    BY TaskMoves
  <2>2. /\ task[j].at = "prepare" \/ (concurrency > 1 /\ task[j].at = "waiting") =>
             task[j].attempt \notin DOMAIN attempts[taskList[j]]
        /\ task[j].at \in Numbered =>
             /\ task[j].attempt \in DOMAIN attempts[taskList[j]]
             /\ ~ attempts[taskList[j]][task[j].attempt].artifacts
             /\ task[j].at # "artifacts" => attempts[taskList[j]][task[j].attempt].status = "none"
    BY DEF NumberInv
  <2>3. CASE attempts' = attempts
    BY <2>1, <2>2, <2>3
  <2>4. ASSUME task[i].at \in Working, taskList[j] = x,
               task[j].at \in Working \/ (concurrency > 1 /\ task[j].at = "waiting")
        PROVE  task[j].attempt # n
    BY <2>4, NumbersDiffer
  <2>5. CASE Prepare(i)
    <3>1. /\ attempts' = [attempts EXCEPT ![x] = WithAttempt(@, n)]
          /\ task[i].at \in Working
      BY <2>5 DEF Prepare
    <3>2. /\ DOMAIN attempts'[x] = DOMAIN attempts[x] \cup {n}
          /\ \A k \in DOMAIN attempts[x] : attempts'[x][k] = attempts[x][k]
          /\ \A y \in Instances \ {x} : attempts'[y] = attempts[y]
      BY <1>1, <1>3, <3>1, Registered
    <3>3. QED
      BY <1>1, <2>1, <2>2, <2>4, <3>1, <3>2
  <2>6. CASE WriteManifest(i) \/ WriteArtifacts(i)
    <3>1. /\ task[i].at \in {"manifest", "artifacts"} /\ n \in DOMAIN attempts[x]
      BY <2>6 DEF WriteManifest, WriteArtifacts, NumberInv
    <3>2. \E d : attempts' = [attempts EXCEPT ![x][n] = d]
      BY <2>6 DEF WriteManifest, WriteArtifacts
    <3>3. /\ \A y \in Instances : DOMAIN attempts'[y] = DOMAIN attempts[y]
          /\ \A y \in Instances : \A k \in DOMAIN attempts[y] :
               y # x \/ k # n => attempts'[y][k] = attempts[y][k]
      BY <1>1, <3>1, <3>2 DEF DirInv
    <3>4. QED
      BY <1>1, <2>1, <2>2, <2>4, <3>1, <3>3
  <2>7. QED
    BY <2>3, <2>5, <2>6
    DEF TaskStep, Start, SourceFails, PreflightFails, LockBuild, Build, BuildFails, Inner, WriteFails, CleanupTask, disk
\* The task itself.
<1>5. /\ task'[i].at = "prepare" => Fresh(i)
      /\ task'[i].at \in Numbered => Held(i)
  <2>1. task[i].at \in Numbered =>
             /\ n \in DOMAIN attempts[x]
             /\ ~ attempts[x][n].artifacts
             /\ task[i].at # "artifacts" => attempts[x][n].status = "none"
    BY DEF NumberInv
  <2>2. task[i].at \in Working => task'[i].attempt = n
    BY TaskMoves
  <2>3. CASE Start(i)
    <3>1. attempts' = attempts /\ task'[i].at = "prepare" /\ task'[i].attempt = Number(i) /\ task[i].at = "waiting"
      BY <1>3, <2>3 DEF Start, disk, CanStart, TaskInv, TaskStates
    <3>2. concurrency = 1 \/ concurrency > 1
      BY <2>3 DEF Start, CanStart, Running, TaskInv
    <3>3. CASE concurrency = 1
      <4>1. Number(i) = NextAttempt(x)
        BY <3>3 DEF Number
      <4>2. NextAttempt(x) \notin DOMAIN attempts[x]
        BY <1>1, NextAttemptFresh
      <4>3. QED
        BY <3>1, <4>1, <4>2
    <3>4. CASE concurrency > 1
      <4>1. Number(i) = n
        BY <3>4 DEF Number
      <4>2. QED
        BY <3>1, <3>4, <4>1 DEF NumberInv
    <3>5. QED
      BY <3>2, <3>3, <3>4
  <2>4. CASE Prepare(i)
    <3>1. /\ attempts' = [attempts EXCEPT ![x] = WithAttempt(@, n)] /\ task[i].at = "prepare"
          /\ task'[i].at \in {"inner", "locking"}
      BY <2>4 DEF Prepare, TaskInv, TaskStates
    <3>2. n \notin DOMAIN attempts[x]
      BY <3>1 DEF NumberInv
    <3>3. /\ DOMAIN attempts'[x] = DOMAIN attempts[x] \cup {n}
          /\ attempts'[x][n] = [status |-> "none", artifacts |-> FALSE]
      BY <1>1, <1>3, <3>1, <3>2, Registered
    <3>4. QED
      BY <2>2, <3>1, <3>3
  <2>5. CASE WriteManifest(i)
    <3>1. /\ attempts' = [attempts EXCEPT ![x][n].status = task[i].outcome]
          /\ task[i].at = "manifest" /\ task'[i].at = "artifacts"
      BY <2>5 DEF WriteManifest, TaskInv, TaskStates
    <3>2. attempts[x][n] \in Dirs
      BY <1>1, <2>1, <3>1 DEF DirInv
    <3>3. attempts'[x][n] = [attempts[x][n] EXCEPT !.status = task[i].outcome]
          /\ DOMAIN attempts'[x] = DOMAIN attempts[x]
      BY <1>1, <2>1, <3>1 DEF DirInv
    <3>4. QED
      BY <2>1, <2>2, <3>1, <3>2, <3>3 DEF Dirs
  <2>6. CASE WriteArtifacts(i)
    <3>1. task'[i].at = "over"
      BY <2>6 DEF WriteArtifacts, Over, TaskInv, TaskStates
    <3>2. QED
      BY <3>1
  <2>7. CASE SourceFails(i) \/ PreflightFails(i) \/ BuildFails(i) \/ WriteFails(i) \/ CleanupTask(i)
    <3>1. task'[i].at \in {"over", "done"}
      BY <2>7 DEF SourceFails, PreflightFails, BuildFails, WriteFails, CleanupTask, Over, TaskInv, TaskStates
    <3>2. QED
      BY <3>1
  <2>8. CASE LockBuild(i) \/ Build(i) \/ Inner(i)
    <3>1. /\ task[i].at \in {"locking", "building", "inner"} /\ task'[i].at \in {"inner", "building", "manifest"}
          /\ attempts' = attempts
      BY <2>8 DEF LockBuild, Build, Inner, disk, TaskInv, TaskStates
    <3>2. QED
      BY <2>1, <2>2, <3>1
  <2>9. QED
    BY <2>3, <2>4, <2>5, <2>6, <2>7, <2>8 DEF TaskStep
<1>6. task'[i].at # "waiting"
  BY TaskMoves
<1>7. UNCHANGED <<taskList, concurrency>>
  BY TaskMoves
<1>8. QED
  BY <1>1, <1>2, <1>4, <1>5, <1>6, <1>7 DEF NumberInv

\* Images are removed behind a task only when nobody else works.
LEMMA TaskKeepsImages ==
  ASSUME TaskInv, DirInv, OrderInv, ImageInv, NEW i \in Tasks, TaskStep(i)
  PROVE  ImageInv'
<1> USE DEF At, Working
<1>1. Tasks' = Tasks /\ (\A j \in Tasks : ImageOf(j)' = ImageOf(j)) /\ \A j \in Tasks : j \in Nat
  BY TaskMoves DEF Tasks, ImageOf, TaskInv
<1>2. /\ \A j \in Tasks \ {i} : task'[j] = task[j]
      /\ task \in [Tasks -> TaskStates]
  BY TaskMoves DEF TaskInv
<1>3. ASSUME cache' \subseteq fixed', fixed \subseteq fixed',
             task'[i].at = "inner" => ImageOf(i) \in {NoImage} \cup fixed'
      PROVE  ImageInv'
  BY <1>1, <1>2, <1>3 DEF ImageInv
<1>4. CASE Start(i) \/ SourceFails(i) \/ PreflightFails(i) \/ Inner(i) \/ WriteManifest(i) \/ WriteArtifacts(i) \/ WriteFails(i)
  <2>1. UNCHANGED <<fixed, cache>>
    BY <1>4 DEF Start, SourceFails, PreflightFails, Inner, WriteManifest, WriteArtifacts, WriteFails, images
  <2>2. task'[i].at # "inner"
    BY <1>2, <1>4 DEF Start, SourceFails, PreflightFails, Inner, WriteManifest, WriteArtifacts, WriteFails, Over, TaskStates
  <2>3. QED
    BY <1>3, <2>1, <2>2 DEF ImageInv
<1>5. CASE Prepare(i)
  BY <1>2, <1>3, <1>5 DEF Prepare, images, ImageInv, TaskStates
<1>6. CASE LockBuild(i)
  BY <1>2, <1>3, <1>6 DEF LockBuild, ImageInv, TaskStates
<1>7. CASE Build(i)
  BY <1>2, <1>3, <1>7 DEF Build, ImageInv, TaskStates
<1>8. CASE BuildFails(i)
  BY <1>2, <1>3, <1>8 DEF BuildFails, Over, ImageInv, TaskStates
<1>9. CASE CleanupTask(i)
  <2>1. concurrency = 1 /\ task[i].at = "over" /\ task'[i].at = "done" /\ Cleanup({i}, NextImage(i))
    BY <1>2, <1>9 DEF CleanupTask, TaskStates
  <2>2. \A j \in Tasks \ {i} : task[j].at # "inner"
    <3>1. ASSUME NEW j \in Tasks \ {i}, task[j].at = "inner" PROVE FALSE
      <4>1. i < j \/ j < i
        BY <1>1
      <4>2. QED
        BY <2>1, <3>1, <4>1 DEF OrderInv
    <3>2. QED
      BY <3>1
  <2>3. cache' \subseteq fixed'
    BY <2>1 DEF Cleanup, ImageInv
  <2>4. QED
    BY <1>1, <1>2, <2>1, <2>2, <2>3 DEF ImageInv
<1>10. QED
  BY <1>4, <1>5, <1>6, <1>7, <1>8, <1>9 DEF TaskStep

\* Numbers given before the start are new, and different for repetitions.
LEMMA PreassignedNumbers ==
  ASSUME TaskInv, DirInv, NEW pending \in SUBSET Tasks
  PROVE  /\ \A i \in Tasks : /\ Preassigned(i, pending) \in Nat
                             /\ Preassigned(i, pending) \notin DOMAIN attempts[taskList[i]]
         /\ \A i, j \in pending : i < j /\ taskList[i] = taskList[j]
              => Preassigned(i, pending) # Preassigned(j, pending)
<1> DEFINE Before(i) == {j \in pending : j < i /\ taskList[j] = taskList[i]}
<1>1. IsFiniteSet(Tasks) /\ \A i \in Tasks : i \in Nat /\ taskList[i] \in Instances
  <2>1. Tasks = 1..Len(taskList) /\ Len(taskList) \in Nat
    BY DEF TaskInv, Tasks
  <2>2. QED
    BY <2>1, FS_Interval DEF TaskInv
<1>2. ASSUME NEW i \in Tasks PROVE IsFiniteSet(Before(i)) /\ Cardinality(Before(i)) \in Nat
  <2>1. Before(i) \subseteq Tasks
    OBVIOUS
  <2>2. QED
    BY <1>1, <2>1, FS_Subset, FS_CardinalityType
<1>3. \A i \in Tasks : /\ NextAttempt(taskList[i]) \in Nat
                       /\ \A n \in DOMAIN attempts[taskList[i]] : n < NextAttempt(taskList[i]) /\ n \in Nat
  BY <1>1, NextAttemptFresh DEF DirInv
<1>4. \A i \in Tasks : Preassigned(i, pending) = NextAttempt(taskList[i]) + Cardinality(Before(i))
  BY DEF Preassigned
<1>5. ASSUME NEW i \in pending, NEW j \in pending, i < j, taskList[i] = taskList[j]
      PROVE  Cardinality(Before(i)) < Cardinality(Before(j))
  <2>1. Before(i) \cup {i} \subseteq Before(j) /\ i \notin Before(i)
    BY <1>1, <1>5
  <2>2. Cardinality(Before(i) \cup {i}) = Cardinality(Before(i)) + 1
    BY <1>2, <2>1, FS_AddElement
  <2>3. Cardinality(Before(i) \cup {i}) <= Cardinality(Before(j))
    BY <1>2, <2>1, FS_Subset
  <2>4. Cardinality(Before(i)) \in Nat /\ Cardinality(Before(j)) \in Nat
    BY <1>2
  <2> HIDE DEF Before
  <2>5. QED
    BY <2>2, <2>3, <2>4
<1> HIDE DEF Before
<1>6. ASSUME NEW i \in Tasks
      PROVE  /\ Preassigned(i, pending) \in Nat
             /\ Preassigned(i, pending) \notin DOMAIN attempts[taskList[i]]
  <2>1. NextAttempt(taskList[i]) <= Preassigned(i, pending) /\ Preassigned(i, pending) \in Nat
    BY <1>2, <1>3, <1>4
  <2>2. QED
    BY <1>3, <2>1
<1>7. QED
  BY <1>2, <1>3, <1>4, <1>5, <1>6

\* Every step of the collection keeps the invariant.
LEMMA CollectInvStep == CollectInv /\ [Next]_vars => CollectInv'
<1> SUFFICES ASSUME CollectInv, [Next]_vars PROVE CollectInv'
  OBVIOUS
<1> USE DEF CollectInv, At, Working, disk, images, process, prefetching, history
<1>1. ASSUME NEW i \in Tasks, TaskStep(i) PROVE CollectInv'
  <2>1. OrderInv' /\ NumberInv' /\ ImageInv'
    BY <1>1, TaskKeepsOrder, TaskKeepsNumbers, TaskKeepsImages
  <2>2. TaskInv'
    <3>1. /\ UNCHANGED <<taskList, concurrency>>
          /\ \E st \in TaskStates : task' = [task EXCEPT ![i] = st]
      BY <1>1, TaskStepType
    <3>2. concurrency # 0
      BY <1>1, TaskMoves DEF TaskInv
    <3> HIDE DEF CollectInv
    <3>3. task \in [Tasks -> TaskStates] /\ taskList \in Seq(Instances) /\ concurrency \in Nat
      BY DEF CollectInv, TaskInv
    <3>4. task' \in [Tasks -> TaskStates]
      BY ONLY <3>1, <3>3
    <3>5. QED
      BY <3>1, <3>2, <3>3, <3>4 DEF TaskInv, Tasks
  <2>3. DirInv'
    <3>1. taskList[i] \in Instances /\ task[i] \in TaskStates
      BY DEF TaskInv, Tasks
    <3>2. CASE attempts' = attempts
      BY <3>2 DEF DirInv
    <3>3. CASE Prepare(i)
      BY <3>1, <3>3, Registered DEF Prepare, TaskStates
    <3>4. CASE WriteManifest(i) \/ WriteArtifacts(i)
      <4>1. task[i].attempt \in DOMAIN attempts[taskList[i]]
        BY <3>4 DEF WriteManifest, WriteArtifacts, NumberInv, Numbered
      <4>2. attempts[taskList[i]][task[i].attempt] \in Dirs /\ attempts = [x \in Instances |-> attempts[x]]
        BY <3>1, <4>1 DEF DirInv
      <4>3. \E d \in Dirs : attempts' = [attempts EXCEPT ![taskList[i]][task[i].attempt] = d]
        <5>1. CASE WriteManifest(i)
          <6>1. attempts' = [attempts EXCEPT ![taskList[i]][task[i].attempt] =
                               [attempts[taskList[i]][task[i].attempt] EXCEPT !.status = task[i].outcome]]
            BY <3>1, <4>1, <4>2, <5>1 DEF WriteManifest
          <6>2. task[i].outcome \in Outcomes
            BY <3>1 DEF TaskStates
          <6>3. QED
            BY <4>2, <6>1, <6>2 DEF Dirs, Outcomes
        <5>2. CASE WriteArtifacts(i)
          <6>1. attempts' = [attempts EXCEPT ![taskList[i]][task[i].attempt] =
                               [attempts[taskList[i]][task[i].attempt] EXCEPT !.artifacts = TRUE]]
            BY <3>1, <4>1, <4>2, <5>2 DEF WriteArtifacts
          <6>2. QED
            BY <4>2, <6>1 DEF Dirs
        <5>3. QED
          BY <3>4, <5>1, <5>2
      <4>4. QED
        BY <3>1, <4>1, <4>3, Written
    <3>5. QED
      BY <1>1, <3>2, <3>3, <3>4
      DEF TaskStep, Start, SourceFails, PreflightFails, LockBuild, Build, BuildFails, Inner, WriteFails, CleanupTask
  <2>4. QED
    BY <2>1, <2>2, <2>3
<1>2. CASE Invoke
  <2>1. PICK c \in Concurrencies :
          LET pending == {i \in Tasks : taskList[i] \notin CompletedIds}
          IN  /\ concurrency' = c
              /\ task' = [i \in Tasks |->
                   IF i \notin pending THEN Skipped
                   ELSE [at |-> "waiting", attempt |-> IF c > 1 THEN Preassigned(i, pending) ELSE 0,
                         outcome |-> "none", fixed |-> FALSE]]
    BY <1>2 DEF Invoke
  <2> DEFINE pending == {i \in Tasks : taskList[i] \notin CompletedIds}
             num == [i \in Tasks |-> Preassigned(i, pending)]
  <2>2. /\ concurrency' = c /\ c \in Nat \ {0}
        /\ UNCHANGED <<taskList, attempts, fixed, cache>>
    BY <1>2, <2>1, CollectRunAssumption DEF Invoke
  <2>3. /\ \A i \in Tasks : num[i] \in Nat /\ num[i] \notin DOMAIN attempts[taskList[i]]
        /\ \A i, j \in pending : i < j /\ taskList[i] = taskList[j] => num[i] # num[j]
    BY PreassignedNumbers
  <2>4. task' = [i \in Tasks |->
          IF i \notin pending THEN Skipped
          ELSE [at |-> "waiting", attempt |-> IF c > 1 THEN num[i] ELSE 0, outcome |-> "none", fixed |-> FALSE]]
    BY <2>1
  <2> HIDE DEF pending, num
  <2>5. TaskInv'
    BY <2>2, <2>3, <2>4 DEF TaskInv, TaskStates, Stages, Outcomes, Skipped, Tasks
  <2>6. /\ \A i \in Tasks : task'[i].at \in {"skipped", "waiting"}
        /\ \A i \in Tasks : task'[i].at = "waiting" => i \in pending /\ (c > 1 => task'[i].attempt = num[i])
    BY <2>4 DEF Skipped
  <2>7. OrderInv' /\ ImageInv' /\ DirInv'
    BY <2>2, <2>6 DEF OrderInv, ImageInv, DirInv, Tasks
  <2>8. NumberInv'
    BY <2>2, <2>3, <2>6 DEF NumberInv, Tasks, Numbered
  <2>9. QED
    BY <2>5, <2>7, <2>8
<1>3. ASSUME UNCHANGED <<taskList, concurrency, task, attempts, fixed, cache>> PROVE CollectInv'
  BY <1>3 DEF TaskInv, DirInv, OrderInv, NumberInv, ImageInv, Tasks, ImageOf, Numbered
<1>4. CASE PrefetchJob \/ Rest \/ UNCHANGED vars
  BY <1>3, <1>4 DEF PrefetchJob, Rest, vars
<1>5. CASE CleanupAll
  <2>1. /\ UNCHANGED <<taskList, concurrency, attempts>> /\ concurrency > 1
        /\ \A i \in Tasks : task[i].at \in {"skipped", "over"}
        /\ task' = [i \in Tasks |-> [task[i] EXCEPT !.at = IF task[i].at = "over" THEN "done" ELSE task[i].at]]
    BY <1>5 DEF CleanupAll
  <2>2. task \in [Tasks -> TaskStates]
    BY DEF TaskInv
  <2>3. TaskInv' /\ \A i \in Tasks : /\ task'[i].at \in {"skipped", "done"}
                                     /\ task'[i].at = "skipped" => task[i].at = "skipped"
                                     /\ task'[i].attempt = task[i].attempt
    BY <2>1, <2>2 DEF TaskInv, TaskStates, Stages, Tasks
  <2>4. cache' \subseteq fixed'
    BY <1>5 DEF CleanupAll, Cleanup, ImageInv
  <2>5. OrderInv' /\ ImageInv' /\ DirInv'
    BY <2>1, <2>3, <2>4 DEF OrderInv, ImageInv, DirInv, Tasks
  <2>6. Tasks' = Tasks
    BY <2>1 DEF Tasks
  <2>7. \A i, j \in Tasks :
          i < j /\ taskList'[i] = taskList'[j] /\ task'[i].at # "skipped" /\ task'[j].at # "skipped"
            => task'[i].attempt # task'[j].attempt
    <3>1. TaskInv /\ NumberInv
      OBVIOUS
    <3>2. \A i \in Tasks : task'[i].at # "skipped" => task[i].at # "skipped"
      BY <2>1, <2>2 DEF TaskStates
    <3>3. concurrency > 1 =>
            \A i, j \in Tasks :
              i < j /\ taskList[i] = taskList[j] /\ task[i].at # "skipped" /\ task[j].at # "skipped"
                => task[i].attempt # task[j].attempt
      BY <3>1 DEF NumberInv
    <3>4. taskList' = taskList /\ concurrency > 1
      BY <2>1
    <3>5. \A i \in Tasks : task'[i].attempt = task[i].attempt
      BY <2>3
    <3> HIDE DEF CollectInv
    <3>6. QED
      BY ONLY <3>2, <3>3, <3>4, <3>5
  <2>8. NumberInv'
    BY <2>3, <2>6, <2>7 DEF NumberInv, Numbered
  <2>9. QED
    BY <2>3, <2>5, <2>8
<1>6. CASE WriteResults \/ Kill
  <2>1. ProcessEnds /\ UNCHANGED <<attempts, fixed>>
    BY <1>6 DEF WriteResults, Kill
  <2>2. /\ concurrency' = 0 /\ cache' = {} /\ UNCHANGED taskList
        /\ task' = [i \in Tasks |-> Skipped]
    BY <2>1 DEF ProcessEnds
  <2>3. TaskInv'
    BY <2>2 DEF TaskInv, TaskStates, Stages, Outcomes, Skipped, Tasks
  <2>4. DirInv' /\ OrderInv' /\ NumberInv' /\ ImageInv'
    BY <2>1, <2>2 DEF DirInv, OrderInv, NumberInv, ImageInv, Skipped, Tasks, Numbered
  <2>5. QED
    BY <2>3, <2>4
<1>7. QED
  BY <1>1, <1>2, <1>4, <1>5, <1>6 DEF Next
-----------------------------------------------------------------------------
(* Theorems.                                                               *)

\* A directory keeps what was written into it in every step.
LEMMA AttemptsKeptStep ==
  ASSUME CollectInv, [Next]_vars, NEW x \in Instances, NEW n \in DOMAIN attempts[x]
  PROVE  /\ n \in DOMAIN attempts'[x]
         /\ attempts[x][n].status # "none" => attempts'[x][n].status = attempts[x][n].status
         /\ attempts[x][n].artifacts => attempts'[x][n].artifacts
<1> USE DEF CollectInv, At, disk
<1>1. CASE attempts' = attempts
  BY <1>1
<1>2. ASSUME NEW i \in Tasks, Prepare(i) \/ WriteManifest(i) \/ WriteArtifacts(i)
      PROVE  /\ n \in DOMAIN attempts'[x]
             /\ attempts[x][n].status # "none" => attempts'[x][n].status = attempts[x][n].status
             /\ attempts[x][n].artifacts => attempts'[x][n].artifacts
  <2>1. taskList[i] \in Instances /\ task[i].attempt \in Nat
    BY DEF TaskInv, Tasks, TaskStates
  <2>2. CASE Prepare(i)
    <3>1. attempts' = [attempts EXCEPT ![taskList[i]] = WithAttempt(@, task[i].attempt)]
      BY <2>2 DEF Prepare
    <3>2. n \in DOMAIN attempts'[x] /\ attempts'[x][n] = attempts[x][n]
      BY <2>1, <3>1, Registered, ZenonT(40)
    <3>3. QED
      BY <3>2
  <2>3. CASE WriteManifest(i) \/ WriteArtifacts(i)
    <3> DEFINE y == taskList[i]
               m == task[i].attempt
    <3>1. /\ m \in DOMAIN attempts[y]
          /\ WriteManifest(i) => attempts[y][m].status = "none"
      BY <2>3 DEF WriteManifest, WriteArtifacts, NumberInv, Numbered
    <3>2. /\ attempts = [z \in Instances |-> attempts[z]]
          /\ attempts[y] \in [DOMAIN attempts[y] -> Dirs] /\ attempts[y][m] \in Dirs
      BY <2>1, <3>1 DEF DirInv
    <3>3. \/ /\ WriteManifest(i)
             /\ attempts' = [attempts EXCEPT ![y][m].status = task[i].outcome]
          \/ attempts' = [attempts EXCEPT ![y][m].artifacts = TRUE]
      BY <2>3 DEF WriteManifest, WriteArtifacts
    <3> HIDE DEF CollectInv, y, m
    <3>4. CASE x # y \/ n # m
      BY <2>1, <3>1, <3>2, <3>3, <3>4, SMTT(30)
    <3>5. CASE x = y /\ n = m
      BY <2>1, <3>1, <3>2, <3>3, <3>5 DEF Dirs
    <3>6. QED
      BY <3>4, <3>5
  <2>4. QED
    BY <1>2, <2>2, <2>3
<1>3. QED
  BY <1>1, <1>2
  DEF Next, TaskStep, Start, SourceFails, PreflightFails, LockBuild, Build, BuildFails, Inner, WriteFails,
      CleanupTask, Invoke, PrefetchJob, CleanupAll, WriteResults, Kill, Rest, vars

\* Every collection keeps to the invariant, from an empty run directory on.
LEMMA CollectInvariant == Spec => []CollectInv
<1>1. Init => CollectInv
  <2> SUFFICES ASSUME Init PROVE CollectInv
    OBVIOUS
  <2>1. TaskInv /\ DirInv
    BY TaskInvInit
  <2>2. concurrency = 0 /\ cache = {} /\ \A i \in Tasks : task[i].at = "skipped"
    BY DEF Init, Skipped
  <2>3. QED
    BY <2>1, <2>2 DEF CollectInv, OrderInv, NumberInv, Numbered, ImageInv, At, Working
<1>2. QED
  BY <1>1, CollectInvStep, PTL DEF Spec

\* An attempt directory, once made, stays, and no other attempt replaces its
\* status or its artifacts: whatever tasks, repetitions, concurrency, kills and
\* failures there are (the numbering of _run_scaffold_tasks and run_attempt).
THEOREM AttemptsKeptCorrect == Spec => AttemptsKept
<1>1. CollectInv /\ [Next]_vars =>
        [ \A x \in Instances : \A n \in DOMAIN attempts[x] :
            /\ n \in DOMAIN attempts'[x]
            /\ attempts[x][n].status # "none" => attempts'[x][n].status = attempts[x][n].status
            /\ attempts[x][n].artifacts => attempts'[x][n].artifacts ]_vars
  BY AttemptsKeptStep
<1>2. QED
  BY <1>1, CollectInvariant, PTL DEF Spec, AttemptsKept

\* Whoever runs an agent in a container has its fixed image, however the images
\* are built, cached and removed by others (ensure_fixed_image, cleanup).
THEOREM FixedImagePresentCorrect == Spec => []FixedImagePresent
<1>1. CollectInv => FixedImagePresent
  BY DEF CollectInv, ImageInv, FixedImagePresent
<1>2. QED
  BY <1>1, CollectInvariant, PTL
-----------------------------------------------------------------------------
(* No attempt too many.                                                    *)

Finished(x) == {n \in DOMAIN attempts[x] : attempts[x][n].status \in Terminal}
TasksOf(x) == {i \in Tasks : taskList[i] = x}

\* The tasks of an instance whose attempt has no status on disk yet.
Unwritten == {"waiting", "prepare", "locking", "building", "inner", "manifest"}
MayFinish(x) == {i \in TasksOf(x) : At(i, Unwritten)}

\* What has finished and what still may are no more than the list asks for.
OnceInv ==
  \A x \in Instances :
    Cardinality(Finished(x)) + Cardinality(MayFinish(x)) <= Cardinality(TasksOf(x))

LEMMA OnceFinite ==
  ASSUME TaskInv, DirInv, NEW x \in Instances
  PROVE  /\ IsFiniteSet(Finished(x)) /\ IsFiniteSet(MayFinish(x)) /\ IsFiniteSet(TasksOf(x))
         /\ Cardinality(Finished(x)) \in Nat
         /\ Cardinality(MayFinish(x)) \in Nat
         /\ Cardinality(TasksOf(x)) \in Nat
<1>1. IsFiniteSet(DOMAIN attempts[x])
  <2>1. /\ DOMAIN attempts[x] \subseteq Nat
        /\ \E m \in DOMAIN attempts[x] \cup {0} : \A n \in DOMAIN attempts[x] : n <= m
    BY DEF DirInv
  <2>2. PICK m \in Nat : \A n \in DOMAIN attempts[x] : n <= m
    BY <2>1
  <2>3. DOMAIN attempts[x] \subseteq 0 .. m
    BY <2>1, <2>2
  <2>4. 0 \in Int /\ m \in Int
    BY <2>2
  <2>5. IsFiniteSet(0 .. m)
    BY <2>4, FS_Interval
  <2>6. QED
    BY <2>3, <2>5, FS_Subset
<1>2. IsFiniteSet(Tasks)
  <2>1. Tasks = 1 .. Len(taskList) /\ Len(taskList) \in Nat
    BY DEF TaskInv, Tasks
  <2>2. QED
    BY <2>1, FS_Interval
<1>3. Finished(x) \subseteq DOMAIN attempts[x] /\ TasksOf(x) \subseteq Tasks /\ MayFinish(x) \subseteq Tasks
  BY DEF Finished, TasksOf, MayFinish
<1>4. IsFiniteSet(Finished(x)) /\ IsFiniteSet(MayFinish(x)) /\ IsFiniteSet(TasksOf(x))
  BY <1>1, <1>2, <1>3, FS_Subset
<1>5. QED
  BY <1>4, FS_CardinalityType

\* No status is written, and no task gets one to write.
LEMMA OnceKept ==
  ASSUME TaskInv, DirInv, OnceInv, UNCHANGED taskList,
         \A x \in Instances : Finished(x)' \subseteq Finished(x),
         \A i \in Tasks : task'[i].at \in Unwritten => task[i].at \in Unwritten
  PROVE  OnceInv'
<1>1. ASSUME NEW x \in Instances
      PROVE  Cardinality(Finished(x)') + Cardinality(MayFinish(x)') <= Cardinality(TasksOf(x)')
  <2>1. TasksOf(x)' = TasksOf(x) /\ MayFinish(x)' \subseteq MayFinish(x)
    BY DEF TasksOf, MayFinish, Tasks, At
  <2>2. /\ Cardinality(Finished(x)') <= Cardinality(Finished(x)) /\ Cardinality(Finished(x)') \in Nat
        /\ Cardinality(MayFinish(x)') <= Cardinality(MayFinish(x)) /\ Cardinality(MayFinish(x)') \in Nat
    BY <2>1, OnceFinite, FS_Subset, FS_CardinalityType
  <2>3. Cardinality(Finished(x)) + Cardinality(MayFinish(x)) <= Cardinality(TasksOf(x))
    BY DEF OnceInv
  <2>4. QED
    BY <2>1, <2>2, <2>3, OnceFinite
<1>2. QED
  BY <1>1 DEF OnceInv

\* A task that writes its status had it to write.
LEMMA ManifestOnce ==
  ASSUME CollectInv, OnceInv, NEW i \in Tasks, WriteManifest(i)
  PROVE  OnceInv'
<1>0. PICK y \in Instances, m \in Nat : y = taskList[i] /\ m = task[i].attempt
  BY DEF CollectInv, TaskInv, TaskStates, Tasks
<1>1. /\ TaskInv /\ DirInv /\ y \in Instances /\ task \in [Tasks -> TaskStates]
      /\ task[i].at = "manifest" /\ UNCHANGED taskList
      /\ m \in DOMAIN attempts[y]
  <2>1. TaskInv /\ DirInv /\ NumberInv
    BY DEF CollectInv
  <2>2. task[i].at = "manifest" /\ UNCHANGED taskList
    BY DEF WriteManifest, At, process
  <2>3. m \in DOMAIN attempts[y]
    BY <1>0, <2>1, <2>2 DEF NumberInv, Numbered, At
  <2>4. QED
    BY <2>1, <2>2, <2>3 DEF TaskInv, Tasks
<1>2. /\ task' = [task EXCEPT ![i].at = "artifacts"]
      /\ attempts' = [attempts EXCEPT ![y][m].status = task[i].outcome]
  BY <1>0 DEF WriteManifest
<1>3. /\ DOMAIN attempts'[y] = DOMAIN attempts[y]
      /\ \A n \in DOMAIN attempts[y] \ {m} : attempts'[y][n] = attempts[y][n]
      /\ \A x \in Instances \ {y} : attempts'[x] = attempts[x]
  BY <1>1, <1>2 DEF DirInv
<1>4. /\ \A j \in Tasks \ {i} : task'[j] = task[j]
      /\ task'[i].at = "artifacts"
  BY <1>1, <1>2 DEF TaskStates
<1>5. ASSUME NEW x \in Instances \ {y}
      PROVE  Cardinality(Finished(x)') + Cardinality(MayFinish(x)') <= Cardinality(TasksOf(x)')
  <2>1. Finished(x)' = Finished(x)
    BY <1>3 DEF Finished
  <2>2. TasksOf(x)' = TasksOf(x) /\ MayFinish(x)' = MayFinish(x)
    BY <1>0, <1>1, <1>4 DEF TasksOf, MayFinish, Tasks, At
  <2>3. QED
    BY <2>1, <2>2 DEF OnceInv
<1>6. Cardinality(Finished(y)') + Cardinality(MayFinish(y)') <= Cardinality(TasksOf(y)')
  <2>1. Finished(y)' \subseteq Finished(y) \cup {m}
    BY <1>1, <1>3 DEF Finished
  <2>2. TasksOf(y)' = TasksOf(y) /\ MayFinish(y)' = MayFinish(y) \ {i} /\ i \in MayFinish(y)
    BY <1>0, <1>1, <1>4 DEF TasksOf, MayFinish, Tasks, At, Unwritten
  <2>3. /\ Cardinality(Finished(y)') <= Cardinality(Finished(y)) + 1
        /\ Cardinality(Finished(y)') \in Nat
    <3>1. IsFiniteSet(Finished(y)) /\ Cardinality(Finished(y)) \in Nat
      BY <1>1, OnceFinite
    <3>2. /\ IsFiniteSet(Finished(y) \cup {m})
          /\ Cardinality(Finished(y) \cup {m}) <= Cardinality(Finished(y)) + 1
          /\ Cardinality(Finished(y) \cup {m}) \in Nat
      <4>1. /\ IsFiniteSet(Finished(y) \cup {m})
            /\ \/ Cardinality(Finished(y) \cup {m}) = Cardinality(Finished(y))
               \/ Cardinality(Finished(y) \cup {m}) = Cardinality(Finished(y)) + 1
        BY <3>1, FS_AddElement
      <4>2. QED
        BY <3>1, <4>1
    <3>3. /\ IsFiniteSet(Finished(y)')
          /\ Cardinality(Finished(y)') <= Cardinality(Finished(y) \cup {m})
      BY <2>1, <3>2, FS_Subset
    <3>4. Cardinality(Finished(y)') \in Nat
      BY <3>3, FS_CardinalityType
    <3>5. QED
      BY <3>1, <3>2, <3>3, <3>4
  <2>4. Cardinality(MayFinish(y)') = Cardinality(MayFinish(y)) - 1
    BY <1>1, <2>2, OnceFinite, FS_RemoveElement
  <2>5. Cardinality(Finished(y)) + Cardinality(MayFinish(y)) <= Cardinality(TasksOf(y))
    BY <1>1 DEF OnceInv
  <2>6. QED
    BY <1>1, <2>2, <2>3, <2>4, <2>5, OnceFinite
<1>7. QED
  BY <1>5, <1>6 DEF OnceInv

\* An instance with a finished attempt is left out when an invocation begins.
LEMMA InvokeOnce ==
  ASSUME CollectInv, OnceInv, Invoke
  PROVE  OnceInv'
<1>1. /\ TaskInv /\ DirInv /\ UNCHANGED <<taskList, attempts>>
      /\ \A i \in Tasks : taskList[i] \in CompletedIds => task'[i].at = "skipped"
  BY DEF CollectInv, Invoke, disk, Skipped
<1>2. ASSUME NEW x \in Instances
      PROVE  Cardinality(Finished(x)') + Cardinality(MayFinish(x)') <= Cardinality(TasksOf(x)')
  <2>1. Finished(x)' = Finished(x) /\ TasksOf(x)' = TasksOf(x) /\ MayFinish(x)' \subseteq TasksOf(x)
    BY <1>1 DEF Finished, TasksOf, MayFinish, Tasks
  <2>2. CASE x \in CompletedIds
    <3>1. MayFinish(x)' = {}
      BY <1>1, <2>2 DEF MayFinish, TasksOf, Tasks, At, Unwritten
    <3>2. Cardinality(MayFinish(x)') = 0
      BY <3>1, FS_EmptySet
    <3>3. Cardinality(Finished(x)) + Cardinality(MayFinish(x)) <= Cardinality(TasksOf(x))
      BY DEF OnceInv
    <3>4. QED
      BY <1>1, <2>1, <3>2, <3>3, OnceFinite
  <2>3. CASE x \notin CompletedIds
    <3>1. Finished(x) = {}
      BY <2>3 DEF Finished, CompletedIds
    <3>2. Cardinality(Finished(x)) = 0
      BY <3>1, FS_EmptySet
    <3>3. /\ Cardinality(MayFinish(x)') <= Cardinality(TasksOf(x))
          /\ Cardinality(MayFinish(x)') \in Nat
      BY <1>1, <2>1, OnceFinite, FS_Subset, FS_CardinalityType
    <3>4. QED
      BY <1>1, <2>1, <3>2, <3>3, OnceFinite
  <2>4. QED
    BY <2>2, <2>3
<1>3. QED
  BY <1>2 DEF OnceInv

LEMMA OnceInvStep == CollectInv /\ OnceInv /\ [Next]_vars => OnceInv'
<1> SUFFICES ASSUME CollectInv, OnceInv, [Next]_vars PROVE OnceInv'
  OBVIOUS
<1> USE DEF At, disk, images, process, prefetching, history
<1>1. TaskInv /\ DirInv /\ task \in [Tasks -> TaskStates]
  BY DEF CollectInv, TaskInv
<1>2. ASSUME UNCHANGED <<taskList, attempts>>,
             \A i \in Tasks : task'[i].at \in Unwritten => task[i].at \in Unwritten
      PROVE  OnceInv'
  <2>1. \A x \in Instances : Finished(x)' \subseteq Finished(x)
    BY <1>2 DEF Finished
  <2>2. QED
    BY <1>1, <1>2, <2>1, OnceKept
<1>3. ASSUME NEW i \in Tasks, TaskStep(i) PROVE OnceInv'
  <2>1. CASE WriteManifest(i)
    BY <2>1, ManifestOnce
  <2>2. /\ UNCHANGED taskList
        /\ \A j \in Tasks : task'[j].at \in Unwritten => task[j].at \in Unwritten \cup {"artifacts"}
        /\ \A j \in Tasks \ {i} : task'[j] = task[j]
    BY <1>1, <1>3, TaskMoves DEF Unwritten, Working
  <2>3. WriteArtifacts(i) \/ WriteFails(i) => task'[i].at = "over"
    BY <1>1 DEF WriteArtifacts, WriteFails, Over, TaskStates
  <2>4. task[i].at = "artifacts" => WriteArtifacts(i) \/ WriteFails(i)
    BY <1>3 DEF TaskStep, Start, SourceFails, CanStart, Prepare, PreflightFails, LockBuild, Build, BuildFails,
                Inner, WriteManifest, CleanupTask
  <2>5. \A j \in Tasks : task'[j].at \in Unwritten => task[j].at \in Unwritten
    BY <2>2, <2>3, <2>4 DEF Unwritten
  <2>6. CASE Prepare(i)
    <3>1. attempts' = [attempts EXCEPT ![taskList[i]] = WithAttempt(@, task[i].attempt)]
      BY <2>6 DEF Prepare
    <3>2. taskList[i] \in Instances /\ task[i].attempt \in Nat
      BY <1>1 DEF TaskInv, Tasks, TaskStates
    <3>3. /\ DOMAIN attempts'[taskList[i]] = DOMAIN attempts[taskList[i]] \cup {task[i].attempt}
          /\ task[i].attempt \notin DOMAIN attempts[taskList[i]] =>
               attempts'[taskList[i]][task[i].attempt] = [status |-> "none", artifacts |-> FALSE]
          /\ \A k \in DOMAIN attempts[taskList[i]] : attempts'[taskList[i]][k] = attempts[taskList[i]][k]
          /\ \A y \in Instances \ {taskList[i]} : attempts'[y] = attempts[y]
      BY <1>1, <3>1, <3>2, Registered
    <3>4. \A x \in Instances : Finished(x)' \subseteq Finished(x)
      BY <3>3 DEF Finished, Terminal
    <3>5. QED
      BY <1>1, <2>2, <2>5, <3>4, OnceKept
  <2>7. CASE WriteArtifacts(i)
    <3>1. \A x \in Instances : Finished(x)' \subseteq Finished(x)
      <4>1. attempts' = [attempts EXCEPT ![taskList[i]][task[i].attempt].artifacts = TRUE]
        BY <2>7 DEF WriteArtifacts
      <4>2. taskList[i] \in Instances /\ task[i].attempt \in DOMAIN attempts[taskList[i]]
        BY <1>1, <2>7 DEF WriteArtifacts, CollectInv, NumberInv, Numbered, TaskInv, Tasks
      <4>3. attempts[taskList[i]][task[i].attempt] \in Dirs
        BY <1>1, <4>2 DEF DirInv
      <4>4. QED
        BY <1>1, <4>1, <4>2, <4>3 DEF Finished, DirInv, Dirs
    <3>2. QED
      BY <1>1, <2>2, <2>5, <3>1, OnceKept
  <2>8. CASE UNCHANGED attempts
    BY <1>2, <2>2, <2>5, <2>8
  <2>9. QED
    BY <1>3, <2>1, <2>6, <2>7, <2>8
    DEF TaskStep, Start, SourceFails, PreflightFails, LockBuild, Build, BuildFails, Inner, WriteFails, CleanupTask
<1>4. CASE Invoke
  BY <1>4, InvokeOnce
<1>5. CASE PrefetchJob \/ Rest \/ UNCHANGED vars
  BY <1>2, <1>5 DEF PrefetchJob, Rest, vars
<1>6. CASE CleanupAll
  <2>1. /\ UNCHANGED <<taskList, attempts>>
        /\ \A i \in Tasks : task[i].at \in {"skipped", "over"}
        /\ task' = [i \in Tasks |-> [task[i] EXCEPT !.at = IF task[i].at = "over" THEN "done" ELSE task[i].at]]
    BY <1>6 DEF CleanupAll
  <2>2. \A i \in Tasks : task'[i].at \in {"skipped", "done"}
    BY <1>1, <2>1 DEF TaskStates
  <2>3. QED
    BY <1>2, <2>1, <2>2 DEF Unwritten
<1>7. CASE WriteResults \/ Kill
  BY <1>2, <1>7 DEF WriteResults, Kill, ProcessEnds, Skipped, Unwritten
<1>8. QED
  BY <1>3, <1>4, <1>5, <1>6, <1>7 DEF Next

\* "completed and exhausted tasks are skipped on resume": however invocations are
\* killed and resumed, whatever runs at the same time and fails, no instance gets
\* more finished attempts than the task list asks for.
THEOREM FinishedOnceCorrect == Spec => []FinishedOnce
<1>1. Init => OnceInv
  <2> SUFFICES ASSUME Init, NEW x \in Instances
               PROVE  Cardinality(Finished(x)) + Cardinality(MayFinish(x)) <= Cardinality(TasksOf(x))
    BY DEF OnceInv
  <2>1. Finished(x) = {} /\ MayFinish(x) = {}
    BY DEF Init, Finished, MayFinish, TasksOf, Tasks, At, Skipped, Unwritten
  <2>2. Cardinality(Finished(x)) = 0 /\ Cardinality(MayFinish(x)) = 0
    BY <2>1, FS_EmptySet
  <2>3. QED
    BY <2>2, TaskInvInit, OnceFinite
<1>2. CollectInv /\ OnceInv => FinishedOnce
  <2> SUFFICES ASSUME CollectInv, OnceInv, NEW x \in Instances
               PROVE  Cardinality(Finished(x)) <= Cardinality(TasksOf(x))
    BY DEF FinishedOnce, Finished, TasksOf
  <2>1. Cardinality(Finished(x)) + Cardinality(MayFinish(x)) <= Cardinality(TasksOf(x))
    BY DEF OnceInv
  <2>2. QED
    BY <2>1, OnceFinite DEF CollectInv
<1>3. QED
  BY <1>1, <1>2, CollectInvariant, OnceInvStep, PTL DEF Spec

-----------------------------------------------------------------------------
(* The image budget.                                                       *)

\* The tasks under way, those of them that are to remove a fixed image, and in a
\* sequential collection the first of the waiting tasks that has an image.
UnderWay == {i \in Tasks : At(i, Working \cup {"over"})}
Fixing == {i \in Tasks : At(i, (Working \ {"prepare"}) \cup {"over"}) /\ task[i].fixed}
Coming(i) == At(i, {"waiting"}) /\ ImageOf(i) # NoImage
First == {i \in Tasks : concurrency = 1 /\ Coming(i) /\ \A j \in Tasks : j < i => ~ Coming(j)}

SkipInv == Running => \A i \in Tasks : At(i, {"skipped"}) <=> taskList[i] \in completed

\* Only the image of the first waiting task that has one is prefetched.
JobsInv ==
  /\ jobs \in Seq(Images)
  /\ concurrency # 1 => jobs = <<>>
  /\ \A k \in DOMAIN jobs : jobs[k] = prefetch.image /\ \E i \in First : jobs[k] = ImageOf(i)

\* Every image has a task that is to remove it, or is on record as left behind.
HeldInv ==
  /\ source \subseteq Images /\ fixed \subseteq Images
  /\ \A i \in Tasks : At(i, {"locking", "building"}) => ImageOf(i) # NoImage
  /\ source \subseteq leftover \cup {ImageOf(i) : i \in UnderWay \cup First}
  /\ fixed \subseteq leftover \cup {ImageOf(i) : i \in Fixing}

BudgetInv == SkipInv /\ JobsInv /\ HeldInv

LEMMA MinIs ==
  ASSUME NEW S \in SUBSET Nat, S # {}
  PROVE  Min(S) \in S /\ \A y \in S : Min(S) <= y
<1> DEFINE R == OpToRel(<, Nat)
<1>1. IsWellFoundedOn(R, Nat)
  BY NatLessThanWellFounded
<1>2. \E x \in S : \A y \in S : ~ (<<y, x>> \in R)
  <2> HIDE DEF R
  <2>1. QED
    BY <1>1, WFMin
<1>3. PICK x \in S : \A y \in S : ~ (<<y, x>> \in R)
  BY <1>2
<1>4. ASSUME NEW y \in S PROVE x <= y
  <2>1. y \in Nat /\ x \in Nat
    OBVIOUS
  <2>2. ~ (y < x)
    <3>1. <<y, x>> \notin R
      BY <1>3
    <3>2. QED
      BY <2>1, <3>1 DEF OpToRel
  <2>3. QED
    BY <2>1, <2>2
<1>5. QED
  BY <1>4 DEF Min

LEMMA ImageOfType ==
  ASSUME TaskInv
  PROVE  /\ \A i \in Tasks : ImageOf(i) \in Images \cup {NoImage} /\ i \in Nat
         /\ NoImage \notin Images
BY CollectRunAssumption DEF TaskInv, Tasks, ImageOf

\* In a sequential collection one task is under way.
LEMMA Alone ==
  ASSUME TaskInv, OrderInv, concurrency = 1, NEW i \in UnderWay, NEW j \in Tasks, j # i
  PROVE  /\ j \notin UnderWay
         /\ At(j, {"waiting"}) => i < j
<1>1. i \in Nat /\ j \in Nat /\ i \in Tasks /\ (i < j \/ j < i)
  BY ImageOfType DEF UnderWay
<1>2. QED
  BY <1>1 DEF OrderInv, UnderWay, At, Working

\* The next image is that of the first task behind that waits with an image.
LEMMA NextIs ==
  ASSUME TaskInv, OrderInv, SkipInv, concurrency = 1, NEW i \in Tasks,
         At(i, {"waiting", "over"} \cup Working)
  PROVE  /\ NextImage(i) = NoImage => \A j \in Tasks : i < j => ~ Coming(j)
         /\ NextImage(i) # NoImage =>
              \E j \in Tasks : /\ i < j /\ Coming(j) /\ NextImage(i) = ImageOf(j)
                               /\ \A k \in Tasks : i < k /\ k < j => ~ Coming(k)
<1> DEFINE later == {j \in Tasks : j > i /\ taskList[j] \notin completed /\ ImageOf(j) # NoImage}
<1>1. i \in Nat /\ later \subseteq Nat
  BY ImageOfType
<1>2. ASSUME NEW j \in Tasks, j > i PROVE j \in later <=> Coming(j)
  <2>1. task[j].at \in Stages /\ j \in Nat /\ i < j
    BY <1>1, <1>2, ImageOfType DEF TaskInv, TaskStates
  <2>2. ~ At(j, Working \cup {"over", "done"})
    BY <1>2, <2>1 DEF OrderInv, At, Working
  <2>3. At(j, {"skipped"}) \/ At(j, {"waiting"})
    BY <2>1, <2>2 DEF Stages, At, Working
  <2>4. At(j, {"skipped"}) <=> taskList[j] \in completed
    BY DEF SkipInv, Running
  <2>5. ~ (At(j, {"skipped"}) /\ At(j, {"waiting"}))
    BY DEF At
  <2>6. QED
    BY <1>2, <2>3, <2>4, <2>5 DEF Coming
<1>3. NextImage(i) = IF later = {} THEN NoImage ELSE ImageOf(Min(later))
  BY DEF NextImage
<1>4. later # {} => Min(later) \in later /\ \A y \in later : Min(later) <= y
  <2> HIDE DEF later
  <2>1. QED
    BY <1>1, MinIs
<1>5. CASE later = {}
  <2>1. NextImage(i) = NoImage
    BY <1>3, <1>5
  <2>2. ASSUME NEW j \in Tasks, i < j PROVE ~ Coming(j)
    <3>1. j \in Nat /\ j > i
      BY <1>1, <2>2, ImageOfType
    <3>2. QED
      BY <1>2, <1>5, <3>1
  <2>3. QED
    BY <2>1, <2>2
<1>6. CASE later # {}
  <2>1. PICK m \in later : m = Min(later) /\ \A y \in later : m <= y
    BY <1>4, <1>6
  <2>2. /\ m \in Tasks /\ m \in Nat /\ m > i /\ ImageOf(m) # NoImage
        /\ NextImage(i) = ImageOf(m)
    BY <1>3, <1>6, <2>1, ImageOfType
  <2>3. i < m /\ Coming(m)
    BY <1>1, <1>2, <2>1, <2>2
  <2>4. ASSUME NEW k \in Tasks, i < k, k < m PROVE ~ Coming(k)
    <3>1. k \in Nat /\ k > i /\ ~ (m <= k)
      BY <1>1, <2>2, <2>4, ImageOfType
    <3>2. QED
      BY <1>2, <2>1, <3>1
  <2>5. QED
    BY <2>2, <2>3, <2>4
<1>7. QED
  BY <1>5, <1>6

\* What a removal takes, and what it puts on record.
LEMMA CleanupTakes ==
  ASSUME NEW ended, NEW keep, Cleanup(ended, keep)
  PROVE  /\ source' \subseteq source /\ fixed' \subseteq fixed /\ leftover \subseteq leftover'
         /\ \A j \in ended : ImageOf(j) \in source' => ImageOf(j) \in leftover' \cup {keep, NoImage}
         /\ \A j \in ended : task[j].fixed /\ ImageOf(j) \in fixed' => ImageOf(j) \in leftover' \cup {NoImage}
<1> DEFINE used == {ImageOf(i) : i \in ended} \ {NoImage}
           built == {ImageOf(i) : i \in {j \in ended : task[j].fixed}} \ {NoImage}
<1>1. PICK stuckSource \in SUBSET (used \ {keep}), stuckFixed \in SUBSET built :
        /\ source' = source \ (used \ (stuckSource \cup {keep}))
        /\ fixed' = fixed \ (built \ stuckFixed)
        /\ leftover' = leftover \cup stuckSource \cup stuckFixed
  BY DEF Cleanup
<1>2. \A j \in ended : ImageOf(j) \in used \cup {NoImage}
  OBVIOUS
<1>3. \A j \in ended : task[j].fixed => ImageOf(j) \in built \cup {NoImage}
  OBVIOUS
<1> HIDE DEF used, built
<1>4. QED
  BY <1>1, <1>2, <1>3

\* Nobody starts with an image that is still being prefetched.
LEMMA StartJobs ==
  ASSUME TaskInv, JobsInv, NEW i \in Tasks, CanStart(i), ImageOf(i) # NoImage
  PROVE  jobs = <<>>
<1> SUFFICES ASSUME concurrency = 1, jobs # <<>> PROVE FALSE
  BY DEF JobsInv
<1>1. 1 \in DOMAIN jobs
  BY DEF JobsInv
<1>2. PICK j \in First : jobs[1] = prefetch.image /\ jobs[1] = ImageOf(j)
  BY <1>1 DEF JobsInv
<1>3. i \in First
  BY DEF CanStart, First, Coming, At
<1>4. i = j
  <2>1. i \in Nat /\ j \in Nat /\ Coming(i) /\ Coming(j) /\ j \in Tasks
    BY <1>3, ImageOfType DEF First
  <2>2. ~ (i < j) /\ ~ (j < i)
    BY <1>3, <2>1 DEF First
  <2>3. QED
    BY <2>1, <2>2
<1>5. QED
  BY <1>2, <1>4 DEF CanStart

\* What a task's step leaves of the tasks that wait.
LEMMA FirstMoves ==
  ASSUME TaskInv, DirInv, NEW i \in Tasks, TaskStep(i)
  PROVE  /\ Tasks' = Tasks /\ \A j \in Tasks : ImageOf(j)' = ImageOf(j)
         /\ \A j \in Tasks : Coming(j)' <=> Coming(j) /\ j # i
         /\ ~ Coming(i) => First' = First
         /\ Coming(i) => CanStart(i) /\ First \subseteq {i}
<1>1. /\ UNCHANGED <<taskList, concurrency>>
      /\ \A j \in Tasks \ {i} : task'[j] = task[j]
      /\ task'[i].at # "waiting"
      /\ At(i, {"waiting"}) => CanStart(i)
  BY TaskMoves DEF At, Working
<1>2. Tasks' = Tasks /\ \A j \in Tasks : ImageOf(j)' = ImageOf(j)
  BY <1>1 DEF Tasks, ImageOf
<1>3. ASSUME NEW j \in Tasks PROVE Coming(j)' <=> Coming(j) /\ j # i
  BY <1>1, <1>2 DEF Coming, At
<1>4. ASSUME ~ Coming(i) PROVE First' = First
  <2>1. \A j \in Tasks : Coming(j)' <=> Coming(j)
    BY <1>3, <1>4
  <2>2. QED
    BY <1>1, <1>2, <2>1 DEF First
<1>5. ASSUME Coming(i) PROVE CanStart(i) /\ First \subseteq {i}
  <2>1. CanStart(i)
    BY <1>1, <1>5 DEF Coming
  <2>2. ASSUME NEW j \in First, j # i PROVE FALSE
    <3>1. j \in Tasks /\ Coming(j) /\ i \in Nat /\ j \in Nat
      BY ImageOfType DEF First
    <3>2. ~ (i < j) /\ ~ (j < i)
      BY <1>5, <2>1, <3>1 DEF First, CanStart, Coming, At
    <3>3. QED
      BY <2>2, <3>1, <3>2
  <2>3. QED
    BY <2>1, <2>2
<1>6. QED
  BY <1>2, <1>3, <1>4, <1>5

LEMMA TaskKeepsSkipped ==
  ASSUME TaskInv, DirInv, SkipInv, NEW i \in Tasks, TaskStep(i)
  PROVE  SkipInv'
<1>1. /\ UNCHANGED <<taskList, concurrency, completed>>
      /\ \A j \in Tasks \ {i} : task'[j] = task[j]
      /\ task'[i].at # "skipped" /\ task[i].at # "skipped"
      /\ Tasks' = Tasks
  BY TaskMoves, TaskStepType DEF Working, Tasks
<1>2. QED
  BY <1>1 DEF SkipInv, Running, At

\* Nothing but the start of a task changes what is prefetched.
LEMMA TaskKeepsJobs ==
  ASSUME TaskInv, DirInv, OrderInv, SkipInv, JobsInv, NEW i \in Tasks, TaskStep(i)
  PROVE  JobsInv'
<1>1. /\ Tasks' = Tasks /\ \A j \in Tasks : ImageOf(j)' = ImageOf(j)
      /\ ~ Coming(i) => First' = First
      /\ UNCHANGED concurrency
  BY FirstMoves, TaskMoves
<1>2. ASSUME UNCHANGED <<jobs, prefetch>>, Coming(i) => jobs = <<>>
      PROVE  JobsInv'
  <2>1. CASE jobs = <<>>
    BY <1>1, <1>2, <2>1 DEF JobsInv
  <2>2. CASE jobs # <<>>
    <3>1. First' = First /\ First \subseteq Tasks
      BY <1>1, <1>2, <2>2 DEF First
    <3>2. \A j \in First : ImageOf(j)' = ImageOf(j)
      BY <1>1, <3>1
    <3>3. QED
      BY <1>1, <1>2, <3>1, <3>2 DEF JobsInv
  <2>3. QED
    BY <2>1, <2>2
<1>3. Coming(i) /\ CanStart(i) => jobs = <<>>
  BY StartJobs DEF Coming
<1>4. CASE SourceFails(i)
  BY <1>2, <1>3, <1>4 DEF SourceFails, prefetching
<1>5. CASE Start(i)
  <2>1. PrefetchNext(i) /\ CanStart(i) /\ At(i, {"waiting"}) /\ task'[i].at = "prepare"
    BY <1>5 DEF Start, CanStart, TaskInv, TaskStates
  <2>2. CASE concurrency # 1
    <3>1. jobs' = jobs /\ jobs = <<>>
      BY <2>1, <2>2 DEF PrefetchNext, JobsInv
    <3>2. QED
      BY <1>1, <3>1 DEF JobsInv
  <2>3. CASE concurrency = 1
    <3>1. /\ NextImage(i) = NoImage => \A j \in Tasks : i < j => ~ Coming(j)
          /\ NextImage(i) # NoImage =>
               \E j \in Tasks : /\ i < j /\ Coming(j) /\ NextImage(i) = ImageOf(j)
                                /\ \A k \in Tasks : i < k /\ k < j => ~ Coming(k)
      BY <2>1, <2>3, NextIs DEF At
    <3>2. \A j \in Tasks : /\ Coming(j)' <=> Coming(j) /\ j # i
                           /\ j < i => ~ Coming(j)
                           /\ j \in Nat /\ i \in Nat
      BY <2>1, FirstMoves, ImageOfType DEF CanStart, Coming, At
    <3>3. CASE NextImage(i) = NoImage
      <4>1. \A j \in Tasks : ~ Coming(j)'
        BY <3>1, <3>2, <3>3
      <4>2. jobs = <<>>
        <5>1. CASE Coming(i)
          BY <1>3, <2>1, <5>1
        <5>2. CASE ~ Coming(i)
          <6>1. First' = {} /\ First' = First
            BY <1>1, <4>1, <5>2 DEF First
          <6>2. QED
            BY <6>1 DEF JobsInv
        <5>3. QED
          BY <5>1, <5>2
      <4>3. jobs' = jobs
        BY <2>1, <3>3 DEF PrefetchNext
      <4>4. QED
        BY <1>1, <4>2, <4>3 DEF JobsInv
    <3>4. CASE NextImage(i) # NoImage
      <4>1. PICK n \in Tasks : /\ i < n /\ Coming(n) /\ NextImage(i) = ImageOf(n)
                               /\ \A k \in Tasks : i < k /\ k < n => ~ Coming(k)
        BY <3>1, <3>4
      <4>2. n \in First' /\ ImageOf(n)' = NextImage(i) /\ NextImage(i) \in Images
        <5>1. Coming(n)' /\ \A k \in Tasks : k < n => ~ Coming(k)'
          <6>1. i # n
            BY <3>2, <4>1
          <6>2. ASSUME NEW k \in Tasks, k < n PROVE ~ Coming(k)'
            <7>1. k < i \/ k = i \/ i < k
              BY <3>2
            <7>2. QED
              BY <3>2, <4>1, <6>2, <7>1
          <6>3. QED
            BY <3>2, <4>1, <6>1, <6>2
        <5>2. n \in First'
          BY <1>1, <2>3, <5>1 DEF First
        <5>3. QED
          BY <1>1, <3>4, <4>1, <5>2, ImageOfType
      <4>3. CASE NextImage(i) = ImageOf(i)
        <5>1. jobs = <<>> /\ jobs' = jobs
          BY <1>3, <2>1, <3>4, <4>3 DEF PrefetchNext, CanStart, Coming
        <5>2. QED
          BY <1>1, <5>1 DEF JobsInv
      <4>4. CASE NextImage(i) # ImageOf(i)
        <5>1. jobs' = Append(jobs, NextImage(i)) /\ prefetch' = [image |-> NextImage(i), failed |-> FALSE]
          BY <2>1, <2>3, <3>4, <4>4 DEF PrefetchNext
        <5>2. jobs \in Seq(Images)
          BY DEF JobsInv
        <5>3. ASSUME NEW k \in DOMAIN jobs PROVE jobs[k] = NextImage(i)
          <6>1. ~ Coming(i)
            BY <1>3, <2>1, <5>2, <5>3
          <6>2. PICK f \in First : jobs[k] = ImageOf(f)
            BY DEF JobsInv
          <6>3. f \in First' /\ f \in Tasks /\ n \in First'
            BY <1>1, <4>2, <6>1 DEF First
          <6>4. f = n
            <7>1. /\ Coming(f)' /\ Coming(n)' /\ \A j \in Tasks : j < f => ~ Coming(j)'
                  /\ \A j \in Tasks : j < n => ~ Coming(j)'
              BY <1>1, <6>3 DEF First
            <7>2. ~ (f < n) /\ ~ (n < f)
              BY <6>3, <7>1
            <7>3. QED
              BY <3>2, <6>3, <7>2
          <6>5. QED
            BY <4>1, <6>2, <6>4
        <5>4. /\ jobs' \in Seq(Images)
              /\ \A k \in DOMAIN jobs' : jobs'[k] = NextImage(i)
          BY <4>2, <5>1, <5>2, <5>3
        <5>5. QED
          BY <1>1, <2>3, <4>2, <5>1, <5>4 DEF JobsInv
      <4>5. QED
        BY <4>3, <4>4
    <3>5. QED
      BY <3>3, <3>4
  <2>4. QED
    BY <2>2, <2>3
<1>6. CASE ~ (Start(i) \/ SourceFails(i))
  <2>1. UNCHANGED <<jobs, prefetch>> /\ ~ At(i, {"waiting"})
    BY <1>6 DEF TaskStep, Prepare, PreflightFails, LockBuild, Build, BuildFails, Inner, WriteManifest,
                WriteArtifacts, WriteFails, CleanupTask, prefetching, At
  <2>2. QED
    BY <1>2, <2>1 DEF Coming
<1>7. QED
  BY <1>4, <1>5, <1>6

\* A task under way adds its own image, and is to remove it.
LEMMA WorkKeepsHeld ==
  ASSUME TaskInv, DirInv, HeldInv, NEW i \in Tasks, TaskStep(i),
         At(i, Working), task'[i].at \in Working \cup {"over"},
         task'[i].at \in {"locking", "building"} => ImageOf(i) # NoImage,
         At(i, Working \ {"prepare"}) => task'[i].at # "prepare",
         At(i, Working \ {"prepare"}) /\ task[i].fixed => task'[i].fixed,
         leftover \subseteq leftover',
         source' \subseteq source \cup {ImageOf(i)}, ImageOf(i) = NoImage => source' = source,
         fixed' \subseteq fixed \cup {ImageOf(i)}, ImageOf(i) = NoImage => fixed' = fixed,
         fixed' # fixed => ImageOf(i) \in leftover' \/ (task'[i].fixed /\ task'[i].at # "prepare")
  PROVE  HeldInv'
<1>1. /\ Tasks' = Tasks /\ \A j \in Tasks : ImageOf(j)' = ImageOf(j)
      /\ First' = First
      /\ \A j \in Tasks \ {i} : task'[j] = task[j]
  BY FirstMoves, TaskMoves DEF Coming, At, Working
<1>2. ImageOf(i) \in Images \cup {NoImage} /\ First \subseteq Tasks
  BY ImageOfType DEF First
<1>3. UnderWay' = UnderWay /\ i \in UnderWay /\ UnderWay \subseteq Tasks
  BY <1>1 DEF UnderWay, At
<1>4. /\ Fixing \subseteq Fixing' /\ Fixing \subseteq Tasks
      /\ task'[i].fixed /\ task'[i].at # "prepare" => i \in Fixing'
  <2>1. task'[i].fixed /\ task'[i].at # "prepare" => i \in Fixing'
    BY <1>1 DEF Fixing, At
  <2>2. i \in Fixing => i \in Fixing'
    BY <2>1 DEF Fixing, At, Working
  <2>3. ASSUME NEW j \in Fixing, j # i PROVE j \in Fixing'
    BY <1>1, <2>3 DEF Fixing, At
  <2>4. QED
    BY <2>1, <2>2, <2>3 DEF Fixing
<1>5. source' \subseteq Images /\ fixed' \subseteq Images
  BY <1>2 DEF HeldInv
<1>6. \A j \in Tasks' : At(j, {"locking", "building"})' => ImageOf(j)' # NoImage
  BY <1>1 DEF HeldInv, At
<1>7. ASSUME NEW x \in source' PROVE x \in leftover' \cup {ImageOf(j)' : j \in UnderWay' \cup First'}
  <2>1. x \in leftover \cup {ImageOf(j) : j \in UnderWay \cup First} \/ x = ImageOf(i)
    BY DEF HeldInv
  <2>2. x \in leftover \/ \E j \in UnderWay \cup First : x = ImageOf(j)
    BY <1>3, <2>1
  <2>3. CASE x \in leftover
    BY <2>3
  <2>4. ASSUME NEW j \in UnderWay \cup First, x = ImageOf(j)
        PROVE  x \in {ImageOf(k)' : k \in UnderWay' \cup First'}
    <3>1. j \in UnderWay' \cup First' /\ ImageOf(j)' = x
      BY <1>1, <1>2, <1>3, <2>4
    <3>2. QED
      BY <3>1
  <2>5. QED
    BY <2>2, <2>3, <2>4
<1>8. ASSUME NEW x \in fixed' PROVE x \in leftover' \cup {ImageOf(j)' : j \in Fixing'}
  <2>1. CASE x \notin fixed
    <3>1. x = ImageOf(i)
      BY <2>1
    <3>2. x \in leftover' \/ (i \in Fixing' /\ ImageOf(i)' = x)
      BY <1>1, <1>4, <2>1, <3>1
    <3>3. QED
      BY <3>2
  <2>2. CASE x \in fixed
    <3>1. x \in leftover \/ \E j \in Fixing : x = ImageOf(j)
      BY <2>2 DEF HeldInv
    <3>2. ASSUME NEW j \in Fixing, x = ImageOf(j) PROVE x \in {ImageOf(k)' : k \in Fixing'}
      <4>1. j \in Fixing' /\ ImageOf(j)' = x
        BY <1>1, <1>4, <3>2
      <4>2. QED
        BY <4>1
    <3>3. QED
      BY <3>1, <3>2
  <2>3. QED
    BY <2>1, <2>2
<1>9. QED
  BY <1>5, <1>6, <1>7, <1>8 DEF HeldInv

\* A task that starts takes the image that was to come, or pulls its own.
LEMMA StartKeepsHeld ==
  ASSUME TaskInv, DirInv, HeldInv, NEW i \in Tasks, Start(i) \/ SourceFails(i)
  PROVE  HeldInv'
<1>1. TaskStep(i)
  BY DEF TaskStep
<1>2. /\ Tasks' = Tasks /\ \A j \in Tasks : ImageOf(j)' = ImageOf(j)
      /\ ~ Coming(i) => First' = First
      /\ Coming(i) => First \subseteq {i}
      /\ \A j \in Tasks \ {i} : task'[j] = task[j]
  BY <1>1, FirstMoves, TaskMoves
<1>3. /\ At(i, {"waiting"}) /\ task'[i].at \in {"prepare", "over"}
      /\ UNCHANGED <<fixed, leftover>>
      /\ source' \subseteq source \cup {ImageOf(i)} /\ (ImageOf(i) = NoImage => source' = source)
  <2>1. CASE Start(i)
    BY <2>1 DEF Start, CanStart, history, TaskInv, TaskStates
  <2>2. CASE SourceFails(i)
    BY <2>2 DEF SourceFails, CanStart, images, TaskInv, TaskStates
  <2>3. QED
    BY <2>1, <2>2
<1>4. i \in UnderWay' /\ UnderWay \subseteq UnderWay' /\ UnderWay \subseteq Tasks
  BY <1>2, <1>3 DEF UnderWay, At, Working
<1>5. Fixing \subseteq Fixing' /\ Fixing \subseteq Tasks
  BY <1>2, <1>3 DEF Fixing, At, Working
<1>6. First \subseteq First' \cup {i} /\ First \subseteq Tasks
  BY <1>2 DEF First
<1>7. source' \subseteq Images /\ fixed' \subseteq Images
  BY <1>3, ImageOfType DEF HeldInv
<1>8. \A j \in Tasks' : At(j, {"locking", "building"})' => ImageOf(j)' # NoImage
  BY <1>2, <1>3 DEF HeldInv, At
<1>9. ASSUME NEW x \in source' PROVE x \in leftover' \cup {ImageOf(j)' : j \in UnderWay' \cup First'}
  <2>1. x \in leftover \/ \E j \in UnderWay \cup First \cup {i} : x = ImageOf(j)
    BY <1>3 DEF HeldInv
  <2>2. ASSUME NEW j \in UnderWay \cup First \cup {i}, x = ImageOf(j)
        PROVE  x \in {ImageOf(k)' : k \in UnderWay' \cup First'}
    <3>1. j \in UnderWay' \cup First' /\ ImageOf(j)' = x
      BY <1>2, <1>4, <1>6, <2>2
    <3>2. QED
      BY <3>1
  <2>3. QED
    BY <1>3, <2>1, <2>2
<1>10. ASSUME NEW x \in fixed' PROVE x \in leftover' \cup {ImageOf(j)' : j \in Fixing'}
  <2>1. x \in leftover \/ \E j \in Fixing : x = ImageOf(j)
    BY <1>3 DEF HeldInv
  <2>2. ASSUME NEW j \in Fixing, x = ImageOf(j) PROVE x \in {ImageOf(k)' : k \in Fixing'}
    <3>1. j \in Fixing' /\ ImageOf(j)' = x
      BY <1>2, <1>5, <2>2
    <3>2. QED
      BY <3>1
  <2>3. QED
    BY <1>3, <2>1, <2>2
<1>11. QED
  BY <1>7, <1>8, <1>9, <1>10 DEF HeldInv

\* A task that is over leaves the image of the next one, or what it put on record.
LEMMA CleanupKeepsHeld ==
  ASSUME TaskInv, DirInv, OrderInv, SkipInv, HeldInv, NEW i \in Tasks, CleanupTask(i)
  PROVE  HeldInv'
<1>1. TaskStep(i) /\ concurrency = 1 /\ At(i, {"over"}) /\ Cleanup({i}, NextImage(i))
  BY DEF TaskStep, CleanupTask
<1>2. /\ Tasks' = Tasks /\ \A j \in Tasks : ImageOf(j)' = ImageOf(j)
      /\ First' = First /\ First \subseteq Tasks
      /\ \A j \in Tasks \ {i} : task'[j] = task[j]
      /\ task'[i].at = "done"
  <2>1. task'[i].at = "done"
    BY DEF CleanupTask, TaskInv
  <2>2. ~ Coming(i)
    BY <1>1 DEF Coming, At
  <2>3. QED
    BY <1>1, <2>1, <2>2, FirstMoves, TaskMoves DEF First
<1>3. /\ source' \subseteq source /\ fixed' \subseteq fixed /\ leftover \subseteq leftover'
      /\ ImageOf(i) \in source' => ImageOf(i) \in leftover' \cup {NextImage(i), NoImage}
      /\ task[i].fixed /\ ImageOf(i) \in fixed' => ImageOf(i) \in leftover' \cup {NoImage}
  BY <1>1, CleanupTakes
<1>4. UnderWay \subseteq {i} /\ Fixing \subseteq {i} /\ \A j \in First : i < j
  <2>1. i \in UnderWay
    BY <1>1 DEF UnderWay, At
  <2>2. UnderWay \subseteq {i} /\ \A j \in First : i < j
    <3>1. ASSUME NEW j \in UnderWay, j # i PROVE FALSE
      BY <1>1, <2>1, <3>1, Alone DEF UnderWay
    <3>2. ASSUME NEW j \in First PROVE i < j
      <4>1. j # i /\ j \in Tasks /\ At(j, {"waiting"})
        BY <1>1 DEF First, Coming, At
      <4>2. QED
        BY <1>1, <2>1, <4>1, Alone
    <3>3. QED
      BY <3>1, <3>2
  <2>3. Fixing \subseteq UnderWay
    BY DEF Fixing, UnderWay, At, Working
  <2>4. QED
    BY <2>2, <2>3
<1>5. NoImage \notin source /\ NoImage \notin fixed
  BY ImageOfType DEF HeldInv
<1>6. NextImage(i) # NoImage => \E j \in First : NextImage(i) = ImageOf(j)
  <2> SUFFICES ASSUME NextImage(i) # NoImage PROVE \E j \in First : NextImage(i) = ImageOf(j)
    OBVIOUS
  <2>1. PICK j \in Tasks : /\ i < j /\ Coming(j) /\ NextImage(i) = ImageOf(j)
                           /\ \A k \in Tasks : i < k /\ k < j => ~ Coming(k)
    BY <1>1, NextIs DEF At
  <2>2. ASSUME NEW k \in Tasks, k < j, Coming(k) PROVE FALSE
    <3>1. i < k
      BY <1>1, <2>2, Alone DEF UnderWay, Coming, At
    <3>2. QED
      BY <2>1, <2>2, <3>1
  <2>3. QED
    BY <1>1, <2>1, <2>2 DEF First
<1>7. source' \subseteq Images /\ fixed' \subseteq Images
  BY <1>3 DEF HeldInv
<1>8. \A j \in Tasks' : At(j, {"locking", "building"})' => ImageOf(j)' # NoImage
  BY <1>2 DEF HeldInv, At
<1>9. ASSUME NEW x \in source' PROVE x \in leftover' \cup {ImageOf(j)' : j \in UnderWay' \cup First'}
  <2>1. x \in leftover \/ x = ImageOf(i) \/ \E j \in First : x = ImageOf(j)
    BY <1>3, <1>4 DEF HeldInv
  <2>2. x \in leftover' \/ \E j \in First : x = ImageOf(j)
    BY <1>3, <1>5, <1>6, <2>1
  <2>3. ASSUME NEW j \in First, x = ImageOf(j) PROVE x \in {ImageOf(k)' : k \in UnderWay' \cup First'}
    <3>1. j \in First' /\ ImageOf(j)' = x
      BY <1>2, <2>3
    <3>2. QED
      BY <3>1
  <2>4. QED
    BY <2>2, <2>3
<1>10. ASSUME NEW x \in fixed' PROVE x \in leftover'
  <2>1. x \in leftover \/ (x = ImageOf(i) /\ task[i].fixed)
    <3>1. x \in leftover \/ \E j \in Fixing : x = ImageOf(j)
      BY <1>3 DEF HeldInv
    <3>2. QED
      BY <1>4, <3>1 DEF Fixing
  <2>2. QED
    BY <1>3, <1>5, <2>1
<1>11. QED
  BY <1>7, <1>8, <1>9, <1>10 DEF HeldInv

LEMMA TaskKeepsHeld ==
  ASSUME TaskInv, DirInv, OrderInv, ImageInv, SkipInv, HeldInv, NEW i \in Tasks, TaskStep(i)
  PROVE  HeldInv'
<1>1. task[i] \in TaskStates /\ DOMAIN task = Tasks
  BY DEF TaskInv
<1>2. CASE Start(i) \/ SourceFails(i)
  BY <1>2, StartKeepsHeld
<1>3. CASE CleanupTask(i)
  BY <1>3, CleanupKeepsHeld
<1>4. CASE Prepare(i)
  <2>1. /\ task[i].at = "prepare" /\ UNCHANGED <<source, fixed, leftover>>
        /\ task'[i].at \in {"inner", "locking"}
        /\ task'[i].at = "locking" => ImageOf(i) # NoImage
    BY <1>1, <1>4 DEF Prepare, At, images, history, TaskStates
  <2>2. QED
    BY <2>1, WorkKeepsHeld DEF At, Working
<1>5. CASE PreflightFails(i) \/ Inner(i) \/ WriteManifest(i) \/ WriteArtifacts(i) \/ WriteFails(i)
  <2>1. /\ task[i].at \in Working /\ UNCHANGED <<source, fixed, leftover>>
        /\ task'[i].at \in {"over", "manifest", "artifacts"} /\ task'[i].fixed = task[i].fixed
    <3>1. CASE PreflightFails(i) \/ WriteFails(i)
      BY <1>1, <3>1 DEF PreflightFails, WriteFails, Over, At, Working, images, history, TaskStates
    <3>2. CASE WriteManifest(i) \/ WriteArtifacts(i)
      BY <1>1, <3>2 DEF WriteManifest, WriteArtifacts, Over, At, Working, images, history, TaskStates
    <3>3. CASE Inner(i)
      BY <1>1, <3>3 DEF Inner, At, Working, images, history, TaskStates
    <3>4. QED
      BY <1>5, <3>1, <3>2, <3>3
  <2>2. QED
    BY <2>1, WorkKeepsHeld DEF At, Working
<1>6. CASE LockBuild(i)
  <2>1. /\ task[i].at = "locking" /\ UNCHANGED <<source, fixed, leftover>>
        /\ task'[i].at \in {"inner", "building"}
        /\ task[i].fixed => task'[i].fixed
    BY <1>1, <1>6 DEF LockBuild, At, history, TaskStates
  <2>2. ImageOf(i) # NoImage
    BY <2>1 DEF HeldInv, At
  <2>3. QED
    BY <2>1, <2>2, WorkKeepsHeld DEF At, Working
<1>7. CASE Build(i)
  <2>1. /\ task[i].at = "building" /\ UNCHANGED leftover
        /\ source' = source \cup {ImageOf(i)} /\ fixed' = fixed \cup {ImageOf(i)}
        /\ task'[i].at = "inner" /\ task'[i].fixed
    BY <1>1, <1>7 DEF Build, At, history, TaskStates
  <2>2. ImageOf(i) # NoImage
    BY <2>1 DEF HeldInv, At
  <2>3. QED
    BY <2>1, <2>2, WorkKeepsHeld DEF At, Working
<1>8. CASE BuildFails(i)
  <2>1. /\ task[i].at = "building" /\ leftover \subseteq leftover'
        /\ source' \subseteq source \cup {ImageOf(i)} /\ fixed' \subseteq fixed \cup {ImageOf(i)}
        /\ fixed' # fixed => ImageOf(i) \in leftover'
        /\ task'[i].at = "over" /\ task'[i].fixed = task[i].fixed
    BY <1>1, <1>8 DEF BuildFails, Over, At, TaskStates
  <2>2. ImageOf(i) # NoImage
    BY <2>1 DEF HeldInv, At
  <2>3. QED
    BY <2>1, <2>2, WorkKeepsHeld DEF At, Working
<1>9. QED
  BY <1>2, <1>3, <1>4, <1>5, <1>6, <1>7, <1>8 DEF TaskStep

\* No task is under way any more: what is there was left behind.
LEMMA NothingHeld ==
  ASSUME HeldInv, UnderWay = {}, First = {}
  PROVE  source \subseteq leftover /\ fixed \subseteq leftover
BY DEF HeldInv, Fixing, UnderWay, At, Working

LEMMA BudgetInvStep == CollectInv /\ BudgetInv /\ [Next]_vars => BudgetInv'
<1> SUFFICES ASSUME CollectInv, BudgetInv, [Next]_vars PROVE BudgetInv'
  OBVIOUS
<1>1. TaskInv /\ DirInv /\ OrderInv /\ ImageInv /\ SkipInv /\ JobsInv /\ HeldInv
  BY DEF CollectInv, BudgetInv
<1>2. /\ source \subseteq Images /\ fixed \subseteq Images
      /\ concurrency \in Nat
  BY <1>1 DEF HeldInv, TaskInv
<1>3. CASE \E i \in Tasks : TaskStep(i)
  BY <1>1, <1>3, TaskKeepsSkipped, TaskKeepsJobs, TaskKeepsHeld DEF BudgetInv
\* Where nothing is under way, nothing is held.
<1>4. ASSUME UNCHANGED taskList, jobs' = <<>>, \A i \in Tasks : task'[i].at \in {"skipped", "waiting", "done"},
             source' \subseteq source \cap leftover', fixed' \subseteq fixed \cap leftover'
      PROVE  JobsInv' /\ HeldInv'
  <2>1. JobsInv'
    BY <1>4 DEF JobsInv
  <2>2. \A i \in Tasks' : ~ At(i, {"locking", "building"})'
    BY <1>4 DEF At, Tasks
  <2>3. QED
    BY <1>2, <1>4, <2>1, <2>2 DEF HeldInv
\* All tasks are at rest, in an invocation or between two.
<1>5. ASSUME \A i \in Tasks : task[i].at \in {"skipped", "done"}
      PROVE  source \subseteq leftover /\ fixed \subseteq leftover
  <2>1. UnderWay = {} /\ First = {}
    BY <1>5 DEF UnderWay, First, Coming, At, Working
  <2>2. QED
    BY <1>1, <2>1, NothingHeld
<1>6. CASE Invoke
  <2>1. /\ concurrency = 0 /\ completed' = CompletedIds
        /\ UNCHANGED <<taskList, source, fixed, leftover, jobs>>
        /\ \A i \in Tasks : task'[i].at = IF taskList[i] \in CompletedIds THEN "skipped" ELSE "waiting"
    BY <1>2, <1>6 DEF Invoke, Running, images, prefetching, Skipped
  <2>2. source \subseteq leftover /\ fixed \subseteq leftover
    BY <1>1, <1>5, <2>1 DEF TaskInv, At
  <2>3. JobsInv' /\ HeldInv'
    BY <1>1, <1>4, <2>1, <2>2 DEF JobsInv
  <2>4. SkipInv'
    BY <2>1 DEF SkipInv, At, Tasks
  <2>5. QED
    BY <2>3, <2>4 DEF BudgetInv
<1>7. CASE PrefetchJob
  <2>1. /\ jobs # <<>> /\ jobs' = Tail(jobs) /\ prefetch'.image = prefetch.image
        /\ source' \subseteq source \cup {Head(jobs)}
        /\ UNCHANGED <<fixed, taskList, concurrency, completed, task, leftover>>
    <3>1. \E arrived \in BOOLEAN :
             /\ source' = IF arrived THEN source \cup {Head(jobs)} ELSE source
             /\ prefetch' = IF Len(jobs) = 1 /\ prefetch # NoPrefetch
                            THEN [prefetch EXCEPT !.failed = ~ arrived] ELSE prefetch
      BY <1>7 DEF PrefetchJob
    <3>2. prefetch'.image = prefetch.image /\ source' \subseteq source \cup {Head(jobs)}
      BY <3>1
    <3>3. QED
      BY <1>7, <3>2 DEF PrefetchJob, process
  <2>2. Tasks' = Tasks /\ First' = First /\ UnderWay' = UnderWay /\ Fixing' = Fixing
        /\ \A i \in Tasks : ImageOf(i)' = ImageOf(i)
    BY <2>1 DEF Tasks, First, Coming, UnderWay, Fixing, At, ImageOf
  <2>3. jobs \in Seq(Images) /\ 1 \in DOMAIN jobs /\ Head(jobs) = jobs[1] /\ Head(jobs) \in Images
    BY <1>1, <2>1 DEF JobsInv
  <2>4. JobsInv'
    <3>1. Tail(jobs) \in Seq(Images) /\ \A k \in DOMAIN Tail(jobs) : k + 1 \in DOMAIN jobs /\ Tail(jobs)[k] = jobs[k + 1]
      BY <2>1, <2>3
    <3>2. concurrency = 1
      BY <1>1, <2>1 DEF JobsInv
    <3>3. First \subseteq Tasks
      BY DEF First
    <3>4. ASSUME NEW k \in DOMAIN jobs'
          PROVE  jobs'[k] = prefetch'.image /\ \E i \in First' : jobs'[k] = ImageOf(i)'
      <4>1. jobs'[k] = jobs[k + 1] /\ k + 1 \in DOMAIN jobs
        BY <2>1, <3>1
      <4>2. PICK i \in First : jobs[k + 1] = prefetch.image /\ jobs[k + 1] = ImageOf(i)
        BY <1>1, <4>1 DEF JobsInv
      <4>3. QED
        BY <2>1, <2>2, <3>3, <4>1, <4>2
    <3>5. QED
      BY <2>1, <3>1, <3>2, <3>4 DEF JobsInv
  <2>5. HeldInv'
    <3>1. PICK i \in First : Head(jobs) = ImageOf(i)
      BY <1>1, <2>3 DEF JobsInv
    <3>2. source' \subseteq leftover \cup {ImageOf(j) : j \in UnderWay \cup First}
      BY <1>1, <2>1, <3>1 DEF HeldInv
    <3>3. /\ {ImageOf(j)' : j \in UnderWay' \cup First'} = {ImageOf(j) : j \in UnderWay \cup First}
          /\ {ImageOf(j)' : j \in Fixing'} = {ImageOf(j) : j \in Fixing}
      BY <2>1, <2>2 DEF ImageOf
    <3>4. \A j \in Tasks' : At(j, {"locking", "building"})' => ImageOf(j)' # NoImage
      BY <1>1, <2>1, <2>2 DEF HeldInv, At
    <3>5. source' \subseteq Images /\ fixed' \subseteq Images
      BY <1>2, <2>1, <2>3
    <3>6. QED
      BY <1>1, <2>1, <3>2, <3>3, <3>4, <3>5 DEF HeldInv
  <2>6. SkipInv'
    BY <1>1, <2>1 DEF SkipInv, Running, At, Tasks
  <2>7. QED
    BY <2>4, <2>5, <2>6 DEF BudgetInv
<1>8. CASE CleanupAll
  <2> DEFINE ended == {i \in Tasks : At(i, {"over"})}
  <2>1. /\ concurrency > 1 /\ \A i \in Tasks : At(i, {"skipped", "over"})
        /\ Cleanup(ended, NoImage)
        /\ task' = [i \in Tasks |-> [task[i] EXCEPT !.at = IF i \in ended THEN "done" ELSE @]]
        /\ UNCHANGED <<taskList, concurrency, completed, jobs>>
    BY <1>8 DEF CleanupAll, process, prefetching
  <2>2. /\ \A i \in Tasks : task'[i].at \in {"skipped", "done"}
        /\ \A i \in Tasks : task'[i].at = "skipped" <=> task[i].at = "skipped"
    BY <1>1, <2>1 DEF TaskInv, TaskStates, At
  <2>3. /\ source' \subseteq source /\ fixed' \subseteq fixed /\ leftover \subseteq leftover'
        /\ \A j \in ended : ImageOf(j) \in source' => ImageOf(j) \in leftover' \cup {NoImage}
        /\ \A j \in ended : task[j].fixed /\ ImageOf(j) \in fixed' => ImageOf(j) \in leftover' \cup {NoImage}
    <3> HIDE DEF ended
    <3>1. QED
      BY <2>1, CleanupTakes
  <2>4. First = {} /\ UnderWay \subseteq ended /\ Fixing \subseteq ended
    BY <2>1 DEF First, UnderWay, Fixing, At, Working
  <2>5. NoImage \notin source /\ NoImage \notin fixed
    BY <1>1, <1>2, ImageOfType
  <2> HIDE DEF ended
  <2>6. source' \subseteq leftover'
    BY <1>1, <2>3, <2>4, <2>5 DEF HeldInv
  <2>7. fixed' \subseteq leftover'
    <3>1. \A j \in Fixing : task[j].fixed
      BY DEF Fixing
    <3>2. QED
      BY <1>1, <2>3, <2>4, <2>5, <3>1 DEF HeldInv
  <2>8. jobs = <<>>
    BY <1>1, <2>1 DEF JobsInv
  <2>9. JobsInv' /\ HeldInv'
    BY <1>4, <2>1, <2>2, <2>3, <2>6, <2>7, <2>8
  <2>10. SkipInv'
    BY <1>1, <2>1, <2>2 DEF SkipInv, Running, At, Tasks
  <2>11. QED
    BY <2>9, <2>10 DEF BudgetInv
<1>9. CASE WriteResults \/ Kill
  <2>1. /\ concurrency' = 0 /\ jobs' = <<>> /\ UNCHANGED <<taskList, source, fixed>>
        /\ \A i \in Tasks : task'[i].at = "skipped"
    BY <1>9 DEF WriteResults, Kill, ProcessEnds, Skipped
  <2>2. source \subseteq leftover' /\ fixed \subseteq leftover'
    <3>1. CASE WriteResults
      <4>1. leftover' = leftover /\ \A i \in Tasks : task[i].at \in {"skipped", "done"}
        BY <3>1 DEF WriteResults, AllOver, At, history
      <4>2. QED
        BY <1>5, <4>1
    <3>2. CASE Kill
      BY <3>2 DEF Kill
    <3>3. QED
      BY <1>9, <3>1, <3>2
  <2>3. JobsInv' /\ HeldInv'
    BY <1>4, <2>1, <2>2
  <2>4. SkipInv'
    BY <2>1 DEF SkipInv, Running
  <2>5. QED
    BY <2>3, <2>4 DEF BudgetInv
<1>10. CASE Rest \/ UNCHANGED vars
  <2>1. UNCHANGED <<source, fixed, taskList, concurrency, completed, task, jobs, prefetch, leftover>>
    BY <1>10 DEF Rest, vars, images, process, prefetching, history
  <2>2. Tasks' = Tasks /\ First' = First /\ UnderWay' = UnderWay /\ Fixing' = Fixing
    BY <2>1 DEF Tasks, First, Coming, UnderWay, Fixing, At, ImageOf
  <2>3. SkipInv'
    BY <1>1, <2>1 DEF SkipInv, Running, At, Tasks
  <2>4. JobsInv'
    BY <1>1, <2>1, <2>2 DEF JobsInv, ImageOf
  <2>5. HeldInv'
    BY <1>1, <2>1, <2>2 DEF HeldInv, ImageOf, At
  <2>6. QED
    BY <2>3, <2>4, <2>5 DEF BudgetInv
<1>11. QED
  BY <1>3, <1>6, <1>7, <1>8, <1>9, <1>10 DEF Next

\* The tasks that are neither skipped nor done have only the first of them at hand.
LEMMA BudgetKept == CollectInv /\ BudgetInv => ImageBudget
<1> DEFINE U == {i \in Tasks : ~ At(i, {"skipped", "done"})}
           current == Min(U)
<1> SUFFICES ASSUME CollectInv, BudgetInv, concurrency = 1, U # {}
             PROVE  /\ source \subseteq {ImageOf(current), NextImage(current)} \cup leftover
                    /\ fixed \subseteq {ImageOf(current)} \cup leftover
  BY DEF ImageBudget
<1>1. TaskInv /\ OrderInv /\ SkipInv /\ HeldInv
  BY DEF CollectInv, BudgetInv
<1>2. U \subseteq Nat
  BY <1>1, ImageOfType
<1>3. PICK i \in U : i = current /\ \A j \in U : i <= j
  <2> HIDE DEF U
  <2>1. QED
    BY <1>2, MinIs
<1>4. /\ i \in Tasks /\ At(i, {"waiting", "over"} \cup Working)
      /\ \A j \in Tasks : j < i => ~ At(j, {"waiting", "over"} \cup Working)
  <2>1. \A j \in Tasks : j < i => j \notin U
    <3>1. ASSUME NEW j \in Tasks, j < i, j \in U PROVE FALSE
      <4>1. i <= j /\ i \in Nat /\ j \in Nat
        BY <1>2, <1>3, <3>1
      <4>2. QED
        BY <3>1, <4>1
    <3>2. QED
      BY <3>1
  <2>2. \A j \in Tasks : task[j].at \in Stages
    BY <1>1 DEF TaskInv, TaskStates
  <2>3. QED
    BY <2>1, <2>2 DEF At, Stages, Working
<1>5. ASSUME NEW j \in UnderWay PROVE j = i
  <2>1. CASE At(i, {"waiting"})
    <3>1. i # j
      BY <1>5, <2>1 DEF UnderWay, At, Working
    <3>2. j < i
      BY <1>1, <1>4, <1>5, <2>1, <3>1, Alone
    <3>3. QED
      BY <1>4, <1>5, <3>2 DEF UnderWay, At
  <2>2. CASE i \in UnderWay
    BY <1>1, <1>5, <2>2, Alone DEF UnderWay
  <2>3. QED
    BY <1>4, <2>1, <2>2 DEF UnderWay, At
<1>6. ASSUME NEW j \in First PROVE j = i \/ ImageOf(j) = NextImage(i)
  <2> SUFFICES ASSUME j # i PROVE ImageOf(j) = NextImage(i)
    OBVIOUS
  <2>1. j \in Tasks /\ Coming(j) /\ \A k \in Tasks : k < j => ~ Coming(k)
    BY DEF First
  <2>2. i < j
    <3>1. i \in Nat /\ j \in Nat /\ ~ (j < i)
      BY <1>1, <1>4, <2>1, ImageOfType DEF Coming, At
    <3>2. QED
      BY <3>1
  <2>3. NextImage(i) # NoImage
    BY <1>1, <1>4, <2>1, <2>2, NextIs
  <2>4. PICK n \in Tasks : /\ i < n /\ Coming(n) /\ NextImage(i) = ImageOf(n)
                           /\ \A k \in Tasks : i < k /\ k < n => ~ Coming(k)
    BY <1>1, <1>4, <2>3, NextIs
  <2>5. ~ (j < n) /\ ~ (n < j) /\ j \in Nat /\ n \in Nat
    BY <1>1, <2>1, <2>2, <2>4, ImageOfType
  <2>6. QED
    BY <2>4, <2>5
<1>7. Fixing \subseteq UnderWay
  BY DEF Fixing, UnderWay, At, Working
<1> HIDE DEF U, current
<1>8. source \subseteq {ImageOf(i), NextImage(i)} \cup leftover
  BY <1>1, <1>5, <1>6 DEF HeldInv
<1>9. fixed \subseteq {ImageOf(i)} \cup leftover
  BY <1>1, <1>5, <1>7 DEF HeldInv
<1>10. QED
  BY <1>3, <1>8, <1>9

\* Every collection keeps to the budget.
LEMMA BudgetInvariant == Spec => []BudgetInv
<1>1. Init => BudgetInv
  <2> SUFFICES ASSUME Init PROVE BudgetInv
    OBVIOUS
  <2>1. SkipInv
    BY DEF Init, SkipInv, Running
  <2>2. JobsInv
    BY DEF Init, JobsInv
  <2>3. HeldInv
    BY DEF Init, HeldInv, Skipped, At
  <2>4. QED
    BY <2>1, <2>2, <2>3 DEF BudgetInv
<1>2. QED
  BY <1>1, CollectInvariant, BudgetInvStep, PTL DEF Spec

\* "keeps only the current/next-image budget": whatever tasks share an image, run
\* on the host, are skipped or fail, a sequential collection holds the images of the
\* task at hand and the source image of the next one, and an agent has its own.
THEOREM ImagesInHandCorrect == Spec => []ImagesInHand
<1>1. CollectInv /\ BudgetInv => ImagesInHand
  BY BudgetKept DEF ImagesInHand, CollectInv, ImageInv, FixedImagePresent
<1>2. QED
  BY <1>1, CollectInvariant, BudgetInvariant, PTL

-----------------------------------------------------------------------------
(* Recursive functions.                                                    *)

\* Induction up to a bound, for a set.
LEMMA UpTo ==
  ASSUME NEW n \in Nat, NEW S, 0 \in S, \A k \in 1 .. n : k - 1 \in S => k \in S
  PROVE  \A k \in 0 .. n : k \in S
<1> DEFINE R == OpToRel(<, Nat)
           Out == {k \in 0 .. n : k \notin S}
<1> SUFFICES ASSUME Out # {} PROVE FALSE
  OBVIOUS
<1>1. \E x \in Out : \A y \in Out : ~ (<<y, x>> \in R)
  <2>1. IsWellFoundedOn(R, Nat)
    BY NatLessThanWellFounded
  <2>2. Out \subseteq Nat
    OBVIOUS
  <2> HIDE DEF R, Out
  <2>3. QED
    BY <2>1, <2>2, WFMin
<1>2. PICK x \in Out : \A y \in Out : ~ (<<y, x>> \in R)
  BY <1>1
<1>3. x \in 1 .. n /\ x - 1 \notin S
  <2>1. x \in 0 .. n /\ x \notin S
    OBVIOUS
  <2>2. x # 0
    BY <2>1
  <2>3. x \in 1 .. n
    BY <2>1, <2>2
  <2>4. QED
    BY <2>1, <2>3
<1>4. x - 1 \in Out /\ x - 1 \in Nat /\ x \in Nat /\ x - 1 < x
  BY <1>3
<1>5. <<x - 1, x>> \in R
  BY <1>4 DEF OpToRel
<1>6. QED
  BY <1>2, <1>4, <1>5

\* A function on 0 .. n given by its first value and by the step from each value
\* to the next exists.
Steps(n, S) == [1 .. n -> [S -> S]]
IsRecursion(g, n, S, first, step) ==
  g \in [0 .. n -> S] /\ g[0] = first /\ \A k \in 1 .. n : g[k] = step[k][g[k - 1]]

LEMMA RecursionExists ==
  ASSUME NEW n \in Nat, NEW S, NEW first \in S, NEW step \in Steps(n, S)
  PROVE  \E g : IsRecursion(g, n, S, first, step)
<1> USE DEF Steps, IsRecursion
<1> DEFINE T == {m \in 0 .. n : \E g \in [0 .. m -> S] :
                   g[0] = first /\ \A k \in 1 .. m : g[k] = step[k][g[k - 1]]}
<1>1. 0 \in T
  <2> DEFINE g == [k \in 0 .. 0 |-> first]
  <2>1. g \in [0 .. 0 -> S] /\ g[0] = first /\ 0 \in 0 .. n
    OBVIOUS
  <2>2. \A k \in 1 .. 0 : g[k] = step[k][g[k - 1]]
    OBVIOUS
  <2> HIDE DEF g
  <2>3. QED
    BY <2>1, <2>2
<1>2. \A m \in 1 .. n : m - 1 \in T => m \in T
  <2>1. SUFFICES ASSUME NEW m \in 1 .. n, m - 1 \in T PROVE m \in T
    OBVIOUS
  <2>2. PICK g \in [0 .. m - 1 -> S] :
          g[0] = first /\ \A k \in 1 .. m - 1 : g[k] = step[k][g[k - 1]]
    BY <2>1
  <2> DEFINE h == [k \in 0 .. m |-> IF k = m THEN step[m][g[m - 1]] ELSE g[k]]
  <2>3. g[m - 1] \in S /\ step[m] \in [S -> S]
    BY <2>1
  <2>4. h \in [0 .. m -> S]
    BY <2>3
  <2>5. h[0] = first
    BY <2>2
  <2>6. ASSUME NEW k \in 1 .. m PROVE h[k] = step[k][h[k - 1]]
    <3>1. CASE k = m
      <4>1. k - 1 \in 0 .. m /\ k - 1 # m
        BY <3>1
      <4>2. QED
        BY <3>1, <4>1
    <3>2. CASE k # m
      <4>1. k \in 1 .. m - 1 /\ k - 1 \in 0 .. m - 1 /\ k - 1 # m
        BY <3>2
      <4>2. h[k] = g[k] /\ h[k - 1] = g[k - 1]
        BY <3>2, <4>1
      <4>3. QED
        BY <2>2, <4>1, <4>2
    <3>3. QED
      BY <3>1, <3>2
  <2>7. m \in 0 .. n
    OBVIOUS
  <2> HIDE DEF h
  <2>8. QED
    BY <2>4, <2>5, <2>6, <2>7
<1>3. n \in T
  <2> HIDE DEF T
  <2>1. \A k \in 0 .. n : k \in T
    BY <1>1, <1>2, UpTo
  <2>2. QED
    BY <2>1
<1>4. QED
  BY <1>3
-----------------------------------------------------------------------------
(* The results: each line is what the run directory records.               *)

RecordAt(dirs, n) == IF n \in DOMAIN dirs /\ dirs[n].artifacts THEN dirs[n].status ELSE "error"
Record(i) == RecordAt(attempts[taskList[i]], task[i].attempt)

\* A task that failed before its directory was made left its number to a later one.
Superseded(i) ==
  /\ task[i].outcome = "error"
  /\ \E j \in Tasks : /\ j > i /\ At(j, Working \cup {"over", "done"})
                      /\ taskList[j] = taskList[i] /\ task[j].attempt = task[i].attempt

OutcomeInv ==
  \A i \in Tasks :
    /\ At(i, {"artifacts"}) => attempts[taskList[i]][task[i].attempt].status = task[i].outcome
    /\ At(i, {"over", "done"}) => task[i].outcome = Record(i) \/ Superseded(i)

ResultInv == OutcomeInv /\ completed \subseteq CompletedIds

\* What a task's step writes into the directories.
LEMMA RecordMoves ==
  ASSUME CollectInv, NEW i \in Tasks, TaskStep(i),
         NEW y, y = taskList[i], NEW m, m = task[i].attempt
  PROVE  /\ \A x \in Instances : \A n \in Nat :
              ~ (x = y /\ n = m /\ WriteArtifacts(i)) => RecordAt(attempts'[x], n) = RecordAt(attempts[x], n)
         /\ \A x \in Instances : \A n \in DOMAIN attempts[x] :
              ~ (x = y /\ n = m /\ WriteManifest(i)) => attempts'[x][n].status = attempts[x][n].status
         /\ WriteArtifacts(i) => /\ RecordAt(attempts[y], m) = "error"
                                /\ RecordAt(attempts'[y], m) = attempts[y][m].status
         /\ WriteManifest(i) => attempts'[y][m].status = task[i].outcome
<1>1. /\ TaskInv /\ DirInv /\ NumberInv
      /\ y \in Instances /\ m \in Nat /\ task[i] \in TaskStates
  BY DEF CollectInv, TaskInv, Tasks, TaskStates
<1>2. CASE attempts' = attempts /\ ~ WriteArtifacts(i) /\ ~ WriteManifest(i)
  BY <1>2
<1>3. CASE Prepare(i)
  <2>1. /\ m \notin DOMAIN attempts[y] /\ ~ WriteArtifacts(i) /\ ~ WriteManifest(i)
        /\ attempts' = [attempts EXCEPT ![y] = WithAttempt(@, m)]
    BY <1>1, <1>3 DEF Prepare, WriteArtifacts, WriteManifest, At, NumberInv
  <2>2. /\ DOMAIN attempts'[y] = DOMAIN attempts[y] \cup {m}
        /\ attempts'[y][m] = [status |-> "none", artifacts |-> FALSE]
        /\ \A k \in DOMAIN attempts[y] : attempts'[y][k] = attempts[y][k]
        /\ \A x \in Instances \ {y} : attempts'[x] = attempts[x]
    BY <1>1, <2>1, Registered
  <2>3. QED
    BY <2>1, <2>2 DEF RecordAt
<1>4. CASE WriteManifest(i) \/ WriteArtifacts(i)
  <2> DEFINE d == attempts[y][m]
             e == IF WriteManifest(i) THEN [d EXCEPT !.status = task[i].outcome]
                  ELSE [d EXCEPT !.artifacts = TRUE]
  <2>1. /\ m \in DOMAIN attempts[y] /\ ~ d.artifacts
        /\ ~ (WriteManifest(i) /\ WriteArtifacts(i))
    BY <1>1, <1>4 DEF WriteManifest, WriteArtifacts, NumberInv, Numbered, At
  <2>2. d \in Dirs /\ attempts = [x \in Instances |-> attempts[x]]
    BY <1>1, <2>1 DEF DirInv
  <2>3. attempts' = [attempts EXCEPT ![y][m] = e]
    BY <1>1, <1>4, <2>1, <2>2 DEF WriteManifest, WriteArtifacts
  <2>4. /\ e \in Dirs
        /\ WriteManifest(i) => e.status = task[i].outcome /\ ~ e.artifacts
        /\ WriteArtifacts(i) => e.status = d.status /\ e.artifacts
    BY <1>1, <1>4, <2>1, <2>2 DEF Dirs, TaskStates, Outcomes
  <2> HIDE DEF e
  <2>5. /\ \A x \in Instances : DOMAIN attempts'[x] = DOMAIN attempts[x]
        /\ \A x \in Instances : \A k \in DOMAIN attempts[x] :
             attempts'[x][k] = IF x = y /\ k = m THEN e ELSE attempts[x][k]
    <3> HIDE DEF d
    <3>1. attempts'[y] = [attempts[y] EXCEPT ![m] = e] /\ \A x \in Instances \ {y} : attempts'[x] = attempts[x]
      BY <1>1, <2>2, <2>3
    <3>2. attempts[y] \in [DOMAIN attempts[y] -> Dirs]
      BY <1>1 DEF DirInv
    <3>3. /\ DOMAIN attempts'[y] = DOMAIN attempts[y]
          /\ \A k \in DOMAIN attempts[y] : attempts'[y][k] = IF k = m THEN e ELSE attempts[y][k]
      BY <3>1, <3>2
    <3>4. QED
      BY <3>1, <3>3
  <2>6. QED
    BY <1>1, <1>4, <2>1, <2>4, <2>5 DEF RecordAt
<1>5. QED
  BY <1>2, <1>3, <1>4
  DEF TaskStep, Start, SourceFails, PreflightFails, LockBuild, Build, BuildFails, Inner, WriteFails,
      CleanupTask, WriteManifest, WriteArtifacts, At, disk

\* Only in a sequential collection is the number of a task that ended another's.
LEMMA SharedNumber ==
  ASSUME CollectInv, NEW i \in Tasks, NEW j \in Tasks, At(i, Working), At(j, {"over", "done"}),
         taskList[i] = taskList[j], task[i].attempt = task[j].attempt
  PROVE  i > j
<1>1. i \in Nat /\ j \in Nat /\ concurrency \in Nat /\ TaskInv /\ OrderInv /\ NumberInv
  BY DEF CollectInv, TaskInv, Tasks
<1>2. i # j /\ concurrency # 0
  BY <1>1 DEF TaskInv, At, Working
<1>3. CASE concurrency = 1 /\ i < j
  BY <1>3, <1>1 DEF OrderInv, At, Working
<1>4. CASE concurrency > 1
  BY <1>1, <1>2, <1>4 DEF NumberInv, At, Working
<1>5. QED
  BY <1>1, <1>2, <1>3, <1>4

\* Which actions write a manifest's outcome, and which end a task.
LEMMA TaskTargets ==
  ASSUME TaskInv, DirInv, NEW i \in Tasks, TaskStep(i)
  PROVE  /\ task'[i].at = "artifacts" => WriteManifest(i)
         /\ task'[i].at \in {"over", "done"} =>
              \/ SourceFails(i) \/ PreflightFails(i) \/ BuildFails(i) \/ WriteFails(i)
              \/ WriteArtifacts(i) \/ CleanupTask(i)
<1>1. task[i] \in TaskStates /\ i \in DOMAIN task
  BY DEF TaskInv
<1>2. CASE Start(i)
  BY <1>1, <1>2 DEF Start, TaskStates
<1>3. CASE Prepare(i) \/ LockBuild(i) \/ Build(i)
  BY <1>1, <1>3 DEF Prepare, LockBuild, Build, TaskStates
<1>4. CASE Inner(i)
  BY <1>1, <1>4 DEF Inner, TaskStates
<1>5. CASE WriteManifest(i)
  BY <1>1, <1>5 DEF WriteManifest, TaskStates
<1>6. CASE SourceFails(i)
  BY <1>1, <1>6 DEF SourceFails, TaskStates
<1>7. CASE PreflightFails(i) \/ BuildFails(i) \/ WriteFails(i) \/ WriteArtifacts(i)
  BY <1>1, <1>7 DEF PreflightFails, BuildFails, WriteFails, WriteArtifacts, Over, TaskStates
<1>8. CASE CleanupTask(i)
  BY <1>1, <1>8 DEF CleanupTask, TaskStates
<1>9. QED
  BY <1>2, <1>3, <1>4, <1>5, <1>6, <1>7, <1>8 DEF TaskStep

\* A task's step keeps what the outcomes of all tasks have in the directories.
LEMMA TaskKeepsOutcomes ==
  ASSUME CollectInv, OutcomeInv, NEW i \in Tasks, TaskStep(i)
  PROVE  OutcomeInv'
<1> DEFINE y == taskList[i]
           m == task[i].attempt
<1>1. /\ TaskInv /\ DirInv /\ OrderInv /\ NumberInv
      /\ \A j \in Tasks : taskList[j] \in Instances /\ task[j].attempt \in Nat /\ j \in Nat
      /\ \A j \in Tasks : task[j] \in TaskStates
  BY DEF CollectInv, TaskInv, Tasks, TaskStates
<1>2. /\ UNCHANGED taskList /\ Tasks' = Tasks
      /\ \A j \in Tasks \ {i} : task'[j] = task[j]
      /\ task'[i].at \notin {"waiting", "skipped"}
      /\ \E st \in TaskStates : task' = [task EXCEPT ![i] = st]
  BY <1>1, TaskMoves, TaskStepType DEF Tasks
<1>3. /\ task[i].at \in Working \cup {"over", "done"} => task'[i].attempt = task[i].attempt
      /\ WriteArtifacts(i) \/ WriteManifest(i) => task[i].at \in Working
  <2>1. CASE task[i].at \in Working
    BY <1>1, <2>1, TaskMoves
  <2>2. CASE task[i].at \in {"over", "done"}
    <3>1. CleanupTask(i)
      BY <2>2 DEF TaskStep, Start, CanStart, SourceFails, Prepare, PreflightFails, LockBuild, Build, BuildFails,
           Inner, WriteManifest, WriteArtifacts, WriteFails, At
    <3>2. task' = [task EXCEPT ![i].at = "done"] /\ i \in DOMAIN task /\ ~ WriteArtifacts(i) /\ ~ WriteManifest(i)
      BY <1>1, <2>2, <3>1 DEF CleanupTask, TaskInv, WriteArtifacts, WriteManifest, At
    <3>3. QED
      BY <1>1, <3>2 DEF TaskStates
  <2>3. QED
    BY <2>1, <2>2 DEF WriteArtifacts, WriteManifest, At, Working
<1>4. /\ \A x \in Instances : \A n \in Nat :
           ~ (x = y /\ n = m /\ WriteArtifacts(i)) => RecordAt(attempts'[x], n) = RecordAt(attempts[x], n)
      /\ \A x \in Instances : \A n \in DOMAIN attempts[x] :
           ~ (x = y /\ n = m /\ WriteManifest(i)) => attempts'[x][n].status = attempts[x][n].status
      /\ WriteArtifacts(i) => /\ RecordAt(attempts[y], m) = "error"
                             /\ RecordAt(attempts'[y], m) = attempts[y][m].status
      /\ WriteManifest(i) => attempts'[y][m].status = task[i].outcome
  BY RecordMoves
\* A task that is superseded stays so.
<1>5. ASSUME NEW j \in Tasks, Superseded(j), task'[j].outcome = task[j].outcome,
             task'[j].attempt = task[j].attempt
      PROVE  Superseded(j)'
  <2>1. PICK k \in Tasks : /\ k > j /\ task[k].at \in Working \cup {"over", "done"}
                           /\ taskList[k] = taskList[j] /\ task[k].attempt = task[j].attempt
    BY <1>5 DEF Superseded, At
  <2>2. task'[k].at \in Working \cup {"over", "done"} /\ task'[k].attempt = task[k].attempt
    <3>1. CASE k = i
      <4>1. task'[i].at \in Working \cup {"over", "done"}
        BY <1>1, TaskMoves DEF Working
      <4>2. QED
        BY <1>3, <2>1, <3>1, <4>1
    <3>2. CASE k # i
      BY <1>2, <2>1, <3>2
    <3>3. QED
      BY <3>1, <3>2
  <2>3. QED
    BY <1>2, <1>5, <2>1, <2>2 DEF Superseded, At
\* The other tasks.
<1>6. ASSUME NEW j \in Tasks, j # i, task[j].at = "artifacts"
      PROVE  attempts'[taskList[j]][task[j].attempt].status = task[j].outcome
  <2>1. /\ task[j].attempt \in DOMAIN attempts[taskList[j]]
        /\ attempts[taskList[j]][task[j].attempt].status = task[j].outcome
    BY <1>1, <1>6 DEF NumberInv, Numbered, At, OutcomeInv
  <2>2. ~ (taskList[j] = y /\ task[j].attempt = m /\ WriteManifest(i))
    <3>1. SUFFICES ASSUME taskList[j] = y, task[j].attempt = m, task[i].at \in Working PROVE FALSE
      BY <1>3
    <3>2. At(j, Working) /\ At(i, Working)
      BY <1>6, <3>1 DEF At, Working
    <3>3. QED
      BY <1>1, <1>6, <3>1, <3>2, NumbersDiffer
  <2>3. QED
    BY <1>1, <1>4, <2>1, <2>2
<1>7. ASSUME NEW j \in Tasks, j # i, task[j].at \in {"over", "done"}
      PROVE  task'[j].outcome = Record(j)' \/ Superseded(j)'
  <2>1. task'[j] = task[j] /\ (task[j].outcome = Record(j) \/ Superseded(j))
    BY <1>2, <1>7 DEF OutcomeInv, At
  <2>2. CASE Superseded(j)
    BY <1>5, <2>1, <2>2
  <2>3. CASE task[j].outcome = Record(j) /\ ~ (taskList[j] = y /\ task[j].attempt = m /\ WriteArtifacts(i))
    BY <1>1, <1>2, <1>4, <2>1, <2>3 DEF Record
  <2>4. CASE task[j].outcome = Record(j) /\ taskList[j] = y /\ task[j].attempt = m /\ WriteArtifacts(i)
    <3>1. task[i].at \in Working /\ i > j
      BY <1>3, <1>7, <2>4, SharedNumber DEF At
    <3>2. task[j].outcome = "error"
      BY <1>4, <2>4 DEF Record
    <3>3. Superseded(j)
      BY <2>4, <3>1, <3>2 DEF Superseded, At
    <3>4. QED
      BY <1>5, <2>1, <3>3
  <2>5. QED
    BY <2>1, <2>2, <2>3, <2>4
\* The task itself.
<1>8. task'[i].at = "artifacts" => attempts'[taskList[i]][task'[i].attempt].status = task'[i].outcome
  <2>1. SUFFICES ASSUME task'[i].at = "artifacts" PROVE WriteManifest(i) /\ task'[i].outcome = task[i].outcome
    BY <1>3, <1>4
  <2>2. WriteManifest(i)
    BY <1>1, <1>2, <2>1, TaskTargets
  <2>3. task' = [task EXCEPT ![i].at = "artifacts"] /\ i \in DOMAIN task
    BY <1>1, <2>2 DEF WriteManifest, TaskInv
  <2>4. QED
    BY <1>1, <2>2, <2>3 DEF TaskStates
<1>9. ASSUME task'[i].at \in {"over", "done"}
      PROVE  task'[i].outcome = Record(i)' \/ Superseded(i)'
  <2>1. CASE CleanupTask(i)
    <3>1. /\ task[i].at = "over" /\ ~ WriteArtifacts(i)
          /\ task'[i].outcome = task[i].outcome /\ task'[i].attempt = task[i].attempt
      BY <1>1, <1>2, <2>1 DEF CleanupTask, WriteArtifacts, At, TaskStates
    <3>2. Record(i)' = Record(i)
      BY <1>1, <1>2, <1>4, <3>1 DEF Record
    <3>3. QED
      BY <1>5, <3>1, <3>2 DEF OutcomeInv, At
  <2>2. CASE WriteArtifacts(i)
    <3>1. task[i].at = "artifacts" /\ task'[i].outcome = task[i].outcome /\ task'[i].attempt = task[i].attempt
      BY <1>1, <1>2, <2>2 DEF WriteArtifacts, Over, At, TaskStates
    <3>2. Record(i)' = attempts[y][m].status
      BY <1>2, <1>4, <2>2, <3>1 DEF Record
    <3>3. QED
      BY <3>1, <3>2 DEF OutcomeInv, At
  <2>3. ASSUME task'[i].outcome = "error", attempts' = attempts,
               \/ task'[i].attempt \notin DOMAIN attempts[y]
               \/ ~ attempts[y][task'[i].attempt].artifacts
        PROVE  task'[i].outcome = Record(i)'
    BY <1>2, <2>3 DEF Record, RecordAt
  <2>4. CASE SourceFails(i)
    <3>1. task'[i].outcome = "error" /\ task'[i].attempt = Number(i) /\ task[i].at = "waiting" /\ attempts' = attempts
      BY <1>1, <1>2, <2>4 DEF SourceFails, CanStart, At, TaskStates, disk
    <3>2. Number(i) \notin DOMAIN attempts[y]
      <4>1. concurrency \in Nat /\ concurrency # 0
        BY <1>1, <3>1 DEF TaskInv, At
      <4>2. CASE concurrency = 1
        <5>1. \A n \in DOMAIN attempts[y] : n < NextAttempt(y) /\ n \in Nat
          BY <1>1, NextAttemptFresh DEF DirInv
        <5>2. NextAttempt(y) \in Nat /\ Number(i) = NextAttempt(y)
          BY <1>1, <4>2, NextAttemptFresh DEF Number
        <5>3. QED
          BY <5>1, <5>2
      <4>3. CASE concurrency > 1
        BY <1>1, <3>1, <4>3 DEF Number, NumberInv, At
      <4>4. QED
        BY <4>1, <4>2, <4>3
    <3>3. QED
      BY <2>3, <3>1, <3>2
  <2>5. CASE PreflightFails(i) \/ BuildFails(i) \/ WriteFails(i)
    <3>1. /\ task[i].at \in {"prepare"} \cup Numbered /\ attempts' = attempts
          /\ task'[i].outcome = "error" /\ task'[i].attempt = m
      <4>1. /\ attempts' = attempts /\ task[i].at \in {"prepare"} \cup Numbered
            /\ \E to \in {"over"} : task' = [task EXCEPT ![i].at = to, ![i].outcome = "error"]
        BY <2>5 DEF PreflightFails, BuildFails, WriteFails, Over, At, Numbered, disk
      <4>2. task[i] \in TaskStates /\ task \in [Tasks -> TaskStates]
        BY <1>1 DEF TaskInv
      <4>3. task'[i].outcome = "error" /\ task'[i].attempt = m
        BY <4>1, <4>2 DEF TaskStates
      <4>4. QED
        BY <4>1, <4>3
    <3>2. m \notin DOMAIN attempts[y] \/ ~ attempts[y][m].artifacts
      BY <1>1, <3>1 DEF NumberInv, At
    <3>3. QED
      BY <2>3, <3>1, <3>2
  <2>6. QED
    BY <1>1, <1>2, <1>9, <2>1, <2>2, <2>4, <2>5, TaskTargets
<1>10. QED
  BY <1>2, <1>6, <1>7, <1>8, <1>9 DEF OutcomeInv, At

\* What is finished stays finished.
LEMMA CompletedGrow ==
  ASSUME CollectInv, [Next]_vars
  PROVE  CompletedIds \subseteq CompletedIds'
<1> SUFFICES ASSUME NEW x \in Instances, NEW n \in DOMAIN attempts[x], attempts[x][n].status \in Terminal
             PROVE  n \in DOMAIN attempts'[x] /\ attempts'[x][n].status \in Terminal
  BY DEF CompletedIds
<1>1. attempts[x][n].status # "none"
  BY DEF Terminal
<1>2. QED
  BY <1>1, AttemptsKeptStep

LEMMA ResultInvStep == CollectInv /\ ResultInv /\ [Next]_vars => ResultInv'
<1> SUFFICES ASSUME CollectInv, ResultInv, [Next]_vars PROVE ResultInv'
  OBVIOUS
<1>1. CompletedIds \subseteq CompletedIds' /\ completed \subseteq CompletedIds /\ OutcomeInv
  BY CompletedGrow DEF ResultInv
<1>2. ASSUME NEW i \in Tasks, TaskStep(i) PROVE ResultInv'
  <2>1. OutcomeInv'
    BY <1>1, <1>2, TaskKeepsOutcomes
  <2>2. completed' = completed
    BY <1>2, TaskStepType DEF CollectInv
  <2>3. QED
    BY <1>1, <2>1, <2>2 DEF ResultInv
<1>3. CASE Invoke
  <2>1. completed' = CompletedIds /\ UNCHANGED taskList
        /\ \A i \in Tasks : task'[i].at \in {"skipped", "waiting"}
    BY <1>3 DEF Invoke, Skipped
  <2>2. OutcomeInv'
    BY <2>1 DEF OutcomeInv, At, Tasks
  <2>3. QED
    BY <1>1, <2>1, <2>2 DEF ResultInv
<1>4. CASE PrefetchJob \/ Rest \/ UNCHANGED vars
  <2>1. UNCHANGED <<taskList, completed, task, attempts>>
    BY <1>4 DEF PrefetchJob, Rest, vars, disk, process
  <2>2. OutcomeInv'
    BY <1>1, <2>1 DEF OutcomeInv, Record, Superseded, At, Tasks
  <2>3. QED
    BY <1>1, <2>1, <2>2 DEF ResultInv
<1>5. CASE CleanupAll
  <2>1. /\ UNCHANGED <<taskList, completed, attempts>> /\ \A i \in Tasks : task[i].at \in {"skipped", "over"}
        /\ task' = [i \in Tasks |-> [task[i] EXCEPT !.at = IF task[i].at = "over" THEN "done" ELSE task[i].at]]
    BY <1>5 DEF CleanupAll, At, disk, process
  <2>2. task \in [Tasks -> TaskStates]
    BY DEF CollectInv, TaskInv
  <2>3. \A i \in Tasks : /\ task'[i].at = IF task[i].at = "over" THEN "done" ELSE "skipped"
                         /\ task'[i].attempt = task[i].attempt /\ task'[i].outcome = task[i].outcome
    BY <2>1, <2>2 DEF TaskStates
  <2>4. ASSUME NEW i \in Tasks, task'[i].at \in {"over", "done"}
        PROVE  task'[i].outcome = Record(i)' \/ Superseded(i)'
    <3>1. task[i].at = "over" /\ Record(i)' = Record(i)
      BY <2>1, <2>3, <2>4 DEF Record
    <3>2. ASSUME Superseded(i) PROVE Superseded(i)'
      <4>1. PICK j \in Tasks : /\ j > i /\ task[j].at \in Working \cup {"over", "done"}
                               /\ taskList[j] = taskList[i] /\ task[j].attempt = task[i].attempt
        BY <3>2 DEF Superseded, At
      <4>2. task'[j].at = "done"
        BY <2>1, <2>3, <4>1 DEF Working
      <4>3. task'[i].outcome = "error" /\ taskList'[j] = taskList'[i] /\ task'[j].attempt = task'[i].attempt
        BY <2>1, <2>3, <3>2, <4>1 DEF Superseded
      <4>4. j \in Tasks'
        BY <2>1 DEF Tasks
      <4>5. QED
        BY <4>1, <4>2, <4>3, <4>4 DEF Superseded, At
    <3>3. QED
      BY <1>1, <2>3, <3>1, <3>2 DEF OutcomeInv, At
  <2>5. OutcomeInv'
    BY <2>1, <2>3, <2>4 DEF OutcomeInv, At, Tasks
  <2>6. QED
    BY <1>1, <2>1, <2>5 DEF ResultInv
<1>6. CASE WriteResults \/ Kill
  <2>1. completed' = {} /\ UNCHANGED taskList /\ \A i \in Tasks : task'[i].at = "skipped"
    BY <1>6 DEF WriteResults, Kill, ProcessEnds, Skipped
  <2>2. OutcomeInv'
    BY <2>1 DEF OutcomeInv, At, Tasks
  <2>3. QED
    BY <2>1, <2>2 DEF ResultInv
<1>7. QED
  BY <1>2, <1>3, <1>4, <1>5, <1>6 DEF Next

LEMMA ResultInvariant == Spec => []ResultInv
<1>1. Init => ResultInv
  BY DEF Init, ResultInv, OutcomeInv, At, Skipped
<1>2. QED
  BY <1>1, CollectInvariant, ResultInvStep, PTL DEF Spec

-----------------------------------------------------------------------------
(* results.jsonl.                                                          *)

LineSet == [task : Nat, attempt : Nat, outcome : Outcomes]

\* The lines of the tasks 1 .. n that ran, in order.
LinesUpTo(s, n) ==
  /\ \A k \in 1 .. Len(s) : \E i \in 1 .. n : At(i, {"done"}) /\ s[k] = Line(i)
  /\ \A j, k \in 1 .. Len(s) : j < k => s[j].task < s[k].task
  /\ \A i \in 1 .. n : At(i, {"done"}) => \E k \in 1 .. Len(s) : s[k] = Line(i)

\* The results are defined by recursion over the tasks.
LEMMA ResultLinesAre ==
  ASSUME TaskInv
  PROVE  \E g : /\ g \in [0 .. Len(taskList) -> Seq(LineSet)] /\ g[0] = <<>>
                /\ \A k \in 1 .. Len(taskList) :
                     g[k] = IF At(k, {"done"}) THEN Append(g[k - 1], Line(k)) ELSE g[k - 1]
                /\ ResultLines = g[Len(taskList)]
<1> DEFINE N == Len(taskList)
           step == [k \in 1 .. N |-> [x \in Seq(LineSet) |-> IF At(k, {"done"}) THEN Append(x, Line(k)) ELSE x]]
           Body(h, n) == IF n = 0 THEN <<>>
                         ELSE IF At(n, {"done"}) THEN Append(h[n - 1], Line(n)) ELSE h[n - 1]
           lines == CHOOSE h : h = [n \in 0 .. Len(taskList) |-> Body(h, n)]
<1>1. N \in Nat /\ <<>> \in Seq(LineSet) /\ \A k \in 1 .. N : Line(k) \in LineSet
  <2>1. N \in Nat /\ Tasks = 1 .. N /\ task \in [Tasks -> TaskStates]
    BY DEF TaskInv, Tasks
  <2> HIDE DEF N
  <2>2. \A k \in 1 .. N : k \in Nat /\ task[k].attempt \in Nat /\ task[k].outcome \in Outcomes
    BY <2>1 DEF TaskStates
  <2>3. QED
    BY <2>1, <2>2 DEF Line, LineSet
<1>2. step \in Steps(N, Seq(LineSet))
  <2>1. \A k \in 1 .. N : [x \in Seq(LineSet) |-> IF At(k, {"done"}) THEN Append(x, Line(k)) ELSE x]
                            \in [Seq(LineSet) -> Seq(LineSet)]
    BY <1>1
  <2> HIDE DEF N
  <2>2. QED
    BY <2>1 DEF Steps
<1>3. PICK g : IsRecursion(g, N, Seq(LineSet), <<>>, step)
  <2> HIDE DEF N, step
  <2>1. QED
    BY <1>1, <1>2, RecursionExists
<1>4. /\ g \in [0 .. N -> Seq(LineSet)] /\ g[0] = <<>>
      /\ \A k \in 1 .. N : g[k] = step[k][g[k - 1]]
  BY <1>3 DEF IsRecursion
<1>5. ASSUME NEW k \in 1 .. N
      PROVE  g[k] = IF At(k, {"done"}) THEN Append(g[k - 1], Line(k)) ELSE g[k - 1]
  <2>1. k - 1 \in 0 .. N
    BY <1>1
  <2>2. g[k - 1] \in Seq(LineSet) /\ g[k] = step[k][g[k - 1]]
    BY <1>4, <2>1
  <2> HIDE DEF N
  <2>3. QED
    BY <2>2
<1>6. g = [n \in 0 .. N |-> Body(g, n)]
  <2>1. ASSUME NEW n \in 0 .. N PROVE g[n] = Body(g, n)
    <3>1. n = 0 \/ (n \in 1 .. N /\ n # 0)
      BY <1>1
    <3> HIDE DEF N
    <3>2. QED
      BY <1>4, <1>5, <3>1
  <2>2. g = [n \in 0 .. N |-> g[n]]
    BY <1>4
  <2> HIDE DEF Body, N
  <2>3. QED
    BY <2>1, <2>2
<1>7. lines = [n \in 0 .. N |-> Body(lines, n)]
  <2> HIDE DEF Body
  <2>1. QED
    BY <1>6
<1>8. ResultLines = lines[N]
  BY DEF ResultLines
<1> HIDE DEF lines
<1>9. \A n \in 0 .. N : lines[n] = Body(lines, n)
  <2> HIDE DEF Body, N
  <2>1. QED
    BY <1>7
<1>10. \A n \in 0 .. N : lines[n] = g[n]
  <2> DEFINE U == {n \in 0 .. N : lines[n] = g[n]}
  <2>1. 0 \in U
    BY <1>1, <1>4, <1>9
  <2>2. ASSUME NEW k \in 1 .. N, k - 1 \in U PROVE k \in U
    <3>1. k \in 0 .. N /\ k # 0
      BY <1>1
    <3> HIDE DEF N
    <3>2. QED
      BY <1>5, <1>9, <2>2, <3>1
  <2>3. \A k \in 0 .. N : k \in U
    <3> HIDE DEF U, N
    <3>1. QED
      BY <1>1, <2>1, <2>2, UpTo
  <2>4. QED
    BY <2>3
<1>11. N \in 0 .. N
  BY <1>1
<1> HIDE DEF N
<1>12. QED
  BY <1>4, <1>5, <1>8, <1>10, <1>11 DEF N

LEMMA ResultLinesOrdered ==
  ASSUME TaskInv
  PROVE  ResultLines \in Seq(LineSet) /\ LinesUpTo(ResultLines, Len(taskList))
<1> DEFINE N == Len(taskList)
<1>1. N \in Nat /\ \A n \in Nat : Line(n).task = n
  BY DEF TaskInv, Line
<1>2. PICK g : /\ g \in [0 .. N -> Seq(LineSet)] /\ g[0] = <<>>
               /\ \A k \in 1 .. N :
                    g[k] = IF At(k, {"done"}) THEN Append(g[k - 1], Line(k)) ELSE g[k - 1]
               /\ ResultLines = g[N]
  BY ResultLinesAre
<1> HIDE DEF N
<1> DEFINE U == {n \in 0 .. N : LinesUpTo(g[n], n)}
<1>3. 0 \in U
  <2>1. Len(g[0]) = 0 /\ 0 \in 0 .. N
    BY <1>1, <1>2
  <2>2. LinesUpTo(g[0], 0)
    BY <2>1 DEF LinesUpTo
  <2>3. QED
    BY <2>1, <2>2
<1>4. ASSUME NEW n \in 1 .. N, n - 1 \in U PROVE n \in U
  <2> DEFINE s == g[n - 1]
             t == g[n]
  <2>1. /\ n \in Nat /\ n \in 0 .. N /\ s \in Seq(LineSet) /\ LinesUpTo(s, n - 1)
        /\ t \in Seq(LineSet) /\ t = IF At(n, {"done"}) THEN Append(s, Line(n)) ELSE s
    BY <1>1, <1>2, <1>4
  <2>2. \A i \in 1 .. n : i = n \/ i \in 1 .. n - 1
    BY <2>1
  <2>3. \A i \in 1 .. n - 1 : i \in 1 .. n /\ i < n /\ i \in Nat
    BY <2>1
  <2> HIDE DEF s, t
  <2>4. CASE ~ At(n, {"done"})
    <3>1. LinesUpTo(t, n)
      BY <2>1, <2>2, <2>3, <2>4 DEF LinesUpTo
    <3>2. QED
      BY <2>1, <3>1 DEF t
  <2>5. CASE At(n, {"done"})
    <3>1. /\ Len(s) \in Nat /\ Len(t) = Len(s) + 1 /\ t[Len(t)] = Line(n)
          /\ \A k \in 1 .. Len(s) : t[k] = s[k] /\ k \in 1 .. Len(t) /\ k < Len(t)
          /\ Len(t) \in 1 .. Len(t)
      BY <2>1, <2>5
    <3>2. \A k \in 1 .. Len(t) : k = Len(t) \/ k \in 1 .. Len(s)
      BY <3>1
    <3>3. \A k \in 1 .. Len(t) : \E i \in 1 .. n : At(i, {"done"}) /\ t[k] = Line(i)
      <4>1. n \in 1 .. n
        BY <2>1
      <4>2. QED
        BY <2>1, <2>3, <2>5, <3>1, <3>2, <4>1 DEF LinesUpTo
    <3>4. ASSUME NEW j \in 1 .. Len(t), NEW k \in 1 .. Len(t), j < k
          PROVE  t[j].task < t[k].task
      <4>1. j \in 1 .. Len(s)
        BY <3>1, <3>2, <3>4
      <4>2. PICK i \in 1 .. n - 1 : s[j] = Line(i)
        BY <2>1, <4>1 DEF LinesUpTo
      <4>3. CASE k = Len(t)
        BY <1>1, <2>1, <2>3, <3>1, <4>1, <4>2, <4>3
      <4>4. CASE k \in 1 .. Len(s)
        BY <2>1, <3>1, <3>4, <4>1, <4>4 DEF LinesUpTo
      <4>5. QED
        BY <3>2, <4>3, <4>4
    <3>5. ASSUME NEW i \in 1 .. n, At(i, {"done"}) PROVE \E k \in 1 .. Len(t) : t[k] = Line(i)
      <4>1. CASE i = n
        BY <3>1, <4>1
      <4>2. CASE i \in 1 .. n - 1
        BY <2>1, <3>1, <3>5, <4>2 DEF LinesUpTo
      <4>3. QED
        BY <2>2, <4>1, <4>2
    <3>6. LinesUpTo(t, n)
      BY <3>3, <3>4, <3>5 DEF LinesUpTo
    <3>7. QED
      BY <2>1, <3>6 DEF t
  <2>6. QED
    BY <2>4, <2>5
<1>5. \A n \in 0 .. N : n \in U
  <2> HIDE DEF U
  <2>1. QED
    BY <1>1, <1>3, <1>4, UpTo
<1>6. N \in 0 .. N
  BY <1>1
<1>7. QED
  BY <1>2, <1>5, <1>6 DEF N

\* What is written is what the run directory records.
LEMMA ResultsWritten ==
  ASSUME CollectInv, ResultInv, SkipInv, WriteResults
  PROVE  Faithful'
<1> DEFINE lines == ResultLines
           Recorded(l) == RecordAt(attempts[taskList[l.task]], l.attempt)
           Repeats(l, m) == taskList[m.task] = taskList[l.task] /\ m.attempt = l.attempt
<1>1. /\ TaskInv /\ Running /\ \A i \in Tasks : At(i, {"skipped", "done"})
      /\ UNCHANGED <<attempts, taskList>> /\ resultsFile'.lines = lines
  BY DEF WriteResults, AllOver, ProcessEnds, CollectInv
<1>2. /\ Tasks = 1 .. Len(taskList) /\ Len(taskList) \in Nat
      /\ lines \in Seq(LineSet) /\ DOMAIN lines = 1 .. Len(lines) /\ Len(lines) \in Nat
      /\ LinesUpTo(lines, Len(taskList))
  BY <1>1, ResultLinesOrdered DEF TaskInv, Tasks
<1>3. \A i \in Tasks : /\ Line(i).task = i /\ Line(i).attempt = task[i].attempt
                       /\ Line(i).outcome = task[i].outcome
  BY DEF Line
<1> HIDE DEF lines
<1>4. ASSUME NEW k \in DOMAIN lines
      PROVE  \/ lines[k].outcome = Recorded(lines[k])
             \/ lines[k].outcome = "error" /\ \E j \in DOMAIN lines : j > k /\ Repeats(lines[k], lines[j])
  <2>1. PICK i \in Tasks : At(i, {"done"}) /\ lines[k] = Line(i)
    BY <1>2 DEF LinesUpTo
  <2>2. task[i].outcome = Record(i) \/ Superseded(i)
    BY <2>1 DEF ResultInv, OutcomeInv, At
  <2>3. CASE task[i].outcome = Record(i)
    BY <1>3, <2>1, <2>3 DEF Record
  <2>4. CASE Superseded(i)
    <3>1. PICK j \in Tasks : /\ j > i /\ task[j].at \in Working \cup {"over", "done"}
                             /\ taskList[j] = taskList[i] /\ task[j].attempt = task[i].attempt
      BY <2>4 DEF Superseded, At
    <3>2. At(j, {"done"})
      BY <1>1, <3>1 DEF At, Working
    <3>3. PICK p \in DOMAIN lines : lines[p] = Line(j)
      BY <1>2, <3>2 DEF LinesUpTo
    <3>4. p > k
      <4>1. lines[k].task = i /\ lines[p].task = j /\ i \in Nat /\ j \in Nat /\ p \in Nat /\ k \in Nat
        BY <1>2, <1>3, <2>1, <3>3
      <4>2. p # k
        BY <3>1, <4>1
      <4>3. ~ (p < k)
        <5>1. p \in 1 .. Len(lines) /\ k \in 1 .. Len(lines)
          BY <1>2
        <5>2. p < k => lines[p].task < lines[k].task
          BY <1>2, <5>1 DEF LinesUpTo
        <5>3. QED
          BY <3>1, <4>1, <5>2
      <4>4. QED
        BY <4>1, <4>2, <4>3
    <3>5. Repeats(lines[k], lines[p])
      BY <1>3, <2>1, <3>1, <3>3
    <3>6. lines[k].outcome = "error"
      BY <1>3, <2>1, <2>4 DEF Superseded
    <3>7. QED
      BY <3>4, <3>5, <3>6
  <2>5. QED
    BY <2>2, <2>3, <2>4
<1>5. \A j, k \in DOMAIN lines : j < k => lines[j].task < lines[k].task
  BY <1>2 DEF LinesUpTo
<1>6. ASSUME NEW i \in Tasks
      PROVE  taskList[i] \in CompletedIds \/ \E k \in DOMAIN lines : lines[k].task = i
  <2>1. CASE At(i, {"skipped"})
    BY <1>1, <2>1 DEF SkipInv, ResultInv
  <2>2. CASE At(i, {"done"})
    <3>1. PICK k \in 1 .. Len(lines) : lines[k] = Line(i)
      BY <1>2, <2>2 DEF LinesUpTo
    <3>2. QED
      BY <1>2, <1>3, <3>1
  <2>3. QED
    BY <1>1, <2>1, <2>2 DEF At
<1>7. CompletedIds' = CompletedIds /\ Tasks' = Tasks
  BY <1>1 DEF CompletedIds, Tasks
<1>8. QED
  BY <1>1, <1>4, <1>5, <1>6, <1>7 DEF Faithful, RecordAt

\* results.jsonl, when an invocation writes it, agrees with the run directory,
\* whatever was skipped, failed before its directory was made, ran beside others or
\* was killed before: each line is what its attempt's directory records, in task
\* order, and a task without a line was finished before (_run_scaffold_tasks,
\* write_results_jsonl, load_completed_ids).
THEOREM ResultsFaithfulCorrect == Spec => ResultsFaithful
<1>1. CollectInv /\ ResultInv /\ BudgetInv => [WriteResults => Faithful']_vars
  BY ResultsWritten DEF BudgetInv
<1>2. QED
  BY <1>1, CollectInvariant, ResultInvariant, BudgetInvariant, PTL DEF ResultsFaithful
=============================================================================
