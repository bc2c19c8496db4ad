--------------------------- MODULE ParallelQueue ---------------------------
(***************************************************************************)
(* The file-system task queue of a parallel run (main.py) and the driver   *)
(* that surrounds it (run_parallel in src/scripts/docker_benchmark.sh).    *)
(*                                                                         *)
(* A drive is one execution of run_parallel on one run directory: rebuild  *)
(* the four queue directories, start one worker process per GPU, wait for  *)
(* them, post-process and count what is left.  A resumed run is a further  *)
(* drive on the same directory.  Workers share nothing but the directory:  *)
(* a claim is a rename out of pending/, and a descriptor is named after    *)
(* the worker ID, which the next drive uses again.                         *)
(*                                                                         *)
(* A descriptor is a pair <<owner, task>>: its file name without the       *)
(* worker prefix has owner NoWorker.  Its YAML payload is a function of    *)
(* the task and of the directory, so it is left out.                       *)
(***************************************************************************)
EXTENDS Integers, FiniteSets

CONSTANTS NTasks,        \* number of runnable tasks, in queue order
          Workers,       \* worker IDs, one per GPU
          NoWorker,      \* owner of a descriptor nobody has claimed
          MaxDrives,     \* bound: drives of the run directory
          MaxCrashes,    \* bound: process deaths, driver and workers
          OrphanWorkers, \* may a resume start while old workers still run?
          V2Tasks        \* tasks whose runner does not re-check its evidence

ASSUME QueueAssumption ==
  /\ NTasks \in Nat \ {0}
  /\ NoWorker \notin Workers
  /\ MaxDrives \in Nat \ {0}
  /\ MaxCrashes \in Nat
  /\ OrphanWorkers \in BOOLEAN
  /\ V2Tasks \subseteq 1 .. NTasks

Tasks == 1 .. NTasks
NoTask == 0

QueueStates == <<"pending", "running", "done", "failed">>
Dirs == {"pending", "running", "done", "failed"}
Owners == Workers \cup {NoWorker}
Descriptors == Owners \X Tasks

\* A worker process is identified by the drive that launched it and its ID.
Procs == (1 .. MaxDrives) \X Workers

Phases == {"clear", "enqueue", "working", "gate", "count", "returned"}
LivePc == {"scan", "try", "claimed", "run", "ran", "read", "rewritten"}
HoldingPc == {"claimed", "run", "ran", "read", "rewritten"}
PcValues == LivePc \cup {"off", "exited", "crashed"}

VARIABLES
  queue,    \* directory -> set of descriptors in it
  complete, \* tasks whose completion evidence is_task_complete accepts
  drive,    \* number of the current drive
  alive,    \* is the driver process alive?
  phase,    \* what the driver is (or was) doing
  cursor,   \* the driver's loop index in phases clear, enqueue and count
  bad,      \* the driver has a reason to exit with a nonzero status
  pc,       \* per process: control point
  todo,     \* per process: rest of the sorted snapshot of pending/
  held,     \* per process: task of the claimed descriptor
  ok,       \* per process: run_task's answer for held, FALSE while it has none
  failures, \* per process: some task failed
  crashes   \* deaths so far

driverVars == <<drive, alive, phase, cursor, bad>>
procVars == <<pc, todo, held, ok, failures>>
vars == <<queue, complete, drive, alive, phase, cursor, bad,
          pc, todo, held, ok, failures, crashes>>

Live(p) == pc[p] \in LivePc
Ended(p) == pc[p] \in {"exited", "crashed"}
Crew == {<<drive, w>> : w \in Workers}
QuietWorkers == \A p \in Procs : ~Live(p)

TasksIn(d) == {t \in Tasks : \E o \in Owners : <<o, t>> \in queue[d]}

Init ==
  /\ queue = [d \in Dirs |-> {}]
  /\ complete = {}
  /\ drive = 1 /\ alive = TRUE /\ phase = "clear" /\ cursor = 1 /\ bad = FALSE
  /\ pc = [p \in Procs |-> "off"]
  /\ todo = [p \in Procs |-> {}]
  /\ held = [p \in Procs |-> NoTask]
  /\ ok = [p \in Procs |-> FALSE]
  /\ failures = [p \in Procs |-> FALSE]
  /\ crashes = 0

-----------------------------------------------------------------------------
(* Driver: run_parallel and initialize_parallel_queue                      *)

\* The glob and the unlinks of one state directory, in QUEUE_STATES order.
ClearDir ==
  /\ alive /\ phase = "clear"
  /\ queue' = [queue EXCEPT ![QueueStates[cursor]] = {}]
  /\ IF cursor < 4 THEN cursor' = cursor + 1 /\ phase' = "clear"
                   ELSE cursor' = 1 /\ phase' = "enqueue"
  /\ UNCHANGED <<complete, drive, alive, bad, procVars, crashes>>

\* Mutant: every task is queued, complete or not.
EnqueueAll ==
  /\ alive /\ phase = "enqueue"
  /\ queue' = [queue EXCEPT !["pending"] = @ \cup {<<NoWorker, cursor>>}]
  /\ IF cursor < NTasks THEN cursor' = cursor + 1 /\ phase' = "enqueue"
                        ELSE cursor' = 1 /\ phase' = "working"
  /\ UNCHANGED <<complete, drive, alive, bad, procVars, crashes>>

\* Mutant: the enumeration of the tasks runs one too far.
EnqueueOneMore ==
  /\ alive /\ phase = "enqueue"
  /\ LET d == IF cursor \in complete THEN "done" ELSE "pending"
     IN queue' = [queue EXCEPT ![d] = @ \cup {<<NoWorker, cursor>>}]
  /\ IF cursor <= NTasks THEN cursor' = cursor + 1 /\ phase' = "enqueue"
                         ELSE cursor' = 1 /\ phase' = "working"
  /\ UNCHANGED <<complete, drive, alive, bad, procVars, crashes>>

\* One task of the run: already complete on disk, or queued.
EnqueueTask ==
  /\ alive /\ phase = "enqueue"
  /\ LET d == IF cursor \in complete THEN "done" ELSE "pending"
     IN queue' = [queue EXCEPT ![d] = @ \cup {<<NoWorker, cursor>>}]
  /\ IF cursor < NTasks THEN cursor' = cursor + 1 /\ phase' = "enqueue"
                        ELSE cursor' = 1 /\ phase' = "working"
  /\ UNCHANGED <<complete, drive, alive, bad, procVars, crashes>>

\* Start one worker in the background.  One that gives up before its first
\* claim (no agent launcher, no sidecar) is a WorkerDies at "scan".
LaunchWorker(p) ==
  /\ alive /\ phase = "working" /\ p \in Crew
  /\ pc[p] = "off"
  /\ pc' = [pc EXCEPT ![p] = "scan"]
  /\ UNCHANGED <<queue, complete, driverVars, todo, held, ok, failures, crashes>>

\* wait returns for every PID; any nonzero status is remembered.
WaitWorkers ==
  /\ alive /\ phase = "working"
  /\ \A p \in Crew : Ended(p)
  /\ bad' = (bad \/ \E p \in Crew : pc[p] = "crashed" \/ failures[p])
  /\ phase' = "gate"
  /\ UNCHANGED <<queue, complete, drive, alive, cursor, procVars, crashes>>

\* The post-processing handler passes or fails its gate.
PostProcess ==
  /\ alive /\ phase = "gate"
  /\ bad' \in {bad, TRUE}
  /\ phase' = "count" /\ cursor' = 1
  /\ UNCHANGED <<queue, complete, drive, alive, procVars, crashes>>

\* run_postprocess_only then globs pending, running and failed, in this order.
CountedStates == <<"pending", "running", "failed">>

CountDir ==
  /\ alive /\ phase = "count"
  /\ bad' = (bad \/ queue[CountedStates[cursor]] # {})
  /\ IF cursor < 3 THEN cursor' = cursor + 1 /\ phase' = "count"
                   ELSE cursor' = 1 /\ phase' = "returned"
  /\ UNCHANGED <<queue, complete, drive, alive, procVars, crashes>>

\* The driver dies, or its init container fails under set -e.  Its workers
\* are processes of their own and are not told.
DriverDies ==
  /\ alive /\ phase # "returned"
  /\ crashes < MaxCrashes
  /\ alive' = FALSE
  /\ crashes' = crashes + 1
  /\ UNCHANGED <<queue, complete, drive, phase, cursor, bad, procVars>>

\* --resume-run on the same directory: nothing looks for a running drive.
ResumeRun ==
  /\ phase = "returned" \/ ~alive
  /\ drive < MaxDrives
  /\ OrphanWorkers \/ QuietWorkers
  /\ drive' = drive + 1
  /\ alive' = TRUE /\ phase' = "clear" /\ cursor' = 1 /\ bad' = FALSE
  /\ UNCHANGED <<queue, complete, procVars, crashes>>

\* Between drives completion evidence may stop matching the sources, or match
\* them again: files are edited and restored.
EvidenceChanges(t) ==
  /\ phase = "returned" \/ ~alive
  /\ QuietWorkers
  /\ complete' \in {complete \ {t}, complete \cup {t}}
  /\ UNCHANGED <<queue, driverVars, procVars, crashes>>

-----------------------------------------------------------------------------
(* Worker: run_parallel_worker, claim_next_descriptor, finish_descriptor   *)

\* sorted(pending_dir.glob("*.yaml")): a snapshot of the names.
ScanPending(p) ==
  /\ pc[p] = "scan"
  /\ todo' = [todo EXCEPT ![p] = TasksIn("pending")]
  /\ pc' = [pc EXCEPT ![p] = "try"]
  /\ UNCHANGED <<queue, complete, driverVars, held, ok, failures, crashes>>

IsNext(p, t) == t \in todo[p] /\ \A u \in todo[p] : t <= u

\* Mutant: the claim copies the descriptor instead of moving it.
ClaimByCopy(p, t) ==
  /\ pc[p] = "try" /\ IsNext(p, t)
  /\ <<NoWorker, t>> \in queue["pending"]
  /\ queue' = [queue EXCEPT !["running"] = @ \cup {<<p[2], t>>}]
  /\ held' = [held EXCEPT ![p] = t]
  /\ todo' = [todo EXCEPT ![p] = {}]
  /\ pc' = [pc EXCEPT ![p] = "claimed"]
  /\ UNCHANGED <<complete, driverVars, ok, failures, crashes>>

\* Mutant: the claim does not notice that the name is gone from pending/.
ClaimStale(p, t) ==
  /\ pc[p] = "try" /\ IsNext(p, t)
  /\ queue' = [queue EXCEPT !["pending"] = @ \ {<<NoWorker, t>>},
                            !["running"] = @ \cup {<<p[2], t>>}]
  /\ held' = [held EXCEPT ![p] = t]
  /\ todo' = [todo EXCEPT ![p] = {}]
  /\ pc' = [pc EXCEPT ![p] = "claimed"]
  /\ UNCHANGED <<complete, driverVars, ok, failures, crashes>>

\* descriptor.rename(claimed) succeeds.
ClaimDescriptor(p, t) ==
  /\ pc[p] = "try" /\ IsNext(p, t)
  /\ <<NoWorker, t>> \in queue["pending"]
  /\ queue' = [queue EXCEPT !["pending"] = @ \ {<<NoWorker, t>>},
                            !["running"] = @ \cup {<<p[2], t>>}]
  /\ held' = [held EXCEPT ![p] = t]
  /\ todo' = [todo EXCEPT ![p] = {}]
  /\ pc' = [pc EXCEPT ![p] = "claimed"]
  /\ UNCHANGED <<complete, driverVars, ok, failures, crashes>>

\* Mutant: a lost race ends the claim loop.
LoseRaceAndExit(p, t) ==
  /\ pc[p] = "try" /\ IsNext(p, t)
  /\ <<NoWorker, t>> \notin queue["pending"]
  /\ pc' = [pc EXCEPT ![p] = "exited"]
  /\ UNCHANGED <<queue, complete, driverVars, todo, held, ok, failures, crashes>>

\* FileNotFoundError: somebody else claimed it after the snapshot.
LoseRace(p, t) ==
  /\ pc[p] = "try" /\ IsNext(p, t)
  /\ <<NoWorker, t>> \notin queue["pending"]
  /\ todo' = [todo EXCEPT ![p] = @ \ {t}]
  /\ UNCHANGED <<queue, complete, driverVars, pc, held, ok, failures, crashes>>

\* Mutant: a worker with nothing to claim looks again.
NothingLeftRescan(p) ==
  /\ pc[p] = "try" /\ todo[p] = {}
  /\ pc' = [pc EXCEPT ![p] = "scan"]
  /\ UNCHANGED <<queue, complete, driverVars, todo, held, ok, failures, crashes>>

\* The snapshot is used up: the worker returns 1 if failures else 0.
NothingLeft(p) ==
  /\ pc[p] = "try" /\ todo[p] = {}
  /\ pc' = [pc EXCEPT ![p] = "exited"]
  /\ UNCHANGED <<queue, complete, driverVars, todo, held, ok, failures, crashes>>

Mine(p) == <<p[2], held[p]>>

\* A process that ends without returning takes its local variables with it;
\* all that is left is a nonzero status.
Die(p) ==
  /\ pc' = [pc EXCEPT ![p] = "crashed"]
  /\ todo' = [todo EXCEPT ![p] = {}]
  /\ held' = [held EXCEPT ![p] = NoTask]
  /\ ok' = [ok EXCEPT ![p] = FALSE]
  /\ failures' = [failures EXCEPT ![p] = FALSE]

\* An uncaught FileNotFoundError ends the worker with a traceback.
FileMissing(p) ==
  /\ Mine(p) \notin queue["running"]
  /\ Die(p)
  /\ UNCHANGED <<queue, complete, driverVars, crashes>>

\* payload = _read_descriptor(descriptor)
ReadPayload(p) ==
  /\ pc[p] = "claimed"
  /\ \/ FileMissing(p)
     \/ /\ Mine(p) \in queue["running"]
        /\ pc' = [pc EXCEPT ![p] = "run"]
        /\ UNCHANGED <<queue, complete, driverVars, todo, held, ok, failures, crashes>>

\* run_task returns True and the task's completion evidence is valid.
RunTaskCompletes(p) ==
  /\ pc[p] = "run"
  /\ complete' = complete \cup {held[p]}
  /\ ok' = [ok EXCEPT ![p] = TRUE]
  /\ pc' = [pc EXCEPT ![p] = "ran"]
  /\ UNCHANGED <<queue, driverVars, todo, held, failures, crashes>>

\* run_task_v2 returns True after it wrote its completion record, without
\* asking is_task_complete, which may refuse the record: the agent changed a
\* protected file, say.  The other paths of run_task do ask.
RunTaskUnverified(p) ==
  /\ pc[p] = "run" /\ held[p] \in V2Tasks
  /\ complete' = complete \ {held[p]}
  /\ ok' = [ok EXCEPT ![p] = TRUE]
  /\ pc' = [pc EXCEPT ![p] = "ran"]
  /\ UNCHANGED <<queue, driverVars, todo, held, failures, crashes>>

\* Mutant: no path of run_task asks is_task_complete.
RunTaskTrusted(p) ==
  /\ pc[p] = "run"
  /\ ok' = [ok EXCEPT ![p] = TRUE]
  /\ pc' = [pc EXCEPT ![p] = "ran"]
  /\ UNCHANGED <<queue, complete, driverVars, todo, held, failures, crashes>>

\* What a run that does not succeed may leave of the evidence of its task:
\* what there was; evidence all the same (a report the agent wrote, an older
\* record that the sources match again, a record that was written just before
\* the end); or none, because it was withdrawn.
LeavesEvidence(p) == complete' \in {complete, complete \cup {held[p]}, complete \ {held[p]}}

\* run_task returns False: an exception, or no completion evidence.
RunTaskFails(p) ==
  /\ pc[p] = "run"
  /\ LeavesEvidence(p)
  /\ ok' = [ok EXCEPT ![p] = FALSE]
  /\ failures' = [failures EXCEPT ![p] = TRUE]
  /\ pc' = [pc EXCEPT ![p] = "ran"]
  /\ UNCHANGED <<queue, driverVars, todo, held, crashes>>

\* finish_descriptor reads the descriptor in running/ ...
FinishRead(p) ==
  /\ pc[p] = "ran"
  /\ \/ FileMissing(p)
     \/ /\ Mine(p) \in queue["running"]
        /\ pc' = [pc EXCEPT ![p] = "read"]
        /\ UNCHANGED <<queue, complete, driverVars, todo, held, ok, failures, crashes>>

\* ... rewrites it in place (a replace, so it exists afterwards) ...
FinishRewrite(p) ==
  /\ pc[p] = "read"
  /\ queue' = [queue EXCEPT !["running"] = @ \cup {Mine(p)}]
  /\ pc' = [pc EXCEPT ![p] = "rewritten"]
  /\ UNCHANGED <<complete, driverVars, todo, held, ok, failures, crashes>>

\* Mutant: every finished descriptor is filed in done/.
FinishAsDone(p) ==
  /\ pc[p] = "rewritten"
  /\ \/ FileMissing(p)
     \/ /\ Mine(p) \in queue["running"]
        /\ queue' = [queue EXCEPT !["running"] = @ \ {Mine(p)}, !["done"] = @ \cup {Mine(p)}]
        /\ held' = [held EXCEPT ![p] = NoTask]
        /\ ok' = [ok EXCEPT ![p] = FALSE]
        /\ pc' = [pc EXCEPT ![p] = "scan"]
        /\ UNCHANGED <<complete, driverVars, todo, failures, crashes>>

\* ... and renames it into done/ or failed/.  The loop's variables, the answer
\* included, are assigned anew in the next round.
FinishRename(p) ==
  /\ pc[p] = "rewritten"
  /\ \/ FileMissing(p)
     \/ /\ Mine(p) \in queue["running"]
        /\ LET d == IF ok[p] THEN "done" ELSE "failed"
           IN queue' = [queue EXCEPT !["running"] = @ \ {Mine(p)},
                                     ![d] = @ \cup {Mine(p)}]
        /\ held' = [held EXCEPT ![p] = NoTask]
        /\ ok' = [ok EXCEPT ![p] = FALSE]
        /\ pc' = [pc EXCEPT ![p] = "scan"]
        /\ UNCHANGED <<complete, driverVars, todo, failures, crashes>>

\* A worker process is killed at any point, or dies of an exception outside
\* run_task.  Its descriptor stays where it is.
WorkerDies(p) ==
  /\ Live(p)
  /\ crashes < MaxCrashes
  /\ Die(p)
  /\ complete' = complete \/ (pc[p] = "run" /\ LeavesEvidence(p))
  /\ crashes' = crashes + 1
  /\ UNCHANGED <<queue, driverVars>>

-----------------------------------------------------------------------------
DriverNext == ClearDir \/ EnqueueTask \/ WaitWorkers \/ PostProcess \/ CountDir

WorkerNext(p) ==
  \/ ScanPending(p)
  \/ \E t \in Tasks : ClaimDescriptor(p, t) \/ LoseRace(p, t)
  \/ NothingLeft(p)
  \/ ReadPayload(p)
  \/ RunTaskCompletes(p) \/ RunTaskUnverified(p) \/ RunTaskFails(p)
  \/ FinishRead(p) \/ FinishRewrite(p) \/ FinishRename(p)

Next ==
  \/ DriverNext \/ DriverDies \/ ResumeRun
  \/ \E t \in Tasks : EvidenceChanges(t)
  \/ \E p \in Procs : LaunchWorker(p) \/ WorkerNext(p) \/ WorkerDies(p)

Spec == Init /\ [][Next]_vars

\* A live process keeps executing and run_task returns (agents and task
\* commands run under deadlines); nothing obliges anybody to resume a run.
Fairness ==
  /\ WF_vars(DriverNext)
  /\ \A p \in Procs : WF_vars(LaunchWorker(p)) /\ WF_vars(WorkerNext(p))

FairSpec == Spec /\ Fairness

-----------------------------------------------------------------------------
(* Properties                                                              *)

\* Every variable has its type, in every reachable state of a run.
TypeOK ==
  /\ queue \in [Dirs -> SUBSET Descriptors]
  /\ complete \in SUBSET Tasks
  /\ drive \in 1 .. MaxDrives
  /\ alive \in BOOLEAN /\ bad \in BOOLEAN
  /\ phase \in Phases
  /\ cursor \in Nat
  /\ pc \in [Procs -> PcValues]
  /\ todo \in [Procs -> SUBSET Tasks]
  /\ held \in [Procs -> Tasks \cup {NoTask}]
  /\ ok \in [Procs -> BOOLEAN]
  /\ failures \in [Procs -> BOOLEAN]
  /\ crashes \in Nat

Built == phase \in {"working", "gate", "count", "returned"}

\* Once a drive has built its queue, every task has exactly one descriptor
\* file, whatever workers rename, rewrite or leave behind when they die.
OneDescriptor ==
  Built =>
    \A t \in Tasks :
      \E d \in Dirs, o \in Owners :
        /\ <<o, t>> \in queue[d]
        /\ \A e \in Dirs, q \in Owners :
             <<q, t>> \in queue[e] => e = d /\ q = o

\* No two live worker processes, of one drive or of two, are between the
\* claim and the filing of the same task (they would share its workspace).
ExclusiveExecution ==
  \A p, q \in Procs :
    /\ pc[p] \in HoldingPc /\ pc[q] \in HoldingPc
    /\ held[p] = held[q]
    => p = q

\* The claim loop's snapshot is stale as soon as it is taken; still a worker
\* of this drive that ends its loop leaves no task pending.
NoTaskLeftPending ==
  \A p \in Crew : pc[p] = "exited" => queue["pending"] = {}

\* A drive reports success (exit status 0) only when the descriptor of every
\* task is filed in done/ and, where the runner checks it, the task has
\* completion evidence: even if workers died holding a descriptor.
Finished(t) == t \in TasksIn("done") /\ t \in complete \cup V2Tasks

SuccessMeansComplete ==
  [][(phase' = "returned" /\ phase # "returned" /\ ~bad') => \A t \in Tasks : Finished(t)']_vars

\* A completed task is never claimed again, in this drive or a resumed one.
NoRework ==
  [][\A p \in Procs : pc'[p] = "claimed" /\ pc[p] = "try" => held'[p] \notin complete]_vars

\* A drive that launches its workers ends, unless the driver itself dies.
DriveEnds == (alive /\ phase = "working") ~> (phase = "returned" \/ ~alive)

\* The ledger this queue implements: a task's line is the place of its
\* descriptor, and there is no ledger while the queue is being rebuilt.
Line(t) ==
  CASE ~Built -> "absent"
    [] Built /\ t \in TasksIn("pending") -> "waiting"
    [] Built /\ t \in TasksIn("running") -> "taken"
    [] Built /\ t \in TasksIn("done") -> "finished"
    [] OTHER -> "failed"

Told ==
  IF phase = "returned" THEN IF bad THEN "failure" ELSE "success"
  ELSE IF ~alive /\ QuietWorkers THEN "abandoned" ELSE "open"

Ledger == INSTANCE RunLedger WITH
  Trusted <- V2Tasks,
  status <- [t \in Tasks |-> Line(t)], evidence <- complete, verdict <- Told

\* Every run of the queue, crashes and resumes included, is a run of the
\* ledger: tasks move forward only, once, success is never premature, and while
\* a drive is at work evidence changes only at the hands of the task's taker.
ImplementsLedger == Ledger!Spec

-----------------------------------------------------------------------------
\* Who has a task, from the claim until its descriptor is filed, and what
\* run_task answered, from then on until the answer is filed.
Holders(t) == {p \in Procs : pc[p] \in HoldingPc /\ held[p] = t}
Answered == {"ran", "read", "rewritten"}

Answer(t) ==
  IF \E p \in Holders(t) : pc[p] \in Answered
  THEN IF \E p \in Holders(t) : pc[p] \in Answered /\ ok[p] THEN "true" ELSE "false"
  ELSE "nothing"

Contract(t) == INSTANCE TaskContract WITH
  Runners <- Procs, runners <- Holders(t), told <- Answer(t),
  complete <- t \in complete, damaged <- t \in V2Tasks

\* The queue drives each task as a run of it may expect, and expects no more
\* of the run than it gets: one run at a time, none of a completed task, in
\* this drive or a resumed one, and the answer filed before anything changes.
ImplementsContract ==
  /\ \A t \in Tasks : Contract(t)!Init
  /\ [][\A t \in Tasks : Contract(t)!Step]_vars

=============================================================================
