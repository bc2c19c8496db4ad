# TLA+ verification of AgentKernelArena

AgentKernelArena runs coding agents on GPU-kernel tasks, evaluates what they
deliver and scores it.  Its correctness is not in arithmetic but in *evidence*:
a task is finished when files on disk say so, runs are killed and resumed on the
same directory, agents edit the workspace that is about to be measured, and
worker processes share nothing but a directory tree.  This project models those
parts in TLA+, checks them with TLC on small instances and proves the main
results for every value of the constants with TLAPS.

Paths below are relative to the repository; `main.py` is at its root and the
framework package is `src/`.

## 1. Inventory

| Component | Code | State it keeps | Operations | Hard behaviour |
|---|---|---|---|---|
| Parallel queue, driver | `main.py` 690-960, `src/scripts/docker_benchmark.sh` `run_parallel` | four directories of descriptor files | rebuild, claim (rename), finish (read, rewrite, rename), wait, count | claim races on a stale snapshot, deaths between two file operations, resumes over live workers |
| Serial run | `main.py` `run_serial` | none | filter completed, loop | a subset of the above |
| Task run (schema 2) | `src/task_run.py` | `completion.json`, `task_result.yaml`, exports | materialize, session, validate, agent, evaluate, export, complete | kill between any two writes, replay on resume, candidate changing between measurements |
| Materialization | `src/task_materialization.py` | record with status and digests | acquire, set up, seal, resume | half-made workspaces |
| Task session | `src/task_session.py`, `src/task_runtime.py`, `src/task_execution.py` | baseline copy, action records, initial verdict, contexts | create, load, validate_initial, candidate_action | partial directories, truncated JSON, results kept after a failed post-check |
| Task protocol | `src/task_protocol.py`, `src/task_spec.py` | none (pure) | parse, merge, manifest comparison, diagnostic policy | boundary cases of the declared exception |
| Evaluator, scoring | `src/evaluator.py`, `src/score.py`, `src/postprocessing.py` | reports | compile, correctness, tools, performance | order and early returns |
| Evaluation tools | `src/eval_tools/*` | a sequential sidecar per tool with the processes of its commands, artifact directories | probe, assess, execute, contain, parse, policy | two sides with deadlines of their own, stalled or dead sidecars, `/proc` read while processes fork and exit, fail-closed policy |
| Validator reports | `agents/task_validator/*` | report and completion marker | finalize, query | kill between marker and report, repeated finalization |
| Quality loop | `agents/quality_loop/*` | `state.yaml` per campaign, git worktree and index | validate, repair, optimize, enhance, commit, publish | kill between commit and transition, stale terminal evidence |
| SIKL task builder | `agents/sikl_task_builder/*` | `state.json` per campaign, drafts, evidence; an output directory all campaigns share | run, resume, emit, generate, check, validate, install | draft read at five moments while others may write to it, two campaigns installing one task, kills between rename and record, budgets over resumes |
| Held-out evaluation | `src/held_out/*` | generated cases | re-evaluate | sequential |
| Agents and adapters | `agents/{geak,forge,codex,claude_code,cursor,...}` | their own | edit the candidate | whatever a subprocess can do to a workspace |
| Slurm, visualization, benchmark tasks | `src/scripts/slurm_benchmark.sh`, `src/visualization`, `tasks` | - | launch, render, data | - |

How they interact: the driver starts one `main.py --parallel-worker` per GPU;
each claims a descriptor and calls `run_task`, which for a schema-2 task calls
`run_task_v2`; that materializes the workspace, creates or loads a
`TaskSession`, launches the agent in it, evaluates through the session and
writes completion evidence.  `is_task_complete` reads this evidence when the
queue is rebuilt by a resumed run.  All this passes through files, exit codes and
process death.  Only the evaluation tools exchange messages: before the timing,
the evaluator asks one sidecar after the other, over a Unix socket, to run a
sanitizer's command on the same GPU.

What makes them correct:

* queue: no task lost, duplicated, run by two workers or run again once
  complete; exit status 0 only if all is finished; a drive ends;
* task run: the baseline is the shipped code; a saved verdict is what the saved
  commands say; an agent runs only after accepted initial checks; a task that
  counts as complete was compiled, checked and timed in the very version on disk;
  what leaves a directory that every later run refuses is known, and nothing else does;
* protocol: a failing result is never relabelled; the declared exception covers
  only a numerical mismatch of the baseline;
* reports: a report counts only with its own marker; a recorded backend failure
  survives another finalization;
* quality loop: a terminal task is not touched again while its evidence is
  current; what is published was committed and validated;
* task builder: what is installed is exactly what was validated and what the contract
  allows; a record "installed" is true; a resume buys no further attempts; every task
  gets its verdict;
* tools: a required gate opens only on complete, clean, untruncated evidence of
  this very evaluation; no process of a tool's command that the cleanup can find is
  alive while another one runs or performance is measured; a sidecar that is alive
  answers in time.

## 2. Plan

1. `RunLedger`, `ParallelQueue` - done; safety proved, and that every step of the
   queue is a step of the ledger or a stutter.
2. `TaskRun` - done, all its invariants proved, and that it implements `TaskEvidence`.
3. `ValidatorRun`, the validator branch of `run_task_v2` with the finalization of
   reports - done, proved.
4. Task protocol as pure operators against a reference definition.
5. `QualityLoop` with host publication - done, its safety proved, and that it implements
   `AuditBranch`.
6. `ToolContainment` (the processes of a sidecar) and `EvalTools` (the timed exchange
   and the tool policy) - done, their safety proved, and that both sides of the exchange
   implement one `ToolSidecar`.
7. `TaskBuilder` - done, its safety proved, and that it implements `TaskShelf`.
8. `TaskContract`, what driver and run of a task promise each other - done: the queue, a
   schema-2 run and a validator run are proved to keep their sides of it.
9. The serial driver, and one module with driver and run on one run directory.

## 3. Modules

| Module | Models |
|---|---|
| `RunLedger` | the abstract promise of a parallel run: one line per task, taken once, settled once, its evidence touched by its taker only while a drive is at work, success only over finished tasks |
| `TaskContract` | one task between whoever drives it and whoever runs it: when a run may start, what its answer means, who may touch the evidence |
| `ParallelQueue` | the queue directories, the driver and the worker processes; implements `RunLedger` |
| `MCParallelQueue` | symmetry for TLC |
| `ParallelQueueProofs` | TLAPS proofs about `ParallelQueue` |
| `ParallelQueueRefinement` | TLAPS proofs that `ParallelQueue` implements `RunLedger` and keeps `TaskContract` |
| `TaskRun` | one schema-2 task over several, possibly killed, runs |
| `TaskEvidence` | the abstract promise of a task's directory: one baseline, one initial verdict, a certificate only for a version that was compiled, found correct and timed |
| `MCTaskRun` | instance for TLC |
| `TaskRunProofs` | TLAPS proofs about `TaskRun` |
| `ValidatorRun` | one validator task over several runs: initial checks, reviewing backend, three nested callers of the finalization |
| `MCValidatorRun` | instance for TLC |
| `ValidatorRunProofs` | TLAPS proofs about `ValidatorRun` |
| `QualityLoop` | an audit campaign: orchestrator, manifest, worktree, git index and branch, and the publishing host |
| `AuditBranch` | the abstract promise of a campaign: what its branch holds, what its manifest says of it, and when it may be published |
| `MCQualityLoop` | instances for TLC: versions, packages and what they may be turned into |
| `QualityLoopProofs` | TLAPS proofs about `QualityLoop` |
| `ToolContainment` | one sidecar: its worker, which is PID 1, and the processes of a command, found by reading `/proc` |
| `ToolSidecar` | the abstract promise of a sidecar to the evaluation: a process of a command exists only until the command is contained, and the reply owns up to what was left, unless the worker was `blind` to a process of it |
| `ToolContainmentProofs` | TLAPS proofs about `ToolContainment` |
| `EvalTools` | manager, client, policy gate and one sidecar per tool, with their deadlines |
| `MCEvalTools` | the timeouts of two tools for TLC |
| `EvalToolsProofs` | TLAPS proofs about `EvalTools` |
| `TaskBuilder` | campaigns of the SIKL task builder: attempts, validation evidence, installation, kills and resumes |
| `TaskShelf` | the abstract promise of the task builder: places filled once, with accepted content, and registers with one verdict per task |
| `MCTaskBuilder` | campaigns of one bundle for TLC |
| `TaskBuilderProofs` | TLAPS proofs about `TaskBuilder` |

### ParallelQueue

`queue[d]` is the set of `<<owner, task>>` descriptors in directory `d`; the owner is
the `worker_<id>__` prefix of the file name.  A *drive* is one execution of
`run_parallel`; a process is `<<drive, worker>>`, and the next drive uses the worker IDs
again, so file names of two drives may collide.  Every file operation is an action of
its own: the four clearing loops (`ClearDir`), one descriptor write per task
(`EnqueueTask`), the glob (`ScanPending`), the rename (`ClaimDescriptor`, `LoseRace`),
and `finish_descriptor` in three (`FinishRead`, `FinishRewrite`, `FinishRename`), each
of which may meet a missing file and end the worker with a traceback (`FileMissing`).
`run_task` is its answer and its effect on completion evidence: `RunTaskCompletes`,
`RunTaskFails`, and `RunTaskUnverified` for the schema-2 path that answers True without
asking `is_task_complete` (the tasks in `V2Tasks`).  A failing run may also leave
evidence (a report written before the exception, an older record that matches again) or
withdraw it (a marker unlinked first), and so may one that is killed (`LeavesEvidence`).
`DriverDies` and `WorkerDies` happen anywhere; a process that dies takes its local
variables with it (`Die`), so that a dead worker holds nothing.  Between drives, with
nobody at work, evidence may stop matching the sources or match them again
(`EvidenceChanges`).
`OrphanWorkers` says whether a resume may start while workers of a killed driver still
run; the code does not prevent it.

### The contract between driver and run

`run_task` is an atomic answer in `ParallelQueue`, and hundreds of lines of file writes
in `TaskRun` and `ValidatorRun`.  `TaskContract` is what lets one stand for the other:
its four variables are who has a task (`runners`), the answer given (`told`), whether
there is completion evidence (`complete`) and what may be wrong with it (`damaged`, a parameter).
The driver's promises are in `Start`, `File` and `Change`: a run is started only of a
task without evidence and of nobody else, an answer is filed by whoever got it, and evidence changes by
other hands only while nobody has the task.  The run's promise is in `Work` and
`Answer`: it answers once, and True only over evidence, `damaged` aside.
`ImplementsContract` of `ParallelQueue` maps the live worker that holds a task
(`Holders`) and its answer (`Answer`) to it, with `damaged` for the schema-2 tasks;
`ImplementsContract` of `TaskRun` maps the run at work, with `damaged` for a changed
protected file or baseline copy and for a session that was never fit to be loaded again
(`~Covered`); in `ValidatorRun` nothing is ever damaged.  Every step of the one
task is a step of both sides: the queue never relies on more than the runs are
proved to keep, and (`QueueTakesAnswers`) accepts whatever they may answer.  The
evidence that a run writes and withdraws before it answers (`Work`) is not in the
queue's model, where only a resume looks at it, and (`~OrphanWorkers`) no resume starts while a
worker lives.  A run that is killed after its last write and before it returns is, in `TaskRun`
and `ValidatorRun`, one that answered and was not heard.

### TaskRun

The variables up to `completion` are files, those from `results` to `before` are
memory of the running process, which `Forget` drops when it ends.  `sess` counts
the files of a session directory in the order `TaskSession.create` writes them
(6: complete, 7: runtime bound); `torn` says that a file a resume parses was cut
short.  Candidate sources are a version, a command is the outcome of the report it
prints, `saved` is what a replay of the action records yields.  Every write is a
separate action, so `Crash` falls between any two.  Commands, tools, exporters and
the agent may edit whatever the code does not stop them from editing: the version, the
protected files (`intact`), the baseline copy (`frozen`), and the places of the declared
paths, which may be removed or made links out of the workspace (`placed`, what
`_validate_paths` tests on a resume).

The outcome "uncovered" is a `validate-task` that passes and lists no case with a
performance check.  Its record is written as PASS, `validate_initial` then rejects the
task, and `TaskSession.load` replays the record through the same test with nothing to
catch it (`src/task_session.py:173-174`, `src/task_protocol.py:177`): `Covered` is part
of `Loads`.  `Spoiled` names all the ways in which a task is lost without a kill.
`RunRaises` is any exception up to `run_task`, also those of set-up and of session
creation, which leave the files written so far.  That the framework fails to write its
own records (a full disk) is left out.

### ValidatorRun

A report keeps its request, whether a framework error was captured, whether its
overall status is other than FAIL (`pass`), and whether it was edited; its digest is
the report itself, so `Complete` is "the marker equals the report".  Request IDs are
run numbers, and 0 stands for an ID the finalization makes up because nobody passed
one.  `call` is the `finalize_report` being executed and `call.by` its caller: the
launcher after the backend ended, the launcher's own exception handler
("operational"), the session after its recheck, or the handler of `run_task`
("main").  Each finalization is three writes (`UnlinkMarker`, `WriteReport`,
`WriteMarker`), any of which may raise (`FinalizeRaises`) into the next caller, and a
kill falls between any two.  The backend may write drafts, a report of its own
or protected files.  The initial checks appear as far as the trusted
evidence depends on them: one record per check, accepted or not, kept over resumes.
`broken` is a session that does not load any more: a file cut short by a kill, or a task
check that passed without a performance case, as in `TaskRun`.
`earned` and `failed` are histories of what really happened to each request; no
action reads them.

### QualityLoop

A package is a function from `Paths` to `Versions`; `tree`, `index` and `head` are
what the worktree, git's index and the last commit hold of each task, `record` and
`status` are `state.yaml`.  One process works at a time, at program point `pc`: the
orchestrator visits the tasks in order (`SkipTask`, `DeferTask`, `BeginTask`,
the stages of `_process_task`, `TaskRaises` for what `run` files as
`infrastructure_failed`), and the host verifies, commits and publishes.  Agents
propose any package and validations return any verdict; `validated` is the history
of what passed and no action reads it.  Changes are applied path by path
(`ApplyPath`); `git add` and `git commit` are separate steps, and a commit
takes the whole index as git does.  `Kill` falls between any two steps, `OutsideEdit`
changes a package or spoils the evidence of a record between runs.  Git takes no file
that `.gitignore` matches and no commit has: `Ignored` holds such paths, and `Seen` is what
`git add` stages of a package (`github.py:142`) and what `git ls-files
--exclude-standard` (`:165`) lets the host see pending, while fingerprints, validations and
the lists of accepted changes are of all files.  The repair agent works in the directory
where the initial validation left its report and marker, whose digests are taken
already; changes of theirs are filtered from what it changed (`filesystem.py:20-26`).
`Repair` may therefore put its task into `spoilt`, and what the task ends as has no
current evidence (`orchestrator.py:902-905`).  `Proposals` bounds what a task's package may
be turned into.  `deferred` is
`--defer-github`, the mode of the Docker launcher, and `foreign` holds the tasks of
another platform; both are chosen once, in `Init`.  Files that `is_generated_path`
filters and performance stubs are left out (it is a list of its own, and covers few of the
rules of `.gitignore`); nothing but audited packages is in a campaign's worktree.  A path
that the rules match is taken to be new: one that is committed is tracked, and git takes
its changes as those of any file.  That one audit removes such a file from the branch and
a later one brings it back is left out.

### ToolContainment

`state`, `parent` and `group` are the kernel's view of the PIDs: an exit leaves a
zombie and hands the children to the worker, which is their subreaper, and a PID is
free, and may be used again, once its zombie is waited for.  The worker reads
`/proc` as the code does: the listing is one step (`ListProc`), each entry another
(`ReadStat`), and the processes go on in between, so that `table` is a mixture of
moments.  An entry that does not decode is passed over like one that is gone: the name
of a process is bytes of its own choice, and `execution.py:151` reads them as UTF-8 under
`except ... ValueError` (`:159`).  `garbled` holds the processes with such a name, which a
process of a command may take and give up (`Rename`, bounded by `Garbling`) and its
children inherit.  `missed` says that a reading came across a garbled process of a command
and that processes of commands have been there ever since; no action reads it.
`Descendants` is the closure over that table, which is forgotten after use.  `why` says
what the table is for: the baseline (`Capture`), the first look of `cleanup`, or the two
looks of each round of `_signal_until_gone`.  Signals are not state: a process may exit at any time,
signalled or not, which covers those that ignore SIGTERM and those slow to die.
`mine` is a history of which process belongs to the command.  A start time
tells a PID's users apart in the code: an identity that the baseline has is not given out
again (`Available`), while any other free PID may be, also one an entry of `table`
still names.  Assumed: what a positive control left at start-up (`Init`) neither forks nor
changes its name any more, and no signal is refused (the worker and its
commands run as one user).  Group and leader are forgotten where the code does not look at
them again.  Where `_group_alive` would answer differently between
two polls, the model takes the waiting loop as one choice (`GroupTerminated`).

### EvalTools

The scoring process is at `pc`, each sidecar in a `phase`.  A request is a
connection in the sidecar's `queue`; its flag `open` is whether the client still
listens, which is what the code's connection and request ID per call amount to.
Time is a countdown: `deadline` of the client's call and `timer` of each phase, which
`Tick` lowers together and never past zero.  The phases bound what `execute_command`
does after the command's own timeout: the group is given `2 * (Term + Kill)` (wait for
the leader, then for the group, for each signal), a leader that is still there as much
again, the containment `Term + Kill`, and the two drains `Stall`.  The sidecar gets
the default graces because the client's requests name none.  The steps between
two waits take no time; the real ones must fit in the 15 seconds between 75 and 90.
Tools come in any order, which includes the plan's.  What an assessment concludes, what
a command prints, and whether its logs are whole are choices.  `Dies` is the worker's
`os._exit(70)` after a failed containment or any other end of the container, at any
moment; nothing restarts it (`docker_benchmark.sh` starts sidecars once per worker and
stops them when the worker ends).  One scoring process uses a sidecar, because the
launcher starts the sidecars for the worker it wraps.  `proven` is a history.
This model takes containment for granted: its sidecars are those of `ToolSidecar` that are
never `blind`, so `QuietGPU` speaks of processes the cleanup can find.  Exceptions of
the manager itself, which `evaluate_v2_task` turns into a failed report
(`src/evaluator.py:507`), are left out.

### TaskBuilder

A campaign is a run of the orchestrator with all its resumes, so that it has one
process at most: `run` takes the run's `.lock` without waiting and fails otherwise.
`pc` and `at` are where that process is, `rec` its `state["tasks"]`, `disk` what
`state.json` holds of it.  The files of a task are a member of `Contents` and stand for their
digest; `Partial` is a directory with some of them.  Of the recorded states,
"discovered" to "validating" are `open` (no code tells them apart after a resume), and
`needs_spec` and `platform_deferred` end a task as `failed` does.  What
`validate_task` does is three steps, because the draft is read in each: `ReadDigest`,
`CopyTaskFiles`, and `ValidatorReturns` with the verdict of the formal validation as a
choice and the digest compared again.  `install_task` is one action per test, copy and
rename; the two campaigns meet only there.  `SourceChanged` is `verify_sources`, a
campaign in `tampered` one whose snapshot, saved config or builder differs from what its
state names: a resume refuses it (`Start`).

The generator may leave anything as the draft (`GeneratorEdits`).  After it has
returned the draft should be at rest, but a descendant that left the process group
escapes the `killpg` of `run_process`, and the validator may write where it
likes: `StrayWrite`, one per attempt.  Deadlines pass at any time
(`TimePasses`), also while a campaign is down.  `Kill` takes a container with all its
processes; `Interrupt` is Ctrl-C, which runs the `finally` clauses.  A kill
before the first `state.json` leaves nothing to resume and is left out.
The
temporary directory that a kill leaves behind is never looked at again and is left out.
`accepted`, `published` and `calls` are histories.

## 4. Runs

| Run | Shows |
|---|---|
| `queue` | 2 workers, 2 tasks, 2 drives, 2 deaths, fair: type, one descriptor per task, no task left pending by a worker that ends, success only when finished, every drive ends, refinement of the ledger, the contract of every task (exclusive execution, no rework) |
| `queue_orphans` | drives that overlap, one death: exclusive execution is **violated** (finding) |
| `task_run` | 2 versions, 2 runs, 1 kill: type and four invariants of a task (what makes it unusable is named), refinement of the evidence, the contract with its driver (True disagrees with a resume only after tampering or over an uncovered task check) |
| `task_context` | an agent launched without its context file: **violated** (finding) |
| `task_true` | a run that answers True on evidence the query refuses: **violated** (finding) |
| `validator` | 2 checks, 3 runs, 2 kills: a passing complete report was earned by its own request, a run that lives concludes, True means rechecked, the contract with its driver (True never disagrees with a resume) |
| `validator_resume` | 2 runs, 1 kill: an accepted session whose evidence the finalizer refuses: **violated** (finding) |
| `quality` | 2 tasks of 2 files, one of which git ignores, 3 versions, 2 executions, 1 kill, 1 outside touch, both publication modes, tasks of another platform: finished stays finished, only named faults block, published is clean but for ignored files, refinement of the branch (committed is what git takes of something validated, the host publishes only what is settled) |
| `quality_stuck` | 1 task of 2 files that git takes, 1 kill: a campaign that awaits publication can be published is **violated** (finding) |
| `containment` | 3 PIDs, one of them possibly under a name that does not decode, any number of requests, fair: a reply means the command's processes are gone or a reading came across such a name, the cleanup acts on no other process, every request ends, refinement of the sidecar (what the command left running is reported) |
| `eval_tools` | 2 tools, 2 evaluations, the code's deadlines in units of 5 seconds, both policies, fair: a quiet GPU, an honest gate, no busy sidecar called unavailable, evaluations end, each sidecar refines the sidecar of `containment` |
| `task_builder` | 2 campaigns, 1 task, a repair for one of them, 1 kill, 1 outside edit, fair: budgets survive resumes, the destination is free at every rename, every task gets a verdict, refinement of the shelf (published is accepted, records are true, tampered sources install nothing) |

Eight invariants of earlier versions of these runs follow from a refinement that the run
checks instead: `ExclusiveExecution` and `NoRework` from `ImplementsContract` (its `Start`
wants a task that nobody has and that has no evidence), `BaselineIsOriginal` from `ImplementsEvidence`, `CommittedIsValidated`
from `ImplementsBranch`, `LeftoverIsReported` from `ImplementsSidecar`, and
`PublishedIsAccepted`, `RecordIsTrue` and `TamperedInstallsNothing` from
`ImplementsShelf`.  The modules still state them and the theorems still prove them; the
mutants that broke them break the refinements.  The largest runs are `quality` with 4.0 and `validator` with 3.7 million distinct states;
`task_run` has 1.65 million, `containment`, where a temporal property is checked on top,
490 thousand and `queue`, where another is, 200 thousand.

Bounds.  Two tasks and two workers give every race on a claim (a worker whose
snapshot is stale in the first, the second or both names); two drives give every
leftover a resume can meet, two deaths let driver and worker die in one history.
In
`TaskRun` one kill and one resume give every truncated or partial file, and two
versions tell "what was measured" from "what is there".  In
`ValidatorRun` two checks let a kill leave none, one or both recorded (the code has
four or seven, by the same loop), and three runs with two kills let a draft and a
report of a killed attempt meet a second and a third one.
In `QualityLoop` three versions tell the original, what was accepted and what
somebody made of it later apart, two tasks allow a
commit of one that takes what was staged for the other, and two executions
are a killed one and its resume, each followed by any attempts to publish.  `Proposals`
(`Rewrites`) keeps this small: the first task's file may be rewritten in two ways, to the
second task a change comes with a file that git ignores, so that applying it takes two
steps, which a kill may part.  Larger packages, other proposals and other rules are left
to the theorems; `quality_stuck` takes any contents of one package (`AllContents`).
In `ToolContainment` three PIDs are a command, its child and a grandchild or a
process of start-up; a PID is used again within a request and by the next one.  One PID
in `Garbling` is enough for a command, its child or a leftover of start-up that cannot be
decoded, with processes beside it that can.
In `EvalTools` two tools let one be abandoned while the other runs, and two evaluations
let a late reply and a stale result of the first meet the second; a unit of five
seconds divides every default (10, 5, 30 and 90), and the 34 seconds of the drains are
rounded up to 35.  Longer timeouts add ticks and no orders of events, for the
client's deadline grows with the command's.
In `TaskBuilder` one task lets two campaigns race for its destination, the repair of
one lets it go through the loop again after a failed attempt while the other
gives up, and the kill lets each resume in every recorded state.  Two contents tell what was
emitted and accepted from what somebody made of it.  The theorems are for any number.
`MaxDrives`, `MaxCrashes`, `MaxRuns`, `MaxKills`, `MaxEdits`, `MaxEvals`, `Touchable`,
`Proposals`, `Garbling` and the one stray write of an attempt are the only bounds in guards.

Deadlock checking is off because a run really ends: the drives, runs and
evaluations are bounded, a returned drive need not be resumed, and a sidecar that
ended is not started again.

Fairness (`FairSpec`): weak fairness of the driver's steps, of launching each
worker and of each worker's steps.  Agents and task commands run under deadlines
(`_run_process` kills a process group at its timeout), so `run_task` returns.
Nothing is assumed of deaths, resumes or changes of evidence.
In `ToolContainment` the worker keeps working (weak fairness of `WorkerNext`), and
`GiveUp` is strongly fair: it is enabled whenever a look still finds targets, and after
the grace period the code takes it at the first such look, so that looking again
for ever is no behaviour of it.  Nothing is assumed of the command: it may never exit.
In `EvalTools` the scoring process and each sidecar take their next step, and time
passes (`WF_vars(Tick)`), which the deadlines turn into an end of every wait.

In `TaskBuilder` a started campaign goes on, for generators and validators run under the
deadline of `run_process`, and somebody resumes a campaign that is down; nothing is
assumed of generators, writes, kills or time.

## 5. Findings

1. `queue_orphans`: a resume clears `running/` without looking for workers of the
   killed drive (`main.py:725`); a worker that is still running a task and one of
   the new drive then share its workspace, although
   `docs/how-to/parallel-run.md:64-66` says that descriptors prevent duplicate
   claims.
2. `task_context`: `validate_initial` writes the accepted report before the agent
   context (`src/task_session.py:300-303`); after a kill in between, the resumed
   run launches the agent with `ARENA_TASK_CONTEXT` naming a file that is not there.
3. `task_true`: `run_task_v2` answers True although `task_run_is_complete` refuses
   its own record; the queue files the task as done, and a resume runs it again, or
   refuses it.  There are two ways to it.  A protected file or the baseline copy is damaged
   during the evaluation.  Or `validate-task` passes without a performance case: the
   record says PASS, `validate_initial` rejects the task, the run answers True over a
   rejected session, and every `TaskSession.load` from then on raises
   (`src/task_session.py:173-174`, `src/task_protocol.py:177`).
4. `validator_resume`: `validation_context` hands the finalizer every
   `task_validation` record of the session directory (`src/task_session.py:313-316`),
   also those of a killed attempt whose checks the resume has repeated;
   `evaluate_task_evidence` calls them "missing, duplicated or out of lifecycle
   order" (`agents/task_validator/trusted_evidence.py:135`), so a task whose checks
   were all accepted gets a FAIL report.  The session itself is built to resume there:
   "even when recovering a partially executed session" (`src/task_session.py:239-240`).
5. `quality_stuck`: `finalize` commits a task before it saves that it did
   (`host.py:152-157`).  A retry then expects committed paths to be pending and is
   refused ("missing="), a resume skips the finished task, although `state.py:47` calls
   the manifest crash-safe.  The same property fails in another window:
   `_process_task` applies accepted changes to the worktree (`orchestrator.py:469`)
   before it records them (`:478`).  A run killed in between leaves them behind, the
   resumed audit copies the changed package as its original, no record ever names
   them, and the host refuses the campaign ("unexpected=").  Where the orchestrator
   publishes itself, such a campaign completes without the changes, which is
   why `PublishedIsClean` speaks of deferred commits.  Nothing unvalidated is committed
   either way.

Noticed while modelling, and not checked by a run of its own:

* `_group_alive` (`kill` of a group) and `_targets` count zombies.  A command whose leader
  exits without waiting for a child that has already exited gets `cleanup_required`, and
  the client withholds its exit status (`runtime_client.py:604-607`), although the
  repository's test says "A reparented zombie is already dead for our leak check."
  (`tests/eval_tools/test_execution.py:53`).  It errs on the safe side:
  `LeftoverIsReported` holds because of it.
* A process whose name is not UTF-8 is invisible to the cleanup, with all it started
  (`src/eval_tools/execution.py:151,159`): once it has left the group it outlives the reply,
  which calls the command clean, and may still run when the next tool or the timing does.
  `AnsweredMeansGone` and `LeftoverIsReported` except exactly this (`missed`).
* A file that `.gitignore` matches and an audit added is accepted and listed, but never
  pending: the host refuses the campaign for ever ("missing=", `github.py:165`).  Where the
  orchestrator commits, the branch gets the package without that file, in a form that
  was never validated as a whole.  `OnlyFaultsBlock` excepts it (`Untakable`), and
  `CommittedIsValidated` speaks of what git takes of what passed.
* A repair agent that writes to the report or the marker of the validation it was given
  leaves a record whose evidence is not current (`orchestrator.py:541-546`, `:902-905`): the
  host refuses the campaign ("stale or missing"), and the next resume audits the task
  again.  Where the repair had been applied, that audit takes the repaired package for its
  original, lists no changes, and the host finds paths that no record names ("unexpected=").
* The temporary `.sikl-install-*` directory of `install_task` lies in the output
  directory (`orchestrator.py:60`), and only a `finally` clause removes it.  After a kill
  during the copy it stays with some of the files, `config.yaml` first, which task
  discovery (`src/tasks.py:38`) registers as a task, although "Only accepted tasks
  reach the output directory" (`docs/how-to/sikl-task-builder.md:6`).
* `materialize_task` makes the draft's directory and then writes its files.  After a kill
  in between, the resume finds that the draft exists (`orchestrator.py:147`) and hands the
  part to a generator that is told "The controller has extracted the source bundle and
  emitted a runnable task" (`backend.py:22`) and may not write the missing files; the
  task uses up its attempts and fails.
* Before the copy a destination with the accepted content counts as installed
  (`orchestrator.py:57`), under the lock any destination is a conflict (`:73`).  Of two
  campaigns that accept the same content one may record "failed" for good, although
  `tests/test_sikl_task_builder.py:256` lets accepted content be installed again.

## 6. Proofs

`ParallelQueueProofs` proves `TypeCorrect` without further assumption, and two layers of
safety.  The first supposes `~OrphanWorkers`: `OneDescriptor`, `ExclusiveExecution`,
`NoRework` and `SuccessMeansComplete`.  Its inductive invariant `Inv` adds to them what
relates processes to files: a process that holds a task and its descriptor in `running/`
correspond one to one among the live processes of the current drive, processes of
earlier drives have ended, and while the queue is being built the directories hold
exactly the descriptors written so far.  Without the supposition TLC refutes each of the
four: an orphan keeps the task that a resume queues again (the finding `queue_orphans`),
may complete it while the new descriptor is pending, and may withdraw the evidence of a
task that a worker of the resume has filed as done.

The second layer supposes nothing about orphans.  `NoTaskLeftPending`,
`SuccessMeansFiled` (exit status 0 only when every task is in `done/`), `NoTaskIsLost`
(a built queue has a descriptor of every task in some directory) and `CrewExclusive`
(two workers of one drive never hold the same task while it lasts) hold although workers
of a killed drive rename files of the queue that was built over them, under the same
worker names.  `RaceInv` carries this: the snapshot of a crew member covers what is
still pending (`SnapshotInv`), what it holds is not pending any more (`AloneInv`),
descriptors are moved and copied but never lost (`ListedInv`), and the driver counts in
the direction in which descriptors move, so that what it found empty can only be filled
by what it will see filed elsewhere (`CountedInv`). `WorkersLoseNothing` is the one
lemma about renames they rest on.

`ParallelQueueRefinement` proves, under `~OrphanWorkers` (a line is taken once), that the
queue implements the ledger (`QueueImplementsLedger`).  A built queue has each task's descriptor in one
directory, so that directory is the task's line (`LinesOf`), and a rename of one
descriptor changes one line (`LineMoves`); a claim maps to `Take`, what `run_task` does to the evidence to
`Evaluate`, the final rename to `Settle`, a change between drives to `Change`, the last descriptor written to the opening of the ledger, for which `OpenInv`
is needed: while the queue is built only tasks with evidence are filed in `done/`.
A drive whose driver died tells "abandoned" as soon as its last worker has ended; until
then, its workers go on taking and settling lines.  Steps the ledger does not see leave
queue and phase alone (`LineKept`).

The module also proves `QueueKeepsContract`, under the same supposition.  `Sole`, which
follows from `Inv`, says that a task has at most one holder and that its answer is
this worker's; `ContractKept` and `OthersKeep` say that a step that leaves the holder of
a task, its answer and its evidence alone is none of the task's business, which covers
every step of the other workers.  That no claim is of a completed task is `FreshPending`:
while somebody may claim, what is pending has no evidence.  It survives a failing or a
killed run of some other task because what a run leaves concerns its own task only (`RunKeeps`).

`TaskRunProofs` proves every property the run `task_run` checks, for any number of
versions, runs and kills.  Its strengthenings are `BaseInv` (the
baseline copy is absent or the original, and the tree is the original while it is
taken), `VerdictInv` (a process that trusts a verdict has the saved one, and
each accepted verdict, in memory or on disk, is justified by the saved results of the
initial checks), `MeasureInv` (all measurements of an evaluation were made on the
version it identified at its start, and what is accepted covers the version on disk)
and `ResumeInv` (where no run was killed and set-up did not fail, each
program point finds files that are whole, and none is damaged before there is a session).  `TaskRunImplementsEvidence` adds `OrderInv`, that what was measured grew in the
order of the actions on one version, under a saved accepted verdict; a run that resumes,
re-validates or exports adds nothing to a `TaskEvidence`, and the completion record is its
only certificate.  `TaskRunKeepsContract` is its side of the contract: a finished session loads
(`FinishedSessionLoads`) unless its task check is uncovered, so the completion record a run
leaves behind is refused only for that or where protected files or baseline copy were
changed: the two causes of the finding `task_true`, and no third.

`ValidatorRunProofs` proves the five properties of `validator` for any number of
checks, runs and kills.  `EarnedInv` says, for the finalization in flight, that a call
without an error is one whose request did not fail, and that a report of the current
request without captured errors agrees with the backend that ended; `RecheckInv` ties
the caller to what it has verified: a session call without an error follows a recheck
that found protected state unchanged.  `ValidatorKeepsContract` follows the same cases: the only
step that answers True has just written the marker of the report on disk, and a
finalization that raised for the last caller answers False.

`QualityLoopProofs` proves the types, `CommittedIsValidated`, `FinishedIsCurrent`,
`OnlyFaultsBlock` and, where the host commits, `PublishedIsClean`, for any number of tasks, files,
ignored paths, resumes, kills and outside touches.  `StoredInv` says that branch and index
hold only what git takes of originals and validated packages, and accepted fingerprints
only such packages; it is kept because of
`WorkInv`, which follows the package through an attempt (the worktree is the original
until a validated candidate is applied, agrees with it on the paths written so far,
and is what the record accepted while the host commits).  `FinishedInv` adds that the task
at work is not finished and keeps the fingerprint it began with, and that a finished one
without current evidence is `spoilt`.  `CleanInv` says that
during the commits a task is, for git, clean or accepted and still ahead.  `FaultInv` accounts
for every task of a campaign without faults: nobody's evidence is spoilt, what was accepted
of it is what its worktree has more than the last commit, in ignored files too, of any other there is nothing to commit, and something
is staged of at most the task whose turn it is; an attempt runs only in a campaign that
does not await publication, since the task at work is not finished.
`QualityImplementsBranch` maps the manifest to the entries of an `AuditBranch` (open,
accepted, settled) and `head` to its branch.  `AuditedInv` says that the task at work is
open, `StagedInv` that the index holds what is committed or was validated, and
`HostInv` that the host commits one accepted task after the other, each with the contents
of its entry, and has none left when it publishes.

`ToolContainmentProofs` proves the four safety properties of `containment` for any
number of PIDs.  The processes of a command form a forest whose roots are children of
the worker (`Family`, `Rooted`), because a dying parent hands its children over.  A
root stays one until the worker itself waits for it, and the worker reads `/proc` and
waits by turns; so every reading finds a root (`RootSeen`) or has passed over a garbled
process of the command (`missed`), however many others it misses, and one that finds no
target and missed nothing proves that nobody is left.  The processes of start-up
(`Strangers`) are children of the worker that do nothing but exit: `CaptureSees` and
`Parted` say that the baseline has those that can be decoded, and `Hidden` that the others
never get into a table either, for they do not change their names; so none is ever a
target (`StrangersSpared`).  `Pending` says that what was left running is there to be
found until it is reported.  `ContainmentImplementsSidecar` sums this up as a contract with
the evaluation, in which `missed` is the sidecar's blindness.

`EvalToolsProofs` proves the four safety properties of `eval_tools` for any
tools and deadlines that satisfy `EvalToolsAssumption`.  The invariant compares two
countdowns: while a command has a process, what the sidecar may still take until the
last one is gone is less than what the client still waits (`BusyInv`); so a client that
gives up leaves a sidecar that only drains, and for a shorter time than the next health
request waits (`DrainInv`, `ProbeInv`); commands are sent to idle sidecars (`QueueInv`).
`EvalToolsImplementSidecar` proves that each sidecar of this model is a `ToolSidecar` too, so
that the flags it takes for granted (`present`, `left`, `swept`) are those of which the
processes of `ToolContainment` are proved to be an implementation.

`TaskBuilderProofs` proves every safety property of `TaskBuilder` and the refinement, for
any campaigns, tasks, contents, repairs, kills and outside edits.
`Validating` follows what a campaign knows of its draft: it is true, or the stray write
has already happened and the draft is at rest since.  So a verdict for a digest is a
verdict for that content, and one of the two contract checks has seen it; with one check only
(the mutant) the property fails.  `Installing` carries this to the rename and says
who holds the lock; `Mirror`, that memory and `state.json` agree but for deadlines, makes a kill
harmless.  `BuilderImplementsShelf` joins them: every step fills at most one free place
or enters at most one verdict, and by `Verdicts` a campaign works on open tasks only, so
that no save changes a verdict that was given.

Apart from `~OrphanWorkers` above (and, in `QueueTakesAnswers`, the answer it speaks of), the only assumptions are the named ones on the
constants.  Model-checked only: liveness (`DriveEnds`, `RequestEnds`, `EvaluationEnds`,
`CampaignSettles`, under the fairness above).
The violated properties are of course not theorems.

## 7. Not modelled

Scoring arithmetic, rendering, prompts, container and image handling, and what
happens inside an agent.  The harness guard's AST fingerprints, digests and YAML
are data: the models keep what they decide.  Of the validator, the version-3 reports
of legacy tasks and the aggregation of reports over workspaces are left out, and so
is the legacy branch of `run_task`.  Of the evaluation tools, the positive controls at
start-up, the parsers of the plugins and the comparison of runtime identities are
choices, and the `shutdown` method, which no client calls, is left out.
Of the task builder, reading bundles and rendering task files are data, and the tools it gives
its generator save nothing of a campaign.  Two stray writes around the workspace copy, there and
back, would get past the pair of digests, which are both of the draft; and a kill of
the controller alone leaves a generator running (`start_new_session`).  Both are
limits of these results.
By lines most of the repository is `tasks/`: GPU kernels, reference programs and
their test inputs.  They are the data the framework works on, with no protocol state
to model; the models cover the framework in `main.py`, `src/` and `agents/`.  The remaining components of the plan
are listed as `not_modelled` or `partly` in `PROJECT.json` with the reason.
