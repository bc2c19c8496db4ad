---------------------------- MODULE QualityLoop ----------------------------
(***************************************************************************)
(* A quality_loop campaign: the orchestrator that audits task packages in  *)
(* a git worktree (agents/quality_loop/orchestrator.py), the manifest it   *)
(* keeps in state.yaml (state.py), and the host that commits and publishes *)
(* (host.py, github.py), over resumes after kills and failures.            *)
(*                                                                         *)
(* A package is a function from its files to versions.  What an agent      *)
(* proposes and what a validation says of it is any outcome; scratch       *)
(* directories of an attempt are fresh and appear as memory.  The manifest *)
(* is replaced atomically.  Generated files and performance stubs, which   *)
(* are filtered from every comparison, are left out; so is the push, which *)
(* a retry repeats and the pull request of a branch, which is looked up    *)
(* before it is created.                                                   *)
(***************************************************************************)
EXTENDS Integers

CONSTANTS Last,       \* number of tasks, audited in order
          Paths, Versions, Base,
          Ignored,    \* paths that the rules of .gitignore match and no commit has
          Proposals,  \* bound: what agents and others may turn a task's package into
          MaxRuns,    \* bound: executions of orchestrator or host
          MaxKills,   \* bound: executions that are killed
          MaxEdits    \* bound: touches from outside

ASSUME QualityAssumption ==
  /\ Last \in Nat \ {0}
  /\ Base \in Versions /\ Ignored \subseteq Paths
  /\ Proposals \in [1 .. Last -> SUBSET [Paths -> Versions]]
  /\ MaxRuns \in Nat /\ MaxKills \in Nat /\ MaxEdits \in Nat

Tasks == 1 .. Last
Contents == [Paths -> Versions]
Original == [p \in Paths |-> Base]   \* at an ignored path: no file

\* What git takes of a package: git add and ls-files pass over the rest.
Seen(c) == [p \in Paths |-> IF p \in Ignored THEN Base ELSE c[p]]

Terminal == {"completed", "reported_failure", "platform_deferred"}
States == Terminal \cup {"pending", "validating", "repairing", "optimizing", "infrastructure_failed"}
Verdicts == {"PASS", "WARN", "FAIL"}
Records == [state : States,
            fingerprint : Contents,       \* accepted_fingerprint; of no use before a terminal state
            changes : SUBSET Paths,
            pending : BOOLEAN,            \* commit_pending
            evidence : BOOLEAN]           \* validation_evidence is complete and unchanged
                                          \* since it was digested
NewRecord == [state |-> "pending", fingerprint |-> Original, changes |-> {}, pending |-> FALSE,
              evidence |-> FALSE]

VARIABLES
  tree,      \* tasks/<id> in the audit worktree
  index,     \* the same as staged by git add
  head,      \* the same in the last commit of its branch
  record,    \* tasks of state.yaml
  status,    \* its status; absent, or orphan: a worktree without a manifest
  pc, task,  \* the process at work and the task it is at
  original, candidate,   \* scratch copies of the attempt
  first,     \* overall status of the initial validation
  todo,      \* paths that apply_changes has not written yet
  validated, \* contents that passed a validation, by task
  spoilt,    \* tasks whose repair agent changed the report or marker of the
             \* validation it was given, after their digest was taken
  foreign,   \* tasks of the campaign for another platform
  deferred,  \* --defer-github: the campaign's commits are left to the host
  runs, kills, edits,
  harmed     \* there was a kill, a touch, a failure while changes were applied
             \* or a repair agent that changed evidence

fileVars == <<tree, index, head, record, status>>
memVars == <<original, candidate, first, todo>>
workVars == <<validated, spoilt>>
runVars == <<foreign, deferred, runs, kills, edits>>
vars == <<fileVars, pc, task, memVars, workVars, runVars, harmed>>

Init ==
  /\ tree = [t \in Tasks |-> Original] /\ index = tree /\ head = tree
  /\ record = [t \in Tasks |-> NewRecord] /\ status = "absent"
  /\ pc = "off" /\ task = 1
  /\ original = Original /\ candidate = Original /\ first = "PASS" /\ todo = {}
  /\ validated = [t \in Tasks |-> {}] /\ spoilt = {}
  /\ foreign \in SUBSET Tasks /\ deferred \in BOOLEAN
  /\ runs = 0 /\ kills = 0 /\ edits = 0 /\ harmed = FALSE

Forget == original' = Original /\ candidate' = Original /\ first' = "PASS" /\ todo' = {}

\* The process ends; scratch copies are of no use to the next one.
Stop == pc' = "off" /\ task' = 1 /\ Forget

NextTask == pc' = "next" /\ task' = task + 1 /\ Forget

Transition(state) == record' = [record EXCEPT ![task].state = state]

Diff(a, b) == {p \in Paths : a[p] # b[p]}

\* _terminal_evidence_current: the evidence of a record is that of the files.
Current(t) ==
  /\ record[t].fingerprint = tree[t]
  /\ record[t].state = "platform_deferred" \/ record[t].evidence

-----------------------------------------------------------------------------
(* Runs of the orchestrator                                                *)

\* start, or a run without an ID: the worktree, then its manifest.
StartRun ==
  /\ pc = "off" /\ status = "absent" /\ runs < MaxRuns
  /\ runs' = runs + 1
  /\ \/ status' = "running" /\ pc' = "next"
     \/ status' = "orphan" /\ UNCHANGED pc
  /\ UNCHANGED <<tree, index, head, record, task, memVars, workVars, foreign, deferred, kills, edits, harmed>>

\* --resume accepts a manifest of any status, and leaves the status alone.
ResumeRun ==
  /\ pc = "off" /\ status \notin {"absent", "orphan"} /\ runs < MaxRuns
  /\ runs' = runs + 1 /\ pc' = "next"
  /\ UNCHANGED <<fileVars, task, memVars, workVars, foreign, deferred, kills, edits, harmed>>

SkipTask ==
  /\ pc = "next" /\ task \in Tasks
  /\ record[task].state \in Terminal /\ Current(task)
  /\ NextTask
  /\ UNCHANGED <<fileVars, workVars, runVars, harmed>>

DeferTask ==
  /\ pc = "next" /\ task \in foreign
  /\ ~(record[task].state \in Terminal /\ Current(task))
  /\ record' = [record EXCEPT ![task].state = "platform_deferred", ![task].fingerprint = tree[task]]
  /\ NextTask
  /\ UNCHANGED <<tree, index, head, status, workVars, runVars, harmed>>

\* Mutant: only what completes is given a fingerprint.
BeginTaskUnmarked ==
  /\ pc = "next" /\ task \in Tasks \ foreign
  /\ ~(record[task].state \in Terminal /\ Current(task))
  /\ Transition("validating")
  /\ original' = tree[task] /\ candidate' = tree[task]
  /\ pc' = "initial" /\ spoilt' = spoilt \ {task}
  /\ UNCHANGED <<tree, index, head, status, task, first, todo, validated, runVars, harmed>>

\* An attempt starts with scratch directories and evidence of its own.
BeginTask ==
  /\ pc = "next" /\ task \in Tasks \ foreign
  /\ ~(record[task].state \in Terminal /\ Current(task))
  /\ record' = [record EXCEPT ![task].state = "validating", ![task].fingerprint = tree[task]]
  /\ original' = tree[task] /\ candidate' = tree[task]
  /\ pc' = "initial" /\ spoilt' = spoilt \ {task}
  /\ UNCHANGED <<tree, index, head, status, task, first, todo, validated, runVars, harmed>>

\* _validate returned this verdict about these contents.
Judged(contents, verdict) ==
  validated' = IF verdict = "PASS"
               THEN [validated EXCEPT ![task] = @ \cup {contents}] ELSE validated

ValidateInitial ==
  /\ pc = "initial"
  /\ \E verdict \in Verdicts :
       /\ Judged(candidate, verdict)
       /\ first' = verdict
       /\ IF verdict = "FAIL" THEN Transition("repairing") /\ pc' = "repair"
                              ELSE Transition("optimizing") /\ pc' = "optimize"
  /\ UNCHANGED <<tree, index, head, status, task, original, candidate, todo, spoilt, runVars, harmed>>

\* _handle_unrepairable: the record lists the evidence of the attempt; whether
\* it still has the digests is only looked at later.
Report ==
  /\ record' = [record EXCEPT ![task].state = "reported_failure",
                              ![task].evidence = task \notin spoilt']
  /\ NextTask

\* The one repair; an agent that changes nothing has failed.  It works where the
\* initial validation has its report and marker, and a change of theirs is
\* filtered from what it changed.
Repair ==
  /\ pc = "repair"
  /\ spoilt' \in {spoilt, spoilt \cup {task}}
  /\ harmed' = (harmed \/ spoilt' # spoilt)
  /\ \/ Report
     \/ /\ candidate' \in Proposals[task] \ {candidate} /\ pc' = "repaired"
        /\ UNCHANGED <<record, task, original, first, todo>>
  /\ UNCHANGED <<tree, index, head, status, validated, runVars>>

ValidateRepaired ==
  /\ pc = "repaired" /\ UNCHANGED spoilt
  /\ \E verdict \in Verdicts :
       /\ Judged(candidate, verdict)
       /\ IF verdict = "PASS"
          THEN Transition("optimizing") /\ pc' = "optimize" /\ UNCHANGED <<task, memVars>>
          ELSE Report
  /\ UNCHANGED <<tree, index, head, status, runVars, harmed>>

\* What may follow the optimization: cases are only enhanced in a task that
\* needed no repair.
Finishing == {"final"} \cup (IF first = "FAIL" THEN {} ELSE {"enhance"})

\* Optimization, review and confirmation in a workspace of their own.
Optimize ==
  /\ pc = "optimize"
  /\ pc' \in {"promote"} \cup Finishing
  /\ UNCHANGED <<fileVars, task, memVars, workVars, runVars, harmed>>

\* _promote_baseline, _enhance_cases: the proposal passes its gate and a fresh
\* validation, or the backup is put back.
Propose ==
  \/ \E proposal \in Proposals[task] :
       candidate' = proposal /\ validated' = [validated EXCEPT ![task] = @ \cup {proposal}]
  \/ UNCHANGED <<candidate, validated>>

Promote ==
  /\ pc = "promote"
  /\ Propose /\ pc' \in Finishing
  /\ UNCHANGED <<fileVars, task, original, first, todo, spoilt, runVars, harmed>>

Enhance ==
  /\ pc = "enhance"
  /\ Propose /\ pc' = "final"
  /\ UNCHANGED <<fileVars, task, original, first, todo, spoilt, runVars, harmed>>

ValidateFinal ==
  /\ pc = "final" /\ Diff(original, candidate) # {} /\ UNCHANGED spoilt
  /\ \E verdict \in Verdicts :
       /\ Judged(candidate, verdict)
       /\ IF verdict = "PASS"
          THEN /\ todo' = Diff(original, candidate) /\ pc' = "apply"
               /\ UNCHANGED <<record, task, original, candidate, first>>
          ELSE Report
  /\ UNCHANGED <<tree, index, head, status, runVars, harmed>>

NothingToApply ==
  /\ pc = "final" /\ Diff(original, candidate) = {}
  /\ pc' = "complete"
  /\ UNCHANGED <<fileVars, task, memVars, workVars, runVars, harmed>>

\* apply_changes writes the worktree file by file.
ApplyPath ==
  /\ pc = "apply"
  /\ \E p \in todo :
       /\ tree' = [tree EXCEPT ![task][p] = candidate[p]]
       /\ todo' = todo \ {p}
       /\ pc' = IF todo # {p} THEN "apply" ELSE IF deferred THEN "complete" ELSE "stage"
  /\ UNCHANGED <<index, head, record, status, task, original, candidate, first, workVars, runVars, harmed>>

\* Mutant: git add of the whole worktree.
StageAll ==
  /\ pc = "stage"
  /\ index' = [t \in Tasks |-> Seen(tree[t])]
  /\ pc' = IF Seen(tree[task]) = head[task] THEN "complete" ELSE "commit"
  /\ UNCHANGED <<tree, head, record, status, task, memVars, workVars, runVars, harmed>>

\* commit_task, when the orchestrator publishes itself: git add, which takes no
\* ignored file, and if that stages something git commit, which takes the index
\* as a whole.
StageTask ==
  /\ pc = "stage"
  /\ index' = [index EXCEPT ![task] = Seen(tree[task])]
  /\ pc' = IF Seen(tree[task]) = head[task] THEN "complete" ELSE "commit"
  /\ UNCHANGED <<tree, head, record, status, task, memVars, workVars, runVars, harmed>>

CommitTask ==
  /\ pc = "commit"
  /\ head' = index /\ pc' = "complete"
  /\ UNCHANGED <<tree, index, record, status, task, memVars, workVars, runVars, harmed>>

\* Mutant: a commit is pending for what the optimizer changed only.
CompleteForgetful ==
  /\ pc = "complete"
  /\ record' = [record EXCEPT ![task] =
       [state |-> "completed", fingerprint |-> tree[task],
        changes |-> Diff(original, candidate),
        pending |-> deferred /\ Diff(original, candidate) # {} /\ first # "FAIL",
        evidence |-> task \notin spoilt]]
  /\ NextTask
  /\ UNCHANGED <<tree, index, head, status, workVars, runVars, harmed>>

CompleteTask ==
  /\ pc = "complete"
  /\ record' = [record EXCEPT ![task] =
       [state |-> "completed", fingerprint |-> tree[task],
        changes |-> Diff(original, candidate),
        pending |-> deferred /\ Diff(original, candidate) # {},
        evidence |-> task \notin spoilt]]
  /\ NextTask
  /\ UNCHANGED <<tree, index, head, status, workVars, runVars, harmed>>

Applying == {"apply", "stage", "commit", "complete"}
Auditing == Applying \cup {"initial", "repair", "repaired", "optimize", "promote", "enhance", "final"}

\* Tools, agents, a validator without a complete report, git: the task stays
\* to be resumed.
TaskRaises ==
  /\ pc \in Auditing
  /\ Transition("infrastructure_failed")
  /\ harmed' = (harmed \/ pc \in Applying)
  /\ NextTask
  /\ UNCHANGED <<tree, index, head, status, workVars, runVars>>

\* A package whose configuration cannot be read.
TaskUnreadable ==
  /\ pc = "next" /\ task \in Tasks
  /\ ~(record[task].state \in Terminal /\ Current(task))
  /\ Transition("infrastructure_failed")
  /\ NextTask
  /\ UNCHANGED <<tree, index, head, status, workVars, runVars, harmed>>

InfrastructureFailed == \E t \in Tasks : record[t].state = "infrastructure_failed"

\* Mutant: the state of the tasks is taken for that of the campaign.
FinishedAsTask ==
  IF InfrastructureFailed THEN "infrastructure_failed"
  ELSE IF deferred THEN "awaiting_publication" ELSE status

\* The status a run leaves when all tasks were visited.
FinishedAs ==
  IF InfrastructureFailed THEN "incomplete"
  ELSE IF deferred THEN "awaiting_publication" ELSE status

EndRun ==
  /\ pc = "next" /\ task \notin Tasks
  /\ status' = FinishedAs
  /\ pc' = IF InfrastructureFailed THEN "off" ELSE IF deferred THEN "finalize" ELSE "publish"
  /\ task' = 1 /\ Forget
  /\ UNCHANGED <<tree, index, head, record, workVars, runVars, harmed>>

-----------------------------------------------------------------------------
(* The host                                                                *)

\* The script finalizes after a run that returned; so may an operator later.
FinalizeAgain ==
  /\ pc = "off" /\ deferred /\ status \notin {"absent", "orphan"} /\ runs < MaxRuns
  /\ runs' = runs + 1 /\ pc' = "finalize"
  /\ UNCHANGED <<fileVars, task, memVars, workVars, foreign, deferred, kills, edits, harmed>>

Accepted(r) == r.state = "completed" /\ r.pending

\* _pending_paths: what differs from the last commit, staged or not; git lists
\* no untracked file that is ignored.
Pending == {x \in Tasks \X (Paths \ Ignored) : head[x[1]][x[2]] # tree[x[1]][x[2]]
                                               \/ head[x[1]][x[2]] # index[x[1]][x[2]]}

\* What finalize expects: all that the records list, ignored or not.
Expected == {x \in Tasks \X Paths : Accepted(record[x[1]]) /\ x[2] \in record[x[1]].changes}

\* Mutant: accepted paths are enough.
ReadyByPaths == status = "awaiting_publication" /\ Pending = Expected

\* Mutant: what is missing from the worktree is refused, what is too much not.
ReadyWithMore ==
  /\ status = "awaiting_publication"
  /\ \A t \in Tasks : record[t].state = "completed" => Current(t)
  /\ Expected \subseteq Pending

\* What finalize requires before it commits, verify_pending_changes included.
Ready ==
  /\ status = "awaiting_publication"
  /\ \A t \in Tasks : record[t].state = "completed" => Current(t)
  /\ Pending = Expected

VerifyPending ==
  /\ pc = "finalize" /\ Ready
  /\ pc' = "commits"
  /\ UNCHANGED <<fileVars, task, memVars, workVars, runVars, harmed>>

RefuseFinalize ==
  /\ pc = "finalize" /\ ~Ready
  /\ Stop
  /\ UNCHANGED <<fileVars, workVars, runVars, harmed>>

PassOver ==
  /\ pc = "commits" /\ task \in Tasks /\ ~Accepted(record[task])
  /\ task' = task + 1
  /\ UNCHANGED <<fileVars, pc, memVars, workVars, runVars, harmed>>

StageAccepted ==
  /\ pc = "commits" /\ task \in Tasks /\ Accepted(record[task])
  /\ index' = [index EXCEPT ![task] = Seen(tree[task])]
  /\ IF Seen(tree[task]) # head[task]
     THEN pc' = "staged" /\ UNCHANGED <<task, memVars>>
     ELSE Stop   \* accepted changes disappeared before commit
  /\ UNCHANGED <<tree, head, record, status, workVars, runVars, harmed>>

CommitAccepted ==
  /\ pc = "staged"
  /\ head' = index /\ pc' = "record"
  /\ UNCHANGED <<tree, index, record, status, task, memVars, workVars, runVars, harmed>>

RecordCommit ==
  /\ pc = "record"
  /\ record' = [record EXCEPT ![task].pending = FALSE]
  /\ task' = task + 1 /\ pc' = "commits"
  /\ UNCHANGED <<tree, index, head, status, memVars, workVars, runVars, harmed>>

AllCommitted ==
  /\ pc = "commits" /\ task \notin Tasks
  /\ pc' = "publish" /\ task' = 1
  /\ UNCHANGED <<fileVars, memVars, workVars, runVars, harmed>>

\* The draft pull request, if the branch is ahead; then the manifest says so.
Publish ==
  /\ pc = "publish"
  /\ status' = "completed" /\ Stop
  /\ UNCHANGED <<tree, index, head, record, workVars, runVars, harmed>>

\* git, gh, the network or the write of the manifest fails.
PublicationFails ==
  /\ pc \in {"finalize", "commits", "staged", "record", "publish"}
  /\ harmed' = (harmed \/ pc = "record")
  /\ Stop
  /\ UNCHANGED <<fileVars, workVars, runVars>>

-----------------------------------------------------------------------------
(* Environment                                                             *)

Kill ==
  /\ pc # "off" /\ kills < MaxKills
  /\ kills' = kills + 1 /\ harmed' = TRUE
  /\ Stop
  /\ UNCHANGED <<fileVars, workVars, foreign, deferred, runs, edits>>

\* Between runs somebody edits a task or loses the evidence of its validation.
OutsideEdit ==
  /\ pc = "off" /\ status # "absent" /\ edits < MaxEdits
  /\ edits' = edits + 1 /\ harmed' = TRUE
  /\ \E t \in Tasks :
       \/ /\ \E c \in Proposals[t] \ {tree[t]} : tree' = [tree EXCEPT ![t] = c]
          /\ UNCHANGED record
       \/ /\ record[t].evidence /\ record' = [record EXCEPT ![t].evidence = FALSE]
          /\ UNCHANGED tree
  /\ UNCHANGED <<index, head, status, pc, task, memVars, workVars, foreign, deferred, runs, kills>>

-----------------------------------------------------------------------------
Next ==
  \/ StartRun \/ ResumeRun \/ SkipTask \/ DeferTask \/ BeginTask
  \/ ValidateInitial \/ Repair \/ ValidateRepaired \/ Optimize \/ Promote \/ Enhance
  \/ ValidateFinal \/ NothingToApply \/ ApplyPath \/ StageTask \/ CommitTask
  \/ CompleteTask
  \/ TaskRaises \/ TaskUnreadable \/ EndRun
  \/ FinalizeAgain \/ VerifyPending \/ RefuseFinalize \/ PassOver \/ StageAccepted
  \/ CommitAccepted \/ RecordCommit
  \/ AllCommitted \/ Publish \/ PublicationFails
  \/ Kill \/ OutsideEdit

Spec == Init /\ [][Next]_vars

-----------------------------------------------------------------------------
(* Properties                                                              *)

\* Every variable has its type, in every reachable state of a campaign.
TypeOK ==
  /\ tree \in [Tasks -> Contents] /\ index \in [Tasks -> Contents]
  /\ head \in [Tasks -> Contents]
  /\ record \in [Tasks -> Records]
  /\ status \in {"absent", "orphan", "running", "incomplete", "awaiting_publication", "completed"}
  /\ pc \in Auditing \cup {"off", "next", "finalize", "commits", "staged", "record", "publish"}
  /\ task \in 1 .. Last + 1
  /\ original \in Contents /\ candidate \in Contents /\ first \in Verdicts /\ todo \subseteq Paths
  /\ validated \in [Tasks -> SUBSET Contents] /\ spoilt \subseteq Tasks
  /\ runs \in 0 .. MaxRuns /\ kills \in 0 .. MaxKills /\ edits \in 0 .. MaxEdits
  /\ foreign \subseteq Tasks /\ deferred \in BOOLEAN /\ harmed \in BOOLEAN

\* What is committed for a task is what git takes of contents that passed a
\* fresh validation as a whole, also when changes were applied half, edited
\* afterwards or committed by a later run than the one that validated them.
CommittedIsValidated ==
  \A t \in Tasks : head[t] = Original \/ \E c \in validated[t] : head[t] = Seen(c)

\* A finished task has the files that were judged, and is not audited again
\* unless somebody touched it or its own repair agent changed the evidence,
\* whatever was killed or failed in between.
FinishedIsCurrent ==
  edits = 0 => \A t \in Tasks : record[t].state \in Terminal =>
                 record[t].fingerprint = tree[t] /\ (Current(t) \/ t \in spoilt)

\* Accepted files that git will not take: the host refuses them for ever.
Untakable == \E t \in Tasks : Accepted(record[t]) /\ record[t].changes \cap Ignored # {}

\* Tools may fail and be resumed, pushes be retried: only a kill, an outside
\* touch, a failure while changes are applied, evidence that a repair agent
\* changed or an accepted file that git ignores makes the host refuse a campaign
\* that awaits publication.
OnlyFaultsBlock ==
  ~harmed /\ ~Untakable /\ pc = "off" /\ status = "awaiting_publication" => Ready

\* A campaign that the host publishes leaves no change behind in its worktree
\* but in files that git ignores.
PublishedIsClean ==
  [][deferred /\ status' = "completed" /\ status # "completed" =>
       \A t \in Tasks : Seen(tree'[t]) = head'[t]]_vars

\* The manifest is crash-safe: whatever was killed, what awaits publication in
\* the worktree is what the manifest accepted and has not recorded as committed.
AwaitingIsReady ==
  edits = 0 /\ pc = "off" /\ status = "awaiting_publication" => Pending = Expected

-----------------------------------------------------------------------------
\* What an entry of the manifest promises for the branch.
Entry(r) ==
  IF r.state # "completed" THEN [state |-> "open", content |-> Original]
  ELSE [state |-> IF r.pending THEN "accepted" ELSE "settled", content |-> Seen(r.fingerprint)]

Branch == INSTANCE AuditBranch WITH
            passed <- [t \in Tasks |-> {Seen(c) : c \in validated[t]}],
            entry <- [t \in Tasks |-> Entry(record[t])],
            branch <- head, published <- status = "completed"

\* Manifest and branch move together as in AuditBranch, over all kills, edits
\* and resumes, for what git takes of a package: nothing is accepted that did
\* not pass, recorded as committed that is not on the branch, or published
\* while something accepted is not.
ImplementsBranch == Branch!Spec

=============================================================================
