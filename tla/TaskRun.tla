------------------------------ MODULE TaskRun ------------------------------
(***************************************************************************)
(* One schema-2 optimization task: run_task_v2 (src/task_run.py) with the  *)
(* materialization record, the TaskSession directory and the evaluator it  *)
(* drives, over several runs of the framework on the same run directory.   *)
(* A run may be killed at any write; what it leaves on disk is what the    *)
(* next one finds.                                                         *)
(*                                                                         *)
(* Candidate sources are abstracted to a version, commands to the outcome  *)
(* of the report they print, digests of a report to the report itself.     *)
(***************************************************************************)
EXTENDS Integers, Sequences

CONSTANTS Versions,    \* contents the editable candidate files can have
          Original,    \* the contents the task package ships
          NoTree,      \* there is no workspace (or no baseline copy)
          MaxRuns,     \* bound: runs of the task
          MaxCrashes   \* bound: runs killed before they return

ASSUME TaskRunAssumption ==
  /\ Original \in Versions /\ NoTree \notin Versions
  /\ MaxRuns \in Nat /\ MaxCrashes \in Nat

\* Parsed task configurations: an unimplemented candidate is no baseline.
Specs == {s \in [baseline : {"initial_candidate", "provided"},
                 initial : {"implemented", "unimplemented"},
                 policy : {"required", "diagnostic"}] :
            s.initial = "unimplemented" => s.baseline = "provided"}

Triple == <<"compile", "correctness", "performance">>
CandidateActions == {"compile", "correctness", "performance"}

\* What a saved record replays to; "uncovered" is a task check that passes and
\* lists no case with a performance check.
Outcomes == {"none", "pass", "fail", "mismatch", "uncovered"}

\* results is keyed by (phase, role, action); the phases are told apart by
\* the role "submission" of the candidate in phase candidate_evaluation.
Checks(role) == [i \in 1 .. 3 |-> <<role, Triple[i]>>]
Keys == {<<"task", "validate-task">>}
          \cup {"baseline", "candidate", "submission"} \X CandidateActions
NoResults == [k \in Keys |-> "none"]

Verdicts == {"none", "accepted", "rejected"}
Results == [run : 0 .. MaxRuns, stage : {"none", "evaluated", "final", "edited"},
            accepted : BOOLEAN, measured : SUBSET (CandidateActions \X Versions)]
PcValues == {"off", "setup", "record", "copy", "seal", "session", "create", "bind",
             "validate", "report", "agent_context", "validation_context", "launch",
             "agent", "evaluate", "compile", "correctness", "tools", "performance",
             "settle", "export", "exported", "finalize", "complete"}

NoResult == [run |-> 0, stage |-> "none", accepted |-> FALSE, measured |-> {}]
NoCompletion == [result |-> NoResult, source |-> NoTree]

VARIABLES
  spec,        \* the task configuration
  mat,         \* status of the materialization record
  tree,        \* candidate version in the workspace
  intact,      \* protected harness files are as materialized
  placed,      \* the paths of the task are where _validate_paths wants them
  sess,        \* files of the session directory written so far, in order
  base,        \* version in the frozen baseline copy
  frozen,      \* the baseline copy still has its recorded digests
  torn,        \* a JSON file that a resume parses was cut short
  saved,       \* results a replay of action-*.json yields
  report,      \* verdict in initial_validation.json
  contexts,    \* context files written for agents and validators
  result,      \* task_result.yaml
  completion,  \* completion.json
  pc, cursor, runs, told, crashes,
  results,     \* TaskSession.results
  verdict,     \* TaskSession.initial_validation
  identity,    \* TaskSession._candidate_identity
  measured,    \* candidate actions passed in this evaluation, with the version
  accepted,    \* candidate_accepted of the run
  before       \* candidate version when the exporters start

matVars == <<mat, tree, intact, placed>>
sessVars == <<sess, base, frozen, torn, saved, report, contexts>>
endVars == <<result, completion>>
memVars == <<results, verdict, identity, measured, accepted, before>>
ctlVars == <<cursor, runs, told, crashes>>
vars == <<spec, matVars, sessVars, endVars, memVars, pc, ctlVars>>

Init ==
  /\ spec \in Specs
  /\ mat = "none" /\ tree = NoTree /\ intact = TRUE /\ placed = TRUE
  /\ sess = 0 /\ base = NoTree /\ frozen = TRUE /\ torn = FALSE
  /\ saved = NoResults /\ report = "none" /\ contexts = {}
  /\ result = NoResult /\ completion = NoCompletion
  /\ pc = "off" /\ cursor = 1 /\ runs = 0 /\ told = "nothing" /\ crashes = 0
  /\ results = NoResults /\ verdict = "none" /\ identity = NoTree
  /\ measured = {} /\ accepted = FALSE /\ before = NoTree

\* The process is gone: what it kept in memory is lost.
Forget ==
  /\ results' = NoResults /\ verdict' = "none" /\ identity' = NoTree
  /\ measured' = {} /\ accepted' = FALSE /\ before' = NoTree

-----------------------------------------------------------------------------
(* Policy of the initial checks                                            *)

InitialChecks ==
  <<<<"task", "validate-task">>>> \o Checks("baseline")
    \o (IF spec.baseline = "provided" /\ spec.initial = "implemented"
        THEN Checks("candidate") ELSE <<>>)

\* Only the baseline's numerical mismatch has a declared exception.
Accepts(k, o) ==
  \/ o = "pass"
  \/ o = "mismatch" /\ k = <<"baseline", "correctness">> /\ spec.policy = "diagnostic"

\* _verify_saved_initial_validation: the evidence an accepted report needs.
Justified == \A i \in DOMAIN InitialChecks : Accepts(InitialChecks[i], saved[InitialChecks[i]])

\* CaseManifest.from_result takes the saved task check, if it passed.
Covered == saved[<<"task", "validate-task">>] # "uncovered"

\* TaskSession.load raises nothing.
Loads ==
  /\ sess >= 6 /\ ~torn /\ frozen /\ intact /\ Covered
  /\ report = "accepted" => Justified

\* task_run_is_complete
Complete ==
  /\ completion # NoCompletion
  /\ Loads
  /\ completion = [result |-> result, source |-> tree]

Return(answer) == pc' = "off" /\ told' = answer /\ Forget

-----------------------------------------------------------------------------
(* A run of the task: workspace and session                                *)

\* Only a task without valid completion evidence is run again.
StartRun ==
  /\ pc = "off" /\ runs < MaxRuns /\ ~Complete
  /\ runs' = runs + 1 /\ told' = "nothing" /\ pc' = "setup"
  /\ UNCHANGED <<spec, matVars, sessVars, endVars, memVars, cursor, crashes>>

\* materialize_task_workspace without a workspace: state.mkdir(exist_ok=False).
MakeStateDirectory ==
  /\ pc = "setup" /\ tree = NoTree
  /\ \/ mat = "none" /\ mat' = "made" /\ pc' = "record" /\ UNCHANGED <<told, memVars>>
     \/ mat # "none" /\ mat' = mat /\ Return("false")
  /\ UNCHANGED <<spec, tree, intact, placed, sessVars, endVars, cursor, runs, crashes>>

WriteRunningRecord ==
  /\ pc = "record"
  /\ mat' = "running" /\ pc' = "copy"
  /\ UNCHANGED <<spec, tree, intact, placed, sessVars, endVars, memVars, ctlVars>>

CopyTask ==
  /\ pc = "copy"
  /\ tree' = Original /\ pc' = "seal"
  /\ UNCHANGED <<spec, mat, intact, placed, sessVars, endVars, memVars, ctlVars>>

\* Mutant: the record is left as "running".
SealNothing ==
  /\ pc = "seal"
  /\ pc' = "session"
  /\ UNCHANGED <<spec, matVars, sessVars, endVars, memVars, ctlVars>>

\* Setup commands passed: the record says complete.
SealWorkspace ==
  /\ pc = "seal"
  /\ mat' = "complete" /\ pc' = "session"
  /\ UNCHANGED <<spec, tree, intact, placed, sessVars, endVars, memVars, ctlVars>>

\* Acquisition, setup or the total deadline failed.
MaterializationFails ==
  /\ pc \in {"copy", "seal"}
  /\ mat' = "failed" /\ Return("false")
  /\ UNCHANGED <<spec, tree, intact, placed, sessVars, endVars, cursor, runs, crashes>>

\* _resume: a complete record, every declared path and symlink in its place,
\* protected inputs unchanged, and before there is a session the whole
\* original tree.
ReuseWorkspace ==
  /\ pc = "setup" /\ tree # NoTree
  /\ IF mat = "complete" /\ intact /\ placed /\ (sess = 0 => tree = Original)
     THEN pc' = "session" /\ UNCHANGED <<told, memVars>>
     ELSE Return("false")
  /\ UNCHANGED <<spec, matVars, sessVars, endVars, cursor, runs, crashes>>

\* Mutant: an unfinished session directory is filled in from the workspace.
LoadOrFinish ==
  /\ pc = "session" /\ sess > 0
  /\ IF Loads
     THEN /\ results' = saved /\ verdict' = report /\ pc' = "bind"
          /\ UNCHANGED <<told, identity, measured, accepted, before>>
     ELSE IF sess < 6 THEN pc' = "create" /\ UNCHANGED <<told, memVars>> ELSE Return("false")
  /\ UNCHANGED <<spec, matVars, sessVars, endVars, cursor, runs, crashes>>

\* TaskSession.load replays the action records.
LoadSession ==
  /\ pc = "session" /\ sess > 0
  /\ IF Loads
     THEN /\ results' = saved /\ verdict' = report /\ pc' = "bind"
          /\ UNCHANGED <<told, identity, measured, accepted, before>>
     ELSE Return("false")
  /\ UNCHANGED <<spec, matVars, sessVars, endVars, cursor, runs, crashes>>

\* verify_original_materialization, before a baseline may be captured.
BeginCreate ==
  /\ pc = "session" /\ sess = 0
  /\ IF mat = "complete" /\ intact /\ tree = Original
     THEN pc' = "create" /\ UNCHANGED <<told, memVars>>
     ELSE Return("false")
  /\ UNCHANGED <<spec, matVars, sessVars, endVars, cursor, runs, crashes>>

\* Mutant: the session is created over and over.
CreateForever ==
  /\ pc = "create"
  /\ sess' = sess + 1
  /\ base' = IF sess = 1 THEN tree ELSE base
  /\ UNCHANGED <<spec, matVars, frozen, torn, saved, report, contexts, endVars, memVars, pc, ctlVars>>

\* TaskSession.create: the directory, the baseline copy, initial_sources,
\* task_spec, session and harness.json, one after the other.
CreateSession ==
  /\ pc = "create"
  /\ sess' = sess + 1
  /\ base' = IF sess = 1 THEN tree ELSE base
  /\ pc' = IF sess' = 6 THEN "bind" ELSE "create"
  /\ UNCHANGED <<spec, matVars, frozen, torn, saved, report, contexts, endVars, memVars, ctlVars>>

\* bind_session_runtime records the runtime once and compares it ever after.
BindRuntime ==
  /\ pc = "bind"
  /\ \/ /\ sess' = 7 /\ cursor' = 1
        /\ pc' = IF verdict = "none" THEN "validate" ELSE "launch"
        /\ UNCHANGED <<told, memVars>>
     \/ sess' = sess /\ cursor' = cursor /\ Return("false")
  /\ UNCHANGED <<spec, matVars, base, frozen, torn, saved, report, contexts, endVars,
                 runs, crashes>>

-----------------------------------------------------------------------------
(* validate_initial                                                        *)

\* Mutant: a numerical mismatch is tolerated whatever the declared policy.
InitialCheckLenient ==
  /\ pc = "validate"
  /\ LET k == InitialChecks[cursor] IN
     \E o \in {"pass", "mismatch"} :
       /\ saved' = [saved EXCEPT ![k] = o]
       /\ results' = [results EXCEPT ![k] = o]
       /\ IF cursor < Len(InitialChecks)
          THEN cursor' = cursor + 1 /\ pc' = "validate" /\ verdict' = verdict
          ELSE cursor' = cursor /\ pc' = "report" /\ verdict' = "accepted"
  /\ UNCHANGED <<spec, matVars, sess, base, frozen, torn, report, contexts, endVars,
                 identity, measured, accepted, before, runs, told, crashes>>

\* One check: _execute runs the command in the baseline copy, which it may
\* damage, and writes the action record; an "error" leaves no result.  A task
\* check that passes is still rejected unless it saw the declared initial
\* state and lists a performance case; its record says "PASS" all the same.
InitialCheck ==
  /\ pc = "validate"
  /\ LET k == InitialChecks[cursor] IN
     \E o \in {"pass", "fail", "error"} \cup
               (IF k = <<"baseline", "correctness">> THEN {"mismatch"} ELSE {}) \cup
               (IF k = <<"task", "validate-task">> THEN {"uncovered"} ELSE {}),
        f, declared \in BOOLEAN :
       /\ frozen' = f
       /\ saved' = [saved EXCEPT ![k] = IF o = "error" THEN "none" ELSE o]
       /\ results' = [results EXCEPT ![k] = IF o = "error" THEN "none" ELSE o]
       /\ IF Accepts(k, o) /\ f /\ (k = <<"task", "validate-task">> => declared)
          THEN IF cursor < Len(InitialChecks)
               THEN cursor' = cursor + 1 /\ pc' = "validate" /\ verdict' = verdict
               ELSE cursor' = cursor /\ pc' = "report" /\ verdict' = "accepted"
          ELSE cursor' = cursor /\ pc' = "report" /\ verdict' = "rejected"
  /\ UNCHANGED <<spec, matVars, sess, base, torn, report, contexts, endVars,
                 identity, measured, accepted, before, runs, told, crashes>>

WriteInitialReport ==
  /\ pc = "report"
  /\ report' = verdict
  /\ pc' = IF verdict = "accepted" THEN "agent_context" ELSE "validation_context"
  /\ UNCHANGED <<spec, matVars, sess, base, frozen, torn, saved, contexts, endVars, memVars, ctlVars>>

WriteContext ==
  /\ pc \in {"agent_context", "validation_context"}
  /\ contexts' = contexts \cup {pc}
  /\ pc' = IF pc = "agent_context" THEN "validation_context" ELSE "launch"
  /\ UNCHANGED <<spec, matVars, sess, base, frozen, torn, saved, report, endVars, memVars, ctlVars>>

-----------------------------------------------------------------------------
(* Agent and evaluation                                                    *)

\* Mutant: any finished initial validation launches the agent.
LaunchAlways ==
  /\ pc = "launch" /\ verdict # "none"
  /\ pc' = "agent"
  /\ UNCHANGED <<spec, matVars, sessVars, endVars, memVars, ctlVars>>

\* The agent is launched only after an accepted initial validation.
LaunchAgent ==
  /\ pc = "launch"
  /\ pc' = IF verdict = "accepted" THEN "agent" ELSE "evaluate"
  /\ UNCHANGED <<spec, matVars, sessVars, endVars, memVars, ctlVars>>

\* The agent edits its candidate and may touch, move or link what it must not.
AgentEdits ==
  /\ pc = "agent"
  /\ tree' \in Versions /\ placed' \in BOOLEAN
  /\ intact' \in {intact, FALSE} /\ frozen' \in {frozen, FALSE}
  /\ UNCHANGED <<spec, mat, sess, base, torn, saved, report, contexts, endVars, memVars, pc, ctlVars>>

\* It returns or raises: the retained candidate is evaluated either way.
AgentReturns ==
  /\ pc = "agent" /\ pc' = "evaluate"
  /\ UNCHANGED <<spec, matVars, sessVars, endVars, memVars, ctlVars>>

\* evaluate_task_session up to the first candidate action.
BeginEvaluation ==
  /\ pc = "evaluate"
  /\ measured' = {}
  /\ \/ verdict = "accepted" /\ intact /\ frozen /\ pc' = "compile"
     \/ pc' = "settle"
  /\ UNCHANGED <<spec, matVars, sessVars, endVars, results, verdict, identity,
                 accepted, before, ctlVars>>

Prerequisites(a) ==
  CASE a = "compile" -> {}
    [] a = "correctness" -> {"compile"}
    [] OTHER -> {"compile", "correctness"}

After(a) == CASE a = "compile" -> "correctness" [] a = "correctness" -> "tools" [] OTHER -> "settle"

\* A new compile starts a new attempt; later actions want the same sources.
Retained(a) ==
  IF a = "compile"
  THEN [k \in Keys |-> IF k[1] = "submission" THEN "none" ELSE results[k]]
  ELSE results

\* Mutant: only the harness is compared before a later action.
AnyCandidate(a) == TRUE

SameCandidate(a) == a = "compile" \/ tree = identity

\* candidate_action executes: the command may edit candidate, harness and
\* baseline, which the checks after it detect (the result is kept anyway).
CandidateAction(a) ==
  /\ pc = a
  /\ intact /\ frozen /\ SameCandidate(a)
  /\ \A r \in Prerequisites(a) : results[<<"submission", r>>] = "pass"
  /\ placed' \in BOOLEAN
  /\ \E o \in {"pass", "fail", "error"}, v \in Versions, h, f \in BOOLEAN :
       LET good == o = "pass" /\ v = tree /\ h /\ f
           seen == IF o = "error" THEN "none" ELSE o
       IN /\ tree' = v /\ intact' = h /\ frozen' = f
          /\ saved' = [saved EXCEPT ![<<"submission", a>>] = seen]
          /\ results' = [Retained(a) EXCEPT ![<<"submission", a>>] = seen]
          /\ measured' = IF good THEN measured \cup {<<a, tree>>} ELSE measured
          /\ pc' = IF good THEN After(a) ELSE "settle"
  /\ identity' = IF a = "compile" THEN tree ELSE identity
  /\ UNCHANGED <<spec, mat, sess, base, torn, report, contexts, endVars,
                 verdict, accepted, before, ctlVars>>

\* It raises before the command: harness, files, stale identity, missing
\* prerequisite.  Whether the candidate files pass is up to their contents.
CandidateRefused(a) ==
  /\ pc = a
  /\ pc' = "settle"
  /\ UNCHANGED <<spec, matVars, sessVars, endVars, memVars, ctlVars>>

\* The optional evaluation tools run on the workspace and may gate timing.
RunTools ==
  /\ pc = "tools"
  /\ tree' \in Versions /\ placed' \in BOOLEAN
  /\ pc' \in {"performance", "settle"}
  /\ UNCHANGED <<spec, mat, intact, sessVars, endVars, memVars, ctlVars>>

\* The rest of evaluate_task_session: last protection checks, task_result
\* with its score; run_task_v2 then decides candidate_accepted.
Settle ==
  /\ pc = "settle"
  /\ LET good == /\ intact /\ frozen
                 /\ \A a \in CandidateActions : \E m \in measured : m[1] = a
     IN accepted' \in {FALSE, good}
  /\ result' = [run |-> runs, stage |-> "evaluated", accepted |-> FALSE, measured |-> measured]
  /\ before' = tree
  /\ pc' = IF accepted' THEN "export" ELSE "finalize"
  /\ UNCHANGED <<spec, matVars, sessVars, completion, results, verdict, identity,
                 measured, ctlVars>>

Edited(r) == [r EXCEPT !.stage = "edited"]

\* A declared exporter runs and may write anywhere in the workspace ...
RunExporter ==
  /\ pc = "export"
  /\ tree' \in Versions /\ placed' \in BOOLEAN
  /\ intact' \in {intact, FALSE} /\ frozen' \in {frozen, FALSE}
  /\ result' \in {result, Edited(result)}
  /\ pc' = "exported"
  /\ UNCHANGED <<spec, mat, sess, base, torn, saved, report, contexts, completion,
                 memVars, ctlVars>>

\* Mutant: only protected files are compared after an export.
CheckExportInputs ==
  /\ pc = "exported"
  /\ result' = [result EXCEPT !.stage = "evaluated"]
  /\ accepted' = (accepted /\ intact /\ frozen)
  /\ pc' = "finalize"
  /\ UNCHANGED <<spec, matVars, sessVars, completion, results, verdict, identity,
                 measured, before, ctlVars>>

\* ... the report is restored, and a changed candidate or protected file
\* withdraws the acceptance.
CheckExport ==
  /\ pc = "exported"
  /\ result' = [result EXCEPT !.stage = "evaluated"]
  /\ accepted' = (accepted /\ tree = before /\ intact /\ frozen)
  /\ pc' = "finalize"
  /\ UNCHANGED <<spec, matVars, sessVars, completion, results, verdict, identity,
                 measured, before, ctlVars>>

\* The final task_result.yaml ...
WriteResult ==
  /\ pc = "finalize"
  /\ result' = [run |-> runs, stage |-> "final", accepted |-> accepted, measured |-> measured]
  /\ pc' = "complete"
  /\ UNCHANGED <<spec, matVars, sessVars, completion, memVars, ctlVars>>

\* ... and, atomically, the record that binds it to the delivered candidate.
WriteCompletion ==
  /\ pc = "complete"
  /\ completion' = [result |-> result, source |-> tree]
  /\ Return("true")
  /\ UNCHANGED <<spec, matVars, sessVars, result, cursor, runs, crashes>>

\* An exception that run_task_v2 has no handler for (a file that cannot be
\* read, a value JSON cannot hold, a harness that cannot be taken a snapshot
\* of once the session directory is there) ends the run; run_task answers
\* False.  That the framework cannot write its own records is left out.
RunRaises ==
  /\ pc \in {"setup", "session", "create", "validate", "launch", "evaluate", "settle", "export", "exported", "finalize", "complete"}
  /\ Return("false")
  /\ UNCHANGED <<spec, matVars, sessVars, endVars, cursor, runs, crashes>>

-----------------------------------------------------------------------------
(* Environment                                                             *)

\* The process is killed, possibly in the middle of the file it writes.
TearsEvidence == pc \in {"validate", "report"} \cup CandidateActions \/ (pc = "bind" /\ sess = 6)

Crash ==
  /\ pc # "off" /\ crashes < MaxCrashes
  /\ crashes' = crashes + 1
  /\ torn' \in {torn, torn \/ TearsEvidence}
  /\ result' \in {result} \cup (IF pc \in {"settle", "finalize"} THEN {Edited(result)} ELSE {})
  /\ Return("nothing")
  /\ UNCHANGED <<spec, matVars, sess, base, frozen, saved, report, contexts, completion, cursor, runs>>

\* Between runs somebody edits the candidate, its place or the result.
OutsideEdit ==
  /\ pc = "off" /\ tree # NoTree
  /\ \/ tree' \in Versions /\ placed' \in BOOLEAN /\ result' = result
     \/ UNCHANGED <<tree, placed>> /\ result # NoResult /\ result' = Edited(result)
  /\ UNCHANGED <<spec, mat, intact, sessVars, completion, memVars, pc, ctlVars>>

-----------------------------------------------------------------------------
Next ==
  \/ StartRun \/ MakeStateDirectory \/ WriteRunningRecord \/ CopyTask
  \/ SealWorkspace \/ MaterializationFails \/ ReuseWorkspace
  \/ LoadSession \/ BeginCreate \/ CreateSession \/ BindRuntime
  \/ InitialCheck \/ WriteInitialReport \/ WriteContext
  \/ LaunchAgent \/ AgentEdits \/ AgentReturns
  \/ BeginEvaluation
  \/ \E a \in CandidateActions : CandidateAction(a) \/ CandidateRefused(a)
  \/ RunTools \/ Settle \/ RunExporter \/ CheckExport
  \/ WriteResult \/ WriteCompletion \/ RunRaises
  \/ Crash \/ OutsideEdit

Spec == Init /\ [][Next]_vars

-----------------------------------------------------------------------------
(* Properties                                                              *)

\* Every variable has its type, in every reachable state of the task.
TypeOK ==
  /\ spec \in Specs
  /\ mat \in {"none", "made", "running", "failed", "complete"}
  /\ tree \in Versions \cup {NoTree} /\ base \in Versions \cup {NoTree}
  /\ intact \in BOOLEAN /\ placed \in BOOLEAN /\ frozen \in BOOLEAN /\ torn \in BOOLEAN
  /\ sess \in 0 .. 7
  /\ saved \in [Keys -> Outcomes] /\ results \in [Keys -> Outcomes]
  /\ report \in Verdicts /\ verdict \in Verdicts
  /\ contexts \subseteq {"agent_context", "validation_context"}
  /\ result \in Results
  /\ completion \in [result : Results, source : Versions \cup {NoTree}]
  /\ pc \in PcValues
  /\ cursor \in 1 .. 7
  /\ runs \in 0 .. MaxRuns /\ crashes \in 0 .. MaxCrashes
  /\ told \in {"nothing", "true", "false"}
  /\ identity \in Versions \cup {NoTree} /\ before \in Versions \cup {NoTree}
  /\ measured \subseteq CandidateActions \X Versions
  /\ accepted \in BOOLEAN

\* The frozen baseline is a copy of the shipped sources, never of a candidate
\* that an agent or a user edited before the session directory existed.
BaselineIsOriginal == base \in {NoTree, Original}

\* A task that counts as complete with an accepted candidate was measured as
\* delivered: initial validation accepted it, and one evaluation compiled,
\* checked and timed the very version that is in the workspace now, whatever
\* runs were killed or files edited in between.
CompletionIsMeasured ==
  Complete /\ result.accepted =>
    /\ report = "accepted"
    /\ CandidateActions \X {tree} \subseteq result.measured

\* An accepted initial report is one the saved command evidence replays to,
\* so a resume never refuses an accepted verdict of its own earlier run.
SavedVerdictReplays == report = "accepted" => Justified

\* No agent is launched in a session, fresh or resumed, whose saved evidence
\* does not carry the accepted initial validation.
AgentNeedsValidation == pc = "agent" => report = "accepted" /\ Justified

\* The next run finds something it can use: a clean slate, the untouched
\* original without a session, or a session that loads.
Resumable ==
  IF tree = NoTree THEN mat = "none"
  ELSE mat = "complete" /\ intact /\ placed /\ IF sess = 0 THEN tree = Original ELSE Loads

\* The ways in which a task is lost without a kill: its setup failed, a
\* protected file, the baseline copy or a declared path was changed, or the
\* candidate before there was a session; the session was not created to the
\* end; or its task check passed without a performance case.
Spoiled ==
  \/ mat = "failed" \/ ~intact \/ ~frozen \/ ~placed
  \/ IF sess = 0 THEN tree \notin {Original, NoTree} ELSE sess < 6
  \/ ~Covered

\* Nothing else, and no order of runs, raises and edits, leaves a task that
\* every later run has to refuse: only a killed run may.
NothingElseBlocks == pc = "off" /\ crashes = 0 /\ ~Spoiled => Resumable

\* An agent that is started finds the context file ARENA_TASK_CONTEXT names.
ContextReachesAgent == pc = "agent" => "agent_context" \in contexts

\* A run that reports the task as done leaves it complete for the next one.
TrueMeansComplete == [][told' = "true" /\ told # "true" => Complete']_vars

-----------------------------------------------------------------------------
Evidence == INSTANCE TaskEvidence WITH
              None <- NoTree, baseline <- base, verdict <- report, passed <- measured,
              certificate <- [accepted |-> completion.result.accepted,
                              source |-> completion.source]

\* Every run of a task, killed, resumed or edited in between, adds to its
\* evidence as a TaskEvidence does: one baseline, one verdict, and no
\* certificate without the passes of the certified version, in their order.
ImplementsEvidence == Evidence!Spec

Contract == INSTANCE TaskContract WITH
              Runners <- 1 .. MaxRuns, runners <- IF pc = "off" THEN {} ELSE {runs},
              complete <- Complete, damaged <- ~(intact /\ frozen /\ Covered)

\* A run keeps what the driver of the task counts on.  The answer that a resume
\* does not share (TrueMeansComplete) has two causes: a run that reports the
\* task as done leaves it complete unless a protected file or the baseline copy
\* was changed, or the session holds a task check that passed without a
\* performance case; and a run that is killed has not answered.
ImplementsContract == Contract!Spec

=============================================================================
