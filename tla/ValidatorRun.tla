---------------------------- MODULE ValidatorRun ----------------------------
(***************************************************************************)
(* A task_validator task over several runs of the framework on one run     *)
(* directory: run_task with the validator branch of run_task_v2 and        *)
(* validate_task_session (src/task_run.py), the launcher of the reviewing  *)
(* backend and finalize_report (agents/task_validator).  A run may be      *)
(* killed between any two writes, a finalization may raise at any of its   *)
(* own, and each exception runs through the handlers the code has for it.  *)
(*                                                                         *)
(* A report is abstracted to what completion and acceptance depend on, a   *)
(* digest of it to the report itself, request IDs to the number of the run *)
(* (0: an ID that nobody else knows).  The context of a session never      *)
(* changes once its verdict is written, so its digest is left out.         *)
(***************************************************************************)
EXTENDS Integers, Sequences

CONSTANTS LastCheck,   \* number of initial checks: task, baseline, candidate
          MaxRuns,     \* bound: runs of the task
          MaxCrashes   \* bound: runs killed before they return

ASSUME ValidatorAssumption == LastCheck \in Nat \ {0} /\ MaxRuns \in Nat /\ MaxCrashes \in Nat

Requests == 0 .. MaxRuns
NoRequest == 0
Reviews == {"none", "pass", "fail", "unreadable"}
Drafts == [request : Requests, review : Reviews]
Reports == [request : Requests, captured : BOOLEAN, pass : BOOLEAN, edited : BOOLEAN]
NoDraft == [request |-> NoRequest, review |-> "none"]
NoReport == [request |-> NoRequest, captured |-> FALSE, pass |-> FALSE, edited |-> TRUE]
Callers == {"launcher", "operational", "session", "main"}
Calls == [by : Callers, request : Requests, trusted : BOOLEAN, error : BOOLEAN]
NoCall == [by |-> "main", request |-> NoRequest, trusted |-> FALSE, error |-> FALSE]

VARIABLES
  ws,        \* absent, stuck (a record, no directory), partial, fresh (no session), ready
  actions,   \* action-*.json of the initial checks, <<check, accepted>>
  initial,   \* verdict in initial_validation.json
  context,   \* validation_context.json is there
  broken,    \* a session file that cannot be replayed: JSON that was cut short,
             \* or a task check that passed without a performance case
  intact,    \* protected files and baseline copy are as recorded
  draft,     \* validation_report.draft.yaml
  report,    \* validation_report.yaml
  marker,    \* .validation_complete: the report it has the digest of
  pc, told, runs, crashes, cursor,
  verdict,   \* TaskSession.initial_validation
  backend,   \* _task_validation_backend_error is set
  call,      \* arguments of the finalize_report being executed
  raised,    \* a finalization of this run raised
  earned,    \* requests whose backend drafted a passing review
  failed     \* requests whose backend failed

diskVars == <<ws, actions, initial, context, broken, intact, draft, report, marker>>
memVars == <<cursor, verdict, backend, call>>
histVars == <<raised, earned, failed>>
vars == <<diskVars, pc, told, runs, crashes, memVars, histVars>>

Init ==
  /\ ws = "absent" /\ actions = <<>> /\ initial = "none" /\ context = FALSE
  /\ broken = FALSE /\ intact = TRUE
  /\ draft = NoDraft /\ report = NoReport /\ marker = NoReport
  /\ pc = "off" /\ told = "nothing" /\ runs = 0 /\ crashes = 0
  /\ cursor = 1 /\ verdict = "none" /\ backend = FALSE /\ call = NoCall
  /\ raised = FALSE /\ earned = {} /\ failed = {}

\* validation_report_is_complete: the marker has the digest of the report.
Complete == report # NoReport /\ marker = report

Return(answer) == pc' = "off" /\ told' = answer

\* Mutant: the handler only logs.
HandleNothing == Return("false") /\ UNCHANGED call

\* The handler of run_task records the failure in an existing workspace.
Handle ==
  IF ws \in {"partial", "fresh", "ready"}
  THEN /\ call' = [by |-> "main", request |-> NoRequest, trusted |-> FALSE, error |-> TRUE]
       /\ pc' = "unlink" /\ UNCHANGED told
  ELSE Return("false") /\ UNCHANGED call

-----------------------------------------------------------------------------
(* Evidence of the initial checks                                          *)

\* evaluate_task_evidence: the records are the checks in lifecycle order,
\* each once, and stop at the first that failed ...
InLifecycleOrder ==
  /\ Len(actions) <= LastCheck
  /\ \A i \in 1 .. Len(actions) :
       actions[i][1] = i /\ (i < Len(actions) => actions[i][2])

AllAccepted == Len(actions) = LastCheck /\ \A i \in 1 .. Len(actions) : actions[i][2]

\* ... which the verdict of the session must agree with.
EvidenceValid ==
  /\ InLifecycleOrder /\ ~broken
  /\ Len(actions) < LastCheck => actions # <<>> /\ ~actions[Len(actions)][2]
  /\ initial = IF AllAccepted THEN "accepted" ELSE "rejected"

-----------------------------------------------------------------------------
(* From the start of a run to the launcher                                 *)

StartRun ==
  /\ pc = "off" /\ runs < MaxRuns /\ ~Complete
  /\ pc' = "setup" /\ runs' = runs + 1 /\ told' = "nothing" /\ raised' = FALSE
  /\ verdict' = "none" /\ backend' = FALSE /\ cursor' = 1 /\ call' = NoCall
  /\ UNCHANGED <<diskVars, crashes, earned, failed>>

\* setup_workspace and TaskSession.create, when nothing is there ...
CreateTask ==
  /\ pc = "setup" /\ ws \in {"absent", "fresh"}
  /\ ws' = "ready" /\ pc' = "checks"
  /\ UNCHANGED <<actions, initial, context, broken, intact, draft, report, marker, told, runs,
                 crashes, memVars, histVars>>

\* What a creation that is cut short leaves: nothing, a mere record, half of
\* a workspace or session, or a workspace without a session.
Unfinished == IF ws = "absent" THEN {"absent", "stuck", "partial", "fresh"} ELSE {"partial", ws}

\* ... it may fail ...
CreateFails ==
  /\ pc = "setup" /\ ws \in {"absent", "fresh"}
  /\ ws' \in Unfinished /\ pc' = "raise"
  /\ UNCHANGED <<actions, initial, context, broken, intact, draft, report, marker, told, runs,
                 crashes, memVars, histVars>>

\* ... or TaskSession.load, which refuses what is damaged or half made.
LoadTask ==
  /\ pc = "setup" /\ ws \notin {"absent", "fresh"}
  /\ IF ws = "ready" /\ ~broken /\ intact
     THEN verdict' = initial /\ pc' = IF initial = "none" THEN "checks" ELSE "launch"
     ELSE verdict' = verdict /\ pc' = "raise"
  /\ UNCHANGED <<diskVars, told, runs, crashes, cursor, backend, call, histVars>>

\* Mutant: one check too many.
MoreChecksLate == cursor <= LastCheck

MoreChecks == cursor < LastCheck

\* One check of validate_initial; its command may damage the baseline copy.  A
\* task check may be rejected for want of performance cases, after its record.
InitialCheck ==
  /\ pc = "checks"
  /\ \E ok, kept \in BOOLEAN :
       /\ actions' = Append(actions, <<cursor, ok>>)
       /\ intact' = kept
       /\ broken' \in {broken, broken \/ (cursor = 1 /\ ~ok)}
       /\ IF ok /\ kept /\ MoreChecks
          THEN cursor' = cursor + 1 /\ UNCHANGED <<verdict, pc>>
          ELSE /\ verdict' = IF ok /\ kept THEN "accepted" ELSE "rejected"
               /\ pc' = "report" /\ UNCHANGED cursor
  /\ UNCHANGED <<ws, initial, context, draft, report, marker, told, runs, crashes,
                 backend, call, histVars>>

WriteInitialReport ==
  /\ pc = "report"
  /\ initial' = verdict /\ pc' = "context"
  /\ UNCHANGED <<ws, actions, context, broken, intact, draft, report, marker, told, runs, crashes,
                 memVars, histVars>>

WriteContext ==
  /\ pc = "context"
  /\ context' = TRUE /\ pc' = "launch"
  /\ UNCHANGED <<ws, actions, initial, broken, intact, draft, report, marker, told, runs, crashes,
                 memVars, histVars>>

\* Anything before the launcher that raises ends in the handler of run_task.
RunRaises ==
  /\ pc \in {"checks", "report", "context", "launch"}
  /\ pc' = "raise"
  /\ UNCHANGED <<diskVars, told, runs, crashes, memVars, histVars>>

HandleException ==
  /\ pc = "raise"
  /\ Handle
  /\ UNCHANGED <<diskVars, runs, crashes, cursor, verdict, backend, histVars>>

-----------------------------------------------------------------------------
(* The launcher of the reviewing backend                                   *)

\* launch_agent captures the context and starts the backend.
LaunchBackend ==
  /\ pc = "launch" /\ context
  /\ pc' = "backend"
  /\ UNCHANGED <<diskVars, told, runs, crashes, memVars, histVars>>

\* Its configuration or the context is unusable, or the backend cannot be
\* started: an operational failure, before or after it took the request of
\* the session and captured the context.
LaunchFails ==
  /\ pc = "launch"
  /\ \E r \in {NoRequest, runs}, t \in BOOLEAN :
       call' = [by |-> "operational", request |-> r, trusted |-> t, error |-> TRUE]
  /\ backend' = TRUE /\ failed' = failed \cup {runs}
  /\ pc' = "unlink"
  /\ UNCHANGED <<diskVars, told, runs, crashes, cursor, verdict, raised, earned>>

\* The backend drafts for the request of its prompt, writes a report of its
\* own where the framework's belongs, or touches protected files.
BackendWrites ==
  /\ pc = "backend"
  /\ \/ /\ \E v \in Reviews : draft' = [request |-> runs, review |-> v]
        /\ earned' = IF draft'.review = "pass" THEN earned \cup {runs} ELSE earned \ {runs}
        /\ UNCHANGED <<report, intact>>
     \/ /\ report' = [request |-> runs, captured |-> FALSE, pass |-> TRUE, edited |-> TRUE]
        /\ UNCHANGED <<draft, earned, intact>>
     \/ intact' = FALSE /\ UNCHANGED <<draft, earned, report>>
  /\ UNCHANGED <<ws, actions, initial, context, broken, marker, pc, told, runs, crashes, memVars,
                 raised, failed>>

\* It ends; a timeout, an exit code, a missing terminal event or a changed
\* context is a captured failure.
BackendEnds ==
  /\ pc = "backend"
  /\ \E bad \in BOOLEAN :
       /\ backend' = bad
       /\ failed' = IF bad THEN failed \cup {runs} ELSE failed
       /\ call' = [by |-> "launcher", request |-> runs, trusted |-> TRUE, error |-> bad]
  /\ pc' = "unlink"
  /\ UNCHANGED <<diskVars, told, runs, crashes, cursor, verdict, raised, earned>>

\* Mutant: only what the launcher reported counts.
RecheckNothing ==
  /\ pc = "recheck"
  /\ call' = [by |-> "session", request |-> runs, trusted |-> TRUE, error |-> backend]
  /\ pc' = "unlink"
  /\ UNCHANGED <<diskVars, told, runs, crashes, cursor, verdict, backend, histVars>>

\* validate_task_session after the launcher: the report it left, if any, must
\* be complete, protected state unchanged; then it finalizes again itself.
Recheck ==
  /\ pc = "recheck"
  /\ call' = [by |-> "session", request |-> runs, trusted |-> TRUE,
              error |-> backend \/ (report # NoReport /\ ~Complete) \/ ~intact]
  /\ pc' = "unlink"
  /\ UNCHANGED <<diskVars, told, runs, crashes, cursor, verdict, backend, histVars>>

-----------------------------------------------------------------------------
(* finalize_report                                                         *)

\* Errors of a completed report for the same request are carried over before
\* the marker goes.
UnlinkMarker ==
  /\ pc = "unlink"
  /\ call' = [call EXCEPT !.error = @ \/ /\ Complete /\ report.captured
                                         /\ call.request # NoRequest
                                         /\ report.request = call.request]
  /\ marker' = NoReport /\ pc' = "write"
  /\ UNCHANGED <<ws, actions, initial, context, broken, intact, draft, report, told, runs, crashes,
                 cursor, verdict, backend, histVars>>

Captured == call.error \/ draft.review \in {"none", "unreadable"}

\* Mutant: a draft of any request will do.
PassesStale ==
  /\ ~Captured /\ call.trusted
  /\ draft.review = "pass"
  /\ EvidenceValid /\ AllAccepted

\* normalize_v2_report, with the status it computes.
Passes ==
  /\ ~Captured /\ call.trusted
  /\ draft.request = call.request /\ draft.review = "pass"
  /\ EvidenceValid /\ AllAccepted

WriteReport ==
  /\ pc = "write"
  /\ report' = [request |-> call.request, captured |-> Captured, pass |-> Passes, edited |-> FALSE]
  /\ pc' = "mark"
  /\ UNCHANGED <<ws, actions, initial, context, broken, intact, draft, marker, told, runs, crashes,
                 memVars, histVars>>

\* Where the caller goes on: the launcher returns to the session, which
\* answers whether its report is complete; so does the handler of run_task.
WriteMarker ==
  /\ pc = "mark"
  /\ marker' = report
  /\ IF call.by \in {"launcher", "operational"}
     THEN pc' = "recheck" /\ UNCHANGED told
     ELSE Return("true")
  /\ UNCHANGED <<ws, actions, initial, context, broken, intact, draft, report, runs, crashes,
                 memVars, histVars>>

\* Mutant: the session is content with what the launcher finalized before.
FinalizeSwallowed ==
  /\ pc \in {"unlink", "write", "mark"}
  /\ raised' = TRUE
  /\ IF call.by \in {"launcher", "operational"} THEN pc' = "recheck" /\ UNCHANGED told ELSE Return("true")
  /\ UNCHANGED <<diskVars, runs, crashes, memVars, earned, failed>>

\* A file cannot be written: the launcher tries again with the error, then
\* leaves it to the session, which leaves it to run_task, which gives up.
FinalizeRaises ==
  /\ pc \in {"unlink", "write", "mark"}
  /\ raised' = TRUE
  /\ CASE call.by = "launcher" ->
            /\ call' = [call EXCEPT !.by = "operational", !.error = TRUE]
            /\ backend' = TRUE /\ failed' = failed \cup {runs}
            /\ pc' = "unlink" /\ UNCHANGED told
       [] call.by = "operational" -> backend' = TRUE /\ pc' = "recheck" /\ UNCHANGED <<call, failed, told>>
       [] call.by = "session" -> pc' = "raise" /\ UNCHANGED <<call, backend, failed, told>>
       [] OTHER -> Return("false") /\ UNCHANGED <<call, backend, failed>>
  /\ UNCHANGED <<diskVars, runs, crashes, cursor, verdict, earned>>

-----------------------------------------------------------------------------
(* Environment                                                             *)

\* The run is killed: reports and markers are replaced atomically, session
\* files are not, and a creation is left where it was.
Crash ==
  /\ pc # "off" /\ crashes < MaxCrashes
  /\ crashes' = crashes + 1
  /\ ws' \in {ws} \cup (IF pc = "setup" /\ ws \in {"absent", "fresh"} THEN Unfinished ELSE {})
  /\ broken' \in {broken, broken \/ pc \in {"checks", "report"}}
  /\ Return("nothing")
  /\ UNCHANGED <<actions, initial, context, intact, draft, report, marker, runs, memVars, histVars>>

\* Between runs somebody edits or removes the report.
OutsideEdit ==
  /\ pc = "off" /\ report # NoReport
  /\ report' \in {NoReport, [report EXCEPT !.edited = TRUE], [report EXCEPT !.pass = TRUE, !.edited = TRUE]}
  /\ UNCHANGED <<ws, actions, initial, context, broken, intact, draft, marker, pc, told, runs, crashes,
                 memVars, histVars>>

-----------------------------------------------------------------------------
Next ==
  \/ StartRun \/ CreateTask \/ CreateFails \/ LoadTask
  \/ InitialCheck \/ WriteInitialReport \/ WriteContext \/ RunRaises \/ HandleException
  \/ LaunchBackend \/ LaunchFails \/ BackendWrites \/ BackendEnds \/ Recheck
  \/ UnlinkMarker \/ WriteReport \/ WriteMarker \/ FinalizeRaises
  \/ Crash \/ OutsideEdit

Spec == Init /\ [][Next]_vars

-----------------------------------------------------------------------------
(* Properties                                                              *)

\* Every variable has its type, in every reachable state of the task.
TypeOK ==
  /\ ws \in {"absent", "stuck", "partial", "fresh", "ready"}
  /\ actions \in Seq((1 .. LastCheck) \X BOOLEAN)
  /\ initial \in {"none", "accepted", "rejected"} /\ verdict \in {"none", "accepted", "rejected"}
  /\ context \in BOOLEAN /\ broken \in BOOLEAN /\ intact \in BOOLEAN
  /\ draft \in Drafts /\ report \in Reports /\ marker \in Reports
  /\ pc \in {"off", "setup", "checks", "report", "context", "launch", "backend", "recheck",
             "unlink", "write", "mark", "raise"}
  /\ told \in {"nothing", "true", "false"}
  /\ runs \in 0 .. MaxRuns /\ crashes \in 0 .. MaxCrashes /\ cursor \in 1 .. LastCheck
  /\ backend \in BOOLEAN /\ call \in Calls
  /\ raised \in BOOLEAN /\ earned \subseteq Requests /\ failed \subseteq Requests

\* A report that counts as complete and passes was earned in its own attempt:
\* that request's backend did not fail, drafted the passing review for it, and
\* the initial checks were accepted.  Kills, a repeated finalization, a draft
\* of an earlier attempt or an edited report never make one.
PassIsEarned ==
  Complete /\ report.pass =>
    report.request \in earned \ failed /\ initial = "accepted" /\ AllAccepted

\* A run that is not killed ends with a report a resume accepts, unless there
\* is no workspace to hold it or its files could not be written: parallel
\* resume does not retry the same failure forever.
RunsConclude == pc = "off" /\ told = "false" => ws \in {"absent", "stuck"} \/ raised

\* A run answers True only over a complete report, whichever of the launcher,
\* the session and the handler of run_task finalized last, and if that report
\* passes then the protected files were found unchanged after the backend.
TrueIsRechecked ==
  [][told' = "true" /\ told # "true" => Complete' /\ (report'.pass => intact')]_vars

Contract == INSTANCE TaskContract WITH
              Runners <- 1 .. MaxRuns, runners <- IF pc = "off" THEN {} ELSE {runs},
              complete <- Complete, damaged <- FALSE

\* A validation keeps what the driver of the task counts on, without the
\* exception of an optimization run: True is never told over evidence that a
\* resume would refuse, and only a task without it is run again.
ImplementsContract == Contract!Spec

\* The command evidence of an accepted session is one the finalizer accepts.
AcceptedIsReviewable == initial = "accepted" => EvidenceValid

=============================================================================
