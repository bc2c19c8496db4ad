------------------------- MODULE ValidatorRunProofs -------------------------
(***************************************************************************)
(* Proofs about ValidatorRun: what a complete validator report stands for, *)
(* for any number of checks, runs, kills and failed writes.                *)
(***************************************************************************)
EXTENDS ValidatorRun, TLAPS

USE ValidatorAssumption

-----------------------------------------------------------------------------
(* Types                                                                   *)

\* Initially every variable has its type.
LEMMA TypeInit == Init => TypeOK
<1> SUFFICES ASSUME Init PROVE TypeOK
  OBVIOUS
<1>1. NoDraft \in Drafts /\ NoReport \in Reports /\ NoCall \in Calls
  BY DEF NoDraft, NoReport, NoCall, NoRequest, Drafts, Reports, Calls, Callers, Requests, Reviews
<1>2. actions \in Seq((1 .. LastCheck) \X BOOLEAN)
  BY DEF Init
<1>3. runs \in 0 .. MaxRuns /\ crashes \in 0 .. MaxCrashes /\ cursor \in 1 .. LastCheck
  BY DEF Init
<1> QED  BY <1>1, <1>2, <1>3 DEF Init, TypeOK

\* Every step keeps the types.
LEMMA TypeStep == TypeOK /\ [Next]_vars => TypeOK'
<1> SUFFICES ASSUME TypeOK, [Next]_vars PROVE TypeOK'
  OBVIOUS
<1>0. NoRequest \in Requests /\ runs \in Requests /\ NoReport \in Reports /\ NoCall \in Calls
  BY DEF TypeOK, NoRequest, Requests, NoReport, Reports, NoCall, Calls, Callers
<1> USE DEF TypeOK
<1>1. CASE StartRun
  <2>1. runs' \in 0 .. MaxRuns /\ cursor' \in 1 .. LastCheck
    BY <1>1 DEF StartRun
  <2> QED  BY <1>0, <1>1, <2>1 DEF StartRun, diskVars
<1>2. CASE CreateTask
  BY <1>0, <1>2 DEF CreateTask, Return, diskVars, memVars, histVars
<1>3. CASE CreateFails
  <2>1. ws' \in {"absent", "stuck", "partial", "fresh", "ready"}
    BY <1>3 DEF CreateFails, Unfinished
  <2> QED  BY <1>3, <2>1 DEF CreateFails, memVars, histVars
<1>4. CASE LoadTask
  BY <1>0, <1>4 DEF LoadTask, Return, diskVars, memVars, histVars
<1>5. CASE InitialCheck
  <2>1. PICK ok, kept \in BOOLEAN :
          /\ actions' = Append(actions, <<cursor, ok>>)
          /\ intact' = kept
          /\ broken' \in {broken, broken \/ (cursor = 1 /\ ~ok)}
    BY <1>5 DEF InitialCheck
  <2>2. actions' \in Seq((1 .. LastCheck) \X BOOLEAN)
    BY <2>1
  <2>3. /\ cursor' \in 1 .. LastCheck /\ verdict' \in {"none", "accepted", "rejected"}
        /\ pc' \in {"checks", "report"}
    BY <1>5 DEF InitialCheck, MoreChecks
  <2>5. broken' \in BOOLEAN
    BY <2>1, Zenon
  <2>4. UNCHANGED <<ws, initial, context, draft, report, marker, told, runs, crashes, backend, call, histVars>>
    BY <1>5 DEF InitialCheck
  <2> QED  BY <2>1, <2>2, <2>3, <2>4, <2>5 DEF histVars
<1>6. CASE WriteInitialReport
  BY <1>0, <1>6 DEF WriteInitialReport, Return, diskVars, memVars, histVars
<1>7. CASE WriteContext
  BY <1>0, <1>7 DEF WriteContext, Return, diskVars, memVars, histVars
<1>8. CASE RunRaises
  BY <1>0, <1>8 DEF RunRaises, Return, diskVars, memVars, histVars
<1>9. CASE HandleException
  <2>0. [by |-> "main", request |-> NoRequest, trusted |-> FALSE, error |-> TRUE] \in Calls
    BY <1>0 DEF Calls, Callers
  <2>1. call' \in Calls /\ pc' \in {"unlink", "off"} /\ told' \in {"nothing", "true", "false"}
    BY <1>9, <2>0 DEF HandleException, Handle, Return
  <2> QED  BY <1>9, <2>1 DEF HandleException, diskVars, memVars, histVars
<1>10. CASE LaunchBackend
  BY <1>0, <1>10 DEF LaunchBackend, Return, diskVars, memVars, histVars
<1>11. CASE LaunchFails
  <2>1. call' \in Calls /\ failed' \subseteq Requests
    BY <1>0, <1>11 DEF LaunchFails, Calls, Callers
  <2> QED  BY <1>11, <2>1 DEF LaunchFails, diskVars, memVars, histVars
<1>12. CASE BackendWrites
  <2>0. /\ \A v \in Reviews : [request |-> runs, review |-> v] \in Drafts
        /\ [request |-> runs, captured |-> FALSE, pass |-> TRUE, edited |-> TRUE] \in Reports
    BY <1>0 DEF Drafts, Reports
  <2>1. draft' \in Drafts /\ report' \in Reports /\ intact' \in BOOLEAN /\ earned' \subseteq Requests
    BY <1>0, <1>12, <2>0 DEF BackendWrites
  <2> QED  BY <1>12, <2>1 DEF BackendWrites, memVars
<1>13. CASE BackendEnds
  <2>1. call' \in Calls /\ failed' \subseteq Requests /\ backend' \in BOOLEAN
    BY <1>0, <1>13 DEF BackendEnds, Calls, Callers
  <2> QED  BY <1>13, <2>1 DEF BackendEnds, diskVars, memVars, histVars
<1>14. CASE Recheck
  <2>1. PICK e \in BOOLEAN : call' = [by |-> "session", request |-> runs, trusted |-> TRUE, error |-> e]
    BY <1>14 DEF Recheck, Complete
  <2>2. call' \in Calls
    BY <1>0, <2>1 DEF Calls, Callers
  <2> QED  BY <1>14, <2>2 DEF Recheck, diskVars, memVars, histVars
<1>15. CASE UnlinkMarker
  <2>1. PICK e \in BOOLEAN : call' = [call EXCEPT !.error = e]
    BY <1>15 DEF UnlinkMarker, Complete, Calls
  <2>2. call' \in Calls
    BY <2>1 DEF Calls
  <2> QED  BY <1>0, <1>15, <2>2 DEF UnlinkMarker, histVars
<1>16. CASE WriteReport
  <2>1. PICK e, g \in BOOLEAN :
          report' = [request |-> call.request, captured |-> e, pass |-> g, edited |-> FALSE]
    BY <1>16 DEF WriteReport, Captured, Passes, Calls
  <2>2. report' \in Reports
    BY <2>1 DEF Reports, Calls
  <2> QED  BY <1>16, <2>2 DEF WriteReport, memVars, histVars
<1>17. CASE WriteMarker
  BY <1>0, <1>17 DEF WriteMarker, Return, diskVars, memVars, histVars
<1>18. CASE FinalizeRaises
  <2>1. /\ call' \in Calls /\ failed' \subseteq Requests /\ backend' \in BOOLEAN
        /\ pc' \in {"unlink", "recheck", "raise", "off"} /\ told' \in {"nothing", "true", "false"}
    BY <1>0, <1>18 DEF FinalizeRaises, Return, Calls, Callers
  <2> QED  BY <1>18, <2>1 DEF FinalizeRaises, diskVars, memVars, histVars
<1>19. CASE Crash
  <2>1. ws' \in {"absent", "stuck", "partial", "fresh", "ready"}
    BY <1>19 DEF Crash, Unfinished
  <2>2. broken' \in BOOLEAN
    BY <1>19, Zenon DEF Crash
  <2>3. crashes' \in 0 .. MaxCrashes
    BY <1>19 DEF Crash
  <2> QED  BY <1>19, <2>1, <2>2, <2>3 DEF Crash, Return, memVars, histVars
<1>20. CASE OutsideEdit
  <2>1. report' \in Reports
    BY <1>0, <1>20 DEF OutsideEdit, Reports
  <2> QED  BY <1>20, <2>1 DEF OutsideEdit, memVars, histVars
<1>21. CASE UNCHANGED vars
  BY <1>21 DEF vars, diskVars, memVars, histVars
<1> QED  BY <1>1, <1>2, <1>3, <1>4, <1>5, <1>6, <1>7, <1>8, <1>9, <1>10, <1>11, <1>12, <1>13, <1>14, <1>15, <1>16, <1>17, <1>18, <1>19, <1>20, <1>21 DEF Next

\* Every variable has its type, for any number of checks, runs and kills.
THEOREM ValidatorTypesHold == Spec => []TypeOK
<1> QED  BY TypeInit, TypeStep, PTL DEF Spec

-----------------------------------------------------------------------------
(* Passing reports                                                         *)

Before == {"setup", "checks", "report", "context", "launch", "backend"}
Finalizing == {"unlink", "write", "mark"}

Backed(r) == r.request \in earned \ failed /\ initial = "accepted" /\ AllAccepted

\* A request is new to disk and history until its backend runs; a marker is
\* gone while a report is replaced; the errors of an attempt stay with the
\* process until the last finalization; and what marker or fresh report pass
\* has been earned.
EarnedInv ==
  /\ ws # "ready" \/ pc \in {"checks", "report"} => initial = "none"
  /\ pc \in {"checks", "report"} => ws = "ready"
  /\ failed \subseteq 0 .. runs
  /\ draft.review = "pass" => draft.request \in earned /\ draft.request <= runs
  /\ marker.pass => Backed(marker) /\ marker.request <= runs
  /\ pc \in Before => runs \notin failed /\ (marker.pass => marker.request # runs)
  /\ pc \in Finalizing /\ call.by = "launcher" => (marker.pass => marker.request # runs)
  /\ pc \in {"write", "mark"} => marker = NoReport
  /\ pc \in {"unlink", "write"} /\ call.trusted /\ ~call.error => call.request \notin failed
  /\ pc \in Finalizing /\ call.by \in {"launcher", "operational"} /\ ~backend => runs \notin failed
  /\ pc = "recheck" /\ ~backend => runs \notin failed
  /\ pc = "mark" /\ report.pass => Backed(report) /\ report.request <= runs

\* No step lets a report pass that its attempt has not earned.
LEMMA EarnedStep == TypeOK /\ EarnedInv /\ [Next]_vars => EarnedInv'
<1> SUFFICES ASSUME TypeOK, EarnedInv, [Next]_vars PROVE EarnedInv'
  OBVIOUS
<1>a. ASSUME actions' = actions PROVE AllAccepted' = AllAccepted
  BY <1>a DEF AllAccepted
<1>b. ~NoReport.pass /\ runs \in Nat
  BY DEF NoReport, TypeOK
<1>c. draft \in Drafts /\ marker \in Reports /\ report \in Reports /\ call \in Calls /\ marker.request \in Requests
  BY DEF TypeOK, Reports
<1> USE DEF EarnedInv, Backed, Before, Finalizing
<1>1. CASE StartRun
  <2>1. /\ pc' = "setup" /\ runs' = runs + 1
        /\ UNCHANGED <<ws, initial, actions, draft, report, marker, earned, failed>>
    BY <1>1 DEF StartRun, diskVars
  <2>2. runs + 1 \notin failed /\ failed \subseteq 0 .. runs + 1
    BY <1>b
  <2>3. pc = "off"
    BY <1>1 DEF StartRun
  <2>4. marker.pass => marker.request # runs + 1 /\ marker.request <= runs + 1
    BY <1>b, <1>c DEF Requests
  <2>5. draft.review = "pass" => draft.request <= runs + 1
    BY <1>b, <1>c DEF Drafts, Requests
  <2> QED  BY <1>a, <2>1, <2>2, <2>3, <2>4, <2>5
<1>2. CASE CreateTask
  BY <1>a, <1>b, <1>2 DEF CreateTask, Return, Handle, diskVars, memVars, histVars
<1>3. CASE CreateFails
  BY <1>a, <1>b, <1>3 DEF CreateFails, Return, Handle, diskVars, memVars, histVars
<1>4. CASE LoadTask
  BY <1>a, <1>b, <1>4 DEF LoadTask, Return, Handle, diskVars, memVars, histVars
<1>5. CASE InitialCheck
  <2>1. pc = "checks" /\ pc' \in {"checks", "report"} /\ initial = "none" /\ ws = "ready"
    BY <1>5 DEF InitialCheck
  <2>2. UNCHANGED <<ws, initial, draft, report, marker, runs, backend, call, earned, failed>>
    BY <1>5 DEF InitialCheck, histVars
  <2>3. ~marker.pass
    BY <2>1
  <2> QED  BY <2>1, <2>2, <2>3
<1>6. CASE WriteInitialReport
  BY <1>a, <1>b, <1>6 DEF WriteInitialReport, Return, Handle, diskVars, memVars, histVars
<1>7. CASE WriteContext
  BY <1>a, <1>b, <1>7 DEF WriteContext, Return, Handle, diskVars, memVars, histVars
<1>8. CASE RunRaises
  BY <1>a, <1>b, <1>8 DEF RunRaises, Return, Handle, diskVars, memVars, histVars
<1>9. CASE HandleException
  BY <1>a, <1>b, <1>9 DEF HandleException, Return, Handle, diskVars, memVars, histVars
<1>10. CASE LaunchBackend
  BY <1>a, <1>b, <1>10 DEF LaunchBackend, Return, Handle, diskVars, memVars, histVars
<1>11. CASE LaunchFails
  <2>1. /\ pc = "launch" /\ pc' = "unlink" /\ backend' /\ failed' = failed \cup {runs}
        /\ call'.by = "operational" /\ call'.error
    BY <1>11 DEF LaunchFails
  <2>2. UNCHANGED <<ws, initial, draft, report, marker, runs, earned, actions>>
    BY <1>11 DEF LaunchFails, diskVars
  <2> QED  BY <1>a, <1>b, <2>1, <2>2
<1>12. CASE BackendWrites
  <2>1. /\ pc = "backend" /\ pc' = "backend"
        /\ UNCHANGED <<ws, initial, marker, runs, actions, backend, call, failed>>
    BY <1>12 DEF BackendWrites, memVars
  <2>2. \A r \in Requests : r # runs => (r \in earned <=> r \in earned')
    BY <1>12 DEF BackendWrites
  <2>3. draft'.review = "pass" => draft'.request \in earned' /\ draft'.request <= runs
    <3>1. CASE draft' = draft /\ earned' = earned
      BY <3>1, <2>1
    <3>2. CASE \E v \in Reviews : draft' = [request |-> runs, review |-> v]
      <4>1. PICK v \in Reviews : draft' = [request |-> runs, review |-> v]
        BY <3>2
      <4>2. draft'.request = runs /\ draft'.review = v
        BY <4>1
      <4>3. draft'.review = "pass" => runs \in earned'
        BY <1>12, <4>2 DEF BackendWrites
      <4> QED  BY <1>b, <4>2, <4>3
    <3> QED  BY <1>12, <3>1, <3>2 DEF BackendWrites
  <2>4. marker.pass => marker.request # runs /\ marker.request \in Requests
    BY <2>1, <1>c
  <2> QED  BY <1>a, <1>b, <2>1, <2>2, <2>3, <2>4
<1>13. CASE BackendEnds
  <2>1. PICK bad \in BOOLEAN :
          /\ backend' = bad
          /\ failed' = IF bad THEN failed \cup {runs} ELSE failed
          /\ call' = [by |-> "launcher", request |-> runs, trusted |-> TRUE, error |-> bad]
    BY <1>13 DEF BackendEnds
  <2>2. /\ pc = "backend" /\ pc' = "unlink"
        /\ UNCHANGED <<ws, initial, draft, report, marker, runs, earned, actions>>
    BY <1>13 DEF BackendEnds, diskVars
  <2>3. call'.by = "launcher" /\ call'.request = runs /\ call'.error = bad
    BY <2>1
  <2> QED  BY <1>a, <1>b, <2>1, <2>2, <2>3
<1>14. CASE Recheck
  <2>1. /\ call'.by = "session" /\ call'.request = runs
        /\ (~call'.error => ~backend)
    BY <1>14 DEF Recheck
  <2>2. /\ pc = "recheck" /\ pc' = "unlink"
        /\ UNCHANGED <<ws, initial, draft, report, marker, runs, earned, failed, backend, actions>>
    BY <1>14 DEF Recheck, diskVars, histVars
  <2> QED  BY <1>a, <1>b, <2>1, <2>2
<1>15. CASE UnlinkMarker
  <2> DEFINE carried == /\ Complete /\ report.captured
                        /\ call.request # NoRequest
                        /\ report.request = call.request
  <2>1. call' = [call EXCEPT !.error = call.error \/ carried]
    BY <1>15 DEF UnlinkMarker
  <2> HIDE DEF carried
  <2>4. DOMAIN call = {"by", "request", "trusted", "error"}
    BY <1>c DEF Calls
  <2>5. call'.by = call.by /\ call'.request = call.request /\ call'.trusted = call.trusted
    BY <2>1, <2>4
  <2>6. call'.error <=> (call.error \/ carried)
    BY <2>1, <2>4, Zenon
  <2>2. /\ call'.by = call.by /\ call'.request = call.request
        /\ call'.trusted = call.trusted /\ (~call'.error => ~call.error)
    BY <2>5, <2>6
  <2>3. /\ pc = "unlink" /\ pc' = "write" /\ marker' = NoReport
        /\ UNCHANGED <<ws, initial, draft, report, runs, earned, failed, backend, actions>>
    BY <1>15 DEF UnlinkMarker, histVars
  <2> QED  BY <1>a, <1>b, <2>2, <2>3
<1>16. CASE WriteReport
  <2>1. /\ pc = "write" /\ pc' = "mark"
        /\ UNCHANGED <<ws, initial, draft, marker, runs, earned, failed, backend, actions, call>>
    BY <1>16 DEF WriteReport, memVars, histVars
  <2>2. report'.request = call.request /\ report'.pass = Passes
    BY <1>16 DEF WriteReport
  <2>3. ASSUME Passes PROVE call.request \in earned \ failed /\ call.request <= runs /\ initial = "accepted" /\ AllAccepted
    <3>1. ~call.error /\ call.trusted /\ draft.request = call.request /\ draft.review = "pass"
      BY <2>3 DEF Passes, Captured
    <3>2. initial = "accepted" /\ AllAccepted
      BY <2>3 DEF Passes, EvidenceValid
    <3> QED  BY <2>1, <3>1, <3>2
  <2> QED  BY <1>a, <1>b, <2>1, <2>2, <2>3
<1>17. CASE WriteMarker
  <2>1. /\ pc = "mark" /\ marker' = report /\ pc' \in {"recheck", "off"}
        /\ (pc' = "recheck" => call.by \in {"launcher", "operational"})
        /\ UNCHANGED <<ws, initial, draft, report, runs, earned, failed, backend, actions>>
    BY <1>17 DEF WriteMarker, Return, memVars, histVars
  <2> QED  BY <1>a, <1>b, <2>1
<1>18. CASE FinalizeRaises
  <2>1. /\ pc \in {"unlink", "write", "mark"} /\ pc' \in {"unlink", "recheck", "raise", "off"}
        /\ UNCHANGED <<ws, initial, draft, report, marker, runs, earned, actions>>
    BY <1>18 DEF FinalizeRaises, Return, diskVars
  <2>2. CASE call.by = "launcher"
    <3>1. /\ call' = [call EXCEPT !.by = "operational", !.error = TRUE]
          /\ backend' /\ failed' = failed \cup {runs} /\ pc' = "unlink"
      BY <1>18, <2>2 DEF FinalizeRaises
    <3>2. call'.by = "operational" /\ call'.error
      BY <1>c, <3>1 DEF Calls
    <3>3. marker.pass => marker.request # runs
      BY <1>b, <2>1, <2>2
    <3> QED  BY <1>a, <1>b, <2>1, <3>1, <3>2, <3>3
  <2>3. CASE call.by # "launcher"
    <3>1. /\ failed' = failed /\ pc' # "unlink" /\ (pc' = "recheck" => backend')
      BY <1>18, <2>3 DEF FinalizeRaises, Return
    <3> QED  BY <1>a, <1>b, <2>1, <3>1
  <2> QED  BY <2>2, <2>3
<1>19. CASE Crash
  <2>1. /\ pc' = "off" /\ (ws' # ws => ws # "ready") /\ (ws' = "ready" => ws = "ready")
        /\ UNCHANGED <<initial, draft, report, marker, runs, earned, failed, actions>>
    BY <1>19 DEF Crash, Return, histVars, Unfinished
  <2> QED  BY <1>a, <1>b, <2>1
<1>20. CASE OutsideEdit
  <2>1. /\ pc = "off" /\ pc' = "off"
        /\ UNCHANGED <<ws, initial, draft, marker, runs, earned, failed, actions>>
    BY <1>20 DEF OutsideEdit, histVars
  <2> QED  BY <1>a, <1>b, <2>1
<1>21. CASE UNCHANGED vars
  BY <1>a, <1>b, <1>21 DEF vars, diskVars, memVars, histVars
<1> QED  BY <1>1, <1>2, <1>3, <1>4, <1>5, <1>6, <1>7, <1>8, <1>9, <1>10, <1>11, <1>12, <1>13, <1>14, <1>15, <1>16, <1>17, <1>18, <1>19, <1>20, <1>21 DEF Next

\* Initially there is no report.
LEMMA EarnedInit == Init => EarnedInv
<1> QED  BY DEF Init, EarnedInv, Before, Finalizing, NoDraft, NoReport

\* A report that counts as complete and passes was earned in its own attempt,
\* for any history of kills, failed writes, old drafts and edited reports.
THEOREM PassIsEarnedHolds == Spec => []PassIsEarned
<1>1. EarnedInv => PassIsEarned
  BY DEF EarnedInv, PassIsEarned, Complete, Backed
<1> QED  BY <1>1, TypeInit, TypeStep, EarnedInit, EarnedStep, PTL DEF Spec

-----------------------------------------------------------------------------
(* Answers                                                                 *)

\* No step ends a run with False over a workspace it could have written to.
LEMMA ConcludeStep == TypeOK /\ RunsConclude /\ [Next]_vars => RunsConclude'
<1> SUFFICES ASSUME TypeOK, RunsConclude, [Next]_vars PROVE RunsConclude'
  OBVIOUS
<1> USE DEF RunsConclude
<1>1. CASE StartRun
  BY <1>1 DEF StartRun, Return, Handle, diskVars, memVars, histVars
<1>2. CASE CreateTask
  BY <1>2 DEF CreateTask, Return, Handle, diskVars, memVars, histVars
<1>3. CASE CreateFails
  BY <1>3 DEF CreateFails, Return, Handle, diskVars, memVars, histVars
<1>4. CASE LoadTask
  BY <1>4 DEF LoadTask, Return, Handle, diskVars, memVars, histVars
<1>5. CASE InitialCheck
  BY <1>5 DEF InitialCheck, Return, Handle, diskVars, memVars, histVars
<1>6. CASE WriteInitialReport
  BY <1>6 DEF WriteInitialReport, Return, Handle, diskVars, memVars, histVars
<1>7. CASE WriteContext
  BY <1>7 DEF WriteContext, Return, Handle, diskVars, memVars, histVars
<1>8. CASE RunRaises
  BY <1>8 DEF RunRaises, Return, Handle, diskVars, memVars, histVars
<1>9. CASE HandleException
  <2>1. ws \in {"absent", "stuck", "partial", "fresh", "ready"}
    BY DEF TypeOK
  <2> QED  BY <1>9, <2>1 DEF HandleException, Handle, Return, diskVars
<1>10. CASE LaunchBackend
  BY <1>10 DEF LaunchBackend, Return, Handle, diskVars, memVars, histVars
<1>11. CASE LaunchFails
  BY <1>11 DEF LaunchFails, Return, Handle, diskVars, memVars, histVars
<1>12. CASE BackendWrites
  BY <1>12 DEF BackendWrites, Return, Handle, diskVars, memVars, histVars
<1>13. CASE BackendEnds
  BY <1>13 DEF BackendEnds, Return, Handle, diskVars, memVars, histVars
<1>14. CASE Recheck
  BY <1>14 DEF Recheck, Return, Handle, diskVars, memVars, histVars
<1>15. CASE UnlinkMarker
  BY <1>15 DEF UnlinkMarker, Return, Handle, diskVars, memVars, histVars
<1>16. CASE WriteReport
  BY <1>16 DEF WriteReport, Return, Handle, diskVars, memVars, histVars
<1>17. CASE WriteMarker
  BY <1>17 DEF WriteMarker, Return, Handle, diskVars, memVars, histVars
<1>18. CASE FinalizeRaises
  <2>1. raised'
    BY <1>18 DEF FinalizeRaises
  <2> QED  BY <2>1
<1>19. CASE Crash
  <2>1. told' = "nothing"
    BY <1>19 DEF Crash, Return
  <2> QED  BY <2>1
<1>20. CASE OutsideEdit
  BY <1>20 DEF OutsideEdit, Return, Handle, diskVars, memVars, histVars
<1>21. CASE UNCHANGED vars
  BY <1>21 DEF vars, diskVars, memVars, histVars
<1> QED  BY <1>1, <1>2, <1>3, <1>4, <1>5, <1>6, <1>7, <1>8, <1>9, <1>10, <1>11, <1>12, <1>13, <1>14, <1>15, <1>16, <1>17, <1>18, <1>19, <1>20, <1>21 DEF Next

\* A run that is not killed ends with a complete report, or has no workspace
\* for one, or could not write it.
THEOREM RunsConcludeHolds == Spec => []RunsConclude
<1>1. Init => RunsConclude
  BY DEF Init, RunsConclude
<1> QED  BY <1>1, TypeInit, TypeStep, ConcludeStep, PTL DEF Spec

\* What the last finalization of a run goes by: the session's found protected
\* state unchanged or has an error, the handler's always has one.
RecheckInv ==
  /\ pc \in {"unlink", "write"} /\ ~call.error =>
       call.by # "main" /\ (call.by = "session" => intact)
  /\ pc = "mark" => ~report.edited
  /\ pc = "mark" /\ report.pass => call.by # "main" /\ (call.by = "session" => intact)

\* No step loses what the recheck found.
LEMMA RecheckStep == TypeOK /\ RecheckInv /\ [Next]_vars => RecheckInv'
<1> SUFFICES ASSUME TypeOK, RecheckInv, [Next]_vars PROVE RecheckInv'
  OBVIOUS
<1>c. call \in Calls /\ DOMAIN call = {"by", "request", "trusted", "error"}
  BY DEF TypeOK, Calls
<1> USE DEF RecheckInv
<1>1. CASE StartRun
  BY <1>1 DEF StartRun, Return, Handle, diskVars, memVars, histVars
<1>2. CASE CreateTask
  BY <1>2 DEF CreateTask, Return, Handle, diskVars, memVars, histVars
<1>3. CASE CreateFails
  BY <1>3 DEF CreateFails, Return, Handle, diskVars, memVars, histVars
<1>4. CASE LoadTask
  BY <1>4 DEF LoadTask, Return, Handle, diskVars, memVars, histVars
<1>5. CASE InitialCheck
  <2>1. pc' \in {"checks", "report"}
    BY <1>5 DEF InitialCheck
  <2> QED  BY <2>1
<1>6. CASE WriteInitialReport
  BY <1>6 DEF WriteInitialReport, Return, Handle, diskVars, memVars, histVars
<1>7. CASE WriteContext
  BY <1>7 DEF WriteContext, Return, Handle, diskVars, memVars, histVars
<1>8. CASE RunRaises
  BY <1>8 DEF RunRaises, Return, Handle, diskVars, memVars, histVars
<1>9. CASE HandleException
  <2>1. pc' = "off" \/ (pc' = "unlink" /\ call'.error)
    BY <1>9 DEF HandleException, Handle, Return
  <2> QED  BY <2>1
<1>10. CASE LaunchBackend
  BY <1>10 DEF LaunchBackend, Return, Handle, diskVars, memVars, histVars
<1>11. CASE LaunchFails
  <2>1. pc' = "unlink" /\ call'.error
    BY <1>11 DEF LaunchFails
  <2> QED  BY <2>1
<1>12. CASE BackendWrites
  <2>1. pc' = "backend"
    BY <1>12 DEF BackendWrites
  <2> QED  BY <2>1
<1>13. CASE BackendEnds
  <2>1. pc' = "unlink" /\ call'.by = "launcher"
    BY <1>13 DEF BackendEnds
  <2> QED  BY <2>1
<1>14. CASE Recheck
  <2>1. pc' = "unlink" /\ call'.by = "session" /\ (~call'.error => intact) /\ intact' = intact
    BY <1>14 DEF Recheck, diskVars
  <2> QED  BY <2>1
<1>15. CASE UnlinkMarker
  <2> DEFINE carried == /\ Complete /\ report.captured
                        /\ call.request # NoRequest
                        /\ report.request = call.request
  <2>1. call' = [call EXCEPT !.error = call.error \/ carried]
    BY <1>15 DEF UnlinkMarker
  <2> HIDE DEF carried
  <2>2. call'.by = call.by
    BY <1>c, <2>1
  <2>3. call'.error <=> (call.error \/ carried)
    BY <1>c, <2>1, Zenon
  <2>4. pc = "unlink" /\ pc' = "write" /\ intact' = intact
    BY <1>15 DEF UnlinkMarker
  <2> QED  BY <2>2, <2>3, <2>4
<1>16. CASE WriteReport
  <2>1. /\ pc = "write" /\ pc' = "mark" /\ UNCHANGED <<call, intact>>
        /\ report'.pass = Passes /\ ~report'.edited
    BY <1>16 DEF WriteReport, memVars
  <2>2. Passes => ~call.error
    BY DEF Passes, Captured
  <2> QED  BY <2>1, <2>2
<1>17. CASE WriteMarker
  <2>1. pc' \in {"recheck", "off"}
    BY <1>17 DEF WriteMarker, Return
  <2> QED  BY <2>1
<1>18. CASE FinalizeRaises
  <2>1. CASE call.by = "launcher"
    <3>1. call' = [call EXCEPT !.by = "operational", !.error = TRUE] /\ pc' = "unlink"
      BY <1>18, <2>1 DEF FinalizeRaises
    <3>2. call'.error
      BY <1>c, <3>1
    <3> QED  BY <3>1, <3>2
  <2>2. CASE call.by # "launcher"
    <3>1. pc' \in {"recheck", "raise", "off"}
      BY <1>18, <2>2 DEF FinalizeRaises, Return
    <3> QED  BY <3>1
  <2> QED  BY <2>1, <2>2
<1>19. CASE Crash
  <2>1. pc' = "off"
    BY <1>19 DEF Crash, Return
  <2> QED  BY <2>1
<1>20. CASE OutsideEdit
  <2>1. pc' = "off"
    BY <1>20 DEF OutsideEdit
  <2> QED  BY <2>1
<1>21. CASE UNCHANGED vars
  BY <1>21 DEF vars, diskVars, memVars, histVars
<1> QED  BY <1>1, <1>2, <1>3, <1>4, <1>5, <1>6, <1>7, <1>8, <1>9, <1>10, <1>11, <1>12, <1>13, <1>14, <1>15, <1>16, <1>17, <1>18, <1>19, <1>20, <1>21 DEF Next

Answers == told' = "true" /\ told # "true" => Complete' /\ (report'.pass => intact')

\* Only the marker of a last finalization answers True.
LEMMA AnswerStep == TypeOK /\ RecheckInv /\ [Next]_vars => Answers
<1> SUFFICES ASSUME TypeOK, RecheckInv, [Next]_vars, told' = "true", told # "true"
             PROVE  Complete' /\ (report'.pass => intact')
  BY DEF Answers
<1>1. CASE WriteMarker
  <2>1. /\ pc = "mark" /\ marker' = report /\ UNCHANGED <<report, intact>>
        /\ call.by \in {"session", "main"}
    BY <1>1 DEF WriteMarker, TypeOK, Calls, Callers
  <2>2. report # NoReport
    BY <2>1 DEF RecheckInv, NoReport
  <2>3. Complete'
    BY <2>1, <2>2 DEF Complete
  <2>4. report.pass => intact
    BY <2>1 DEF RecheckInv
  <2> QED  BY <2>1, <2>3, <2>4
<1>2. CASE UNCHANGED vars
  BY <1>2 DEF vars
<1>3. ASSUME Next, ~WriteMarker PROVE told' # "true"
  BY <1>3 DEF Next, StartRun, CreateTask, CreateFails, LoadTask, InitialCheck, WriteInitialReport,
     WriteContext, RunRaises, HandleException, Handle, LaunchBackend, LaunchFails, BackendWrites,
     BackendEnds, Recheck, UnlinkMarker, WriteReport, FinalizeRaises, Crash, OutsideEdit, Return
<1> QED  BY <1>1, <1>2, <1>3

\* A run that answers True leaves a complete report, and if that report passes
\* the protected files were found unchanged after the backend, whichever of
\* launcher, session and handler finalized last.
THEOREM TrueIsRecheckedHolds == Spec => TrueIsRechecked
<1>1. Init => RecheckInv
  BY DEF Init, RecheckInv
<1>2. TypeOK /\ RecheckInv /\ [Next]_vars => [Answers]_vars
  BY AnswerStep
<1>3. TrueIsRechecked <=> [][Answers]_vars
  BY DEF TrueIsRechecked, Answers
<1> QED  BY <1>1, <1>2, <1>3, TypeInit, TypeStep, RecheckStep, PTL DEF Spec

-----------------------------------------------------------------------------
(* What the driver of the task counts on                                   *)

\* A run that goes on has not answered.
RunningInv == pc # "off" => told = "nothing"

\* How a step may end a run, or not.
Continues == pc # "off" /\ pc' # "off" /\ UNCHANGED <<told, runs>>
GivesUp == pc # "off" /\ pc' = "off" /\ told' = "false"
Concludes == WriteMarker /\ pc' = "off" /\ told' = "true"

LEMMA StepShapes ==
  ASSUME TypeOK, [Next]_vars
  PROVE  StartRun \/ Continues \/ GivesUp \/ Concludes \/ Crash \/ OutsideEdit \/ UNCHANGED vars
<1> USE DEF Continues, GivesUp, Concludes
<1>1. CASE CreateTask \/ CreateFails \/ LoadTask \/ InitialCheck \/ WriteInitialReport \/ WriteContext \/ RunRaises
  BY <1>1 DEF CreateTask, CreateFails, LoadTask, InitialCheck, WriteInitialReport, WriteContext, RunRaises
<1>2. CASE HandleException \/ FinalizeRaises
  BY <1>2 DEF HandleException, Handle, FinalizeRaises, Return
<1>3. CASE \/ LaunchBackend \/ LaunchFails \/ BackendWrites \/ BackendEnds \/ Recheck
           \/ UnlinkMarker \/ WriteReport
  BY <1>3 DEF LaunchBackend, LaunchFails, BackendWrites, BackendEnds, Recheck, UnlinkMarker, WriteReport
<1>4. CASE WriteMarker
  BY <1>4 DEF WriteMarker, Return
<1> QED  BY <1>1, <1>2, <1>3, <1>4 DEF Next

LEMMA RunningStep == TypeOK /\ RunningInv /\ [Next]_vars => RunningInv'
<1> SUFFICES ASSUME TypeOK, RunningInv, [Next]_vars PROVE RunningInv'
  OBVIOUS
<1>1. CASE StartRun \/ Continues \/ GivesUp \/ Concludes \/ Crash
  BY <1>1 DEF StartRun, Continues, GivesUp, Concludes, Crash, Return, RunningInv
<1>2. CASE OutsideEdit \/ UNCHANGED vars
  BY <1>2 DEF OutsideEdit, vars, RunningInv
<1> QED  BY <1>1, <1>2, StepShapes

LEMMA ContractStep ==
  ASSUME TypeOK, RecheckInv, RunningInv, [Next]_vars
  PROVE  [Contract!Next]_Contract!contractVars
<1> USE DEF Contract!Next, Contract!contractVars
<1>0. Complete \in BOOLEAN /\ Complete' \in BOOLEAN
  BY DEF Complete
<1>1. CASE StartRun
  <2>1. runs' \in 1 .. MaxRuns /\ pc = "off" /\ pc' # "off" /\ told' = "nothing" /\ ~Complete
    BY <1>1 DEF StartRun, TypeOK
  <2>2. Complete' = Complete
    BY <1>1 DEF StartRun, Complete, diskVars
  <2> QED  BY <2>1, <2>2 DEF Contract!Start
<1>2. CASE Continues
  BY <1>0, <1>2 DEF Continues, RunningInv, Contract!Work
<1>3. CASE GivesUp
  BY <1>0, <1>3 DEF GivesUp, RunningInv, Contract!Answer
<1>4. CASE Concludes
  <2>1. pc # "off" /\ pc' = "off" /\ told' = "true" /\ told = "nothing"
    BY <1>4 DEF Concludes, WriteMarker, RunningInv
  <2>2. Complete'
    BY <2>1, AnswerStep DEF Answers
  <2> QED  BY <1>0, <2>1, <2>2 DEF Contract!Answer
<1>5. CASE Crash
  BY <1>0, <1>5 DEF Crash, Return, RunningInv, Contract!Die
<1>6. CASE OutsideEdit
  BY <1>0, <1>6 DEF OutsideEdit, Contract!Change
<1>7. CASE UNCHANGED vars
  BY <1>7 DEF vars, diskVars, Complete
<1> QED  BY <1>1, <1>2, <1>3, <1>4, <1>5, <1>6, <1>7, StepShapes

\* A validation is a run as its driver may expect it, for any number of runs,
\* kills and failed writes: started without evidence only, one answer, and
\* that True over a report that a resume accepts.
THEOREM ValidatorKeepsContract == Spec => ImplementsContract
<1>1. Init => RecheckInv /\ RunningInv /\ Contract!Init
  BY DEF Init, RecheckInv, RunningInv, Contract!Init, Complete
<1> QED  BY <1>1, TypeInit, TypeStep, RecheckStep, RunningStep, ContractStep, PTL
         DEF Spec, ImplementsContract, Contract!Spec

=============================================================================
