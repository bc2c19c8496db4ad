--------------------------- MODULE TaskRunProofs ---------------------------
(* What TLAPS proves about TaskRun, for any versions, runs and kills.      *)
EXTENDS TaskRun, SequenceTheorems, TLAPS

-----------------------------------------------------------------------------
(* The initial checks                                                      *)

InitialKeys == {<<"task", "validate-task">>} \cup {"baseline", "candidate"} \X CandidateActions

\* A function on 1 .. 3 is a sequence of length three.
LEMMA ThreeSeq ==
  ASSUME NEW S, NEW f \in [1 .. 3 -> S]
  PROVE  f \in Seq(S) /\ Len(f) = 3
<1>1. f \in Seq(S)
  BY SeqDef
<1>2. Len(f) = 3
  BY <1>1, LenProperties
<1> QED  BY <1>1, <1>2

\* Concatenation adds lengths.
LEMMA ConcatSeq ==
  ASSUME NEW S, NEW s \in Seq(S), NEW t \in Seq(S)
  PROVE  s \o t \in Seq(S) /\ Len(s \o t) = Len(s) + Len(t)
OBVIOUS

\* A triple of checks is a sequence of three keys of its role.
LEMMA ChecksSeq ==
  ASSUME NEW role \in {"baseline", "candidate"}
  PROVE  Checks(role) \in Seq(InitialKeys) /\ Len(Checks(role)) = 3
<1>1. Triple \in [1 .. 3 -> CandidateActions]
  BY DEF Triple, CandidateActions
<1>2. \A i \in 1 .. 3 : <<role, Triple[i]>> \in InitialKeys
  BY <1>1 DEF InitialKeys
<1>3. Checks(role) \in [1 .. 3 -> InitialKeys]
  BY <1>2 DEF Checks
<1> QED  BY <1>3, ThreeSeq, Zenon

\* The checks of validate_initial are four or seven keys of its own phase.
LEMMA InitialChecksSeq == InitialChecks \in Seq(InitialKeys) /\ Len(InitialChecks) \in {4, 7}
<1> DEFINE one == <<<<"task", "validate-task">>>>
           two == Checks("baseline")
           three == IF spec.baseline = "provided" /\ spec.initial = "implemented"
                    THEN Checks("candidate") ELSE <<>>
           onetwo == one \o two
<1>1. one \in Seq(InitialKeys) /\ Len(one) = 1
  BY DEF InitialKeys
<1>2. two \in Seq(InitialKeys) /\ Len(two) = 3
  BY ChecksSeq
<1>3. three \in Seq(InitialKeys) /\ Len(three) \in {0, 3}
  <2>1. Checks("candidate") \in Seq(InitialKeys) /\ Len(Checks("candidate")) = 3
    BY ChecksSeq
  <2>2. <<>> \in Seq(InitialKeys) /\ Len(<<>>) = 0
    BY EmptySeq
  <2> QED  BY <2>1, <2>2
<1>4. InitialChecks = onetwo \o three
  BY DEF InitialChecks
<1> HIDE DEF one, two, three
<1>5. onetwo \in Seq(InitialKeys) /\ Len(onetwo) = Len(one) + Len(two)
  BY <1>1, <1>2, ConcatSeq, Zenon
<1> HIDE DEF onetwo
<1>6. Len(onetwo) = 4
  BY <1>1, <1>2, <1>5
<1>7. InitialChecks \in Seq(InitialKeys) /\ Len(InitialChecks) = Len(onetwo) + Len(three)
  BY <1>3, <1>4, <1>5, ConcatSeq, Zenon
<1>8. Len(three) \in {0, 3} /\ Len(InitialChecks) = Len(onetwo) + Len(three)
  BY <1>3, <1>7, Zenon
<1> HIDE DEF InitialChecks
<1>9. \A n \in {0, 3} : 4 + n \in {4, 7}
  OBVIOUS
<1>10. Len(InitialChecks) \in {4, 7}
  BY <1>6, <1>8, <1>9, Zenon
<1> QED  BY <1>7, <1>10, Zenon

\* Every check has a key of its own phase, never one of a candidate action.
LEMMA InitialCheckKeys ==
  /\ DOMAIN InitialChecks = 1 .. Len(InitialChecks)
  /\ \A i \in DOMAIN InitialChecks : InitialChecks[i] \in InitialKeys
<1> QED  BY InitialChecksSeq, ElementOfSeq, LenProperties

\* Keys of the two phases are different.
LEMMA KeyFacts ==
  /\ InitialKeys \subseteq Keys
  /\ \A a \in CandidateActions : <<"submission", a>> \in Keys \ InitialKeys
<1> QED  BY DEF InitialKeys, Keys, CandidateActions

\* The checks depend on the task configuration, which never changes.
LEMMA InitialChecksStable ==
  ASSUME spec' = spec
  PROVE  InitialChecks' = InitialChecks
<1> QED  BY DEF InitialChecks

\* Rewriting a report leaves a report.
LEMMA EditedResult ==
  ASSUME NEW r \in Results
  PROVE  Edited(r) \in Results
<1> QED  BY DEF Edited, Results

-----------------------------------------------------------------------------
(* Type correctness                                                        *)

\* The type invariant is inductive together with the two facts that bound
\* the creation of a session and the enumeration of the initial checks.
TypeInv ==
  /\ TypeOK
  /\ pc = "create" => sess < 6
  /\ pc = "validate" => cursor \in DOMAIN InitialChecks

\* The initial states have their types.
LEMMA TypeInit == Init => TypeInv
<1> SUFFICES ASSUME Init PROVE TypeInv
  OBVIOUS
<1> USE TaskRunAssumption
<1>1. NoResults \in [Keys -> Outcomes]
  BY DEF NoResults, Outcomes
<1>2. NoResult \in Results
  BY DEF NoResult, Results
<1>3. NoCompletion \in [result : Results, source : Versions \cup {NoTree}]
  BY <1>2 DEF NoCompletion
<1>4. saved \in [Keys -> Outcomes] /\ results \in [Keys -> Outcomes]
  BY <1>1 DEF Init
<1>5. result \in Results /\ completion \in [result : Results, source : Versions \cup {NoTree}]
  BY <1>2, <1>3 DEF Init
<1>6. cursor \in 1 .. 7 /\ runs \in 0 .. MaxRuns /\ crashes \in 0 .. MaxCrashes /\ sess \in 0 .. 7
  BY DEF Init
<1>7. /\ report \in Verdicts /\ verdict \in Verdicts /\ pc \in PcValues
      /\ measured \subseteq CandidateActions \X Versions
  BY DEF Init, Verdicts, PcValues
<1> QED  BY <1>4, <1>5, <1>6, <1>7 DEF Init, TypeInv, TypeOK

\* A run that ends leaves an empty memory.
LEMMA ReturnTypes ==
  ASSUME NEW answer \in {"nothing", "true", "false"}, Return(answer)
  PROVE  /\ pc' = "off" /\ told' = answer
         /\ results' \in [Keys -> Outcomes]
         /\ verdict' \in Verdicts /\ accepted' \in BOOLEAN
         /\ identity' \in Versions \cup {NoTree} /\ before' \in Versions \cup {NoTree}
         /\ measured' \subseteq CandidateActions \X Versions
<1>1. NoResults \in [Keys -> Outcomes]
  BY DEF NoResults, Outcomes
<1> QED  BY <1>1 DEF Return, Forget, Verdicts

\* Every step keeps the types.
LEMMA TypeStep == TypeInv /\ [Next]_vars => TypeInv'
<1> SUFFICES ASSUME TypeInv, [Next]_vars PROVE TypeInv'
  OBVIOUS
<1> USE TaskRunAssumption DEF TypeInv, TypeOK, PcValues, Verdicts
<1>0. NoResults \in [Keys -> Outcomes]
  BY DEF NoResults, Outcomes
<1>a. spec' = spec
  BY DEF Next, vars, StartRun, MakeStateDirectory, WriteRunningRecord, CopyTask, SealWorkspace, MaterializationFails, ReuseWorkspace, LoadSession, BeginCreate, CreateSession, BindRuntime, InitialCheck, WriteInitialReport, WriteContext, LaunchAgent, AgentEdits, AgentReturns, BeginEvaluation, RunTools, Settle, RunExporter, CheckExport, WriteResult, WriteCompletion, RunRaises, Crash, OutsideEdit, CandidateAction, CandidateRefused
<1>b. InitialChecks' = InitialChecks
  BY <1>a, InitialChecksStable
<1>1. CASE StartRun
  BY <1>0, <1>a, <1>b, <1>1 DEF StartRun, Return, Forget, matVars, sessVars, endVars, memVars, ctlVars
<1>2. CASE MakeStateDirectory
  <2>1. CASE Return("false")
    BY <1>0, <1>a, <1>b, <1>2, <2>1, ReturnTypes DEF MakeStateDirectory, matVars, sessVars, endVars, memVars, ctlVars
  <2>2. CASE ~Return("false")
    BY <1>a, <1>b, <1>2, <2>2 DEF MakeStateDirectory, matVars, sessVars, endVars, memVars, ctlVars
  <2> QED  BY <2>1, <2>2
<1>3. CASE WriteRunningRecord
  BY <1>0, <1>a, <1>b, <1>3 DEF WriteRunningRecord, Return, Forget, matVars, sessVars, endVars, memVars, ctlVars
<1>4. CASE CopyTask
  BY <1>0, <1>a, <1>b, <1>4 DEF CopyTask, Return, Forget, matVars, sessVars, endVars, memVars, ctlVars
<1>5. CASE SealWorkspace
  BY <1>0, <1>a, <1>b, <1>5 DEF SealWorkspace, Return, Forget, matVars, sessVars, endVars, memVars, ctlVars
<1>6. CASE MaterializationFails
  <2>1. Return("false")
    BY <1>6 DEF MaterializationFails
  <2> QED  BY <1>b, <1>6, <2>1, ReturnTypes DEF MaterializationFails, sessVars, endVars
<1>7. CASE ReuseWorkspace
  <2>1. CASE Return("false")
    BY <1>0, <1>a, <1>b, <1>7, <2>1, ReturnTypes DEF ReuseWorkspace, matVars, sessVars, endVars, memVars, ctlVars
  <2>2. CASE ~Return("false")
    BY <1>a, <1>b, <1>7, <2>2 DEF ReuseWorkspace, matVars, sessVars, endVars, memVars, ctlVars
  <2> QED  BY <2>1, <2>2
<1>8. CASE LoadSession
  <2>1. CASE Return("false")
    BY <1>0, <1>a, <1>b, <1>8, <2>1, ReturnTypes DEF LoadSession, matVars, sessVars, endVars, memVars, ctlVars
  <2>2. CASE ~Return("false")
    BY <1>a, <1>b, <1>8, <2>2 DEF LoadSession, matVars, sessVars, endVars, memVars, ctlVars
  <2> QED  BY <2>1, <2>2
<1>9. CASE BeginCreate
  <2>1. CASE Return("false")
    BY <1>0, <1>a, <1>b, <1>9, <2>1, ReturnTypes DEF BeginCreate, matVars, sessVars, endVars, memVars, ctlVars
  <2>2. CASE ~Return("false")
    BY <1>a, <1>b, <1>9, <2>2 DEF BeginCreate, matVars, sessVars, endVars, memVars, ctlVars
  <2> QED  BY <2>1, <2>2
<1>10. CASE CreateSession
  BY <1>0, <1>a, <1>b, <1>10 DEF CreateSession, Return, Forget, matVars, sessVars, endVars, memVars, ctlVars
<1>11. CASE BindRuntime
  <2>1. CASE Return("false")
    BY <1>0, <1>a, <1>b, <1>11, <2>1, ReturnTypes DEF BindRuntime, matVars, sessVars, endVars, memVars, ctlVars
  <2>2. CASE ~Return("false")
    <3>1. sess' = 7 /\ cursor' = 1 /\ pc' \in {"validate", "launch"} /\ UNCHANGED <<told, memVars>>
      BY <1>11, <2>2 DEF BindRuntime
    <3>2. 1 \in DOMAIN InitialChecks
      BY InitialChecksSeq, InitialCheckKeys
    <3> QED  BY <1>a, <1>b, <1>11, <3>1, <3>2 DEF BindRuntime, matVars, sessVars, endVars, memVars, ctlVars
  <2> QED  BY <2>1, <2>2
<1>12. CASE InitialCheck
  <2> DEFINE k == InitialChecks[cursor]
  <2>1. k \in Keys /\ cursor \in 1 .. Len(InitialChecks)
    BY <1>12, InitialCheckKeys, KeyFacts DEF InitialCheck
  <2>2. PICK o \in {"pass", "fail", "error", "mismatch", "uncovered"}, f \in BOOLEAN :
          /\ frozen' = f
          /\ saved' = [saved EXCEPT ![k] = IF o = "error" THEN "none" ELSE o]
          /\ results' = [results EXCEPT ![k] = IF o = "error" THEN "none" ELSE o]
    <3>1. PICK o \in {"pass", "fail", "error"} \cup
                       (IF k = <<"baseline", "correctness">> THEN {"mismatch"} ELSE {}) \cup
                       (IF k = <<"task", "validate-task">> THEN {"uncovered"} ELSE {}),
               f \in BOOLEAN :
            /\ frozen' = f
            /\ saved' = [saved EXCEPT ![k] = IF o = "error" THEN "none" ELSE o]
            /\ results' = [results EXCEPT ![k] = IF o = "error" THEN "none" ELSE o]
      BY <1>12, Zenon DEF InitialCheck
    <3>2. o \in {"pass", "fail", "error", "mismatch", "uncovered"}
      OBVIOUS
    <3> QED  BY <3>1, <3>2, Zenon
  <2> DEFINE seen == IF o = "error" THEN "none" ELSE o
  <2>s. seen \in Outcomes
    BY DEF Outcomes
  <2>e. saved' = [saved EXCEPT ![k] = seen] /\ results' = [results EXCEPT ![k] = seen]
    BY <2>2, Zenon
  <2> HIDE DEF seen, k
  <2>3. saved' \in [Keys -> Outcomes] /\ results' \in [Keys -> Outcomes] /\ frozen' \in BOOLEAN
    <3>1. saved' \in [Keys -> Outcomes]
      BY <2>e, <2>s
    <3>2. results' \in [Keys -> Outcomes]
      BY <2>e, <2>s
    <3>3. frozen' \in BOOLEAN
      BY <2>2, Zenon
    <3> QED  BY <3>1, <3>2, <3>3
  <2>4. /\ pc' \in {"validate", "report"} /\ verdict' \in Verdicts
        /\ \/ cursor' = cursor
           \/ cursor < Len(InitialChecks) /\ cursor' = cursor + 1
    BY <1>12 DEF InitialCheck
  <2>5. Len(InitialChecks) \in {4, 7}
    BY InitialChecksSeq
  <2>6. cursor' \in 1 .. Len(InitialChecks)
    BY <2>1, <2>4, <2>5
  <2>7. cursor' \in 1 .. 7 /\ cursor' \in (DOMAIN InitialChecks)'
    BY <1>b, <2>5, <2>6, InitialCheckKeys
  <2>8. UNCHANGED <<spec, mat, tree, intact, placed, sess, base, torn, report, contexts, result, completion,
                    identity, measured, accepted, before, runs, told, crashes>>
    BY <1>12 DEF InitialCheck, matVars, endVars
  <2> QED  BY <2>3, <2>4, <2>7, <2>8
<1>13. CASE WriteInitialReport
  BY <1>0, <1>a, <1>b, <1>13 DEF WriteInitialReport, Return, Forget, matVars, sessVars, endVars, memVars, ctlVars
<1>14. CASE WriteContext
  BY <1>0, <1>a, <1>b, <1>14 DEF WriteContext, Return, Forget, matVars, sessVars, endVars, memVars, ctlVars
<1>15. CASE LaunchAgent
  BY <1>0, <1>a, <1>b, <1>15 DEF LaunchAgent, Return, Forget, matVars, sessVars, endVars, memVars, ctlVars
<1>16. CASE AgentEdits
  <2>1. tree' \in Versions /\ intact' \in BOOLEAN /\ frozen' \in BOOLEAN
    BY <1>16 DEF AgentEdits
  <2> QED  BY <1>b, <1>16, <2>1 DEF AgentEdits, matVars, sessVars, endVars, memVars, ctlVars
<1>17. CASE AgentReturns
  BY <1>0, <1>a, <1>b, <1>17 DEF AgentReturns, Return, Forget, matVars, sessVars, endVars, memVars, ctlVars
<1>18. CASE BeginEvaluation
  BY <1>0, <1>a, <1>b, <1>18 DEF BeginEvaluation, Return, Forget, matVars, sessVars, endVars, memVars, ctlVars
<1>19. ASSUME NEW a \in CandidateActions, CandidateAction(a) PROVE TypeInv'
  <2>1. PICK o \in {"pass", "fail", "error"}, v \in Versions, h \in BOOLEAN, f \in BOOLEAN :
          LET good == o = "pass" /\ v = tree /\ h /\ f
              seen == IF o = "error" THEN "none" ELSE o
          IN /\ tree' = v /\ intact' = h /\ frozen' = f
             /\ saved' = [saved EXCEPT ![<<"submission", a>>] = seen]
             /\ results' = [Retained(a) EXCEPT ![<<"submission", a>>] = seen]
             /\ measured' = IF good THEN measured \cup {<<a, tree>>} ELSE measured
             /\ pc' = IF good THEN After(a) ELSE "settle"
    BY <1>19, Zenon DEF CandidateAction
  <2>p. placed' \in BOOLEAN
    BY <1>19, Zenon DEF CandidateAction
  <2> DEFINE good == o = "pass" /\ v = tree /\ h /\ f
             seen == IF o = "error" THEN "none" ELSE o
  <2>2. tree' \in Versions /\ intact' \in BOOLEAN /\ frozen' \in BOOLEAN
    BY <2>1, Zenon
  <2>3. seen \in Outcomes /\ (good => tree = v)
    BY DEF Outcomes
  <2>4. /\ saved' = [saved EXCEPT ![<<"submission", a>>] = seen]
        /\ results' = [Retained(a) EXCEPT ![<<"submission", a>>] = seen]
    BY <2>1, Zenon
  <2>5. /\ measured' = IF good THEN measured \cup {<<a, tree>>} ELSE measured
        /\ pc' = IF good THEN After(a) ELSE "settle"
    BY <2>1, Zenon
  <2> HIDE DEF good, seen
  <2>6. saved' \in [Keys -> Outcomes]
    BY <2>3, <2>4
  <2>7. Retained(a) \in [Keys -> Outcomes]
    BY <1>0 DEF Retained, Outcomes
  <2>8. results' \in [Keys -> Outcomes]
    BY <2>3, <2>4, <2>7
  <2>9. measured' \subseteq CandidateActions \X Versions
    BY <2>3, <2>5
  <2>10. pc' \in {"correctness", "tools", "settle"}
    BY <2>5 DEF After
  <2>11. identity' \in Versions \cup {NoTree}
    BY <1>19 DEF CandidateAction
  <2>12. UNCHANGED <<spec, mat, sess, base, torn, report, contexts, result, completion,
                     verdict, accepted, before, cursor, runs, told, crashes>>
    BY <1>19 DEF CandidateAction, endVars, ctlVars
  <2> QED  BY <1>b, <2>p, <2>2, <2>6, <2>8, <2>9, <2>10, <2>11, <2>12
<1>20. ASSUME NEW a \in CandidateActions, CandidateRefused(a) PROVE TypeInv'
  BY <1>a, <1>b, <1>20 DEF CandidateRefused, matVars, sessVars, endVars, memVars, ctlVars
<1>21. CASE RunTools
  BY <1>0, <1>a, <1>b, <1>21 DEF RunTools, Return, Forget, matVars, sessVars, endVars, memVars, ctlVars
<1>22. CASE Settle
  <2>1. accepted' \in BOOLEAN
    BY <1>22, Zenon DEF Settle
  <2>2. result' \in Results
    BY <1>22 DEF Settle, Results, ctlVars
  <2> QED  BY <1>b, <1>22, <2>1, <2>2 DEF Settle, matVars, sessVars, endVars, memVars, ctlVars
<1>23. CASE RunExporter
  <2>1. tree' \in Versions /\ intact' \in BOOLEAN /\ frozen' \in BOOLEAN
    BY <1>23 DEF RunExporter
  <2>2. result' \in Results
    BY <1>23, EditedResult DEF RunExporter
  <2> QED  BY <1>b, <1>23, <2>1, <2>2 DEF RunExporter, matVars, sessVars, endVars, memVars, ctlVars
<1>24. CASE CheckExport
  <2>1. accepted' \in BOOLEAN
    BY <1>24, Zenon DEF CheckExport
  <2>2. result' \in Results
    BY <1>24 DEF CheckExport, Results
  <2> QED  BY <1>b, <1>24, <2>1, <2>2 DEF CheckExport, matVars, sessVars, endVars, memVars, ctlVars
<1>25. CASE WriteResult
  <2>1. result' \in Results
    BY <1>25 DEF WriteResult, Results, ctlVars, memVars
  <2> QED  BY <1>b, <1>25, <2>1 DEF WriteResult, matVars, sessVars, endVars, memVars, ctlVars
<1>26. CASE WriteCompletion
  <2>1. Return("true") /\ completion' = [result |-> result, source |-> tree]
    BY <1>26 DEF WriteCompletion
  <2>2. completion' \in [result : Results, source : Versions \cup {NoTree}]
    BY <2>1
  <2> QED  BY <1>b, <1>26, <2>1, <2>2, ReturnTypes DEF WriteCompletion, matVars, sessVars
<1>27. CASE RunRaises
  <2>1. Return("false")
    BY <1>27 DEF RunRaises
  <2> QED  BY <1>b, <1>27, <2>1, ReturnTypes DEF RunRaises, matVars, sessVars, endVars
<1>28. CASE Crash
  <2>1. torn' \in BOOLEAN
    BY <1>28, Zenon DEF Crash, TearsEvidence
  <2>2. result' = result \/ result' = Edited(result)
    <3>1. result' \in {result} \cup (IF pc \in {"settle", "finalize"} THEN {Edited(result)} ELSE {})
      BY <1>28, Zenon DEF Crash
    <3> QED  BY <3>1, Zenon
  <2>3. result' \in Results
    <3>1. result \in Results
      OBVIOUS
    <3> QED  BY <2>2, <3>1, EditedResult, Zenon
  <2>4. crashes < MaxCrashes /\ crashes' = crashes + 1 /\ Return("nothing")
    BY <1>28 DEF Crash
  <2>5. crashes' \in 0 .. MaxCrashes
    BY <2>4
  <2>6. UNCHANGED <<spec, mat, tree, intact, placed, sess, base, frozen, saved, report, contexts,
                    completion, cursor, runs>>
    BY <1>28 DEF Crash, matVars
  <2>7. /\ pc' = "off" /\ told' = "nothing"
        /\ results' \in [Keys -> Outcomes]
        /\ verdict' \in Verdicts /\ accepted' \in BOOLEAN
        /\ identity' \in Versions \cup {NoTree} /\ before' \in Versions \cup {NoTree}
        /\ measured' \subseteq CandidateActions \X Versions
    BY <2>4, ReturnTypes
  <2> QED  BY <1>b, <2>1, <2>3, <2>5, <2>6, <2>7
<1>29. CASE OutsideEdit
  <2>1. tree' \in Versions \cup {NoTree} /\ placed' \in BOOLEAN
    BY <1>29 DEF OutsideEdit
  <2>2. result' \in Results
    BY <1>29, EditedResult DEF OutsideEdit
  <2> QED  BY <1>b, <1>29, <2>1, <2>2 DEF OutsideEdit, matVars, sessVars, endVars, memVars, ctlVars
<1>30. CASE UNCHANGED vars
  BY <1>b, <1>30 DEF vars, matVars, sessVars, endVars, memVars, ctlVars
<1> QED  BY <1>1, <1>2, <1>3, <1>4, <1>5, <1>6, <1>7, <1>8, <1>9, <1>10, <1>11, <1>12, <1>13, <1>14, <1>15, <1>16, <1>17, <1>18, <1>19, <1>20, <1>21, <1>22, <1>23, <1>24, <1>25, <1>26, <1>27, <1>28, <1>29, <1>30 DEF Next

\* Every variable has its type in every reachable state, for any versions,
\* runs and kills: the records on disk stay what a resume can parse.
THEOREM TaskTypesHold == Spec => []TypeOK
<1>1. TypeInv => TypeOK
  BY DEF TypeInv
<1> QED  BY <1>1, TypeInit, TypeStep, PTL DEF Spec

-----------------------------------------------------------------------------
(* The frozen baseline                                                     *)

\* While the session directory is being written, the workspace is still the
\* original: nobody edits between verify_original_materialization and the copy.
BaseInv ==
  /\ base \in {NoTree, Original}
  /\ pc = "create" => tree = Original

\* No step copies an edited candidate into the baseline.
LEMMA BaseStep == BaseInv /\ [Next]_vars => BaseInv'
<1> SUFFICES ASSUME BaseInv, [Next]_vars PROVE BaseInv'
  OBVIOUS
<1> USE DEF BaseInv
<1>1. CASE StartRun
  BY <1>1 DEF StartRun, Return, Forget, matVars, sessVars, endVars, memVars, ctlVars
<1>2. CASE MakeStateDirectory
  BY <1>2 DEF MakeStateDirectory, Return, Forget, matVars, sessVars, endVars, memVars, ctlVars
<1>3. CASE WriteRunningRecord
  BY <1>3 DEF WriteRunningRecord, Return, Forget, matVars, sessVars, endVars, memVars, ctlVars
<1>4. CASE CopyTask
  BY <1>4 DEF CopyTask, Return, Forget, matVars, sessVars, endVars, memVars, ctlVars
<1>5. CASE SealWorkspace
  BY <1>5 DEF SealWorkspace, Return, Forget, matVars, sessVars, endVars, memVars, ctlVars
<1>6. CASE MaterializationFails
  BY <1>6 DEF MaterializationFails, Return, Forget, matVars, sessVars, endVars, memVars, ctlVars
<1>7. CASE ReuseWorkspace
  BY <1>7 DEF ReuseWorkspace, Return, Forget, matVars, sessVars, endVars, memVars, ctlVars
<1>8. CASE LoadSession
  BY <1>8 DEF LoadSession, Return, Forget, matVars, sessVars, endVars, memVars, ctlVars
<1>9. CASE BeginCreate
  BY <1>9 DEF BeginCreate, Return, Forget, matVars, sessVars, endVars, memVars, ctlVars
<1>10. CASE CreateSession
  BY <1>10 DEF CreateSession, Return, Forget, matVars, sessVars, endVars, memVars, ctlVars
<1>11. CASE BindRuntime
  BY <1>11 DEF BindRuntime, Return, Forget, matVars, sessVars, endVars, memVars, ctlVars
<1>12. CASE InitialCheck
  BY <1>12 DEF InitialCheck, Return, Forget, matVars, sessVars, endVars, memVars, ctlVars
<1>13. CASE WriteInitialReport
  BY <1>13 DEF WriteInitialReport, Return, Forget, matVars, sessVars, endVars, memVars, ctlVars
<1>14. CASE WriteContext
  BY <1>14 DEF WriteContext, Return, Forget, matVars, sessVars, endVars, memVars, ctlVars
<1>15. CASE LaunchAgent
  BY <1>15 DEF LaunchAgent, Return, Forget, matVars, sessVars, endVars, memVars, ctlVars
<1>16. CASE AgentEdits
  BY <1>16 DEF AgentEdits, Return, Forget, matVars, sessVars, endVars, memVars, ctlVars
<1>17. CASE AgentReturns
  BY <1>17 DEF AgentReturns, Return, Forget, matVars, sessVars, endVars, memVars, ctlVars
<1>18. CASE BeginEvaluation
  BY <1>18 DEF BeginEvaluation, Return, Forget, matVars, sessVars, endVars, memVars, ctlVars
<1>19. ASSUME NEW a \in CandidateActions, CandidateAction(a) PROVE BaseInv'
  BY <1>19 DEF CandidateAction, After, CandidateActions
<1>20. ASSUME NEW a \in CandidateActions, CandidateRefused(a) PROVE BaseInv'
  BY <1>20 DEF CandidateRefused, Return, Forget, matVars, sessVars, endVars, memVars, ctlVars
<1>21. CASE RunTools
  BY <1>21 DEF RunTools, Return, Forget, matVars, sessVars, endVars, memVars, ctlVars
<1>22. CASE Settle
  BY <1>22 DEF Settle, Return, Forget, matVars, sessVars, endVars, memVars, ctlVars
<1>23. CASE RunExporter
  BY <1>23 DEF RunExporter, Return, Forget, matVars, sessVars, endVars, memVars, ctlVars
<1>24. CASE CheckExport
  BY <1>24 DEF CheckExport, Return, Forget, matVars, sessVars, endVars, memVars, ctlVars
<1>25. CASE WriteResult
  BY <1>25 DEF WriteResult, Return, Forget, matVars, sessVars, endVars, memVars, ctlVars
<1>26. CASE WriteCompletion
  BY <1>26 DEF WriteCompletion, Return, Forget, matVars, sessVars, endVars, memVars, ctlVars
<1>27. CASE RunRaises
  BY <1>27 DEF RunRaises, Return, Forget, matVars, sessVars, endVars, memVars, ctlVars
<1>28. CASE Crash
  BY <1>28 DEF Crash, Return, Forget, matVars, sessVars, endVars, memVars, ctlVars
<1>29. CASE OutsideEdit
  BY <1>29 DEF OutsideEdit, Return, Forget, matVars, sessVars, endVars, memVars, ctlVars
<1>30. CASE UNCHANGED vars
  BY <1>30 DEF vars, Return, Forget, matVars, sessVars, endVars, memVars, ctlVars
<1> QED  BY <1>1, <1>2, <1>3, <1>4, <1>5, <1>6, <1>7, <1>8, <1>9, <1>10, <1>11, <1>12, <1>13, <1>14, <1>15, <1>16, <1>17, <1>18, <1>19, <1>20, <1>21, <1>22, <1>23, <1>24, <1>25, <1>26, <1>27, <1>28, <1>29, <1>30 DEF Next

\* Whatever is killed or edited, the frozen baseline is a copy of the shipped
\* sources: TaskSession.create only ever runs on the original tree.
THEOREM BaselineHolds == Spec => []BaselineIsOriginal
<1>1. Init => BaseInv
  BY DEF Init, BaseInv
<1>2. BaseInv => BaselineIsOriginal
  BY DEF BaseInv, BaselineIsOriginal
<1> QED  BY <1>1, <1>2, BaseStep, PTL DEF Spec

-----------------------------------------------------------------------------
(* Saved verdicts                                                          *)

Trusting == {"bind", "agent_context", "validation_context", "launch", "agent", "evaluate",
             "compile", "correctness", "tools", "performance", "settle", "export",
             "exported", "finalize", "complete"}

\* How the verdict in memory, the report on disk and the saved evidence of
\* the initial checks keep step: the report is the verdict, an accepted one is
\* justified, and while the checks run all those before the cursor are.
VerdictInv ==
  /\ pc \notin Trusting \cup {"report"} => verdict = "none"
  /\ pc \in Trusting => verdict = report
  /\ pc \in {"create", "validate", "report"} \/ sess = 0 => report = "none"
  /\ pc \in Trusting \cup {"validate", "report"} => sess # 0
  /\ pc = "validate" =>
       \A i \in 1 .. (cursor - 1) : Accepts(InitialChecks[i], saved[InitialChecks[i]])
  /\ pc = "report" /\ verdict = "accepted" => Justified
  /\ report = "accepted" => Justified
  /\ pc = "agent" => verdict = "accepted"

\* The verdict only depends on the evidence of the initial checks.
LEMMA SameEvidence ==
  ASSUME spec' = spec, \/ saved' = saved
                       \/ \A k \in InitialKeys : saved'[k] = saved[k]
  PROVE  Justified' <=> Justified
<1>1. InitialChecks' = InitialChecks
  BY InitialChecksStable
<1>2. \A i \in DOMAIN InitialChecks : saved'[InitialChecks[i]] = saved[InitialChecks[i]]
  BY InitialCheckKeys
<1> QED  BY <1>1, <1>2 DEF Justified, Accepts

\* Whether a session loads depends on its files and the protected ones only.
LEMMA SameSession ==
  ASSUME UNCHANGED <<spec, intact, frozen, sess, torn, saved, report>>
  PROVE  Loads' <=> Loads
<1>1. Justified' <=> Justified
  BY SameEvidence
<1>2. Covered' <=> Covered
  BY DEF Covered
<1> QED  BY <1>1, <1>2, Zenon DEF Loads

\* The task configuration is read once.
LEMMA SpecStable == [Next]_vars => spec' = spec
<1> QED  BY DEF Next, vars, StartRun, MakeStateDirectory, WriteRunningRecord, CopyTask, SealWorkspace, MaterializationFails, ReuseWorkspace, LoadSession, BeginCreate, CreateSession, BindRuntime, InitialCheck, WriteInitialReport, WriteContext, LaunchAgent, AgentEdits, AgentReturns, BeginEvaluation, CandidateAction, CandidateRefused, RunTools, Settle, RunExporter, CheckExport, WriteResult, WriteCompletion, RunRaises, Crash, OutsideEdit

\* No step separates a verdict from its evidence.
LEMMA VerdictStep == TypeInv /\ VerdictInv /\ [Next]_vars => VerdictInv'
<1> SUFFICES ASSUME TypeInv, VerdictInv, [Next]_vars PROVE VerdictInv'
  OBVIOUS
<1> USE DEF VerdictInv, Trusting
<1>a. spec' = spec
  BY SpecStable
<1>b. InitialChecks' = InitialChecks
  BY <1>a, InitialChecksStable
<1>1. CASE StartRun
  <2>1. UNCHANGED <<saved, report, sess>>
    BY <1>1 DEF StartRun, matVars, sessVars, endVars, memVars, ctlVars
  <2> QED  BY <1>a, <1>b, <1>1, <2>1, SameEvidence DEF StartRun, Return, Forget, matVars, sessVars, endVars, memVars, ctlVars
<1>2. CASE MakeStateDirectory
  <2>1. UNCHANGED <<saved, report, sess>>
    BY <1>2 DEF MakeStateDirectory, matVars, sessVars, endVars, memVars, ctlVars
  <2> QED  BY <1>a, <1>b, <1>2, <2>1, SameEvidence DEF MakeStateDirectory, Return, Forget, matVars, sessVars, endVars, memVars, ctlVars
<1>3. CASE WriteRunningRecord
  <2>1. UNCHANGED <<saved, report, sess>>
    BY <1>3 DEF WriteRunningRecord, matVars, sessVars, endVars, memVars, ctlVars
  <2> QED  BY <1>a, <1>b, <1>3, <2>1, SameEvidence DEF WriteRunningRecord, Return, Forget, matVars, sessVars, endVars, memVars, ctlVars
<1>4. CASE CopyTask
  <2>1. UNCHANGED <<saved, report, sess>>
    BY <1>4 DEF CopyTask, matVars, sessVars, endVars, memVars, ctlVars
  <2> QED  BY <1>a, <1>b, <1>4, <2>1, SameEvidence DEF CopyTask, Return, Forget, matVars, sessVars, endVars, memVars, ctlVars
<1>5. CASE SealWorkspace
  <2>1. UNCHANGED <<saved, report, sess>>
    BY <1>5 DEF SealWorkspace, matVars, sessVars, endVars, memVars, ctlVars
  <2> QED  BY <1>a, <1>b, <1>5, <2>1, SameEvidence DEF SealWorkspace, Return, Forget, matVars, sessVars, endVars, memVars, ctlVars
<1>6. CASE MaterializationFails
  <2>1. UNCHANGED <<saved, report, sess>>
    BY <1>6 DEF MaterializationFails, matVars, sessVars, endVars, memVars, ctlVars
  <2> QED  BY <1>a, <1>b, <1>6, <2>1, SameEvidence DEF MaterializationFails, Return, Forget, matVars, sessVars, endVars, memVars, ctlVars
<1>7. CASE ReuseWorkspace
  <2>1. UNCHANGED <<saved, report, sess>>
    BY <1>7 DEF ReuseWorkspace, matVars, sessVars, endVars, memVars, ctlVars
  <2> QED  BY <1>a, <1>b, <1>7, <2>1, SameEvidence DEF ReuseWorkspace, Return, Forget, matVars, sessVars, endVars, memVars, ctlVars
<1>8. CASE LoadSession
  <2>1. UNCHANGED <<saved, report, sess>>
    BY <1>8 DEF LoadSession, matVars, sessVars, endVars, memVars, ctlVars
  <2> QED  BY <1>a, <1>b, <1>8, <2>1, SameEvidence DEF LoadSession, Return, Forget, matVars, sessVars, endVars, memVars, ctlVars
<1>9. CASE BeginCreate
  <2>1. UNCHANGED <<saved, report, sess>>
    BY <1>9 DEF BeginCreate, matVars, sessVars, endVars, memVars, ctlVars
  <2> QED  BY <1>a, <1>b, <1>9, <2>1, SameEvidence DEF BeginCreate, Return, Forget, matVars, sessVars, endVars, memVars, ctlVars
<1>10. CASE CreateSession
  <2>1. UNCHANGED <<saved, report>> /\ sess' # 0
    BY <1>10 DEF CreateSession, TypeInv, TypeOK, matVars, sessVars, endVars, memVars, ctlVars
  <2> QED  BY <1>a, <1>b, <1>10, <2>1, SameEvidence DEF CreateSession, matVars, sessVars, endVars, memVars, ctlVars
<1>11. CASE BindRuntime
  <2>1. UNCHANGED <<saved, report>>
    BY <1>11 DEF BindRuntime
  <2>2. CASE Return("false")
    BY <1>a, <1>b, <1>11, <2>1, <2>2, SameEvidence DEF BindRuntime, Return, Forget
  <2>3. CASE ~Return("false")
    <3>1. sess' = 7 /\ cursor' = 1 /\ UNCHANGED memVars
      BY <1>11, <2>3 DEF BindRuntime
    <3>2. 1 .. (cursor' - 1) = {}
      BY <3>1
    <3>3. pc' = IF verdict = "none" THEN "validate" ELSE "launch"
      BY <1>11, <2>3 DEF BindRuntime
    <3> QED  BY <1>a, <1>b, <1>11, <2>1, <3>1, <3>2, <3>3, SameEvidence DEF BindRuntime, memVars
  <2> QED  BY <2>2, <2>3
<1>12. CASE InitialCheck
  <2> DEFINE k == InitialChecks[cursor]
  <2>1. k \in Keys /\ cursor \in 1 .. Len(InitialChecks)
    BY <1>12, InitialCheckKeys, KeyFacts DEF InitialCheck, TypeInv
  <2>2. PICK o \in Outcomes \cup {"error"}, good \in BOOLEAN :
          /\ saved' = [saved EXCEPT ![k] = IF o = "error" THEN "none" ELSE o]
          /\ good => Accepts(k, o)
          /\ IF good
             THEN IF cursor < Len(InitialChecks)
                  THEN cursor' = cursor + 1 /\ pc' = "validate" /\ verdict' = verdict
                  ELSE cursor' = cursor /\ pc' = "report" /\ verdict' = "accepted"
             ELSE cursor' = cursor /\ pc' = "report" /\ verdict' = "rejected"
    BY <1>12 DEF InitialCheck, Outcomes
  <2>3. UNCHANGED <<report, sess>> /\ report = "none" /\ sess # 0
    BY <1>12 DEF InitialCheck
  <2>4. CASE ~good
    BY <1>12, <2>2, <2>3, <2>4 DEF InitialCheck
  <2>5. CASE good
    <3>1. saved'[k] = o /\ Accepts(k, o)
      BY <2>1, <2>2, <2>5 DEF Accepts, TypeInv, TypeOK
    <3>2. \A i \in 1 .. cursor : InitialChecks[i] \in Keys
      BY <2>1, InitialCheckKeys, InitialChecksSeq, KeyFacts
    <3>3. \A i \in 1 .. cursor : i = cursor \/ i \in 1 .. (cursor - 1)
      BY <2>1, InitialChecksSeq
    <3>4. ASSUME NEW i \in 1 .. cursor PROVE Accepts(InitialChecks[i], saved'[InitialChecks[i]])
      <4>1. CASE InitialChecks[i] = k
        BY <3>1, <4>1
      <4>2. CASE InitialChecks[i] # k
        <5>1. i \in 1 .. (cursor - 1)
          BY <3>3, <4>2
        <5>2. Accepts(InitialChecks[i], saved[InitialChecks[i]])
          BY <1>12, <5>1 DEF InitialCheck
        <5>3. saved'[InitialChecks[i]] = saved[InitialChecks[i]]
          BY <2>2, <3>2, <4>2 DEF TypeInv, TypeOK
        <5> QED  BY <5>2, <5>3
      <4> QED  BY <4>1, <4>2
    <3>5. CASE cursor < Len(InitialChecks)
      <4>1. cursor' - 1 = cursor /\ pc' = "validate" /\ verdict' = verdict
        BY <2>1, <2>2, <2>5, <3>5, InitialChecksSeq
      <4>2. ASSUME NEW i \in 1 .. (cursor' - 1)
            PROVE  Accepts(InitialChecks[i], saved[InitialChecks[i]])'
        BY <1>a, <1>b, <3>4, <4>1 DEF Accepts
      <4>3. verdict' = "none"
        BY <1>12, <4>1 DEF InitialCheck
      <4> QED  BY <2>3, <4>1, <4>2, <4>3
    <3>6. CASE ~(cursor < Len(InitialChecks))
      <4>1. cursor = Len(InitialChecks) /\ pc' = "report"
        BY <2>1, <2>2, <2>5, <3>6, InitialChecksSeq
      <4>2. Justified'
        BY <1>a, <1>b, <3>4, <4>1, InitialCheckKeys DEF Justified, Accepts
      <4> QED  BY <2>3, <4>1, <4>2
    <3> QED  BY <3>5, <3>6
  <2> QED  BY <2>4, <2>5
<1>13. CASE WriteInitialReport
  <2>1. UNCHANGED saved
    BY <1>13 DEF WriteInitialReport
  <2>2. report' = verdict /\ verdict' = verdict /\ sess' = sess /\ sess # 0
    BY <1>13 DEF WriteInitialReport, memVars
  <2> QED  BY <1>a, <1>b, <1>13, <2>1, <2>2, SameEvidence DEF WriteInitialReport
<1>14. CASE WriteContext
  <2>1. UNCHANGED <<saved, report, sess>>
    BY <1>14 DEF WriteContext, matVars, sessVars, endVars, memVars, ctlVars
  <2> QED  BY <1>a, <1>b, <1>14, <2>1, SameEvidence DEF WriteContext, Return, Forget, matVars, sessVars, endVars, memVars, ctlVars
<1>15. CASE LaunchAgent
  <2>1. UNCHANGED <<saved, report, sess, verdict>>
    BY <1>15 DEF LaunchAgent, sessVars, memVars
  <2>2. pc' \in {"agent", "evaluate"} /\ (pc' = "agent" => verdict = "accepted")
    BY <1>15 DEF LaunchAgent
  <2> QED  BY <1>a, <1>b, <1>15, <2>1, <2>2, SameEvidence DEF LaunchAgent
<1>16. CASE AgentEdits
  <2>1. UNCHANGED <<saved, report, sess>>
    BY <1>16 DEF AgentEdits, matVars, sessVars, endVars, memVars, ctlVars
  <2> QED  BY <1>a, <1>b, <1>16, <2>1, SameEvidence DEF AgentEdits, Return, Forget, matVars, sessVars, endVars, memVars, ctlVars
<1>17. CASE AgentReturns
  <2>1. UNCHANGED <<saved, report, sess>>
    BY <1>17 DEF AgentReturns, matVars, sessVars, endVars, memVars, ctlVars
  <2> QED  BY <1>a, <1>b, <1>17, <2>1, SameEvidence DEF AgentReturns, Return, Forget, matVars, sessVars, endVars, memVars, ctlVars
<1>18. CASE BeginEvaluation
  <2>1. UNCHANGED <<saved, report, sess>>
    BY <1>18 DEF BeginEvaluation, matVars, sessVars, endVars, memVars, ctlVars
  <2> QED  BY <1>a, <1>b, <1>18, <2>1, SameEvidence DEF BeginEvaluation, Return, Forget, matVars, sessVars, endVars, memVars, ctlVars
<1>19. ASSUME NEW a \in CandidateActions, CandidateAction(a) PROVE VerdictInv'
  <2>1. PICK seen : saved' = [saved EXCEPT ![<<"submission", a>>] = seen]
    BY <1>19 DEF CandidateAction
  <2>2. \A k \in InitialKeys : saved'[k] = saved[k]
    BY <2>1, KeyFacts DEF TypeInv, TypeOK
  <2>3. UNCHANGED <<report, sess, verdict>>
    BY <1>19 DEF CandidateAction
  <2>4. pc \in CandidateActions /\ pc' \in {"correctness", "tools", "settle"}
    BY <1>19 DEF CandidateAction, After
  <2> QED  BY <1>a, <1>b, <2>2, <2>3, <2>4, SameEvidence DEF CandidateActions
<1>20. ASSUME NEW a \in CandidateActions, CandidateRefused(a) PROVE VerdictInv'
  <2>1. UNCHANGED <<saved, report, sess, verdict>> /\ pc \in CandidateActions /\ pc' = "settle"
    BY <1>20 DEF CandidateRefused, matVars, sessVars, endVars, memVars, ctlVars
  <2> QED  BY <1>a, <1>b, <2>1, SameEvidence DEF CandidateActions
<1>21. CASE RunTools
  <2>1. UNCHANGED <<saved, report, sess>>
    BY <1>21 DEF RunTools, matVars, sessVars, endVars, memVars, ctlVars
  <2> QED  BY <1>a, <1>b, <1>21, <2>1, SameEvidence DEF RunTools, Return, Forget, matVars, sessVars, endVars, memVars, ctlVars
<1>22. CASE Settle
  <2>1. UNCHANGED <<saved, report, sess>>
    BY <1>22 DEF Settle, matVars, sessVars, endVars, memVars, ctlVars
  <2> QED  BY <1>a, <1>b, <1>22, <2>1, SameEvidence DEF Settle, Return, Forget, matVars, sessVars, endVars, memVars, ctlVars
<1>23. CASE RunExporter
  <2>1. UNCHANGED <<saved, report, sess>>
    BY <1>23 DEF RunExporter, matVars, sessVars, endVars, memVars, ctlVars
  <2> QED  BY <1>a, <1>b, <1>23, <2>1, SameEvidence DEF RunExporter, Return, Forget, matVars, sessVars, endVars, memVars, ctlVars
<1>24. CASE CheckExport
  <2>1. UNCHANGED <<saved, report, sess>>
    BY <1>24 DEF CheckExport, matVars, sessVars, endVars, memVars, ctlVars
  <2> QED  BY <1>a, <1>b, <1>24, <2>1, SameEvidence DEF CheckExport, Return, Forget, matVars, sessVars, endVars, memVars, ctlVars
<1>25. CASE WriteResult
  <2>1. UNCHANGED <<saved, report, sess>>
    BY <1>25 DEF WriteResult, matVars, sessVars, endVars, memVars, ctlVars
  <2> QED  BY <1>a, <1>b, <1>25, <2>1, SameEvidence DEF WriteResult, Return, Forget, matVars, sessVars, endVars, memVars, ctlVars
<1>26. CASE WriteCompletion
  <2>1. UNCHANGED <<saved, report, sess>>
    BY <1>26 DEF WriteCompletion, matVars, sessVars, endVars, memVars, ctlVars
  <2> QED  BY <1>a, <1>b, <1>26, <2>1, SameEvidence DEF WriteCompletion, Return, Forget, matVars, sessVars, endVars, memVars, ctlVars
<1>27. CASE RunRaises
  <2>1. UNCHANGED <<saved, report, sess>>
    BY <1>27 DEF RunRaises, matVars, sessVars, endVars, memVars, ctlVars
  <2> QED  BY <1>a, <1>b, <1>27, <2>1, SameEvidence DEF RunRaises, Return, Forget, matVars, sessVars, endVars, memVars, ctlVars
<1>28. CASE Crash
  <2>1. UNCHANGED <<saved, report, sess>>
    BY <1>28 DEF Crash, matVars, sessVars, endVars, memVars, ctlVars
  <2> QED  BY <1>a, <1>b, <1>28, <2>1, SameEvidence DEF Crash, Return, Forget, matVars, sessVars, endVars, memVars, ctlVars
<1>29. CASE OutsideEdit
  <2>1. UNCHANGED <<saved, report, sess>>
    BY <1>29 DEF OutsideEdit, matVars, sessVars, endVars, memVars, ctlVars
  <2> QED  BY <1>a, <1>b, <1>29, <2>1, SameEvidence DEF OutsideEdit, Return, Forget, matVars, sessVars, endVars, memVars, ctlVars
<1>30. CASE UNCHANGED vars
  <2>1. UNCHANGED <<spec, saved, report, sess, verdict, pc, cursor>>
    BY <1>30 DEF vars, matVars, sessVars, endVars, memVars, ctlVars
  <2>2. (\A i \in 1 .. (cursor - 1) : Accepts(InitialChecks[i], saved[InitialChecks[i]]))'
          <=> \A i \in 1 .. (cursor - 1) : Accepts(InitialChecks[i], saved[InitialChecks[i]])
    BY <1>b, <2>1 DEF Accepts
  <2> QED  BY <1>a, <1>b, <2>1, <2>2, SameEvidence
<1> QED  BY <1>1, <1>2, <1>3, <1>4, <1>5, <1>6, <1>7, <1>8, <1>9, <1>10, <1>11, <1>12, <1>13, <1>14, <1>15, <1>16, <1>17, <1>18, <1>19, <1>20, <1>21, <1>22, <1>23, <1>24, <1>25, <1>26, <1>27, <1>28, <1>29, <1>30 DEF Next

\* The initial state has no verdict.
LEMMA VerdictInit == Init => VerdictInv
<1> QED  BY DEF Init, VerdictInv, Trusting

\* The report, the verdict and the evidence agree in every reachable state.
LEMMA VerdictHolds == Spec => [](TypeInv /\ VerdictInv)
<1> QED  BY TypeInit, TypeStep, VerdictInit, VerdictStep, PTL DEF Spec

\* An accepted initial report is always one that a resume will accept: the
\* commands it rests on are saved and satisfy the declared policy.
THEOREM SavedVerdictHolds == Spec => []SavedVerdictReplays
<1>1. VerdictInv => SavedVerdictReplays
  BY DEF VerdictInv, SavedVerdictReplays
<1> QED  BY <1>1, VerdictHolds, PTL

\* No agent ever runs in a session, fresh or resumed, whose initial checks
\* were not accepted on evidence that is on disk.
THEOREM AgentValidationHolds == Spec => []AgentNeedsValidation
<1>1. VerdictInv => AgentNeedsValidation
  BY DEF VerdictInv, AgentNeedsValidation, Trusting
<1> QED  BY <1>1, VerdictHolds, PTL

-----------------------------------------------------------------------------
(* Completion evidence                                                     *)

AllPassed(passed, v) == CandidateActions \X {v} \subseteq passed

Vouched(r, v) == r.accepted => report = "accepted" /\ AllPassed(r.measured, v)

Measuring == {"correctness", "tools", "performance"}

\* An evaluation measures one identity, timing comes last and only stands if
\* the candidate is still that identity, and acceptance follows the version
\* that was measured through exporters, report and completion record.
MeasureInv ==
  /\ Vouched(completion.result, completion.source)
  /\ pc = "compile" => measured = {}
  /\ pc \in {"compile"} \cup Measuring => verdict = "accepted"
  /\ pc \in Measuring =>
       \A m \in measured : m[1] # "performance" /\ m[2] = identity
  /\ pc = "settle" =>
       /\ measured # {} => verdict = "accepted"
       /\ \A m \in measured : m[2] = identity
       /\ \A m \in measured : m[1] = "performance" => tree = identity
  /\ pc \in {"export", "exported"} /\ accepted => verdict = "accepted" /\ AllPassed(measured, before)
  /\ pc = "finalize" /\ accepted => verdict = "accepted" /\ AllPassed(measured, tree)
  /\ pc = "complete" => Vouched(result, tree)

\* No step lets an acceptance outlive the version it was measured on.
LEMMA MeasureStep == TypeInv /\ VerdictInv /\ MeasureInv /\ [Next]_vars => MeasureInv'
<1> SUFFICES ASSUME TypeInv, VerdictInv, MeasureInv, [Next]_vars PROVE MeasureInv'
  OBVIOUS
<1> USE DEF MeasureInv, Measuring, Vouched
<1>1. CASE StartRun
  BY <1>1 DEF StartRun, Return, Forget, matVars, sessVars, endVars, memVars, ctlVars
<1>2. CASE MakeStateDirectory
  BY <1>2 DEF MakeStateDirectory, Return, Forget, matVars, sessVars, endVars, memVars, ctlVars
<1>3. CASE WriteRunningRecord
  BY <1>3 DEF WriteRunningRecord, Return, Forget, matVars, sessVars, endVars, memVars, ctlVars
<1>4. CASE CopyTask
  BY <1>4 DEF CopyTask, Return, Forget, matVars, sessVars, endVars, memVars, ctlVars
<1>5. CASE SealWorkspace
  BY <1>5 DEF SealWorkspace, Return, Forget, matVars, sessVars, endVars, memVars, ctlVars
<1>6. CASE MaterializationFails
  BY <1>6 DEF MaterializationFails, Return, Forget, matVars, sessVars, endVars, memVars, ctlVars
<1>7. CASE ReuseWorkspace
  BY <1>7 DEF ReuseWorkspace, Return, Forget, matVars, sessVars, endVars, memVars, ctlVars
<1>8. CASE LoadSession
  BY <1>8 DEF LoadSession, Return, Forget, matVars, sessVars, endVars, memVars, ctlVars
<1>9. CASE BeginCreate
  BY <1>9 DEF BeginCreate, Return, Forget, matVars, sessVars, endVars, memVars, ctlVars
<1>10. CASE CreateSession
  BY <1>10 DEF CreateSession, Return, Forget, matVars, sessVars, endVars, memVars, ctlVars
<1>11. CASE BindRuntime
  BY <1>11 DEF BindRuntime, Return, Forget, matVars, sessVars, endVars, memVars, ctlVars
<1>12. CASE InitialCheck
  BY <1>12 DEF InitialCheck, Return, Forget, matVars, sessVars, endVars, memVars, ctlVars
<1>13. CASE WriteInitialReport
  <2>1. UNCHANGED completion /\ report = "none" /\ pc' \in {"agent_context", "validation_context"}
    BY <1>13 DEF WriteInitialReport, VerdictInv, endVars
  <2> QED  BY <2>1
<1>14. CASE WriteContext
  BY <1>14 DEF WriteContext, Return, Forget, matVars, sessVars, endVars, memVars, ctlVars
<1>15. CASE LaunchAgent
  BY <1>15 DEF LaunchAgent, Return, Forget, matVars, sessVars, endVars, memVars, ctlVars
<1>16. CASE AgentEdits
  BY <1>16 DEF AgentEdits, Return, Forget, matVars, sessVars, endVars, memVars, ctlVars
<1>17. CASE AgentReturns
  BY <1>17 DEF AgentReturns, Return, Forget, matVars, sessVars, endVars, memVars, ctlVars
<1>18. CASE BeginEvaluation
  BY <1>18 DEF BeginEvaluation, Return, Forget, matVars, sessVars, endVars, memVars, ctlVars
<1>19. ASSUME NEW a \in CandidateActions, CandidateAction(a) PROVE MeasureInv'
  <2>1. PICK v \in Versions, good \in BOOLEAN :
          /\ tree' = v /\ (good => v = tree)
          /\ measured' = IF good THEN measured \cup {<<a, tree>>} ELSE measured
          /\ pc' = IF good THEN After(a) ELSE "settle"
    BY <1>19 DEF CandidateAction
  <2>2. UNCHANGED <<completion, report, verdict>> /\ verdict = "accepted"
    BY <1>19 DEF CandidateAction, CandidateActions, endVars
  <2>3. /\ pc = a /\ tree = identity'
        /\ identity' = identity \/ measured = {}
    BY <1>19 DEF CandidateAction, SameCandidate
  <2>4. \A m \in measured' : m[2] = identity'
    BY <2>1, <2>3 DEF CandidateActions
  <2>5. /\ \A m \in measured : m[1] # "performance"
        /\ pc' # "settle" => \A m \in measured' : m[1] # "performance"
        /\ pc' \in {"correctness", "tools", "settle"}
    BY <2>1, <2>3 DEF After, CandidateActions
  <2>6. \A m \in measured' : m[1] = "performance" => tree' = identity'
    BY <2>1, <2>3, <2>5
  <2> QED  BY <2>2, <2>4, <2>5, <2>6
<1>20. ASSUME NEW a \in CandidateActions, CandidateRefused(a) PROVE MeasureInv'
  <2>1. UNCHANGED <<completion, report, measured, identity, verdict, tree>>
    BY <1>20 DEF CandidateRefused, matVars, sessVars, endVars, memVars, ctlVars
  <2>2. pc \in CandidateActions /\ pc' = "settle"
    BY <1>20 DEF CandidateRefused
  <2> QED  BY <2>1, <2>2 DEF CandidateActions
<1>21. CASE RunTools
  BY <1>21 DEF RunTools, Return, Forget, matVars, sessVars, endVars, memVars, ctlVars
<1>22. CASE Settle
  <2>1. UNCHANGED <<completion, report, verdict, measured>> /\ before' = tree /\ tree' = tree
    BY <1>22 DEF Settle, matVars, sessVars
  <2>2. pc' \in {"export", "finalize"}
    BY <1>22 DEF Settle
  <2>3. ASSUME accepted' PROVE verdict = "accepted" /\ AllPassed(measured, tree)
    <3>1. \A a \in CandidateActions : \E m \in measured : m[1] = a
      BY <1>22, <2>3 DEF Settle
    <3>2. \A m \in measured : m = <<m[1], m[2]>> /\ m[2] = identity
      BY <1>22 DEF Settle, TypeInv, TypeOK
    <3>3. "performance" \in CandidateActions
      BY DEF CandidateActions
    <3>4. tree = identity
      BY <1>22, <3>1, <3>3 DEF Settle
    <3>5. \A a \in CandidateActions : <<a, tree>> \in measured
      BY <3>1, <3>2, <3>4
    <3> QED  BY <1>22, <3>1, <3>3, <3>5 DEF Settle, AllPassed
  <2> QED  BY <2>1, <2>2, <2>3
<1>23. CASE RunExporter
  BY <1>23 DEF RunExporter, Return, Forget, matVars, sessVars, endVars, memVars, ctlVars
<1>24. CASE CheckExport
  BY <1>24 DEF CheckExport, Return, Forget, matVars, sessVars, endVars, memVars, ctlVars
<1>25. CASE WriteResult
  <2>1. UNCHANGED <<completion, report, tree>>
    BY <1>25 DEF WriteResult, matVars, sessVars
  <2>2. result'.accepted = accepted /\ result'.measured = measured
    BY <1>25 DEF WriteResult
  <2>3. accepted => report = "accepted" /\ AllPassed(measured, tree)
    BY <1>25 DEF WriteResult, VerdictInv, Trusting
  <2> QED  BY <1>25, <2>1, <2>2, <2>3 DEF WriteResult
<1>26. CASE WriteCompletion
  <2>1. completion'.result = result /\ completion'.source = tree /\ pc' = "off" /\ report' = report
    BY <1>26 DEF WriteCompletion, Return, sessVars
  <2> QED  BY <1>26, <2>1 DEF WriteCompletion
<1>27. CASE RunRaises
  BY <1>27 DEF RunRaises, Return, Forget, matVars, sessVars, endVars, memVars, ctlVars
<1>28. CASE Crash
  BY <1>28 DEF Crash, Return, Forget, matVars, sessVars, endVars, memVars, ctlVars
<1>29. CASE OutsideEdit
  BY <1>29 DEF OutsideEdit, Return, Forget, matVars, sessVars, endVars, memVars, ctlVars
<1>30. CASE UNCHANGED vars
  BY <1>30 DEF vars, Return, Forget, matVars, sessVars, endVars, memVars, ctlVars
<1> QED  BY <1>1, <1>2, <1>3, <1>4, <1>5, <1>6, <1>7, <1>8, <1>9, <1>10, <1>11, <1>12, <1>13, <1>14, <1>15, <1>16, <1>17, <1>18, <1>19, <1>20, <1>21, <1>22, <1>23, <1>24, <1>25, <1>26, <1>27, <1>28, <1>29, <1>30 DEF Next

\* Initially there is nothing to vouch for.
LEMMA MeasureInit == Init => MeasureInv
<1> QED  BY DEF Init, MeasureInv, Vouched, Measuring, NoCompletion, NoResult

\* A task that counts as complete with an accepted candidate was compiled,
\* checked and timed, in one evaluation after accepted initial checks, in the
\* version its workspace holds now, for any history of kills and edits.
THEOREM CompletionHolds == Spec => []CompletionIsMeasured
<1>1. TypeInv /\ MeasureInv => CompletionIsMeasured
  <2> SUFFICES ASSUME TypeInv, MeasureInv, Complete, result.accepted
               PROVE  report = "accepted" /\ CandidateActions \X {tree} \subseteq result.measured
    BY DEF CompletionIsMeasured
  <2>1. completion.result = result /\ completion.source = tree
    BY DEF Complete
  <2> QED  BY <2>1 DEF MeasureInv, Vouched, AllPassed
<1> QED  BY <1>1, TypeInit, TypeStep, VerdictInit, VerdictStep, MeasureInit, MeasureStep, PTL DEF Spec

-----------------------------------------------------------------------------
(* Tasks that can be run again                                             *)

\* No workspace yet, or one that is materialized: what a run that is not
\* killed holds at each of its steps.
Fresh == tree = NoTree /\ mat = "none" /\ sess = 0
Standing == mat = "complete" /\ tree # NoTree
Building == {"record", "copy", "seal", "session", "create"}

\* Each step of the materialization has left its record, nothing is damaged
\* before a session exists, and with no kill and no failed setup a run only
\* leaves the task between these steps from a clean slate or with its
\* workspace complete; a session is created beside the shipped sources only.
ResumeInv ==
  /\ pc = "record" => mat = "made"
  /\ pc \in {"copy", "seal"} => mat = "running"
  /\ sess < 6 => intact
  /\ pc \notin Building \cup {"off", "setup"} => sess >= 6
  /\ crashes = 0 /\ mat # "failed" =>
       /\ ~torn
       /\ pc \in {"off", "setup"} => Fresh \/ Standing
       /\ pc \in {"record", "copy"} => tree = NoTree /\ sess = 0
       /\ pc = "seal" => tree = Original /\ sess = 0
       /\ pc = "session" => Standing /\ (sess = 0 => tree = Original)
       /\ pc = "create" => Standing /\ tree = Original
       /\ pc \notin Building \cup {"off", "setup"} => Standing

\* Without a kill, no step leaves the task half built.
LEMMA ResumeStep == TypeInv /\ ResumeInv /\ [Next]_vars => ResumeInv'
<1> SUFFICES ASSUME TypeInv, ResumeInv, [Next]_vars PROVE ResumeInv'
  OBVIOUS
<1>a. NoTree \notin Versions /\ Original \in Versions /\ NoTree # Original
  BY TaskRunAssumption
<1>b. sess \in 0 .. 7 /\ crashes \in Nat /\ pc \in PcValues
  BY DEF TypeInv, TypeOK
<1> USE DEF ResumeInv, Fresh, Standing, Building
<1>1. CASE StartRun
  BY <1>a, <1>b, <1>1 DEF StartRun, Return, Forget, matVars, sessVars, endVars, memVars, ctlVars
<1>2. CASE MakeStateDirectory
  BY <1>a, <1>b, <1>2 DEF MakeStateDirectory, Return, Forget, matVars, sessVars, endVars, memVars, ctlVars
<1>3. CASE WriteRunningRecord
  BY <1>a, <1>b, <1>3 DEF WriteRunningRecord, Return, Forget, matVars, sessVars, endVars, memVars, ctlVars
<1>4. CASE CopyTask
  BY <1>a, <1>b, <1>4 DEF CopyTask, Return, Forget, matVars, sessVars, endVars, memVars, ctlVars
<1>5. CASE SealWorkspace
  BY <1>a, <1>b, <1>5 DEF SealWorkspace, Return, Forget, matVars, sessVars, endVars, memVars, ctlVars
<1>6. CASE MaterializationFails
  BY <1>a, <1>b, <1>6 DEF MaterializationFails, Return, Forget, matVars, sessVars, endVars, memVars, ctlVars
<1>7. CASE ReuseWorkspace
  BY <1>a, <1>b, <1>7 DEF ReuseWorkspace, Return, Forget, matVars, sessVars, endVars, memVars, ctlVars
<1>8. CASE LoadSession
  <2>1. pc = "session" /\ sess > 0 /\ pc' \in {"bind", "off"}
    BY <1>8 DEF LoadSession, Return
  <2>2. UNCHANGED <<mat, tree, intact, sess, torn, crashes>>
    BY <1>8 DEF LoadSession, matVars, sessVars, ctlVars
  <2>3. (pc' = "bind" => sess >= 6) /\ (pc' = "off" \/ pc' = "bind")
    BY <1>8 DEF LoadSession, Loads, Return
  <2> QED  BY <1>b, <2>1, <2>2, <2>3
<1>9. CASE BeginCreate
  BY <1>a, <1>b, <1>9 DEF BeginCreate, Return, Forget, matVars, sessVars, endVars, memVars, ctlVars
<1>10. CASE CreateSession
  BY <1>a, <1>b, <1>10 DEF CreateSession, Return, Forget, matVars, sessVars, endVars, memVars, ctlVars
<1>11. CASE BindRuntime
  BY <1>a, <1>b, <1>11 DEF BindRuntime, Return, Forget, matVars, sessVars, endVars, memVars, ctlVars
<1>12. CASE InitialCheck
  BY <1>a, <1>b, <1>12 DEF InitialCheck, Return, Forget, matVars, sessVars, endVars, memVars, ctlVars
<1>13. CASE WriteInitialReport
  BY <1>a, <1>b, <1>13 DEF WriteInitialReport, Return, Forget, matVars, sessVars, endVars, memVars, ctlVars
<1>14. CASE WriteContext
  BY <1>a, <1>b, <1>14 DEF WriteContext, Return, Forget, matVars, sessVars, endVars, memVars, ctlVars
<1>15. CASE LaunchAgent
  BY <1>a, <1>b, <1>15 DEF LaunchAgent, Return, Forget, matVars, sessVars, endVars, memVars, ctlVars
<1>16. CASE AgentEdits
  BY <1>a, <1>b, <1>16 DEF AgentEdits, Return, Forget, matVars, sessVars, endVars, memVars, ctlVars
<1>17. CASE AgentReturns
  BY <1>a, <1>b, <1>17 DEF AgentReturns, Return, Forget, matVars, sessVars, endVars, memVars, ctlVars
<1>18. CASE BeginEvaluation
  BY <1>a, <1>b, <1>18 DEF BeginEvaluation, Return, Forget, matVars, sessVars, endVars, memVars, ctlVars
<1>19. ASSUME NEW a \in CandidateActions, CandidateAction(a) PROVE ResumeInv'
  <2>1. pc \in CandidateActions /\ pc' \in {"correctness", "tools", "settle"}
    BY <1>19 DEF CandidateAction, After, CandidateActions
  <2>2. UNCHANGED <<mat, sess, torn, crashes>> /\ tree' \in Versions
    BY <1>19 DEF CandidateAction, ctlVars
  <2>3. sess >= 6 /\ (crashes = 0 /\ mat # "failed" => ~torn /\ Standing)
    BY <2>1 DEF CandidateActions
  <2>4. tree' # NoTree /\ sess' >= 6 /\ ~(sess' < 6)
    BY <1>a, <1>b, <2>2, <2>3
  <2> QED  BY <2>1, <2>2, <2>3, <2>4
<1>20. ASSUME NEW a \in CandidateActions, CandidateRefused(a) PROVE ResumeInv'
  <2>1. pc \in CandidateActions /\ pc' = "settle"
    BY <1>20 DEF CandidateRefused
  <2>2. UNCHANGED <<mat, tree, intact, sess, torn, crashes>>
    BY <1>20 DEF CandidateRefused, matVars, sessVars, ctlVars
  <2> QED  BY <2>1, <2>2 DEF CandidateActions
<1>21. CASE RunTools
  BY <1>a, <1>b, <1>21 DEF RunTools, Return, Forget, matVars, sessVars, endVars, memVars, ctlVars
<1>22. CASE Settle
  BY <1>a, <1>b, <1>22 DEF Settle, Return, Forget, matVars, sessVars, endVars, memVars, ctlVars
<1>23. CASE RunExporter
  BY <1>a, <1>b, <1>23 DEF RunExporter, Return, Forget, matVars, sessVars, endVars, memVars, ctlVars
<1>24. CASE CheckExport
  BY <1>a, <1>b, <1>24 DEF CheckExport, Return, Forget, matVars, sessVars, endVars, memVars, ctlVars
<1>25. CASE WriteResult
  BY <1>a, <1>b, <1>25 DEF WriteResult, Return, Forget, matVars, sessVars, endVars, memVars, ctlVars
<1>26. CASE WriteCompletion
  BY <1>a, <1>b, <1>26 DEF WriteCompletion, Return, Forget, matVars, sessVars, endVars, memVars, ctlVars
<1>27. CASE RunRaises
  BY <1>a, <1>b, <1>27 DEF RunRaises, Return, Forget, matVars, sessVars, endVars, memVars, ctlVars
<1>28. CASE Crash
  <2>1. pc' = "off" /\ crashes' # 0
    BY <1>28 DEF Crash, Return, TypeInv, TypeOK
  <2>2. UNCHANGED <<mat, tree, sess, intact>>
    BY <1>28 DEF Crash, matVars
  <2> QED  BY <2>1, <2>2
<1>29. CASE OutsideEdit
  BY <1>a, <1>b, <1>29 DEF OutsideEdit, Return, Forget, matVars, sessVars, endVars, memVars, ctlVars
<1>30. CASE UNCHANGED vars
  BY <1>a, <1>b, <1>30 DEF vars, Return, Forget, matVars, sessVars, endVars, memVars, ctlVars
<1> QED  BY <1>1, <1>2, <1>3, <1>4, <1>5, <1>6, <1>7, <1>8, <1>9, <1>10, <1>11, <1>12, <1>13, <1>14, <1>15, <1>16, <1>17, <1>18, <1>19, <1>20, <1>21, <1>22, <1>23, <1>24, <1>25, <1>26, <1>27, <1>28, <1>29, <1>30 DEF Next

\* Initially the slate is clean.
LEMMA ResumeInit == Init => ResumeInv
<1> QED  BY DEF Init, ResumeInv, Fresh, Standing, Building

\* No order of runs, raised exceptions, rejected validations and edits leaves
\* a task that every later run refuses, unless a run was killed or one of the
\* listed ways to spoil it happened: its setup failed, something protected or
\* a declared path was changed, the candidate was edited before there was a
\* session, the session was not created to the end, or the task check passed
\* without a performance case.
THEOREM BlocksHold == Spec => []NothingElseBlocks
<1>1. TypeInv /\ ResumeInv /\ VerdictInv => NothingElseBlocks
  BY DEF TypeInv, TypeOK, ResumeInv, Fresh, Standing, Building, VerdictInv, NothingElseBlocks, Resumable, Spoiled, Loads
<1> QED  BY <1>1, TypeInit, TypeStep, VerdictInit, VerdictStep, ResumeInit, ResumeStep, PTL DEF Spec

-----------------------------------------------------------------------------
(* The order of the evidence                                               *)

\* What happened before each step: the workspace exists once it was copied, a
\* record can only be cut short in a finished session directory and no run
\* works on one that is, the baseline is frozen by the second file of that
\* directory, and each action of an evaluation finds the ones it builds on,
\* passed for the identity it has, also after the tools had their turn.
OrderInv ==
  /\ pc \notin {"off", "setup", "record", "copy"} => tree # NoTree
  /\ torn => sess >= 6
  /\ pc \notin (Building \ {"create"}) \cup {"off", "setup"} => ~torn
  /\ sess >= 2 => base = Original
  /\ pc = "correctness" => <<"compile", identity>> \in measured
  /\ pc \in {"tools", "performance"} =>
       <<"compile", identity>> \in measured /\ <<"correctness", identity>> \in measured
  /\ pc = "complete" => result.measured = measured

\* No step skips what the next one relies on.
LEMMA OrderStep == TypeInv /\ BaseInv /\ ResumeInv /\ OrderInv /\ [Next]_vars => OrderInv'
<1> SUFFICES ASSUME TypeInv, BaseInv, ResumeInv, OrderInv, [Next]_vars PROVE OrderInv'
  OBVIOUS
<1>a. NoTree \notin Versions /\ Original \in Versions /\ NoTree # Original
  BY TaskRunAssumption
<1>b. /\ sess \in 0 .. 7 /\ pc \in PcValues /\ tree \in Versions \cup {NoTree}
      /\ base \in {NoTree, Original} /\ (pc = "create" => tree = Original /\ sess < 6)
      /\ pc \notin Building \cup {"off", "setup"} => sess >= 6
  BY DEF TypeInv, TypeOK, BaseInv, ResumeInv
<1> USE DEF OrderInv, Building
<1>1. CASE StartRun
  BY <1>a, <1>b, <1>1 DEF StartRun, Return, Forget, matVars, sessVars, endVars, memVars, ctlVars
<1>2. CASE MakeStateDirectory
  BY <1>a, <1>b, <1>2 DEF MakeStateDirectory, Return, Forget, matVars, sessVars, endVars, memVars, ctlVars
<1>3. CASE WriteRunningRecord
  BY <1>a, <1>b, <1>3 DEF WriteRunningRecord, Return, Forget, matVars, sessVars, endVars, memVars, ctlVars
<1>4. CASE CopyTask
  BY <1>a, <1>b, <1>4 DEF CopyTask, Return, Forget, matVars, sessVars, endVars, memVars, ctlVars
<1>5. CASE SealWorkspace
  BY <1>a, <1>b, <1>5 DEF SealWorkspace, Return, Forget, matVars, sessVars, endVars, memVars, ctlVars
<1>6. CASE MaterializationFails
  BY <1>a, <1>b, <1>6 DEF MaterializationFails, Return, Forget, matVars, sessVars, endVars, memVars, ctlVars
<1>7. CASE ReuseWorkspace
  BY <1>a, <1>b, <1>7 DEF ReuseWorkspace, Return, Forget, matVars, sessVars, endVars, memVars, ctlVars
<1>8. CASE LoadSession
  <2>1. pc = "session" /\ pc' \in {"bind", "off"} /\ (pc' = "bind" => ~torn)
    BY <1>8 DEF LoadSession, Loads, Return
  <2>2. UNCHANGED <<tree, sess, base, torn>>
    BY <1>8 DEF LoadSession, matVars, sessVars
  <2> QED  BY <2>1, <2>2
<1>9. CASE BeginCreate
  BY <1>a, <1>b, <1>9 DEF BeginCreate, Return, Forget, matVars, sessVars, endVars, memVars, ctlVars
<1>10. CASE CreateSession
  <2>1. /\ sess' = sess + 1 /\ UNCHANGED <<tree, torn>>
        /\ base' = IF sess = 1 THEN tree ELSE base
        /\ pc = "create" /\ pc' \in {"bind", "create"}
    BY <1>10 DEF CreateSession, matVars
  <2>2. ~torn /\ tree = Original
    BY <1>b, <2>1
  <2> QED  BY <1>a, <1>b, <2>1, <2>2
<1>11. CASE BindRuntime
  BY <1>a, <1>b, <1>11 DEF BindRuntime, Return, Forget, matVars, sessVars, endVars, memVars, ctlVars
<1>12. CASE InitialCheck
  BY <1>a, <1>b, <1>12 DEF InitialCheck, Return, Forget, matVars, sessVars, endVars, memVars, ctlVars
<1>13. CASE WriteInitialReport
  BY <1>a, <1>b, <1>13 DEF WriteInitialReport, Return, Forget, matVars, sessVars, endVars, memVars, ctlVars
<1>14. CASE WriteContext
  BY <1>a, <1>b, <1>14 DEF WriteContext, Return, Forget, matVars, sessVars, endVars, memVars, ctlVars
<1>15. CASE LaunchAgent
  BY <1>a, <1>b, <1>15 DEF LaunchAgent, Return, Forget, matVars, sessVars, endVars, memVars, ctlVars
<1>16. CASE AgentEdits
  BY <1>a, <1>b, <1>16 DEF AgentEdits, Return, Forget, matVars, sessVars, endVars, memVars, ctlVars
<1>17. CASE AgentReturns
  BY <1>a, <1>b, <1>17 DEF AgentReturns, Return, Forget, matVars, sessVars, endVars, memVars, ctlVars
<1>18. CASE BeginEvaluation
  BY <1>a, <1>b, <1>18 DEF BeginEvaluation, Return, Forget, matVars, sessVars, endVars, memVars, ctlVars
<1>19. ASSUME NEW a \in CandidateActions, CandidateAction(a) PROVE OrderInv'
  <2>1. PICK v \in Versions, good \in BOOLEAN :
          /\ tree' = v /\ (good => v = tree)
          /\ measured' = IF good THEN measured \cup {<<a, tree>>} ELSE measured
          /\ pc' = IF good THEN After(a) ELSE "settle"
    BY <1>19 DEF CandidateAction
  <2>2. UNCHANGED <<sess, base, torn>> /\ pc = a /\ tree = identity'
    BY <1>19 DEF CandidateAction, SameCandidate
  <2>3. a # "compile" => identity' = identity
    BY <1>19 DEF CandidateAction
  <2>4. ~torn /\ tree' # NoTree
    BY <1>a, <2>1, <2>2 DEF CandidateActions
  <2>5. pc' \in {"correctness", "tools", "settle"}
    BY <2>1 DEF After
  <2>6. CASE pc' = "settle"
    BY <2>2, <2>4, <2>6
  <2>7. CASE pc' = "correctness"
    <3>1. a = "compile" /\ good
      BY <2>1, <2>7 DEF After, CandidateActions
    <3>2. <<"compile", identity'>> \in measured'
      BY <2>1, <2>2, <3>1
    <3> QED  BY <2>2, <2>4, <2>7, <3>2
  <2>8. CASE pc' = "tools"
    <3>1. a = "correctness" /\ good
      BY <2>1, <2>8 DEF After, CandidateActions
    <3>2. <<"compile", identity'>> \in measured' /\ <<"correctness", identity'>> \in measured'
      BY <2>1, <2>2, <2>3, <3>1
    <3> QED  BY <2>2, <2>4, <2>8, <3>2
  <2> QED  BY <2>5, <2>6, <2>7, <2>8
<1>20. ASSUME NEW a \in CandidateActions, CandidateRefused(a) PROVE OrderInv'
  <2>1. pc \in CandidateActions /\ pc' = "settle" /\ UNCHANGED <<tree, sess, base, torn>>
    BY <1>20 DEF CandidateRefused, matVars, sessVars
  <2> QED  BY <2>1 DEF CandidateActions
<1>21. CASE RunTools
  BY <1>a, <1>b, <1>21 DEF RunTools, Return, Forget, matVars, sessVars, endVars, memVars, ctlVars
<1>22. CASE Settle
  BY <1>a, <1>b, <1>22 DEF Settle, Return, Forget, matVars, sessVars, endVars, memVars, ctlVars
<1>23. CASE RunExporter
  BY <1>a, <1>b, <1>23 DEF RunExporter, Return, Forget, matVars, sessVars, endVars, memVars, ctlVars
<1>24. CASE CheckExport
  BY <1>a, <1>b, <1>24 DEF CheckExport, Return, Forget, matVars, sessVars, endVars, memVars, ctlVars
<1>25. CASE WriteResult
  BY <1>a, <1>b, <1>25 DEF WriteResult, Return, Forget, matVars, sessVars, endVars, memVars, ctlVars
<1>26. CASE WriteCompletion
  BY <1>a, <1>b, <1>26 DEF WriteCompletion, Return, Forget, matVars, sessVars, endVars, memVars, ctlVars
<1>27. CASE RunRaises
  BY <1>a, <1>b, <1>27 DEF RunRaises, Return, Forget, matVars, sessVars, endVars, memVars, ctlVars
<1>28. CASE Crash
  <2>1. pc' = "off" /\ UNCHANGED <<tree, sess, base>>
    BY <1>28 DEF Crash, Return, matVars
  <2>2. torn' => torn \/ TearsEvidence
    BY <1>28, Zenon DEF Crash
  <2>3. TearsEvidence => sess >= 6
    BY <1>b DEF TearsEvidence, CandidateActions
  <2> QED  BY <2>1, <2>2, <2>3
<1>29. CASE OutsideEdit
  BY <1>a, <1>b, <1>29 DEF OutsideEdit, Return, Forget, matVars, sessVars, endVars, memVars, ctlVars
<1>30. CASE UNCHANGED vars
  BY <1>b, <1>30 DEF vars, matVars, sessVars, endVars, memVars, ctlVars
<1> QED  BY <1>1, <1>2, <1>3, <1>4, <1>5, <1>6, <1>7, <1>8, <1>9, <1>10, <1>11, <1>12, <1>13, <1>14, <1>15, <1>16, <1>17, <1>18, <1>19, <1>20, <1>21, <1>22, <1>23, <1>24, <1>25, <1>26, <1>27, <1>28, <1>29, <1>30 DEF Next

\* Initially nothing happened.
LEMMA OrderInit == Init => OrderInv
<1> QED  BY DEF Init, OrderInv, Building

\* Everything the theorems below use of a state.
EvidenceInv == TypeInv /\ BaseInv /\ VerdictInv /\ MeasureInv /\ ResumeInv /\ OrderInv

LEMMA EvidenceInvHolds == Spec => []EvidenceInv
<1>1. Init => BaseInv
  BY DEF Init, BaseInv
<1> QED  BY <1>1, TypeInit, TypeStep, BaseStep, VerdictInit, VerdictStep, MeasureInit, MeasureStep,
            ResumeInit, ResumeStep, OrderInit, OrderStep, PTL DEF Spec, EvidenceInv

-----------------------------------------------------------------------------
(* TaskEvidence                                                            *)

\* Every other step leaves the evidence alone, but for the memory of an
\* evaluation that it may lose.
Loses ==
  /\ UNCHANGED <<base, report, completion>>
  /\ measured' \in {measured, {}}

\* A step that keeps what is on disk is a step or a stutter of TaskEvidence.
LEMMA LosesIsForget ==
  ASSUME Loses
  PROVE  [Evidence!Next]_(Evidence!evidenceVars)
<1> QED  BY DEF Loses, Evidence!Next, Evidence!Forget, Evidence!evidenceVars

\* An action of an evaluation that passes finds what it builds on.
LEMMA ActionPasses ==
  ASSUME EvidenceInv, NEW a \in CandidateActions, CandidateAction(a)
  PROVE  [Evidence!Next]_(Evidence!evidenceVars)
<1>1. UNCHANGED <<base, report, completion>> /\ pc = a
  BY DEF CandidateAction, endVars
<1>2. tree \in Versions /\ (a = "compile" => measured = {}) /\ (a # "compile" => tree = identity)
  BY <1>1 DEF CandidateAction, SameCandidate, EvidenceInv, OrderInv, Building, CandidateActions,
              MeasureInv, TypeInv, TypeOK
<1>3. report = "accepted"
  BY <1>1 DEF EvidenceInv, MeasureInv, VerdictInv, Trusting, Measuring, CandidateActions
<1>4. \A m \in measured : m[2] = tree
  BY <1>1, <1>2 DEF EvidenceInv, MeasureInv, Measuring, CandidateActions
<1>5. /\ a \in Evidence!Actions
      /\ Evidence!Before[a] \X {tree} \subseteq measured
  <2>1. CASE a = "compile"
    BY <2>1 DEF Evidence!Actions, Evidence!Before
  <2>2. CASE a = "correctness"
    <3>1. <<"compile", tree>> \in measured
      BY <1>1, <1>2, <2>2 DEF EvidenceInv, OrderInv
    <3> QED  BY <2>2, <3>1 DEF Evidence!Actions, Evidence!Before
  <2>3. CASE a = "performance"
    <3>1. <<"compile", tree>> \in measured /\ <<"correctness", tree>> \in measured
      BY <1>1, <1>2, <2>3 DEF EvidenceInv, OrderInv
    <3> QED  BY <2>3, <3>1 DEF Evidence!Actions, Evidence!Before
  <2> QED  BY <2>1, <2>2, <2>3 DEF CandidateActions
<1>6. measured' = measured \cup {<<a, tree>>} \/ measured' = measured
  BY DEF CandidateAction
<1>7. CASE measured' = measured
  BY <1>1, <1>7, LosesIsForget DEF Loses
<1>8. CASE measured' = measured \cup {<<a, tree>>}
  <2>1. Evidence!Pass(a, tree)
    BY <1>1, <1>3, <1>4, <1>5, <1>8 DEF Evidence!Pass
  <2> QED  BY <1>2, <1>5, <2>1, Zenon DEF Evidence!Next
<1> QED  BY <1>6, <1>7, <1>8

\* The completion record certifies what the evaluation measured.
LEMMA CompletionCertifies ==
  ASSUME EvidenceInv, WriteCompletion
  PROVE  [Evidence!Next]_(Evidence!evidenceVars)
<1>1. UNCHANGED <<base, report>> /\ measured' = {} /\ pc = "complete"
  BY DEF WriteCompletion, Return, Forget, sessVars
<1>2. tree \in Versions
  BY <1>1 DEF EvidenceInv, OrderInv, Building, TypeInv, TypeOK
<1>3. completion'.result.accepted = result.accepted /\ completion'.source = tree
  BY DEF WriteCompletion
<1>4. result.accepted \in BOOLEAN
  BY DEF EvidenceInv, TypeInv, TypeOK, Results
<1>5. result.accepted => report = "accepted" /\ Evidence!Actions \X {tree} \subseteq measured
  <2>1. Evidence!Actions = CandidateActions
    BY DEF Evidence!Actions, Evidence!Before, CandidateActions
  <2> QED  BY <1>1, <2>1 DEF EvidenceInv, MeasureInv, OrderInv, Vouched, AllPassed
<1>6. Evidence!Certify(tree)
  BY <1>1, <1>3, <1>4, <1>5 DEF Evidence!Certify
<1> QED  BY <1>2, <1>6, Zenon DEF Evidence!Next

\* Every step is a step of TaskEvidence or none.
LEMMA EvidenceStep ==
  EvidenceInv /\ [Next]_vars => [Evidence!Next]_(Evidence!evidenceVars)
<1> SUFFICES ASSUME EvidenceInv, [Next]_vars
             PROVE  [Evidence!Next]_(Evidence!evidenceVars)
  OBVIOUS
<1>1. CASE StartRun
  BY <1>1, LosesIsForget DEF Loses, StartRun, Return, Forget, matVars, sessVars, endVars, memVars, ctlVars
<1>2. CASE MakeStateDirectory
  BY <1>2, LosesIsForget DEF Loses, MakeStateDirectory, Return, Forget, matVars, sessVars, endVars, memVars, ctlVars
<1>3. CASE WriteRunningRecord
  BY <1>3, LosesIsForget DEF Loses, WriteRunningRecord, Return, Forget, matVars, sessVars, endVars, memVars, ctlVars
<1>4. CASE CopyTask
  BY <1>4, LosesIsForget DEF Loses, CopyTask, Return, Forget, matVars, sessVars, endVars, memVars, ctlVars
<1>5. CASE SealWorkspace
  BY <1>5, LosesIsForget DEF Loses, SealWorkspace, Return, Forget, matVars, sessVars, endVars, memVars, ctlVars
<1>6. CASE MaterializationFails
  BY <1>6, LosesIsForget DEF Loses, MaterializationFails, Return, Forget, matVars, sessVars, endVars, memVars, ctlVars
<1>7. CASE ReuseWorkspace
  BY <1>7, LosesIsForget DEF Loses, ReuseWorkspace, Return, Forget, matVars, sessVars, endVars, memVars, ctlVars
<1>8. CASE LoadSession
  BY <1>8, LosesIsForget DEF Loses, LoadSession, Return, Forget, matVars, sessVars, endVars, memVars, ctlVars
<1>9. CASE BeginCreate
  BY <1>9, LosesIsForget DEF Loses, BeginCreate, Return, Forget, matVars, sessVars, endVars, memVars, ctlVars
<1>10. CASE BindRuntime
  BY <1>10, LosesIsForget DEF Loses, BindRuntime, Return, Forget, matVars, sessVars, endVars, memVars, ctlVars
<1>11. CASE InitialCheck
  BY <1>11, LosesIsForget DEF Loses, InitialCheck, Return, Forget, matVars, sessVars, endVars, memVars, ctlVars
<1>12. CASE WriteContext
  BY <1>12, LosesIsForget DEF Loses, WriteContext, Return, Forget, matVars, sessVars, endVars, memVars, ctlVars
<1>13. CASE LaunchAgent
  BY <1>13, LosesIsForget DEF Loses, LaunchAgent, Return, Forget, matVars, sessVars, endVars, memVars, ctlVars
<1>14. CASE AgentEdits
  BY <1>14, LosesIsForget DEF Loses, AgentEdits, Return, Forget, matVars, sessVars, endVars, memVars, ctlVars
<1>15. CASE AgentReturns
  BY <1>15, LosesIsForget DEF Loses, AgentReturns, Return, Forget, matVars, sessVars, endVars, memVars, ctlVars
<1>16. CASE BeginEvaluation
  BY <1>16, LosesIsForget DEF Loses, BeginEvaluation, Return, Forget, matVars, sessVars, endVars, memVars, ctlVars
<1>17. CASE RunTools
  BY <1>17, LosesIsForget DEF Loses, RunTools, Return, Forget, matVars, sessVars, endVars, memVars, ctlVars
<1>18. CASE Settle
  BY <1>18, LosesIsForget DEF Loses, Settle, Return, Forget, matVars, sessVars, endVars, memVars, ctlVars
<1>19. CASE RunExporter
  BY <1>19, LosesIsForget DEF Loses, RunExporter, Return, Forget, matVars, sessVars, endVars, memVars, ctlVars
<1>20. CASE CheckExport
  BY <1>20, LosesIsForget DEF Loses, CheckExport, Return, Forget, matVars, sessVars, endVars, memVars, ctlVars
<1>21. CASE WriteResult
  BY <1>21, LosesIsForget DEF Loses, WriteResult, Return, Forget, matVars, sessVars, endVars, memVars, ctlVars
<1>22. CASE RunRaises
  BY <1>22, LosesIsForget DEF Loses, RunRaises, Return, Forget, matVars, sessVars, endVars, memVars, ctlVars
<1>23. CASE Crash
  BY <1>23, LosesIsForget DEF Loses, Crash, Return, Forget, matVars, sessVars, endVars, memVars, ctlVars
<1>24. CASE OutsideEdit
  BY <1>24, LosesIsForget DEF Loses, OutsideEdit, Return, Forget, matVars, sessVars, endVars, memVars, ctlVars
<1>25. CASE CreateSession
  <2>1. UNCHANGED <<report, completion, measured>> /\ base' \in {base, Original}
    BY <1>25 DEF CreateSession, EvidenceInv, BaseInv, endVars, memVars
  <2>2. base \in {NoTree, Original} /\ report = "none"
    BY <1>25 DEF CreateSession, EvidenceInv, BaseInv, VerdictInv
  <2>3. CASE base' = base
    BY <2>1, <2>3, LosesIsForget DEF Loses
  <2>4. CASE base' # base
    <3>1. Evidence!Freeze
      BY <2>1, <2>2, <2>4 DEF Evidence!Freeze
    <3> QED  BY <3>1 DEF Evidence!Next
  <2> QED  BY <2>3, <2>4
<1>26. CASE WriteInitialReport
  <2>1. UNCHANGED <<base, completion, measured>> /\ report' = verdict /\ verdict \in Verdicts
    BY <1>26 DEF WriteInitialReport, EvidenceInv, TypeInv, TypeOK, endVars, memVars
  <2>2. base = Original /\ report = "none"
    BY <1>26 DEF WriteInitialReport, EvidenceInv, VerdictInv, OrderInv, ResumeInv, Building,
                 TypeInv, TypeOK
  <2>3. CASE verdict = "none"
    BY <2>1, <2>2, <2>3, LosesIsForget DEF Loses
  <2>4. CASE verdict # "none"
    <3>1. Evidence!Conclude
      BY <2>1, <2>2, <2>4 DEF Evidence!Conclude, Verdicts
    <3> QED  BY <3>1 DEF Evidence!Next
  <2> QED  BY <2>3, <2>4
<1>27. ASSUME NEW a \in CandidateActions, CandidateAction(a)
       PROVE  [Evidence!Next]_(Evidence!evidenceVars)
  BY <1>27, ActionPasses
<1>28. ASSUME NEW a \in CandidateActions, CandidateRefused(a)
       PROVE  [Evidence!Next]_(Evidence!evidenceVars)
  BY <1>28, LosesIsForget DEF Loses, CandidateRefused, sessVars, endVars, memVars
<1>29. CASE WriteCompletion
  BY <1>29, CompletionCertifies
<1>30. CASE UNCHANGED vars
  BY <1>30, LosesIsForget DEF Loses, vars, sessVars, endVars, memVars
<1> QED  BY <1>1, <1>2, <1>3, <1>4, <1>5, <1>6, <1>7, <1>8, <1>9, <1>10, <1>11, <1>12, <1>13, <1>14, <1>15, <1>16, <1>17, <1>18, <1>19, <1>20, <1>21, <1>22, <1>23, <1>24, <1>25, <1>26, <1>27, <1>28, <1>29, <1>30, Zenon DEF Next

\* The runs of a task implement TaskEvidence, for any versions, runs, kills
\* and edits: the directory gets one baseline and one verdict, and an accepted
\* completion only after this version passed compile, correctness and timing
\* in this order, with nothing between them that changed the candidate.
THEOREM TaskRunImplementsEvidence == Spec => ImplementsEvidence
<1>1. Init => Evidence!Init
  <2> SUFFICES ASSUME Init PROVE Evidence!Init
    OBVIOUS
  <2>1. completion.result.accepted = FALSE /\ completion.source = NoTree
    BY DEF Init, NoCompletion, NoResult
  <2>2. base = NoTree /\ report = "none" /\ measured = {}
    BY DEF Init
  <2> QED  BY <2>1, <2>2, Zenon DEF Evidence!Init
<1> QED  BY <1>1, EvidenceInvHolds, EvidenceStep, PTL DEF Spec, ImplementsEvidence, Evidence!Spec

-----------------------------------------------------------------------------
(* What the driver of the task counts on                                   *)

\* How a step may end a run, or not: only the completion record makes it
\* answer True.
Continues == pc # "off" /\ pc' # "off" /\ UNCHANGED <<told, runs>>
GivesUp == pc # "off" /\ pc' = "off" /\ told' = "false"

LEMMA StepShapes ==
  ASSUME [Next]_vars
  PROVE  StartRun \/ Continues \/ GivesUp \/ WriteCompletion \/ Crash \/ OutsideEdit \/ UNCHANGED vars
<1> USE DEF Continues, GivesUp
<1>1. CASE MakeStateDirectory \/ MaterializationFails \/ ReuseWorkspace \/ LoadSession \/ BeginCreate \/ BindRuntime \/ RunRaises
  BY <1>1 DEF MakeStateDirectory, MaterializationFails, ReuseWorkspace, LoadSession, BeginCreate, BindRuntime, RunRaises, Return
<1>2. CASE WriteRunningRecord \/ CopyTask \/ SealWorkspace \/ CreateSession
  BY <1>2 DEF WriteRunningRecord, CopyTask, SealWorkspace, CreateSession, ctlVars
<1>3. CASE InitialCheck \/ WriteInitialReport \/ WriteContext \/ LaunchAgent \/ AgentEdits \/ AgentReturns \/ BeginEvaluation
  BY <1>3 DEF InitialCheck, WriteInitialReport, WriteContext, LaunchAgent, AgentEdits, AgentReturns, BeginEvaluation, ctlVars
<1>4. CASE RunTools \/ Settle \/ RunExporter \/ CheckExport \/ WriteResult
  BY <1>4 DEF RunTools, Settle, RunExporter, CheckExport, WriteResult, ctlVars
<1>5. ASSUME NEW a \in CandidateActions, CandidateAction(a) \/ CandidateRefused(a)
      PROVE  Continues
  BY <1>5 DEF CandidateAction, CandidateRefused, CandidateActions, After, ctlVars
<1> QED  BY <1>1, <1>2, <1>3, <1>4, <1>5, Zenon DEF Next

\* The session that a run finishes with loads again, but for the files that
\* the run does not compare once more and the task check it does not replay.
LEMMA FinishedSessionLoads ==
  ASSUME EvidenceInv, WriteCompletion
  PROVE  Complete' <=> (intact' /\ frozen' /\ Covered')
<1>1. completion' = [result |-> result, source |-> tree] /\ tree # NoTree /\ sess >= 6 /\ ~torn
  BY DEF WriteCompletion, EvidenceInv, OrderInv, ResumeInv, Building
<1>2. UNCHANGED <<spec, tree, intact, frozen, sess, torn, saved, report, result>>
  BY DEF WriteCompletion, matVars, sessVars
<1>3. completion' # NoCompletion
  BY <1>1 DEF NoCompletion
<1>4. report = "accepted" => Justified
  BY DEF EvidenceInv, VerdictInv
<1>5. Justified' <=> Justified
  BY <1>2, SameEvidence
<1>6. sess' >= 6 /\ ~torn' /\ (report' = "accepted" => Justified')
  BY <1>1, <1>2, <1>4, <1>5
<1>7. Loads' <=> (intact' /\ frozen' /\ Covered')
  BY <1>6, Zenon DEF Loads
<1> QED  BY <1>1, <1>2, <1>3, <1>7 DEF Complete

\* A run that goes on has not answered.
RunningInv == pc # "off" => told = "nothing"

LEMMA RunningStep == RunningInv /\ [Next]_vars => RunningInv'
<1> SUFFICES ASSUME RunningInv, [Next]_vars PROVE RunningInv'
  OBVIOUS
<1>1. CASE StartRun \/ Continues \/ GivesUp \/ WriteCompletion \/ Crash
  BY <1>1 DEF StartRun, Continues, GivesUp, WriteCompletion, Crash, Return, RunningInv
<1>2. CASE OutsideEdit \/ UNCHANGED vars
  BY <1>2 DEF OutsideEdit, vars, ctlVars, RunningInv
<1> QED  BY <1>1, <1>2, StepShapes

LEMMA ContractStep ==
  ASSUME EvidenceInv, RunningInv, [Next]_vars
  PROVE  [Contract!Next]_Contract!contractVars
<1> USE DEF Contract!Next, Contract!contractVars
<1>0. Complete \in BOOLEAN /\ Complete' \in BOOLEAN
  BY DEF Complete
<1>1. CASE StartRun
  <2>1. runs' \in 1 .. MaxRuns /\ pc = "off" /\ pc' # "off" /\ told' = "nothing" /\ ~Complete
    BY <1>1, TaskRunAssumption DEF StartRun, EvidenceInv, TypeInv, TypeOK
  <2>2. UNCHANGED <<spec, tree, intact, frozen, sess, torn, saved, report, result, completion>>
    BY <1>1 DEF StartRun, matVars, sessVars, endVars
  <2>3. Complete' = Complete
    BY <2>2, SameSession DEF Complete
  <2> QED  BY <2>1, <2>3 DEF Contract!Start
<1>2. CASE Continues
  BY <1>0, <1>2 DEF Continues, RunningInv, Contract!Work
<1>3. CASE GivesUp
  BY <1>0, <1>3 DEF GivesUp, RunningInv, Contract!Answer
<1>4. CASE WriteCompletion
  <2>1. pc # "off" /\ pc' = "off" /\ told' = "true" /\ told = "nothing"
    BY <1>4 DEF WriteCompletion, Return, RunningInv
  <2>2. Complete' \/ ~(intact' /\ frozen' /\ Covered')
    BY <1>4, FinishedSessionLoads, Zenon
  <2> QED  BY <1>0, <2>1, <2>2 DEF Contract!Answer
<1>5. CASE Crash
  BY <1>0, <1>5 DEF Crash, Return, RunningInv, Contract!Die
<1>6. CASE OutsideEdit
  BY <1>0, <1>6 DEF OutsideEdit, ctlVars, Contract!Change
<1>7. CASE UNCHANGED vars
  <2>1. UNCHANGED <<spec, tree, intact, frozen, sess, torn, saved, report, result, completion, pc, runs, told>>
    BY <1>7 DEF vars, matVars, sessVars, endVars, ctlVars
  <2>2. Complete' = Complete
    BY <2>1, SameSession DEF Complete
  <2> QED  BY <2>1, <2>2
<1> QED  BY <1>1, <1>2, <1>3, <1>4, <1>5, <1>6, <1>7, StepShapes

\* An optimization run is a run as its driver may expect it, for any versions,
\* runs, kills and edits: it is started without evidence only, answers once,
\* and True means evidence unless a protected file or the baseline copy was
\* changed or the saved task check passed without a performance case.
\* run_task_v2 neither reads those files again nor replays that record before
\* it answers; everything else that task_run_is_complete looks at agrees with
\* the answer.
THEOREM TaskRunKeepsContract == Spec => ImplementsContract
<1>1. Init => RunningInv /\ Contract!Init
  BY DEF Init, RunningInv, Contract!Init, Complete
<1> QED  BY <1>1, EvidenceInvHolds, RunningStep, ContractStep, PTL
         DEF Spec, ImplementsContract, Contract!Spec

=============================================================================
