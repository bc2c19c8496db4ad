------------------------- MODULE QualityLoopProofs -------------------------
(***************************************************************************)
(* Proofs about QualityLoop: what a campaign commits and publishes, for    *)
(* any number of tasks, files, resumes, kills and outside touches.         *)
(***************************************************************************)
EXTENDS QualityLoop, TLAPS

\* What most steps need to know of the constants.
LEMMA ConstantFacts ==
  /\ Last \in Nat \ {0} /\ Base \in Versions
  /\ MaxRuns \in Nat /\ MaxKills \in Nat /\ MaxEdits \in Nat
BY QualityAssumption

USE ConstantFacts

-----------------------------------------------------------------------------
(* Types                                                                   *)

\* What git takes of a package is a package again, and all of what was shipped.
LEMMA SeenFacts ==
  /\ \A c \in Contents : Seen(c) \in Contents /\ Seen(Seen(c)) = Seen(c)
  /\ Original \in Contents /\ Seen(Original) = Original
<1>1. \A c \in Contents : Seen(c) \in Contents
  BY DEF Seen, Contents
<1>2. \A c \in Contents : \A p \in Paths : Seen(Seen(c))[p] = Seen(c)[p]
  BY DEF Seen
<1>3. \A c \in Contents : Seen(Seen(c)) = Seen(c)
  BY <1>2 DEF Seen
<1> QED  BY <1>1, <1>3 DEF Seen, Original, Contents

\* Agents and others turn packages into packages.
LEMMA ProposalsFacts == \A t \in Tasks : Proposals[t] \subseteq Contents
BY QualityAssumption DEF Tasks, Contents

\* A transition keeps records, and touches no other field of no other task.
LEMMA TransitionKeeps ==
  ASSUME TypeOK, NEW k \in Tasks, NEW s \in States, Transition(s), task = k
  PROVE  /\ record' \in [Tasks -> Records]
         /\ record'[k].state = s
         /\ \A t \in Tasks : /\ record'[t].fingerprint = record[t].fingerprint
                             /\ record'[t].changes = record[t].changes
                             /\ record'[t].pending = record[t].pending
                             /\ record'[t].evidence = record[t].evidence
         /\ \A t \in Tasks \ {k} : record'[t] = record[t]
<1>1. record \in [Tasks -> Records]
  BY DEF TypeOK
<1>2. record' = [record EXCEPT ![k].state = s]
  BY DEF Transition
<1>3. \A r \in Records : [r EXCEPT !.state = s] \in Records
  BY Zenon DEF Records
<1>4. record' = [record EXCEPT ![k] = [record[k] EXCEPT !.state = s]]
  BY <1>2
<1>5. [record[k] EXCEPT !.state = s] \in Records
  BY <1>1, <1>3
<1>6. record' \in [Tasks -> Records]
  BY <1>1, <1>4, <1>5
<1>7. \A t \in Tasks \ {k} : record'[t] = record[t]
  BY <1>1, <1>4
<1>8. record'[k] = [record[k] EXCEPT !.state = s]
  BY <1>1, <1>4
<1>9. record[k] \in Records
  BY <1>1
<1>10. /\ record'[k].state = s
       /\ record'[k].fingerprint = record[k].fingerprint /\ record'[k].changes = record[k].changes
       /\ record'[k].pending = record[k].pending /\ record'[k].evidence = record[k].evidence
  BY <1>8, <1>9, Zenon DEF Records
<1> QED  BY <1>6, <1>7, <1>10

\* The scratch memory of an ending process is of its types.
LEMMA ForgetTypes ==
  ASSUME Forget
  PROVE  original' \in Contents /\ candidate' \in Contents /\ first' \in Verdicts /\ todo' \subseteq Paths
BY DEF Forget, Original, Contents, Verdicts

\* Initially every variable has its type.
LEMMA TypeInit == Init => TypeOK
<1> SUFFICES ASSUME Init PROVE TypeOK
  OBVIOUS
<1>1. Original \in Contents /\ NewRecord \in Records
  BY DEF Original, Contents, NewRecord, Records, States
<1>2. task \in 1 .. Last + 1 /\ runs \in 0 .. MaxRuns /\ kills \in 0 .. MaxKills /\ edits \in 0 .. MaxEdits
  BY DEF Init
<1>3. /\ tree \in [Tasks -> Contents] /\ index \in [Tasks -> Contents] /\ head \in [Tasks -> Contents]
      /\ record \in [Tasks -> Records] /\ validated \in [Tasks -> SUBSET Contents]
  BY <1>1 DEF Init
<1> QED  BY <1>1, <1>2, <1>3 DEF Init, TypeOK, Verdicts

\* A step of an attempt that makes the transition of its task keeps the types
\* of what it goes on with.
LEMMA NextTaskTypes ==
  ASSUME TypeOK, task \in Tasks, NextTask
  PROVE  /\ original' \in Contents /\ candidate' \in Contents
         /\ first' \in Verdicts /\ todo' \subseteq Paths
         /\ pc' = "next" /\ task' \in 1 .. Last + 1
BY ForgetTypes DEF NextTask, Tasks

\* What Report does to the records.
LEMMA ReportRecord ==
  ASSUME TypeOK, task \in Tasks, Report
  PROVE  /\ record'[task].state = "reported_failure"
         /\ record'[task].fingerprint = record[task].fingerprint
         /\ record'[task].evidence = (task \notin spoilt')
         /\ \A t \in Tasks \ {task} : record'[t] = record[t]
         /\ pc' = "next" /\ task' = task + 1
<1> DEFINE e == task \notin spoilt'
           r == [record[task] EXCEPT !.state = "reported_failure", !.evidence = e]
<1>1. record' = [record EXCEPT ![task].state = "reported_failure", ![task].evidence = e]
  BY DEF Report
<1>2. record[task] \in Records /\ record \in [Tasks -> Records]
  BY DEF TypeOK
<1>3. r.state = "reported_failure" /\ r.fingerprint = record[task].fingerprint /\ r.evidence = e
  <2> HIDE DEF e
  <2> QED  BY <1>2, Zenon DEF Records
<1>4. record' = [record EXCEPT ![task] = r]
  <2> HIDE DEF e
  <2> QED  BY <1>1
<1> HIDE DEF r
<1>5. record'[task] = r /\ \A t \in Tasks \ {task} : record'[t] = record[t]
  BY <1>2, <1>4
<1>6. record'[task].evidence = e
  BY <1>3, <1>5, Zenon
<1>7. pc' = "next" /\ task' = task + 1
  BY DEF Report, NextTask
<1> QED  BY <1>3, <1>5, <1>6, <1>7

\* Report keeps the types.
LEMMA ReportTypes ==
  ASSUME TypeOK, task \in Tasks, Report
  PROVE  record' \in [Tasks -> Records]
<1>1. record \in [Tasks -> Records]
  BY DEF TypeOK
<1>2. \A r \in Records, e \in BOOLEAN : [r EXCEPT !.state = "reported_failure", !.evidence = e] \in Records
  BY Zenon DEF Records, States, Terminal
<1>3. PICK e \in BOOLEAN :
        record' = [record EXCEPT ![task].state = "reported_failure", ![task].evidence = e]
  BY Zenon DEF Report
<1>4. record' = [record EXCEPT ![task] = [record[task] EXCEPT !.state = "reported_failure", !.evidence = e]]
  BY <1>3
<1>a. record[task] \in Records
  BY <1>1
<1>5. [record[task] EXCEPT !.state = "reported_failure", !.evidence = e] \in Records
  BY <1>a, <1>2, Zenon
<1> QED  BY <1>1, <1>4, <1>5

\* The process at work on a task has one.
TaskInv == pc \in Auditing \cup {"staged", "record"} => task \in Tasks

\* Every step keeps the types.
LEMMA TypeStep == TypeOK /\ TaskInv /\ [Next]_vars => TypeOK' /\ TaskInv'
<1> SUFFICES ASSUME TypeOK, TaskInv, [Next]_vars PROVE TypeOK' /\ TaskInv'
  OBVIOUS
<1>t. {"validating", "repairing", "optimizing", "infrastructure_failed"} \subseteq States
  BY DEF States
<1>c. \A t \in Tasks : tree[t] \in Contents /\ record[t] \in Records
  BY DEF TypeOK
<1>v. ASSUME NEW c \in Contents, task \in Tasks
      PROVE  [validated EXCEPT ![task] = @ \cup {c}] \in [Tasks -> SUBSET Contents]
  BY <1>v DEF TypeOK
<1>d. \A a, b \in Contents : Diff(a, b) \subseteq Paths
  BY DEF Diff
<1> USE DEF TypeOK, TaskInv, fileVars, memVars, workVars, runVars, Auditing, Applying
<1>1. CASE StartRun
  <2>1. runs' \in 0 .. MaxRuns
    BY <1>1 DEF StartRun
  <2> QED  BY <1>1, <2>1 DEF StartRun
<1>2. CASE ResumeRun
  <2>1. runs' \in 0 .. MaxRuns
    BY <1>2 DEF ResumeRun
  <2> QED  BY <1>2, <2>1 DEF ResumeRun
<1>3. CASE SkipTask
  BY <1>3, NextTaskTypes DEF SkipTask
<1>4. CASE DeferTask
  <2>1. task \in Tasks
    BY <1>4 DEF DeferTask, Tasks
  <2>2. \A r \in Records, c \in Contents :
          [r EXCEPT !.state = "platform_deferred", !.fingerprint = c] \in Records
    BY Zenon DEF Records, States, Terminal
  <2>3. record' = [record EXCEPT ![task] =
          [record[task] EXCEPT !.state = "platform_deferred", !.fingerprint = tree[task]]]
    BY <1>4 DEF DeferTask
  <2>5. [record[task] EXCEPT !.state = "platform_deferred", !.fingerprint = tree[task]] \in Records
    <3>1. record[task] \in Records /\ tree[task] \in Contents
      BY <1>c, <2>1
    <3> QED  BY <2>2, <3>1, Zenon
  <2>4. record' \in [Tasks -> Records]
    BY <2>1, <2>3, <2>5
  <2> QED  BY <1>4, <2>1, <2>4, NextTaskTypes DEF DeferTask
<1>5. CASE BeginTask
  <2>1. task \in Tasks
    BY <1>5 DEF BeginTask
  <2>2. \A r \in Records, c \in Contents :
          [r EXCEPT !.state = "validating", !.fingerprint = c] \in Records
    BY <1>t, Zenon DEF Records, States
  <2>3. record' = [record EXCEPT ![task] =
          [record[task] EXCEPT !.state = "validating", !.fingerprint = tree[task]]]
    BY <1>5 DEF BeginTask
  <2>5. [record[task] EXCEPT !.state = "validating", !.fingerprint = tree[task]] \in Records
    <3>1. record[task] \in Records /\ tree[task] \in Contents
      BY <1>c, <2>1
    <3> QED  BY <2>2, <3>1, Zenon
  <2>4. record' \in [Tasks -> Records]
    BY <2>1, <2>3, <2>5
  <2> QED  BY <1>5, <1>c, <2>1, <2>4 DEF BeginTask
<1>6. CASE ValidateInitial
  <2>1. PICK verdict \in Verdicts :
          /\ Judged(candidate, verdict) /\ first' = verdict
          /\ IF verdict = "FAIL" THEN Transition("repairing") /\ pc' = "repair"
                                 ELSE Transition("optimizing") /\ pc' = "optimize"
    BY <1>6 DEF ValidateInitial
  <2>2. task \in Tasks /\ pc' \in {"repair", "optimize"}
    BY <1>6, <2>1 DEF ValidateInitial
  <2>3. validated' \in [Tasks -> SUBSET Contents]
    BY <1>v, <2>1, <2>2 DEF Judged
  <2>4. record' \in [Tasks -> Records]
    BY <1>t, <2>1, <2>2, TransitionKeeps
  <2> QED  BY <1>6, <2>1, <2>2, <2>3, <2>4 DEF ValidateInitial
<1>7. CASE Repair
  <2>1. task \in Tasks
    BY <1>7 DEF Repair
  <2>s. spoilt' \subseteq Tasks /\ harmed' \in BOOLEAN
    <3>1. harmed' = (harmed \/ spoilt' # spoilt)
      BY <1>7 DEF Repair
    <3>2. harmed' \in BOOLEAN
      BY <3>1, Zenon
    <3> QED  BY <1>7, <2>1, <3>2 DEF Repair
  <2>2. CASE Report
    BY <1>7, <2>1, <2>s, <2>2, ReportTypes, NextTaskTypes DEF Repair, Report
  <2>3. CASE ~Report
    BY <1>7, <2>1, <2>s, <2>3, ProposalsFacts DEF Repair
  <2> QED  BY <2>2, <2>3
<1>8. CASE ValidateRepaired
  <2>1. PICK verdict \in Verdicts :
          /\ Judged(candidate, verdict)
          /\ IF verdict = "PASS"
             THEN Transition("optimizing") /\ pc' = "optimize" /\ UNCHANGED <<task, memVars>>
             ELSE Report
    BY <1>8 DEF ValidateRepaired
  <2>2. task \in Tasks
    BY <1>8 DEF ValidateRepaired
  <2>3. validated' \in [Tasks -> SUBSET Contents]
    BY <1>v, <2>1, <2>2 DEF Judged
  <2>4. CASE verdict = "PASS"
    <3>1. record' \in [Tasks -> Records]
      BY <1>t, <2>1, <2>2, <2>4, TransitionKeeps
    <3> QED  BY <1>8, <2>1, <2>2, <2>3, <2>4, <3>1 DEF ValidateRepaired
  <2>5. CASE verdict # "PASS"
    BY <1>8, <2>1, <2>2, <2>3, <2>5, ReportTypes, NextTaskTypes DEF ValidateRepaired, Report
  <2> QED  BY <2>4, <2>5
<1>9. CASE Optimize
  BY <1>9 DEF Optimize, Finishing
<1>10. CASE Promote
  <2>1. task \in Tasks /\ candidate' \in Contents /\ validated' \in [Tasks -> SUBSET Contents]
    BY <1>10, <1>v, ProposalsFacts DEF Promote, Propose
  <2> QED  BY <1>10, <2>1 DEF Promote, Finishing
<1>11. CASE Enhance
  <2>1. task \in Tasks /\ candidate' \in Contents /\ validated' \in [Tasks -> SUBSET Contents]
    BY <1>11, <1>v, ProposalsFacts DEF Enhance, Propose
  <2> QED  BY <1>11, <2>1 DEF Enhance
<1>12. CASE ValidateFinal
  <2>1. PICK verdict \in Verdicts :
          /\ Judged(candidate, verdict)
          /\ IF verdict = "PASS"
             THEN /\ todo' = Diff(original, candidate) /\ pc' = "apply"
                  /\ UNCHANGED <<record, task, original, candidate, first>>
             ELSE Report
    BY <1>12 DEF ValidateFinal
  <2>2. task \in Tasks
    BY <1>12 DEF ValidateFinal
  <2>3. validated' \in [Tasks -> SUBSET Contents]
    BY <1>v, <2>1, <2>2 DEF Judged
  <2>4. CASE verdict = "PASS"
    BY <1>12, <1>d, <2>1, <2>2, <2>3, <2>4 DEF ValidateFinal
  <2>5. CASE verdict # "PASS"
    BY <1>12, <2>1, <2>2, <2>3, <2>5, ReportTypes, NextTaskTypes DEF ValidateFinal, Report
  <2> QED  BY <2>4, <2>5
<1>13. CASE NothingToApply
  BY <1>13 DEF NothingToApply
<1>14. CASE ApplyPath
  <2>1. PICK p \in todo : /\ tree' = [tree EXCEPT ![task][p] = candidate[p]]
                          /\ todo' = todo \ {p}
    BY <1>14 DEF ApplyPath
  <2>2. task \in Tasks
    BY <1>14 DEF ApplyPath
  <2>3. [tree[task] EXCEPT ![p] = candidate[p]] \in Contents
    BY <1>c, <2>1, <2>2 DEF Contents
  <2>4. tree' = [tree EXCEPT ![task] = [tree[task] EXCEPT ![p] = candidate[p]]]
    BY <2>1
  <2>5. tree' \in [Tasks -> Contents]
    BY <2>2, <2>3, <2>4
  <2>6. pc' \in {"apply", "complete", "stage"}
    BY <1>14 DEF ApplyPath
  <2> QED  BY <1>14, <2>1, <2>2, <2>5, <2>6 DEF ApplyPath
<1>15. CASE StageTask
  BY <1>15, <1>c, SeenFacts DEF StageTask
<1>16. CASE CommitTask
  BY <1>16 DEF CommitTask
<1>17. CASE CompleteTask
  <2>1. task \in Tasks
    BY <1>17 DEF CompleteTask
  <2>2. PICK b \in BOOLEAN, e \in BOOLEAN :
          record' = [record EXCEPT ![task] =
            [state |-> "completed", fingerprint |-> tree[task], changes |-> Diff(original, candidate),
             pending |-> b, evidence |-> e]]
    BY <1>17, Zenon DEF CompleteTask
  <2>3. record' \in [Tasks -> Records]
    BY <1>c, <1>d, <2>1, <2>2 DEF Records, States, Terminal
  <2> QED  BY <1>17, <2>1, <2>3, NextTaskTypes DEF CompleteTask
<1>18. CASE TaskRaises
  <2>1. task \in Tasks
    BY <1>18 DEF TaskRaises
  <2>2. record' \in [Tasks -> Records]
    BY <1>18, <1>t, <2>1, TransitionKeeps DEF TaskRaises
  <2>3. harmed' \in BOOLEAN
    BY <1>18, Zenon DEF TaskRaises
  <2> QED  BY <1>18, <2>1, <2>2, <2>3, NextTaskTypes DEF TaskRaises
<1>19. CASE TaskUnreadable
  <2>1. task \in Tasks
    BY <1>19 DEF TaskUnreadable
  <2>2. record' \in [Tasks -> Records]
    BY <1>19, <1>t, <2>1, TransitionKeeps DEF TaskUnreadable
  <2> QED  BY <1>19, <2>1, <2>2, NextTaskTypes DEF TaskUnreadable
<1>20. CASE EndRun
  <2>1. /\ status' \in {"absent", "orphan", "running", "incomplete", "awaiting_publication", "completed"}
        /\ pc' \in {"off", "finalize", "publish"} /\ task' \in 1 .. Last + 1
    BY <1>20 DEF EndRun, FinishedAs
  <2> QED  BY <1>20, <2>1, ForgetTypes DEF EndRun
<1>21. CASE FinalizeAgain
  <2>1. runs' \in 0 .. MaxRuns
    BY <1>21 DEF FinalizeAgain
  <2> QED  BY <1>21, <2>1 DEF FinalizeAgain
<1>22. CASE VerifyPending
  BY <1>22 DEF VerifyPending
<1>23. CASE RefuseFinalize
  BY <1>23, ForgetTypes DEF RefuseFinalize, Stop
<1>24. CASE PassOver
  BY <1>24 DEF PassOver, Tasks
<1>25. CASE StageAccepted
  <2>1. index' \in [Tasks -> Contents]
    BY <1>25, <1>c, SeenFacts DEF StageAccepted
  <2>2. CASE Seen(tree[task]) # head[task]
    BY <1>25, <2>1, <2>2 DEF StageAccepted
  <2>3. CASE Seen(tree[task]) = head[task]
    BY <1>25, <2>1, <2>3, ForgetTypes DEF StageAccepted, Stop
  <2> QED  BY <2>2, <2>3
<1>26. CASE CommitAccepted
  BY <1>26 DEF CommitAccepted
<1>27. CASE RecordCommit
  <2>1. task \in Tasks
    BY <1>27 DEF RecordCommit
  <2>2. \A r \in Records : [r EXCEPT !.pending = FALSE] \in Records
    BY Zenon DEF Records
  <2>3. record' = [record EXCEPT ![task] = [record[task] EXCEPT !.pending = FALSE]]
    BY <1>27 DEF RecordCommit
  <2>4. record' \in [Tasks -> Records]
    BY <1>c, <2>1, <2>2, <2>3
  <2> QED  BY <1>27, <2>1, <2>4 DEF RecordCommit, Tasks
<1>28. CASE AllCommitted
  BY <1>28 DEF AllCommitted
<1>29. CASE Publish
  BY <1>29, ForgetTypes DEF Publish, Stop
<1>30. CASE PublicationFails
  <2>1. harmed' \in BOOLEAN
    BY <1>30, Zenon DEF PublicationFails
  <2> QED  BY <1>30, <2>1, ForgetTypes DEF PublicationFails, Stop
<1>31. CASE Kill
  <2>1. kills' \in 0 .. MaxKills
    BY <1>31 DEF Kill
  <2> QED  BY <1>31, <2>1, ForgetTypes DEF Kill, Stop
<1>32. CASE OutsideEdit
  <2>1. edits' \in 0 .. MaxEdits
    BY <1>32 DEF OutsideEdit
  <2>2. PICK t \in Tasks :
          \/ \E c \in Contents : tree' = [tree EXCEPT ![t] = c] /\ UNCHANGED record
          \/ record' = [record EXCEPT ![t].evidence = FALSE] /\ UNCHANGED tree
    BY <1>32, ProposalsFacts DEF OutsideEdit
  <2>3. \A r \in Records : [r EXCEPT !.evidence = FALSE] \in Records
    BY Zenon DEF Records
  <2>4. tree' \in [Tasks -> Contents] /\ record' \in [Tasks -> Records]
    <3>1. CASE \E c \in Contents : tree' = [tree EXCEPT ![t] = c] /\ UNCHANGED record
      BY <3>1
    <3>2. CASE record' = [record EXCEPT ![t].evidence = FALSE] /\ UNCHANGED tree
      <4>1. record' = [record EXCEPT ![t] = [record[t] EXCEPT !.evidence = FALSE]]
        BY <3>2
      <4> QED  BY <1>c, <2>3, <3>2, <4>1
    <3> QED  BY <2>2, <3>1, <3>2
  <2> QED  BY <1>32, <2>1, <2>4 DEF OutsideEdit
<1>33. CASE UNCHANGED vars
  BY <1>33 DEF vars
<1> QED  BY <1>1, <1>2, <1>3, <1>4, <1>5, <1>6, <1>7, <1>8, <1>9, <1>10, <1>11, <1>12, <1>13, <1>14, <1>15, <1>16, <1>17, <1>18, <1>19, <1>20, <1>21, <1>22, <1>23, <1>24, <1>25, <1>26, <1>27, <1>28, <1>29, <1>30, <1>31, <1>32, <1>33 DEF Next

\* Every variable has its type, for any number of tasks, files and resumes.
THEOREM QualityTypesHold == Spec => []TypeOK
<1>1. Init => TaskInv
  BY DEF Init, TaskInv, Auditing, Applying
<1> QED  BY <1>1, TypeInit, TypeStep, PTL DEF Spec

-----------------------------------------------------------------------------
(* Commits                                                                 *)

Preparing == {"initial", "repair", "repaired", "optimize", "promote", "enhance", "final"}
Committing == {"commits", "staged", "record"}

Valid(contents, passed) == contents = Original \/ \E c \in passed : contents = Seen(c)

\* Whatever git holds and whatever the manifest accepts was validated.
StoredInv ==
  \A t \in Tasks : /\ Valid(head[t], validated[t]) /\ Valid(index[t], validated[t])
                   /\ Accepted(record[t]) => record[t].fingerprint \in validated[t]

\* What stands between: the worktree of a task is untouched until its
\* validated candidate is applied, and is that candidate afterwards; the host
\* commits worktrees that are what the manifest accepted.
WorkInv ==
  /\ pc \in Preparing => tree[task] = original
  /\ pc \in {"apply", "stage", "commit"} => candidate \in validated[task]
  /\ pc = "apply" => \A p \in Paths \ todo : tree[task][p] = candidate[p]
  /\ pc \in {"stage", "commit", "complete"} => tree[task] = candidate
  /\ pc = "complete" /\ Diff(original, candidate) # {} => candidate \in validated[task]
  /\ pc \in Committing => \A t \in Tasks : Accepted(record[t]) => tree[t] = record[t].fingerprint

\* A record is accepted only if it was, with the same fingerprint.
Kept(new, old) == Accepted(new) => Accepted(old) /\ new.fingerprint = old.fingerprint

LEMMA StoredNext ==
  StoredInv' <=>
    \A t \in Tasks : /\ Valid(head'[t], validated'[t]) /\ Valid(index'[t], validated'[t])
                     /\ Accepted(record'[t]) => record'[t].fingerprint \in validated'[t]
BY DEF StoredInv, Valid, Original, Seen, Tasks

\* A step that accepts nothing and moves nothing into git keeps StoredInv.
LEMMA StoredKept ==
  ASSUME StoredInv, UNCHANGED <<head, index>>,
         \A t \in Tasks : validated[t] \subseteq validated'[t],
         \A t \in Tasks : Kept(record'[t], record[t])
  PROVE  StoredInv'
<1>2. \A passed, more : passed \subseteq more => \A c : Valid(c, passed) => Valid(c, more)
  BY DEF Valid
<1> SUFFICES ASSUME NEW t \in Tasks
               PROVE  /\ Valid(head[t], validated'[t]) /\ Valid(index[t], validated'[t])
                      /\ Accepted(record'[t]) => record'[t].fingerprint \in validated'[t]
  BY StoredNext
<1>5. /\ Valid(head[t], validated[t]) /\ Valid(index[t], validated[t])
      /\ Accepted(record[t]) => record[t].fingerprint \in validated[t]
  BY DEF StoredInv
<1>6. validated[t] \subseteq validated'[t] /\ Kept(record'[t], record[t])
  OBVIOUS
<1>7. Valid(head[t], validated'[t]) /\ Valid(index[t], validated'[t])
  BY <1>2, <1>5, <1>6
<1>8. Accepted(record'[t]) => record'[t].fingerprint \in validated'[t]
  BY <1>5, <1>6 DEF Kept
<1> QED  BY <1>7, <1>8

\* A record that is not completed is not accepted.
LEMMA OthersKept ==
  ASSUME NEW k \in Tasks, record'[k].state # "completed",
         \A t \in Tasks \ {k} : record'[t] = record[t]
  PROVE  \A t \in Tasks : Kept(record'[t], record[t])
BY DEF Kept, Accepted

\* Packages that differ nowhere are equal.
LEMMA SameFiles ==
  ASSUME NEW a \in Contents, NEW b \in Contents, \A p \in Paths : a[p] = b[p]
  PROVE  a = b
BY DEF Contents

\* Every step but a completion keeps what was accepted, or drops it.
LEMMA RecordStep ==
  TypeOK /\ TaskInv /\ [Next]_vars => CompleteTask \/ \A t \in Tasks : Kept(record'[t], record[t])
<1> SUFFICES ASSUME TypeOK, TaskInv, [Next]_vars, ~CompleteTask PROVE \A t \in Tasks : Kept(record'[t], record[t])
  OBVIOUS
<1>u. ASSUME UNCHANGED record PROVE \A t \in Tasks : Kept(record'[t], record[t])
  BY <1>u DEF Kept, Accepted
<1>t. ASSUME NEW s \in States \ {"completed"}, task \in Tasks, Transition(s) PROVE \A t \in Tasks : Kept(record'[t], record[t])
  <2>1. record'[task].state = s /\ \A t \in Tasks \ {task} : record'[t] = record[t]
    BY <1>t, TransitionKeeps
  <2> QED  BY <1>t, <2>1, OthersKept
<1>r. ASSUME NEW s \in States \ {"completed"}, NEW r, task \in Tasks,
             record' = [record EXCEPT ![task] = r], r.state = s
      PROVE  \A t \in Tasks : Kept(record'[t], record[t])
  <2>1. record'[task] = r /\ \A t \in Tasks \ {task} : record'[t] = record[t]
    BY <1>r DEF TypeOK
  <2> QED  BY <1>r, <2>1, OthersKept
<1>s. {"validating", "repairing", "optimizing", "infrastructure_failed", "platform_deferred",
       "reported_failure"} \subseteq States \ {"completed"}
  BY DEF States, Terminal
<1>c. \A t \in Tasks : tree[t] \in Contents /\ record[t] \in Records
  BY DEF TypeOK
<1>p. ASSUME task \in Tasks, Report PROVE \A t \in Tasks : Kept(record'[t], record[t])
  <2>1. record'[task].state # "completed" /\ \A t \in Tasks \ {task} : record'[t] = record[t]
    BY <1>p, ReportRecord
  <2> QED  BY <1>p, <2>1, OthersKept
<1> USE DEF TaskInv, fileVars, memVars, workVars, runVars, Auditing, Applying
<1>1. CASE DeferTask
  <2>1. task \in Tasks
    BY <1>1 DEF DeferTask, TypeOK
  <2>2. record' = [record EXCEPT ![task] =
          [record[task] EXCEPT !.state = "platform_deferred", !.fingerprint = tree[task]]]
    BY <1>1 DEF DeferTask
  <2>3. [record[task] EXCEPT !.state = "platform_deferred", !.fingerprint = tree[task]].state = "platform_deferred"
    BY <1>c, <2>1, Zenon DEF Records
  <2> QED  BY <1>r, <1>s, <2>1, <2>2, <2>3
<1>2. CASE BeginTask
  <2>1. task \in Tasks
    BY <1>2 DEF BeginTask
  <2>2. record' = [record EXCEPT ![task] =
          [record[task] EXCEPT !.state = "validating", !.fingerprint = tree[task]]]
    BY <1>2 DEF BeginTask
  <2>3. [record[task] EXCEPT !.state = "validating", !.fingerprint = tree[task]].state = "validating"
    BY <1>c, <2>1, Zenon DEF Records
  <2> QED  BY <1>r, <1>s, <2>1, <2>2, <2>3
<1>3. CASE ValidateInitial
  BY <1>3, <1>t, <1>s DEF ValidateInitial
<1>4. CASE Repair
  BY <1>4, <1>p, <1>u DEF Repair
<1>5. CASE ValidateRepaired
  BY <1>5, <1>p, <1>t, <1>s DEF ValidateRepaired
<1>6. CASE ValidateFinal
  BY <1>6, <1>p, <1>u DEF ValidateFinal
<1>7. CASE TaskRaises
  BY <1>7, <1>t, <1>s DEF TaskRaises
<1>8. CASE TaskUnreadable
  BY <1>8, <1>t, <1>s DEF TaskUnreadable
<1>9. CASE RecordCommit
  <2>1. task \in Tasks
    BY <1>9 DEF RecordCommit
  <2>2. record' = [record EXCEPT ![task] = [record[task] EXCEPT !.pending = FALSE]]
    BY <1>9 DEF RecordCommit
  <2>3. record'[task] = [record[task] EXCEPT !.pending = FALSE] /\ \A t \in Tasks \ {task} : record'[t] = record[t]
    BY <2>1, <2>2 DEF TypeOK
  <2>4. ~record'[task].pending
    BY <1>c, <2>1, <2>3, Zenon DEF Records
  <2> QED  BY <2>3, <2>4 DEF Kept, Accepted
<1>10. CASE OutsideEdit
  <2>1. CASE UNCHANGED record
    BY <1>u, <2>1
  <2>2. CASE \E t \in Tasks : record' = [record EXCEPT ![t].evidence = FALSE]
    <3>1. PICK k \in Tasks : record' = [record EXCEPT ![k].evidence = FALSE]
      BY <2>2
    <3>2. record' = [record EXCEPT ![k] = [record[k] EXCEPT !.evidence = FALSE]]
      BY <3>1
    <3>3. record'[k] = [record[k] EXCEPT !.evidence = FALSE] /\ \A t \in Tasks \ {k} : record'[t] = record[t]
      BY <3>2 DEF TypeOK
    <3>4. /\ record'[k].state = record[k].state /\ record'[k].fingerprint = record[k].fingerprint
          /\ record'[k].pending = record[k].pending
      BY <1>c, <3>3, Zenon DEF Records
    <3> QED  BY <3>3, <3>4 DEF Kept, Accepted
  <2> QED  BY <1>10, <2>1, <2>2 DEF OutsideEdit
<1>11. CASE UNCHANGED vars
  BY <1>11, <1>u DEF vars
<1>12. CASE \/ StartRun \/ ResumeRun \/ SkipTask \/ Optimize \/ Promote \/ Enhance \/ NothingToApply
            \/ ApplyPath \/ StageTask \/ CommitTask \/ EndRun \/ FinalizeAgain \/ VerifyPending
            \/ RefuseFinalize \/ PassOver \/ StageAccepted \/ CommitAccepted \/ AllCommitted
            \/ Publish \/ PublicationFails \/ Kill
  BY <1>12, <1>u DEF StartRun, ResumeRun, SkipTask, Optimize, Promote, Enhance, NothingToApply,
     ApplyPath, StageTask, CommitTask, EndRun, FinalizeAgain, VerifyPending, RefuseFinalize, PassOver,
     StageAccepted, CommitAccepted, AllCommitted, Publish, PublicationFails, Kill
<1> QED  BY <1>1, <1>2, <1>3, <1>4, <1>5, <1>6, <1>7, <1>8, <1>9, <1>10, <1>11, <1>12 DEF Next

\* Validation only adds to what was validated.
LEMMA ValidatedGrows ==
  TypeOK /\ TaskInv /\ [Next]_vars => \A t \in Tasks : validated[t] \subseteq validated'[t]
<1> SUFFICES ASSUME TypeOK, TaskInv, [Next]_vars PROVE \A t \in Tasks : validated[t] \subseteq validated'[t]
  OBVIOUS
<1>1. ASSUME NEW c, task \in Tasks, validated' = [validated EXCEPT ![task] = @ \cup {c}]
      PROVE  \A t \in Tasks : validated[t] \subseteq validated'[t]
  BY <1>1 DEF TypeOK
<1>2. CASE ValidateInitial \/ ValidateRepaired \/ ValidateFinal \/ Promote \/ Enhance
  <2>1. task \in Tasks
    BY <1>2 DEF ValidateInitial, ValidateRepaired, ValidateFinal, Promote, Enhance, TaskInv, Auditing
  <2>2. UNCHANGED validated \/ \E c : validated' = [validated EXCEPT ![task] = @ \cup {c}]
    BY <1>2 DEF ValidateInitial, ValidateRepaired, ValidateFinal, Promote, Enhance, Judged, Propose
  <2> QED  BY <1>1, <2>1, <2>2
<1>3. CASE UNCHANGED vars
  BY <1>3 DEF vars, workVars
<1>4. ASSUME Next, ~(ValidateInitial \/ ValidateRepaired \/ ValidateFinal \/ Promote \/ Enhance)
      PROVE  UNCHANGED validated
  BY <1>4 DEF Next, workVars, StartRun, ResumeRun, SkipTask, DeferTask, BeginTask, Repair, Optimize, NothingToApply,
     ApplyPath, StageTask, CommitTask, CompleteTask, TaskRaises, TaskUnreadable, EndRun, FinalizeAgain,
     VerifyPending, RefuseFinalize, PassOver, StageAccepted, CommitAccepted, RecordCommit, AllCommitted,
     Publish, PublicationFails, Kill, OutsideEdit
<1> QED  BY <1>2, <1>3, <1>4

\* No step brings into git, or accepts, what was not validated.
LEMMA StoredStep == TypeOK /\ TaskInv /\ StoredInv /\ WorkInv /\ [Next]_vars => StoredInv'
<1> SUFFICES ASSUME TypeOK, TaskInv, StoredInv, WorkInv, [Next]_vars PROVE StoredInv'
  OBVIOUS
<1>g. \A t \in Tasks : validated[t] \subseteq validated'[t]
  BY ValidatedGrows
<1>1. CASE CompleteTask
  <2>1. task \in Tasks /\ UNCHANGED <<head, index, validated>>
    BY <1>1 DEF CompleteTask, workVars, TaskInv, Auditing, Applying
  <2> DEFINE r == record'[task]
  <2>3. \A t \in Tasks \ {task} : record'[t] = record[t]
    BY <1>1, <2>1 DEF CompleteTask, TypeOK
  <2> DEFINE b == deferred /\ Diff(original, candidate) # {}
             e == task \notin spoilt
  <2>2. record' = [record EXCEPT ![task] = [state |-> "completed", fingerprint |-> tree[task],
                     changes |-> Diff(original, candidate), pending |-> b, evidence |-> e]]
    BY <1>1 DEF CompleteTask
  <2>4. r.fingerprint = tree[task] /\ (r.pending => Diff(original, candidate) # {})
    <3>1. b => Diff(original, candidate) # {}
      OBVIOUS
    <3> HIDE DEF b, e
    <3>2. r = [state |-> "completed", fingerprint |-> tree[task],
               changes |-> Diff(original, candidate), pending |-> b, evidence |-> e]
      BY <2>1, <2>2 DEF TypeOK
    <3>3. r.fingerprint = tree[task] /\ r.pending = b
      BY <3>2
    <3> QED  BY <3>1, <3>3, Zenon
  <2> HIDE DEF b, e
  <2>5. r.pending => r.fingerprint \in validated[task]
    BY <1>1, <2>4 DEF CompleteTask, WorkInv
  <2> QED  BY <2>1, <2>3, <2>5, StoredNext DEF StoredInv, Accepted
<1>2. CASE StageTask \/ StageAccepted
  <2>1. /\ task \in Tasks /\ UNCHANGED <<head, record, validated>>
        /\ index' = [index EXCEPT ![task] = Seen(tree[task])]
    BY <1>2 DEF StageTask, StageAccepted, workVars, TaskInv, Auditing, Applying
  <2>2. tree[task] \in validated[task]
    <3>1. CASE StageTask
      BY <3>1 DEF StageTask, WorkInv
    <3>2. CASE StageAccepted
      BY <2>1, <3>2 DEF StageAccepted, WorkInv, Committing, StoredInv
    <3> QED  BY <1>2, <3>1, <3>2
  <2>3. index'[task] = Seen(tree[task]) /\ \A t \in Tasks \ {task} : index'[t] = index[t]
    BY <2>1 DEF TypeOK
  <2>4. Valid(index'[task], validated[task])
    BY <2>2, <2>3 DEF Valid
  <2> QED  BY <2>1, <2>3, <2>4, StoredNext DEF StoredInv
<1>3. CASE CommitTask \/ CommitAccepted
  <2>1. head' = index /\ UNCHANGED <<index, record, validated>>
    BY <1>3 DEF workVars, CommitTask, CommitAccepted
  <2> QED  BY <2>1, StoredNext DEF StoredInv
<1>4. CASE ~(CompleteTask \/ StageTask \/ StageAccepted \/ CommitTask \/ CommitAccepted)
  <2>1. UNCHANGED <<head, index>>
    BY <1>4 DEF Next, vars, fileVars, StartRun, ResumeRun, SkipTask, DeferTask, BeginTask, ValidateInitial,
       Repair, ValidateRepaired, Optimize, Promote, Enhance, ValidateFinal, NothingToApply, ApplyPath,
       TaskRaises, TaskUnreadable, EndRun, FinalizeAgain, VerifyPending, RefuseFinalize, PassOver,
       RecordCommit, AllCommitted, Publish, PublicationFails, Kill, OutsideEdit
  <2> QED  BY <1>4, <1>g, <2>1, RecordStep, StoredKept
<1> QED  BY <1>1, <1>2, <1>3, <1>4

\* Each step hands the next one the worktree it relies on.
LEMMA WorkStep == TypeOK /\ TaskInv /\ WorkInv /\ [Next]_vars => WorkInv'
<1> SUFFICES ASSUME TypeOK, TaskInv, WorkInv, [Next]_vars PROVE WorkInv'
  OBVIOUS
<1>i. ASSUME pc' \notin Preparing \cup Committing \cup {"apply", "stage", "commit", "complete"} PROVE WorkInv'
  BY <1>i DEF WorkInv
<1>p. ASSUME pc' \in Preparing, tree'[task'] = original' PROVE WorkInv'
  BY <1>p DEF WorkInv, Preparing, Committing
<1>g. \A t \in Tasks : validated[t] \subseteq validated'[t]
  BY ValidatedGrows
<1>c. \A t \in Tasks : tree[t] \in Contents
  BY DEF TypeOK
<1> USE DEF fileVars, memVars, workVars, runVars
<1>1. CASE \/ StartRun \/ ResumeRun \/ SkipTask \/ DeferTask \/ TaskRaises \/ TaskUnreadable \/ EndRun
           \/ FinalizeAgain \/ RefuseFinalize \/ AllCommitted \/ Publish \/ PublicationFails \/ Kill
           \/ OutsideEdit
  <2>1. pc' \in {"off", "next", "finalize", "publish"}
    BY <1>1 DEF StartRun, ResumeRun, SkipTask, DeferTask, TaskRaises, TaskUnreadable, EndRun, FinalizeAgain,
       RefuseFinalize, AllCommitted, Publish, PublicationFails, Kill, OutsideEdit, Stop, NextTask
  <2> QED  BY <1>i, <2>1 DEF Preparing, Committing
<1>2. CASE BeginTask
  <2>1. pc' \in Preparing /\ tree'[task'] = original'
    BY <1>2 DEF BeginTask, Preparing
  <2> QED  BY <1>p, <2>1
<1>3. CASE ValidateInitial \/ Optimize \/ Promote \/ Enhance
  <2>1. pc \in Preparing /\ pc' \in Preparing \cup {"promote"} /\ UNCHANGED <<tree, task, original>>
    BY <1>3 DEF ValidateInitial, Optimize, Promote, Enhance, Finishing, Preparing
  <2> QED  BY <1>p, <2>1 DEF WorkInv, Preparing
<1>4. CASE Repair \/ ValidateRepaired
  <2>1. CASE Report
    BY <1>i, <2>1 DEF Report, NextTask, Preparing, Committing
  <2>2. CASE ~Report
    <3>1. pc \in Preparing /\ pc' \in Preparing /\ UNCHANGED <<tree, task, original>>
      BY <1>4, <2>2 DEF Repair, ValidateRepaired, Preparing
    <3> QED  BY <1>p, <3>1 DEF WorkInv
  <2> QED  BY <2>1, <2>2
<1>5. CASE ValidateFinal
  <2>1. CASE Report
    BY <1>i, <2>1 DEF Report, NextTask, Preparing, Committing
  <2>2. CASE ~Report
    <3>1. /\ Judged(candidate, "PASS") /\ todo' = Diff(original, candidate) /\ pc' = "apply"
          /\ UNCHANGED <<tree, task, original, candidate>>
      BY <1>5, <2>2 DEF ValidateFinal
    <3>2. task \in Tasks /\ pc \in Preparing
      BY <1>5 DEF ValidateFinal, TaskInv, Auditing, Preparing
    <3>3. candidate \in validated'[task]
      BY <3>1, <3>2 DEF Judged, TypeOK
    <3>4. \A p \in Paths \ todo' : tree[task][p] = candidate[p]
      BY <3>1, <3>2 DEF Diff, WorkInv
    <3> QED  BY <3>1, <3>3, <3>4 DEF WorkInv, Preparing, Committing
  <2> QED  BY <2>1, <2>2
<1>6. CASE NothingToApply
  <2>1. /\ pc \in Preparing /\ task \in Tasks /\ pc' = "complete"
        /\ Diff(original, candidate) = {} /\ UNCHANGED <<tree, task, original, candidate>>
    BY <1>6 DEF NothingToApply, Preparing, TaskInv, Auditing
  <2>2. original = candidate
    BY <2>1, SameFiles DEF Diff, TypeOK
  <2>3. Diff(original, candidate)' = {}
    BY <2>1 DEF Diff
  <2> QED  BY <2>1, <2>2, <2>3 DEF WorkInv, Preparing, Committing
<1>7. CASE ApplyPath
  <2>1. PICK p \in todo : /\ tree' = [tree EXCEPT ![task][p] = candidate[p]]
                          /\ todo' = todo \ {p}
                          /\ pc' = IF todo # {p} THEN "apply"
                                   ELSE IF deferred THEN "complete" ELSE "stage"
    BY <1>7 DEF ApplyPath
  <2>2. pc = "apply" /\ task \in Tasks /\ UNCHANGED <<task, candidate, validated>>
    BY <1>7 DEF ApplyPath, TaskInv, Auditing, Applying
  <2>3. tree' = [tree EXCEPT ![task] = [tree[task] EXCEPT ![p] = candidate[p]]]
    BY <2>1
  <2>4. tree'[task] = [tree[task] EXCEPT ![p] = candidate[p]]
    BY <2>2, <2>3 DEF TypeOK
  <2>5. tree'[task] \in Contents
    BY <1>c, <2>1, <2>2, <2>4 DEF Contents, TypeOK
  <2>6. \A q \in Paths \ todo' : tree'[task][q] = candidate[q]
    BY <1>c, <2>1, <2>2, <2>4 DEF WorkInv, Contents
  <2>7. todo = {p} => tree'[task] = candidate
    BY <2>1, <2>5, <2>6, SameFiles DEF TypeOK
  <2>8. candidate \in validated[task]
    BY <2>2 DEF WorkInv
  <2>9. pc' = "apply" \/ (pc' \in {"stage", "complete"} /\ todo = {p})
    BY <2>1
  <2> QED  BY <2>2, <2>6, <2>7, <2>8, <2>9 DEF WorkInv, Preparing, Committing
<1>8. CASE StageTask \/ CommitTask
  <2>1. /\ pc \in {"stage", "commit"} /\ pc' \in {"commit", "complete"}
        /\ UNCHANGED <<tree, task, original, candidate, validated>>
    BY <1>8 DEF StageTask, CommitTask
  <2> QED  BY <2>1 DEF WorkInv, Preparing, Committing
<1>9. CASE CompleteTask
  BY <1>i, <1>9 DEF CompleteTask, NextTask, Preparing, Committing
<1>10. CASE VerifyPending
  <2>1. pc' = "commits" /\ Ready /\ UNCHANGED <<tree, record>>
    BY <1>10 DEF VerifyPending
  <2>2. \A t \in Tasks : Accepted(record[t]) => tree[t] = record[t].fingerprint
    BY <2>1 DEF Ready, Current, Accepted
  <2>3. Tasks' = Tasks
    BY DEF Tasks
  <2> QED  BY <2>1, <2>2, <2>3 DEF WorkInv, Preparing, Committing
<1>11. CASE PassOver \/ CommitAccepted \/ RecordCommit
  <2>1. pc \in Committing /\ pc' \in {"commits", "record"} /\ UNCHANGED tree
    BY <1>11 DEF PassOver, CommitAccepted, RecordCommit, Committing
  <2>2. \A t \in Tasks : Kept(record'[t], record[t])
    BY <1>11, RecordStep DEF CompleteTask, PassOver, CommitAccepted, RecordCommit
  <2>3. \A t \in Tasks : Accepted(record'[t]) => tree[t] = record'[t].fingerprint
    BY <2>1, <2>2 DEF WorkInv, Kept
  <2>4. Tasks' = Tasks
    BY DEF Tasks
  <2> QED  BY <2>1, <2>3, <2>4 DEF WorkInv, Preparing, Committing
<1>12. CASE StageAccepted
  <2>1. CASE Seen(tree[task]) # head[task]
    BY <1>12, <2>1 DEF StageAccepted, WorkInv, Preparing, Committing
  <2>2. CASE Seen(tree[task]) = head[task]
    BY <1>i, <1>12, <2>2 DEF StageAccepted, Stop, Preparing, Committing
  <2> QED  BY <2>1, <2>2
<1>13. CASE UNCHANGED vars
  BY <1>13 DEF vars, WorkInv, Diff
<1> QED  BY <1>1, <1>2, <1>3, <1>4, <1>5, <1>6, <1>7, <1>8, <1>9, <1>10, <1>11, <1>12, <1>13 DEF Next

\* Initially nothing is committed or accepted.
LEMMA StoredInit == Init => TaskInv /\ StoredInv /\ WorkInv
BY DEF Init, TaskInv, Auditing, Applying, StoredInv, Valid, Accepted, NewRecord, WorkInv, Preparing, Committing

\* What git holds of a task is its original or was validated as a whole,
\* through half applied changes, outside edits, stale staged files and commits
\* by later runs.
THEOREM CommittedIsValidatedHolds == Spec => []CommittedIsValidated
<1>1. StoredInv => CommittedIsValidated
  BY DEF StoredInv, Valid, CommittedIsValidated
<1> QED  BY <1>1, TypeInit, TypeStep, StoredInit, StoredStep, WorkStep, PTL DEF Spec

-----------------------------------------------------------------------------
(* Finished tasks                                                          *)

\* The record of a finished task is that of its files, and of its evidence
\* unless the repair agent changed that.
Finished(t) ==
  record[t].state \in Terminal =>
    /\ record[t].fingerprint = tree[t]
    /\ record[t].state = "platform_deferred" \/ record[t].evidence \/ t \in spoilt

\* While nobody touches the campaign from outside, finished tasks are so, the
\* task at work is not finished, and until its changes are applied it keeps the
\* fingerprint it began with.
FinishedInv ==
  edits = 0 =>
    /\ \A t \in Tasks : Finished(t)
    /\ pc \in Auditing => record[task].state \notin Terminal
    /\ pc \in Preparing => record[task].fingerprint = tree[task]

\* No step but an outside touch leaves a finished task with another's evidence.
LEMMA FinishedStep == TypeOK /\ TaskInv /\ FinishedInv /\ [Next]_vars => FinishedInv'
<1> SUFFICES ASSUME TypeOK, TaskInv, FinishedInv, [Next]_vars PROVE FinishedInv'
  OBVIOUS
<1>e. ASSUME edits' # 0 PROVE FinishedInv'
  BY <1>e DEF FinishedInv
<1>z. SUFFICES ASSUME edits = 0, edits' = 0 PROVE FinishedInv'
  <2>1. CASE OutsideEdit
    BY <1>e, <2>1 DEF OutsideEdit, TypeOK
  <2>2. CASE ~OutsideEdit
    <3>1. edits' = edits
      BY <2>2 DEF Next, vars, workVars, runVars, StartRun, ResumeRun, SkipTask, DeferTask, BeginTask, ValidateInitial,
         Repair, ValidateRepaired, Optimize, Promote, Enhance, ValidateFinal, NothingToApply, ApplyPath,
         StageTask, CommitTask, CompleteTask, TaskRaises, TaskUnreadable, EndRun, FinalizeAgain,
         VerifyPending, RefuseFinalize, PassOver, StageAccepted, CommitAccepted, RecordCommit, AllCommitted,
         Publish, PublicationFails, Kill
    <3> QED  BY <1>e, <1>z, <3>1
  <2> QED  BY <2>1, <2>2
<1>f. \A t \in Tasks : Finished(t)
  BY <1>z DEF FinishedInv
<1>c. record \in [Tasks -> Records] /\ tree \in [Tasks -> Contents]
  BY DEF TypeOK
<1>o. ASSUME \A t \in Tasks : Finished(t)',
             pc' \in Auditing => record'[task'].state \notin Terminal,
             pc' \in Preparing => record'[task'].fingerprint = tree'[task']
      PROVE  FinishedInv'
  BY <1>o DEF FinishedInv, Tasks, Terminal
<1>u. ASSUME UNCHANGED <<tree, record, spoilt>>, pc' \notin Auditing PROVE FinishedInv'
  BY <1>f, <1>o, <1>u DEF Finished, Auditing, Applying, Preparing, Terminal
<1>w. ASSUME UNCHANGED <<tree, record, task>>, spoilt \subseteq spoilt', pc \in Auditing, pc' \in Auditing,
             pc' \in Preparing => pc \in Preparing
      PROVE  FinishedInv'
  <2>1. \A t \in Tasks : Finished(t)'
    BY <1>f, <1>w DEF Finished, Terminal
  <2> QED  BY <1>z, <1>o, <1>w, <2>1 DEF FinishedInv
<1>n. ASSUME NEW s \in States \ Terminal, task \in Tasks, Transition(s), UNCHANGED <<tree, spoilt>>,
             pc' \in Auditing => task' = task,
             pc' \in Preparing => pc \in Preparing
      PROVE  FinishedInv'
  <2>1. /\ record'[task].state = s /\ record'[task].fingerprint = record[task].fingerprint
        /\ \A t \in Tasks \ {task} : record'[t] = record[t]
    BY <1>n, TransitionKeeps
  <2>2. \A t \in Tasks : Finished(t)'
    BY <1>f, <1>n, <2>1 DEF Finished, Terminal
  <2>3. pc' \in Auditing => record'[task'].state \notin Terminal
    BY <1>n, <2>1
  <2>4. pc' \in Preparing => record'[task'].fingerprint = tree'[task']
    BY <1>z, <1>n, <2>1 DEF FinishedInv, Preparing, Auditing, Applying
  <2> QED  BY <1>o, <2>2, <2>3, <2>4
<1>d. ASSUME task \in Tasks, \A t \in Tasks \ {task} : record'[t] = record[t], UNCHANGED tree,
             spoilt \subseteq spoilt', pc' \notin Auditing,
             record'[task].fingerprint = tree[task],
             record'[task].state = "platform_deferred" \/ record'[task].evidence \/ task \in spoilt'
      PROVE  FinishedInv'
  <2>2. \A t \in Tasks : Finished(t)'
    BY <1>f, <1>d DEF Finished, Terminal
  <2> QED  BY <1>o, <1>d, <2>2 DEF Preparing, Auditing, Applying
<1>r. ASSUME NEW r, task \in Tasks, record' = [record EXCEPT ![task] = r]
      PROVE  record'[task] = r /\ \A t \in Tasks \ {task} : record'[t] = record[t]
  BY <1>c, <1>r
<1>s. {"validating", "repairing", "optimizing", "infrastructure_failed"} \subseteq States \ Terminal
  BY DEF States, Terminal
<1>p. ASSUME Report, pc \in Preparing, task \in Tasks, UNCHANGED tree, spoilt \subseteq spoilt' PROVE FinishedInv'
  <2>1. /\ record'[task].fingerprint = record[task].fingerprint
        /\ record'[task].evidence = (task \notin spoilt')
        /\ \A t \in Tasks \ {task} : record'[t] = record[t] /\ pc' = "next"
    BY <1>p, ReportRecord
  <2>2. record'[task].evidence \/ task \in spoilt'
    BY <2>1, Zenon
  <2>3. record[task].fingerprint = tree[task] /\ pc' = "next"
    BY <1>z, <1>p, ReportRecord DEF FinishedInv
  <2> QED  BY <1>d, <1>p, <2>1, <2>2, <2>3 DEF Auditing, Applying
<1> USE DEF fileVars, memVars, workVars, runVars
<1>1. CASE \/ StartRun \/ ResumeRun \/ SkipTask \/ EndRun \/ FinalizeAgain \/ VerifyPending \/ RefuseFinalize
           \/ PassOver \/ StageAccepted \/ CommitAccepted \/ AllCommitted \/ Publish \/ PublicationFails \/ Kill
  <2>1. UNCHANGED <<tree, record, spoilt>> /\ pc' \in {"off", "next", "finalize", "publish", "commits", "staged", "record"}
    BY <1>1 DEF StartRun, ResumeRun, SkipTask, EndRun, FinalizeAgain, VerifyPending, RefuseFinalize, PassOver,
       StageAccepted, CommitAccepted, AllCommitted, Publish, PublicationFails, Kill, Stop, NextTask
  <2> QED  BY <1>u, <2>1 DEF Auditing, Applying
<1>2. CASE DeferTask
  <2> DEFINE r == [record[task] EXCEPT !.state = "platform_deferred", !.fingerprint = tree[task]]
  <2>1. record' = [record EXCEPT ![task] = r] /\ pc' = "next" /\ task \in Tasks /\ UNCHANGED <<tree, spoilt>>
    BY <1>2 DEF DeferTask, NextTask, TypeOK
  <2>2. r.state = "platform_deferred" /\ r.fingerprint = tree[task]
    BY <1>c, <2>1, Zenon DEF Records
  <2> HIDE DEF r
  <2> QED  BY <1>d, <1>r, <2>1, <2>2 DEF Auditing, Applying
<1>3. CASE BeginTask
  <2> DEFINE r == [record[task] EXCEPT !.state = "validating", !.fingerprint = tree[task]]
  <2>1. /\ record' = [record EXCEPT ![task] = r] /\ pc' = "initial" /\ task \in Tasks
        /\ UNCHANGED <<tree, task>> /\ spoilt' = spoilt \ {task}
    BY <1>3 DEF BeginTask
  <2>2. r.state = "validating" /\ r.fingerprint = tree[task]
    BY <1>c, <2>1, Zenon DEF Records
  <2> HIDE DEF r
  <2>3. record'[task] = r /\ \A t \in Tasks \ {task} : record'[t] = record[t]
    BY <1>r, <2>1
  <2>4. \A t \in Tasks : Finished(t)'
    BY <1>f, <2>1, <2>2, <2>3 DEF Finished, Terminal
  <2> QED  BY <1>o, <2>1, <2>2, <2>3, <2>4 DEF Terminal
<1>4. CASE ValidateInitial
  <2>1. /\ pc \in Preparing /\ task \in Tasks /\ UNCHANGED <<tree, task, spoilt>>
        /\ Transition("repairing") \/ Transition("optimizing")
    BY <1>4 DEF ValidateInitial, Preparing, TaskInv, Auditing
  <2> QED  BY <1>n, <1>s, <2>1
<1>5. CASE Repair
  <2>1. pc \in Preparing /\ task \in Tasks /\ UNCHANGED tree /\ spoilt \subseteq spoilt'
    BY <1>5 DEF Repair, Preparing, TaskInv, Auditing
  <2>2. CASE ~Report
    <3>1. pc' = "repaired" /\ UNCHANGED <<record, task>>
      BY <1>5, <2>2 DEF Repair
    <3> QED  BY <1>w, <2>1, <3>1 DEF Auditing, Applying, Preparing
  <2> QED  BY <1>p, <2>1, <2>2
<1>6. CASE ValidateRepaired
  <2>1. pc \in Preparing /\ task \in Tasks /\ UNCHANGED <<tree, spoilt>>
    BY <1>6 DEF ValidateRepaired, Preparing, TaskInv, Auditing
  <2>2. CASE ~Report
    <3>1. Transition("optimizing") /\ UNCHANGED task
      BY <1>6, <2>2 DEF ValidateRepaired
    <3> QED  BY <1>n, <1>s, <2>1, <3>1
  <2> QED  BY <1>p, <2>1, <2>2
<1>7. CASE ValidateFinal
  <2>1. pc \in Preparing /\ task \in Tasks /\ UNCHANGED <<tree, spoilt>>
    BY <1>7 DEF ValidateFinal, Preparing, TaskInv, Auditing
  <2>2. CASE ~Report
    <3>1. pc' = "apply" /\ UNCHANGED <<record, task>>
      BY <1>7, <2>2 DEF ValidateFinal
    <3> QED  BY <1>w, <2>1, <3>1 DEF Auditing, Applying, Preparing
  <2> QED  BY <1>p, <2>1, <2>2
<1>8. CASE Optimize \/ Promote \/ Enhance \/ NothingToApply \/ StageTask \/ CommitTask
  <2>1. /\ pc \in Auditing /\ UNCHANGED <<tree, record, task, spoilt>>
        /\ \/ pc \in Preparing /\ pc' \in Preparing \cup {"complete"}
           \/ pc' \in {"commit", "complete"}
    BY <1>8 DEF Optimize, Promote, Enhance, NothingToApply, StageTask, CommitTask, Finishing, Auditing,
       Applying, Preparing
  <2> QED  BY <1>w, <2>1 DEF Auditing, Applying, Preparing
<1>9. CASE ApplyPath
  <2>1. /\ task \in Tasks /\ pc \in Auditing /\ pc' \in {"apply", "complete", "stage"}
        /\ UNCHANGED <<record, task, spoilt>>
    BY <1>9 DEF ApplyPath, TaskInv, Auditing, Applying
  <2>2. PICK p : tree' = [tree EXCEPT ![task][p] = candidate[p]]
    BY <1>9 DEF ApplyPath
  <2>3. \A t \in Tasks \ {task} : tree'[t] = tree[t]
    BY <1>c, <2>1, <2>2
  <2>4. record[task].state \notin Terminal
    BY <1>z, <2>1 DEF FinishedInv
  <2>5. \A t \in Tasks : Finished(t)'
    BY <1>f, <2>1, <2>3, <2>4 DEF Finished, Terminal
  <2> QED  BY <1>o, <2>1, <2>4, <2>5 DEF Preparing, Terminal
<1>10. CASE CompleteTask
  <2> DEFINE b == deferred /\ Diff(original, candidate) # {}
             e == task \notin spoilt
             r == [state |-> "completed", fingerprint |-> tree[task],
                   changes |-> Diff(original, candidate), pending |-> b, evidence |-> e]
  <2>1. task \in Tasks /\ pc' = "next" /\ UNCHANGED <<tree, spoilt>> /\ record' = [record EXCEPT ![task] = r]
    BY <1>10 DEF CompleteTask, NextTask, TaskInv, Auditing, Applying
  <2>2. e \/ task \in spoilt
    OBVIOUS
  <2> HIDE DEF b, e
  <2>3. r.fingerprint = tree[task] /\ r.evidence = e
    OBVIOUS
  <2> HIDE DEF r
  <2>4. record'[task] = r /\ \A t \in Tasks \ {task} : record'[t] = record[t]
    BY <1>r, <2>1
  <2>5. record'[task].evidence \/ task \in spoilt'
    BY <2>1, <2>2, <2>3, <2>4, Zenon
  <2> QED  BY <1>d, <2>1, <2>3, <2>4, <2>5 DEF Auditing, Applying
<1>11. CASE TaskRaises
  <2>1. task \in Tasks /\ pc' = "next" /\ Transition("infrastructure_failed") /\ UNCHANGED <<tree, spoilt>>
    BY <1>11 DEF TaskRaises, TaskInv, NextTask
  <2> QED  BY <1>n, <1>s, <2>1 DEF Auditing, Applying, Preparing
<1>12. CASE TaskUnreadable
  <2>1. task \in Tasks /\ pc' = "next" /\ Transition("infrastructure_failed") /\ UNCHANGED <<tree, spoilt>>
    BY <1>12 DEF TaskUnreadable, NextTask
  <2> QED  BY <1>n, <1>s, <2>1 DEF Auditing, Applying, Preparing
<1>13. CASE RecordCommit
  <2> DEFINE r == [record[task] EXCEPT !.pending = FALSE]
  <2>1. record' = [record EXCEPT ![task] = r] /\ pc' = "commits" /\ task \in Tasks /\ UNCHANGED <<tree, spoilt>>
    BY <1>13 DEF RecordCommit, TaskInv
  <2>2. /\ r.state = record[task].state /\ r.fingerprint = record[task].fingerprint
        /\ r.evidence = record[task].evidence
    BY <1>c, <2>1, Zenon DEF Records
  <2> HIDE DEF r
  <2>3. record'[task] = r /\ \A t \in Tasks \ {task} : record'[t] = record[t]
    BY <1>r, <2>1
  <2>4. \A t \in Tasks : Finished(t)'
    BY <1>f, <2>1, <2>2, <2>3 DEF Finished, Terminal
  <2> QED  BY <1>o, <2>1, <2>4 DEF Auditing, Applying, Preparing
<1>14. CASE OutsideEdit
  BY <1>14, <1>z DEF OutsideEdit, TypeOK
<1>15. CASE UNCHANGED vars
  BY <1>15, <1>f, <1>o, <1>z DEF vars, FinishedInv, Finished, Terminal
<1> QED  BY <1>1, <1>2, <1>3, <1>4, <1>5, <1>6, <1>7, <1>8, <1>9, <1>10, <1>11, <1>12, <1>13, <1>14, <1>15 DEF Next

\* A finished task has the files that were judged, and is audited again only if
\* somebody touched it or its own repair agent changed the evidence, whatever
\* was killed or failed in between.
THEOREM FinishedIsCurrentHolds == Spec => []FinishedIsCurrent
<1>1. Init => FinishedInv
  BY DEF Init, FinishedInv, Finished, Terminal, NewRecord, Auditing, Applying, Preparing
<1>2. FinishedInv => FinishedIsCurrent
  BY DEF FinishedInv, Finished, FinishedIsCurrent, Current
<1>3. Init => TaskInv
  BY StoredInit
<1> QED  BY <1>1, <1>2, <1>3, TypeInit, TypeStep, FinishedStep, PTL DEF Spec

-----------------------------------------------------------------------------
(* Publication by the host                                                 *)

\* A task is taken when git sees no difference between its worktree, index and
\* last commit, and waits when the host will still commit it.
Taken(t) == Seen(tree[t]) = head[t] /\ index[t] = head[t]

CleanInv ==
  /\ pc \in Committing \cup {"finalize"} => deferred
  /\ pc \in {"off", "finalize"} => task = 1
  /\ pc = "commits" => \A t \in Tasks : Taken(t) \/ (t >= task /\ Accepted(record[t]))
  /\ pc = "staged" => /\ index[task] = Seen(tree[task])
                      /\ \A t \in Tasks : Taken(t) \/ t = task
                                          \/ (t > task /\ Accepted(record[t]))
  /\ pc = "record" => \A t \in Tasks : Taken(t) \/ (t > task /\ Accepted(record[t]))
  /\ pc = "publish" /\ deferred => \A t \in Tasks : Seen(tree[t]) = head[t]

\* What git holds is what it takes of something.
LEMMA GitHolds ==
  ASSUME TypeOK, StoredInv, NEW t \in Tasks
  PROVE  Seen(head[t]) = head[t] /\ Seen(index[t]) = index[t]
<1>1. \A c : Valid(c, validated[t]) => Seen(c) = c
  <2>1. validated[t] \subseteq Contents
    BY DEF TypeOK
  <2> QED  BY <2>1, SeenFacts DEF Valid
<1> QED  BY <1>1 DEF StoredInv

\* Packages that differ at no path that git takes are the same to it.
LEMMA SameSeen ==
  ASSUME NEW a \in Contents, NEW b \in Contents, \A p \in Paths \ Ignored : a[p] = b[p]
  PROVE  Seen(a) = Seen(b)
BY DEF Seen

\* Nothing but accepted tasks differs from the last commit when the host
\* begins, and it passes over none of them.
LEMMA CleanStep == TypeOK /\ TaskInv /\ StoredInv /\ CleanInv /\ [Next]_vars => CleanInv'
<1> SUFFICES ASSUME TypeOK, TaskInv, StoredInv, CleanInv, [Next]_vars PROVE CleanInv'
  OBVIOUS
<1>o. Tasks' = Tasks
  BY DEF Tasks
<1>s. /\ \A t \in Tasks : Taken(t)' <=> Seen(tree'[t]) = head'[t] /\ index'[t] = head'[t]
      /\ UNCHANGED <<tree, index, head>> => \A t \in Tasks : Taken(t)' <=> Taken(t)
      /\ UNCHANGED tree => \A t \in Tasks : Seen(tree[t])' = Seen(tree[t])
      /\ UNCHANGED <<tree, task>> => Seen(tree[task])' = Seen(tree[task])
  BY DEF Taken, Seen
<1>c. \A t \in Tasks : tree[t] \in Contents /\ head[t] \in Contents /\ index[t] \in Contents
  BY DEF TypeOK
<1>n. Last \in Nat /\ task \in Int /\ Tasks \subseteq Int
  BY DEF TypeOK, Tasks
<1>i. ASSUME pc' \notin Committing, pc' = "publish" => ~deferred',
             pc' \in {"off", "finalize"} => task' = 1, pc' = "finalize" => deferred'
      PROVE  CleanInv'
  BY <1>i DEF CleanInv, Committing
<1>d. deferred' = deferred
  BY DEF Next, vars, workVars, runVars, StartRun, ResumeRun, SkipTask, DeferTask, BeginTask, ValidateInitial, Repair,
     ValidateRepaired, Optimize, Promote, Enhance, ValidateFinal, NothingToApply, ApplyPath, StageTask,
     CommitTask, CompleteTask, TaskRaises, TaskUnreadable, EndRun, FinalizeAgain, VerifyPending,
     RefuseFinalize, PassOver, StageAccepted, CommitAccepted, RecordCommit, AllCommitted, Publish,
     PublicationFails, Kill, OutsideEdit
<1>f. pc \in Committing \cup {"finalize"} => deferred
  BY DEF CleanInv
<1> USE DEF fileVars, memVars, workVars, runVars
<1>1. CASE VerifyPending
  <2>1. pc = "finalize" /\ pc' = "commits" /\ task' = task /\ Ready /\ UNCHANGED <<tree, index, head, record>>
    BY <1>1 DEF VerifyPending
  <2>2. task = 1
    BY <1>1 DEF VerifyPending, CleanInv
  <2>3. ASSUME NEW t \in Tasks, ~Accepted(record[t]) PROVE Taken(t)
    <3>1. \A p \in Paths \ Ignored : <<t, p>> \notin Pending
      BY <2>1, <2>3 DEF Ready, Expected
    <3>2. \A p \in Paths \ Ignored : head[t][p] = tree[t][p] /\ head[t][p] = index[t][p]
      BY <2>3, <3>1 DEF Pending
    <3>3. Seen(head[t]) = Seen(tree[t]) /\ Seen(head[t]) = Seen(index[t])
      BY <1>c, <2>3, <3>2, SameSeen
    <3> QED  BY <2>3, <3>3, GitHolds DEF Taken
  <2>4. \A t \in Tasks : Taken(t) \/ (t >= task /\ Accepted(record[t]))
    BY <2>2, <2>3 DEF Tasks
  <2> QED  BY <1>o, <2>1, <2>4, <1>d, <1>f, <1>s DEF CleanInv, Committing
<1>2. CASE PassOver
  <2>1. /\ pc = "commits" /\ pc' = "commits" /\ task' = task + 1 /\ task \in Tasks
        /\ ~Accepted(record[task]) /\ UNCHANGED <<tree, index, head, record>>
    BY <1>2 DEF PassOver
  <2>2. ASSUME NEW t \in Tasks
        PROVE  Taken(t) \/ (t >= task + 1 /\ Accepted(record[t]))
    <3>1. Taken(t) \/ (t >= task /\ Accepted(record[t]))
      BY <2>1 DEF CleanInv
    <3>2. t >= task /\ t # task => t >= task + 1
      BY <1>n
    <3> QED  BY <2>1, <3>1, <3>2
  <2> QED  BY <1>o, <2>1, <2>2, <1>d, <1>f, <1>s DEF CleanInv, Committing
<1>3. CASE StageAccepted
  <2>1. CASE Seen(tree[task]) # head[task]
    <3>1. /\ pc = "commits" /\ pc' = "staged" /\ task \in Tasks /\ UNCHANGED <<tree, head, record, task>>
          /\ index' = [index EXCEPT ![task] = Seen(tree[task])]
      BY <1>3, <2>1 DEF StageAccepted
    <3>2. index'[task] = Seen(tree[task]) /\ \A t \in Tasks \ {task} : index'[t] = index[t]
      BY <3>1 DEF TypeOK
    <3>3. \A t \in Tasks : \/ (Seen(tree[t]) = head[t] /\ index'[t] = head[t]) \/ t = task
                           \/ t > task /\ Accepted(record[t])
      BY <1>n, <3>1, <3>2 DEF CleanInv, Taken
    <3> QED  BY <1>o, <3>1, <3>2, <3>3, <1>d, <1>f, <1>s DEF CleanInv, Committing
  <2>2. CASE Seen(tree[task]) = head[task]
    BY <1>i, <1>d, <1>3, <2>2 DEF StageAccepted, Stop, Committing
  <2> QED  BY <2>1, <2>2
<1>4. CASE CommitAccepted
  <2>1. /\ pc = "staged" /\ pc' = "record" /\ task \in Tasks /\ head' = index
        /\ UNCHANGED <<tree, index, record, task>>
    BY <1>4 DEF CommitAccepted, TaskInv
  <2>2. \A t \in Tasks : Seen(tree[t]) = index[t] \/ (t > task /\ Accepted(record[t]))
    BY <2>1 DEF CleanInv, Taken
  <2> QED  BY <1>o, <2>1, <2>2, <1>d, <1>f, <1>s DEF CleanInv, Committing
<1>5. CASE RecordCommit
  <2>1. /\ pc = "record" /\ pc' = "commits" /\ task \in Tasks /\ task' = task + 1
        /\ record' = [record EXCEPT ![task].pending = FALSE] /\ UNCHANGED <<tree, index, head>>
    BY <1>5 DEF RecordCommit, TaskInv
  <2>2. \A t \in Tasks \ {task} : record'[t] = record[t]
    BY <2>1 DEF TypeOK
  <2>3. \A t \in Tasks : Taken(t) \/ (t >= task + 1 /\ Accepted(record'[t]))
    BY <1>n, <2>1, <2>2 DEF CleanInv
  <2> QED  BY <1>o, <2>1, <2>3, <1>d, <1>f, <1>s DEF CleanInv, Committing
<1>6. CASE AllCommitted
  <2>1. pc = "commits" /\ pc' = "publish" /\ task \notin Tasks /\ UNCHANGED <<tree, index, head, record>>
    BY <1>6 DEF AllCommitted
  <2>2. \A t \in Tasks : t < task
    BY <1>n, <2>1 DEF Tasks, TypeOK
  <2>3. ASSUME NEW t \in Tasks PROVE Seen(tree[t]) = head[t]
    <3>1. ~(t >= task)
      BY <1>n, <2>2, <2>3
    <3>2. Taken(t)
      BY <2>1, <2>3, <3>1 DEF CleanInv
    <3> QED  BY <3>2 DEF Taken
  <2> QED  BY <1>d, <1>f, <1>s, <2>1, <2>3 DEF CleanInv, Committing
<1>7. CASE UNCHANGED vars
  BY <1>7, <1>o, <1>s DEF vars, CleanInv, Taken, Committing
<1>8. ASSUME Next, ~VerifyPending, ~PassOver, ~StageAccepted, ~CommitAccepted, ~RecordCommit, ~AllCommitted
      PROVE  /\ pc' \notin Committing /\ (pc' = "publish" => ~deferred)
             /\ (pc' \in {"off", "finalize"} => task' = 1) /\ (pc' = "finalize" => deferred)
  BY <1>8, <1>f DEF CleanInv, Next, StartRun, ResumeRun, SkipTask, DeferTask, BeginTask, ValidateInitial, Repair, Report,
     ValidateRepaired, Optimize, Promote, Enhance, ValidateFinal, NothingToApply, ApplyPath, StageTask,
     CommitTask, CompleteTask, TaskRaises, TaskUnreadable, EndRun, FinalizeAgain, RefuseFinalize, Publish,
     PublicationFails, Kill, OutsideEdit, Stop, NextTask, Finishing, Committing
<1> QED  BY <1>1, <1>2, <1>3, <1>4, <1>5, <1>6, <1>7, <1>8, <1>d, <1>i

PublishesClean == deferred /\ status' = "completed" /\ status # "completed" => \A t \in Tasks : Seen(tree'[t]) = head'[t]

\* The host publishes a campaign only when its worktree holds nothing that git
\* would take and is not committed: no leftover of an audit that was killed, no outside edit and
\* no accepted change that was passed over.
THEOREM PublishedIsCleanHolds == Spec => PublishedIsClean
<1>1. Init => CleanInv
  BY DEF Init, CleanInv, Committing
<1>3. TypeOK /\ CleanInv /\ [Next]_vars => [PublishesClean]_vars
  <2> SUFFICES ASSUME CleanInv, Next, deferred, status' = "completed", status # "completed" PROVE \A t \in Tasks : Seen(tree'[t]) = head'[t]
    BY DEF PublishesClean
  <2>1. Publish
    BY DEF Next, StartRun, ResumeRun, SkipTask, DeferTask, BeginTask, ValidateInitial, Repair, ValidateRepaired,
       Optimize, Promote, Enhance, ValidateFinal, NothingToApply, ApplyPath, StageTask, CommitTask,
       CompleteTask, TaskRaises, TaskUnreadable, EndRun, FinishedAs, FinalizeAgain, VerifyPending,
       RefuseFinalize, PassOver, StageAccepted, CommitAccepted, RecordCommit, AllCommitted,
       PublicationFails, Kill, OutsideEdit, fileVars
  <2> QED  BY <2>1 DEF Publish, CleanInv
<1>4. PublishedIsClean <=> [][PublishesClean]_vars
  BY DEF PublishedIsClean, PublishesClean
<1>5. Init => TaskInv
  BY StoredInit
<1> QED  BY <1>1, <1>3, <1>4, <1>5, StoredInit, TypeInit, TypeStep, StoredStep, WorkStep, CleanStep, PTL DEF Spec


-----------------------------------------------------------------------------
(* Faults                                                                  *)

Settled == \A t \in Tasks : record[t].state \in Terminal

\* There is nothing to commit of a task, and no file that git ignores either.
Level(t) == tree[t] = head[t] /\ index[t] = head[t]

\* What the manifest accepted of a task is what its worktree has more than
\* the last commit; at most the task the host commits next is staged.  Of any
\* other task there is nothing to commit.
Accounted(t) ==
  IF Accepted(record[t])
  THEN /\ record[t].changes = Diff(head[t], tree[t])
       /\ \/ index[t] = head[t]
          \/ index[t] = tree[t] /\ Settled /\ \A u \in Tasks : u < t => ~Accepted(record[u])
  ELSE Level(t)

\* Where no fault has happened, a campaign that awaits publication is settled,
\* and every task is accounted for but the one whose changes are being applied
\* or whose commit is being recorded; the host commits only what git takes.
FaultInv ==
  ~harmed /\ deferred =>
    /\ edits = 0 /\ spoilt = {}
    /\ status = "awaiting_publication" \/ pc \in Committing => Settled
    /\ pc \in Auditing \cup {"next"} =>
         \A t \in Tasks : t < task => record[t].state \in Terminal \cup {"infrastructure_failed"}
    /\ pc \notin {"stage", "commit"}
    /\ \A t \in Tasks : Accounted(t) \/ (pc \in {"apply", "complete", "record"} /\ t = task)
    /\ pc \in {"apply", "complete"} => head[task] = original /\ index[task] = original
    /\ pc = "record" => Level(task)
    /\ pc \in Committing => \A t \in Tasks : t < task => ~Accepted(record[t])
    /\ pc = "staged" => Accepted(record[task])
    /\ pc \in Committing => ~Untakable

\* A campaign awaits publication only where commits are left to the host.
AwaitInv == status = "awaiting_publication" => deferred

LEMMA AwaitStep == AwaitInv /\ [Next]_vars => AwaitInv' /\ deferred' = deferred
<1> USE DEF AwaitInv, vars, fileVars, memVars, workVars, runVars
<1>1. CASE EndRun
  BY <1>1 DEF EndRun, FinishedAs
<1>2. CASE ~EndRun
  BY <1>2 DEF Next, StartRun, ResumeRun, SkipTask, DeferTask, BeginTask, ValidateInitial, Repair, ValidateRepaired,
     Optimize, Promote, Enhance, ValidateFinal, NothingToApply, ApplyPath, StageTask, CommitTask, CompleteTask,
     TaskRaises, TaskUnreadable, FinalizeAgain, VerifyPending, RefuseFinalize, PassOver, StageAccepted,
     CommitAccepted, RecordCommit, AllCommitted, Publish, PublicationFails, Kill, OutsideEdit
<1> QED  BY <1>1, <1>2

\* Where no fault is known after a step, none was known before.
LEMMA HarmStays == [Next]_vars /\ ~harmed' => ~harmed /\ edits' = edits
<1> SUFFICES ASSUME [Next]_vars, ~harmed' PROVE ~harmed /\ edits' = edits
  OBVIOUS
<1>1. CASE TaskRaises
  BY <1>1 DEF TaskRaises, workVars, runVars
<1>2. CASE PublicationFails
  BY <1>2 DEF PublicationFails, workVars, runVars
<1>3. CASE Repair
  BY <1>3 DEF Repair, workVars, runVars
<1>4. CASE ~TaskRaises /\ ~PublicationFails /\ ~Repair
  BY <1>4 DEF vars, fileVars, memVars, workVars, runVars, Next, StartRun, ResumeRun, SkipTask, DeferTask, BeginTask,
     ValidateInitial, ValidateRepaired, Optimize, Promote, Enhance, ValidateFinal, NothingToApply,
     ApplyPath, StageTask, CommitTask, CompleteTask, TaskUnreadable, EndRun, FinalizeAgain, VerifyPending,
     RefuseFinalize, PassOver, StageAccepted, CommitAccepted, RecordCommit, AllCommitted, Publish, Kill,
     OutsideEdit
<1> QED  BY <1>1, <1>2, <1>3, <1>4

\* What a step that moves no file and finishes no task accounts for.
LEMMA StillAccounted ==
  ASSUME NEW k \in Tasks, UNCHANGED <<tree, index, head>>,
         \A t \in Tasks \ {k} : record'[t] = record[t],
         ~Settled, ~Accepted(record[k]), ~Accepted(record'[k]),
         NEW t \in Tasks, Accounted(t)
  PROVE  Accounted(t)'
BY DEF Accounted, Level, Diff

\* Accepted changes that git takes are staged as they are.
LEMMA TakenWhole ==
  ASSUME TypeOK, StoredInv, ~Untakable, NEW t \in Tasks, Accepted(record[t]),
         record[t].changes = Diff(head[t], tree[t])
  PROVE  Seen(tree[t]) = tree[t]
<1>1. \A p \in Ignored \cap Paths : tree[t][p] = head[t][p]
  BY DEF Untakable, Diff
<1>2. Seen(head[t]) = head[t] /\ tree[t] \in Contents /\ head[t] \in Contents
  BY GitHolds DEF TypeOK
<1>3. \A p \in Ignored \cap Paths : head[t][p] = Base
  BY <1>2 DEF Seen
<1>4. \A p \in Paths : Seen(tree[t])[p] = tree[t][p]
  BY <1>1, <1>3 DEF Seen
<1>5. Seen(tree[t]) \in Contents
  BY <1>2, SeenFacts
<1> QED  BY <1>2, <1>4, <1>5, SameFiles

\* An attempt begins, and goes on, at a task that is not finished; the campaign
\* is not settled then.
Unfinished(k) == record[k].state \notin Terminal

\* A step of an attempt that accepts nothing, and moves no file.
LEMMA AttemptStep ==
  ASSUME FaultInv, FinishedInv, ~harmed, deferred, edits' = 0, NEW k \in Tasks, task = k,
         pc \in Auditing \cup {"next"}, pc \notin Applying, Unfinished(k),
         UNCHANGED <<tree, index, head, status>>, spoilt' = {},
         \A t \in Tasks \ {k} : record'[t] = record[t], record'[k].state # "completed",
         \/ pc' \in Preparing /\ task' = k
         \/ /\ pc' = "next" /\ task' = k + 1
            /\ record'[k].state \in Terminal \cup {"infrastructure_failed"}
         \/ /\ pc' = "apply" /\ task' = k /\ tree[k] = original' /\ UNCHANGED record
  PROVE  FaultInv'
<1>o. Tasks' = Tasks
  BY DEF Tasks
<1>1. ~Settled /\ ~Accepted(record[k]) /\ ~Accepted(record'[k])
  BY DEF Settled, Unfinished, Accepted, Terminal
<1>2. \A t \in Tasks : Accounted(t)
  BY DEF FaultInv, Auditing, Applying
<1>3. \A t \in Tasks : Accounted(t)'
  BY <1>1, <1>2, StillAccounted
<1>4. \A t \in Tasks : t < k => record'[t].state \in Terminal \cup {"infrastructure_failed"}
  BY DEF FaultInv, Tasks
<1>5. status # "awaiting_publication" /\ pc' \notin Committing
  BY <1>1 DEF FaultInv, Committing, Preparing
<1>6. pc' = "apply" => head[k] = original' /\ index[k] = original'
  BY <1>1, <1>2 DEF Accounted, Level, Preparing
<1>7. \A t \in Tasks : t < task' => record'[t].state \in Terminal \cup {"infrastructure_failed"}
  BY <1>4 DEF Tasks, Preparing
<1> QED  BY <1>o, <1>3, <1>5, <1>6, <1>7 DEF FaultInv, Committing, Preparing

\* A step that moves no file and keeps every record.
LEMMA SameRecords ==
  ASSUME UNCHANGED <<tree, index, head, record>>
  PROVE  /\ Settled' = Settled
         /\ \A t \in Tasks : Accounted(t)' <=> Accounted(t)
         /\ \A t \in Tasks : Accepted(record'[t]) <=> Accepted(record[t])
         /\ Untakable' = Untakable
BY DEF Settled, Accounted, Level, Diff, Accepted, Untakable, Tasks

\* Starting, ending and the host's looking on.
LEMMA LookStep ==
  ASSUME TypeOK, TaskInv, FaultInv, AwaitInv, CleanInv, ~harmed, deferred, edits' = 0,
         UNCHANGED <<tree, index, head, record>>,
         \/ StartRun \/ ResumeRun \/ SkipTask \/ EndRun \/ FinalizeAgain \/ VerifyPending
         \/ RefuseFinalize \/ PassOver \/ AllCommitted \/ Publish \/ UNCHANGED vars
         \/ PublicationFails /\ pc # "record"
  PROVE  FaultInv'
<1>o. Tasks' = Tasks
  BY DEF Tasks
<1>n. task \in Int /\ Tasks \subseteq Int /\ \A t \in Tasks : t >= 1
  BY DEF TypeOK, Tasks
<1>s. /\ Settled' = Settled
      /\ \A t \in Tasks : Accounted(t)' <=> Accounted(t)
      /\ \A t \in Tasks : Accepted(record'[t]) <=> Accepted(record[t])
      /\ Untakable' = Untakable
  BY SameRecords
<1>p. spoilt' = spoilt
  BY DEF vars, workVars, StartRun, ResumeRun, SkipTask, EndRun, FinalizeAgain, VerifyPending, RefuseFinalize,
     PassOver, AllCommitted, Publish, PublicationFails
<1> USE DEF fileVars, memVars, workVars, runVars
<1>1. CASE UNCHANGED vars
  BY <1>1, <1>o, <1>p, <1>s DEF FaultInv, vars, Level
<1>2. CASE StartRun \/ ResumeRun \/ FinalizeAgain
  <2>1. /\ pc = "off" /\ pc' \in {"off", "next", "finalize"} /\ task' = 1
        /\ status' = "awaiting_publication" => status = "awaiting_publication"
    BY <1>2 DEF StartRun, ResumeRun, FinalizeAgain, CleanInv
  <2> QED  BY <1>n, <1>o, <1>p, <1>s, <2>1 DEF FaultInv, Committing, Auditing, Applying
<1>3. CASE SkipTask
  <2>1. /\ pc = "next" /\ pc' = "next" /\ task' = task + 1 /\ record[task].state \in Terminal
        /\ task \in Tasks /\ UNCHANGED status
    BY <1>3 DEF SkipTask, NextTask
  <2>2. \A t \in Tasks : t < task + 1 => t < task \/ t = task
    BY <1>n
  <2> QED  BY <1>o, <1>p, <1>s, <2>1, <2>2 DEF FaultInv, Committing, Auditing, Applying
<1>4. CASE EndRun
  <2>1. /\ pc = "next" /\ task \notin Tasks /\ pc' \in {"off", "finalize"}
        /\ status' = "awaiting_publication" => ~InfrastructureFailed
    BY <1>4 DEF EndRun, FinishedAs
  <2>2. \A t \in Tasks : t < task
    BY <1>n, <2>1 DEF TypeOK, Tasks
  <2>3. status' = "awaiting_publication" => Settled
    BY <2>1, <2>2 DEF FaultInv, InfrastructureFailed, Settled
  <2> QED  BY <1>o, <1>p, <1>s, <2>1, <2>3 DEF FaultInv, Committing, Auditing, Applying
<1>5. CASE VerifyPending
  <2>1. pc = "finalize" /\ pc' = "commits" /\ task' = 1 /\ status = "awaiting_publication" /\ UNCHANGED status
    BY <1>5 DEF VerifyPending, Ready, CleanInv
  <2>2. ASSUME NEW t \in Tasks, Accepted(record[t]), NEW p \in record[t].changes \cap Ignored PROVE FALSE
    <3>1. p \in Paths
      BY <2>2 DEF TypeOK, Records
    <3>2. <<t, p>> \in Expected
      BY <2>2, <3>1 DEF Expected
    <3> QED  BY <1>5, <2>2, <3>2 DEF VerifyPending, Ready, Pending
  <2>3. ~Untakable
    BY <2>2 DEF Untakable
  <2> QED  BY <1>n, <1>o, <1>p, <1>s, <2>1, <2>3 DEF FaultInv, Committing, Auditing, Applying
<1>6. CASE PassOver
  <2>1. /\ pc = "commits" /\ pc' = "commits" /\ task' = task + 1 /\ ~Accepted(record[task])
        /\ task \in Tasks /\ UNCHANGED status
    BY <1>6 DEF PassOver
  <2>2. \A t \in Tasks : t < task + 1 => t < task \/ t = task
    BY <1>n
  <2> QED  BY <1>o, <1>p, <1>s, <2>1, <2>2 DEF FaultInv, Committing, Auditing, Applying
<1>7. CASE RefuseFinalize \/ AllCommitted \/ Publish \/ (PublicationFails /\ pc # "record")
  <2>1. /\ pc \in {"finalize", "commits", "staged", "publish"} /\ pc' \in {"off", "publish"}
        /\ status' = "awaiting_publication" => status = "awaiting_publication"
    BY <1>7 DEF RefuseFinalize, AllCommitted, Publish, PublicationFails, Stop
  <2> QED  BY <1>o, <1>p, <1>s, <2>1 DEF FaultInv, Committing, Auditing, Applying
<1> QED  BY <1>1, <1>2, <1>3, <1>4, <1>5, <1>6, <1>7

\* While changes are applied, index and last commit keep the original.
LEMMA ApplyStep ==
  ASSUME TypeOK, TaskInv, WorkInv, FinishedInv, FaultInv, ~harmed, deferred, edits' = 0, deferred' = deferred,
         ApplyPath \/ NothingToApply
  PROVE  FaultInv'
<1>o. Tasks' = Tasks
  BY DEF Tasks
<1> USE DEF fileVars, memVars, workVars, runVars
<1>1. /\ task \in Tasks /\ pc \in Auditing /\ pc \notin {"stage", "commit"}
      /\ pc' \in {"apply", "complete"}
      /\ UNCHANGED <<index, head, record, status, task, original, spoilt>>
  BY DEF ApplyPath, NothingToApply, TaskInv, FaultInv, Auditing, Applying
<1>2. ~Settled /\ status # "awaiting_publication"
  BY <1>1 DEF FaultInv, FinishedInv, Settled
<1>3. \A t \in Tasks \ {task} : tree'[t] = tree[t]
  <2>1. CASE ApplyPath
    <3>1. PICK p : tree' = [tree EXCEPT ![task][p] = candidate[p]]
      BY <2>1 DEF ApplyPath
    <3> QED  BY <1>1, <3>1 DEF TypeOK
  <2>2. CASE NothingToApply
    BY <2>2 DEF NothingToApply
  <2> QED  BY <2>1, <2>2
<1>4. \A t \in Tasks \ {task} : Accounted(t)
  BY DEF FaultInv
<1>5. \A t \in Tasks \ {task} : Accounted(t)'
  BY <1>1, <1>2, <1>3, <1>4 DEF Accounted, Level, Diff
<1>6. head[task] = original /\ index[task] = original
  <2>1. CASE pc = "apply"
    BY <2>1 DEF FaultInv
  <2>2. CASE pc # "apply"
    <3>1. pc = "final"
      BY <2>2 DEF ApplyPath, NothingToApply
    <3>2. Accounted(task) /\ ~Accepted(record[task]) /\ tree[task] = original
      BY <1>1, <3>1 DEF FaultInv, FinishedInv, WorkInv, Preparing, Accepted, Terminal
    <3> QED  BY <3>2 DEF Accounted, Level
  <2> QED  BY <2>1, <2>2
<1>7. \A t \in Tasks : t < task => record[t].state \in Terminal \cup {"infrastructure_failed"}
  BY <1>1 DEF FaultInv
<1> QED  BY <1>o, <1>1, <1>2, <1>5, <1>6, <1>7 DEF FaultInv, Committing

\* What is recorded of the task is what was applied.
LEMMA CompleteStep ==
  ASSUME TypeOK, TaskInv, WorkInv, FinishedInv, FaultInv, ~harmed, deferred, edits' = 0, CompleteTask
  PROVE  FaultInv'
<1>o. Tasks' = Tasks
  BY DEF Tasks
<1>n. task \in Int /\ Tasks \subseteq Int
  BY DEF TypeOK, Tasks
<1>1. /\ task \in Tasks /\ pc = "complete" /\ pc' = "next" /\ task' = task + 1
      /\ UNCHANGED <<tree, index, head, status, spoilt>>
  BY DEF CompleteTask, workVars, NextTask, TaskInv, Auditing, Applying
<1>2. ~Settled /\ status # "awaiting_publication"
  BY <1>1 DEF FaultInv, FinishedInv, Settled, Auditing, Applying
<1> DEFINE r == [state |-> "completed", fingerprint |-> tree[task], changes |-> Diff(original, candidate),
                 pending |-> deferred /\ Diff(original, candidate) # {}, evidence |-> task \notin spoilt]
<1>3. record'[task] = r /\ \A t \in Tasks \ {task} : record'[t] = record[t]
  BY <1>1, Zenon DEF CompleteTask, TypeOK
<1>4. \A t \in Tasks \ {task} : Accounted(t)
  BY <1>1 DEF FaultInv
<1>5. \A t \in Tasks \ {task} : Accounted(t)'
  BY <1>1, <1>2, <1>3, <1>4 DEF Accounted, Level, Diff
<1>6. head[task] = original /\ index[task] = original /\ tree[task] = candidate
  BY <1>1 DEF FaultInv, WorkInv
<1>7. r.state = "completed" /\ r.changes = Diff(original, candidate)
  OBVIOUS
<1>p. ASSUME Diff(original, candidate) # {} PROVE r.pending
  BY <1>p, Zenon
<1>8. Diff(original, candidate) = {} => original = candidate
  BY SameFiles DEF Diff, TypeOK
<1> HIDE DEF r
<1>9. ASSUME NEW t \in Tasks, t = task PROVE Accounted(t)'
  <2>1. record'[t] = r /\ UNCHANGED <<tree[t], index[t], head[t]>>
    BY <1>1, <1>3, <1>9
  <2>2. CASE Diff(original, candidate) # {}
    <3>1. Accepted(record'[t])
      BY <1>7, <1>p, <2>1, <2>2 DEF Accepted
    <3> QED  BY <1>6, <1>7, <1>9, <2>1, <3>1 DEF Accounted, Diff
  <2>3. CASE Diff(original, candidate) = {}
    BY <1>6, <1>7, <1>8, <1>9, <2>1, <2>3 DEF Accounted, Level, Diff
  <2> QED  BY <2>2, <2>3
<1>10. \A t \in Tasks : t < task + 1 => record'[t].state \in Terminal \cup {"infrastructure_failed"}
  <2>1. \A t \in Tasks : t < task + 1 => t < task \/ t = task
    BY <1>n
  <2>2. record'[task].state \in Terminal
    BY <1>3, <1>7 DEF Terminal
  <2> QED  BY <1>1, <1>3, <2>1, <2>2 DEF FaultInv, Auditing, Applying
<1> QED  BY <1>o, <1>1, <1>2, <1>5, <1>9, <1>10 DEF FaultInv, Committing, Auditing, Applying

\* The host commits the accepted tasks in order, one at a time.
LEMMA HostStep ==
  ASSUME TypeOK, TaskInv, StoredInv, CleanInv, FaultInv, ~harmed, deferred, edits' = 0, deferred' = deferred,
         StageAccepted \/ CommitAccepted \/ RecordCommit
  PROVE  FaultInv'
<1>o. Tasks' = Tasks
  BY DEF Tasks
<1>n. task \in Int /\ Tasks \subseteq Int
  BY DEF TypeOK, Tasks
<1>c. Settled /\ \A t \in Tasks : t < task => ~Accepted(record[t])
  BY DEF StageAccepted, CommitAccepted, RecordCommit, FaultInv, Committing
<1>w. ~Untakable /\ spoilt = {} /\ spoilt' = {}
  BY DEF StageAccepted, CommitAccepted, RecordCommit, FaultInv, Committing, workVars
<1> USE DEF fileVars, memVars, workVars, runVars
<1>1. CASE StageAccepted
  <2>a. /\ pc = "commits" /\ task \in Tasks /\ Accepted(record[task]) /\ UNCHANGED <<tree, head, record, status>>
        /\ index' = [index EXCEPT ![task] = Seen(tree[task])]
        /\ (pc' = "staged" /\ task' = task) \/ pc' = "off"
    BY <1>1 DEF StageAccepted, Stop
  <2>b. record[task].changes = Diff(head[task], tree[task])
    BY <2>a DEF FaultInv, Accounted
  <2>c. Seen(tree[task]) = tree[task]
    BY <1>w, <2>a, <2>b, TakenWhole
  <2>1. /\ pc = "commits" /\ task \in Tasks /\ Accepted(record[task]) /\ UNCHANGED <<tree, head, record, status>>
        /\ index' = [index EXCEPT ![task] = tree[task]]
        /\ (pc' = "staged" /\ task' = task) \/ pc' = "off"
    BY <2>a, <2>c
  <2>2. index'[task] = tree[task] /\ \A t \in Tasks \ {task} : index'[t] = index[t]
    BY <2>1 DEF TypeOK
  <2>3. \A t \in Tasks : Accounted(t)
    BY <2>1 DEF FaultInv
  <2>4. Settled'
    BY <1>c, <1>o, <2>1 DEF Settled
  <2>5. \A t \in Tasks : Accounted(t)'
    BY <1>c, <1>o, <2>1, <2>2, <2>3, <2>4 DEF Accounted, Level, Diff
  <2>u. Untakable' = Untakable
    BY <1>o, <2>1 DEF Untakable, Accepted
  <2> QED  BY <1>o, <1>c, <1>w, <2>1, <2>4, <2>5, <2>u DEF FaultInv, Committing, Auditing, Applying
<1>2. CASE CommitAccepted
  <2>1. /\ pc = "staged" /\ pc' = "record" /\ head' = index /\ UNCHANGED <<tree, index, record, status, task>>
        /\ task \in Tasks /\ Accepted(record[task]) /\ index[task] = tree[task]
    <3>1. /\ pc = "staged" /\ task \in Tasks /\ Accepted(record[task])
          /\ index[task] = Seen(tree[task])
      BY <1>2 DEF CommitAccepted, TaskInv, FaultInv, CleanInv
    <3>2. record[task].changes = Diff(head[task], tree[task])
      BY <3>1 DEF FaultInv, Accounted
    <3> QED  BY <1>2, <1>w, <3>1, <3>2, TakenWhole DEF CommitAccepted
  <2>2. ASSUME NEW t \in Tasks \ {task}
        PROVE  index[t] = head[t]
    <3>1. Accounted(t)
      BY <2>1 DEF FaultInv
    <3>2. t < task \/ t > task
      BY <1>n
    <3> QED  BY <1>c, <2>1, <3>1, <3>2 DEF Accounted, Level
  <2>3. \A t \in Tasks \ {task} : Accounted(t)
    BY <2>1 DEF FaultInv
  <2>4. Settled'
    BY <1>c, <1>o, <2>1 DEF Settled
  <2>5. \A t \in Tasks \ {task} : Accounted(t)'
    BY <2>1, <2>2, <2>3 DEF Accounted, Level, Diff
  <2>u. Untakable' = Untakable
    BY <1>o, <2>1 DEF Untakable, Accepted
  <2> QED  BY <1>o, <1>c, <1>w, <2>1, <2>4, <2>5, <2>u DEF FaultInv, Committing, Auditing, Applying, Level
<1>3. CASE RecordCommit
  <2> DEFINE r == [record[task] EXCEPT !.pending = FALSE]
  <2>1. /\ pc = "record" /\ pc' = "commits" /\ task \in Tasks /\ task' = task + 1
        /\ record' = [record EXCEPT ![task] = r] /\ UNCHANGED <<tree, index, head, status>>
    BY <1>3 DEF RecordCommit, TaskInv
  <2>2. record[task] \in Records
    BY <2>1 DEF TypeOK
  <2>3. r.state = record[task].state /\ ~r.pending
    BY <2>2, Zenon DEF Records
  <2> HIDE DEF r
  <2>4. record'[task] = r /\ \A t \in Tasks \ {task} : record'[t] = record[t]
    BY <2>1 DEF TypeOK
  <2>5. Settled'
    BY <1>c, <1>o, <2>3, <2>4 DEF Settled
  <2>6. \A t \in Tasks : Accepted(record'[t]) => Accepted(record[t]) /\ t # task
    BY <2>3, <2>4 DEF Accepted
  <2>7. \A t \in Tasks \ {task} : Accounted(t)
    BY <2>1 DEF FaultInv
  <2>8. \A t \in Tasks \ {task} : Accounted(t)'
    BY <1>o, <2>1, <2>4, <2>5, <2>6, <2>7 DEF Accounted, Level, Diff
  <2>9. ASSUME NEW t \in Tasks, t = task PROVE Accounted(t)'
    <3>1. Level(t)
      BY <2>1, <2>9 DEF FaultInv
    <3>2. ~Accepted(record'[t])
      BY <2>6, <2>9
    <3> QED  BY <2>1, <3>1, <3>2 DEF Accounted, Level
  <2>10. \A t \in Tasks : t < task + 1 => ~Accepted(record'[t])
    <3>1. \A t \in Tasks : t < task + 1 => t < task \/ t = task
      BY <1>n
    <3> QED  BY <1>c, <2>6, <3>1
  <2>11. ~Untakable'
    <3>1. \A t \in Tasks \ {task} : record'[t] = record[t]
      BY <2>4
    <3> QED  BY <1>o, <1>w, <2>6, <3>1 DEF Untakable
  <2> QED  BY <1>o, <2>1, <2>5, <2>8, <2>9, <2>10, <2>11, <1>w DEF FaultInv, Committing, Auditing, Applying
<1> QED  BY <1>1, <1>2, <1>3

\* What begins, defers, repairs, reports or gives up a task meets AttemptStep.
LEMMA AuditStep ==
  ASSUME TypeOK, TaskInv, WorkInv, FinishedInv, FaultInv, ~harmed, ~harmed', deferred, edits' = 0,
         \/ DeferTask \/ BeginTask \/ TaskUnreadable \/ ValidateInitial \/ Repair \/ ValidateRepaired
         \/ Optimize \/ Promote \/ Enhance \/ ValidateFinal \/ TaskRaises
  PROVE  FaultInv'
<1> DEFINE Going == pc' \in Preparing /\ task' = task
           Leaving == /\ pc' = "next" /\ task' = task + 1
                      /\ record'[task].state \in Terminal \cup {"infrastructure_failed"}
           Applicable == pc' = "apply" /\ task' = task /\ tree[task] = original' /\ UNCHANGED record
           Others == \A t \in Tasks \ {task} : record'[t] = record[t]
<1> USE DEF fileVars, memVars, workVars, runVars
<1>c. record \in [Tasks -> Records]
  BY DEF TypeOK
<1>e. edits = 0 /\ spoilt = {}
  BY DEF FaultInv
<1>w. spoilt' = {}
  <2>1. CASE Repair
    BY <1>e, <2>1 DEF Repair
  <2>2. CASE ~Repair
    BY <1>e, <2>2 DEF DeferTask, BeginTask, TaskUnreadable, ValidateInitial, ValidateRepaired, Optimize, Promote,
       Enhance, ValidateFinal, TaskRaises, workVars
  <2> QED  BY <2>1, <2>2
<1>s. {"validating", "repairing", "optimizing", "infrastructure_failed"} \subseteq States \ {"completed"}
  BY DEF States, Terminal
<1>1. /\ task \in Tasks /\ pc \in Preparing \cup {"next"} /\ Unfinished(task)
      /\ UNCHANGED <<tree, index, head, status>>
  <2>1. CASE DeferTask \/ BeginTask \/ TaskUnreadable
    <3>1. task \in Tasks /\ pc = "next" /\ ~(record[task].state \in Terminal /\ Current(task))
          /\ UNCHANGED <<tree, index, head, status>>
      BY <2>1 DEF DeferTask, BeginTask, TaskUnreadable, TypeOK
    <3> QED  BY <1>e, <3>1 DEF FinishedInv, Finished, Current, Unfinished
  <2>2. CASE ~(DeferTask \/ BeginTask \/ TaskUnreadable)
    <3>1. pc \in Preparing /\ UNCHANGED <<tree, index, head, status>>
      <4>1. CASE TaskRaises
        BY <4>1 DEF TaskRaises, Auditing, Preparing
      <4> QED  BY <2>2, <4>1 DEF ValidateInitial, Repair, ValidateRepaired, Optimize, Promote, Enhance, ValidateFinal,
                 Preparing
    <3> QED  BY <1>e, <3>1 DEF FinishedInv, TaskInv, Unfinished, Auditing, Preparing
  <2> QED  BY <2>1, <2>2
<1>t. ASSUME NEW s \in States \ {"completed"}, Transition(s)
      PROVE  record'[task].state = s /\ Others
  BY <1>1, <1>t, TransitionKeeps
<1>u. ASSUME UNCHANGED record PROVE Others /\ record'[task].state # "completed"
  BY <1>1, <1>u DEF Unfinished, Terminal
<1>r. ASSUME NEW r, record' = [record EXCEPT ![task] = r]
      PROVE  record'[task] = r /\ Others
  BY <1>c, <1>1, <1>r
<1>p. ASSUME Report PROVE record'[task].state # "completed" /\ Others /\ Leaving
  BY <1>p, <1>1, ReportRecord DEF Terminal
<1>2. record'[task].state # "completed" /\ Others /\ (Going \/ Leaving \/ Applicable)
  <2>1. CASE DeferTask
    <3> DEFINE r == [record[task] EXCEPT !.state = "platform_deferred", !.fingerprint = tree[task]]
    <3>1. record' = [record EXCEPT ![task] = r] /\ pc' = "next" /\ task' = task + 1
      BY <2>1 DEF DeferTask, NextTask
    <3>2. r.state = "platform_deferred"
      BY <1>c, <1>1, Zenon DEF Records
    <3> HIDE DEF r
    <3> QED  BY <1>r, <3>1, <3>2 DEF Terminal
  <2>2. CASE BeginTask
    <3> DEFINE r == [record[task] EXCEPT !.state = "validating", !.fingerprint = tree[task]]
    <3>1. record' = [record EXCEPT ![task] = r] /\ pc' = "initial" /\ task' = task
      BY <2>2 DEF BeginTask
    <3>2. r.state = "validating"
      BY <1>c, <1>1, Zenon DEF Records
    <3> HIDE DEF r
    <3> QED  BY <1>r, <3>1, <3>2 DEF Preparing
  <2>3. CASE TaskUnreadable \/ TaskRaises
    <3>1. Transition("infrastructure_failed") /\ pc' = "next" /\ task' = task + 1
      BY <2>3 DEF TaskUnreadable, TaskRaises, NextTask
    <3> QED  BY <1>s, <1>t, <3>1
  <2>4. CASE ValidateInitial
    <3>1. (Transition("repairing") \/ Transition("optimizing")) /\ pc' \in Preparing /\ task' = task
      BY <2>4 DEF ValidateInitial, Preparing
    <3> QED  BY <1>s, <1>t, <3>1
  <2>5. CASE Repair \/ ValidateRepaired \/ ValidateFinal
    <3>1. CASE Report
      BY <1>p, <3>1
    <3>2. CASE Repair /\ ~Report
      BY <1>u, <3>2 DEF Repair, Preparing
    <3>3. CASE ValidateRepaired /\ ~Report
      <4>1. Transition("optimizing") /\ pc' \in Preparing /\ task' = task
        BY <3>3 DEF ValidateRepaired, Preparing
      <4> QED  BY <1>s, <1>t, <4>1
    <3>4. CASE ValidateFinal /\ ~Report
      <4>1. pc = "final" /\ pc' = "apply" /\ UNCHANGED <<record, task, original>>
        BY <3>4 DEF ValidateFinal
      <4> QED  BY <1>u, <4>1 DEF WorkInv, Preparing
    <3> QED  BY <2>5, <3>1, <3>2, <3>3, <3>4
  <2>6. CASE Optimize \/ Promote \/ Enhance
    <3>1. UNCHANGED <<record, task>> /\ pc' \in Preparing
      BY <2>6 DEF Optimize, Promote, Enhance, Finishing, Preparing
    <3> QED  BY <1>u, <3>1
  <2> QED  BY <2>1, <2>2, <2>3, <2>4, <2>5, <2>6
<1>3. pc \in Auditing \cup {"next"} /\ pc \notin Applying
  BY <1>1 DEF Auditing, Applying, Preparing
<1> QED  BY <1>1, <1>2, <1>3, <1>w, AttemptStep

\* No step short of a fault loses track of a task.
LEMMA FaultStep ==
  TypeOK /\ TaskInv /\ StoredInv /\ WorkInv /\ FinishedInv /\ CleanInv /\ AwaitInv /\ FaultInv /\ [Next]_vars => FaultInv'
<1> SUFFICES ASSUME TypeOK, TaskInv, StoredInv, WorkInv, FinishedInv, CleanInv, AwaitInv, FaultInv, [Next]_vars,
                    ~harmed', deferred'
             PROVE  FaultInv'
  BY DEF FaultInv
<1>1. ~harmed /\ deferred /\ deferred' = deferred /\ edits' = 0
  BY HarmStays, AwaitStep DEF FaultInv
<1>2. CASE \/ DeferTask \/ BeginTask \/ TaskUnreadable \/ ValidateInitial \/ Repair \/ ValidateRepaired
           \/ Optimize \/ Promote \/ Enhance \/ ValidateFinal \/ TaskRaises
  BY <1>1, <1>2, AuditStep
<1>3. CASE ApplyPath \/ NothingToApply
  BY <1>1, <1>3, ApplyStep
<1>4. CASE CompleteTask
  BY <1>1, <1>4, CompleteStep
<1>5. CASE StageAccepted \/ CommitAccepted \/ RecordCommit
  BY <1>1, <1>5, HostStep
<1>6. CASE \/ StartRun \/ ResumeRun \/ SkipTask \/ EndRun \/ FinalizeAgain \/ VerifyPending
           \/ RefuseFinalize \/ PassOver \/ AllCommitted \/ Publish \/ UNCHANGED vars
  <2>1. UNCHANGED <<tree, index, head, record>>
    BY <1>6 DEF vars, fileVars, StartRun, ResumeRun, SkipTask, EndRun, FinalizeAgain, VerifyPending,
       RefuseFinalize, PassOver, AllCommitted, Publish
  <2> QED  BY <1>1, <1>6, <2>1, LookStep
<1>7. CASE PublicationFails
  <2>1. UNCHANGED <<tree, index, head, record>> /\ pc # "record"
    BY <1>7 DEF PublicationFails, fileVars
  <2> QED  BY <1>1, <1>7, <2>1, LookStep
<1>8. ~(StageTask \/ CommitTask \/ Kill \/ OutsideEdit)
  BY <1>1 DEF FaultInv, StageTask, CommitTask, Kill, OutsideEdit
<1> QED  BY <1>2, <1>3, <1>4, <1>5, <1>6, <1>7, <1>8 DEF Next

\* What is accounted for is what the host expects, if git takes it all.
LEMMA AccountedIsExpected ==
  ASSUME TypeOK, \A t \in Tasks : Accounted(t), ~Untakable
  PROVE  Pending = Expected
<1>1. ASSUME NEW t \in Tasks, NEW p \in Paths \ Ignored
      PROVE  <<t, p>> \in Pending <=> <<t, p>> \in Expected
  <2>1. <<t, p>> \in Pending <=> head[t][p] # tree[t][p] \/ head[t][p] # index[t][p]
    BY DEF Pending
  <2>2. <<t, p>> \in Expected <=> Accepted(record[t]) /\ p \in record[t].changes
    BY DEF Expected
  <2>3. CASE Accepted(record[t])
    BY <2>1, <2>2, <2>3 DEF Accounted, Diff
  <2>4. CASE ~Accepted(record[t])
    BY <2>1, <2>2, <2>4 DEF Accounted, Level
  <2> QED  BY <2>3, <2>4
<1>2. Pending \subseteq Tasks \X (Paths \ Ignored) /\ Expected \subseteq Tasks \X (Paths \ Ignored)
  BY DEF Pending, Expected, Untakable
<1> QED  BY <1>1, <1>2

\* Tools may fail and be resumed and pushes be retried any number of times:
\* the host refuses a campaign that awaits publication only after a kill, an
\* outside touch, a failure while changes were applied or a repair agent that
\* changed evidence, or if a task was accepted with a file that git ignores.
THEOREM OnlyFaultsBlockHolds == Spec => []OnlyFaultsBlock
<1>1. Init => CleanInv /\ FinishedInv /\ AwaitInv /\ FaultInv
  BY DEF Init, CleanInv, FinishedInv, Finished, AwaitInv, FaultInv, Accounted, Level, Accepted, NewRecord,
     Terminal, Committing, Auditing, Applying, Preparing
<1>2. TypeOK /\ AwaitInv /\ FinishedInv /\ FaultInv => OnlyFaultsBlock
  <2> SUFFICES ASSUME TypeOK, AwaitInv, FinishedInv, FaultInv, ~harmed, ~Untakable, pc = "off", status = "awaiting_publication"
               PROVE  Ready
    BY DEF OnlyFaultsBlock
  <2>1. edits = 0 /\ spoilt = {} /\ \A t \in Tasks : Accounted(t)
    BY DEF AwaitInv, FaultInv
  <2>2. \A t \in Tasks : record[t].state = "completed" => Current(t)
    BY <2>1 DEF FinishedInv, Finished, Current, Terminal
  <2> QED  BY <2>1, <2>2, AccountedIsExpected DEF Ready
<1>3. AwaitInv /\ [Next]_vars => AwaitInv'
  BY AwaitStep
<1> QED  BY <1>1, <1>2, <1>3, TypeInit, TypeStep, StoredInit, StoredStep, WorkStep, FinishedStep, CleanStep, FaultStep, PTL DEF Spec

-----------------------------------------------------------------------------
(* AuditBranch                                                             *)

\* The task at work is not finished, and only a campaign that publishes
\* itself stages while it audits.
AuditedInv ==
  /\ pc \in Auditing => record[task].state # "completed"
  /\ pc \in {"stage", "commit"} => ~deferred

\* What is staged is committed or was validated.
StagedInv == \A t \in Tasks : index[t] = head[t] \/ \E c \in validated[t] : index[t] = Seen(c)

\* The host commits one accepted task after the other, each with the contents
\* of its entry, and publishes when none is left.
HostInv ==
  /\ pc \in {"staged", "record"} => Accepted(record[task])
  /\ pc \in Committing =>
       \A t \in Tasks : /\ record[t].state = "completed" => record[t].fingerprint = tree[t]
                        /\ t < task => ~Accepted(record[t])
  /\ pc = "publish" /\ deferred =>
       \A t \in Tasks : /\ record[t].state = "completed" => record[t].fingerprint = tree[t]
                        /\ ~Accepted(record[t])

\* Only the end of an audit finishes a task.
LEMMA AuditedStep == TypeOK /\ TaskInv /\ AuditedInv /\ [Next]_vars => AuditedInv'
<1> SUFFICES ASSUME TypeOK, TaskInv, AuditedInv, [Next]_vars PROVE AuditedInv'
  OBVIOUS
<1>s. {"validating", "repairing", "optimizing", "infrastructure_failed"} \subseteq States \ {"completed"}
  BY DEF States, Terminal
<1>c. \A t \in Tasks : tree[t] \in Contents /\ record[t] \in Records
  BY DEF TypeOK
<1>d. deferred' = deferred
  BY DEF Next, vars, workVars, runVars, StartRun, ResumeRun, SkipTask, DeferTask, BeginTask, ValidateInitial, Repair,
     ValidateRepaired, Optimize, Promote, Enhance, ValidateFinal, NothingToApply, ApplyPath, StageTask,
     CommitTask, CompleteTask, TaskRaises, TaskUnreadable, EndRun, FinalizeAgain, VerifyPending,
     RefuseFinalize, PassOver, StageAccepted, CommitAccepted, RecordCommit, AllCommitted, Publish,
     PublicationFails, Kill, OutsideEdit
<1> USE DEF AuditedInv, Auditing, Applying
<1>t. ASSUME NEW s \in States \ {"completed"}, task \in Tasks, Transition(s), task' = task,
             pc' \notin {"stage", "commit"}
      PROVE  AuditedInv'
  <2>1. record'[task].state = s
    BY <1>t, TransitionKeeps
  <2> QED  BY <1>t, <2>1
<1>1. CASE BeginTask
  <2>1. task \in Tasks /\ task' = task /\ pc' = "initial"
    BY <1>1 DEF BeginTask
  <2>2. record'[task] = [record[task] EXCEPT !.state = "validating", !.fingerprint = tree[task]]
    BY <1>1, <2>1 DEF BeginTask, TypeOK
  <2>3. record'[task].state = "validating"
    BY <1>c, <2>1, <2>2, Zenon DEF Records
  <2> QED  BY <2>1, <2>3
<1>2. CASE ValidateInitial
  <2>1. task \in Tasks /\ task' = task /\ pc' \in {"repair", "optimize"}
    BY <1>2 DEF ValidateInitial, TaskInv
  <2>2. Transition("repairing") \/ Transition("optimizing")
    BY <1>2 DEF ValidateInitial
  <2> QED  BY <1>s, <1>t, <2>1, <2>2
<1>3. CASE Repair \/ ValidateRepaired \/ ValidateFinal
  <2>1. task \in Tasks
    BY <1>3 DEF Repair, ValidateRepaired, ValidateFinal, TaskInv
  <2>2. CASE Report
    BY <2>2 DEF Report, NextTask
  <2>3. CASE ~Report
    <3>1. \/ UNCHANGED <<record, task>> /\ pc \in Auditing /\ pc' \in {"repaired", "apply"}
          \/ Transition("optimizing") /\ task' = task /\ pc' = "optimize"
      BY <1>3, <2>3 DEF Repair, ValidateRepaired, ValidateFinal
    <3> QED  BY <1>s, <1>t, <2>1, <3>1
  <2> QED  BY <2>2, <2>3
<1>4. CASE Optimize \/ Promote \/ Enhance \/ NothingToApply \/ ApplyPath \/ StageTask \/ CommitTask
  <2>1. /\ UNCHANGED <<record, task>> /\ pc \in Auditing
        /\ pc' \in {"stage", "commit"} => pc \in {"stage", "commit"} \/ ~deferred
    BY <1>4 DEF Optimize, Promote, Enhance, NothingToApply, ApplyPath, StageTask, CommitTask, Finishing,
                fileVars
  <2> QED  BY <1>d, <2>1
<1>5. CASE UNCHANGED vars
  BY <1>5 DEF vars, fileVars, workVars, runVars
<1>6. ASSUME Next, ~BeginTask, ~ValidateInitial, ~Repair, ~ValidateRepaired, ~ValidateFinal, ~Optimize,
             ~Promote, ~Enhance, ~NothingToApply, ~ApplyPath, ~StageTask, ~CommitTask
      PROVE  pc' \in {"off", "next", "publish", "finalize", "commits", "staged", "record"}
  BY <1>6 DEF Next, StartRun, ResumeRun, SkipTask, DeferTask, CompleteTask, TaskRaises, TaskUnreadable,
     EndRun, FinalizeAgain, VerifyPending, RefuseFinalize, PassOver, StageAccepted, CommitAccepted,
     RecordCommit, AllCommitted, Publish, PublicationFails, Kill, OutsideEdit, Stop, NextTask
<1> QED  BY <1>1, <1>2, <1>3, <1>4, <1>5, <1>6

\* Nothing is staged that was not validated, and a commit leaves no difference.
LEMMA StagedStep == TypeOK /\ TaskInv /\ StoredInv /\ WorkInv /\ StagedInv /\ [Next]_vars => StagedInv'
<1> SUFFICES ASSUME TypeOK, TaskInv, StoredInv, WorkInv, StagedInv, [Next]_vars PROVE StagedInv'
  OBVIOUS
<1>g. \A t \in Tasks : validated[t] \subseteq validated'[t]
  BY ValidatedGrows
<1>o. StagedInv' <=> \A t \in Tasks : index'[t] = head'[t] \/ \E c \in validated'[t] : index'[t] = Seen(c)
  BY DEF StagedInv, Seen, Tasks
<1>1. CASE StageTask \/ StageAccepted
  <2>1. /\ task \in Tasks /\ UNCHANGED <<head, validated>>
        /\ index' = [index EXCEPT ![task] = Seen(tree[task])]
    BY <1>1 DEF StageTask, StageAccepted, workVars, TaskInv, Auditing, Applying
  <2>2. tree[task] \in validated[task]
    <3>1. CASE StageTask
      BY <3>1 DEF StageTask, WorkInv
    <3>2. CASE StageAccepted
      BY <2>1, <3>2 DEF StageAccepted, WorkInv, Committing, StoredInv
    <3> QED  BY <1>1, <3>1, <3>2
  <2>3. index'[task] = Seen(tree[task]) /\ \A t \in Tasks \ {task} : index'[t] = index[t]
    BY <2>1 DEF TypeOK
  <2> QED  BY <1>o, <2>1, <2>2, <2>3 DEF StagedInv
<1>2. CASE CommitTask \/ CommitAccepted
  BY <1>o, <1>2 DEF CommitTask, CommitAccepted
<1>3. CASE ~(StageTask \/ StageAccepted \/ CommitTask \/ CommitAccepted)
  <2>1. UNCHANGED <<head, index>>
    BY <1>3 DEF Next, vars, fileVars, StartRun, ResumeRun, SkipTask, DeferTask, BeginTask, ValidateInitial,
       Repair, ValidateRepaired, Optimize, Promote, Enhance, ValidateFinal, NothingToApply, ApplyPath,
       CompleteTask, TaskRaises, TaskUnreadable, EndRun, FinalizeAgain, VerifyPending, RefuseFinalize,
       PassOver, RecordCommit, AllCommitted, Publish, PublicationFails, Kill, OutsideEdit
  <2> QED  BY <1>g, <1>o, <2>1 DEF StagedInv
<1> QED  BY <1>1, <1>2, <1>3

\* The host never loses sight of what it accepted, also when it is the next
\* execution that commits.
LEMMA HostKept ==
  TypeOK /\ TaskInv /\ WorkInv /\ CleanInv /\ HostInv /\ [Next]_vars => HostInv'
<1> SUFFICES ASSUME TypeOK, TaskInv, WorkInv, CleanInv, HostInv, [Next]_vars PROVE HostInv'
  OBVIOUS
<1>o. Tasks' = Tasks
  BY DEF Tasks
<1>n. Last \in Nat /\ task \in Int /\ Tasks \subseteq Int
  BY DEF TypeOK, Tasks
<1>1. CASE VerifyPending
  <2>1. pc = "finalize" /\ pc' = "commits" /\ task' = task /\ Ready /\ UNCHANGED <<tree, record>>
    BY <1>1 DEF VerifyPending, fileVars
  <2>2. task = 1
    BY <2>1 DEF CleanInv
  <2>3. \A t \in Tasks : ~(t < task)
    BY <1>n, <2>2 DEF Tasks
  <2>4. \A t \in Tasks : record[t].state = "completed" => record[t].fingerprint = tree[t]
    BY <2>1 DEF Ready, Current
  <2> QED  BY <1>o, <2>1, <2>3, <2>4 DEF HostInv, Committing
<1>2. CASE PassOver
  <2>1. /\ pc = "commits" /\ pc' = "commits" /\ task' = task + 1 /\ ~Accepted(record[task])
        /\ UNCHANGED <<tree, record>>
    BY <1>2 DEF PassOver, fileVars
  <2>2. \A t \in Tasks : t < task' => t < task \/ t = task
    BY <1>n, <2>1
  <2>3. \A t \in Tasks : t < task' => ~Accepted(record[t])
    BY <2>1, <2>2 DEF HostInv, Committing
  <2> QED  BY <1>o, <2>1, <2>3 DEF HostInv, Committing
<1>3. CASE StageAccepted
  <2>1. CASE Seen(tree[task]) # head[task]
    <3>1. /\ pc = "commits" /\ pc' = "staged" /\ UNCHANGED <<tree, record, task>> /\ Accepted(record[task])
      BY <1>3, <2>1 DEF StageAccepted, memVars
    <3> QED  BY <1>o, <3>1 DEF HostInv, Committing
  <2>2. CASE Seen(tree[task]) = head[task]
    BY <1>3, <2>2 DEF StageAccepted, Stop, HostInv, Committing
  <2> QED  BY <2>1, <2>2
<1>4. CASE CommitAccepted
  <2>1. pc = "staged" /\ pc' = "record" /\ UNCHANGED <<tree, record, task>>
    BY <1>4 DEF CommitAccepted
  <2> QED  BY <1>o, <2>1 DEF HostInv, Committing
<1>5. CASE RecordCommit
  <2>1. /\ pc = "record" /\ pc' = "commits" /\ task \in Tasks /\ task' = task + 1
        /\ record' = [record EXCEPT ![task] = [record[task] EXCEPT !.pending = FALSE]] /\ UNCHANGED tree
    BY <1>5 DEF RecordCommit, TaskInv
  <2>2. \A t \in Tasks \ {task} : record'[t] = record[t]
    BY <2>1 DEF TypeOK
  <2>3. record'[task] = [record[task] EXCEPT !.pending = FALSE] /\ record[task] \in Records
    BY <2>1 DEF TypeOK
  <2>4. /\ record'[task].state = record[task].state /\ ~record'[task].pending
        /\ record'[task].fingerprint = record[task].fingerprint
    BY <2>3, Zenon DEF Records
  <2>5. \A t \in Tasks : t < task' => t < task \/ t = task
    BY <1>n, <2>1
  <2>6. ASSUME NEW t \in Tasks
        PROVE  /\ record'[t].state = "completed" => record'[t].fingerprint = tree[t]
               /\ t < task' => ~Accepted(record'[t])
    BY <2>1, <2>2, <2>4, <2>5 DEF HostInv, Committing, Accepted
  <2> QED  BY <1>o, <2>1, <2>6 DEF HostInv, Committing
<1>6. CASE AllCommitted
  <2>1. pc = "commits" /\ pc' = "publish" /\ task \notin Tasks /\ UNCHANGED <<tree, record, deferred>>
    BY <1>6 DEF AllCommitted, fileVars, workVars, runVars
  <2>2. \A t \in Tasks : t < task
    BY <1>n, <2>1 DEF Tasks, TypeOK
  <2>3. \A t \in Tasks : /\ record[t].state = "completed" => record[t].fingerprint = tree[t]
                         /\ ~Accepted(record[t])
    BY <2>1, <2>2 DEF HostInv, Committing
  <2> QED  BY <1>o, <2>1, <2>3 DEF HostInv, Committing
<1>7. CASE UNCHANGED vars
  BY <1>7, <1>o DEF vars, fileVars, workVars, runVars, HostInv, Committing
<1>8. ASSUME Next, ~VerifyPending, ~PassOver, ~StageAccepted, ~CommitAccepted, ~RecordCommit, ~AllCommitted
      PROVE  pc' \notin Committing /\ (pc' = "publish" => ~deferred')
  BY <1>8 DEF Next, StartRun, ResumeRun, SkipTask, DeferTask, BeginTask, ValidateInitial, Repair, Report,
     ValidateRepaired, Optimize, Promote, Enhance, ValidateFinal, NothingToApply, ApplyPath, StageTask,
     CommitTask, CompleteTask, TaskRaises, TaskUnreadable, EndRun, FinalizeAgain, RefuseFinalize, Publish,
     PublicationFails, Kill, OutsideEdit, Stop, NextTask, Finishing, Committing, workVars, runVars
<1> QED  BY <1>1, <1>2, <1>3, <1>4, <1>5, <1>6, <1>7, <1>8 DEF HostInv, Committing

\* Everything the refinement uses of a state.
BranchInv ==
  /\ TypeOK /\ TaskInv /\ StoredInv /\ WorkInv
  /\ CleanInv /\ AuditedInv /\ StagedInv /\ HostInv

LEMMA BranchInvHolds == Spec => []BranchInv
<1>1. Init => CleanInv /\ AuditedInv /\ StagedInv /\ HostInv
  BY DEF Init, CleanInv, AuditedInv, StagedInv, HostInv, Committing, Auditing, Applying
<1> QED  BY <1>1, TypeInit, TypeStep, StoredInit, StoredStep, WorkStep, CleanStep, AuditedStep, StagedStep,
            HostKept, PTL DEF Spec, BranchInv

\* The abstract entries and passes, and the entry of an unfinished task.
Entries == [t \in Tasks |-> Entry(record[t])]
Passes == [t \in Tasks |-> {Seen(c) : c \in validated[t]}]
OpenEntry == [state |-> "open", content |-> Original]

\* A step is one of AuditBranch by what it does to entries, branch, passes
\* and publication; a step that touches none of them is a stutter.
LEMMA BranchStutter ==
  ASSUME UNCHANGED <<deferred, Passes, Entries, head, status = "completed">>
  PROVE  [Branch!Next]_(Branch!branchVars)
<1> QED  BY DEF Branch!branchVars, Entries, Passes

LEMMA BranchPass ==
  ASSUME NEW t \in Tasks, NEW c \in Contents, Entries[t] = OpenEntry,
         Passes' = [Passes EXCEPT ![t] = @ \cup {c}],
         UNCHANGED <<deferred, Entries, head, status = "completed">>
  PROVE  [Branch!Next]_(Branch!branchVars)
<1>1. Branch!Pass(t, c)
  BY DEF Branch!Pass, Branch!Open, Entries, Passes, OpenEntry
<1> QED  BY <1>1 DEF Branch!Next

LEMMA BranchReopen ==
  ASSUME NEW t \in Tasks, Entries' = [Entries EXCEPT ![t] = OpenEntry],
         UNCHANGED <<deferred, Passes, head, status = "completed">>
  PROVE  [Branch!Next]_(Branch!branchVars)
<1>1. Branch!Reopen(t)
  BY DEF Branch!Reopen, Branch!Open, Entries, Passes, OpenEntry
<1> QED  BY <1>1 DEF Branch!Next

LEMMA BranchConclude ==
  ASSUME NEW t \in Tasks, NEW c \in Contents, Entries[t] = OpenEntry, NEW s,
         s = "settled" \/ (s = "accepted" /\ deferred /\ c \in Passes[t]),
         Entries' = [Entries EXCEPT ![t] = [state |-> s, content |-> c]],
         UNCHANGED <<deferred, Passes, head, status = "completed">>
  PROVE  [Branch!Next]_(Branch!branchVars)
<1>1. Branch!Conclude(t, c)
  BY DEF Branch!Conclude, Branch!Open, Entries, Passes, OpenEntry
<1> QED  BY <1>1 DEF Branch!Next

LEMMA BranchSettle ==
  ASSUME NEW t \in Tasks, Entries[t].state = "accepted", head[t] = Entries[t].content,
         Entries' = [Entries EXCEPT ![t] = [Entries[t] EXCEPT !.state = "settled"]],
         UNCHANGED <<deferred, Passes, head, status = "completed">>
  PROVE  [Branch!Next]_(Branch!branchVars)
<1>1. Branch!Settle(t)
  BY DEF Branch!Settle, Branch!Accepted, Branch!OnBranch, Entries, Passes
<1> QED  BY <1>1 DEF Branch!Next

LEMMA BranchCommit ==
  ASSUME \A t \in Tasks : head'[t] # head[t] =>
           head'[t] \in Passes[t] /\ (deferred => Entries[t].state = "accepted"),
         deferred => \E t \in Tasks : Entries[t].state = "accepted" /\ head'[t] = Entries[t].content,
         UNCHANGED <<deferred, Passes, Entries, status = "completed">>
  PROVE  [Branch!Next]_(Branch!branchVars)
<1>1. Branch!Commit
  BY DEF Branch!Commit, Branch!Accepted, Entries, Passes
<1> QED  BY <1>1 DEF Branch!Next

LEMMA BranchPublish ==
  ASSUME deferred => \A t \in Tasks : Entries[t] # OpenEntry =>
                       Entries[t].state = "settled" /\ head[t] = Entries[t].content,
         status' = "completed",
         UNCHANGED <<deferred, Passes, Entries, head>>
  PROVE  [Branch!Next]_(Branch!branchVars)
<1>1. Branch!Publish
  BY DEF Branch!Publish, Branch!Open, Branch!OnBranch, Entries, Passes, OpenEntry
<1> QED  BY <1>1 DEF Branch!Next

LEMMA BranchWithdraw ==
  ASSUME status' # "completed", UNCHANGED <<deferred, Passes, Entries, head>>
  PROVE  [Branch!Next]_(Branch!branchVars)
<1>1. Branch!Withdraw
  BY DEF Branch!Withdraw, Entries, Passes
<1> QED  BY <1>1 DEF Branch!Next

\* How a step that rewrites the record of one task changes the entries.
LEMMA EntryChange ==
  ASSUME NEW k \in Tasks, \A t \in Tasks \ {k} : record'[t] = record[t],
         NEW e, Entry(record'[k]) = e
  PROVE  Entries' = [Entries EXCEPT ![k] = e]
<1>1. \A t \in Tasks \ {k} : Entry(record'[t]) = Entry(record[t])
  OBVIOUS
<1>2. Tasks' = Tasks
  BY DEF Tasks
<1>3. Entries' = [t \in Tasks |-> Entry(record'[t])]
  BY <1>2 DEF Entries, Entry, Original, Seen
<1> HIDE DEF Tasks
<1>4. [Entries EXCEPT ![k] = e] = [t \in Tasks |-> IF t = k THEN e ELSE Entry(record[t])]
  BY DEF Entries
<1>5. \A t \in Tasks : Entry(record'[t]) = IF t = k THEN e ELSE Entry(record[t])
  BY <1>1
<1> QED  BY <1>3, <1>4, <1>5

\* An audit that changes the record of its task leaves it open.
LEMMA EntryReopened ==
  ASSUME NEW k \in Tasks, \A t \in Tasks \ {k} : record'[t] = record[t],
         record'[k].state # "completed"
  PROVE  Entries' = [Entries EXCEPT ![k] = OpenEntry]
<1>1. Entry(record'[k]) = OpenEntry
  BY DEF Entry, OpenEntry
<1> QED  BY <1>1, EntryChange

LEMMA EntryStaysOpen ==
  ASSUME NEW k \in Tasks, \A t \in Tasks \ {k} : record'[t] = record[t],
         record[k].state # "completed", record'[k].state # "completed"
  PROVE  Entries' = Entries
<1>1. Entries' = [Entries EXCEPT ![k] = OpenEntry]
  BY EntryReopened
<1>2. Entries[k] = OpenEntry
  BY DEF Entries, Entry, OpenEntry
<1> QED  BY <1>1, <1>2 DEF Entries

LEMMA EntriesUnchanged ==
  ASSUME UNCHANGED record
  PROVE  Entries' = Entries
BY DEF Entries, Entry, Original, Seen, Tasks

LEMMA PassesUnchanged ==
  ASSUME UNCHANGED validated
  PROVE  Passes' = Passes
BY DEF Passes, Seen, Tasks

\* What passes as a whole passes with what git takes of it.
LEMMA PassesGrow ==
  ASSUME TypeOK, NEW k \in Tasks, NEW c \in Contents, validated' = [validated EXCEPT ![k] = @ \cup {c}]
  PROVE  Passes' = [Passes EXCEPT ![k] = @ \cup {Seen(c)}]
<1>1. validated'[k] = validated[k] \cup {c} /\ \A t \in Tasks \ {k} : validated'[t] = validated[t]
  BY DEF TypeOK
<1>2. Passes' = [t \in Tasks |-> {Seen(d) : d \in validated'[t]}]
  BY DEF Passes, Seen, Tasks
<1> HIDE DEF Tasks
<1>3. [Passes EXCEPT ![k] = @ \cup {Seen(c)}] =
        [t \in Tasks |-> IF t = k THEN {Seen(d) : d \in validated[t]} \cup {Seen(c)}
                                  ELSE {Seen(d) : d \in validated[t]}]
  BY DEF Passes
<1>4. {Seen(d) : d \in validated'[k]} = {Seen(d) : d \in validated[k]} \cup {Seen(c)}
  BY <1>1
<1>5. \A t \in Tasks : {Seen(d) : d \in validated'[t]} =
                         IF t = k THEN {Seen(d) : d \in validated[t]} \cup {Seen(c)}
                                  ELSE {Seen(d) : d \in validated[t]}
  BY <1>1, <1>4
<1> QED  BY <1>2, <1>3, <1>5

\* What a transition does to the other records.
LEMMA TransitionOpens ==
  ASSUME TypeOK, task \in Tasks, NEW s \in States \ {"completed"}, Transition(s)
  PROVE  record'[task].state # "completed" /\ \A t \in Tasks \ {task} : record'[t] = record[t]
<1> QED  BY TransitionKeeps

LEMMA ReportOpens ==
  ASSUME TypeOK, task \in Tasks, Report
  PROVE  record'[task].state # "completed" /\ \A t \in Tasks \ {task} : record'[t] = record[t]
BY ReportRecord

\* Steps of an audit, which keep the entry of their task open.
LEMMA AuditBranches ==
  ASSUME BranchInv,
         \/ ValidateInitial \/ Repair \/ ValidateRepaired \/ Optimize \/ Promote \/ Enhance
         \/ ValidateFinal \/ NothingToApply \/ ApplyPath \/ StageTask \/ TaskRaises
  PROVE  [Branch!Next]_(Branch!branchVars)
<1> USE DEF BranchInv
<1>1. pc \in Auditing /\ task \in Tasks /\ record[task].state # "completed"
  <2>1. pc \in Auditing
    BY DEF ValidateInitial, Repair, ValidateRepaired, Optimize, Promote, Enhance, ValidateFinal,
           NothingToApply, ApplyPath, StageTask, TaskRaises, Auditing, Applying
  <2> QED  BY <2>1 DEF TaskInv, AuditedInv
<1>2. UNCHANGED <<deferred, head, status>>
  BY DEF ValidateInitial, Repair, ValidateRepaired, Optimize, Promote, Enhance, ValidateFinal,
         NothingToApply, ApplyPath, StageTask, TaskRaises, fileVars, workVars, runVars
<1>3. Entries' = Entries
  <2>1. \/ UNCHANGED record \/ Report
        \/ \E s \in {"repairing", "optimizing", "infrastructure_failed"} : Transition(s)
    BY DEF ValidateInitial, Repair, ValidateRepaired, Optimize, Promote, Enhance, ValidateFinal,
           NothingToApply, ApplyPath, StageTask, TaskRaises, fileVars
  <2>2. CASE UNCHANGED record
    BY <2>2, EntriesUnchanged
  <2>3. CASE Report
    BY <1>1, <2>3, ReportOpens, EntryStaysOpen
  <2>4. CASE \E s \in {"repairing", "optimizing", "infrastructure_failed"} : Transition(s)
    <3>1. {"repairing", "optimizing", "infrastructure_failed"} \subseteq States \ {"completed"}
      BY DEF States, Terminal
    <3>2. record'[task].state # "completed" /\ \A t \in Tasks \ {task} : record'[t] = record[t]
      BY <1>1, <2>4, <3>1, TransitionOpens
    <3> QED  BY <1>1, <3>2, EntryStaysOpen
  <2> QED  BY <2>1, <2>2, <2>3, <2>4
<1>4. \/ UNCHANGED validated
      \/ \E c \in Contents : validated' = [validated EXCEPT ![task] = @ \cup {c}]
  <2>1. candidate \in Contents
    BY DEF TypeOK
  <2> QED  BY <1>1, <2>1, ProposalsFacts DEF workVars, ValidateInitial, Repair, ValidateRepaired, Optimize, Promote, Enhance, ValidateFinal,
         NothingToApply, ApplyPath, StageTask, TaskRaises, Judged, Propose
<1>5. Entries[task] = OpenEntry
  BY <1>1 DEF Entries, Entry, OpenEntry
<1>6. CASE UNCHANGED validated
  BY <1>2, <1>3, <1>6, PassesUnchanged, BranchStutter
<1>7. CASE \E c \in Contents : validated' = [validated EXCEPT ![task] = @ \cup {c}]
  <2>1. PICK c \in Contents : validated' = [validated EXCEPT ![task] = @ \cup {c}]
    BY <1>7
  <2>2. Passes' = [Passes EXCEPT ![task] = @ \cup {Seen(c)}] /\ Seen(c) \in Contents
    BY <1>1, <2>1, PassesGrow, SeenFacts
  <2> QED  BY <1>1, <1>2, <1>3, <1>5, <2>2, BranchPass
<1> QED  BY <1>4, <1>6, <1>7

\* A task whose files are not those of its entry is opened again.
LEMMA ReopenBranches ==
  ASSUME BranchInv, DeferTask \/ BeginTask \/ TaskUnreadable
  PROVE  [Branch!Next]_(Branch!branchVars)
<1> USE DEF BranchInv
<1>1. task \in Tasks /\ UNCHANGED <<deferred, validated, head, status>>
  BY DEF DeferTask, BeginTask, TaskUnreadable, workVars, runVars, TypeOK
<1>2. record'[task].state # "completed" /\ \A t \in Tasks \ {task} : record'[t] = record[t]
  <2>1. record[task] \in Records
    BY <1>1 DEF TypeOK
  <2>2. CASE DeferTask
    <3>1. record' = [record EXCEPT ![task] =
            [record[task] EXCEPT !.state = "platform_deferred", !.fingerprint = tree[task]]]
      BY <2>2 DEF DeferTask
    <3>2. [record[task] EXCEPT !.state = "platform_deferred", !.fingerprint = tree[task]].state = "platform_deferred"
      BY <2>1, Zenon DEF Records
    <3> QED  BY <1>1, <3>1, <3>2 DEF TypeOK
  <2>3. CASE BeginTask
    <3>1. record' = [record EXCEPT ![task] =
            [record[task] EXCEPT !.state = "validating", !.fingerprint = tree[task]]]
      BY <2>3 DEF BeginTask
    <3>2. [record[task] EXCEPT !.state = "validating", !.fingerprint = tree[task]].state = "validating"
      BY <2>1, Zenon DEF Records
    <3> QED  BY <1>1, <3>1, <3>2 DEF TypeOK
  <2>4. CASE TaskUnreadable
    <3>1. "infrastructure_failed" \in States \ {"completed"}
      BY DEF States, Terminal
    <3> QED  BY <1>1, <2>4, <3>1, TransitionOpens DEF TaskUnreadable
  <2> QED  BY <2>2, <2>3, <2>4
<1>3. Entries' = [Entries EXCEPT ![task] = OpenEntry]
  BY <1>1, <1>2, EntryReopened
<1> QED  BY <1>1, <1>3, PassesUnchanged, BranchReopen

\* An audit ends with contents that passed, or with none for the host.
LEMMA CompleteBranches ==
  ASSUME BranchInv, CompleteTask
  PROVE  [Branch!Next]_(Branch!branchVars)
<1> USE DEF BranchInv
<1>1. /\ pc = "complete" /\ task \in Tasks /\ record[task].state # "completed"
      /\ UNCHANGED <<deferred, validated, head, status>>
  BY DEF CompleteTask, TaskInv, AuditedInv, Auditing, Applying, workVars, runVars
<1> DEFINE b == deferred /\ Diff(original, candidate) # {}
           e == task \notin spoilt
           content == Seen(tree[task])
<1>2. record' = [record EXCEPT ![task] =
         [state |-> "completed", fingerprint |-> tree[task], changes |-> Diff(original, candidate),
          pending |-> b, evidence |-> e]]
  BY DEF CompleteTask
<1>3. b => content \in Passes[task]
  BY <1>1 DEF WorkInv, Passes
<1> HIDE DEF b, e
<1>4. \A t \in Tasks \ {task} : record'[t] = record[t]
  BY <1>2 DEF TypeOK
<1>5. record'[task] = [state |-> "completed", fingerprint |-> tree[task], changes |-> Diff(original, candidate),
                       pending |-> b, evidence |-> e]
  BY <1>1, <1>2 DEF TypeOK
<1> DEFINE s == IF b THEN "accepted" ELSE "settled"
<1>6. Entry(record'[task]) = [state |-> s, content |-> content]
  <2>1. /\ record'[task].state = "completed" /\ record'[task].fingerprint = tree[task]
        /\ record'[task].pending = b
    BY <1>5
  <2> QED  BY <2>1 DEF Entry
<1>7. s = "settled" \/ (s = "accepted" /\ deferred /\ content \in Passes[task])
  BY <1>3 DEF b
<1> HIDE DEF s
<1>8. Entries' = [Entries EXCEPT ![task] = [state |-> s, content |-> content]]
  BY <1>1, <1>4, <1>6, EntryChange
<1>9. Entries[task] = OpenEntry /\ content \in Contents
  BY <1>1, SeenFacts DEF Entries, Entry, OpenEntry, TypeOK
<1> QED  BY <1>1, <1>7, <1>8, <1>9, PassesUnchanged, BranchConclude

\* A commit moves accepted tasks, one of them to the contents of its entry.
LEMMA CommitBranches ==
  ASSUME BranchInv, CommitTask \/ CommitAccepted
  PROVE  [Branch!Next]_(Branch!branchVars)
<1> USE DEF BranchInv
<1>1. head' = index /\ UNCHANGED <<deferred, validated, record, status>>
  BY DEF CommitTask, CommitAccepted, workVars, runVars
<1>2. \A t \in Tasks : head'[t] # head[t] => head'[t] \in Passes[t]
  BY <1>1 DEF StagedInv, Passes
<1>3. Entries' = Entries /\ Passes' = Passes
  BY <1>1, EntriesUnchanged, PassesUnchanged
<1>4. CASE CommitTask
  <2>1. ~deferred
    BY <1>4 DEF CommitTask, AuditedInv
  <2> QED  BY <1>1, <1>2, <1>3, <2>1, BranchCommit
<1>5. CASE CommitAccepted
  <2>1. pc = "staged" /\ task \in Tasks /\ Accepted(record[task]) /\ index[task] = Seen(tree[task])
    BY <1>5 DEF CommitAccepted, TaskInv, HostInv, CleanInv
  <2>2. \A t \in Tasks : index[t] # head[t] => Accepted(record[t])
    BY <2>1 DEF CleanInv, Taken
  <2>3. \A t \in Tasks : Accepted(record[t]) => Entries[t].state = "accepted"
    BY DEF Accepted, Entries, Entry
  <2>4. Entries[task].content = Seen(tree[task])
    BY <2>1 DEF Entries, Entry, HostInv, Committing, Accepted
  <2>5. Entries[task].state = "accepted" /\ head'[task] = Entries[task].content
    BY <1>1, <2>1, <2>3, <2>4
  <2> QED  BY <1>1, <1>2, <1>3, <2>1, <2>2, <2>3, <2>5, BranchCommit
<1> QED  BY <1>4, <1>5

\* A commit is recorded when the branch has what the entry promised.
LEMMA RecordBranches ==
  ASSUME BranchInv, RecordCommit
  PROVE  [Branch!Next]_(Branch!branchVars)
<1> USE DEF BranchInv
<1>1. pc = "record" /\ task \in Tasks /\ UNCHANGED <<deferred, validated, head, status>>
  BY DEF RecordCommit, TaskInv, workVars, runVars
<1>2. Accepted(record[task]) /\ record[task].fingerprint = tree[task]
  BY <1>1 DEF HostInv, Committing, Accepted
<1>3. head[task] = Seen(tree[task])
  <2>1. Taken(task) \/ task > task
    BY <1>1 DEF CleanInv
  <2>2. ~(task > task)
    BY DEF TypeOK
  <2> QED  BY <2>1, <2>2 DEF Taken
<1>4. /\ record' = [record EXCEPT ![task] = [record[task] EXCEPT !.pending = FALSE]]
      /\ record[task] \in Records
  BY <1>1 DEF RecordCommit, TypeOK
<1>5. \A t \in Tasks \ {task} : record'[t] = record[t]
  BY <1>4 DEF TypeOK
<1>6. /\ record'[task].state = "completed" /\ ~record'[task].pending
      /\ record'[task].fingerprint = tree[task]
  <2>1. record'[task] = [record[task] EXCEPT !.pending = FALSE]
    BY <1>1, <1>4 DEF TypeOK
  <2>2. /\ record'[task].state = record[task].state /\ ~record'[task].pending
        /\ record'[task].fingerprint = record[task].fingerprint
    BY <1>4, <2>1, Zenon DEF Records
  <2> QED  BY <1>2, <2>2 DEF Accepted
<1>7. Entry(record'[task]) = [state |-> "settled", content |-> Seen(tree[task])]
  BY <1>6 DEF Entry
<1>8. Entries[task] = [state |-> "accepted", content |-> Seen(tree[task])]
  BY <1>1, <1>2 DEF Entries, Entry, Accepted
<1>9. [Entries[task] EXCEPT !.state = "settled"] = [state |-> "settled", content |-> Seen(tree[task])]
  BY <1>8
<1>10. Entries' = [Entries EXCEPT ![task] = [Entries[task] EXCEPT !.state = "settled"]]
  BY <1>1, <1>5, <1>7, <1>9, EntryChange
<1>11. Entries[task].state = "accepted" /\ head[task] = Entries[task].content
  BY <1>3, <1>8
<1>12. UNCHANGED (status = "completed") /\ Passes' = Passes
  BY <1>1, PassesUnchanged
<1> QED  BY <1>1, <1>10, <1>11, <1>12, BranchSettle

\* A campaign of the host is published when everything settled is committed.
LEMMA PublishBranches ==
  ASSUME BranchInv, Publish
  PROVE  [Branch!Next]_(Branch!branchVars)
<1> USE DEF BranchInv
<1>1. pc = "publish" /\ status' = "completed" /\ UNCHANGED <<deferred, validated, record, head>>
  BY DEF Publish, workVars, runVars
<1>2. Entries' = Entries /\ Passes' = Passes
  BY <1>1, EntriesUnchanged, PassesUnchanged
<1>3. ASSUME deferred, NEW t \in Tasks, Entries[t] # OpenEntry
      PROVE  Entries[t].state = "settled" /\ head[t] = Entries[t].content
  <2>1. record[t].state = "completed"
    BY <1>3 DEF Entries, Entry, OpenEntry
  <2>2. ~record[t].pending /\ record[t].fingerprint = tree[t] /\ Seen(tree[t]) = head[t]
    BY <1>1, <1>3, <2>1 DEF HostInv, Accepted, CleanInv
  <2> QED  BY <1>3, <2>1, <2>2 DEF Entries, Entry
<1> QED  BY <1>1, <1>2, <1>3, BranchPublish

\* An outside touch of the evidence leaves the entry.
LEMMA EditBranches ==
  ASSUME BranchInv, OutsideEdit
  PROVE  [Branch!Next]_(Branch!branchVars)
<1> USE DEF BranchInv
<1>1. UNCHANGED <<deferred, validated, head, status>>
  BY DEF OutsideEdit, workVars
<1>2. Entries' = Entries
  <2>1. CASE UNCHANGED record
    BY <2>1, EntriesUnchanged
  <2>2. CASE \E t \in Tasks : record' = [record EXCEPT ![t].evidence = FALSE]
    <3>1. PICK k \in Tasks : record' = [record EXCEPT ![k].evidence = FALSE]
      BY <2>2
    <3>2. record' = [record EXCEPT ![k] = [record[k] EXCEPT !.evidence = FALSE]]
      BY <3>1
    <3>3. record'[k] = [record[k] EXCEPT !.evidence = FALSE] /\ \A t \in Tasks \ {k} : record'[t] = record[t]
      BY <3>2 DEF TypeOK
    <3>4. /\ record'[k].state = record[k].state /\ record'[k].fingerprint = record[k].fingerprint
          /\ record'[k].pending = record[k].pending
      <4>1. record[k] \in Records
        BY DEF TypeOK
      <4> QED  BY <3>3, <4>1, Zenon DEF Records
    <3>5. Entry(record'[k]) = Entry(record[k])
      BY <3>4 DEF Entry
    <3>6. Entries' = [Entries EXCEPT ![k] = Entry(record[k])]
      BY <3>3, <3>5, EntryChange
    <3> QED  BY <3>6 DEF Entries
  <2> QED  BY <2>1, <2>2 DEF OutsideEdit
<1> QED  BY <1>1, <1>2, PassesUnchanged, BranchStutter

\* Every step is a step of AuditBranch or none.
LEMMA BranchStep == BranchInv /\ [Next]_vars => [Branch!Next]_(Branch!branchVars)
<1> SUFFICES ASSUME BranchInv, [Next]_vars PROVE [Branch!Next]_(Branch!branchVars)
  OBVIOUS
<1>1. CASE \/ ValidateInitial \/ Repair \/ ValidateRepaired \/ Optimize \/ Promote \/ Enhance
           \/ ValidateFinal \/ NothingToApply \/ ApplyPath \/ StageTask \/ TaskRaises
  BY <1>1, AuditBranches, Zenon
<1>2. CASE DeferTask \/ BeginTask \/ TaskUnreadable
  BY <1>2, ReopenBranches, Zenon
<1>3. CASE CompleteTask
  BY <1>3, CompleteBranches
<1>4. CASE CommitTask \/ CommitAccepted
  BY <1>4, CommitBranches, Zenon
<1>5. CASE RecordCommit
  BY <1>5, RecordBranches
<1>6. CASE Publish
  BY <1>6, PublishBranches
<1>7. CASE OutsideEdit
  BY <1>7, EditBranches
<1>8. CASE \/ ResumeRun \/ SkipTask \/ FinalizeAgain \/ VerifyPending \/ RefuseFinalize \/ PassOver
           \/ StageAccepted \/ AllCommitted \/ PublicationFails \/ Kill
  <2>1. UNCHANGED <<deferred, validated, record, head, status>>
    BY <1>8 DEF ResumeRun, SkipTask, FinalizeAgain, VerifyPending, RefuseFinalize, PassOver, StageAccepted,
                AllCommitted, PublicationFails, Kill, fileVars, workVars, runVars
  <2> QED  BY <2>1, EntriesUnchanged, PassesUnchanged, BranchStutter
<1>9. CASE StartRun \/ EndRun
  <2>1. UNCHANGED <<deferred, validated, record, head>>
    BY <1>9 DEF StartRun, EndRun, workVars, runVars
  <2>2. CASE UNCHANGED (status = "completed")
    BY <2>1, <2>2, EntriesUnchanged, PassesUnchanged, BranchStutter
  <2>3. CASE ~UNCHANGED (status = "completed")
    <3>1. status' # "completed"
      BY <1>9, <2>3 DEF StartRun, EndRun, FinishedAs
    <3> QED  BY <2>1, <3>1, EntriesUnchanged, PassesUnchanged, BranchWithdraw
  <2> QED  BY <2>2, <2>3
<1>10. CASE UNCHANGED vars
  <2>1. UNCHANGED <<deferred, validated, record, head, status>>
    BY <1>10 DEF vars, fileVars, workVars, runVars
  <2> QED  BY <2>1, EntriesUnchanged, PassesUnchanged, BranchStutter
<1> QED  BY <1>1, <1>2, <1>3, <1>4, <1>5, <1>6, <1>7, <1>8, <1>9, <1>10, Zenon DEF Next

\* The campaign implements AuditBranch for any tasks, files, resumes, kills
\* and outside touches: manifest and branch never disagree about what passed,
\* what is committed and what may be published.
THEOREM QualityImplementsBranch == Spec => ImplementsBranch
<1>1. Init => Branch!Init
  <2> SUFFICES ASSUME Init PROVE Branch!Init
    OBVIOUS
  <2>1. Entries = [t \in Tasks |-> OpenEntry]
    BY DEF Init, Entries, Entry, OpenEntry, NewRecord
  <2>2. Passes = [t \in Tasks |-> {}]
    BY DEF Init, Passes
  <2> QED  BY <2>1, <2>2 DEF Init, Branch!Init, Branch!Open, Entries, Passes, OpenEntry
<1> QED  BY <1>1, BranchInvHolds, BranchStep, PTL DEF Spec, ImplementsBranch, Branch!Spec
=============================================================================
