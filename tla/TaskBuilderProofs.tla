------------------------- MODULE TaskBuilderProofs -------------------------
(***************************************************************************)
(* Proofs about TaskBuilder, for any campaigns, tasks, contents and kills. *)
(*                                                                         *)
(* The argument: what a campaign knows about its draft is true of it, or   *)
(* was made false by the one stray write of the attempt, after which the   *)
(* draft stays as it is (Validating).  So a verdict for a digest is a      *)
(* verdict for that content, and the two contract checks saw it at least   *)
(* once (Installing).  The lock keeps the destination of the one campaign  *)
(* that holds it free.  Records: state.json differs from memory in a       *)
(* deadline at most (Mirror), so that a kill loses nothing that counts.    *)
(***************************************************************************)
EXTENDS TaskBuilder, TLAPS

USE TaskBuilderAssumption

Installs == {"install", "stage", "compare", "lock", "locked", "rename", "record"}

\* Until the verdict: what is known of the draft, of its digest and of its copy.
Validating(c) ==
  /\ pc[c] = "snapshot" => DraftOf(c) \in Legal[c] \/ c \in stray
  /\ pc[c] \in {"copy", "validate", "recheck"} =>
       \/ evidence[c].digest \in Legal[c]
       \/ c \in stray /\ DraftOf(c) = evidence[c].digest
  /\ pc[c] = "copy" => DraftOf(c) = evidence[c].digest \/ c \in stray
  /\ pc[c] = "validate" =>
       \/ work[c] = evidence[c].digest
       \/ c \in stray /\ DraftOf(c) = work[c]
  /\ pc[c] = "recheck" /\ evidence[c].verdict = "ok" =>
       <<c, at[c], evidence[c].digest>> \in accepted

\* From the second contract check to the record: what install_task may rely on.
Installing(c) ==
  /\ pc[c] \in Installs =>
       /\ <<c, at[c], evidence[c].digest>> \in accepted
       /\ evidence[c].digest \in Legal[c] /\ c \notin tampered
  /\ pc[c] \in {"lock", "locked", "rename"} => staged[c] = evidence[c].digest
  /\ pc[c] \in {"locked", "rename"} => lock = c
  /\ pc[c] = "rename" => output[at[c]] = Absent \/ at[c] \in touched
  /\ pc[c] = "record" => output[at[c]] = evidence[c].digest \/ at[c] \in touched

\* state.json and the memory of a campaign agree but for deadlines.
Mirror ==
  \A c \in Campaigns, t \in Tasks :
    /\ disk[c][t].state = rec[c][t].state /\ disk[c][t].digest = rec[c][t].digest
    /\ disk[c][t].attempts = rec[c][t].attempts
    /\ disk[c][t].deadline # "unset" => rec[c][t].deadline # "unset"
    /\ rec[c][t].state = "installed" => rec[c][t].digest # Absent

Sound == \A c \in Campaigns : Validating(c) /\ Installing(c)

IInv == TypeOK /\ Sound /\ Mirror /\ PublishedIsAccepted /\ RecordIsTrue /\ BudgetSurvives

-----------------------------------------------------------------------------
(* Types                                                                   *)

Steps == {"down", "next"} \cup Trying

\* The part of TypeOK about the progress of the campaigns.
Walks ==
  /\ pc \in [Campaigns -> Steps] /\ at \in [Campaigns -> 1 .. NumTasks + 1]
  /\ \A c \in Campaigns : pc[c] \in Trying => at[c] \in Tasks

Saved ==
  /\ rec \in [Campaigns -> [Tasks -> Record]] /\ disk \in [Campaigns -> [Tasks -> Record]]
  /\ \A c \in Campaigns, t \in Tasks :
       rec[c][t].attempts <= MaxRepairs[c] + 1 /\ disk[c][t].attempts <= MaxRepairs[c] + 1

\* A step of a campaign that stays at its task, or leaves the try.
LEMMA GotoType ==
  ASSUME TypeOK, NEW c \in Campaigns, NEW s \in Steps, Goto(c, s), UNCHANGED at,
         s \in Trying => at[c] \in Tasks
  PROVE  Walks'
BY DEF TypeOK, Goto, Walks, Steps

LEMMA NextTaskType ==
  ASSUME TypeOK, NEW c \in Campaigns, at[c] \in Tasks, NextTask(c)
  PROVE  Walks'
<1>1. at[c] + 1 \in 1 .. NumTasks + 1
  BY DEF Tasks
<1>2. "next" \in Steps /\ "next" \notin Trying
  BY DEF Steps, Trying
<1>3. QED
  BY <1>1, <1>2 DEF TypeOK, Goto, NextTask, Walks, Steps

LEMMA SaveType ==
  ASSUME TypeOK, NEW c \in Campaigns, at[c] \in Tasks, NEW r \in Record, Save(c, r),
         r.attempts <= MaxRepairs[c] + 1
  PROVE  Saved'
<1>1. rec' \in [Campaigns -> [Tasks -> Record]]
  BY DEF TypeOK, Save
<1>2. disk' \in [Campaigns -> [Tasks -> Record]] /\ disk' = [disk EXCEPT ![c] = rec'[c]]
  BY <1>1 DEF TypeOK, Save
<1>3. \A t \in Tasks : rec'[c][t].attempts <= MaxRepairs[c] + 1
  BY DEF TypeOK, Save
<1>4. \A d \in Campaigns \ {c} : rec'[d] = rec[d] /\ disk'[d] = disk[d]
  BY <1>2 DEF TypeOK, Save
<1>5. disk'[c] = rec'[c]
  BY <1>2 DEF TypeOK
<1>6. QED
  BY <1>1, <1>2, <1>3, <1>4, <1>5 DEF TypeOK, Saved

LEMMA DropType ==
  ASSUME TypeOK, NEW c \in Campaigns, Drop(c)
  PROVE  /\ evidence' \in [Campaigns -> [digest : Files, verdict : {"none", "ok", "failed"}]]
         /\ work' \in [Campaigns -> Files] /\ staged' \in [Campaigns -> Files]
         /\ lock' \in Campaigns \cup {NoOne}
BY DEF TypeOK, Drop, NoEvidence, Files

LEMMA DraftType ==
  ASSUME TypeOK, NEW c \in Campaigns, at[c] \in Tasks, NEW f \in Files, SetDraft(c, f)
  PROVE  draft' \in [Campaigns -> [Tasks -> Files]]
BY DEF TypeOK, SetDraft

LEMMA CurrentType ==
  ASSUME TypeOK, NEW c \in Campaigns, at[c] \in Tasks
  PROVE  /\ Current(c) \in Record /\ DraftOf(c) \in Files
         /\ Current(c).attempts <= MaxRepairs[c] + 1
BY DEF TypeOK, Current, DraftOf

LEMMA AtTask ==
  ASSUME TypeOK, NEW c \in Campaigns, pc[c] \in Trying
  PROVE  at[c] \in Tasks
BY DEF TypeOK

LEMMA FailType ==
  ASSUME TypeOK, NEW c \in Campaigns, at[c] \in Tasks, Fail(c), Walks'
  PROVE  TypeOK'
<1>1. Current(c) \in Record /\ Current(c).attempts <= MaxRepairs[c] + 1
  BY CurrentType
<1>2. Saved'
  <2> DEFINE r == [Current(c) EXCEPT !.state = "failed"]
  <2>1. r \in Record /\ r.attempts <= MaxRepairs[c] + 1
    BY <1>1 DEF Record
  <2>2. Save(c, r)
    BY DEF Fail
  <2> HIDE DEF r
  <2>3. QED
    BY <2>1, <2>2, SaveType
<1>3. Drop(c)
  BY DEF Fail
<1>4. QED
  BY <1>2, <1>3, DropType DEF TypeOK, Fail, history, Walks, Saved, Steps

LEMMA TypeStep == TypeOK /\ [Next]_vars => TypeOK'
<1> SUFFICES ASSUME TypeOK, [Next]_vars PROVE TypeOK'
  OBVIOUS
<1> USE DEF Walks, Saved, Steps
<1>1. ASSUME NEW c \in Campaigns, SkipTask(c) PROVE TypeOK'
  <2>1. at[c] + 1 \in 1 .. NumTasks + 1
    BY <1>1 DEF SkipTask, Tasks
  <2>2. QED
    BY <1>1, <2>1 DEF SkipTask, TypeOK, Trying, records, validation, shelf, history
<1>2. ASSUME NEW c \in Campaigns, EndCampaign(c) PROVE TypeOK'
  <2>1. Walks'
    BY <1>2, GotoType DEF EndCampaign, Trying
  <2>2. QED
    BY <1>2, <2>1 DEF EndCampaign, TypeOK, records, validation, shelf, history
<1>3. ASSUME NEW c \in Campaigns, BeginTask(c) PROVE TypeOK'
  <2> DEFINE r == [Current(c) EXCEPT !.deadline = IF @ = "unset" THEN "ahead" ELSE @]
  <2>1. /\ at[c] \in Tasks /\ Current(c) \in Record
        /\ Current(c).attempts <= MaxRepairs[c] + 1
    BY <1>3, CurrentType DEF BeginTask
  <2>2. r \in Record /\ r.attempts <= MaxRepairs[c] + 1
    BY <2>1 DEF Record
  <2>3. Walks'
    BY <1>3, <2>1, GotoType DEF BeginTask, Trying
  <2>4. rec' = [rec EXCEPT ![c] = [rec[c] EXCEPT ![at[c]] = r]]
    BY <1>3 DEF BeginTask
  <2> HIDE DEF r
  <2>5. rec' \in [Campaigns -> [Tasks -> Record]]
    BY <2>1, <2>2, <2>4 DEF TypeOK
  <2>6. \A d \in Campaigns, t \in Tasks : rec'[d][t].attempts <= MaxRepairs[d] + 1
    BY <2>1, <2>2, <2>4 DEF TypeOK
  <2>7. QED
    BY <1>3, <2>3, <2>5, <2>6 DEF BeginTask, TypeOK, validation, shelf, history
<1>4. ASSUME NEW c \in Campaigns, EmitDirectory(c) PROVE TypeOK'
  <2>1. at[c] \in Tasks
    BY <1>4, AtTask DEF EmitDirectory, Trying
  <2>2. Walks'
    BY <1>4, <2>1, GotoType DEF EmitDirectory, Trying
  <2>3. draft' \in [Campaigns -> [Tasks -> Files]]
    BY <1>4, <2>1, DraftType DEF EmitDirectory, Files
  <2>4. QED
    BY <1>4, <2>2, <2>3 DEF EmitDirectory, TypeOK, records, validation, shelf, history
<1>5. ASSUME NEW c \in Campaigns, EmitFiles(c) PROVE TypeOK'
  <2>1. at[c] \in Tasks
    BY <1>5, AtTask DEF EmitFiles, Trying
  <2>2. Walks'
    BY <1>5, <2>1, GotoType DEF EmitFiles, Trying
  <2>3. draft' \in [Campaigns -> [Tasks -> Files]]
    BY <1>5, <2>1, DraftType DEF EmitFiles, Files
  <2>4. QED
    BY <1>5, <2>2, <2>3 DEF EmitFiles, TypeOK, records, validation, shelf, history
<1>6. ASSUME NEW c \in Campaigns, Attempt(c) PROVE TypeOK'
  <2> DEFINE r == [Current(c) EXCEPT !.attempts = @ + 1]
  <2>1. at[c] \in Tasks
    BY <1>6, AtTask DEF Attempt, Trying
  <2>2. Current(c) \in Record
    BY <2>1, CurrentType
  <2>3. r \in Record /\ r.attempts <= MaxRepairs[c] + 1
    BY <1>6, <2>1, <2>2 DEF Attempt, Record, MayTry
  <2>4. Save(c, r)
    BY <1>6 DEF Attempt
  <2> HIDE DEF r
  <2>5. Saved'
    BY <2>1, <2>3, <2>4, SaveType
  <2>6. Walks'
    BY <1>6, <2>1, GotoType DEF Attempt, Trying
  <2>7. calls' \in [Campaigns -> [Tasks -> Nat]]
    BY <1>6, <2>1 DEF Attempt, TypeOK
  <2>8. QED
    BY <1>6, <2>5, <2>6, <2>7 DEF Attempt, TypeOK, validation, shelf
<1>7. ASSUME NEW c \in Campaigns, GiveUp(c) PROVE TypeOK'
  <2>1. at[c] \in Tasks
    BY <1>7, AtTask DEF GiveUp, Trying
  <2>2. QED
    BY <1>7, <2>1, NextTaskType, FailType DEF GiveUp
<1>8. ASSUME NEW c \in Campaigns, SourceChanged(c) PROVE TypeOK'
  <2>1. at[c] \in Tasks
    BY <1>8, AtTask DEF SourceChanged, Trying
  <2>2. QED
    BY <1>8, <2>1, GotoType, FailType DEF SourceChanged, Trying
<1>9. ASSUME NEW c \in Campaigns, CheckContract(c) PROVE TypeOK'
  <2>1. at[c] \in Tasks
    BY <1>9, AtTask DEF CheckContract, Trying
  <2>2. Walks'
    BY <1>9, <2>1, GotoType DEF CheckContract, Trying
  <2>3. Saved'
    BY <1>9, <2>1, CurrentType, SaveType DEF CheckContract
  <2>4. QED
    BY <1>9, <2>2, <2>3 DEF CheckContract, TypeOK, validation, shelf, history
<1>10. ASSUME NEW c \in Campaigns, ReadDigest(c) PROVE TypeOK'
  <2>1. at[c] \in Tasks
    BY <1>10, AtTask DEF ReadDigest, Trying
  <2>2. Walks'
    BY <1>10, <2>1, GotoType DEF ReadDigest, Trying
  <2>3. QED
    BY <1>10, <2>1, <2>2, CurrentType
       DEF ReadDigest, TypeOK, Files, records, validation, shelf, history
<1>11. ASSUME NEW c \in Campaigns, CopyTaskFiles(c) PROVE TypeOK'
  <2>1. at[c] \in Tasks
    BY <1>11, AtTask DEF CopyTaskFiles, Trying
  <2>2. Walks'
    BY <1>11, <2>1, GotoType DEF CopyTaskFiles, Trying
  <2>3. QED
    BY <1>11, <2>1, <2>2, CurrentType
       DEF CopyTaskFiles, TypeOK, Files, records, validation, shelf, history
<1>12. ASSUME NEW c \in Campaigns, ValidatorReturns(c) PROVE TypeOK'
  <2>1. at[c] \in Tasks
    BY <1>12, AtTask DEF ValidatorReturns, Trying
  <2>2. Walks'
    BY <1>12, <2>1, GotoType DEF ValidatorReturns, Trying
  <2>3. PICK v \in {"ok", "failed"} :
          evidence' = [evidence EXCEPT ![c] = [@ EXCEPT !.verdict = v]]
    BY <1>12 DEF ValidatorReturns
  <2>4. evidence' \in [Campaigns -> [digest : Files, verdict : {"none", "ok", "failed"}]]
    <3>1. evidence[c] \in [digest : Files, verdict : {"none", "ok", "failed"}]
      BY DEF TypeOK
    <3>2. [evidence[c] EXCEPT !.verdict = v] \in
            [digest : Files, verdict : {"none", "ok", "failed"}]
      BY <3>1
    <3>3. QED
      BY <2>3, <3>2 DEF TypeOK
  <2>5. accepted' \subseteq Campaigns \X Tasks \X Files
    <3>1. <<c, at[c], work[c]>> \in Campaigns \X Tasks \X Files
      BY <2>1 DEF TypeOK
    <3>2. accepted' \subseteq accepted \cup {<<c, at[c], work[c]>>}
      BY <1>12 DEF ValidatorReturns
    <3>3. QED
      BY <3>1, <3>2 DEF TypeOK
  <2>6. QED
    BY <1>12, <2>2, <2>4, <2>5 DEF ValidatorReturns, TypeOK, records, shelf
<1>13. ASSUME NEW c \in Campaigns, Recheck(c) PROVE TypeOK'
  <2>1. at[c] \in Tasks
    BY <1>13, AtTask DEF Recheck, Trying
  <2>2. Walks'
    BY <1>13, <2>1, GotoType DEF Recheck, Trying
  <2>3. Saved'
    BY <1>13, <2>1, CurrentType, SaveType DEF Recheck, TypeOK, records
  <2>4. CASE UNCHANGED validation
    BY <1>13, <2>2, <2>3, <2>4 DEF Recheck, TypeOK, validation, shelf, history
  <2>5. CASE /\ evidence' = [evidence EXCEPT ![c] = NoEvidence]
             /\ work' = [work EXCEPT ![c] = Absent]
    BY <1>13, <2>2, <2>3, <2>5 DEF Recheck, TypeOK, NoEvidence, Files, shelf, history
  <2>6. QED
    BY <1>13, <2>4, <2>5 DEF Recheck
<1>14. ASSUME NEW c \in Campaigns, Stale(c) PROVE TypeOK'
  <2>1. at[c] \in Tasks
    BY <1>14, AtTask DEF Stale, Trying
  <2>2. QED
    BY <1>14, <2>1, NextTaskType, FailType DEF Stale
<1>15. ASSUME NEW c \in Campaigns, AlreadyInstalled(c) PROVE TypeOK'
  <2>1. at[c] \in Tasks
    BY <1>15, AtTask DEF AlreadyInstalled, Trying
  <2>2. Walks'
    BY <1>15, <2>1, GotoType DEF AlreadyInstalled, Trying
  <2>3. QED
    BY <1>15, <2>1, <2>2, CurrentType
       DEF AlreadyInstalled, TypeOK, Files, records, validation, shelf, history
<1>16. ASSUME NEW c \in Campaigns, Conflict(c) PROVE TypeOK'
  <2>1. at[c] \in Tasks
    BY <1>16, AtTask DEF Conflict, Trying
  <2>2. QED
    BY <1>16, <2>1, NextTaskType, FailType DEF Conflict
<1>17. ASSUME NEW c \in Campaigns, MakeTemporary(c) PROVE TypeOK'
  <2>1. at[c] \in Tasks
    BY <1>17, AtTask DEF MakeTemporary, Trying
  <2>2. Walks'
    BY <1>17, <2>1, GotoType DEF MakeTemporary, Trying
  <2>3. QED
    BY <1>17, <2>1, <2>2, CurrentType
       DEF MakeTemporary, TypeOK, Files, records, validation, shelf, history
<1>18. ASSUME NEW c \in Campaigns, CopyDraft(c) PROVE TypeOK'
  <2>1. at[c] \in Tasks
    BY <1>18, AtTask DEF CopyDraft, Trying
  <2>2. Walks'
    BY <1>18, <2>1, GotoType DEF CopyDraft, Trying
  <2>3. QED
    BY <1>18, <2>1, <2>2, CurrentType
       DEF CopyDraft, TypeOK, Files, records, validation, shelf, history
<1>19. ASSUME NEW c \in Campaigns, CompareCopy(c) PROVE TypeOK'
  <2>1. at[c] \in Tasks
    BY <1>19, AtTask DEF CompareCopy, Trying
  <2>2. Walks'
    BY <1>19, <2>1, GotoType DEF CompareCopy, Trying
  <2>3. QED
    BY <1>19, <2>1, <2>2, CurrentType
       DEF CompareCopy, TypeOK, Files, records, validation, shelf, history
<1>20. ASSUME NEW c \in Campaigns, TakeLock(c) PROVE TypeOK'
  <2>1. at[c] \in Tasks
    BY <1>20, AtTask DEF TakeLock, Trying
  <2>2. Walks'
    BY <1>20, <2>1, GotoType DEF TakeLock, Trying
  <2>3. QED
    BY <1>20, <2>1, <2>2, CurrentType
       DEF TakeLock, TypeOK, Files, records, validation, shelf, history
<1>21. ASSUME NEW c \in Campaigns, TestDestination(c) PROVE TypeOK'
  <2>1. at[c] \in Tasks
    BY <1>21, AtTask DEF TestDestination, Trying
  <2>2. Walks'
    BY <1>21, <2>1, GotoType DEF TestDestination, Trying
  <2>3. QED
    BY <1>21, <2>1, <2>2, CurrentType
       DEF TestDestination, TypeOK, Files, records, validation, shelf, history
<1>22. ASSUME NEW c \in Campaigns, Rename(c) PROVE TypeOK'
  <2>1. at[c] \in Tasks
    BY <1>22, AtTask DEF Rename, Trying
  <2>2. Walks'
    BY <1>22, <2>1, GotoType DEF Rename, Trying
  <2>3. published' \subseteq Campaigns \X Tasks \X Files
    BY <1>22, <2>1 DEF Rename, TypeOK
  <2>4. QED
    BY <1>22, <2>1, <2>2, <2>3 DEF Rename, TypeOK, Files, records, validation
<1>23. ASSUME NEW c \in Campaigns, RecordInstalled(c) PROVE TypeOK'
  <2> DEFINE r == [Current(c) EXCEPT !.state = "installed", !.digest = evidence[c].digest]
  <2>1. at[c] \in Tasks
    BY <1>23, AtTask DEF RecordInstalled, Trying
  <2>2. Current(c) \in Record /\ Current(c).attempts <= MaxRepairs[c] + 1
    BY <2>1, CurrentType
  <2>3. r \in Record /\ r.attempts <= MaxRepairs[c] + 1
    BY <1>23, <2>1, <2>2 DEF Record, TypeOK
  <2>4. Save(c, r)
    BY <1>23 DEF RecordInstalled
  <2> HIDE DEF r
  <2>5. Saved'
    BY <2>1, <2>3, <2>4, SaveType
  <2>6. Walks'
    BY <1>23, <2>1, NextTaskType DEF RecordInstalled
  <2>7. QED
    BY <1>23, <2>5, <2>6, DropType DEF RecordInstalled, TypeOK, history
<1>24. ASSUME NEW c \in Campaigns, Start(c) PROVE TypeOK'
  <2>1. "next" \in Steps /\ "next" \notin Trying /\ 1 \in 1 .. NumTasks + 1
    BY DEF Trying
  <2>2. Walks'
    BY <1>24, <2>1 DEF Start, Goto, TypeOK
  <2>3. QED
    BY <1>24, <2>2 DEF Start, TypeOK, records, validation, shelf, history
<1>25. ASSUME NEW c \in Campaigns, Raise(c) PROVE TypeOK'
  <2>1. at[c] \in Tasks
    BY <1>25, AtTask DEF Raise, Trying
  <2>2. QED
    BY <1>25, <2>1, NextTaskType, FailType DEF Raise
<1>26. ASSUME NEW c \in Campaigns, GeneratorEdits(c) PROVE TypeOK'
  <2>1. at[c] \in Tasks
    BY <1>26, AtTask DEF GeneratorEdits, Trying
  <2>2. Walks'
    BY <1>26 DEF GeneratorEdits, TypeOK, progress
  <2>3. draft' \in [Campaigns -> [Tasks -> Files]]
    BY <1>26, <2>1, DraftType DEF GeneratorEdits, Files
  <2>4. QED
    BY <1>26, <2>2, <2>3 DEF GeneratorEdits, TypeOK, records, validation, shelf, history
<1>27. ASSUME NEW c \in Campaigns, TamperSource(c) PROVE TypeOK'
  BY <1>27 DEF TamperSource, TypeOK, progress, records, validation, shelf, history
<1>28. ASSUME NEW c \in Campaigns, StrayWrite(c) PROVE TypeOK'
  <2>1. at[c] \in Tasks
    BY <1>28, AtTask DEF StrayWrite, Trying
  <2>2. Walks'
    BY <1>28 DEF StrayWrite, TypeOK, progress
  <2>3. draft' \in [Campaigns -> [Tasks -> Files]]
    BY <1>28, <2>1, DraftType DEF StrayWrite, Files
  <2>4. QED
    BY <1>28, <2>2, <2>3 DEF StrayWrite, TypeOK, records, validation, shelf, history
<1>29. ASSUME NEW c \in Campaigns, Kill(c) PROVE TypeOK'
  <2>1. Walks'
    BY <1>29, GotoType DEF Kill, Trying
  <2>2. kills' \in 0 .. MaxKills
    BY <1>29 DEF Kill, TypeOK
  <2>3. Saved'
    BY <1>29 DEF Kill, TypeOK
  <2>4. QED
    BY <1>29, <2>1, <2>2, <2>3, DropType DEF Kill, TypeOK, history
<1>30. ASSUME NEW c \in Campaigns, Interrupt(c) PROVE TypeOK'
  <2>1. Walks'
    BY <1>30, GotoType DEF Interrupt, Trying
  <2>2. kills' \in 0 .. MaxKills
    BY <1>30 DEF Interrupt, TypeOK
  <2>3. Saved'
    BY <1>30 DEF Interrupt, TypeOK
  <2>4. QED
    BY <1>30, <2>1, <2>2, <2>3, DropType DEF Interrupt, TypeOK, history
<1>31. ASSUME NEW c \in Campaigns, NEW t \in Tasks, TimePasses(c, t) PROVE TypeOK'
  <2>1. \A r \in Record : Expired(r) \in Record /\ Expired(r).attempts = r.attempts
    BY DEF Expired, Record
  <2>2. Saved'
    BY <1>31, <2>1 DEF TimePasses, TypeOK
  <2>3. QED
    BY <1>31, <2>2 DEF TimePasses, TypeOK, progress, validation, shelf, history
<1>32. ASSUME NEW t \in Tasks, OutsideEdit(t) PROVE TypeOK'
  BY <1>32 DEF OutsideEdit, TypeOK, progress, records, validation, history
<1>33. CASE UNCHANGED vars
  BY <1>33 DEF TypeOK, vars, progress, records, validation, shelf, history
<1>34. QED
  BY <1>1, <1>2, <1>3, <1>4, <1>5, <1>6, <1>7, <1>8, <1>9, <1>10, <1>11, <1>12, <1>13,
     <1>14, <1>15, <1>16, <1>17, <1>18, <1>19, <1>20, <1>21, <1>22, <1>23, <1>24, <1>25,
     <1>26, <1>27, <1>28, <1>29, <1>30, <1>31, <1>32, <1>33
     DEF Next, Step

-----------------------------------------------------------------------------
(* A campaign and the others                                               *)

Same(d) ==
  /\ pc'[d] = pc[d] /\ at'[d] = at[d] /\ draft'[d] = draft[d]
  /\ evidence'[d] = evidence[d] /\ work'[d] = work[d] /\ staged'[d] = staged[d]
  /\ d \in stray' <=> d \in stray
  /\ d \in tampered' <=> d \in tampered

Grows == accepted \subseteq accepted' /\ touched \subseteq touched'

LockKept(d) == pc[d] \in {"locked", "rename"} => lock' = lock

ShelfKept(d) ==
  pc[d] \in {"rename", "record"} => output'[at[d]] = output[at[d]] \/ at[d] \in touched'

\* What a step of one campaign leaves to the others is enough for them.
LEMMA OthersKeep ==
  ASSUME NEW d \in Campaigns, Same(d), Grows, LockKept(d), ShelfKept(d),
         Validating(d), Installing(d)
  PROVE  Validating(d)' /\ Installing(d)'
<1>1. Validating(d)'
  BY DEF Same, Grows, Validating, DraftOf
<1>2. Installing(d)'
  BY DEF Same, Grows, LockKept, ShelfKept, Installing, Installs
<1>3. QED
  BY <1>1, <1>2

Quiet == {"down", "next", "emit", "write", "loop", "generate"}

LEMMA QuietSound ==
  ASSUME NEW c \in Campaigns, pc'[c] \in Quiet
  PROVE  Validating(c)' /\ Installing(c)'
BY DEF Quiet, Validating, Installing, Installs

\* The locals of a campaign are dropped, and with them at most its own lock.
LEMMA DropKeeps ==
  ASSUME TypeOK, Sound, NEW c \in Campaigns, Drop(c),
         NEW d \in Campaigns, d # c
  PROVE  /\ evidence'[d] = evidence[d] /\ work'[d] = work[d] /\ staged'[d] = staged[d]
         /\ LockKept(d)
BY DEF TypeOK, Sound, Installing, Drop, LockKept

LEMMA SoundStep == TypeOK /\ Sound /\ [Next]_vars => Sound'
<1> SUFFICES ASSUME TypeOK, Sound, [Next]_vars PROVE Sound'
  OBVIOUS
<1>a. ASSUME NEW c \in Campaigns, Grows, Validating(c)' /\ Installing(c)',
             \A d \in Campaigns \ {c} : Same(d) /\ LockKept(d) /\ ShelfKept(d)
      PROVE  Sound'
  BY <1>a, OthersKeep DEF Sound
<1>1. ASSUME NEW c \in Campaigns, SkipTask(c) PROVE Sound'
  <2>1. Grows /\ pc'[c] \in Quiet
    BY <1>1 DEF SkipTask, Grows, Goto, TypeOK, Quiet, progress, shelf, history
  <2>2. ASSUME NEW d \in Campaigns \ {c} PROVE Same(d) /\ LockKept(d) /\ ShelfKept(d)
    BY <1>1
       DEF SkipTask, Goto, SetDraft, TypeOK, Same, LockKept, ShelfKept, progress,
           validation, shelf
  <2>3. QED
    BY <2>1, <2>2, QuietSound, <1>a
<1>2. ASSUME NEW c \in Campaigns, EndCampaign(c) PROVE Sound'
  <2>1. Grows /\ pc'[c] \in Quiet
    BY <1>2 DEF EndCampaign, Grows, Goto, TypeOK, Quiet, progress, shelf, history
  <2>2. ASSUME NEW d \in Campaigns \ {c} PROVE Same(d) /\ LockKept(d) /\ ShelfKept(d)
    BY <1>2
       DEF EndCampaign, Goto, SetDraft, TypeOK, Same, LockKept, ShelfKept, progress,
           validation, shelf
  <2>3. QED
    BY <2>1, <2>2, QuietSound, <1>a
<1>3. ASSUME NEW c \in Campaigns, BeginTask(c) PROVE Sound'
  <2>1. Grows /\ pc'[c] \in Quiet
    BY <1>3 DEF BeginTask, Grows, Goto, TypeOK, Quiet, progress, shelf, history
  <2>2. ASSUME NEW d \in Campaigns \ {c} PROVE Same(d) /\ LockKept(d) /\ ShelfKept(d)
    BY <1>3
       DEF BeginTask, Goto, SetDraft, TypeOK, Same, LockKept, ShelfKept, progress,
           validation, shelf
  <2>3. QED
    BY <2>1, <2>2, QuietSound, <1>a
<1>4. ASSUME NEW c \in Campaigns, EmitDirectory(c) PROVE Sound'
  <2>1. Grows /\ pc'[c] \in Quiet
    BY <1>4 DEF EmitDirectory, Grows, Goto, TypeOK, Quiet, progress, shelf, history
  <2>2. ASSUME NEW d \in Campaigns \ {c} PROVE Same(d) /\ LockKept(d) /\ ShelfKept(d)
    BY <1>4
       DEF EmitDirectory, Goto, SetDraft, TypeOK, Same, LockKept, ShelfKept, progress,
           validation, shelf
  <2>3. QED
    BY <2>1, <2>2, QuietSound, <1>a
<1>5. ASSUME NEW c \in Campaigns, EmitFiles(c) PROVE Sound'
  <2>1. Grows /\ pc'[c] \in Quiet
    BY <1>5 DEF EmitFiles, Grows, Goto, TypeOK, Quiet, progress, shelf, history
  <2>2. ASSUME NEW d \in Campaigns \ {c} PROVE Same(d) /\ LockKept(d) /\ ShelfKept(d)
    BY <1>5
       DEF EmitFiles, Goto, SetDraft, TypeOK, Same, LockKept, ShelfKept, progress,
           validation, shelf
  <2>3. QED
    BY <2>1, <2>2, QuietSound, <1>a
<1>6. ASSUME NEW c \in Campaigns, Attempt(c) PROVE Sound'
  <2>1. Grows /\ pc'[c] \in Quiet
    BY <1>6 DEF Attempt, Grows, Goto, TypeOK, Quiet, progress, shelf, history
  <2>2. ASSUME NEW d \in Campaigns \ {c} PROVE Same(d) /\ LockKept(d) /\ ShelfKept(d)
    BY <1>6
       DEF Attempt, Goto, SetDraft, TypeOK, Same, LockKept, ShelfKept, progress,
           validation, shelf
  <2>3. QED
    BY <2>1, <2>2, QuietSound, <1>a
<1>7. ASSUME NEW c \in Campaigns, GiveUp(c) PROVE Sound'
  <2>1. Drop(c) /\ Grows /\ pc'[c] \in Quiet
    BY <1>7 DEF GiveUp, Fail, Grows, Goto, NextTask, TypeOK, Quiet, history
  <2>2. ASSUME NEW d \in Campaigns \ {c} PROVE Same(d) /\ LockKept(d) /\ ShelfKept(d)
    BY <1>7, <2>1, DropKeeps
       DEF GiveUp, Fail, Goto, NextTask, TypeOK, Same, ShelfKept
  <2>3. QED
    BY <2>1, <2>2, QuietSound, <1>a
<1>8. ASSUME NEW c \in Campaigns, SourceChanged(c) PROVE Sound'
  <2>1. Drop(c) /\ Grows /\ pc'[c] \in Quiet
    BY <1>8 DEF SourceChanged, Fail, Grows, Goto, NextTask, TypeOK, Quiet, history
  <2>2. ASSUME NEW d \in Campaigns \ {c} PROVE Same(d) /\ LockKept(d) /\ ShelfKept(d)
    BY <1>8, <2>1, DropKeeps
       DEF SourceChanged, Fail, Goto, NextTask, TypeOK, Same, ShelfKept
  <2>3. QED
    BY <2>1, <2>2, QuietSound, <1>a
<1>9. ASSUME NEW c \in Campaigns, CheckContract(c) PROVE Sound'
  <2>1. Grows
    BY <1>9 DEF CheckContract, Grows, shelf, history
  <2>2. ASSUME NEW d \in Campaigns \ {c} PROVE Same(d) /\ LockKept(d) /\ ShelfKept(d)
    BY <1>9
       DEF CheckContract, Goto, SetDraft, TypeOK, Same, LockKept, ShelfKept, progress,
           validation, shelf
  <2>3. CASE pc'[c] \in Quiet
    BY <2>1, <2>2, <2>3, QuietSound, <1>a
  <2>4. CASE pc'[c] = "snapshot"
    <3>1. Validating(c)' /\ Installing(c)'
      BY <1>9, <2>4
         DEF CheckContract, Goto, TypeOK, Sound, Validating, Installing, Installs,
             DraftOf, validation, history
    <3>2. QED
      BY <2>1, <2>2, <3>1, <1>a
  <2>5. QED
    BY <1>9, <2>3, <2>4 DEF CheckContract, Goto, TypeOK, Quiet
<1>10. ASSUME NEW c \in Campaigns, ReadDigest(c) PROVE Sound'
  <2>1. Grows
    BY <1>10 DEF ReadDigest, Grows, shelf, history
  <2>2. ASSUME NEW d \in Campaigns \ {c} PROVE Same(d) /\ LockKept(d) /\ ShelfKept(d)
    BY <1>10
       DEF ReadDigest, Goto, SetDraft, TypeOK, Same, LockKept, ShelfKept, progress,
           validation, shelf
  <2>3. Validating(c)' /\ Installing(c)'
    BY <1>10
       DEF ReadDigest, Goto, SetDraft, TypeOK, Sound, Validating, Installing, Installs,
           DraftOf,
       Trying, progress, validation, shelf, history
  <2>4. QED
    BY <2>1, <2>2, <2>3, <1>a
<1>11. ASSUME NEW c \in Campaigns, CopyTaskFiles(c) PROVE Sound'
  <2>1. Grows
    BY <1>11 DEF CopyTaskFiles, Grows, shelf, history
  <2>2. ASSUME NEW d \in Campaigns \ {c} PROVE Same(d) /\ LockKept(d) /\ ShelfKept(d)
    BY <1>11
       DEF CopyTaskFiles, Goto, SetDraft, TypeOK, Same, LockKept, ShelfKept, progress,
           validation, shelf
  <2>3. Validating(c)' /\ Installing(c)'
    BY <1>11
       DEF CopyTaskFiles, Goto, SetDraft, TypeOK, Sound, Validating, Installing, Installs,
           DraftOf,
       Trying, progress, validation, shelf, history
  <2>4. QED
    BY <2>1, <2>2, <2>3, <1>a
<1>12. ASSUME NEW c \in Campaigns, ValidatorReturns(c) PROVE Sound'
  <2>1. Grows
    BY <1>12 DEF ValidatorReturns, Grows, shelf, history
  <2>2. ASSUME NEW d \in Campaigns \ {c} PROVE Same(d) /\ LockKept(d) /\ ShelfKept(d)
    BY <1>12
       DEF ValidatorReturns, Goto, SetDraft, TypeOK, Same, LockKept, ShelfKept, progress,
           validation, shelf
  <2>3. Validating(c)' /\ Installing(c)'
    BY <1>12
       DEF ValidatorReturns, Goto, SetDraft, TypeOK, Sound, Validating, Installing,
           Installs, DraftOf,
       Trying, progress, validation, shelf, history
  <2>4. QED
    BY <2>1, <2>2, <2>3, <1>a
<1>13. ASSUME NEW c \in Campaigns, Recheck(c) PROVE Sound'
  <2>1. Grows
    BY <1>13 DEF Recheck, Grows, shelf, history
  <2>2. ASSUME NEW d \in Campaigns \ {c} PROVE Same(d) /\ LockKept(d) /\ ShelfKept(d)
    BY <1>13
       DEF Recheck, Goto, SetDraft, TypeOK, Same, LockKept, ShelfKept, progress,
           validation, shelf
  <2>3. CASE pc'[c] \in Quiet
    BY <2>1, <2>2, <2>3, QuietSound, <1>a
  <2>4. CASE pc'[c] = "install"
    <3>1. Validating(c)' /\ Installing(c)'
      BY <1>13, <2>4
         DEF Recheck, Goto, TypeOK, Sound, Validating, Installing, Installs, DraftOf,
             validation, history
    <3>2. QED
      BY <2>1, <2>2, <3>1, <1>a
  <2>5. QED
    BY <1>13, <2>3, <2>4 DEF Recheck, Goto, TypeOK, Quiet
<1>14. ASSUME NEW c \in Campaigns, Stale(c) PROVE Sound'
  <2>1. Drop(c) /\ Grows /\ pc'[c] \in Quiet
    BY <1>14 DEF Stale, Fail, Grows, Goto, NextTask, TypeOK, Quiet, history
  <2>2. ASSUME NEW d \in Campaigns \ {c} PROVE Same(d) /\ LockKept(d) /\ ShelfKept(d)
    BY <1>14, <2>1, DropKeeps
       DEF Stale, Fail, Goto, NextTask, TypeOK, Same, ShelfKept
  <2>3. QED
    BY <2>1, <2>2, QuietSound, <1>a
<1>15. ASSUME NEW c \in Campaigns, AlreadyInstalled(c) PROVE Sound'
  <2>1. Grows
    BY <1>15 DEF AlreadyInstalled, Grows, shelf, history
  <2>2. ASSUME NEW d \in Campaigns \ {c} PROVE Same(d) /\ LockKept(d) /\ ShelfKept(d)
    BY <1>15
       DEF AlreadyInstalled, Goto, SetDraft, TypeOK, Same, LockKept, ShelfKept, progress,
           validation, shelf
  <2>3. Validating(c)' /\ Installing(c)'
    BY <1>15
       DEF AlreadyInstalled, Goto, SetDraft, TypeOK, Sound, Validating, Installing,
           Installs, DraftOf,
       Trying, progress, validation, shelf, history
  <2>4. QED
    BY <2>1, <2>2, <2>3, <1>a
<1>16. ASSUME NEW c \in Campaigns, Conflict(c) PROVE Sound'
  <2>1. Drop(c) /\ Grows /\ pc'[c] \in Quiet
    BY <1>16 DEF Conflict, Fail, Grows, Goto, NextTask, TypeOK, Quiet, history
  <2>2. ASSUME NEW d \in Campaigns \ {c} PROVE Same(d) /\ LockKept(d) /\ ShelfKept(d)
    BY <1>16, <2>1, DropKeeps
       DEF Conflict, Fail, Goto, NextTask, TypeOK, Same, ShelfKept
  <2>3. QED
    BY <2>1, <2>2, QuietSound, <1>a
<1>17. ASSUME NEW c \in Campaigns, MakeTemporary(c) PROVE Sound'
  <2>1. Grows
    BY <1>17 DEF MakeTemporary, Grows, shelf, history
  <2>2. ASSUME NEW d \in Campaigns \ {c} PROVE Same(d) /\ LockKept(d) /\ ShelfKept(d)
    BY <1>17
       DEF MakeTemporary, Goto, SetDraft, TypeOK, Same, LockKept, ShelfKept, progress,
           validation, shelf
  <2>3. Validating(c)' /\ Installing(c)'
    BY <1>17
       DEF MakeTemporary, Goto, SetDraft, TypeOK, Sound, Validating, Installing, Installs,
           DraftOf,
       Trying, progress, validation, shelf, history
  <2>4. QED
    BY <2>1, <2>2, <2>3, <1>a
<1>18. ASSUME NEW c \in Campaigns, CopyDraft(c) PROVE Sound'
  <2>1. Grows
    BY <1>18 DEF CopyDraft, Grows, shelf, history
  <2>2. ASSUME NEW d \in Campaigns \ {c} PROVE Same(d) /\ LockKept(d) /\ ShelfKept(d)
    BY <1>18
       DEF CopyDraft, Goto, SetDraft, TypeOK, Same, LockKept, ShelfKept, progress,
           validation, shelf
  <2>3. Validating(c)' /\ Installing(c)'
    BY <1>18
       DEF CopyDraft, Goto, SetDraft, TypeOK, Sound, Validating, Installing, Installs,
           DraftOf,
       Trying, progress, validation, shelf, history
  <2>4. QED
    BY <2>1, <2>2, <2>3, <1>a
<1>19. ASSUME NEW c \in Campaigns, CompareCopy(c) PROVE Sound'
  <2>1. Grows
    BY <1>19 DEF CompareCopy, Grows, shelf, history
  <2>2. ASSUME NEW d \in Campaigns \ {c} PROVE Same(d) /\ LockKept(d) /\ ShelfKept(d)
    BY <1>19
       DEF CompareCopy, Goto, SetDraft, TypeOK, Same, LockKept, ShelfKept, progress,
           validation, shelf
  <2>3. Validating(c)' /\ Installing(c)'
    BY <1>19
       DEF CompareCopy, Goto, SetDraft, TypeOK, Sound, Validating, Installing, Installs,
           DraftOf,
       Trying, progress, validation, shelf, history
  <2>4. QED
    BY <2>1, <2>2, <2>3, <1>a
<1>20. ASSUME NEW c \in Campaigns, TakeLock(c) PROVE Sound'
  <2>1. Grows
    BY <1>20 DEF TakeLock, Grows, shelf, history
  <2>2. ASSUME NEW d \in Campaigns \ {c} PROVE Same(d) /\ LockKept(d) /\ ShelfKept(d)
    BY <1>20
       DEF TakeLock, Goto, SetDraft, TypeOK, Same, LockKept, ShelfKept, progress,
           validation, shelf, Sound, Installing
  <2>3. Validating(c)' /\ Installing(c)'
    BY <1>20
       DEF TakeLock, Goto, SetDraft, TypeOK, Sound, Validating, Installing, Installs,
           DraftOf,
       Trying, progress, validation, shelf, history
  <2>4. QED
    BY <2>1, <2>2, <2>3, <1>a
<1>21. ASSUME NEW c \in Campaigns, TestDestination(c) PROVE Sound'
  <2>1. Grows
    BY <1>21 DEF TestDestination, Grows, shelf, history
  <2>2. ASSUME NEW d \in Campaigns \ {c} PROVE Same(d) /\ LockKept(d) /\ ShelfKept(d)
    BY <1>21
       DEF TestDestination, Goto, SetDraft, TypeOK, Same, LockKept, ShelfKept, progress,
           validation, shelf
  <2>3. Validating(c)' /\ Installing(c)'
    BY <1>21
       DEF TestDestination, Goto, SetDraft, TypeOK, Sound, Validating, Installing,
           Installs, DraftOf,
       Trying, progress, validation, shelf, history
  <2>4. QED
    BY <2>1, <2>2, <2>3, <1>a
<1>22. ASSUME NEW c \in Campaigns, Rename(c) PROVE Sound'
  <2>1. Grows
    BY <1>22 DEF Rename, Grows, shelf, history
  <2>2. ASSUME NEW d \in Campaigns \ {c} PROVE Same(d) /\ LockKept(d) /\ ShelfKept(d)
    <3>1. lock = c /\ pc[d] \notin {"locked", "rename"}
      BY <1>22 DEF Rename, Sound, Installing
    <3>2. Same(d) /\ LockKept(d)
      BY <1>22, <3>1 DEF Rename, Goto, TypeOK, Same, LockKept, validation
    <3>3. CASE pc[d] = "record"
      <4>1. output[at[d]] \in Contents \/ at[d] \in touched
        BY <3>3 DEF Sound, Installing, Installs
      <4>2. at[d] # at[c] \/ at[d] \in touched
        BY <1>22, <4>1 DEF Rename
      <4>3. /\ output' = [output EXCEPT ![at[c]] = staged[c]] /\ touched' = touched
            /\ at[d] \in Tasks /\ output \in [Tasks -> Files]
        BY <1>22, <3>3, AtTask DEF Rename, TypeOK, Trying
      <4>4. at[d] # at[c] => output'[at[d]] = output[at[d]]
        BY <4>3
      <4>5. QED
        BY <3>2, <4>2, <4>3, <4>4 DEF ShelfKept
    <3>4. QED
      BY <3>1, <3>2, <3>3 DEF ShelfKept
  <2>3. Validating(c)' /\ Installing(c)'
    BY <1>22
       DEF Rename, Goto, SetDraft, TypeOK, Sound, Validating, Installing, Installs,
           DraftOf,
       Trying, progress, validation, shelf, history
  <2>4. QED
    BY <2>1, <2>2, <2>3, <1>a
<1>23. ASSUME NEW c \in Campaigns, RecordInstalled(c) PROVE Sound'
  <2>1. Drop(c) /\ Grows /\ pc'[c] \in Quiet
    BY <1>23 DEF RecordInstalled, Grows, Goto, NextTask, TypeOK, Quiet, history
  <2>2. ASSUME NEW d \in Campaigns \ {c} PROVE Same(d) /\ LockKept(d) /\ ShelfKept(d)
    BY <1>23, <2>1, DropKeeps
       DEF RecordInstalled, Goto, NextTask, TypeOK, Same, ShelfKept
  <2>3. QED
    BY <2>1, <2>2, QuietSound, <1>a
<1>24. ASSUME NEW c \in Campaigns, Start(c) PROVE Sound'
  <2>1. Grows /\ pc'[c] \in Quiet
    BY <1>24 DEF Start, Grows, Goto, TypeOK, Quiet, progress, shelf, history
  <2>2. ASSUME NEW d \in Campaigns \ {c} PROVE Same(d) /\ LockKept(d) /\ ShelfKept(d)
    BY <1>24
       DEF Start, Goto, SetDraft, TypeOK, Same, LockKept, ShelfKept, progress, validation,
           shelf
  <2>3. QED
    BY <2>1, <2>2, QuietSound, <1>a
<1>25. ASSUME NEW c \in Campaigns, Raise(c) PROVE Sound'
  <2>1. Drop(c) /\ Grows /\ pc'[c] \in Quiet
    BY <1>25 DEF Raise, Fail, Grows, Goto, NextTask, TypeOK, Quiet, history
  <2>2. ASSUME NEW d \in Campaigns \ {c} PROVE Same(d) /\ LockKept(d) /\ ShelfKept(d)
    BY <1>25, <2>1, DropKeeps
       DEF Raise, Fail, Goto, NextTask, TypeOK, Same, ShelfKept
  <2>3. QED
    BY <2>1, <2>2, QuietSound, <1>a
<1>26. ASSUME NEW c \in Campaigns, GeneratorEdits(c) PROVE Sound'
  <2>1. Grows /\ pc'[c] \in Quiet
    BY <1>26 DEF GeneratorEdits, Grows, Goto, TypeOK, Quiet, progress, shelf, history
  <2>2. ASSUME NEW d \in Campaigns \ {c} PROVE Same(d) /\ LockKept(d) /\ ShelfKept(d)
    BY <1>26
       DEF GeneratorEdits, Goto, SetDraft, TypeOK, Same, LockKept, ShelfKept, progress,
           validation, shelf
  <2>3. QED
    BY <2>1, <2>2, QuietSound, <1>a
<1>27. ASSUME NEW c \in Campaigns, TamperSource(c) PROVE Sound'
  <2>1. Grows
    BY <1>27 DEF TamperSource, Grows, shelf, history
  <2>2. ASSUME NEW d \in Campaigns \ {c} PROVE Same(d) /\ LockKept(d) /\ ShelfKept(d)
    BY <1>27
       DEF TamperSource, Goto, SetDraft, TypeOK, Same, LockKept, ShelfKept, progress,
           validation, shelf
  <2>3. Validating(c)' /\ Installing(c)'
    BY <1>27
       DEF TamperSource, Goto, SetDraft, TypeOK, Sound, Validating, Installing, Installs,
           DraftOf,
       Trying, progress, validation, shelf, history
  <2>4. QED
    BY <2>1, <2>2, <2>3, <1>a
<1>28. ASSUME NEW c \in Campaigns, StrayWrite(c) PROVE Sound'
  <2>1. Grows
    BY <1>28 DEF StrayWrite, Grows, shelf, history
  <2>2. ASSUME NEW d \in Campaigns \ {c} PROVE Same(d) /\ LockKept(d) /\ ShelfKept(d)
    BY <1>28
       DEF StrayWrite, Goto, SetDraft, TypeOK, Same, LockKept, ShelfKept, progress,
           validation, shelf
  <2>3. Validating(c)' /\ Installing(c)'
    BY <1>28
       DEF StrayWrite, Goto, SetDraft, TypeOK, Sound, Validating, Installing, Installs,
           DraftOf,
       Trying, progress, validation, shelf, history
  <2>4. QED
    BY <2>1, <2>2, <2>3, <1>a
<1>29. ASSUME NEW c \in Campaigns, Kill(c) PROVE Sound'
  <2>1. Drop(c) /\ Grows /\ pc'[c] \in Quiet
    BY <1>29 DEF Kill, Grows, Goto, NextTask, TypeOK, Quiet, history
  <2>2. ASSUME NEW d \in Campaigns \ {c} PROVE Same(d) /\ LockKept(d) /\ ShelfKept(d)
    BY <1>29, <2>1, DropKeeps
       DEF Kill, Goto, NextTask, TypeOK, Same, ShelfKept
  <2>3. QED
    BY <2>1, <2>2, QuietSound, <1>a
<1>30. ASSUME NEW c \in Campaigns, Interrupt(c) PROVE Sound'
  <2>1. Drop(c) /\ Grows /\ pc'[c] \in Quiet
    BY <1>30 DEF Interrupt, Grows, Goto, NextTask, TypeOK, Quiet, history
  <2>2. ASSUME NEW d \in Campaigns \ {c} PROVE Same(d) /\ LockKept(d) /\ ShelfKept(d)
    BY <1>30, <2>1, DropKeeps
       DEF Interrupt, Goto, NextTask, TypeOK, Same, ShelfKept
  <2>3. QED
    BY <2>1, <2>2, QuietSound, <1>a
<1>31. ASSUME NEW c \in Campaigns, NEW t \in Tasks, TimePasses(c, t) PROVE Sound'
  BY <1>31, OthersKeep
     DEF TimePasses, Sound, Same, Grows, LockKept, ShelfKept, progress, validation, shelf,
         history
<1>32. ASSUME NEW t \in Tasks, OutsideEdit(t) PROVE Sound'
  <2>1. Grows
    BY <1>32 DEF OutsideEdit, Grows, history
  <2>2. ASSUME NEW d \in Campaigns PROVE Same(d) /\ LockKept(d) /\ ShelfKept(d)
    BY <1>32 DEF OutsideEdit, TypeOK, Same, LockKept, ShelfKept, progress, validation
  <2>3. QED
    BY <2>1, <2>2, OthersKeep DEF Sound
<1>33. CASE UNCHANGED vars
  BY <1>33, OthersKeep
     DEF vars, Sound, Same, Grows, LockKept, ShelfKept, progress, validation, shelf,
         history
<1>34. QED
  BY <1>1, <1>2, <1>3, <1>4, <1>5, <1>6, <1>7, <1>8, <1>9, <1>10, <1>11, <1>12, <1>13,
     <1>14, <1>15, <1>16, <1>17, <1>18, <1>19, <1>20, <1>21, <1>22, <1>23, <1>24, <1>25,
     <1>26, <1>27, <1>28, <1>29, <1>30, <1>31, <1>32, <1>33
     DEF Next, Step

-----------------------------------------------------------------------------
(* What is written down                                                    *)

Books == Mirror /\ RecordIsTrue /\ BudgetSurvives

\* Tasks keep their place in the output directory, unless somebody interferes.
ShelfGrows ==
  \A t \in Tasks : output[t] # Absent => output'[t] = output[t] \/ t \in touched'

LEMMA BooksSame ==
  ASSUME Books, Grows, ShelfGrows, UNCHANGED <<rec, disk, calls>>
  PROVE  Books'
BY DEF Books, Mirror, RecordIsTrue, BudgetSurvives, Grows, ShelfGrows

\* A save of a record that counts the calls, keeps its deadline and is true.
LEMMA BooksSave ==
  ASSUME TypeOK, TypeOK', Books, Grows, ShelfGrows,
         NEW c \in Campaigns, at[c] \in Tasks, NEW r \in Record, Save(c, r),
         \A d \in Campaigns, t \in Tasks :
           d # c \/ t # at[c] => calls'[d][t] = calls[d][t],
         calls'[c][at[c]] <= r.attempts, calls'[c][at[c]] <= MaxRepairs[c] + 1,
         calls'[c][at[c]] > 0 => r.deadline # "unset",
         r.state = "installed" =>
           /\ r.digest # Absent /\ <<c, at[c], r.digest>> \in accepted'
           /\ output'[at[c]] = r.digest \/ at[c] \in touched'
  PROVE  Books'
<1>1. \A d \in Campaigns, t \in Tasks :
        IF d = c THEN /\ rec'[d][t] = disk'[d][t]
                      /\ rec'[d][t] = IF t = at[c] THEN r ELSE rec[d][t]
                 ELSE rec'[d] = rec[d] /\ disk'[d] = disk[d]
  <2>1. /\ rec' = [rec EXCEPT ![c] = [rec[c] EXCEPT ![at[c]] = r]]
        /\ disk' = [disk EXCEPT ![c] = rec'[c]]
    BY DEF Save
  <2>2. /\ rec \in [Campaigns -> [Tasks -> Record]] /\ disk \in [Campaigns -> [Tasks -> Record]]
    BY DEF TypeOK
  <2>3. /\ rec'[c] = [rec[c] EXCEPT ![at[c]] = r] /\ disk'[c] = rec'[c]
        /\ \A d \in Campaigns \ {c} : rec'[d] = rec[d] /\ disk'[d] = disk[d]
    BY <2>1, <2>2
  <2>4. \A t \in Tasks : rec'[c][t] = IF t = at[c] THEN r ELSE rec[c][t]
    BY <2>2, <2>3
  <2>5. QED
    BY <2>3, <2>4
<1>2. Mirror'
  BY <1>1 DEF Books, Mirror
<1>3. RecordIsTrue'
  BY <1>1 DEF Books, Mirror, RecordIsTrue, Grows, ShelfGrows
<1>4. BudgetSurvives'
  <2> SUFFICES ASSUME NEW d \in Campaigns, NEW t \in Tasks
               PROVE  /\ calls'[d][t] <= disk'[d][t].attempts
                      /\ calls'[d][t] <= MaxRepairs[d] + 1
                      /\ calls'[d][t] > 0 => disk'[d][t].deadline # "unset"
    BY DEF BudgetSurvives
  <2>1. CASE d = c /\ t = at[c]
    BY <1>1, <2>1
  <2>2. CASE d = c /\ t # at[c]
    BY <1>1, <2>2 DEF Books, Mirror, BudgetSurvives
  <2>3. CASE d # c
    BY <1>1, <2>3 DEF Books, BudgetSurvives
  <2>4. QED
    BY <2>1, <2>2, <2>3
<1>5. QED
  BY <1>2, <1>3, <1>4 DEF Books

\* A save of the current record, with another verdict or as it is.
LEMMA BooksKept ==
  ASSUME TypeOK, TypeOK', Books, Grows, ShelfGrows,
         NEW c \in Campaigns, at[c] \in Tasks, NEW r \in Record, Save(c, r),
         UNCHANGED calls, r.attempts = Current(c).attempts,
         r.deadline = Current(c).deadline, r.digest = Current(c).digest,
         r.state \in {Current(c).state, "failed"}
  PROVE  Books'
<1>1. /\ calls'[c][at[c]] <= r.attempts /\ calls'[c][at[c]] <= MaxRepairs[c] + 1
      /\ calls'[c][at[c]] > 0 => r.deadline # "unset"
  BY DEF Books, Mirror, BudgetSurvives, Current
<1>2. r.state = "installed" =>
        /\ r.digest # Absent /\ <<c, at[c], r.digest>> \in accepted'
        /\ output'[at[c]] = r.digest \/ at[c] \in touched'
  BY DEF Books, Mirror, RecordIsTrue, Current, Grows, ShelfGrows
<1>3. QED
  BY <1>1, <1>2, BooksSave

LEMMA FailBooks ==
  ASSUME TypeOK, TypeOK', Books, NEW c \in Campaigns, at[c] \in Tasks, Fail(c)
  PROVE  Books'
<1> DEFINE r == [Current(c) EXCEPT !.state = "failed"]
<1>1. Current(c) \in Record
  BY CurrentType
<1>2. /\ r \in Record /\ r.state = "failed" /\ r.attempts = Current(c).attempts
      /\ r.deadline = Current(c).deadline /\ r.digest = Current(c).digest
  BY <1>1 DEF Record
<1>3. Save(c, r) /\ Grows /\ ShelfGrows /\ UNCHANGED calls
  BY DEF Fail, Grows, ShelfGrows, history
<1> HIDE DEF r
<1>4. QED
  BY <1>2, <1>3, BooksKept

LEMMA BooksStep == TypeOK /\ TypeOK' /\ Sound /\ Books /\ [Next]_vars => Books'
<1> SUFFICES ASSUME TypeOK, TypeOK', Sound, Books, [Next]_vars PROVE Books'
  OBVIOUS
<1>1. ASSUME NEW c \in Campaigns, SkipTask(c) PROVE Books'
  BY <1>1, BooksSame DEF SkipTask, Grows, ShelfGrows, records, shelf, history
<1>2. ASSUME NEW c \in Campaigns, EndCampaign(c) PROVE Books'
  BY <1>2, BooksSame DEF EndCampaign, Grows, ShelfGrows, records, shelf, history
<1>3. ASSUME NEW c \in Campaigns, BeginTask(c) PROVE Books'
  <2>1. Grows /\ ShelfGrows /\ UNCHANGED <<disk, calls>>
    BY <1>3 DEF BeginTask, Grows, ShelfGrows, shelf, history
  <2>2. /\ at[c] \in Tasks /\ Current(c) \in Record
        /\ rec' = [rec EXCEPT ![c] = [rec[c] EXCEPT ![at[c]] =
             [Current(c) EXCEPT !.deadline = IF @ = "unset" THEN "ahead" ELSE @]]]
    BY <1>3, CurrentType DEF BeginTask
  <2>3. \A d \in Campaigns, t \in Tasks :
          /\ rec'[d][t].state = rec[d][t].state /\ rec'[d][t].digest = rec[d][t].digest
          /\ rec'[d][t].attempts = rec[d][t].attempts
          /\ rec[d][t].deadline # "unset" => rec'[d][t].deadline # "unset"
    BY <2>2 DEF TypeOK, Record, Current
  <2>4. QED
    BY <2>1, <2>3 DEF Books, Mirror, RecordIsTrue, BudgetSurvives, Grows, ShelfGrows
<1>4. ASSUME NEW c \in Campaigns, EmitDirectory(c) PROVE Books'
  BY <1>4, BooksSame DEF EmitDirectory, Grows, ShelfGrows, records, shelf, history
<1>5. ASSUME NEW c \in Campaigns, EmitFiles(c) PROVE Books'
  BY <1>5, BooksSame DEF EmitFiles, Grows, ShelfGrows, records, shelf, history
<1>6. ASSUME NEW c \in Campaigns, Attempt(c) PROVE Books'
  <2> DEFINE r == [Current(c) EXCEPT !.attempts = @ + 1]
  <2>1. at[c] \in Tasks /\ Current(c) \in Record
    BY <1>6, AtTask, CurrentType DEF Attempt, Trying
  <2>2. Current(c).attempts <= MaxRepairs[c] /\ Current(c).deadline = "ahead"
    BY <1>6 DEF Attempt, MayTry
  <2>3. /\ r \in Record /\ r.attempts = Current(c).attempts + 1
        /\ r.deadline = "ahead" /\ r.state = Current(c).state /\ r.digest = Current(c).digest
    BY <2>1, <2>2 DEF Record
  <2>4. Save(c, r) /\ Grows /\ ShelfGrows /\ UNCHANGED <<output, touched, accepted>>
    BY <1>6 DEF Attempt, Grows, ShelfGrows, shelf
  <2> HIDE DEF r
  <2>5. \A d \in Campaigns, t \in Tasks :
          calls'[d][t] = IF d = c /\ t = at[c] THEN calls[d][t] + 1 ELSE calls[d][t]
    BY <1>6 DEF Attempt, TypeOK
  <2>6. /\ calls[c][at[c]] <= Current(c).attempts /\ calls[c][at[c]] \in Nat
        /\ Current(c).attempts \in Nat
    BY <2>1 DEF Books, Mirror, BudgetSurvives, Current, TypeOK, Record
  <2>7. calls'[c][at[c]] <= r.attempts /\ calls'[c][at[c]] <= MaxRepairs[c] + 1
    BY <2>1, <2>2, <2>3, <2>5, <2>6
  <2>8. r.state = "installed" =>
          /\ r.digest # Absent /\ <<c, at[c], r.digest>> \in accepted'
          /\ output'[at[c]] = r.digest \/ at[c] \in touched'
    <3>1. Current(c).state = "installed" =>
            /\ Current(c).digest # Absent /\ <<c, at[c], Current(c).digest>> \in accepted
            /\ output[at[c]] = Current(c).digest \/ at[c] \in touched
      BY <2>1 DEF Books, Mirror, RecordIsTrue, Current
    <3>2. QED
      BY <2>3, <2>4, <3>1
  <2>9. QED
    BY <2>1, <2>3, <2>4, <2>5, <2>7, <2>8, BooksSave
<1>7. ASSUME NEW c \in Campaigns, GiveUp(c) PROVE Books'
  BY <1>7, AtTask, FailBooks DEF GiveUp, Trying
<1>8. ASSUME NEW c \in Campaigns, SourceChanged(c) PROVE Books'
  BY <1>8, AtTask, FailBooks DEF SourceChanged, Trying
<1>9. ASSUME NEW c \in Campaigns, CheckContract(c) PROVE Books'
  <2>1. at[c] \in Tasks /\ Current(c) \in Record
    BY <1>9, AtTask, CurrentType DEF CheckContract, Trying
  <2>2. Grows /\ ShelfGrows /\ UNCHANGED calls
    BY <1>9 DEF CheckContract, Grows, ShelfGrows, shelf, history
  <2>3. CASE Save(c, Current(c))
    BY <2>1, <2>2, <2>3, BooksKept
  <2>4. QED
    BY <1>9, <2>3 DEF CheckContract
<1>10. ASSUME NEW c \in Campaigns, ReadDigest(c) PROVE Books'
  BY <1>10, BooksSame DEF ReadDigest, Grows, ShelfGrows, records, shelf, history
<1>11. ASSUME NEW c \in Campaigns, CopyTaskFiles(c) PROVE Books'
  BY <1>11, BooksSame DEF CopyTaskFiles, Grows, ShelfGrows, records, shelf, history
<1>12. ASSUME NEW c \in Campaigns, ValidatorReturns(c) PROVE Books'
  BY <1>12, BooksSame DEF ValidatorReturns, Grows, ShelfGrows, records, shelf, history
<1>13. ASSUME NEW c \in Campaigns, Recheck(c) PROVE Books'
  <2>1. at[c] \in Tasks /\ Current(c) \in Record
    BY <1>13, AtTask, CurrentType DEF Recheck, Trying
  <2>2. Grows /\ ShelfGrows /\ UNCHANGED calls
    BY <1>13 DEF Recheck, Grows, ShelfGrows, shelf, history
  <2>3. CASE Save(c, Current(c))
    BY <2>1, <2>2, <2>3, BooksKept
  <2>4. CASE UNCHANGED records
    BY <2>2, <2>4, BooksSame DEF records
  <2>5. QED
    BY <1>13, <2>3, <2>4 DEF Recheck
<1>14. ASSUME NEW c \in Campaigns, Stale(c) PROVE Books'
  BY <1>14, AtTask, FailBooks DEF Stale, Trying
<1>15. ASSUME NEW c \in Campaigns, AlreadyInstalled(c) PROVE Books'
  BY <1>15, BooksSame DEF AlreadyInstalled, Grows, ShelfGrows, records, shelf, history
<1>16. ASSUME NEW c \in Campaigns, Conflict(c) PROVE Books'
  BY <1>16, AtTask, FailBooks DEF Conflict, Trying
<1>17. ASSUME NEW c \in Campaigns, MakeTemporary(c) PROVE Books'
  BY <1>17, BooksSame DEF MakeTemporary, Grows, ShelfGrows, records, shelf, history
<1>18. ASSUME NEW c \in Campaigns, CopyDraft(c) PROVE Books'
  BY <1>18, BooksSame DEF CopyDraft, Grows, ShelfGrows, records, shelf, history
<1>19. ASSUME NEW c \in Campaigns, CompareCopy(c) PROVE Books'
  BY <1>19, BooksSame DEF CompareCopy, Grows, ShelfGrows, records, shelf, history
<1>20. ASSUME NEW c \in Campaigns, TakeLock(c) PROVE Books'
  BY <1>20, BooksSame DEF TakeLock, Grows, ShelfGrows, records, shelf, history
<1>21. ASSUME NEW c \in Campaigns, TestDestination(c) PROVE Books'
  BY <1>21, BooksSame DEF TestDestination, Grows, ShelfGrows, records, shelf, history
<1>22. ASSUME NEW c \in Campaigns, Rename(c) PROVE Books'
  <2>1. Grows /\ ShelfGrows /\ UNCHANGED <<rec, disk, calls>>
    BY <1>22 DEF Rename, Grows, ShelfGrows, TypeOK, records
  <2>2. QED
    BY <2>1, BooksSame
<1>23. ASSUME NEW c \in Campaigns, RecordInstalled(c) PROVE Books'
  <2> DEFINE r == [Current(c) EXCEPT !.state = "installed", !.digest = evidence[c].digest]
  <2>1. at[c] \in Tasks /\ Current(c) \in Record /\ evidence[c].digest \in Files
    BY <1>23, AtTask, CurrentType DEF RecordInstalled, Trying, TypeOK
  <2>2. /\ r \in Record /\ r.attempts = Current(c).attempts
        /\ r.deadline = Current(c).deadline /\ r.digest = evidence[c].digest
    BY <2>1 DEF Record
  <2>3. Save(c, r) /\ Grows /\ ShelfGrows /\ UNCHANGED <<calls, output, touched, accepted>>
    BY <1>23 DEF RecordInstalled, Grows, ShelfGrows, history
  <2> HIDE DEF r
  <2>4. /\ r.digest # Absent /\ <<c, at[c], r.digest>> \in accepted'
        /\ output'[at[c]] = r.digest \/ at[c] \in touched'
    BY <1>23, <2>2, <2>3 DEF RecordInstalled, Sound, Installing, Installs
  <2>5. /\ calls'[c][at[c]] <= r.attempts /\ calls'[c][at[c]] <= MaxRepairs[c] + 1
        /\ calls'[c][at[c]] > 0 => r.deadline # "unset"
    BY <2>1, <2>2, <2>3 DEF Books, Mirror, BudgetSurvives, Current
  <2>6. QED
    BY <2>1, <2>2, <2>3, <2>4, <2>5, BooksSave
<1>24. ASSUME NEW c \in Campaigns, Start(c) PROVE Books'
  BY <1>24, BooksSame DEF Start, Grows, ShelfGrows, records, shelf, history
<1>25. ASSUME NEW c \in Campaigns, Raise(c) PROVE Books'
  BY <1>25, AtTask, FailBooks DEF Raise, Trying
<1>26. ASSUME NEW c \in Campaigns, GeneratorEdits(c) PROVE Books'
  BY <1>26, BooksSame DEF GeneratorEdits, Grows, ShelfGrows, records, shelf, history
<1>27. ASSUME NEW c \in Campaigns, TamperSource(c) PROVE Books'
  BY <1>27, BooksSame DEF TamperSource, Grows, ShelfGrows, records, shelf, history
<1>28. ASSUME NEW c \in Campaigns, StrayWrite(c) PROVE Books'
  BY <1>28, BooksSame DEF StrayWrite, Grows, ShelfGrows, records, shelf, history
<1>29. ASSUME NEW c \in Campaigns, Kill(c) PROVE Books'
  <2>1. Grows /\ ShelfGrows /\ UNCHANGED calls
    BY <1>29 DEF Kill, Grows, ShelfGrows, history
  <2>2. \A d \in Campaigns : rec'[d] \in {rec[d], disk[d]} /\ disk'[d] = disk[d]
    BY <1>29 DEF Kill, TypeOK
  <2>3. QED
    BY <2>1, <2>2, <1>29
       DEF Kill, Books, Mirror, RecordIsTrue, BudgetSurvives, Grows, ShelfGrows
<1>30. ASSUME NEW c \in Campaigns, Interrupt(c) PROVE Books'
  <2>1. Grows /\ ShelfGrows /\ UNCHANGED calls
    BY <1>30 DEF Interrupt, Grows, ShelfGrows, history
  <2>2. \A d \in Campaigns : disk'[d] \in {disk[d], rec[d]} /\ rec'[d] = rec[d]
    BY <1>30 DEF Interrupt, TypeOK
  <2>3. QED
    BY <2>1, <2>2, <1>30
       DEF Interrupt, Books, Mirror, RecordIsTrue, BudgetSurvives, Grows, ShelfGrows
<1>31. ASSUME NEW c \in Campaigns, NEW t \in Tasks, TimePasses(c, t) PROVE Books'
  <2>1. Grows /\ ShelfGrows /\ UNCHANGED calls
    BY <1>31 DEF TimePasses, Grows, ShelfGrows, shelf, history
  <2>2. \A r \in Record :
          /\ Expired(r).state = r.state /\ Expired(r).digest = r.digest
          /\ Expired(r).attempts = r.attempts
          /\ Expired(r).deadline # "unset" <=> r.deadline # "unset"
    BY DEF Expired, Record
  <2>3. \A d \in Campaigns, u \in Tasks :
          IF d = c /\ u = t
          THEN rec'[d][u] = Expired(rec[d][u]) /\ disk'[d][u] = Expired(disk[d][u])
          ELSE rec'[d][u] = rec[d][u] /\ disk'[d][u] = disk[d][u]
    BY <1>31 DEF TimePasses, TypeOK
  <2>4. \A d \in Campaigns, u \in Tasks : rec[d][u] \in Record /\ disk[d][u] \in Record
    BY DEF TypeOK
  <2>5. \A d \in Campaigns, u \in Tasks :
          /\ rec'[d][u].state = rec[d][u].state /\ rec'[d][u].digest = rec[d][u].digest
          /\ rec'[d][u].attempts = rec[d][u].attempts
          /\ rec'[d][u].deadline # "unset" <=> rec[d][u].deadline # "unset"
          /\ disk'[d][u].state = disk[d][u].state /\ disk'[d][u].digest = disk[d][u].digest
          /\ disk'[d][u].attempts = disk[d][u].attempts
          /\ disk'[d][u].deadline # "unset" <=> disk[d][u].deadline # "unset"
    BY <2>2, <2>3, <2>4
  <2>6. Mirror'
    BY <2>5 DEF Mirror, Books
  <2>7. RecordIsTrue'
    <3> SUFFICES ASSUME NEW d \in Campaigns, NEW u \in Tasks, disk'[d][u].state = "installed"
                 PROVE  /\ <<d, u, disk'[d][u].digest>> \in accepted'
                        /\ output'[u] = disk'[d][u].digest \/ u \in touched'
      BY DEF RecordIsTrue
    <3>1. /\ <<d, u, disk[d][u].digest>> \in accepted
          /\ output[u] = disk[d][u].digest \/ u \in touched
      BY <2>5 DEF RecordIsTrue, Books
    <3>2. disk[d][u].digest # Absent
      BY <2>5 DEF Mirror, Books
    <3>3. QED
      BY <2>1, <2>5, <3>1, <3>2 DEF Grows, ShelfGrows
  <2>8. BudgetSurvives'
    BY <2>1, <2>5 DEF BudgetSurvives, Books
  <2>9. QED
    BY <2>6, <2>7, <2>8 DEF Books
<1>32. ASSUME NEW t \in Tasks, OutsideEdit(t) PROVE Books'
  <2>1. Grows /\ ShelfGrows /\ UNCHANGED <<rec, disk, calls>>
    BY <1>32 DEF OutsideEdit, Grows, ShelfGrows, TypeOK, records, history
  <2>2. QED
    BY <2>1, BooksSame
<1>33. CASE UNCHANGED vars
  BY <1>33, BooksSame DEF vars, Grows, ShelfGrows, records, shelf, history
<1>34. QED
  BY <1>1, <1>2, <1>3, <1>4, <1>5, <1>6, <1>7, <1>8, <1>9, <1>10, <1>11, <1>12, <1>13,
     <1>14, <1>15, <1>16, <1>17, <1>18, <1>19, <1>20, <1>21, <1>22, <1>23, <1>24, <1>25,
     <1>26, <1>27, <1>28, <1>29, <1>30, <1>31, <1>32, <1>33
     DEF Next, Step

-----------------------------------------------------------------------------
(* Publication                                                             *)

LEMMA PublishedStep ==
  TypeOK /\ Sound /\ PublishedIsAccepted /\ [Next]_vars =>
    /\ PublishedIsAccepted'
    /\ \A p \in published' \ published : p[1] \notin tampered
<1> SUFFICES ASSUME TypeOK, Sound, PublishedIsAccepted, [Next]_vars
             PROVE  /\ PublishedIsAccepted'
                    /\ \A p \in published' \ published : p[1] \notin tampered
  OBVIOUS
<1>1. accepted \subseteq accepted' /\ (UNCHANGED published \/ \E c \in Campaigns : Rename(c))
  <2>1. ASSUME NEW c \in Campaigns, Step(c)
        PROVE  accepted \subseteq accepted' /\ (UNCHANGED published \/ Rename(c))
    <3>1. CASE ValidatorReturns(c)
      BY <3>1 DEF ValidatorReturns
    <3>2. CASE Rename(c)
      BY <3>2 DEF Rename
    <3>3. CASE Attempt(c)
      BY <3>3 DEF Attempt
    <3>4. CASE GiveUp(c) \/ SourceChanged(c) \/ Stale(c) \/ Conflict(c)
      BY <3>4 DEF GiveUp, SourceChanged, Stale, Conflict, Fail, history
    <3>5. CASE \/ SkipTask(c) \/ EndCampaign(c) \/ BeginTask(c) \/ EmitDirectory(c)
               \/ EmitFiles(c) \/ CheckContract(c) \/ ReadDigest(c) \/ CopyTaskFiles(c)
      BY <3>5 DEF SkipTask, EndCampaign, BeginTask, EmitDirectory, EmitFiles,
                  CheckContract, ReadDigest, CopyTaskFiles, history
    <3>6. CASE \/ Recheck(c) \/ AlreadyInstalled(c) \/ MakeTemporary(c) \/ CopyDraft(c)
               \/ CompareCopy(c) \/ TakeLock(c) \/ TestDestination(c) \/ RecordInstalled(c)
      BY <3>6 DEF Recheck, AlreadyInstalled, MakeTemporary, CopyDraft, CompareCopy,
                  TakeLock, TestDestination, RecordInstalled, history
    <3>7. QED
      BY <2>1, <3>1, <3>2, <3>3, <3>4, <3>5, <3>6 DEF Step
  <2>2. ASSUME NEW c \in Campaigns,
               \/ Start(c) \/ Raise(c) \/ GeneratorEdits(c) \/ TamperSource(c)
               \/ StrayWrite(c) \/ Kill(c) \/ Interrupt(c)
               \/ \E t \in Tasks : TimePasses(c, t)
        PROVE  UNCHANGED <<accepted, published>>
    BY <2>2 DEF Start, Raise, Fail, GeneratorEdits, TamperSource, StrayWrite, Kill,
                Interrupt, TimePasses, history
  <2>3. ASSUME NEW t \in Tasks, OutsideEdit(t)
        PROVE  UNCHANGED <<accepted, published>>
    BY <2>3 DEF OutsideEdit, history
  <2>4. CASE UNCHANGED vars
    BY <2>4 DEF vars, history
  <2>5. QED
    BY <2>1, <2>2, <2>3, <2>4 DEF Next
<1>2. CASE UNCHANGED published
  BY <1>1, <1>2 DEF PublishedIsAccepted
<1>3. CASE \E c \in Campaigns : Rename(c)
  <2>1. PICK c \in Campaigns : Rename(c)
    BY <1>3
  <2>2. /\ published' = published \cup {<<c, at[c], evidence[c].digest>>}
        /\ <<c, at[c], evidence[c].digest>> \in accepted
        /\ evidence[c].digest \in Legal[c] /\ c \notin tampered
    BY <2>1 DEF Rename, Sound, Installing, Installs
  <2>3. QED
    BY <1>1, <2>2 DEF PublishedIsAccepted
<1>4. QED
  BY <1>1, <1>2, <1>3

-----------------------------------------------------------------------------
(* Theorems                                                                *)

LEMMA Inductive == Spec => []IInv
<1>1. Init => IInv
  <2> SUFFICES ASSUME Init PROVE IInv
    OBVIOUS
  <2>1. TypeOK
    BY DEF Init, TypeOK, Fresh, NoEvidence, Record, Files, Tasks, Trying
  <2>2. Sound
    BY DEF Init, Sound, Validating, Installing, Installs
  <2>3. Mirror /\ PublishedIsAccepted /\ RecordIsTrue /\ BudgetSurvives
    BY DEF Init, Mirror, PublishedIsAccepted, RecordIsTrue, BudgetSurvives, Fresh
  <2>4. QED
    BY <2>1, <2>2, <2>3 DEF IInv
<1>2. IInv /\ [Next]_vars => IInv'
  BY TypeStep, SoundStep, BooksStep, PublishedStep DEF IInv, Books
<1>3. QED
  BY <1>1, <1>2, PTL DEF Spec

\* Steps, records, drafts and locks keep their types (TypeOK).
THEOREM TypeCorrect == Spec => []TypeOK
<1>1. IInv => TypeOK
  BY DEF IInv
<1>2. QED
  BY <1>1, Inductive, PTL

\* Whatever the generator, the validator and one stray process of an attempt
\* write to the draft, install_task moves into place only the content that
\* validate_task passed and check_contract allows.
THEOREM PublishedCorrect == Spec => []PublishedIsAccepted
<1>1. IInv => PublishedIsAccepted
  BY DEF IInv
<1>2. QED
  BY <1>1, Inductive, PTL

\* However many campaigns share the output directory, and however often they
\* are killed and resumed, "installed" in a state.json is true.
THEOREM RecordsCorrect == Spec => []RecordIsTrue
<1>1. IInv => RecordIsTrue
  BY DEF IInv
<1>2. QED
  BY <1>1, Inductive, PTL

\* Kills and resumes do not buy a task further generators or more time.
THEOREM BudgetCorrect == Spec => []BudgetSurvives
<1>1. IInv => BudgetSurvives
  BY DEF IInv
<1>2. QED
  BY <1>1, Inductive, PTL

\* Under .sikl-install.lock the destination stays free from the test to the rename.
THEOREM RenameCorrect == Spec => []RenameTargetIsFree
<1>1. IInv => RenameTargetIsFree
  BY DEF IInv, Sound, Installing, RenameTargetIsFree
<1>2. QED
  BY <1>1, Inductive, PTL

\* A campaign with changed sources publishes nothing (verify_sources).
THEOREM TamperedCorrect == Spec => TamperedInstallsNothing
<1>1. IInv /\ [Next]_vars => [\A p \in published' \ published : p[1] \notin tampered]_vars
  BY PublishedStep DEF IInv
<1>2. QED
  BY <1>1, Inductive, PTL DEF Spec, TamperedInstallsNothing
-----------------------------------------------------------------------------
(* The shelf: verdicts are given once                                       *)

\* A campaign works on open tasks only, and a digest is recorded with
\* "installed" only: no save can change a verdict that is there.
Verdicts ==
  /\ \A c \in Campaigns : pc[c] \in Trying => Current(c).state = "open"
  /\ \A c \in Campaigns, t \in Tasks :
       rec[c][t].state # "installed" => rec[c][t].digest = Absent

\* The record of task t of campaign d says what it said.
RecordKept(d, t) ==
  rec'[d][t].state = rec[d][t].state /\ rec'[d][t].digest = rec[d][t].digest

LEMMA SaveSets ==
  ASSUME TypeOK, NEW c \in Campaigns, at[c] \in Tasks, NEW r, Save(c, r)
  PROVE  /\ rec'[c][at[c]] = r /\ disk'[c] = rec'[c]
         /\ \A t \in Tasks \ {at[c]} : rec'[c][t] = rec[c][t]
         /\ \A d \in Campaigns \ {c} : rec'[d] = rec[d] /\ disk'[d] = disk[d]
<1>1. /\ rec' = [rec EXCEPT ![c] = [rec[c] EXCEPT ![at[c]] = r]]
      /\ disk' = [disk EXCEPT ![c] = rec'[c]]
  BY DEF Save
<1>2. rec \in [Campaigns -> [Tasks -> Record]] /\ disk \in [Campaigns -> [Tasks -> Record]]
  BY DEF TypeOK
<1>3. /\ rec'[c] = [rec[c] EXCEPT ![at[c]] = r] /\ disk'[c] = rec'[c]
      /\ \A d \in Campaigns \ {c} : rec'[d] = rec[d] /\ disk'[d] = disk[d]
  BY <1>1, <1>2
<1> QED BY <1>2, <1>3

\* A campaign that moves within the try keeps its task and its open record.
LEMMA VerdictsMove ==
  ASSUME Verdicts, NEW c \in Campaigns,
         \A d \in Campaigns \ {c} : pc'[d] = pc[d] /\ at'[d] = at[d] /\ rec'[d] = rec[d],
         pc'[c] \in Trying => at'[c] = at[c] /\ rec'[c][at[c]].state = "open",
         \A t \in Tasks : rec'[c][t].state # "installed" => rec'[c][t].digest = Absent
  PROVE  Verdicts'
BY DEF Verdicts, Current

\* ... as a step that does not change what the records say does.
LEMMA VerdictsSame ==
  ASSUME Verdicts, \A d \in Campaigns, t \in Tasks : RecordKept(d, t),
         \A d \in Campaigns : pc'[d] \in Trying =>
           pc[d] \in Trying /\ at'[d] = at[d] /\ at[d] \in Tasks
  PROVE  Verdicts'
BY DEF Verdicts, Current, RecordKept

LEMMA FailVerdicts ==
  ASSUME TypeOK, Verdicts, NEW c \in Campaigns, pc[c] \in Trying, Fail(c),
         NextTask(c) \/ (Goto(c, "down") /\ UNCHANGED at)
  PROVE  Verdicts'
<1>1. at[c] \in Tasks /\ Current(c) \in Record
  BY AtTask, CurrentType
<1> DEFINE r == [Current(c) EXCEPT !.state = "failed"]
<1>2. r.state = "failed" /\ r.digest = Current(c).digest
  BY <1>1 DEF Record
<1>3. Save(c, r)
  BY DEF Fail
<1> HIDE DEF r
<1>4. r.digest = Absent
  BY <1>1, <1>2 DEF Verdicts, Current
<1>5. /\ pc'[c] \notin Trying
      /\ \A d \in Campaigns \ {c} : pc'[d] = pc[d] /\ at'[d] = at[d]
  BY DEF TypeOK, NextTask, Goto, Trying
<1>6. \A t \in Tasks : rec'[c][t].state # "installed" => rec'[c][t].digest = Absent
  BY <1>1, <1>2, <1>3, <1>4, SaveSets DEF Verdicts
<1> QED BY <1>1, <1>3, <1>5, <1>6, SaveSets, VerdictsMove

\* A save that leaves state and digest of the current record as they are.
LEMMA SaveVerdicts ==
  ASSUME TypeOK, Verdicts, NEW c \in Campaigns, pc[c] \in Trying, NEW r, Save(c, r),
         r.state = Current(c).state, r.digest = Current(c).digest,
         NEW step, Goto(c, step), UNCHANGED at
  PROVE  Verdicts' /\ \A d \in Campaigns, t \in Tasks : RecordKept(d, t)
<1>1. at[c] \in Tasks
  BY AtTask
<1>2. \A d \in Campaigns, t \in Tasks : RecordKept(d, t)
  BY <1>1, SaveSets DEF RecordKept, Current
<1>3. \A d \in Campaigns \ {c} : pc'[d] = pc[d]
  BY DEF TypeOK, Goto
<1> QED BY <1>1, <1>2, <1>3, VerdictsSame, AtTask DEF TypeOK

LEMMA VerdictsStep == TypeOK /\ Mirror /\ Verdicts /\ [Next]_vars => Verdicts'
<1> SUFFICES ASSUME TypeOK, Mirror, Verdicts, [Next]_vars PROVE Verdicts'
  OBVIOUS
<1>0. ASSUME UNCHANGED rec,
             \A d \in Campaigns : pc'[d] \in Trying => pc[d] \in Trying /\ at'[d] = at[d]
      PROVE  Verdicts'
  BY <1>0, VerdictsSame, AtTask DEF RecordKept
<1>1. ASSUME NEW c \in Campaigns,
             \/ Start(c) \/ SkipTask(c) \/ EndCampaign(c) \/ EmitDirectory(c) \/ EmitFiles(c)
             \/ GeneratorEdits(c) \/ TamperSource(c) \/ StrayWrite(c)
      PROVE  Verdicts'
  BY <1>0, <1>1
     DEF Start, SkipTask, EndCampaign, EmitDirectory, EmitFiles, GeneratorEdits, TamperSource,
         StrayWrite, Goto, TypeOK, Trying, records, progress
<1>2. ASSUME NEW c \in Campaigns,
             \/ ReadDigest(c) \/ CopyTaskFiles(c) \/ ValidatorReturns(c)
             \/ AlreadyInstalled(c) \/ MakeTemporary(c) \/ CopyDraft(c) \/ CompareCopy(c)
             \/ TakeLock(c) \/ TestDestination(c) \/ Rename(c)
      PROVE  Verdicts'
  BY <1>0, <1>2
     DEF ReadDigest, CopyTaskFiles, ValidatorReturns, AlreadyInstalled, MakeTemporary,
         CopyDraft, CompareCopy, TakeLock, TestDestination, Rename, Goto, TypeOK, Trying, records
<1>3. ASSUME NEW c \in Campaigns, BeginTask(c) PROVE Verdicts'
  <2>1. /\ at[c] \in Tasks /\ Current(c) \in Record /\ Current(c).state = "open"
        /\ rec' = [rec EXCEPT ![c] = [rec[c] EXCEPT ![at[c]] =
             [Current(c) EXCEPT !.deadline = IF @ = "unset" THEN "ahead" ELSE @]]]
    BY <1>3, CurrentType DEF BeginTask
  <2>2. \A d \in Campaigns, t \in Tasks : RecordKept(d, t)
    BY <2>1 DEF TypeOK, Record, Current, RecordKept
  <2>3. \A d \in Campaigns \ {c} : pc'[d] = pc[d] /\ at'[d] = at[d] /\ rec'[d] = rec[d]
    BY <1>3 DEF BeginTask, Goto, TypeOK
  <2>4. at'[c] = at[c] /\ rec'[c][at[c]].state = "open"
    BY <1>3, <2>1, <2>2 DEF BeginTask, RecordKept, Current
  <2>5. \A t \in Tasks : rec'[c][t].state # "installed" => rec'[c][t].digest = Absent
    BY <2>2 DEF RecordKept, Verdicts
  <2> QED BY <2>3, <2>4, <2>5, VerdictsMove
<1>4. ASSUME NEW c \in Campaigns, Attempt(c) PROVE Verdicts'
  <2> DEFINE r == [Current(c) EXCEPT !.attempts = @ + 1]
  <2>1. pc[c] \in Trying /\ Save(c, r) /\ Goto(c, "generate") /\ UNCHANGED at
    BY <1>4 DEF Attempt, Trying
  <2>2. r.state = Current(c).state /\ r.digest = Current(c).digest
    BY <2>1, CurrentType, AtTask DEF Record
  <2> HIDE DEF r
  <2> QED BY <2>1, <2>2, SaveVerdicts
<1>5. ASSUME NEW c \in Campaigns, CheckContract(c) PROVE Verdicts'
  <2>1. pc[c] \in Trying /\ Save(c, Current(c)) /\ UNCHANGED at
    BY <1>5 DEF CheckContract, Trying
  <2>2. Goto(c, "snapshot") \/ Goto(c, "loop")
    BY <1>5 DEF CheckContract
  <2> QED BY <2>1, <2>2, SaveVerdicts
<1>6. ASSUME NEW c \in Campaigns, Recheck(c) PROVE Verdicts'
  <2>1. CASE evidence[c].verdict = "ok" /\ DraftOf(c) \in Legal[c]
    BY <1>0, <1>6, <2>1 DEF Recheck, Goto, TypeOK, Trying, records
  <2>2. CASE ~(evidence[c].verdict = "ok" /\ DraftOf(c) \in Legal[c])
    <3>1. pc[c] \in Trying /\ Save(c, Current(c)) /\ Goto(c, "loop") /\ UNCHANGED at
      BY <1>6, <2>2 DEF Recheck, Trying
    <3> QED BY <3>1, SaveVerdicts
  <2> QED BY <2>1, <2>2
<1>7. ASSUME NEW c \in Campaigns,
             GiveUp(c) \/ Raise(c) \/ SourceChanged(c) \/ Stale(c) \/ Conflict(c)
      PROVE  Verdicts'
  <2>1. pc[c] \in Trying
    BY <1>7 DEF GiveUp, Raise, SourceChanged, Stale, Conflict, Trying
  <2>2. CASE SourceChanged(c)
    BY <2>1, <2>2, FailVerdicts DEF SourceChanged
  <2>3. CASE GiveUp(c) \/ Raise(c) \/ Stale(c) \/ Conflict(c)
    <3>1. Fail(c) /\ NextTask(c)
      BY <2>3 DEF GiveUp, Raise, Stale, Conflict
    <3>2. NextTask(c) \/ (Goto(c, "down") /\ UNCHANGED at)
      BY <3>1
    <3> QED BY <2>1, <3>1, <3>2, FailVerdicts
  <2> QED BY <1>7, <2>2, <2>3
<1>8. ASSUME NEW c \in Campaigns, RecordInstalled(c) PROVE Verdicts'
  <2> DEFINE r == [Current(c) EXCEPT !.state = "installed", !.digest = evidence[c].digest]
  <2>1. pc[c] \in Trying /\ Save(c, r) /\ NextTask(c)
    BY <1>8 DEF RecordInstalled, Trying
  <2>2. at[c] \in Tasks /\ r.state = "installed"
    BY <2>1, CurrentType, AtTask DEF Record
  <2> HIDE DEF r
  <2>3. /\ pc'[c] \notin Trying
        /\ \A d \in Campaigns \ {c} : pc'[d] = pc[d] /\ at'[d] = at[d]
    BY <2>1 DEF TypeOK, NextTask, Goto, Trying
  <2>4. \A t \in Tasks : rec'[c][t].state # "installed" => rec'[c][t].digest = Absent
    BY <2>1, <2>2, SaveSets DEF Verdicts
  <2> QED BY <2>1, <2>2, <2>3, <2>4, SaveSets, VerdictsMove
<1>9. ASSUME NEW c \in Campaigns, Kill(c) \/ Interrupt(c) PROVE Verdicts'
  <2>1. /\ pc' = [pc EXCEPT ![c] = "down"] /\ at' = at
        /\ rec' = [rec EXCEPT ![c] = disk[c]] \/ rec' = rec
    BY <1>9 DEF Kill, Interrupt, Goto
  <2>2. \A d \in Campaigns : rec'[d] \in {rec[d], disk[d]}
    BY <2>1 DEF TypeOK
  <2>3. \A d \in Campaigns, t \in Tasks : RecordKept(d, t)
    BY <2>2 DEF RecordKept, Mirror
  <2>4. \A d \in Campaigns : pc'[d] \in Trying => pc[d] \in Trying
    BY <2>1 DEF TypeOK, Trying
  <2> QED BY <2>1, <2>3, <2>4, VerdictsSame, AtTask
<1>10. ASSUME NEW c \in Campaigns, NEW t \in Tasks, TimePasses(c, t) PROVE Verdicts'
  <2>1. rec[c][t] \in Record
    BY DEF TypeOK
  <2>2. Expired(rec[c][t]).state = rec[c][t].state /\ Expired(rec[c][t]).digest = rec[c][t].digest
    BY <2>1 DEF Record, Expired
  <2>3. rec' = [rec EXCEPT ![c] = [rec[c] EXCEPT ![t] = Expired(rec[c][t])]]
    BY <1>10 DEF TimePasses
  <2>4. \A d \in Campaigns, u \in Tasks : RecordKept(d, u)
    BY <2>2, <2>3 DEF TypeOK, RecordKept
  <2>5. UNCHANGED <<pc, at>>
    BY <1>10 DEF TimePasses, progress
  <2> QED BY <2>4, <2>5, VerdictsSame, AtTask
<1>11. ASSUME NEW t \in Tasks, OutsideEdit(t) PROVE Verdicts'
  BY <1>0, <1>11 DEF OutsideEdit, records, progress
<1>12. CASE UNCHANGED vars
  BY <1>0, <1>12 DEF vars, records, progress
<1> QED
  BY <1>1, <1>2, <1>3, <1>4, <1>5, <1>6, <1>7, <1>8, <1>9, <1>10, <1>11, <1>12
     DEF Next, Step
-----------------------------------------------------------------------------
(* The shelf: every step is one of TaskShelf, or leaves the shelf alone     *)

LEMMA ShelfInit == Init => Shelf!Init
BY DEF Init, Shelf!Init, Shelf!Open, Register, Fresh

\* What the records say is the register, and a step that changes neither that
\* nor the rest of the shelf is a stutter.
LEMMA RegisterSame ==
  ASSUME \A c \in Campaigns, t \in Tasks :
           disk'[c][t].state = disk[c][t].state /\ disk'[c][t].digest = disk[c][t].digest
  PROVE  Register' = Register
BY DEF Register

LEMMA RegisterSave ==
  ASSUME TypeOK, Mirror, NEW c \in Campaigns, at[c] \in Tasks, NEW r, Save(c, r)
  PROVE  Register' = [Register EXCEPT ![c] =
           [Register[c] EXCEPT ![at[c]] = [state |-> r.state, digest |-> r.digest]]]
<1>1. ASSUME NEW d \in Campaigns, NEW t \in Tasks
      PROVE  Register'[d][t] = IF d = c /\ t = at[c]
                               THEN [state |-> r.state, digest |-> r.digest]
                               ELSE Register[d][t]
  <2>1. /\ Register'[d][t] = [state |-> disk'[d][t].state, digest |-> disk'[d][t].digest]
        /\ Register[d][t] = [state |-> disk[d][t].state, digest |-> disk[d][t].digest]
    BY DEF Register
  <2>2. CASE d = c /\ t = at[c]
    BY <2>1, <2>2, SaveSets
  <2>3. CASE d = c /\ t # at[c]
    BY <2>1, <2>3, SaveSets DEF Mirror
  <2>4. CASE d # c
    BY <2>1, <2>4, SaveSets
  <2> QED BY <2>2, <2>3, <2>4
<1>2. \A d \in Campaigns : Register'[d] = [t \in Tasks |-> Register'[d][t]]
  BY DEF Register
<1>3. \A d \in Campaigns : Register[d] = [t \in Tasks |-> Register[d][t]]
  BY DEF Register
<1>4. /\ Register' = [d \in Campaigns |-> Register'[d]]
      /\ Register = [d \in Campaigns |-> Register[d]]
  BY DEF Register
<1> QED BY <1>1, <1>2, <1>3, <1>4

\* The task at hand is open in the register too.
LEMMA EntryOpen ==
  ASSUME TypeOK, Mirror, Verdicts, NEW c \in Campaigns, pc[c] \in Trying
  PROVE  at[c] \in Tasks /\ Register[c][at[c]] = Shelf!Open
<1>1. at[c] \in Tasks
  BY AtTask
<1>2. disk[c][at[c]].state = "open" /\ disk[c][at[c]].digest = Absent
  BY <1>1 DEF Verdicts, Mirror, Current
<1> QED BY <1>1, <1>2 DEF Register, Shelf!Open

ShelfIdle == UNCHANGED <<accepted, output, touched, tampered>>

LEMMA Stutter ==
  ASSUME ShelfIdle, Register' = Register
  PROVE  [Shelf!Next]_Shelf!shelfVars
BY DEF ShelfIdle, Shelf!shelfVars

LEMMA FailGivesUp ==
  ASSUME TypeOK, Mirror, Verdicts, NEW c \in Campaigns, pc[c] \in Trying, Fail(c)
  PROVE  [Shelf!Next]_Shelf!shelfVars
<1>1. at[c] \in Tasks /\ Current(c) \in Record /\ Register[c][at[c]] = Shelf!Open
  BY AtTask, CurrentType, EntryOpen
<1> DEFINE r == [Current(c) EXCEPT !.state = "failed"]
<1>2. r.state = "failed" /\ r.digest = Current(c).digest
  BY <1>1 DEF Record
<1>3. Save(c, r) /\ ShelfIdle
  BY DEF Fail, ShelfIdle, history
<1> HIDE DEF r
<1>4. r.digest = Absent
  BY <1>1, <1>2 DEF Verdicts, Current
<1>5. Register' = [Register EXCEPT ![c] =
        [Register[c] EXCEPT ![at[c]] = [state |-> "failed", digest |-> Absent]]]
  BY <1>1, <1>2, <1>3, <1>4, RegisterSave
<1>6. Shelf!GiveUp(c, at[c])
  BY <1>1, <1>3, <1>5 DEF Shelf!GiveUp, Shelf!Enter, ShelfIdle
<1> QED BY <1>1, <1>6 DEF Shelf!Next

LEMMA RecordInstalls ==
  ASSUME TypeOK, Mirror, Sound, Verdicts, NEW c \in Campaigns, RecordInstalled(c)
  PROVE  [Shelf!Next]_Shelf!shelfVars
<1>1. pc[c] = "record" /\ pc[c] \in Trying
  BY DEF RecordInstalled, Trying
<1>2. at[c] \in Tasks /\ Current(c) \in Record /\ Register[c][at[c]] = Shelf!Open
  BY <1>1, AtTask, CurrentType, EntryOpen
<1> DEFINE r == [Current(c) EXCEPT !.state = "installed", !.digest = evidence[c].digest]
<1>3. r.state = "installed" /\ r.digest = evidence[c].digest
  BY <1>2 DEF Record
<1>4. Save(c, r) /\ ShelfIdle
  BY DEF RecordInstalled, ShelfIdle, history
<1> HIDE DEF r
<1>5. Register' = [Register EXCEPT ![c] =
        [Register[c] EXCEPT ![at[c]] = [state |-> "installed", digest |-> evidence[c].digest]]]
  BY <1>2, <1>3, <1>4, RegisterSave
<1>6. /\ c \notin tampered /\ evidence[c].digest \in Legal[c]
      /\ <<c, at[c], evidence[c].digest>> \in accepted
      /\ output[at[c]] = evidence[c].digest \/ at[c] \in touched
  BY <1>1 DEF Sound, Installing, Installs
<1>7. evidence[c].digest \in Shelf!Files
  BY <1>6 DEF Shelf!Files, TypeOK, Files
<1>8. Shelf!Install(c, at[c])
  BY <1>2, <1>4, <1>5, <1>6, <1>7 DEF Shelf!Install, Shelf!Good, Shelf!Enter, ShelfIdle
<1> QED BY <1>2, <1>8 DEF Shelf!Next

LEMMA RenamePuts ==
  ASSUME TypeOK, Sound, NEW c \in Campaigns, Rename(c)
  PROVE  [Shelf!Next]_Shelf!shelfVars
<1>1. at[c] \in Tasks /\ pc[c] = "rename"
  BY AtTask DEF Rename, Trying
<1>2. /\ output[at[c]] = Absent /\ output' = [output EXCEPT ![at[c]] = staged[c]]
      /\ UNCHANGED <<accepted, touched, disk, tampered>>
  BY DEF Rename, records
<1>3. /\ staged[c] = evidence[c].digest /\ staged[c] \in Legal[c] /\ c \notin tampered
      /\ <<c, at[c], staged[c]>> \in accepted
  BY <1>1 DEF Sound, Installing, Installs
<1>4. staged[c] \in Shelf!Files
  BY DEF TypeOK, Files, Shelf!Files
<1>5. Register' = Register
  BY <1>2 DEF Register
<1>6. Shelf!Put(c, at[c])
  BY <1>2, <1>3, <1>4, <1>5 DEF Shelf!Put, Shelf!Good
<1> QED BY <1>1, <1>6 DEF Shelf!Next

LEMMA ReturnAccepts ==
  ASSUME TypeOK, NEW c \in Campaigns, ValidatorReturns(c)
  PROVE  [Shelf!Next]_Shelf!shelfVars
<1>1. /\ at[c] \in Tasks /\ work[c] \in Shelf!Files
      /\ accepted' = accepted \/ accepted' = accepted \cup {<<c, at[c], work[c]>>}
      /\ UNCHANGED <<output, touched, disk, tampered>>
  BY AtTask DEF ValidatorReturns, Trying, TypeOK, Files, Shelf!Files, records, shelf
<1>2. Register' = Register
  BY <1>1 DEF Register
<1>3. CASE accepted' = accepted
  BY <1>1, <1>2, <1>3, Stutter DEF ShelfIdle
<1>4. CASE accepted' = accepted \cup {<<c, at[c], work[c]>>}
  BY <1>1, <1>2, <1>4 DEF Shelf!Accept, Shelf!Next
<1> QED BY <1>1, <1>3, <1>4

\* A save that changes neither the state nor the digest of a record.
LEMMA SaveStutters ==
  ASSUME TypeOK, Mirror, NEW c \in Campaigns, pc[c] \in Trying, NEW r, Save(c, r),
         r.state = Current(c).state, r.digest = Current(c).digest, ShelfIdle
  PROVE  [Shelf!Next]_Shelf!shelfVars
<1>1. at[c] \in Tasks
  BY AtTask
<1>2. \A d \in Campaigns, t \in Tasks :
        disk'[d][t].state = disk[d][t].state /\ disk'[d][t].digest = disk[d][t].digest
  BY <1>1, SaveSets DEF Mirror, Current
<1> QED BY <1>2, RegisterSame, Stutter

LEMMA ShelfStep ==
  TypeOK /\ Mirror /\ Sound /\ Verdicts /\ [Next]_vars => [Shelf!Next]_Shelf!shelfVars
<1> SUFFICES ASSUME TypeOK, Mirror, Sound, Verdicts, [Next]_vars
             PROVE  [Shelf!Next]_Shelf!shelfVars
  OBVIOUS
<1>0. ASSUME ShelfIdle, UNCHANGED disk
      PROVE  [Shelf!Next]_Shelf!shelfVars
  BY <1>0, Stutter DEF Register
<1>1. ASSUME NEW c \in Campaigns,
             \/ Start(c) \/ SkipTask(c) \/ EndCampaign(c) \/ BeginTask(c) \/ EmitDirectory(c)
             \/ EmitFiles(c) \/ GeneratorEdits(c) \/ StrayWrite(c) \/ ReadDigest(c)
             \/ CopyTaskFiles(c) \/ Kill(c)
      PROVE  [Shelf!Next]_Shelf!shelfVars
  BY <1>0, <1>1
     DEF Start, SkipTask, EndCampaign, BeginTask, EmitDirectory, EmitFiles, GeneratorEdits,
         StrayWrite, ReadDigest, CopyTaskFiles, Kill, ShelfIdle, records, shelf, history
<1>2. ASSUME NEW c \in Campaigns,
             \/ AlreadyInstalled(c) \/ MakeTemporary(c) \/ CopyDraft(c) \/ CompareCopy(c)
             \/ TakeLock(c) \/ TestDestination(c)
      PROVE  [Shelf!Next]_Shelf!shelfVars
  BY <1>0, <1>2
     DEF AlreadyInstalled, MakeTemporary, CopyDraft, CompareCopy, TakeLock, TestDestination,
         ShelfIdle, records, shelf, history
<1>3. ASSUME NEW c \in Campaigns, Attempt(c) PROVE [Shelf!Next]_Shelf!shelfVars
  <2> DEFINE r == [Current(c) EXCEPT !.attempts = @ + 1]
  <2>1. pc[c] \in Trying /\ Save(c, r) /\ ShelfIdle
    BY <1>3 DEF Attempt, Trying, ShelfIdle, shelf
  <2>2. r.state = Current(c).state /\ r.digest = Current(c).digest
    BY <2>1, CurrentType, AtTask DEF Record
  <2> HIDE DEF r
  <2> QED BY <2>1, <2>2, SaveStutters
<1>4. ASSUME NEW c \in Campaigns, CheckContract(c) PROVE [Shelf!Next]_Shelf!shelfVars
  <2>1. pc[c] \in Trying /\ Save(c, Current(c)) /\ ShelfIdle
    BY <1>4 DEF CheckContract, Trying, ShelfIdle, shelf, history
  <2> QED BY <2>1, SaveStutters
<1>5. ASSUME NEW c \in Campaigns, Recheck(c) PROVE [Shelf!Next]_Shelf!shelfVars
  <2>1. pc[c] \in Trying /\ ShelfIdle /\ (UNCHANGED disk \/ Save(c, Current(c)))
    BY <1>5 DEF Recheck, Trying, ShelfIdle, records, shelf, history
  <2> QED BY <1>0, <2>1, SaveStutters
<1>6. ASSUME NEW c \in Campaigns,
             GiveUp(c) \/ Raise(c) \/ SourceChanged(c) \/ Stale(c) \/ Conflict(c)
      PROVE  [Shelf!Next]_Shelf!shelfVars
  <2>1. pc[c] \in Trying
    BY <1>6 DEF GiveUp, Raise, SourceChanged, Stale, Conflict, Trying
  <2>2. Fail(c)
    BY <1>6 DEF GiveUp, Raise, SourceChanged, Stale, Conflict
  <2> QED BY <2>1, <2>2, FailGivesUp
<1>7. ASSUME NEW c \in Campaigns,
             ValidatorReturns(c) \/ Rename(c) \/ RecordInstalled(c)
      PROVE  [Shelf!Next]_Shelf!shelfVars
  BY <1>7, ReturnAccepts, RenamePuts, RecordInstalls
<1>8. ASSUME NEW c \in Campaigns, TamperSource(c) PROVE [Shelf!Next]_Shelf!shelfVars
  <2>1. /\ tampered' = tampered \cup {c}
        /\ UNCHANGED <<accepted, output, touched, disk>>
    BY <1>8 DEF TamperSource, records, shelf, history
  <2>2. Register' = Register
    BY <2>1 DEF Register
  <2> QED BY <2>1, <2>2 DEF Shelf!Bar, Shelf!Next
<1>9. ASSUME NEW c \in Campaigns, Interrupt(c) PROVE [Shelf!Next]_Shelf!shelfVars
  <2>1. ShelfIdle /\ disk' = [disk EXCEPT ![c] = rec[c]]
    BY <1>9 DEF Interrupt, ShelfIdle, history
  <2>2. \A d \in Campaigns : disk'[d] \in {disk[d], rec[d]}
    BY <2>1 DEF TypeOK
  <2> QED BY <2>1, <2>2, RegisterSame, Stutter DEF Mirror
<1>10. ASSUME NEW c \in Campaigns, NEW t \in Tasks, TimePasses(c, t)
       PROVE  [Shelf!Next]_Shelf!shelfVars
  <2>1. disk[c][t] \in Record
    BY DEF TypeOK
  <2>2. /\ Expired(disk[c][t]).state = disk[c][t].state
        /\ Expired(disk[c][t]).digest = disk[c][t].digest
    BY <2>1 DEF Record, Expired
  <2>3. ShelfIdle /\ disk' = [disk EXCEPT ![c] = [disk[c] EXCEPT ![t] = Expired(disk[c][t])]]
    BY <1>10 DEF TimePasses, ShelfIdle, shelf, history
  <2>4. \A d \in Campaigns, u \in Tasks :
          disk'[d][u].state = disk[d][u].state /\ disk'[d][u].digest = disk[d][u].digest
    BY <2>2, <2>3 DEF TypeOK
  <2> QED BY <2>3, <2>4, RegisterSame, Stutter
<1>11. ASSUME NEW t \in Tasks, OutsideEdit(t) PROVE [Shelf!Next]_Shelf!shelfVars
  <2>1. /\ output[t] # Absent /\ touched' = touched \cup {t}
        /\ \E f \in Files : output' = [output EXCEPT ![t] = f]
        /\ UNCHANGED <<accepted, disk, tampered>>
    BY <1>11 DEF OutsideEdit, records, history
  <2>2. Register' = Register
    BY <2>1 DEF Register
  <2> QED BY <2>1, <2>2 DEF Shelf!Touch, Shelf!Next, Shelf!Files, Files
<1>12. CASE UNCHANGED vars
  BY <1>0, <1>12 DEF vars, ShelfIdle, records, shelf, history
<1> QED
  BY <1>1, <1>2, <1>3, <1>4, <1>5, <1>6, <1>7, <1>8, <1>9, <1>10, <1>11, <1>12
     DEF Next, Step

\* However many campaigns share the output directory, and whatever is killed,
\* interrupted or written late: install_task fills a free place once, with
\* what its campaign accepted, and state.json gives each task one verdict,
\* "installed" only over what is in place (TaskShelf).
THEOREM BuilderImplementsShelf == Spec => ImplementsShelf
<1>1. Init => Verdicts
  BY DEF Init, Verdicts, Fresh, Trying
<1>2. TypeOK /\ Mirror /\ Sound /\ Verdicts /\ [Next]_vars
        => Verdicts' /\ [Shelf!Next]_Shelf!shelfVars
  BY VerdictsStep, ShelfStep
<1>3. IInv => TypeOK /\ Mirror /\ Sound
  BY DEF IInv
<1> QED
  BY <1>1, <1>2, <1>3, Inductive, ShelfInit, PTL DEF Spec, ImplementsShelf, Shelf!Spec
=============================================================================
