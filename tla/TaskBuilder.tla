---------------------------- MODULE TaskBuilder ----------------------------
(***************************************************************************)
(* Campaigns of the SIKL task builder (agents/sikl_task_builder/           *)
(* orchestrator.py run, install_task; validation.py validate_task;         *)
(* materialize.py).  A campaign takes its tasks in order: it emits a       *)
(* draft, lets a generator edit it, checks it against the source contract, *)
(* has a fresh copy validated, and installs the accepted draft in an       *)
(* output directory that all campaigns share.                              *)
(*                                                                         *)
(* A campaign survives its process: state.json (disk) is all that a resume *)
(* reads.  The run's .lock admits one process of a campaign at a time.     *)
(*                                                                         *)
(* The files of a task are one of Contents and stand for their digest.     *)
(* The recorded states between discovered and validating are "open";       *)
(* needs_spec and platform_deferred end a task like "failed".              *)
(***************************************************************************)
EXTENDS Integers

CONSTANTS Campaigns,
          NumTasks,     \* tasks of a campaign, in the order it takes them
          Contents,     \* what the files of one task can be
          Partial,      \* some of the files
          Absent, NoOne,
          Legal,        \* campaign -> contents its contract check accepts
          Emitted,      \* campaign -> the draft it emits
          MaxRepairs,   \* campaign -> max_repair_attempts of its config
          Touchable,    \* bound: installed tasks that somebody else may change
          MaxKills      \* bound: killed or interrupted processes

Tasks == 1 .. NumTasks

ASSUME TaskBuilderAssumption ==
  /\ NumTasks \in Nat /\ MaxKills \in Nat /\ MaxRepairs \in [Campaigns -> Nat]
  /\ Touchable \subseteq Tasks
  /\ Partial \in Contents /\ Absent \notin Contents /\ NoOne \notin Campaigns
  /\ Legal \in [Campaigns -> SUBSET (Contents \ {Partial})]
  /\ Emitted \in [Campaigns -> Contents]

Files == Contents \cup {Absent}

VARIABLES
  pc, at,      \* of a campaign: its next step, and the task it is at
  rec, disk,   \* state["tasks"] in memory and in state.json
  draft,       \* drafts/<task>
  tampered,    \* campaigns whose snapshot, config or builder is not as recorded
  stray,       \* campaigns whose draft was written since its generator returned
  evidence,    \* of the validation in progress: digest and verdict
  work,        \* the validator's workspace
  output,      \* tasks/<output_dir>/<task>
  staged,      \* the campaign's temporary directory beside it
  lock,        \* .sikl-install.lock
  touched,     \* installed tasks that somebody else changed
  kills,
  accepted,    \* history: what a campaign's own validator passed
  published,   \* history: what a campaign moved into place
  calls        \* history: generators started

progress == <<pc, at>>
records == <<rec, disk>>
validation == <<evidence, work>>
shelf == <<output, staged, lock, touched>>
history == <<accepted, published, calls>>
vars == <<progress, records, draft, tampered, stray, validation, shelf, kills, history>>

Fresh == [state |-> "open", attempts |-> 0, deadline |-> "unset", digest |-> Absent]
NoEvidence == [digest |-> Absent, verdict |-> "none"]

Init ==
  /\ pc = [c \in Campaigns |-> "down"] /\ at = [c \in Campaigns |-> 1]
  /\ rec = [c \in Campaigns |-> [t \in Tasks |-> Fresh]] /\ disk = rec
  /\ draft = [c \in Campaigns |-> [t \in Tasks |-> Absent]]
  /\ tampered = {} /\ stray = {}
  /\ evidence = [c \in Campaigns |-> NoEvidence] /\ work = [c \in Campaigns |-> Absent]
  /\ output = [t \in Tasks |-> Absent] /\ staged = [c \in Campaigns |-> Absent]
  /\ lock = NoOne /\ touched = {} /\ kills = 0
  /\ accepted = {} /\ published = {} /\ calls = [c \in Campaigns |-> [t \in Tasks |-> 0]]

\* The steps inside the try of run, whose finally saves state.json.
Trying == {"emit", "write", "loop", "generate", "snapshot", "copy", "validate",
           "recheck", "install", "stage", "compare", "lock", "locked", "rename", "record"}

Goto(c, step) == pc' = [pc EXCEPT ![c] = step]
Current(c) == rec[c][at[c]]
DraftOf(c) == draft[c][at[c]]
SetDraft(c, f) == draft' = [draft EXCEPT ![c] = [draft[c] EXCEPT ![at[c]] = f]]

\* atomic_json of the state, with the record of the current task changed to r.
Save(c, r) ==
  /\ rec' = [rec EXCEPT ![c] = [rec[c] EXCEPT ![at[c]] = r]]
  /\ disk' = [disk EXCEPT ![c] = rec'[c]]

\* The locals of a task are gone, and the kernel drops a lock it holds.
Drop(c) ==
  /\ evidence' = [evidence EXCEPT ![c] = NoEvidence] /\ work' = [work EXCEPT ![c] = Absent]
  /\ staged' = [staged EXCEPT ![c] = Absent]
  /\ lock' = IF lock = c THEN NoOne ELSE lock

NextTask(c) == Goto(c, "next") /\ at' = [at EXCEPT ![c] = @ + 1]

-----------------------------------------------------------------------------
(* The campaign between its tasks.                                          *)

\* Run or resume; a resume with another snapshot is refused.
Start(c) ==
  /\ pc[c] = "down" /\ c \notin tampered
  /\ Goto(c, "next") /\ at' = [at EXCEPT ![c] = 1]
  /\ UNCHANGED <<records, draft, tampered, stray, validation, shelf, kills, history>>

SkipTask(c) ==
  /\ pc[c] = "next" /\ at[c] \in Tasks
  /\ \/ Current(c).state = "failed"
     \/ Current(c).state = "installed" /\ output[at[c]] = Current(c).digest
  /\ at' = [at EXCEPT ![c] = @ + 1]
  /\ UNCHANGED <<pc, records, draft, tampered, stray, validation, shelf, kills, history>>

\* installed_changed is raised outside the try: it ends the campaign.
EndCampaign(c) ==
  /\ pc[c] = "next"
  /\ \/ at[c] \notin Tasks
     \/ at[c] \in Tasks /\ Current(c).state = "installed" /\ output[at[c]] # Current(c).digest
  /\ Goto(c, "down")
  /\ UNCHANGED <<at, records, draft, tampered, stray, validation, shelf, kills, history>>

\* The deadline is fixed once, in memory; the next save makes it last.
BeginTask(c) ==
  /\ pc[c] = "next" /\ at[c] \in Tasks /\ Current(c).state = "open"
  /\ rec' = [rec EXCEPT ![c] = [rec[c] EXCEPT ![at[c]] =
       [Current(c) EXCEPT !.deadline = IF @ = "unset" THEN "ahead" ELSE @]]]
  /\ Goto(c, IF DraftOf(c) = Absent THEN "emit" ELSE "loop")
  /\ UNCHANGED <<at, disk, draft, tampered, stray, validation, shelf, kills, history>>

EmitDirectory(c) ==
  /\ pc[c] = "emit"
  /\ SetDraft(c, Partial) /\ Goto(c, "write")
  /\ UNCHANGED <<at, records, tampered, stray, validation, shelf, kills, history>>

EmitFiles(c) ==
  /\ pc[c] = "write"
  /\ SetDraft(c, Emitted[c]) /\ Goto(c, "loop")
  /\ UNCHANGED <<at, records, tampered, stray, validation, shelf, kills, history>>

-----------------------------------------------------------------------------
(* Attempts.                                                                *)

\* Mutant: one repair too many.
MayTryOnceMore(c) == Current(c).attempts <= MaxRepairs[c] + 1 /\ Current(c).deadline = "ahead"

MayTry(c) == Current(c).attempts <= MaxRepairs[c] /\ Current(c).deadline = "ahead"

\* Mutant: the attempt reaches state.json only with its feedback.
AttemptUnsaved(c) ==
  /\ pc[c] = "loop" /\ MayTry(c) /\ c \notin tampered
  /\ rec' = [rec EXCEPT ![c] = [rec[c] EXCEPT ![at[c]] = [@ EXCEPT !.attempts = @ + 1]]]
  /\ calls' = [calls EXCEPT ![c] = [calls[c] EXCEPT ![at[c]] = @ + 1]]
  /\ stray' = stray \ {c}
  /\ Goto(c, "generate")
  /\ UNCHANGED <<at, disk, draft, tampered, validation, shelf, kills, accepted, published>>

\* The attempt is on disk before the generator starts.
Attempt(c) ==
  /\ pc[c] = "loop" /\ MayTry(c) /\ c \notin tampered
  /\ Save(c, [Current(c) EXCEPT !.attempts = @ + 1])
  /\ calls' = [calls EXCEPT ![c] = [calls[c] EXCEPT ![at[c]] = @ + 1]]
  /\ stray' = stray \ {c}
  /\ Goto(c, "generate")
  /\ UNCHANGED <<at, draft, tampered, validation, shelf, kills, accepted, published>>

\* Any exception in the try, a failed check of the loop included, ends the task.
Fail(c) ==
  /\ Save(c, [Current(c) EXCEPT !.state = "failed"])
  /\ Drop(c)
  /\ UNCHANGED <<draft, tampered, stray, output, touched, kills, history>>

\* Mutant: a task whose attempts are spent keeps the state it had.
GiveUpSilently(c) ==
  /\ pc[c] = "loop" /\ ~MayTry(c)
  /\ Save(c, Current(c)) /\ Drop(c) /\ NextTask(c)
  /\ UNCHANGED <<draft, tampered, stray, output, touched, kills, history>>

GiveUp(c) ==
  /\ pc[c] = "loop" /\ ~MayTry(c)
  /\ Fail(c) /\ NextTask(c)

Raise(c) ==
  /\ pc[c] \in Trying \ {"record"}
  /\ Fail(c) /\ NextTask(c)

\* verify_sources; source_changed is raised again after the save.
SourceChanged(c) ==
  /\ c \in tampered
  /\ \/ pc[c] \in {"generate", "recheck"}
     \/ pc[c] = "loop" /\ MayTry(c)
  /\ Fail(c) /\ Goto(c, "down") /\ UNCHANGED at

\* The generator may do anything to the draft while it runs.
GeneratorEdits(c) ==
  /\ pc[c] = "generate"
  /\ \E f \in Files : SetDraft(c, f)
  /\ UNCHANGED <<progress, records, tampered, stray, validation, shelf, kills, history>>

\* ... and so may the validator to the campaign's snapshot and config.
TamperSource(c) ==
  /\ pc[c] \in {"generate", "validate"}
  /\ tampered' = tampered \cup {c}
  /\ UNCHANGED <<progress, records, draft, stray, validation, shelf, kills, history>>

\* One write to the draft after the generator returned, by the validator or by
\* a descendant that left the process group run_process kills.
StrayWrite(c) ==
  /\ pc[c] \in Trying \ {"emit", "write", "loop", "generate"} /\ c \notin stray
  /\ \E f \in Contents \ {DraftOf(c)} : SetDraft(c, f)
  /\ stray' = stray \cup {c}
  /\ UNCHANGED <<progress, records, tampered, validation, shelf, kills, history>>

\* The generator returned: check_contract, and the feedback of a failed attempt.
CheckContract(c) ==
  /\ pc[c] = "generate" /\ c \notin tampered
  /\ \/ DraftOf(c) \in Legal[c] /\ Current(c).deadline = "ahead" /\ Goto(c, "snapshot")
     \/ Goto(c, "loop")
  /\ Save(c, Current(c))
  /\ UNCHANGED <<at, draft, tampered, stray, validation, shelf, kills, history>>

-----------------------------------------------------------------------------
(* validate_task.                                                           *)

ReadDigest(c) ==
  /\ pc[c] = "snapshot"
  /\ evidence' = [evidence EXCEPT ![c] = [digest |-> DraftOf(c), verdict |-> "none"]]
  /\ Goto(c, "copy")
  /\ UNCHANGED <<at, records, draft, tampered, stray, work, shelf, kills, history>>

CopyTaskFiles(c) ==
  /\ pc[c] = "copy"
  /\ work' = [work EXCEPT ![c] = DraftOf(c)]
  /\ Goto(c, "validate")
  /\ UNCHANGED <<at, records, draft, tampered, stray, evidence, shelf, kills, history>>

\* A clean verdict: complete report, gate and overall PASS, workspace unchanged.
ValidatorReturns(c) ==
  /\ pc[c] = "validate"
  /\ \E clean \in BOOLEAN :
       /\ evidence' = [evidence EXCEPT ![c] =
            [@ EXCEPT !.verdict =
               IF clean /\ DraftOf(c) = evidence[c].digest THEN "ok" ELSE "failed"]]
       /\ accepted' = IF clean THEN accepted \cup {<<c, at[c], work[c]>>} ELSE accepted
  /\ Goto(c, "recheck")
  /\ UNCHANGED <<at, records, draft, tampered, stray, work, shelf, kills, published, calls>>

\* Mutant: the contract check before the validation is trusted.
RecheckVerdict(c) ==
  /\ pc[c] = "recheck" /\ c \notin tampered
  /\ IF evidence[c].verdict = "ok"
     THEN Goto(c, "install") /\ UNCHANGED <<records, validation>>
     ELSE /\ Goto(c, "loop") /\ Save(c, Current(c))
          /\ evidence' = [evidence EXCEPT ![c] = NoEvidence]
          /\ work' = [work EXCEPT ![c] = Absent]
  /\ UNCHANGED <<at, draft, tampered, stray, shelf, kills, history>>

\* Mutant: the sources are not verified after the validator.
RecheckUnverified(c) ==
  /\ pc[c] = "recheck"
  /\ IF evidence[c].verdict = "ok" /\ DraftOf(c) \in Legal[c]
     THEN Goto(c, "install") /\ UNCHANGED <<records, validation>>
     ELSE /\ Goto(c, "loop") /\ Save(c, Current(c))
          /\ evidence' = [evidence EXCEPT ![c] = NoEvidence]
          /\ work' = [work EXCEPT ![c] = Absent]
  /\ UNCHANGED <<at, draft, tampered, stray, shelf, kills, history>>

Recheck(c) ==
  /\ pc[c] = "recheck" /\ c \notin tampered
  /\ IF evidence[c].verdict = "ok" /\ DraftOf(c) \in Legal[c]
     THEN Goto(c, "install") /\ UNCHANGED <<records, validation>>
     ELSE /\ Goto(c, "loop") /\ Save(c, Current(c))
          /\ evidence' = [evidence EXCEPT ![c] = NoEvidence]
          /\ work' = [work EXCEPT ![c] = Absent]
  /\ UNCHANGED <<at, draft, tampered, stray, shelf, kills, history>>

-----------------------------------------------------------------------------
(* install_task.                                                            *)

\* The draft, or the copy of it, is no longer what was accepted.
Stale(c) ==
  /\ \/ pc[c] = "install" /\ DraftOf(c) # evidence[c].digest
     \/ pc[c] = "compare" /\ staged[c] # evidence[c].digest
  /\ Fail(c) /\ NextTask(c)

AlreadyInstalled(c) ==
  /\ pc[c] = "install" /\ DraftOf(c) = evidence[c].digest
  /\ output[at[c]] = evidence[c].digest
  /\ Goto(c, "record")
  /\ UNCHANGED <<at, records, draft, tampered, stray, validation, shelf, kills, history>>

\* output_conflict: before the copy if the task there differs, under the lock always.
Conflict(c) ==
  /\ \/ /\ pc[c] = "install" /\ DraftOf(c) = evidence[c].digest
        /\ output[at[c]] \notin {Absent, evidence[c].digest}
     \/ pc[c] = "locked" /\ output[at[c]] # Absent
  /\ Fail(c) /\ NextTask(c)

MakeTemporary(c) ==
  /\ pc[c] = "install" /\ DraftOf(c) = evidence[c].digest /\ output[at[c]] = Absent
  /\ staged' = [staged EXCEPT ![c] = Partial]
  /\ Goto(c, "stage")
  /\ UNCHANGED <<at, records, draft, tampered, stray, validation, output, lock, touched,
                 kills, history>>

CopyDraft(c) ==
  /\ pc[c] = "stage"
  /\ staged' = [staged EXCEPT ![c] = DraftOf(c)]
  /\ Goto(c, "compare")
  /\ UNCHANGED <<at, records, draft, tampered, stray, validation, output, lock, touched,
                 kills, history>>

CompareCopy(c) ==
  /\ pc[c] = "compare" /\ staged[c] = evidence[c].digest
  /\ Goto(c, "lock")
  /\ UNCHANGED <<at, records, draft, tampered, stray, validation, shelf, kills, history>>

\* Mutant: the lock is not shared by the campaigns.
TakeOwnLock(c) ==
  /\ pc[c] = "lock"
  /\ lock' = c
  /\ Goto(c, "locked")
  /\ UNCHANGED <<at, records, draft, tampered, stray, validation, output, staged, touched,
                 kills, history>>

TakeLock(c) ==
  /\ pc[c] = "lock" /\ lock = NoOne
  /\ lock' = c
  /\ Goto(c, "locked")
  /\ UNCHANGED <<at, records, draft, tampered, stray, validation, output, staged, touched,
                 kills, history>>

\* Mutant: the task is recorded as installed before it is in place.
TestDestinationRecorded(c) ==
  /\ pc[c] = "locked" /\ output[at[c]] = Absent
  /\ Save(c, [Current(c) EXCEPT !.state = "installed", !.digest = evidence[c].digest])
  /\ Goto(c, "rename")
  /\ UNCHANGED <<at, draft, tampered, stray, validation, shelf, kills, history>>

TestDestination(c) ==
  /\ pc[c] = "locked" /\ output[at[c]] = Absent
  /\ Goto(c, "rename")
  /\ UNCHANGED <<at, records, draft, tampered, stray, validation, shelf, kills, history>>

\* rename fails (Raise) on a directory that is there and not empty.
Rename(c) ==
  /\ pc[c] = "rename" /\ output[at[c]] = Absent
  /\ output' = [output EXCEPT ![at[c]] = staged[c]]
  /\ published' = published \cup {<<c, at[c], staged[c]>>}
  /\ staged' = [staged EXCEPT ![c] = Absent] /\ lock' = NoOne
  /\ Goto(c, "record")
  /\ UNCHANGED <<at, records, draft, tampered, stray, validation, touched, kills,
                 accepted, calls>>

RecordInstalled(c) ==
  /\ pc[c] = "record"
  /\ Save(c, [Current(c) EXCEPT !.state = "installed", !.digest = evidence[c].digest])
  /\ Drop(c) /\ NextTask(c)
  /\ UNCHANGED <<draft, tampered, stray, output, touched, kills, history>>

-----------------------------------------------------------------------------
(* The world around the campaigns.                                          *)

\* The container is stopped or runs out of memory: every process is gone at once.
Kill(c) ==
  /\ pc[c] # "down" /\ kills < MaxKills /\ kills' = kills + 1
  /\ rec' = [rec EXCEPT ![c] = disk[c]]
  /\ Drop(c) /\ Goto(c, "down")
  /\ UNCHANGED <<at, disk, draft, tampered, stray, output, touched, history>>

\* Ctrl-C runs the finally clauses: the state is saved, the temporary removed.
Interrupt(c) ==
  /\ pc[c] # "down" /\ kills < MaxKills /\ kills' = kills + 1
  /\ disk' = [disk EXCEPT ![c] = rec[c]]
  /\ Drop(c) /\ Goto(c, "down")
  /\ UNCHANGED <<at, rec, draft, tampered, stray, output, touched, history>>

Expired(r) == [r EXCEPT !.deadline = IF @ = "ahead" THEN "past" ELSE @]

\* Deadlines are absolute, so they also pass while a campaign is down.
TimePasses(c, t) ==
  /\ rec[c][t].deadline = "ahead" /\ rec[c][t].state = "open"
  /\ rec' = [rec EXCEPT ![c] = [rec[c] EXCEPT ![t] = Expired(rec[c][t])]]
  /\ disk' = [disk EXCEPT ![c] = [disk[c] EXCEPT ![t] = Expired(disk[c][t])]]
  /\ UNCHANGED <<progress, draft, tampered, stray, validation, shelf, kills, history>>

\* Somebody edits or removes an installed task by hand, once for each task.
OutsideEdit(t) ==
  /\ t \in Touchable \ touched /\ touched' = touched \cup {t}
  /\ output[t] # Absent
  /\ \E f \in Files \ {output[t]} : output' = [output EXCEPT ![t] = f]
  /\ UNCHANGED <<progress, records, draft, tampered, stray, validation, staged, lock,
                 kills, history>>

\* What a running campaign does by itself, and by a deadline of run_process.
Step(c) ==
  \/ SkipTask(c) \/ EndCampaign(c) \/ BeginTask(c) \/ EmitDirectory(c) \/ EmitFiles(c)
  \/ Attempt(c) \/ GiveUp(c) \/ SourceChanged(c) \/ CheckContract(c)
  \/ ReadDigest(c) \/ CopyTaskFiles(c) \/ ValidatorReturns(c) \/ Recheck(c)
  \/ Stale(c) \/ AlreadyInstalled(c) \/ Conflict(c) \/ MakeTemporary(c) \/ CopyDraft(c)
  \/ CompareCopy(c) \/ TakeLock(c) \/ TestDestination(c) \/ Rename(c) \/ RecordInstalled(c)

Next ==
  \/ \E c \in Campaigns :
       \/ Start(c) \/ Step(c) \/ Raise(c)
       \/ GeneratorEdits(c) \/ TamperSource(c) \/ StrayWrite(c)
       \/ Kill(c) \/ Interrupt(c)
       \/ \E t \in Tasks : TimePasses(c, t)
  \/ \E t \in Tasks : OutsideEdit(t)

Spec == Init /\ [][Next]_vars

\* A started process goes on, and somebody resumes a campaign.
FairSpec == Spec /\ \A c \in Campaigns : WF_vars(Step(c)) /\ WF_vars(Start(c))

-----------------------------------------------------------------------------
Record == [state : {"open", "installed", "failed"}, attempts : Nat,
           deadline : {"unset", "ahead", "past"}, digest : Files]

TypeOK ==
  /\ pc \in [Campaigns -> {"down", "next"} \cup Trying]
  /\ at \in [Campaigns -> 1 .. NumTasks + 1]
  /\ \A c \in Campaigns : pc[c] \in Trying => at[c] \in Tasks
  /\ rec \in [Campaigns -> [Tasks -> Record]] /\ disk \in [Campaigns -> [Tasks -> Record]]
  /\ \A c \in Campaigns, t \in Tasks :
       rec[c][t].attempts <= MaxRepairs[c] + 1 /\ disk[c][t].attempts <= MaxRepairs[c] + 1
  /\ draft \in [Campaigns -> [Tasks -> Files]]
  /\ tampered \subseteq Campaigns /\ stray \subseteq Campaigns
  /\ evidence \in [Campaigns -> [digest : Files, verdict : {"none", "ok", "failed"}]]
  /\ work \in [Campaigns -> Files]
  /\ output \in [Tasks -> Files] /\ staged \in [Campaigns -> Files]
  /\ lock \in Campaigns \cup {NoOne}
  /\ touched \subseteq Tasks
  /\ kills \in 0 .. MaxKills
  /\ accepted \subseteq Campaigns \X Tasks \X Files
  /\ published \subseteq Campaigns \X Tasks \X Files
  /\ calls \in [Campaigns -> [Tasks -> Nat]]

\* What a campaign moves into the output directory is the content its own
\* validator passed, and a content its contract allows, although the digest, the
\* copies, the verdict and the two contract checks read the draft at five moments.
PublishedIsAccepted ==
  \A p \in published : p \in accepted /\ p[3] \in Legal[p[1]]

\* A task recorded as installed was accepted by that campaign, and is still what
\* the output directory holds unless somebody else touched it.
RecordIsTrue ==
  \A c \in Campaigns, t \in Tasks :
    disk[c][t].state = "installed" =>
      /\ <<c, t, disk[c][t].digest>> \in accepted
      /\ output[t] = disk[c][t].digest \/ t \in touched

\* However often a campaign is killed and resumed, its generators stay within
\* max_repair_attempts + 1, and none runs before its deadline is on disk.
BudgetSurvives ==
  \A c \in Campaigns, t \in Tasks :
    /\ calls[c][t] <= disk[c][t].attempts /\ calls[c][t] <= MaxRepairs[c] + 1
    /\ calls[c][t] > 0 => disk[c][t].deadline # "unset"

\* No other campaign fills the destination between the test and the rename.
RenameTargetIsFree ==
  \A c \in Campaigns :
    pc[c] = "rename" => output[at[c]] = Absent \/ at[c] \in touched

\* A campaign whose generator or validator changed its snapshot, its config or
\* the builder installs nothing from then on.
TamperedInstallsNothing ==
  [][\A p \in published' \ published : p[1] \notin tampered]_vars

\* Every task of every campaign gets its verdict on disk, unless the campaign may
\* not be resumed or an installed task was changed by somebody else.
CampaignSettles ==
  <>\A c \in Campaigns :
      c \in tampered \/ touched # {} \/ \A t \in Tasks : disk[c][t].state # "open"

-----------------------------------------------------------------------------
\* What state.json says of the tasks of a campaign, for good.
Register ==
  [c \in Campaigns |-> [t \in Tasks |->
     [state |-> disk[c][t].state, digest |-> disk[c][t].digest]]]

Shelf == INSTANCE TaskShelf WITH shelf <- output, register <- Register, barred <- tampered

\* The campaigns implement the shelf: a task gets its place once, from a
\* campaign that accepted it, and each campaign its one verdict on it, which
\* no kill, resume, other campaign or late write changes any more.
ImplementsShelf == Shelf!Spec

=============================================================================
