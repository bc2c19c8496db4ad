------------------------ MODULE ParallelQueueProofs ------------------------
(***************************************************************************)
(* Safety of the task queue for every number of tasks, workers, drives and *)
(* crashes.  One part supposes that a resume waits for the workers of the  *)
(* previous drive (~OrphanWorkers); the other, at the end, lets them live  *)
(* on beside the new ones.                                                 *)
(***************************************************************************)
EXTENDS ParallelQueue, TLAPS

\* Only workers of the current drive live, and only while it is waiting.
CrewInv ==
  /\ \A p \in Procs : Live(p) => p[1] = drive /\ phase = "working"
  /\ \A p \in Procs : p[1] > drive => pc[p] = "off"
  /\ phase \in {"clear", "enqueue"} => \A p \in Crew : pc[p] = "off"

\* A claimed descriptor stays in running/ under the claimer's name.
HoldInv ==
  \A p \in Procs : pc[p] \in HoldingPc => held[p] \in Tasks /\ Mine(p) \in queue["running"]

\* The directories already emptied while the queue is rebuilt.
ClearInv ==
  phase = "clear" =>
    /\ cursor \in 1 .. 4
    /\ cursor > 1 => queue["pending"] = {}
    /\ cursor > 2 => queue["running"] = {}
    /\ cursor > 3 => queue["done"] = {}

\* The tasks already queued while the queue is rebuilt.
EnqueueInv ==
  phase = "enqueue" =>
    /\ cursor \in Tasks
    /\ queue["running"] = {} /\ queue["failed"] = {}
    /\ \A o \in Owners, t \in Tasks :
         <<o, t>> \in queue["pending"] \cup queue["done"] => o = NoWorker /\ t < cursor
    /\ \A t \in Tasks :
         t < cursor => (<<NoWorker, t>> \in queue["pending"]) # (<<NoWorker, t>> \in queue["done"])

\* The finished queue: at least and at most one descriptor for each task,
\* and the owner prefix of a descriptor is that of its directory.
Placed ==
  /\ \A t \in Tasks : \E d \in Dirs, o \in Owners : <<o, t>> \in queue[d]
  /\ \A t \in Tasks, d \in Dirs, e \in Dirs, o \in Owners, q \in Owners :
       <<o, t>> \in queue[d] /\ <<q, t>> \in queue[e] => e = d /\ q = o
  /\ \A t \in Tasks, o \in Owners : <<o, t>> \in queue["pending"] => o = NoWorker

PlaceInv == Built => Placed

\* A queue that workers claim from, or will, lists only tasks without evidence.
Claiming == (alive /\ phase \in {"enqueue", "working"}) \/ ~QuietWorkers
FreshPending == \A o \in Owners, t \in Tasks : <<o, t>> \in queue["pending"] => t \notin complete

\* Evidence follows the descriptors.
EvidenceInv ==
  /\ Claiming => FreshPending
  /\ alive /\ phase \in {"enqueue", "working", "gate", "count"} =>
       \A o \in Owners, t \in Tasks : <<o, t>> \in queue["done"] => t \in complete \cup V2Tasks
  /\ \A p \in Procs : pc[p] \in {"ran", "read", "rewritten"} /\ ok[p] => held[p] \in complete \cup V2Tasks

\* What the driver has already counted as empty.
CountInv ==
  phase = "count" =>
    /\ cursor \in 1 .. 3
    /\ ~bad /\ cursor > 1 => queue["pending"] = {}
    /\ ~bad /\ cursor > 2 => queue["running"] = {}

IInv ==
  /\ TypeOK
  /\ CrewInv
  /\ HoldInv
  /\ ClearInv
  /\ EnqueueInv
  /\ PlaceInv
  /\ EvidenceInv
  /\ CountInv

-----------------------------------------------------------------------------
\* Membership facts, so that the sets themselves stay folded.
LEMMA DescriptorFacts ==
  /\ \A o \in Owners, t \in Tasks : <<o, t>> \in Descriptors
  /\ NoWorker \in Owners
  /\ \A p \in Procs : p[2] \in Workers /\ p[2] \in Owners /\ p[2] # NoWorker
  BY QueueAssumption DEF Descriptors, Owners, Procs

LEMMA ProcFacts ==
  \A p, q \in Procs : p[1] = q[1] /\ p[2] = q[2] => p = q
  BY DEF Procs

LEMMA DirFacts ==
  /\ "pending" \in Dirs /\ "running" \in Dirs /\ "done" \in Dirs /\ "failed" \in Dirs
  /\ \A d \in Dirs : d = "pending" \/ d = "running" \/ d = "done" \/ d = "failed"
  BY DEF Dirs

LEMMA PcFacts ==
  /\ \A c \in LivePc : c \in PcValues
  /\ "off" \in PcValues /\ "exited" \in PcValues /\ "crashed" \in PcValues
  /\ "scan" \in PcValues /\ "try" \in PcValues /\ "claimed" \in PcValues
  /\ "run" \in PcValues /\ "ran" \in PcValues /\ "read" \in PcValues
  /\ "rewritten" \in PcValues
  BY DEF PcValues, LivePc

\* The type invariant with what the loops know of their index and of the
\* task they hold: TypeOK alone is not inductive.
TypeInv ==
  /\ TypeOK
  /\ phase = "enqueue" => cursor \in Tasks
  /\ \A p \in Procs : pc[p] \in HoldingPc => held[p] \in Tasks

LEMMA TypeInit == Init => TypeInv
<1> SUFFICES ASSUME Init
             PROVE  TypeInv
  OBVIOUS
<1>1. drive \in 1 .. MaxDrives /\ cursor \in Nat /\ crashes \in Nat
  BY QueueAssumption DEF Init
<1>2. pc \in [Procs -> PcValues] /\ \A p \in Procs : pc[p] = "off"
  BY PcFacts DEF Init
<1>3. held \in [Procs -> Tasks \cup {NoTask}]
  BY DEF Init
<1>4. phase \in Phases /\ phase # "enqueue"
  BY DEF Init, Phases
<1>5. QED
  BY <1>1, <1>2, <1>3, <1>4 DEF Init, TypeOK, TypeInv, HoldingPc

\* A process that dies keeps nothing, and nobody else is touched.
LEMMA DieFacts ==
  ASSUME TypeInv, NEW p \in Procs, Die(p)
  PROVE  /\ pc' \in [Procs -> PcValues] /\ pc'[p] = "crashed"
         /\ todo' \in [Procs -> SUBSET Tasks] /\ held' \in [Procs -> Tasks \cup {NoTask}]
         /\ ok' \in [Procs -> BOOLEAN] /\ failures' \in [Procs -> BOOLEAN]
         /\ \A q \in Procs : q # p => /\ pc'[q] = pc[q] /\ held'[q] = held[q]
                                      /\ ok'[q] = ok[q] /\ todo'[q] = todo[q]
<1> USE DEF Die, TypeInv, TypeOK
<1>1. pc' \in [Procs -> PcValues] /\ pc'[p] = "crashed" /\ \A q \in Procs : q # p => pc'[q] = pc[q]
  BY PcFacts
<1>2. todo' \in [Procs -> SUBSET Tasks] /\ \A q \in Procs : q # p => todo'[q] = todo[q]
  OBVIOUS
<1>3. held' \in [Procs -> Tasks \cup {NoTask}] /\ \A q \in Procs : q # p => held'[q] = held[q]
  OBVIOUS
<1>4. ok' \in [Procs -> BOOLEAN] /\ \A q \in Procs : q # p => ok'[q] = ok[q]
  OBVIOUS
<1>5. failures' \in [Procs -> BOOLEAN]
  OBVIOUS
<1> QED BY <1>1, <1>2, <1>3, <1>4, <1>5

LEMMA DieTypes ==
  ASSUME TypeInv, NEW p \in Procs, Die(p), UNCHANGED <<queue, driverVars>>,
         complete' \in SUBSET Tasks, crashes' \in Nat
  PROVE  TypeInv'
<1>1. \A q \in Procs : pc'[q] \in HoldingPc => held'[q] \in Tasks
  BY DieFacts DEF TypeInv, HoldingPc
<1> QED BY <1>1, DieFacts DEF TypeInv, TypeOK, driverVars

\* A run leaves the evidence of every other task as it was.
LEMMA RunLeaves ==
  ASSUME TypeInv, NEW p \in Procs, pc[p] = "run", LeavesEvidence(p)
  PROVE  complete' \in SUBSET Tasks /\ held[p] \in Tasks
<1>1. held[p] \in Tasks
  BY DEF TypeInv, HoldingPc
<1> QED BY <1>1 DEF LeavesEvidence, TypeInv, TypeOK

\* Starting or killing a worker gives nobody a task.
LEMMA DieFrame ==
  ASSUME TypeInv, NEW p \in Procs, LaunchWorker(p) \/ WorkerDies(p)
  PROVE  /\ UNCHANGED <<queue, driverVars>>
         /\ complete' = complete \/ (pc[p] = "run" /\ LeavesEvidence(p))
         /\ \A q \in Procs : pc'[q] \in HoldingPc \cup {"try", "exited"} =>
               pc'[q] = pc[q] /\ held'[q] = held[q] /\ ok'[q] = ok[q] /\ todo'[q] = todo[q]
<1>1. CASE LaunchWorker(p)
  BY <1>1 DEF LaunchWorker, HoldingPc, TypeInv, TypeOK
<1>2. CASE WorkerDies(p)
  <2>1. /\ Die(p) /\ UNCHANGED <<queue, driverVars>>
        /\ complete' = complete \/ (pc[p] = "run" /\ LeavesEvidence(p))
    BY <1>2 DEF WorkerDies
  <2> QED BY <2>1, DieFacts DEF HoldingPc
<1> QED BY <1>1, <1>2

\* A missing file ends the worker and changes no file.
LEMMA MissingFrame ==
  ASSUME TypeInv, NEW p \in Procs, FileMissing(p)
  PROVE  /\ TypeInv' /\ UNCHANGED <<queue, complete, driverVars>> /\ pc'[p] = "crashed"
         /\ \A q \in Procs : q # p =>
               pc'[q] = pc[q] /\ held'[q] = held[q] /\ ok'[q] = ok[q] /\ todo'[q] = todo[q]
<1>1. Die(p) /\ UNCHANGED <<queue, complete, driverVars>> /\ crashes' \in Nat
  BY DEF FileMissing, TypeInv, TypeOK
<1>2. complete' \in SUBSET Tasks
  BY <1>1 DEF TypeInv, TypeOK
<1> QED BY <1>1, <1>2, DieFacts, DieTypes

\* Every step of a worker keeps the types.
LEMMA TypeWorker ==
  ASSUME TypeInv, NEW p \in Procs, WorkerNext(p)
  PROVE  TypeInv'
<1> USE DEF TypeInv, TypeOK, HoldingPc
<1>1. CASE ScanPending(p) \/ NothingLeft(p)
  BY <1>1, PcFacts DEF ScanPending, NothingLeft, TasksIn, driverVars
<1>2. ASSUME NEW t \in Tasks, ClaimDescriptor(p, t)
      PROVE  TypeInv'
  <2>1. queue' \in [Dirs -> SUBSET Descriptors]
    BY <1>2, DescriptorFacts, DirFacts DEF ClaimDescriptor
  <2>2. pc' \in [Procs -> PcValues] /\ pc' = [pc EXCEPT ![p] = "claimed"]
    BY <1>2, PcFacts DEF ClaimDescriptor
  <2>3. /\ held' \in [Procs -> Tasks \cup {NoTask}] /\ held' = [held EXCEPT ![p] = t]
        /\ todo' = [todo EXCEPT ![p] = {}]
    BY <1>2 DEF ClaimDescriptor
  <2>4. UNCHANGED <<complete, driverVars, ok, failures, crashes>>
    BY <1>2 DEF ClaimDescriptor
  <2>5. \A q \in Procs : pc'[q] \in HoldingPc => held'[q] \in Tasks
    BY <2>2, <2>3
  <2> QED
    BY <2>1, <2>2, <2>3, <2>4, <2>5 DEF driverVars
<1>3. ASSUME NEW t \in Tasks, LoseRace(p, t)
      PROVE  TypeInv'
  BY <1>3 DEF LoseRace, driverVars
<1>4. CASE ReadPayload(p) \/ FinishRead(p)
  <2>1. CASE FileMissing(p)
    BY <2>1, MissingFrame
  <2>2. CASE ~FileMissing(p)
    BY <1>4, <2>2, PcFacts DEF ReadPayload, FinishRead, driverVars
  <2> QED BY <2>1, <2>2
<1>5. CASE RunTaskCompletes(p)
  BY <1>5, PcFacts DEF RunTaskCompletes, driverVars
<1>6. CASE RunTaskFails(p) \/ RunTaskUnverified(p)
  BY <1>6, PcFacts DEF RunTaskFails, RunTaskUnverified, LeavesEvidence, driverVars
<1>7. CASE FinishRewrite(p)
  <2>1. Mine(p) \in Descriptors
    BY <1>7, DescriptorFacts DEF FinishRewrite, Mine
  <2>2. QED
    BY <1>7, <2>1, PcFacts DEF FinishRewrite, driverVars
<1>8. CASE FinishRename(p)
  <2>1. Mine(p) \in Descriptors
    BY <1>8, DescriptorFacts DEF FinishRename, Mine
  <2>2. CASE FileMissing(p)
    BY <2>2, MissingFrame
  <2>3. CASE ~FileMissing(p)
    <3>1. queue' \in [Dirs -> SUBSET Descriptors]
      BY <1>8, <2>1, <2>3 DEF FinishRename
    <3>2. pc' \in [Procs -> PcValues] /\ pc' = [pc EXCEPT ![p] = "scan"]
      BY <1>8, <2>3, PcFacts DEF FinishRename
    <3>3. held' \in [Procs -> Tasks \cup {NoTask}] /\ held' = [held EXCEPT ![p] = NoTask]
      BY <1>8, <2>3 DEF FinishRename
    <3>4. /\ ok' \in [Procs -> BOOLEAN]
          /\ UNCHANGED <<complete, driverVars, todo, failures, crashes>>
      BY <1>8, <2>3 DEF FinishRename
    <3>5. QED
      BY <3>1, <3>2, <3>3, <3>4 DEF driverVars
  <2>4. QED
    BY <2>2, <2>3
<1>9. QED
  BY <1>1, <1>2, <1>3, <1>4, <1>5, <1>6, <1>7, <1>8 DEF WorkerNext

\* Every step keeps the types.
LEMMA TypeStep == TypeInv /\ [Next]_vars => TypeInv'
<1> SUFFICES ASSUME TypeInv, [Next]_vars
             PROVE  TypeInv'
  OBVIOUS
<1> USE DEF TypeInv, TypeOK
<1>1. CASE ClearDir
  <2>1. cursor' \in Nat /\ phase' \in Phases /\ (phase' = "enqueue" => cursor' \in Tasks)
    BY <1>1, QueueAssumption DEF ClearDir, Phases, Tasks
  <2>2. QED
    BY <1>1, <2>1 DEF ClearDir, procVars
<1>2. CASE EnqueueTask
  <2>1. cursor' \in Nat /\ phase' \in Phases /\ (phase' = "enqueue" => cursor' \in Tasks)
    BY <1>2, QueueAssumption DEF EnqueueTask, Phases, Tasks
  <2>2. <<NoWorker, cursor>> \in Descriptors
    BY <1>2, DescriptorFacts DEF EnqueueTask
  <2>3. queue' \in [Dirs -> SUBSET Descriptors]
    BY <1>2, <2>2 DEF EnqueueTask
  <2>4. QED
    BY <1>2, <2>1, <2>3 DEF EnqueueTask, procVars
<1>3. CASE WaitWorkers \/ PostProcess \/ CountDir
  <2>0. bad' \in BOOLEAN
    BY <1>3, Zenon DEF WaitWorkers, PostProcess, CountDir
  <2>1. cursor' \in Nat /\ phase' \in Phases /\ phase' # "enqueue"
    <3>1. CASE WaitWorkers
      BY <3>1 DEF WaitWorkers, Phases
    <3>2. CASE PostProcess
      BY <3>2 DEF PostProcess, Phases
    <3>3. CASE CountDir
      BY <3>3 DEF CountDir, Phases
    <3>4. QED
      BY <1>3, <3>1, <3>2, <3>3
  <2>2. UNCHANGED <<queue, complete, drive, alive, procVars, crashes>>
    BY <1>3 DEF WaitWorkers, PostProcess, CountDir
  <2>3. QED
    BY <2>0, <2>1, <2>2 DEF procVars
<1>4. CASE DriverDies
  <2>0. alive' \in BOOLEAN
    BY <1>4 DEF DriverDies
  <2>1. crashes' \in Nat
    BY <1>4 DEF DriverDies
  <2>2. UNCHANGED <<queue, complete, drive, phase, cursor, bad, procVars>>
    BY <1>4 DEF DriverDies
  <2>3. QED
    BY <2>0, <2>1, <2>2 DEF procVars
<1>5. CASE ResumeRun
  <2>1. drive' \in 1 .. MaxDrives /\ cursor' \in Nat /\ phase' \in Phases /\ phase' # "enqueue"
    BY <1>5, QueueAssumption DEF ResumeRun, Phases
  <2>2. QED
    BY <1>5, <2>1 DEF ResumeRun, procVars
<1>6. ASSUME NEW t \in Tasks, EvidenceChanges(t)
      PROVE  TypeInv'
  BY <1>6 DEF EvidenceChanges, driverVars, procVars
<1>7. ASSUME NEW p \in Procs, LaunchWorker(p) \/ WorkerDies(p)
      PROVE  TypeInv'
  <2>1. CASE LaunchWorker(p)
    BY <1>7, <2>1, PcFacts DEF LaunchWorker, driverVars, HoldingPc
  <2>2. CASE WorkerDies(p)
    <3>1. complete' \in SUBSET Tasks
      BY <2>2, RunLeaves DEF WorkerDies
    <3> QED BY <2>2, <3>1, DieTypes DEF WorkerDies
  <2> QED BY <1>7, <2>1, <2>2
<1>8. ASSUME NEW p \in Procs, WorkerNext(p)
      PROVE  TypeInv'
  BY <1>8, TypeWorker
<1>9. CASE UNCHANGED vars
  BY <1>9 DEF vars
<1>10. QED
  BY <1>1, <1>2, <1>3, <1>4, <1>5, <1>6, <1>7, <1>8, <1>9 DEF Next, DriverNext

\* Every variable keeps its type.
THEOREM TypeCorrect == Spec => []TypeOK
<1>1. TypeInv => TypeOK
  BY DEF TypeInv
<1>2. QED
  BY TypeInit, TypeStep, <1>1, PTL DEF Spec

-----------------------------------------------------------------------------
\* A worker steps only in phase working, in the drive that launched it.
LEMMA WorkerActs ==
  ASSUME CrewInv, NEW p \in Procs, WorkerNext(p) \/ WorkerDies(p)
  PROVE  phase = "working" /\ p[1] = drive /\ p \in Crew /\ Live(p)
<1>1. Live(p)
  BY DEF WorkerNext, WorkerDies, Live, LivePc, ScanPending, ClaimDescriptor, LoseRace,
    NothingLeft, ReadPayload, RunTaskCompletes, RunTaskUnverified, RunTaskFails, FinishRead,
    FinishRewrite, FinishRename
<1>2. phase = "working" /\ p[1] = drive
  BY <1>1 DEF CrewInv
<1>3. p \in Crew
  BY <1>2 DEF Crew, Procs
<1>4. QED
  BY <1>1, <1>2, <1>3

\* A worker step changes its own control point only, and no driver variable.
LEMMA WorkerFrame ==
  ASSUME TypeInv, NEW p \in Procs, WorkerNext(p) \/ WorkerDies(p)
  PROVE  /\ UNCHANGED driverVars
         /\ pc' \in [Procs -> PcValues]
         /\ \A q \in Procs : q # p => pc'[q] = pc[q] /\ held'[q] = held[q]
                                      /\ ok'[q] = ok[q] /\ todo'[q] = todo[q]
<1>1. UNCHANGED driverVars
  BY DEF WorkerNext, WorkerDies, ScanPending, ClaimDescriptor, LoseRace, NothingLeft,
    ReadPayload, RunTaskCompletes, RunTaskUnverified, RunTaskFails, FinishRead, FinishRewrite,
    FinishRename, FileMissing, Die
<1>2. pc' \in [Procs -> PcValues] /\ \A q \in Procs : q # p => pc'[q] = pc[q]
  <2>1. pc' \in [Procs -> PcValues]
    BY TypeWorker, PcFacts DEF WorkerDies, Die, TypeInv, TypeOK
  <2>2. pc' = pc \/ \E c \in PcValues : pc' = [pc EXCEPT ![p] = c]
    BY PcFacts DEF WorkerNext, WorkerDies, ScanPending, ClaimDescriptor, LoseRace, NothingLeft,
      ReadPayload, RunTaskCompletes, RunTaskUnverified, RunTaskFails, FinishRead, FinishRewrite,
      FinishRename, FileMissing, Die
  <2>3. QED
    BY <2>1, <2>2 DEF TypeInv, TypeOK
<1>3. held' = held \/ \E h \in Tasks \cup {NoTask} : held' = [held EXCEPT ![p] = h]
  BY DEF WorkerNext, WorkerDies, ScanPending, ClaimDescriptor, LoseRace, NothingLeft,
    ReadPayload, RunTaskCompletes, RunTaskUnverified, RunTaskFails, FinishRead, FinishRewrite,
    FinishRename, FileMissing, Die
<1>4. ok' = ok \/ \E b \in BOOLEAN : ok' = [ok EXCEPT ![p] = b]
  BY DEF WorkerNext, WorkerDies, ScanPending, ClaimDescriptor, LoseRace, NothingLeft,
    ReadPayload, RunTaskCompletes, RunTaskUnverified, RunTaskFails, FinishRead, FinishRewrite,
    FinishRename, FileMissing, Die
<1>5. todo' = todo \/ \E T : todo' = [todo EXCEPT ![p] = T]
  BY DEF WorkerNext, WorkerDies, ScanPending, ClaimDescriptor, LoseRace, NothingLeft,
    ReadPayload, RunTaskCompletes, RunTaskUnverified, RunTaskFails, FinishRead, FinishRewrite,
    FinishRename, FileMissing, Die
<1>6. QED
  BY <1>1, <1>2, <1>3, <1>4, <1>5 DEF TypeInv, TypeOK

\* Only workers of the current drive live: a resume waits for the others.
LEMMA CrewStep ==
  ASSUME ~OrphanWorkers, TypeInv, TypeInv', CrewInv, [Next]_vars
  PROVE  CrewInv'
<1> USE DEF CrewInv, Crew, TypeInv, TypeOK
<1>1. CASE ClearDir \/ EnqueueTask
  <2>1. \A p \in Procs : ~Live(p)
    BY <1>1 DEF ClearDir, EnqueueTask
  <2>2. UNCHANGED <<drive, pc>>
    BY <1>1 DEF ClearDir, EnqueueTask, procVars
  <2>3. phase \in {"clear", "enqueue"}
    BY <1>1 DEF ClearDir, EnqueueTask
  <2>4. QED
    BY <2>1, <2>2, <2>3 DEF Live
<1>2. CASE WaitWorkers
  <2>1. \A p \in Procs : ~Live(p)
    BY <1>2 DEF WaitWorkers, Live, LivePc, Ended, Procs
  <2>2. QED
    BY <1>2, <2>1 DEF WaitWorkers, procVars, Live
<1>3. CASE PostProcess \/ CountDir \/ DriverDies
  <2>1. UNCHANGED <<drive, pc>> /\ (phase' = phase \/ (phase # "working" /\ phase' \notin {"clear", "enqueue"}))
    <3>1. CASE PostProcess
      BY <3>1 DEF PostProcess, procVars
    <3>2. CASE CountDir
      BY <3>2 DEF CountDir, procVars
    <3>3. CASE DriverDies
      BY <3>3 DEF DriverDies, procVars
    <3>4. QED
      BY <1>3, <3>1, <3>2, <3>3
  <2>2. QED
    BY <2>1 DEF Live
<1>4. CASE ResumeRun
  <2>1. \A p \in Procs : ~Live(p)
    BY <1>4 DEF ResumeRun, QuietWorkers
  <2>2. drive' = drive + 1 /\ pc' = pc
    BY <1>4 DEF ResumeRun, procVars
  <2>3. \A p \in Procs : p[1] > drive' => p[1] > drive
    BY <2>2 DEF Procs
  <2>4. \A w \in Workers : <<drive', w>> \in Procs
    BY DEF Procs
  <2>5. QED
    BY <2>1, <2>2, <2>3, <2>4 DEF Live
<1>5. ASSUME NEW t \in Tasks, EvidenceChanges(t)
      PROVE  CrewInv'
  BY <1>5 DEF EvidenceChanges, driverVars, procVars, Live
<1>6. ASSUME NEW p \in Procs, LaunchWorker(p)
      PROVE  CrewInv'
  BY <1>6 DEF LaunchWorker, driverVars, Live
<1>7. ASSUME NEW p \in Procs, WorkerNext(p) \/ WorkerDies(p)
      PROVE  CrewInv'
  BY <1>7, WorkerActs, WorkerFrame DEF driverVars, Live
<1>8. CASE UNCHANGED vars
  BY <1>8 DEF vars, Live
<1>9. QED
  BY <1>1, <1>2, <1>3, <1>4, <1>5, <1>6, <1>7, <1>8 DEF Next, DriverNext

\* Renaming a task's only descriptor leaves it with one descriptor.
LEMMA MoveKeepsPlace ==
  ASSUME TypeInv, Placed,
         NEW c \in Dirs, NEW d \in Dirs, NEW o \in Owners, NEW r \in Owners, NEW t \in Tasks,
         c # d, d # "pending", <<o, t>> \in queue[c],
         queue' = [queue EXCEPT ![c] = @ \ {<<o, t>>}, ![d] = @ \cup {<<r, t>>}]
  PROVE  Placed'
<1>1. queue'[c] = queue[c] \ {<<o, t>>} /\ queue'[d] = queue[d] \cup {<<r, t>>}
  BY DEF TypeInv, TypeOK
<1>2. \A e \in Dirs : e # c /\ e # d => queue'[e] = queue[e]
  BY DEF TypeInv, TypeOK
<1>3. ASSUME NEW u \in Tasks, NEW e \in Dirs, NEW q \in Owners, u # t
      PROVE  <<q, u>> \in queue'[e] <=> <<q, u>> \in queue[e]
  <2>1. <<q, u>> # <<o, t>> /\ <<q, u>> # <<r, t>>
    BY <1>3
  <2>2. QED
    BY <1>1, <1>2, <2>1
<1>4. ASSUME NEW e \in Dirs, NEW q \in Owners, <<q, t>> \in queue'[e]
      PROVE  e = d /\ q = r
  <2>1. \A f \in Dirs, s \in Owners : <<s, t>> \in queue[f] => f = c /\ s = o
    BY DEF Placed
  <2>2. e # c
    BY <1>1, <1>4, <2>1
  <2>3. e = d
    BY <1>2, <1>4, <2>1, <2>2
  <2>4. <<q, t>> \notin queue[d]
    BY <2>1
  <2>5. <<q, t>> = <<r, t>>
    BY <1>1, <1>4, <2>3, <2>4
  <2>6. QED
    BY <2>3, <2>5
<1>5. ASSUME NEW u \in Tasks
      PROVE  \E e \in Dirs, q \in Owners : <<q, u>> \in queue'[e]
  <2>1. CASE u = t
    BY <1>1, <2>1
  <2>2. CASE u # t
    <3>1. PICK e \in Dirs, q \in Owners : <<q, u>> \in queue[e]
      BY DEF Placed
    <3>2. QED
      BY <1>3, <2>2, <3>1
  <2>3. QED
    BY <2>1, <2>2
<1>6. ASSUME NEW u \in Tasks, NEW q \in Owners, <<q, u>> \in queue'["pending"]
      PROVE  q = NoWorker
  <2>1. u # t
    BY <1>4, <1>6, DirFacts
  <2>2. <<q, u>> \in queue["pending"]
    BY <1>3, <1>6, <2>1, DirFacts
  <2>3. QED
    BY <2>2 DEF Placed
<1>7. ASSUME NEW u \in Tasks, NEW e \in Dirs, NEW f \in Dirs, NEW q \in Owners, NEW s \in Owners,
             <<q, u>> \in queue'[e], <<s, u>> \in queue'[f]
      PROVE  f = e /\ s = q
  <2>1. CASE u = t
    BY <1>4, <1>7, <2>1
  <2>2. CASE u # t
    <3>1. <<q, u>> \in queue[e] /\ <<s, u>> \in queue[f]
      BY <1>3, <1>7, <2>2
    <3>2. QED
      BY <1>7, <3>1 DEF Placed
  <2>3. QED
    BY <2>1, <2>2
<1>8. \A u \in Tasks : \E e \in Dirs, q \in Owners : <<q, u>> \in queue'[e]
  BY <1>5
<1>9. \A u \in Tasks, q \in Owners : <<q, u>> \in queue'["pending"] => q = NoWorker
  BY <1>6
<1>10. \A u \in Tasks, e \in Dirs, f \in Dirs, q \in Owners, s \in Owners :
         <<q, u>> \in queue'[e] /\ <<s, u>> \in queue'[f] => f = e /\ s = q
  BY <1>7
<1>11. QED
  BY <1>8, <1>9, <1>10, Zenon DEF Placed

\* The end of the rebuild: every task queued once makes the queue placed.
LEMMA EnqueueStep ==
  ASSUME TypeInv, EnqueueInv, EnqueueTask
  PROVE  (phase' = "enqueue" => EnqueueInv') /\ (Built' => Placed')
<1> DEFINE d == IF cursor \in complete THEN "done" ELSE "pending"
<1> USE DEF EnqueueTask
<1>1. d \in Dirs /\ (d = "pending" \/ d = "done")
  BY DirFacts
<1>2. queue'[d] = queue[d] \cup {<<NoWorker, cursor>>}
  BY <1>1 DEF TypeInv, TypeOK
<1>3. \A e \in Dirs : e # d => queue'[e] = queue[e]
  BY <1>1 DEF TypeInv, TypeOK
<1> HIDE DEF d
<1>4. queue["running"] = {} /\ queue["failed"] = {} /\ cursor \in Tasks
  BY DEF EnqueueInv
<1>5. queue'["running"] = {} /\ queue'["failed"] = {}
  BY <1>1, <1>3, <1>4, DirFacts
<1>6. ASSUME NEW o \in Owners, NEW t \in Tasks, <<o, t>> \in queue'["pending"] \cup queue'["done"]
      PROVE  o = NoWorker /\ t <= cursor /\
             (t < cursor => <<o, t>> \in queue["pending"] \cup queue["done"])
  <2>1. <<o, t>> = <<NoWorker, cursor>> \/ <<o, t>> \in queue["pending"] \cup queue["done"]
    BY <1>1, <1>2, <1>3, <1>6, DirFacts
  <2>2. QED
    BY <2>1, <1>4 DEF EnqueueInv, Tasks
<1>7. ASSUME NEW t \in Tasks, t <= cursor
      PROVE  (<<NoWorker, t>> \in queue'["pending"]) # (<<NoWorker, t>> \in queue'["done"])
  <2>1. CASE t = cursor
    <3>1. <<NoWorker, t>> \notin queue["pending"] \cup queue["done"]
      BY <2>1, <1>4, DescriptorFacts DEF EnqueueInv, Tasks
    <3>2. QED
      BY <3>1, <2>1, <1>1, <1>2, <1>3, DirFacts
  <2>2. CASE t # cursor
    <3>1. t < cursor
      BY <1>7, <2>2, <1>4 DEF Tasks
    <3>2. <<NoWorker, t>> # <<NoWorker, cursor>>
      BY <2>2
    <3>3. (<<NoWorker, t>> \in queue["pending"]) # (<<NoWorker, t>> \in queue["done"])
      BY <3>1 DEF EnqueueInv
    <3>4. QED
      BY <3>2, <3>3, <1>1, <1>2, <1>3, DirFacts
  <2>3. QED
    BY <2>1, <2>2
<1>8. CASE phase' = "enqueue"
  <2>1. cursor' = cursor + 1 /\ cursor < NTasks
    BY <1>8
  <2>2. cursor' \in Tasks /\ \A t \in Tasks : t < cursor' <=> t <= cursor
    BY <2>1, <1>4, QueueAssumption DEF Tasks
  <2>3. EnqueueInv'
    BY <2>2, <1>5, <1>6, <1>7 DEF EnqueueInv
  <2>4. QED
    BY <1>8, <2>3 DEF Built
<1>9. CASE phase' # "enqueue"
  <2>1. \A t \in Tasks : t <= cursor
    BY <1>9, <1>4, QueueAssumption DEF Tasks
  <2>2. ASSUME NEW t \in Tasks
        PROVE  \E e \in Dirs, o \in Owners : <<o, t>> \in queue'[e]
    BY <2>1, <1>7, DirFacts, DescriptorFacts
  <2>3. ASSUME NEW t \in Tasks, NEW e \in Dirs, NEW f \in Dirs, NEW o \in Owners, NEW q \in Owners,
               <<o, t>> \in queue'[e], <<q, t>> \in queue'[f]
        PROVE  f = e /\ q = o
    <3>1. (e = "pending" \/ e = "done") /\ (f = "pending" \/ f = "done")
      BY <1>5, <2>3, DirFacts
    <3>2. o = NoWorker /\ q = NoWorker
      BY <3>1, <1>6, <2>3
    <3>3. QED
      BY <3>1, <3>2, <2>1, <1>7, <2>3
  <2>4. \A t \in Tasks, o \in Owners : <<o, t>> \in queue'["pending"] => o = NoWorker
    BY <1>6
  <2>5. QED
    BY <1>9, <2>2, <2>3, <2>4 DEF Placed
<1>10. QED
  BY <1>8, <1>9

\* What a worker step does to the queue and to the claims of all workers.
LEMMA QueueWorker ==
  ASSUME TypeInv, TypeInv', CrewInv, HoldInv, PlaceInv, NEW p \in Procs, WorkerNext(p)
  PROVE  HoldInv' /\ Placed'
<1>1. phase = "working" /\ p[1] = drive /\ Live(p)
  BY WorkerActs
<1>2. Placed
  BY <1>1 DEF PlaceInv, Built
<1>3. \A q \in Procs : q # p => pc'[q] = pc[q] /\ held'[q] = held[q]
  BY WorkerFrame
<1>4. \A q \in Procs : q # p /\ pc[q] \in HoldingPc => Mine(q) # Mine(p)
  BY <1>1, ProcFacts DEF CrewInv, Live, LivePc, HoldingPc, Mine
<1>5. ASSUME queue' = queue, held' = held,
             pc'[p] \in HoldingPc => pc[p] \in HoldingPc
      PROVE  HoldInv' /\ Placed'
  BY <1>2, <1>3, <1>5 DEF HoldInv, Placed, Mine
<1>6. CASE ScanPending(p) \/ NothingLeft(p)
  BY <1>5, <1>6 DEF ScanPending, NothingLeft, HoldingPc, TypeInv, TypeOK
<1>7. ASSUME NEW t \in Tasks, ClaimDescriptor(p, t)
      PROVE  HoldInv' /\ Placed'
  <2>1. queue' = [queue EXCEPT !["pending"] = @ \ {<<NoWorker, t>>},
                               !["running"] = @ \cup {<<p[2], t>>}]
        /\ <<NoWorker, t>> \in queue["pending"]
    BY <1>7 DEF ClaimDescriptor
  <2>2. Placed'
    <3> DEFINE o == NoWorker
               r == p[2]
    <3>1. o \in Owners /\ r \in Owners
      BY DescriptorFacts
    <3> HIDE DEF o, r
    <3>2. queue' = [queue EXCEPT !["pending"] = @ \ {<<o, t>>}, !["running"] = @ \cup {<<r, t>>}]
          /\ <<o, t>> \in queue["pending"]
      BY <2>1 DEF o, r
    <3>3. QED
      BY <1>2, <3>1, <3>2, DirFacts, MoveKeepsPlace
  <2>3. queue'["running"] = queue["running"] \cup {<<p[2], t>>}
    BY <2>1, DirFacts DEF TypeInv, TypeOK
  <2>4. held'[p] = t
    BY <1>7 DEF ClaimDescriptor, TypeInv, TypeOK
  <2>5. HoldInv'
    BY <1>3, <2>3, <2>4 DEF HoldInv, Mine
  <2>6. QED
    BY <2>2, <2>5
<1>8. ASSUME NEW t \in Tasks, LoseRace(p, t)
      PROVE  HoldInv' /\ Placed'
  BY <1>5, <1>8 DEF LoseRace
<1>9. CASE ReadPayload(p) \/ FinishRead(p)
  <2>1. CASE FileMissing(p)
    BY <1>2, <2>1, MissingFrame DEF HoldInv, HoldingPc, Mine, Placed
  <2>2. CASE ~FileMissing(p)
    BY <1>5, <1>9, <2>2 DEF ReadPayload, FinishRead, HoldingPc
  <2> QED BY <2>1, <2>2
<1>10. CASE RunTaskCompletes(p) \/ RunTaskUnverified(p) \/ RunTaskFails(p)
  BY <1>5, <1>10 DEF RunTaskCompletes, RunTaskUnverified, RunTaskFails, HoldingPc
<1>11. CASE FinishRewrite(p)
  <2>1. Mine(p) \in queue["running"] /\ pc[p] \in HoldingPc
    BY <1>11 DEF FinishRewrite, HoldInv, HoldingPc
  <2>2. queue' = queue
    BY <1>11, <2>1, DirFacts DEF FinishRewrite, TypeInv, TypeOK
  <2>3. QED
    BY <1>5, <1>11, <2>1, <2>2 DEF FinishRewrite
<1>12. CASE FinishRename(p)
  <2>1. Mine(p) \in queue["running"] /\ held[p] \in Tasks
    BY <1>12 DEF FinishRename, HoldInv, HoldingPc
  <2>2. PICK d \in {"done", "failed"} :
          queue' = [queue EXCEPT !["running"] = @ \ {Mine(p)}, ![d] = @ \cup {Mine(p)}]
    BY <1>12, <2>1 DEF FinishRename, FileMissing, Die
  <2>3. pc'[p] = "scan"
    BY <1>12, <2>1 DEF FinishRename, FileMissing, Die, TypeInv, TypeOK
  <2>4. Placed'
    <3> DEFINE o == p[2]
               t == held[p]
    <3>1. o \in Owners /\ t \in Tasks
      BY <2>1, DescriptorFacts
    <3>2. <<o, t>> = Mine(p)
      BY DEF Mine
    <3> HIDE DEF o, t
    <3>3. d \in Dirs /\ "running" \in Dirs /\ "running" # d /\ d # "pending"
      BY DirFacts
    <3>4. /\ <<o, t>> \in queue["running"]
          /\ queue' = [queue EXCEPT !["running"] = @ \ {<<o, t>>}, ![d] = @ \cup {<<o, t>>}]
      BY <2>1, <2>2, <3>2
    <3>5. QED
      BY <1>2, <3>1, <3>3, <3>4, MoveKeepsPlace
  <2>5. queue'["running"] = queue["running"] \ {Mine(p)}
    BY <2>2, DirFacts DEF TypeInv, TypeOK
  <2>6. HoldInv'
    BY <1>3, <1>4, <2>3, <2>5 DEF HoldInv, HoldingPc, Mine
  <2>7. QED
    BY <2>4, <2>6
<1>13. QED
  BY <1>6, <1>7, <1>8, <1>9, <1>10, <1>11, <1>12 DEF WorkerNext

\* The rebuild and the shape of the queue, over every step.
LEMMA QueueStep ==
  ASSUME TypeInv, TypeInv', CrewInv, HoldInv, ClearInv, EnqueueInv, PlaceInv, [Next]_vars
  PROVE  HoldInv' /\ ClearInv' /\ EnqueueInv' /\ PlaceInv'
<1>1. ASSUME UNCHANGED <<queue, pc, held>>, phase' = phase, cursor' = cursor
      PROVE  HoldInv' /\ ClearInv' /\ EnqueueInv' /\ PlaceInv'
  BY <1>1 DEF HoldInv, ClearInv, EnqueueInv, PlaceInv, Placed, Built, Mine
<1>2. ASSUME UNCHANGED <<queue, pc, held>>, Built, Built'
      PROVE  HoldInv' /\ ClearInv' /\ EnqueueInv' /\ PlaceInv'
  BY <1>2 DEF HoldInv, ClearInv, EnqueueInv, PlaceInv, Placed, Built, Mine
<1>3. CASE ClearDir
  <2>1. \A p \in Procs : pc'[p] \notin HoldingPc
    BY <1>3 DEF ClearDir, CrewInv, Live, LivePc, HoldingPc, procVars
  <2>2. ~Built' /\ phase = "clear" /\ cursor \in 1 .. 4
    BY <1>3 DEF ClearDir, Built, ClearInv
  <2>3. \A d \in Dirs : queue'[d] = IF d = QueueStates[cursor] THEN {} ELSE queue[d]
    BY <1>3 DEF ClearDir, TypeInv, TypeOK
  <2>4. /\ cursor = 1 => QueueStates[cursor] = "pending"
        /\ cursor = 2 => QueueStates[cursor] = "running"
        /\ cursor = 3 => QueueStates[cursor] = "done"
        /\ cursor = 4 => QueueStates[cursor] = "failed"
    BY DEF QueueStates
  <2>5. cursor = 1 \/ cursor = 2 \/ cursor = 3 \/ cursor = 4
    BY <2>2
  <2>6. ClearInv'
    BY <1>3, <2>2, <2>3, <2>4, <2>5, DirFacts DEF ClearDir, ClearInv
  <2>7. EnqueueInv'
    <3>1. CASE cursor < 4
      BY <1>3, <3>1 DEF ClearDir, EnqueueInv
    <3>2. CASE cursor = 4
      <4>1. \A d \in Dirs : queue'[d] = {}
        BY <2>2, <2>3, <2>4, <3>2, DirFacts DEF ClearInv
      <4>2. cursor' = 1 /\ 1 \in Tasks /\ \A t \in Tasks : ~(t < 1)
        BY <1>3, <3>2, QueueAssumption DEF ClearDir, Tasks
      <4>3. QED
        BY <4>1, <4>2, DirFacts DEF EnqueueInv
    <3>3. QED
      BY <2>5, <3>1, <3>2
  <2>8. QED
    BY <2>1, <2>2, <2>6, <2>7 DEF HoldInv, PlaceInv
<1>4. CASE EnqueueTask
  <2>1. \A p \in Procs : pc'[p] \notin HoldingPc
    BY <1>4 DEF EnqueueTask, CrewInv, Live, LivePc, HoldingPc, procVars
  <2>2. phase' # "clear" /\ (phase' # "enqueue" => EnqueueInv')
    BY <1>4 DEF EnqueueTask, EnqueueInv
  <2>3. QED
    BY <1>4, <2>1, <2>2, EnqueueStep DEF HoldInv, ClearInv, PlaceInv
<1>5. CASE WaitWorkers \/ PostProcess \/ CountDir
  BY <1>2, <1>5 DEF WaitWorkers, PostProcess, CountDir, Built, procVars
<1>6. CASE DriverDies
  BY <1>1, <1>6 DEF DriverDies, procVars
<1>7. CASE ResumeRun
  <2>1. phase' = "clear" /\ cursor' = 1 /\ UNCHANGED <<queue, pc, held>>
    BY <1>7 DEF ResumeRun, procVars
  <2>2. QED
    BY <2>1 DEF HoldInv, ClearInv, EnqueueInv, PlaceInv, Built, Mine
<1>8. ASSUME NEW t \in Tasks, EvidenceChanges(t)
      PROVE  HoldInv' /\ ClearInv' /\ EnqueueInv' /\ PlaceInv'
  BY <1>1, <1>8 DEF EvidenceChanges, driverVars, procVars
<1>9. ASSUME NEW p \in Procs, LaunchWorker(p) \/ WorkerDies(p)
      PROVE  HoldInv' /\ ClearInv' /\ EnqueueInv' /\ PlaceInv'
  <2>1. UNCHANGED <<queue, phase, cursor>>
    BY <1>9, DieFrame DEF driverVars
  <2>2. \A q \in Procs : pc'[q] \in HoldingPc => pc[q] \in HoldingPc /\ held'[q] = held[q]
    BY <1>9, DieFrame
  <2>3. QED
    BY <2>1, <2>2 DEF HoldInv, ClearInv, EnqueueInv, PlaceInv, Placed, Built, Mine
<1>10. ASSUME NEW p \in Procs, WorkerNext(p)
       PROVE  HoldInv' /\ ClearInv' /\ EnqueueInv' /\ PlaceInv'
  <2>1. phase' = "working"
    BY <1>10, WorkerActs, WorkerFrame DEF driverVars
  <2>2. QED
    BY <1>10, <2>1, QueueWorker DEF ClearInv, EnqueueInv, PlaceInv
<1>11. CASE UNCHANGED vars
  BY <1>1, <1>11 DEF vars
<1>12. QED
  BY <1>3, <1>4, <1>5, <1>6, <1>7, <1>8, <1>9, <1>10, <1>11 DEF Next, DriverNext

\* Descriptors in running/ and their holders correspond one to one.
LEMMA HeldByOne ==
  ASSUME CrewInv, HoldInv, PlaceInv, NEW p \in Procs, NEW q \in Procs,
         pc[p] \in HoldingPc, pc[q] \in HoldingPc, held[p] = held[q]
  PROVE  p = q
<1>1. Live(p) /\ Live(q)
  BY DEF Live, LivePc, HoldingPc
<1>2. p[1] = q[1] /\ phase = "working"
  BY <1>1 DEF CrewInv
<1>3. Mine(p) \in queue["running"] /\ Mine(q) \in queue["running"] /\ held[p] \in Tasks
  BY DEF HoldInv
<1>4. p[2] = q[2]
  BY <1>2, <1>3, DirFacts, DescriptorFacts DEF PlaceInv, Placed, Built, Mine
<1> QED BY <1>2, <1>4, ProcFacts

\* A run that fails or is killed disturbs no evidence that the queue or another
\* worker counts on.
EvidenceKept(p) ==
  /\ \A o \in Owners, t \in Tasks : <<o, t>> \in queue["pending"] => t \notin complete'
  /\ alive /\ phase \in {"enqueue", "working", "gate", "count"} =>
       \A o \in Owners, t \in Tasks : <<o, t>> \in queue["done"] => t \in complete' \cup V2Tasks
  /\ \A q \in Procs : q # p /\ pc[q] \in {"ran", "read", "rewritten"} /\ ok[q] =>
       held[q] \in complete' \cup V2Tasks

LEMMA RunKeeps ==
  ASSUME TypeInv, CrewInv, HoldInv, PlaceInv, EvidenceInv, NEW p \in Procs,
         pc[p] = "run", LeavesEvidence(p)
  PROVE  EvidenceKept(p)
<1>1. Live(p) /\ pc[p] \in HoldingPc
  BY DEF Live, LivePc, HoldingPc
<1>2. Placed /\ FreshPending
  BY <1>1 DEF CrewInv, PlaceInv, Built, EvidenceInv, Claiming, QuietWorkers
<1>3. Mine(p) \in queue["running"] /\ held[p] \in Tasks
  BY <1>1 DEF HoldInv
<1>4. \A o \in Owners : <<o, held[p]>> \notin queue["pending"] \cup queue["done"]
  BY <1>2, <1>3, DirFacts, DescriptorFacts DEF Placed, Mine
<1>5. \A q \in Procs : q # p /\ pc[q] \in HoldingPc => held[q] # held[p]
  BY <1>1, HeldByOne
<1>6. \A t \in Tasks : t # held[p] => (t \in complete' <=> t \in complete)
  BY DEF LeavesEvidence
<1>7. \A o \in Owners, t \in Tasks : <<o, t>> \in queue["pending"] => t \notin complete'
  BY <1>2, <1>4, <1>6 DEF FreshPending
<1>8. alive /\ phase \in {"enqueue", "working", "gate", "count"} =>
        \A o \in Owners, t \in Tasks : <<o, t>> \in queue["done"] => t \in complete' \cup V2Tasks
  BY <1>4, <1>6 DEF EvidenceInv
<1>9. ASSUME NEW q \in Procs, q # p, pc[q] \in {"ran", "read", "rewritten"}, ok[q]
      PROVE  held[q] \in complete' \cup V2Tasks
  <2>1. pc[q] \in HoldingPc /\ held[q] \in Tasks
    BY <1>9 DEF HoldingPc, HoldInv
  <2> QED BY <1>5, <1>6, <1>9, <2>1 DEF EvidenceInv
<1> QED BY <1>7, <1>8, <1>9 DEF EvidenceKept

\* Descriptors in pending/ are of incomplete tasks and, while the driver
\* lives, descriptors in done/ are of complete ones.
LEMMA EvidenceStep ==
  ASSUME TypeInv, TypeInv', CrewInv, HoldInv, EnqueueInv, ClearInv, PlaceInv, EvidenceInv, [Next]_vars
  PROVE  EvidenceInv'
<1>1. ASSUME UNCHANGED <<queue, complete, held, ok>>,
             \A p \in Procs : pc'[p] \in {"ran", "read", "rewritten"} => pc[p] \in {"ran", "read", "rewritten"},
             Claiming' => Claiming,
             alive' /\ phase' \in {"enqueue", "working", "gate", "count"} =>
               alive /\ phase \in {"enqueue", "working", "gate", "count"}
      PROVE  EvidenceInv'
  BY <1>1 DEF EvidenceInv, FreshPending
<1>2. CASE ClearDir
  <2>1. \A p \in Procs : pc'[p] \notin {"ran", "read", "rewritten"}
    BY <1>2 DEF ClearDir, CrewInv, Live, LivePc, procVars
  <2>2. phase' = "enqueue" => queue'["pending"] = {}
    BY <1>2, DirFacts DEF ClearDir, ClearInv, TypeInv, TypeOK, QueueStates
  <2>5. Claiming' => phase' = "enqueue"
    BY <1>2 DEF ClearDir, Claiming, QuietWorkers, CrewInv, Live, procVars
  <2>3. phase' \in {"enqueue", "working", "gate", "count"} => queue'["done"] = {}
    <3>1. CASE cursor < 4
      BY <1>2, <3>1 DEF ClearDir
    <3>2. CASE ~(cursor < 4)
      BY <1>2, <3>2, DirFacts DEF ClearDir, ClearInv, TypeInv, TypeOK, QueueStates
    <3>3. QED
      BY <3>1, <3>2
  <2>4. QED
    BY <1>2, <2>1, <2>2, <2>3, <2>5 DEF ClearDir, EvidenceInv, FreshPending
<1>3. CASE EnqueueTask
  <2>1. \A p \in Procs : pc'[p] \notin {"ran", "read", "rewritten"}
    BY <1>3 DEF EnqueueTask, CrewInv, Live, LivePc, procVars
  <2>2. queue'["pending"] = IF cursor \in complete THEN queue["pending"]
                            ELSE queue["pending"] \cup {<<NoWorker, cursor>>}
    BY <1>3, DirFacts DEF EnqueueTask, TypeInv, TypeOK
  <2>3. queue'["done"] = IF cursor \in complete THEN queue["done"] \cup {<<NoWorker, cursor>>}
                         ELSE queue["done"]
    BY <1>3, DirFacts DEF EnqueueTask, TypeInv, TypeOK
  <2>4. UNCHANGED <<complete, alive>> /\ alive /\ phase = "enqueue"
    BY <1>3 DEF EnqueueTask
  <2>5. FreshPending'
    BY <2>2, <2>4 DEF EvidenceInv, Claiming, FreshPending
  <2>6. \A o \in Owners, t \in Tasks : <<o, t>> \in queue'["done"] => t \in complete' \cup V2Tasks
    BY <2>3, <2>4 DEF EvidenceInv
  <2>7. QED
    BY <2>1, <2>5, <2>6 DEF EvidenceInv
<1>4. CASE WaitWorkers \/ PostProcess \/ CountDir
  <2>1. UNCHANGED <<queue, complete, held, ok, pc, alive>> /\ phase \in {"working", "gate", "count"}
    BY <1>4 DEF WaitWorkers, PostProcess, CountDir, procVars
  <2>2. Claiming' => Claiming
    BY <1>4, <2>1 DEF WaitWorkers, PostProcess, CountDir, Claiming, QuietWorkers, Live
  <2> QED BY <1>1, <2>1, <2>2
<1>5. CASE DriverDies
  BY <1>1, <1>5 DEF DriverDies, procVars, Claiming, QuietWorkers, Live
<1>6. CASE ResumeRun
  BY <1>1, <1>6 DEF ResumeRun, procVars, Claiming, QuietWorkers, Live
<1>7. ASSUME NEW t \in Tasks, EvidenceChanges(t)
      PROVE  EvidenceInv'
  <2>1. ~(alive' /\ phase' \in {"enqueue", "working", "gate", "count"})
    BY <1>7 DEF EvidenceChanges, driverVars
  <2>2. \A p \in Procs : pc'[p] \notin {"ran", "read", "rewritten"}
    BY <1>7 DEF EvidenceChanges, QuietWorkers, Live, LivePc, procVars
  <2>3. ~Claiming'
    BY <1>7 DEF EvidenceChanges, Claiming, QuietWorkers, Live, driverVars, procVars
  <2>4. QED
    BY <2>1, <2>2, <2>3 DEF EvidenceInv
<1>8. ASSUME NEW p \in Procs, LaunchWorker(p) \/ WorkerDies(p)
      PROVE  EvidenceInv'
  <2>1. UNCHANGED <<queue, alive, phase>>
    BY <1>8, DieFrame DEF driverVars
  <2>2. \A q \in Procs : pc'[q] \in {"ran", "read", "rewritten"} =>
          pc'[q] = pc[q] /\ held'[q] = held[q] /\ ok'[q] = ok[q]
    BY <1>8, DieFrame DEF HoldingPc
  <2>3. Claiming
    BY <1>8 DEF LaunchWorker, WorkerDies, Claiming, QuietWorkers
  <2>4. CASE complete' = complete
    BY <2>1, <2>2, <2>3, <2>4 DEF EvidenceInv, FreshPending
  <2>5. CASE pc[p] = "run" /\ LeavesEvidence(p)
    <3>1. EvidenceKept(p)
      BY <2>5, RunKeeps
    <3>2. \A q \in Procs : pc'[q] \in {"ran", "read", "rewritten"} /\ ok'[q] => held'[q] \in complete' \cup V2Tasks
      BY <2>2, <2>5, <3>1 DEF EvidenceKept
    <3> QED BY <2>1, <2>3, <3>1, <3>2 DEF EvidenceKept, EvidenceInv, FreshPending
  <2> QED BY <1>8, <2>4, <2>5, DieFrame
<1>9. ASSUME NEW p \in Procs, WorkerNext(p)
      PROVE  EvidenceInv'
  <2>1. phase = "working" /\ Placed /\ UNCHANGED <<alive, phase>>
    BY <1>9, WorkerActs, WorkerFrame DEF driverVars, PlaceInv, Built
  <2>14. Claiming /\ FreshPending
    BY <1>9, WorkerActs DEF Claiming, QuietWorkers, EvidenceInv
  <2>2. \A q \in Procs : q # p => pc'[q] = pc[q] /\ held'[q] = held[q] /\ ok'[q] = ok[q]
    BY <1>9, WorkerFrame
  <2>3. ASSUME UNCHANGED <<queue, complete, held, ok>>,
               pc'[p] \in {"ran", "read", "rewritten"} => pc[p] \in {"ran", "read", "rewritten"}
        PROVE  EvidenceInv'
    BY <1>1, <2>1, <2>2, <2>3, <2>14
  <2>4. CASE ScanPending(p) \/ NothingLeft(p)
    BY <2>3, <2>4 DEF ScanPending, NothingLeft, TypeInv, TypeOK
  <2>5. ASSUME NEW t \in Tasks, LoseRace(p, t)
        PROVE  EvidenceInv'
    BY <2>3, <2>5 DEF LoseRace
  <2>6. ASSUME NEW t \in Tasks, ClaimDescriptor(p, t)
        PROVE  EvidenceInv'
    <3>1. queue'["pending"] \subseteq queue["pending"] /\ queue'["done"] = queue["done"]
      BY <2>6, DirFacts DEF ClaimDescriptor, TypeInv, TypeOK
    <3>2. pc'[p] = "claimed" /\ complete' = complete
      BY <2>6 DEF ClaimDescriptor, TypeInv, TypeOK
    <3>3. QED
      BY <2>14, <2>1, <2>2, <3>1, <3>2 DEF EvidenceInv, FreshPending
  <2>7. CASE ReadPayload(p) \/ FinishRead(p)
    <3>1. CASE FileMissing(p)
      BY <2>14, <2>1, <2>2, <3>1, MissingFrame DEF EvidenceInv, FreshPending
    <3>2. CASE ~FileMissing(p)
      BY <2>3, <2>7, <3>2 DEF ReadPayload, FinishRead, TypeInv, TypeOK
    <3> QED BY <3>1, <3>2
  <2>8. CASE RunTaskCompletes(p)
    <3>1. Mine(p) \in queue["running"] /\ held[p] \in Tasks
      BY <2>8 DEF RunTaskCompletes, HoldInv, HoldingPc
    <3>2. \A o \in Owners : <<o, held[p]>> \notin queue["pending"]
      BY <2>1, <3>1, DirFacts, DescriptorFacts DEF Placed, Mine
    <3>3. queue' = queue /\ held' = held /\ complete' = complete \cup {held[p]}
      BY <2>8 DEF RunTaskCompletes
    <3>4. QED
      BY <2>14, <2>1, <2>2, <3>2, <3>3 DEF EvidenceInv, FreshPending
  <2>13. CASE RunTaskUnverified(p)
    <3>1. held[p] \in V2Tasks /\ queue' = queue /\ held' = held /\ complete' = complete \ {held[p]}
      BY <2>13 DEF RunTaskUnverified
    <3>2. \A t \in complete \cup V2Tasks : t \in complete' \cup V2Tasks
      BY <3>1
    <3>3. \A q \in Procs : pc'[q] \in {"ran", "read", "rewritten"} /\ ok'[q] => held'[q] \in complete' \cup V2Tasks
      BY <2>14, <2>2, <3>1, <3>2 DEF EvidenceInv, FreshPending
    <3>4. QED
      BY <2>14, <2>1, <3>1, <3>2, <3>3 DEF EvidenceInv, FreshPending
  <2>9. CASE RunTaskFails(p)
    <3>1. ~ok'[p] /\ queue' = queue /\ held' = held /\ pc[p] = "run" /\ LeavesEvidence(p)
      BY <2>9 DEF RunTaskFails, TypeInv, TypeOK
    <3>2. EvidenceKept(p)
      BY <3>1, RunKeeps
    <3>3. \A q \in Procs : pc'[q] \in {"ran", "read", "rewritten"} /\ ok'[q] => held'[q] \in complete' \cup V2Tasks
      BY <2>2, <3>1, <3>2 DEF EvidenceKept
    <3> QED BY <2>1, <2>14, <3>1, <3>2, <3>3 DEF EvidenceKept, EvidenceInv, FreshPending
  <2>10. CASE FinishRewrite(p)
    <3>1. queue'["pending"] = queue["pending"] /\ queue'["done"] = queue["done"]
      BY <2>10, DirFacts DEF FinishRewrite, TypeInv, TypeOK
    <3>2. UNCHANGED <<complete, held, ok>> /\ pc[p] = "read"
      BY <2>10 DEF FinishRewrite
    <3>3. QED
      BY <2>14, <2>1, <2>2, <3>1, <3>2 DEF EvidenceInv, FreshPending
  <2>11. CASE FinishRename(p)
    <3>1. Mine(p) \in queue["running"] /\ held[p] \in Tasks /\ pc[p] = "rewritten"
      BY <2>11 DEF FinishRename, HoldInv, HoldingPc
    <3>2. queue'["pending"] = queue["pending"] /\
          queue'["done"] = (IF ok[p] THEN queue["done"] \cup {Mine(p)} ELSE queue["done"])
      BY <2>11, <3>1, DirFacts DEF FinishRename, FileMissing, Die, TypeInv, TypeOK
    <3>3. complete' = complete /\ pc'[p] = "scan"
      BY <2>11, <3>1 DEF FinishRename, FileMissing, Die, TypeInv, TypeOK
    <3>4. \A o \in Owners, t \in Tasks :
            <<o, t>> \in queue'["done"] => <<o, t>> \in queue["done"] \/ (ok[p] /\ t = held[p])
      BY <3>2 DEF Mine
    <3>5. QED
      BY <2>14, <2>1, <2>2, <3>1, <3>2, <3>3, <3>4 DEF EvidenceInv, FreshPending
  <2>12. QED
    BY <1>9, <2>4, <2>5, <2>6, <2>7, <2>8, <2>9, <2>10, <2>11, <2>13 DEF WorkerNext
<1>10. CASE UNCHANGED vars
  BY <1>1, <1>10 DEF vars, Claiming, QuietWorkers, Live
<1>11. QED
  BY <1>2, <1>3, <1>4, <1>5, <1>6, <1>7, <1>8, <1>9, <1>10 DEF Next, DriverNext

\* What the driver has counted as empty is empty: no worker is left.
LEMMA CountStep ==
  ASSUME TypeInv, CrewInv, CountInv, [Next]_vars
  PROVE  CountInv'
<1>1. ASSUME UNCHANGED <<queue, phase, cursor, bad>>
      PROVE  CountInv'
  BY <1>1 DEF CountInv
<1>2. CASE ClearDir \/ EnqueueTask \/ WaitWorkers \/ ResumeRun
  BY <1>2 DEF ClearDir, EnqueueTask, WaitWorkers, ResumeRun, CountInv
<1>3. CASE PostProcess
  BY <1>3 DEF PostProcess, CountInv
<1>4. CASE CountDir
  <2>0. ~bad' => ~bad /\ queue[CountedStates[cursor]] = {}
    BY <1>4 DEF CountDir, TypeInv, TypeOK
  <2>1. cursor = 1 \/ cursor = 2 \/ cursor = 3
    BY <1>4 DEF CountDir, CountInv
  <2>2. CASE cursor = 3
    BY <1>4, <2>2 DEF CountDir, CountInv
  <2>3. CASE cursor = 1
    BY <1>4, <2>0, <2>3 DEF CountDir, CountInv, CountedStates
  <2>4. CASE cursor = 2
    BY <1>4, <2>0, <2>4 DEF CountDir, CountInv, CountedStates
  <2>5. QED
    BY <2>1, <2>2, <2>3, <2>4
<1>5. CASE DriverDies
  BY <1>1, <1>5 DEF DriverDies
<1>6. ASSUME NEW t \in Tasks, EvidenceChanges(t)
      PROVE  CountInv'
  BY <1>1, <1>6 DEF EvidenceChanges, driverVars
<1>7. ASSUME NEW p \in Procs, LaunchWorker(p)
      PROVE  CountInv'
  BY <1>7 DEF LaunchWorker, CountInv, driverVars
<1>8. ASSUME NEW p \in Procs, WorkerNext(p) \/ WorkerDies(p)
      PROVE  CountInv'
  BY <1>8, WorkerActs, WorkerFrame DEF driverVars, CountInv
<1>9. CASE UNCHANGED vars
  BY <1>1, <1>9 DEF vars
<1>10. QED
  BY <1>2, <1>3, <1>4, <1>5, <1>6, <1>7, <1>8, <1>9 DEF Next, DriverNext

-----------------------------------------------------------------------------
\* The parts of the invariant hold of the first state ...
LEMMA InvInit == Init => TypeInv /\ IInv
<1> SUFFICES ASSUME Init
             PROVE  TypeInv /\ IInv
  OBVIOUS
<1>1. TypeInv
  BY TypeInit
<1>2. \A p \in Procs : pc[p] = "off"
  BY DEF Init
<1>3. \A d \in Dirs : queue[d] = {}
  BY DEF Init
<1>4. phase = "clear" /\ cursor = 1 /\ drive = 1
  BY DEF Init
<1>5. \A w \in Workers : <<drive, w>> \in Procs
  BY <1>1 DEF Procs, TypeInv, TypeOK
<1>6. CrewInv
  BY <1>2, <1>4, <1>5 DEF CrewInv, Crew, Live, LivePc
<1>7. HoldInv /\ EvidenceInv
  BY <1>2, <1>3, <1>4, DirFacts DEF HoldInv, EvidenceInv, FreshPending, HoldingPc
<1>8. ClearInv /\ EnqueueInv /\ PlaceInv /\ CountInv
  BY <1>4 DEF ClearInv, EnqueueInv, PlaceInv, Built, CountInv
<1>9. QED
  BY <1>1, <1>6, <1>7, <1>8 DEF IInv, TypeInv

\* ... and every step of the queue keeps them together.
LEMMA InvStep ==
  ASSUME ~OrphanWorkers
  PROVE  TypeInv /\ IInv /\ [Next]_vars => (TypeInv /\ IInv)'
  BY TypeStep, CrewStep, QueueStep, EvidenceStep, CountStep DEF IInv, TypeInv

\* The inductive invariant of the queue.
LEMMA Invariance ==
  ASSUME ~OrphanWorkers
  PROVE  Spec => [](TypeInv /\ IInv)
  BY InvInit, InvStep, PTL DEF Spec

\* Every task has exactly one descriptor once the queue is built.
THEOREM OneDescriptorHolds ==
  ASSUME ~OrphanWorkers
  PROVE  Spec => []OneDescriptor
<1>1. TypeInv /\ IInv => OneDescriptor
  <2> SUFFICES ASSUME IInv, Built, NEW t \in Tasks
               PROVE  \E d \in Dirs, o \in Owners :
                        /\ <<o, t>> \in queue[d]
                        /\ \A e \in Dirs, q \in Owners :
                             <<q, t>> \in queue[e] => e = d /\ q = o
    BY DEF OneDescriptor
  <2>1. Placed
    BY DEF IInv, PlaceInv
  <2>2. PICK d \in Dirs, o \in Owners : <<o, t>> \in queue[d]
    BY <2>1 DEF Placed
  <2>3. \A e \in Dirs, q \in Owners : <<q, t>> \in queue[e] => e = d /\ q = o
    BY <2>1, <2>2 DEF Placed
  <2>4. QED
    BY <2>2, <2>3
<1>2. QED
  BY <1>1, Invariance, PTL

\* No two live workers hold the same task.
THEOREM ExclusiveExecutionHolds ==
  ASSUME ~OrphanWorkers
  PROVE  Spec => []ExclusiveExecution
<1>1. TypeInv /\ IInv => ExclusiveExecution
  BY HeldByOne DEF IInv, ExclusiveExecution
<1>2. QED
  BY <1>1, Invariance, PTL

\* A completed task is never claimed, by no worker of any drive.
THEOREM NoReworkHolds ==
  ASSUME ~OrphanWorkers
  PROVE  Spec => NoRework
<1>1. TypeInv /\ IInv /\ [Next]_vars =>
        [\A p \in Procs : pc'[p] = "claimed" /\ pc[p] = "try" => held'[p] \notin complete]_vars
  <2> SUFFICES ASSUME TypeInv, IInv, Next, NEW p \in Procs, pc'[p] = "claimed", pc[p] = "try"
               PROVE  held'[p] \notin complete
    BY DEF vars
  <2>1. WorkerNext(p)
    <3>1. ASSUME NEW q \in Procs, q # p, WorkerNext(q) \/ WorkerDies(q)
          PROVE  FALSE
      BY <3>1, WorkerFrame
    <3>2. ASSUME NEW q \in Procs, LaunchWorker(q) \/ WorkerDies(p)
          PROVE  FALSE
      BY <3>2 DEF LaunchWorker, WorkerDies, Die, TypeInv, TypeOK
    <3>3. QED
      BY <3>1, <3>2 DEF Next, DriverNext, ClearDir, EnqueueTask, WaitWorkers, PostProcess,
        CountDir, DriverDies, ResumeRun, EvidenceChanges, procVars
  <2>2. PICK t \in Tasks : ClaimDescriptor(p, t)
    BY <2>1 DEF WorkerNext, ScanPending, LoseRace, NothingLeft, ReadPayload, RunTaskCompletes,
      RunTaskUnverified, RunTaskFails, FinishRead, FinishRewrite, FinishRename, TypeInv, TypeOK
  <2>3. held'[p] = t /\ <<NoWorker, t>> \in queue["pending"]
    BY <2>2 DEF ClaimDescriptor, TypeInv, TypeOK
  <2>4. Claiming
    BY <2>1, WorkerActs DEF IInv, Claiming, QuietWorkers
  <2>5. QED
    BY <2>3, <2>4, DescriptorFacts DEF IInv, EvidenceInv, FreshPending
<1>2. QED
  BY <1>1, Invariance, PTL DEF Spec, NoRework

-----------------------------------------------------------------------------
(* With workers of a killed drive                                          *)

\* The workers of a drive start when its queue is built.
StartInv ==
  /\ \A p \in Procs : p[1] > drive => pc[p] = "off"
  /\ phase \in {"clear", "enqueue"} => \A p \in Crew : pc[p] = "off"

\* The snapshot of a claim loop covers what is still pending, although the
\* workers of another drive may claim it too.
SnapshotInv ==
  /\ \A o \in Owners, t \in Tasks : <<o, t>> \in queue["pending"] => o = NoWorker
  /\ \A p \in Crew : pc[p] = "try" => TasksIn("pending") \subseteq todo[p]
  /\ NoTaskLeftPending

Listed(t, D) == \E d \in D, o \in Owners : <<o, t>> \in queue[d]

\* Descriptors are moved and copied, never lost, once they are listed.
ListedInv ==
  /\ phase = "enqueue" => \A t \in Tasks : t < cursor => Listed(t, Dirs)
  /\ Built => \A t \in Tasks : Listed(t, Dirs)

\* The driver counts in the order in which descriptors move: what it found
\* empty can only be filled with what is filed elsewhere, too.
CountedInv ==
  phase = "count" =>
    /\ cursor \in 1 .. 3
    /\ ~bad /\ cursor > 1 => queue["pending"] = {}
    /\ ~bad /\ cursor > 2 => \A t \in Tasks : Listed(t, {"done", "failed"})

RaceInv == StartInv /\ SnapshotInv /\ ListedInv /\ CountedInv

\* The three ways in which a worker changes the directories.
MovesToRunning(p, t) ==
  /\ <<NoWorker, t>> \in queue["pending"]
  /\ queue' = [queue EXCEPT !["pending"] = @ \ {<<NoWorker, t>>},
                            !["running"] = @ \cup {<<p[2], t>>}]

CopiesToRunning(p, t) == queue' = [queue EXCEPT !["running"] = @ \cup {<<p[2], t>>}]

MovesToEnd(p, t, d) ==
  /\ d = "done" => pc[p] = "rewritten" /\ ok[p] /\ t = held[p]
  /\ queue' = [queue EXCEPT !["running"] = @ \ {<<p[2], t>>}, ![d] = @ \cup {<<p[2], t>>}]

\* A step of any worker, of this drive or another, moves descriptors onward.
LEMMA DescriptorsMoveOn ==
  ASSUME TypeInv, NEW p \in Procs, WorkerNext(p) \/ WorkerDies(p)
  PROVE  \/ queue' = queue
         \/ \E t \in Tasks : MovesToRunning(p, t) \/ CopiesToRunning(p, t)
         \/ \E t \in Tasks, d \in {"done", "failed"} : MovesToEnd(p, t, d)
<1>1. CASE \/ ScanPending(p) \/ NothingLeft(p) \/ ReadPayload(p) \/ FinishRead(p)
           \/ RunTaskCompletes(p) \/ RunTaskUnverified(p) \/ RunTaskFails(p) \/ WorkerDies(p)
           \/ \E t \in Tasks : LoseRace(p, t)
  BY <1>1 DEF ScanPending, NothingLeft, ReadPayload, FinishRead, FileMissing, Die, RunTaskCompletes,
     RunTaskUnverified, RunTaskFails, WorkerDies, LoseRace
<1>2. ASSUME NEW t \in Tasks, ClaimDescriptor(p, t)
      PROVE  MovesToRunning(p, t)
  BY <1>2 DEF ClaimDescriptor, MovesToRunning
<1>3. CASE FinishRewrite(p)
  BY <1>3 DEF FinishRewrite, CopiesToRunning, Mine, TypeInv, HoldingPc
<1>4. CASE FinishRename(p)
  <2>1. CASE queue' = queue
    BY <2>1
  <2>2. CASE queue' # queue
    BY <1>4, <2>2 DEF FinishRename, FileMissing, Die, MovesToEnd, Mine, TypeInv, HoldingPc
  <2> QED BY <2>1, <2>2
<1> QED BY <1>1, <1>2, <1>3, <1>4 DEF WorkerNext

\* No worker step adds to pending/, takes from done/ or failed/, or takes a
\* task's last descriptor; what it files as done it ran with success.
LEMMA WorkersLoseNothing ==
  ASSUME TypeInv, NEW p \in Procs, WorkerNext(p) \/ WorkerDies(p)
  PROVE  /\ queue'["pending"] \subseteq queue["pending"]
         /\ queue["done"] \subseteq queue'["done"] /\ queue["failed"] \subseteq queue'["failed"]
         /\ \A t \in Tasks : Listed(t, Dirs) => Listed(t, Dirs)'
         /\ \A o \in Owners, t \in Tasks :
              <<o, t>> \in queue'["done"] =>
                \/ <<o, t>> \in queue["done"]
                \/ pc[p] = "rewritten" /\ ok[p] /\ t = held[p]
<1>0. queue \in [Dirs -> SUBSET Descriptors] /\ p[2] \in Owners
  BY DescriptorFacts DEF TypeInv, TypeOK
<1>1. CASE queue' = queue
  BY <1>1 DEF Listed
<1>2. ASSUME NEW t \in Tasks, MovesToRunning(p, t)
      PROVE  /\ queue'["pending"] \subseteq queue["pending"]
             /\ queue'["done"] = queue["done"] /\ queue'["failed"] = queue["failed"]
             /\ \A u \in Tasks : Listed(u, Dirs) => Listed(u, Dirs)'
  <2>1. /\ queue'["pending"] = queue["pending"] \ {<<NoWorker, t>>}
        /\ queue'["running"] = queue["running"] \cup {<<p[2], t>>}
        /\ queue'["done"] = queue["done"] /\ queue'["failed"] = queue["failed"]
    BY <1>0, <1>2, DirFacts DEF MovesToRunning
  <2>2. ASSUME NEW u \in Tasks, NEW d \in Dirs, NEW o \in Owners, <<o, u>> \in queue[d]
        PROVE  Listed(u, Dirs)'
    <3>1. CASE u = t
      BY <1>0, <2>1, <3>1, DirFacts DEF Listed
    <3>2. CASE u # t
      <4>1. <<o, u>> # <<NoWorker, t>>
        BY <3>2
      <4>2. <<o, u>> \in queue'[d]
        BY <2>1, <2>2, <4>1, DirFacts
      <4> QED BY <4>2 DEF Listed
    <3> QED BY <3>1, <3>2
  <2> QED BY <2>1, <2>2 DEF Listed
<1>3. ASSUME NEW t \in Tasks, CopiesToRunning(p, t)
      PROVE  /\ queue'["pending"] = queue["pending"]
             /\ queue'["done"] = queue["done"] /\ queue'["failed"] = queue["failed"]
             /\ \A u \in Tasks : Listed(u, Dirs) => Listed(u, Dirs)'
  <2>1. \A d \in Dirs : queue[d] \subseteq queue'[d]
    BY <1>0, <1>3 DEF CopiesToRunning
  <2> QED BY <1>0, <1>3, <2>1, DirFacts DEF Listed, CopiesToRunning
<1>4. ASSUME NEW t \in Tasks, NEW d \in {"done", "failed"}, MovesToEnd(p, t, d)
      PROVE  /\ queue'["pending"] = queue["pending"]
             /\ queue["done"] \subseteq queue'["done"] /\ queue["failed"] \subseteq queue'["failed"]
             /\ \A u \in Tasks : Listed(u, Dirs) => Listed(u, Dirs)'
             /\ \A o \in Owners, u \in Tasks :
                  <<o, u>> \in queue'["done"] =>
                    \/ <<o, u>> \in queue["done"]
                    \/ pc[p] = "rewritten" /\ ok[p] /\ u = held[p]
  <2>0. d \in Dirs /\ d # "running" /\ d # "pending"
    BY <1>4, DirFacts
  <2>1. /\ queue'["running"] = queue["running"] \ {<<p[2], t>>}
        /\ queue'[d] = queue[d] \cup {<<p[2], t>>}
        /\ \A e \in Dirs : e # "running" /\ e # d => queue'[e] = queue[e]
    BY <1>0, <1>4, <2>0, DirFacts DEF MovesToEnd
  <2>2. \A e \in Dirs : e # "running" => queue[e] \subseteq queue'[e]
    BY <2>1
  <2>3. ASSUME NEW u \in Tasks, NEW e \in Dirs, NEW o \in Owners, <<o, u>> \in queue[e]
        PROVE  Listed(u, Dirs)'
    <3>1. CASE u = t
      BY <1>0, <2>0, <2>1, <3>1 DEF Listed
    <3>2. CASE u # t
      <4>1. <<o, u>> # <<p[2], t>>
        BY <3>2
      <4>2. <<o, u>> \in queue'[e]
        BY <2>1, <2>2, <2>3, <4>1
      <4> QED BY <4>2 DEF Listed
    <3> QED BY <3>1, <3>2
  <2>4. ASSUME NEW o \in Owners, NEW u \in Tasks, <<o, u>> \in queue'["done"]
        PROVE  <<o, u>> \in queue["done"] \/ (pc[p] = "rewritten" /\ ok[p] /\ u = held[p])
    <3>1. CASE d = "done"
      <4>1. <<o, u>> \in queue["done"] \/ <<o, u>> = <<p[2], t>>
        BY <2>1, <2>4, <3>1
      <4> QED BY <1>4, <3>1, <4>1 DEF MovesToEnd
    <3>2. CASE d # "done"
      BY <2>1, <2>4, <3>2, DirFacts
    <3> QED BY <3>1, <3>2
  <2>5. \A u \in Tasks : Listed(u, Dirs) => Listed(u, Dirs)'
    BY <2>3 DEF Listed
  <2>6. /\ queue'["pending"] = queue["pending"]
        /\ queue["done"] \subseteq queue'["done"] /\ queue["failed"] \subseteq queue'["failed"]
    BY <2>0, <2>1, <2>2, DirFacts
  <2> QED BY <2>4, <2>5, <2>6
<1> QED BY <1>1, <1>2, <1>3, <1>4, DescriptorsMoveOn

LEMMA StartStep ==
  ASSUME TypeInv, TypeInv', StartInv, [Next]_vars
  PROVE  StartInv'
<1> USE DEF StartInv, Crew, TypeInv, TypeOK
<1>1. CASE UNCHANGED <<drive, pc>> /\ (phase' \in {"clear", "enqueue"} => phase \in {"clear", "enqueue"})
  BY <1>1
<1>2. CASE \/ ClearDir \/ EnqueueTask \/ WaitWorkers \/ PostProcess \/ CountDir \/ DriverDies
           \/ UNCHANGED vars
  <2>1. UNCHANGED <<drive, pc>> /\ (phase' \in {"clear", "enqueue"} => phase \in {"clear", "enqueue"})
    BY <1>2 DEF ClearDir, EnqueueTask, WaitWorkers, PostProcess, CountDir, DriverDies, vars, procVars
  <2> QED BY <1>1, <2>1
<1>3. CASE ResumeRun
  <2>1. drive' = drive + 1 /\ pc' = pc
    BY <1>3 DEF ResumeRun, procVars
  <2>2. \A p \in Procs : p[1] > drive' => p[1] > drive
    BY <2>1 DEF Procs
  <2>3. \A w \in Workers : <<drive', w>> \in Procs
    BY DEF Procs
  <2> QED BY <2>1, <2>2, <2>3
<1>4. ASSUME NEW t \in Tasks, EvidenceChanges(t)
      PROVE  StartInv'
  BY <1>1, <1>4 DEF EvidenceChanges, driverVars, procVars
<1>5. ASSUME NEW p \in Procs, LaunchWorker(p)
      PROVE  StartInv'
  BY <1>5 DEF LaunchWorker, driverVars
<1>6. ASSUME NEW p \in Procs, WorkerNext(p) \/ WorkerDies(p)
      PROVE  StartInv'
  <2>1. pc[p] \in LivePc
    BY <1>6 DEF WorkerNext, WorkerDies, Live, LivePc, ScanPending, ClaimDescriptor, LoseRace,
      NothingLeft, ReadPayload, RunTaskCompletes, RunTaskUnverified, RunTaskFails, FinishRead,
      FinishRewrite, FinishRename
  <2>2. UNCHANGED <<drive, phase>> /\ \A q \in Procs : q # p => pc'[q] = pc[q]
    BY <1>6, WorkerFrame DEF driverVars
  <2>3. pc[p] # "off"
    BY <2>1 DEF LivePc
  <2>4. \A q \in Crew : q \in Procs
    BY DEF Procs
  <2> QED BY <2>2, <2>3, <2>4
<1> QED BY <1>2, <1>3, <1>4, <1>5, <1>6 DEF Next, DriverNext

LEMMA SnapshotStep ==
  ASSUME TypeInv, TypeInv', StartInv, StartInv', SnapshotInv, [Next]_vars
  PROVE  SnapshotInv'
<1> USE DEF NoTaskLeftPending
<1>0. /\ \A p \in Crew : p \in Procs
      /\ \A p \in Crew' : p \in Procs
  BY DEF Crew, Procs, TypeInv, TypeOK
<1>1. ASSUME queue'["pending"] \subseteq queue["pending"], UNCHANGED drive,
             \A p \in Procs : pc'[p] \in {"try", "exited"} => pc'[p] = pc[p] /\ todo'[p] = todo[p]
      PROVE  SnapshotInv'
  <2>1. Crew' = Crew
    BY <1>1 DEF Crew
  <2>2. TasksIn("pending")' \subseteq TasksIn("pending")
    BY <1>1 DEF TasksIn
  <2> QED BY <1>0, <1>1, <2>1, <2>2 DEF SnapshotInv
<1>2. CASE ClearDir
  <2>1. queue'["pending"] \subseteq queue["pending"]
    BY <1>2, DirFacts DEF ClearDir, TypeInv, TypeOK
  <2> QED BY <1>1, <1>2, <2>1 DEF ClearDir, procVars
<1>3. CASE EnqueueTask
  <2>1. \A p \in Crew : pc'[p] = "off"
    BY <1>3 DEF EnqueueTask, StartInv, procVars
  <2>2. Crew' = Crew
    BY <1>3 DEF EnqueueTask, Crew
  <2>3. queue'["pending"] \subseteq queue["pending"] \cup {<<NoWorker, cursor>>}
    BY <1>3, DirFacts DEF EnqueueTask, TypeInv, TypeOK
  <2>4. \A o \in Owners, t \in Tasks : <<o, t>> \in queue'["pending"] => o = NoWorker
    BY <2>3 DEF SnapshotInv
  <2> QED BY <2>1, <2>2, <2>4 DEF SnapshotInv
<1>4. CASE WaitWorkers \/ PostProcess \/ CountDir \/ DriverDies \/ UNCHANGED vars
  BY <1>1, <1>4 DEF WaitWorkers, PostProcess, CountDir, DriverDies, vars, procVars
<1>5. CASE ResumeRun
  <2>1. (\A p \in Crew : pc[p] = "off")' /\ queue' = queue
    BY <1>5 DEF ResumeRun, StartInv
  <2> QED BY <2>1 DEF SnapshotInv
<1>6. ASSUME NEW t \in Tasks, EvidenceChanges(t)
      PROVE  SnapshotInv'
  BY <1>1, <1>6 DEF EvidenceChanges, driverVars, procVars
<1>7. ASSUME NEW p \in Procs, LaunchWorker(p) \/ WorkerDies(p)
      PROVE  SnapshotInv'
  BY <1>1, <1>7, DieFrame DEF driverVars
<1>9. ASSUME NEW p \in Procs, WorkerNext(p)
      PROVE  SnapshotInv'
  <2>1. queue'["pending"] \subseteq queue["pending"]
    BY <1>9, WorkersLoseNothing
  <2>2. drive' = drive /\ \A q \in Procs : q # p => pc'[q] = pc[q] /\ todo'[q] = todo[q]
    BY <1>9, WorkerFrame DEF driverVars
  <2>3. ASSUME p \in Crew /\ pc'[p] = "try" => TasksIn("pending") \subseteq todo'[p],
               p \in Crew /\ pc'[p] = "exited" => queue["pending"] = {}
        PROVE  SnapshotInv'
    <3>1. Crew' = Crew
      BY <2>2 DEF Crew
    <3>2. TasksIn("pending")' \subseteq TasksIn("pending")
      BY <2>1 DEF TasksIn
    <3>3. \A o \in Owners, t \in Tasks : <<o, t>> \in queue'["pending"] => o = NoWorker
      BY <2>1 DEF SnapshotInv
    <3>4. \A q \in Crew : pc'[q] = "try" => TasksIn("pending")' \subseteq todo'[q]
      BY <1>0, <2>2, <2>3, <3>2 DEF SnapshotInv
    <3>5. \A q \in Crew : pc'[q] = "exited" => queue'["pending"] = {}
      BY <1>0, <2>1, <2>2, <2>3 DEF SnapshotInv
    <3> QED BY <3>1, <3>3, <3>4, <3>5 DEF SnapshotInv
  <2>4. CASE ScanPending(p)
    BY <2>3, <2>4 DEF ScanPending, TypeInv, TypeOK
  <2>5. CASE NothingLeft(p)
    <3>1. pc'[p] = "exited" /\ todo[p] = {} /\ pc[p] = "try"
      BY <2>5 DEF NothingLeft, TypeInv, TypeOK
    <3>2. p \in Crew => TasksIn("pending") = {}
      BY <3>1 DEF SnapshotInv
    <3>3. queue["pending"] # {} => TasksIn("pending") # {}
      BY DirFacts DEF TasksIn, Descriptors, TypeInv, TypeOK
    <3> QED BY <2>3, <3>1, <3>2, <3>3
  <2>6. ASSUME NEW t \in Tasks, LoseRace(p, t)
        PROVE  SnapshotInv'
    <3>1. t \notin TasksIn("pending")
      BY <2>6 DEF LoseRace, TasksIn, SnapshotInv
    <3>2. pc'[p] = "try" /\ todo'[p] = todo[p] \ {t} /\ pc[p] = "try"
      BY <2>6 DEF LoseRace, TypeInv, TypeOK
    <3> QED BY <2>3, <3>1, <3>2 DEF SnapshotInv
  <2>7. CASE pc'[p] \notin {"try", "exited"}
    BY <2>3, <2>7
  <2>8. CASE \/ ReadPayload(p) \/ FinishRead(p) \/ FinishRewrite(p) \/ FinishRename(p)
             \/ RunTaskCompletes(p) \/ RunTaskUnverified(p) \/ RunTaskFails(p)
             \/ \E t \in Tasks : ClaimDescriptor(p, t)
    <3>1. pc'[p] \in {"claimed", "run", "ran", "read", "rewritten", "scan", "crashed"}
      BY <2>8 DEF ReadPayload, FinishRead, FinishRewrite, FinishRename, FileMissing, Die,
         RunTaskCompletes, RunTaskUnverified, RunTaskFails, ClaimDescriptor, TypeInv, TypeOK
    <3> QED BY <2>7, <3>1
  <2> QED BY <1>9, <2>4, <2>5, <2>6, <2>8, Zenon DEF WorkerNext
<1> QED BY <1>2, <1>3, <1>4, <1>5, <1>6, <1>7, <1>9 DEF Next, DriverNext

LEMMA ListedStep ==
  ASSUME TypeInv, TypeInv', ListedInv, [Next]_vars
  PROVE  ListedInv'
<1>1. ASSUME \A t \in Tasks : Listed(t, Dirs) => Listed(t, Dirs)',
             phase' = "enqueue" => phase = "enqueue" /\ cursor' = cursor, Built' => Built
      PROVE  ListedInv'
  BY <1>1 DEF ListedInv
<1>2. CASE ClearDir
  <2>1. phase' = "clear" \/ (phase' = "enqueue" /\ cursor' = 1)
    BY <1>2 DEF ClearDir
  <2> QED BY <2>1 DEF ListedInv, Built, Tasks
<1>3. CASE EnqueueTask
  <2> DEFINE d == IF cursor \in complete THEN "done" ELSE "pending"
  <2>1. phase = "enqueue" /\ cursor \in Tasks /\ d \in Dirs
    BY <1>3, DirFacts DEF EnqueueTask, TypeInv
  <2>2. queue' = [queue EXCEPT ![d] = @ \cup {<<NoWorker, cursor>>}]
    BY <1>3 DEF EnqueueTask
  <2> HIDE DEF d
  <2>3. \A e \in Dirs : queue[e] \subseteq queue'[e]
    BY <2>1, <2>2 DEF TypeInv, TypeOK
  <2>4. <<NoWorker, cursor>> \in queue'[d]
    BY <2>1, <2>2 DEF TypeInv, TypeOK
  <2>5. ASSUME NEW t \in Tasks, t <= cursor
        PROVE  Listed(t, Dirs)'
    <3>1. CASE t = cursor
      BY <2>1, <2>4, <3>1, DescriptorFacts DEF Listed
    <3>2. CASE t < cursor
      BY <2>1, <2>3, <3>2 DEF ListedInv, Listed
    <3> QED BY <2>1, <2>5, <3>1, <3>2 DEF Tasks
  <2>6. CASE cursor < NTasks
    <3>1. phase' = "enqueue" /\ cursor' = cursor + 1
      BY <1>3, <2>6 DEF EnqueueTask
    <3>2. \A t \in Tasks : t < cursor' => t <= cursor
      BY <2>1, <3>1 DEF Tasks
    <3> QED BY <2>5, <3>1, <3>2 DEF ListedInv, Built
  <2>7. CASE ~(cursor < NTasks)
    <3>1. phase' = "working"
      BY <1>3, <2>7 DEF EnqueueTask
    <3>2. \A t \in Tasks : t <= cursor
      BY <2>1, <2>7, QueueAssumption DEF Tasks
    <3> QED BY <2>5, <3>1, <3>2 DEF ListedInv
  <2> QED BY <2>6, <2>7
<1>4. CASE WaitWorkers \/ PostProcess \/ CountDir
  <2>1. queue' = queue /\ Built /\ phase' # "enqueue"
    BY <1>4 DEF WaitWorkers, PostProcess, CountDir, Built
  <2> QED BY <1>1, <2>1 DEF Listed
<1>5. CASE ResumeRun
  BY <1>5 DEF ResumeRun, ListedInv, Built
<1>6. CASE DriverDies \/ UNCHANGED vars \/ (\E t \in Tasks : EvidenceChanges(t))
           \/ (\E p \in Procs : LaunchWorker(p))
  <2>1. UNCHANGED <<queue, phase, cursor>>
    BY <1>6 DEF DriverDies, vars, EvidenceChanges, LaunchWorker, driverVars
  <2> QED BY <1>1, <2>1 DEF Listed, Built
<1>7. ASSUME NEW p \in Procs, WorkerNext(p) \/ WorkerDies(p)
      PROVE  ListedInv'
  <2>1. UNCHANGED <<phase, cursor>>
    BY <1>7, WorkerFrame DEF driverVars
  <2>2. \A t \in Tasks : Listed(t, Dirs) => Listed(t, Dirs)'
    BY <1>7, WorkersLoseNothing
  <2> QED BY <1>1, <2>1, <2>2 DEF Built
<1> QED BY <1>2, <1>3, <1>4, <1>5, <1>6, <1>7, Zenon DEF Next, DriverNext

LEMMA CountedStep ==
  ASSUME TypeInv, TypeInv', ListedInv, CountedInv, [Next]_vars
  PROVE  CountedInv'
<1>1. CASE UNCHANGED <<queue, phase, cursor, bad>>
  BY <1>1 DEF CountedInv, Listed
<1>2. CASE \/ ClearDir \/ EnqueueTask \/ WaitWorkers \/ ResumeRun \/ PostProcess
  <2>1. phase' # "count" \/ cursor' = 1
    BY <1>2 DEF ClearDir, EnqueueTask, WaitWorkers, ResumeRun, PostProcess
  <2> QED BY <2>1 DEF CountedInv
<1>3. CASE CountDir
  <2>1. /\ phase = "count" /\ cursor \in 1 .. 3 /\ queue' = queue
        /\ ~bad' => ~bad /\ queue[CountedStates[cursor]] = {}
        /\ phase' = "count" => cursor < 3 /\ cursor' = cursor + 1
    BY <1>3 DEF CountDir, CountedInv, TypeInv, TypeOK
  <2>2. CASE cursor = 1
    BY <2>1, <2>2 DEF CountedInv, CountedStates
  <2>3. CASE cursor = 2
    <3>1. ~bad' => queue["pending"] = {} /\ queue["running"] = {}
      BY <2>1, <2>3 DEF CountedInv, CountedStates
    <3>2. \A t \in Tasks : Listed(t, Dirs)
      BY <2>1 DEF ListedInv, Built
    <3>3. ~bad' => \A t \in Tasks : Listed(t, {"done", "failed"})
      BY <3>1, <3>2, DirFacts DEF Listed
    <3>4. ~bad' => \A t \in Tasks : Listed(t, {"done", "failed"})'
      BY <2>1, <3>3 DEF Listed
    <3> QED BY <2>1, <2>3, <3>1, <3>4 DEF CountedInv
  <2>4. CASE cursor = 3
    BY <2>1, <2>4 DEF CountedInv
  <2> QED BY <2>1, <2>2, <2>3, <2>4
<1>4. CASE DriverDies \/ UNCHANGED vars \/ (\E t \in Tasks : EvidenceChanges(t))
           \/ (\E p \in Procs : LaunchWorker(p))
  BY <1>1, <1>4 DEF DriverDies, vars, EvidenceChanges, LaunchWorker, driverVars
<1>5. ASSUME NEW p \in Procs, WorkerNext(p) \/ WorkerDies(p)
      PROVE  CountedInv'
  <2>1. UNCHANGED <<phase, cursor, bad>>
    BY <1>5, WorkerFrame DEF driverVars
  <2>2. /\ queue'["pending"] \subseteq queue["pending"]
        /\ queue["done"] \subseteq queue'["done"] /\ queue["failed"] \subseteq queue'["failed"]
    BY <1>5, WorkersLoseNothing
  <2>3. \A t \in Tasks : Listed(t, {"done", "failed"}) => Listed(t, {"done", "failed"})'
    BY <2>2 DEF Listed
  <2> QED BY <2>1, <2>2, <2>3 DEF CountedInv
<1> QED BY <1>2, <1>3, <1>4, <1>5, Zenon DEF Next, DriverNext

LEMMA RaceInit == Init => RaceInv
<1> SUFFICES ASSUME Init
             PROVE  RaceInv
  OBVIOUS
<1>1. /\ \A p \in Procs : pc[p] = "off"
      /\ \A d \in Dirs : queue[d] = {}
      /\ phase = "clear" /\ cursor = 1
  BY DEF Init
<1>2. \A p \in Crew : p \in Procs
  BY TypeInit DEF Crew, Procs, TypeInv, TypeOK
<1> QED BY <1>1, <1>2, DirFacts DEF RaceInv, StartInv, SnapshotInv, NoTaskLeftPending, ListedInv,
        Built, CountedInv

LEMMA RaceInvariance == Spec => [](TypeInv /\ RaceInv)
<1>1. TypeInv /\ RaceInv /\ [Next]_vars => (TypeInv /\ RaceInv)'
  BY TypeStep, StartStep, SnapshotStep, ListedStep, CountedStep DEF RaceInv
<1> QED BY <1>1, TypeInit, RaceInit, PTL DEF Spec

\* A worker that ends its claim loop leaves nothing pending, also when
\* workers of a killed drive claim from the same directory.
THEOREM NoTaskLeftPendingHolds == Spec => []NoTaskLeftPending
<1>1. RaceInv => NoTaskLeftPending
  BY DEF RaceInv, SnapshotInv
<1> QED BY <1>1, RaceInvariance, PTL

\* Once its queue is built a drive never loses sight of a task, whoever
\* renames, rewrites or dies.
NoTaskIsLost == Built => \A t \in Tasks : Listed(t, Dirs)

THEOREM NoTaskIsLostHolds == Spec => []NoTaskIsLost
<1>1. RaceInv => NoTaskIsLost
  BY DEF RaceInv, ListedInv, NoTaskIsLost
<1> QED BY <1>1, RaceInvariance, PTL

\* The last look of the driver.
LEMMA SuccessStep ==
  ASSUME TypeInv, RaceInv, Next, phase' = "returned", phase # "returned", ~bad'
  PROVE  /\ alive /\ phase = "count" /\ UNCHANGED <<complete, queue>>
         /\ \A t \in Tasks : \E o \in Owners : <<o, t>> \in queue["done"]
<1>1. CountDir
  <2>1. ASSUME NEW p \in Procs, WorkerNext(p) \/ WorkerDies(p)
        PROVE  FALSE
    BY <2>1, WorkerFrame DEF driverVars
  <2> QED BY <2>1 DEF Next, DriverNext, ClearDir, EnqueueTask, WaitWorkers, PostProcess,
          DriverDies, ResumeRun, EvidenceChanges, LaunchWorker, driverVars
<1>2. /\ alive /\ phase = "count" /\ UNCHANGED <<complete, queue>>
      /\ bad' = (bad \/ queue[CountedStates[cursor]] # {})
      /\ ~(cursor < 3)
  BY <1>1 DEF CountDir
<1>3. cursor = 3 /\ ~bad /\ queue[CountedStates[cursor]] = {}
  <2>1. cursor = 3
    BY <1>2 DEF RaceInv, CountedInv
  <2>2. ~(bad \/ queue[CountedStates[cursor]] # {})
    BY <1>2
  <2> QED BY <2>1, <2>2
<1>4. queue["failed"] = {} /\ \A t \in Tasks : Listed(t, {"done", "failed"})
  BY <1>2, <1>3 DEF RaceInv, CountedInv, CountedStates
<1> QED BY <1>2, <1>4 DEF Listed

\* Exit status 0 only over a run whose tasks are all filed as done: the workers
\* of a killed drive may share the queue, its files and its worker names.
SuccessMeansFiled ==
  [][(phase' = "returned" /\ phase # "returned" /\ ~bad') =>
       \A t \in Tasks : t \in TasksIn("done")']_vars

THEOREM SuccessMeansFiledHolds == Spec => SuccessMeansFiled
<1>1. TypeInv /\ RaceInv /\ [Next]_vars =>
        [(phase' = "returned" /\ phase # "returned" /\ ~bad') =>
           \A t \in Tasks : t \in TasksIn("done")']_vars
  <2> SUFFICES ASSUME TypeInv, RaceInv, Next, phase' = "returned", phase # "returned", ~bad',
                      NEW t \in Tasks
               PROVE  t \in TasksIn("done")'
    BY DEF vars
  <2> QED BY SuccessStep DEF TasksIn
<1> QED BY <1>1, RaceInvariance, PTL DEF Spec, SuccessMeansFiled

\* Exit status 0 only over a run whose tasks are all filed as done, with
\* completion evidence wherever run_task checks it.  An orphan could withdraw
\* the evidence of a task that another worker has filed as done.
THEOREM SuccessMeansCompleteHolds ==
  ASSUME ~OrphanWorkers
  PROVE  Spec => SuccessMeansComplete
<1>1. TypeInv /\ RaceInv /\ IInv /\ [Next]_vars =>
        [(phase' = "returned" /\ phase # "returned" /\ ~bad') => \A t \in Tasks : Finished(t)']_vars
  <2> SUFFICES ASSUME TypeInv, RaceInv, IInv, Next, phase' = "returned", phase # "returned", ~bad',
                      NEW t \in Tasks
               PROVE  Finished(t)'
    BY DEF vars
  <2>1. PICK o \in Owners : <<o, t>> \in queue["done"]
    BY SuccessStep
  <2>2. t \in complete \cup V2Tasks
    BY <2>1, SuccessStep DEF IInv, EvidenceInv
  <2> QED BY <2>1, <2>2, SuccessStep DEF Finished, TasksIn
<1> QED BY <1>1, RaceInvariance, Invariance, PTL DEF Spec, SuccessMeansComplete

\* A worker of the drive that is running is alone with its task: whoever shares
\* the workspace of a task, one of the two outlived the driver that started it.
CrewExclusive ==
  \A p, q \in Crew : /\ pc[p] \in HoldingPc /\ pc[q] \in HoldingPc
                     /\ held[p] = held[q]
                     => p = q

\* What one of its workers holds is not pending any more.
AloneInv ==
  /\ CrewExclusive
  /\ \A p \in Crew : pc[p] \in HoldingPc => <<NoWorker, held[p]>> \notin queue["pending"]

LEMMA AloneStep ==
  ASSUME TypeInv, TypeInv', StartInv, StartInv', AloneInv, [Next]_vars
  PROVE  AloneInv'
<1> USE DEF CrewExclusive, HoldingPc
<1>0. \A p \in Crew : p \in Procs
  BY DEF Crew, Procs, TypeInv, TypeOK
<1>1. ASSUME queue'["pending"] \subseteq queue["pending"], UNCHANGED drive,
             \A p \in Procs : pc'[p] \in HoldingPc => pc[p] \in HoldingPc /\ held'[p] = held[p]
      PROVE  AloneInv'
  <2>1. Crew' = Crew
    BY <1>1 DEF Crew
  <2> QED BY <1>0, <1>1, <2>1 DEF AloneInv
<1>2. ASSUME \A p \in Crew : pc[p] = "off", UNCHANGED <<drive, pc>>
      PROVE  AloneInv'
  <2>1. Crew' = Crew
    BY <1>2 DEF Crew
  <2> QED BY <1>2, <2>1 DEF AloneInv
<1>3. CASE ClearDir
  <2>1. UNCHANGED <<drive, pc>> /\ phase = "clear"
    BY <1>3 DEF ClearDir, procVars
  <2> QED BY <1>2, <2>1 DEF StartInv
<1>4. CASE EnqueueTask
  <2>1. UNCHANGED <<drive, pc>> /\ phase = "enqueue"
    BY <1>4 DEF EnqueueTask, procVars
  <2> QED BY <1>2, <2>1 DEF StartInv
<1>5. CASE WaitWorkers \/ PostProcess \/ CountDir \/ DriverDies \/ UNCHANGED vars
  BY <1>1, <1>5 DEF WaitWorkers, PostProcess, CountDir, DriverDies, vars, procVars
<1>6. CASE ResumeRun
  <2>1. (\A p \in Crew : pc[p] = "off")'
    BY <1>6 DEF ResumeRun, StartInv
  <2> QED BY <2>1 DEF AloneInv
<1>7. ASSUME NEW t \in Tasks, EvidenceChanges(t)
      PROVE  AloneInv'
  BY <1>1, <1>7 DEF EvidenceChanges, driverVars, procVars
<1>8. ASSUME NEW p \in Procs, LaunchWorker(p) \/ WorkerDies(p)
      PROVE  AloneInv'
  BY <1>1, <1>8, DieFrame DEF driverVars
<1>9. ASSUME NEW p \in Procs, WorkerNext(p)
      PROVE  AloneInv'
  <2>1. queue'["pending"] \subseteq queue["pending"]
    BY <1>9, WorkersLoseNothing
  <2>2. drive' = drive /\ \A q \in Procs : q # p => pc'[q] = pc[q] /\ held'[q] = held[q]
    BY <1>9, WorkerFrame DEF driverVars
  <2>3. CASE \E t \in Tasks : ClaimDescriptor(p, t)
    <3>1. PICK t \in Tasks : ClaimDescriptor(p, t)
      BY <2>3
    <3>2. /\ held'[p] = t /\ <<NoWorker, t>> \in queue["pending"]
          /\ queue'["pending"] = queue["pending"] \ {<<NoWorker, t>>}
      BY <3>1, DirFacts DEF ClaimDescriptor, TypeInv, TypeOK
    <3>3. Crew' = Crew
      BY <2>2 DEF Crew
    <3>4. \A q \in Crew : q # p /\ pc'[q] \in HoldingPc => held'[q] # t /\ <<NoWorker, held'[q]>> \notin queue'["pending"]
      BY <1>0, <2>2, <3>2 DEF AloneInv
    <3>5. \A q, r \in Crew : /\ pc'[q] \in HoldingPc /\ pc'[r] \in HoldingPc /\ held'[q] = held'[r]
                             => q = r
      BY <1>0, <2>2, <3>2, <3>4 DEF AloneInv
    <3> QED BY <3>2, <3>3, <3>4, <3>5 DEF AloneInv
  <2>4. CASE ~\E t \in Tasks : ClaimDescriptor(p, t)
    <3>1. pc'[p] \in HoldingPc => pc[p] \in HoldingPc /\ held'[p] = held[p]
      BY <1>9, <2>4 DEF WorkerNext, ScanPending, LoseRace, NothingLeft, ReadPayload,
         RunTaskCompletes, RunTaskUnverified, RunTaskFails, FinishRead, FinishRewrite, FinishRename,
         FileMissing, Die, TypeInv, TypeOK
    <3> QED BY <1>1, <2>1, <2>2, <3>1
  <2> QED BY <2>3, <2>4
<1> QED BY <1>3, <1>4, <1>5, <1>6, <1>7, <1>8, <1>9, Zenon DEF Next, DriverNext

\* Two workers of one drive never run the same task while it lasts, even when
\* workers of a killed drive claim from the same queue: the overlap that
\* ExclusiveExecution excludes takes an orphan.
THEOREM CrewExclusiveHolds == Spec => []CrewExclusive
<1>1. Init => AloneInv
  <2> SUFFICES ASSUME Init PROVE AloneInv
    OBVIOUS
  <2>1. \A p \in Procs : pc[p] = "off"
    BY DEF Init
  <2>2. \A p \in Crew : p \in Procs
    BY TypeInit DEF Crew, Procs, TypeInv, TypeOK
  <2> QED BY <2>1, <2>2 DEF AloneInv, CrewExclusive, HoldingPc
<1>2. TypeInv /\ TypeInv' /\ RaceInv /\ RaceInv' /\ AloneInv /\ [Next]_vars => AloneInv'
  BY AloneStep DEF RaceInv
<1>3. AloneInv => CrewExclusive
  BY DEF AloneInv
<1> QED BY <1>1, <1>2, <1>3, RaceInvariance, PTL DEF Spec

=============================================================================
