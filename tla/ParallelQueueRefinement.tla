---------------------- MODULE ParallelQueueRefinement ----------------------
(***************************************************************************)
(* The queue implements the ledger and keeps the contract of its tasks:    *)
(* every step of a drive, a worker, a death or a resume is one step of     *)
(* RunLedger, and for each task one of TaskContract, or leaves them alone, *)
(* for every number of tasks, workers, drives and deaths.                  *)
(***************************************************************************)
EXTENDS ParallelQueueProofs

\* The line of a task whose descriptor is in directory d.
LineIn(d) == CASE d = "pending" -> "waiting" [] d = "running" -> "taken"
               [] d = "done" -> "finished"   [] d = "failed" -> "failed"

\* While the queue is built, only tasks with evidence are filed as done.
OpenInv ==
  alive /\ phase = "enqueue" =>
    \A o \in Owners, t \in Tasks : <<o, t>> \in queue["done"] => t \in complete

Lines ==
  \A t \in Tasks, d \in Dirs, o \in Owners : <<o, t>> \in queue[d] => Line(t) = LineIn(d)

\* Where the descriptors are placed, a task's line is its descriptor's.
LEMMA LinesHold == Built /\ Placed => Lines
<1> SUFFICES ASSUME Built, Placed, NEW t \in Tasks, NEW d \in Dirs, NEW o \in Owners,
                    <<o, t>> \in queue[d]
             PROVE  Line(t) = LineIn(d)
  BY DEF Lines
<1>1. \A e \in Dirs : t \in TasksIn(e) <=> e = d
  BY DEF TasksIn, Placed
<1>2. QED
  BY <1>1, DirFacts DEF Line, LineIn

\* ... before and after each step.
LEMMA LinesOf ==
  ASSUME IInv, IInv'
  PROVE  (Built => Lines) /\ (Built' => Lines')
<1>1. (Built /\ Placed => Lines)'
  BY LinesHold, PTL
<1> QED BY LinesHold, <1>1 DEF IInv, PlaceInv

\* A step that leaves the directories and the phase of a built queue alone,
\* or is made before it is built, leaves every line alone.
LEMMA LineKept ==
  ASSUME queue' = queue, Built' = Built
  PROVE  [t \in Tasks |-> Line(t)]' = [t \in Tasks |-> Line(t)]
  BY DEF Line, TasksIn

LEMMA NoLine ==
  ~Built => [t \in Tasks |-> Line(t)] = [t \in Tasks |-> "absent"]
  BY DEF Line

\* The ledger is open as long as somebody is at work in this drive.
LEMMA WorkerTold ==
  ASSUME TypeInv, IInv, NEW p \in Procs, WorkerNext(p) \/ WorkerDies(p)
  PROVE  /\ Told = "open" /\ Told' \in {"open", "abandoned"}
         /\ Live(p)' => Told' = "open"
         /\ Built /\ Built'
<1>1. phase = "working" /\ Live(p) /\ UNCHANGED driverVars
  BY WorkerActs, WorkerFrame DEF IInv
<1>2. phase' = "working"
  BY <1>1 DEF driverVars
<1>3. ~QuietWorkers /\ (Live(p)' => ~QuietWorkers')
  BY <1>1 DEF QuietWorkers
<1> QED BY <1>1, <1>2, <1>3 DEF Told, Built

-----------------------------------------------------------------------------
LEMMA OpenStep ==
  ASSUME ~OrphanWorkers, TypeInv, IInv, OpenInv, [Next]_vars, IInv'
  PROVE  OpenInv'
<1> SUFFICES ASSUME alive', phase' = "enqueue", NEW o \in Owners, NEW t \in Tasks,
                    <<o, t>> \in queue'["done"]
             PROVE  t \in complete'
  BY DEF OpenInv
<1>1. CASE ClearDir
  <2>1. cursor' = 1
    BY <1>1 DEF ClearDir
  <2>2. t < cursor'
    BY DEF IInv, EnqueueInv
  <2> QED BY <2>1, <2>2 DEF Tasks
<1>2. CASE EnqueueTask
  <2>1. alive /\ phase = "enqueue" /\ complete' = complete
    BY <1>2 DEF EnqueueTask
  <2>2. CASE <<o, t>> \in queue["done"]
    BY <2>1, <2>2 DEF OpenInv
  <2>3. CASE <<o, t>> \notin queue["done"]
    <3>1. cursor \in complete /\ t = cursor
      BY <1>2, <2>3, DirFacts DEF EnqueueTask, TypeInv, TypeOK
    <3> QED BY <2>1, <3>1
  <2> QED BY <2>2, <2>3
<1>3. CASE WaitWorkers \/ PostProcess \/ CountDir \/ DriverDies \/ ResumeRun
  BY <1>3 DEF WaitWorkers, PostProcess, CountDir, DriverDies, ResumeRun
<1>4. ASSUME NEW u \in Tasks, EvidenceChanges(u)
      PROVE  FALSE
  BY <1>4 DEF EvidenceChanges, driverVars
<1>5. ASSUME NEW p \in Procs, LaunchWorker(p)
      PROVE  FALSE
  BY <1>5 DEF LaunchWorker, driverVars
<1>6. ASSUME NEW p \in Procs, WorkerNext(p) \/ WorkerDies(p)
      PROVE  FALSE
  <2>1. phase = "working"
    BY <1>6, WorkerActs DEF IInv
  <2>2. phase' = phase
    BY <1>6, WorkerFrame DEF driverVars
  <2> QED BY <2>1, <2>2
<1>7. CASE UNCHANGED vars
  BY <1>7 DEF vars, OpenInv
<1> QED
  BY <1>1, <1>2, <1>3, <1>4, <1>5, <1>6, <1>7 DEF Next, DriverNext

-----------------------------------------------------------------------------
(* Every step of the queue is a step of the ledger                         *)

LEMMA LedgerInit == Init => Ledger!Init
<1> SUFFICES ASSUME Init PROVE Ledger!Init
  OBVIOUS
<1>1. ~Built /\ Told = "open" /\ complete = {}
  BY DEF Init, Built, Told
<1> QED BY <1>1, NoLine DEF Ledger!Init

\* The last task is queued: the ledger is opened.
LEMMA LedgerOpens ==
  ASSUME TypeInv, IInv, OpenInv, EnqueueTask, IInv'
  PROVE  [Ledger!Next]_Ledger!ledgerVars
<1>1. ~Built /\ complete' = complete /\ Told = "open" /\ Told' = "open"
  BY DEF EnqueueTask, Built, Told
<1>2. CASE phase' = "enqueue"
  <2>1. ~Built'
    BY <1>2 DEF Built
  <2>2. [t \in Tasks |-> Line(t)]' = [t \in Tasks |-> "absent"]
    BY <2>1 DEF Line
  <2> QED BY <1>1, <2>2, NoLine DEF Ledger!ledgerVars
<1>3. CASE phase' = "working"
  <2>1. Built' /\ Placed' /\ Lines'
    BY <1>3, LinesOf DEF Built, IInv, PlaceInv
  <2>2. alive /\ phase = "enqueue" /\ alive' /\ complete' = complete
    BY DEF EnqueueTask
  <2>3. ASSUME NEW t \in Tasks
        PROVE  Line(t)' = IF t \in complete THEN "finished" ELSE "waiting"
    <3>1. PICK d \in Dirs, o \in Owners : <<o, t>> \in queue'[d]
      BY <2>1 DEF Placed
    <3>2. Line(t)' = LineIn(d)
      BY <2>1, <3>1 DEF Lines
    <3>3. queue' = [queue EXCEPT ![IF cursor \in complete THEN "done" ELSE "pending"] =
                     @ \cup {<<NoWorker, cursor>>}]
      BY DEF EnqueueTask
    <3>4. d \in {"pending", "done"}
      <4>1. queue["running"] = {} /\ queue["failed"] = {}
        BY <2>2 DEF IInv, EnqueueInv
      <4> QED BY <3>1, <3>3, <4>1, DirFacts DEF TypeInv, TypeOK
    <3>5. CASE d = "pending"
      <4>1. t \notin complete
        BY <1>3, <2>2, <3>1, <3>5 DEF IInv, EvidenceInv, Claiming, FreshPending
      <4> QED BY <3>2, <3>5, <4>1 DEF LineIn
    <3>6. CASE d = "done"
      <4>1. t \in complete
        <5>1. CASE <<o, t>> \in queue["done"]
          BY <2>2, <5>1 DEF OpenInv
        <5>2. CASE <<o, t>> \notin queue["done"]
          BY <3>1, <3>3, <3>6, <5>2, DirFacts DEF TypeInv, TypeOK
        <5> QED BY <5>1, <5>2
      <4> QED BY <3>2, <3>6, <4>1 DEF LineIn
    <3> QED BY <3>4, <3>5, <3>6
  <2>4. Ledger!Open
    BY <1>1, <2>3, NoLine DEF Ledger!Open, Ledger!Opened
  <2> QED BY <2>4 DEF Ledger!Next
<1> QED BY <1>2, <1>3 DEF EnqueueTask

\* The driver's other steps.
LEMMA LedgerDriver ==
  ASSUME TypeInv, IInv, OpenInv, IInv', ClearDir \/ WaitWorkers \/ PostProcess
  PROVE  UNCHANGED Ledger!ledgerVars
<1>0. complete' = complete /\ alive /\ alive' /\ phase # "returned" /\ phase' # "returned"
  <2>1. CASE ClearDir
    BY <2>1 DEF ClearDir
  <2>2. CASE WaitWorkers
    BY <2>2 DEF WaitWorkers
  <2>3. CASE PostProcess
    BY <2>3 DEF PostProcess
  <2> QED BY <2>1, <2>2, <2>3
<1>1. complete' = complete /\ Told = "open" /\ Told' = "open"
  BY <1>0 DEF Told
<1>2. CASE ClearDir
  <2>1. ~Built /\ ~Built'
    BY <1>2 DEF ClearDir, Built
  <2>2. [t \in Tasks |-> Line(t)]' = [t \in Tasks |-> "absent"]
    BY <2>1 DEF Line
  <2> QED BY <1>1, <2>1, <2>2, NoLine DEF Ledger!ledgerVars
<1>3. CASE WaitWorkers \/ PostProcess
  <2>1. /\ queue' = queue
        /\ phase \in {"working", "gate"} /\ phase' \in {"gate", "count"}
    BY <1>3 DEF WaitWorkers, PostProcess
  <2>2. Built' = Built
    BY <2>1 DEF Built
  <2> QED BY <1>1, <2>1, <2>2, LineKept DEF Ledger!ledgerVars
<1> QED BY <1>2, <1>3

\* A driver that dies leaves its drive to the workers, if it has any.
LEMMA LedgerAbandons ==
  ASSUME DriverDies
  PROVE  [Ledger!Next]_Ledger!ledgerVars
<1>1. /\ alive /\ phase # "returned" /\ phase' = phase
      /\ UNCHANGED <<queue, complete>> /\ Built' = Built
  BY DEF DriverDies, Built
<1>2. Told = "open" /\ Told' \in {"open", "abandoned"}
  BY <1>1 DEF Told
<1>3. [t \in Tasks |-> Line(t)]' = [t \in Tasks |-> Line(t)]
  BY <1>1, LineKept
<1> QED BY <1>1, <1>2, <1>3 DEF Ledger!Next, Ledger!EndWithout, Ledger!ledgerVars

\* The driver counts the last directory and tells the result.
LEMMA LedgerReports ==
  ASSUME TypeInv, IInv, CountDir, IInv'
  PROVE  [Ledger!Next]_Ledger!ledgerVars
<1>1. /\ alive /\ alive' /\ phase = "count" /\ Built /\ Built'
      /\ queue' = queue /\ complete' = complete
  BY DEF CountDir, Built
<1>2. [t \in Tasks |-> Line(t)]' = [t \in Tasks |-> Line(t)] /\ Told = "open"
  BY <1>1, LineKept DEF Told
<1>3. CASE phase' = "count"
  <2>1. Told' = "open"
    BY <1>1, <1>3 DEF Told
  <2> QED BY <1>1, <1>2, <2>1 DEF Ledger!ledgerVars
<1>4. CASE phase' = "returned" /\ bad'
  <2>1. Told' = "failure"
    BY <1>4 DEF Told
  <2> QED BY <1>1, <1>2, <2>1 DEF Ledger!Next, Ledger!EndWithout
<1>5. CASE phase' = "returned" /\ ~bad'
  <2>1. Told' = "success"
    BY <1>5 DEF Told
  <2>2. cursor = 3 /\ ~bad /\ queue[CountedStates[cursor]] = {}
    <3>1. cursor = 3
      BY <1>5 DEF CountDir, IInv, CountInv
    <3>2. ~bad /\ queue[CountedStates[cursor]] = {}
      BY <1>5, Zenon DEF CountDir
    <3> QED BY <3>1, <3>2
  <2>3. queue["pending"] = {} /\ queue["running"] = {} /\ queue["failed"] = {}
    BY <1>1, <2>2 DEF IInv, CountInv, CountedStates
  <2>4. ASSUME NEW t \in Tasks
        PROVE  Line(t) = "finished" /\ t \in complete \cup V2Tasks
    <3>1. PICK d \in Dirs, o \in Owners : <<o, t>> \in queue[d]
      BY <1>1 DEF IInv, PlaceInv, Placed
    <3>2. d = "done"
      BY <2>3, <3>1, DirFacts
    <3>3. Line(t) = LineIn(d)
      BY <1>1, <3>1, LinesOf DEF Lines
    <3>4. t \in complete \cup V2Tasks
      BY <1>1, <3>1, <3>2 DEF IInv, EvidenceInv
    <3> QED BY <3>2, <3>3, <3>4 DEF LineIn
  <2>5. Ledger!ReportSuccess
    BY <1>1, <1>2, <2>1, <2>4 DEF Ledger!ReportSuccess
  <2> QED BY <2>5 DEF Ledger!Next
<1> QED BY <1>3, <1>4, <1>5 DEF CountDir

\* A resume waits until the drive is over, and its workers too.
LEMMA LedgerReopens ==
  ASSUME ~OrphanWorkers, ResumeRun
  PROVE  Ledger!Reopen
<1>1. ~Built' /\ Told # "open" /\ Told' = "open" /\ complete' = complete
  BY DEF ResumeRun, Built, Told
<1>2. [t \in Tasks |-> Line(t)]' = [t \in Tasks |-> "absent"]
  BY <1>1 DEF Line
<1> QED BY <1>1, <1>2 DEF Ledger!Reopen

-----------------------------------------------------------------------------
(* A descriptor that is moved                                              *)

\* One task's descriptor goes from directory d to directory e: its line
\* changes, and no other one.
LEMMA LineMoves ==
  ASSUME TypeInv, IInv, IInv', Built, Built',
         NEW t \in Tasks, NEW d \in Dirs, NEW e \in Dirs, NEW o \in Owners, NEW q \in Owners,
         <<o, t>> \in queue[d],
         queue' = [queue EXCEPT ![d] = @ \ {<<o, t>>}, ![e] = @ \cup {<<q, t>>}]
  PROVE  /\ Line(t) = LineIn(d)
         /\ [u \in Tasks |-> Line(u)]' = [[u \in Tasks |-> Line(u)] EXCEPT ![t] = LineIn(e)]
<1>1. Line(t) = LineIn(d)
  BY LinesOf DEF Lines
<1>2. <<q, t>> \in queue'[e]
  BY DEF TypeInv, TypeOK
<1>3. Line(t)' = LineIn(e)
  BY <1>2, LinesOf DEF Lines
<1>4. ASSUME NEW u \in Tasks, u # t
      PROVE  Line(u)' = Line(u)
  <2>1. PICK c \in Dirs, r \in Owners : <<r, u>> \in queue[c]
    BY DEF IInv, PlaceInv, Placed
  <2>2. <<r, u>> \in queue'[c]
    BY <1>4, <2>1 DEF TypeInv, TypeOK
  <2> QED BY <2>1, <2>2, LinesOf DEF Lines
<1> QED BY <1>1, <1>3, <1>4

LEMMA LedgerTakes ==
  ASSUME TypeInv, IInv, IInv', NEW p \in Procs, NEW t \in Tasks, ClaimDescriptor(p, t)
  PROVE  Ledger!Take(t)
<1>1. pc'[p] = "claimed"
  BY DEF ClaimDescriptor, TypeInv, TypeOK
<1>2. Built /\ Built' /\ Told = "open" /\ Told' = "open"
  BY <1>1, WorkerTold DEF WorkerNext, Live, LivePc
<1>3. /\ <<NoWorker, t>> \in queue["pending"] /\ complete' = complete
      /\ queue' = [queue EXCEPT !["pending"] = @ \ {<<NoWorker, t>>},
                                !["running"] = @ \cup {<<p[2], t>>}]
  BY DEF ClaimDescriptor
<1>4. /\ Line(t) = LineIn("pending")
      /\ [u \in Tasks |-> Line(u)]' = [[u \in Tasks |-> Line(u)] EXCEPT ![t] = LineIn("running")]
  BY <1>2, <1>3, LineMoves, DescriptorFacts, DirFacts
<1>5. t \notin complete
  <2>1. Live(p)
    BY DEF ClaimDescriptor, Live, LivePc
  <2> QED BY <1>3, <2>1, DescriptorFacts DEF IInv, EvidenceInv, Claiming, FreshPending, QuietWorkers
<1> QED BY <1>2, <1>3, <1>4, <1>5 DEF Ledger!Take, LineIn

\* A worker's task is taken as long as it holds it.
LEMMA HeldIsTaken ==
  ASSUME TypeInv, IInv, IInv', NEW p \in Procs, pc[p] \in HoldingPc
  PROVE  /\ phase = "working" /\ Built /\ held[p] \in Tasks
         /\ Mine(p) \in queue["running"] /\ Line(held[p]) = "taken"
<1>1. Live(p)
  BY DEF Live, LivePc, HoldingPc
<1>2. phase = "working" /\ Built
  BY <1>1 DEF IInv, CrewInv, Built
<1>3. held[p] \in Tasks /\ Mine(p) \in queue["running"]
  BY DEF IInv, HoldInv
<1>4. Line(held[p]) = LineIn("running")
  BY <1>2, <1>3, LinesOf, DescriptorFacts, DirFacts DEF Lines, Mine
<1> QED BY <1>2, <1>3, <1>4 DEF LineIn

LEMMA LedgerSettles ==
  ASSUME TypeInv, IInv, IInv', NEW p \in Procs, FinishRename(p)
  PROVE  Ledger!Settle(held[p])
<1>2. /\ held[p] \in Tasks /\ Mine(p) \in queue["running"]
      /\ Line(held[p]) = "taken" /\ pc[p] = "rewritten"
  BY HeldIsTaken DEF FinishRename, HoldingPc
<1>4. complete' = complete /\ pc'[p] = "scan"
  BY <1>2 DEF FinishRename, FileMissing, TypeInv, TypeOK
<1>3. Built /\ Built' /\ Told = "open" /\ Told' = "open"
  BY <1>4, WorkerTold DEF WorkerNext, Live, LivePc
<1>5. PICK d \in {"done", "failed"} :
        /\ d = IF ok[p] THEN "done" ELSE "failed"
        /\ queue' = [queue EXCEPT !["running"] = @ \ {Mine(p)}, ![d] = @ \cup {Mine(p)}]
  BY <1>2 DEF FinishRename, FileMissing
<1>6. [u \in Tasks |-> Line(u)]' = [[u \in Tasks |-> Line(u)] EXCEPT ![held[p]] = LineIn(d)]
  BY <1>2, <1>3, <1>5, LineMoves, DescriptorFacts, DirFacts DEF Mine
<1>7. d = "done" => held[p] \in complete \cup V2Tasks
  BY <1>2, <1>5 DEF IInv, EvidenceInv
<1> QED BY <1>2, <1>3, <1>4, <1>5, <1>6, <1>7 DEF Ledger!Settle, LineIn

LEMMA LedgerRuns ==
  ASSUME TypeInv, IInv, IInv', NEW p \in Procs,
         RunTaskCompletes(p) \/ RunTaskUnverified(p) \/ RunTaskFails(p)
  PROVE  Ledger!Evaluate(held[p]) \/ UNCHANGED Ledger!ledgerVars
<1>1. queue' = queue /\ pc[p] = "run" /\ pc'[p] = "ran"
  BY DEF RunTaskCompletes, RunTaskUnverified, RunTaskFails, TypeInv, TypeOK
<1>2. Built /\ Built' /\ Told = "open" /\ Told' = "open"
  BY <1>1, WorkerTold DEF WorkerNext, Live, LivePc
<1>3. [t \in Tasks |-> Line(t)]' = [t \in Tasks |-> Line(t)]
  BY <1>1, <1>2, LineKept
<1>4. held[p] \in Tasks /\ Line(held[p]) = "taken"
  BY <1>1, HeldIsTaken DEF HoldingPc
<1>5. \/ complete' = complete \cup {held[p]}
      \/ complete' = complete \ {held[p]}
      \/ complete' = complete
  BY DEF RunTaskCompletes, RunTaskUnverified, RunTaskFails, LeavesEvidence
<1> QED BY <1>2, <1>3, <1>4, <1>5 DEF Ledger!Evaluate, Ledger!Changed, Ledger!ledgerVars

\* Steps of a worker that the ledger does not see, unless it was the last
\* one at work in an interrupted drive.
LEMMA LedgerStutters ==
  ASSUME TypeInv, IInv, IInv', NEW p \in Procs,
         \/ WorkerDies(p) /\ complete' = complete
         \/ ScanPending(p) \/ NothingLeft(p)
         \/ \E t \in Tasks : LoseRace(p, t)
         \/ ReadPayload(p) \/ FinishRead(p) \/ FinishRewrite(p)
  PROVE  [Ledger!Next]_Ledger!ledgerVars
<1>1. complete' = complete
  BY DEF WorkerDies, ScanPending, NothingLeft, LoseRace, ReadPayload, FinishRead, FinishRewrite,
    FileMissing
<1>2. queue' = queue
  <2>1. CASE FinishRewrite(p)
    <3>1. Mine(p) \in queue["running"]
      BY <2>1, HeldIsTaken DEF FinishRewrite, HoldingPc
    <3> QED BY <2>1, <3>1 DEF FinishRewrite, TypeInv, TypeOK
  <2> QED BY <2>1 DEF WorkerDies, ScanPending, NothingLeft, LoseRace, ReadPayload, FinishRead,
            FileMissing
<1>3. Built /\ Built' /\ Told = "open" /\ Told' \in {"open", "abandoned"}
  BY WorkerTold DEF WorkerNext
<1>4. [t \in Tasks |-> Line(t)]' = [t \in Tasks |-> Line(t)]
  BY <1>2, <1>3, LineKept
<1> QED BY <1>1, <1>3, <1>4 DEF Ledger!Next, Ledger!EndWithout, Ledger!ledgerVars

\* A worker that is killed at work may leave other evidence of its task.
LEMMA LedgerDies ==
  ASSUME TypeInv, IInv, IInv', NEW p \in Procs, WorkerDies(p)
  PROVE  [Ledger!Next]_Ledger!ledgerVars
<1>1. CASE complete' = complete
  BY <1>1, LedgerStutters
<1>2. CASE pc[p] = "run" /\ LeavesEvidence(p)
  <2>1. queue' = queue
    BY DEF WorkerDies
  <2>2. Built /\ Built' /\ Told = "open" /\ Told' \in {"open", "abandoned"}
    BY WorkerTold
  <2>3. [t \in Tasks |-> Line(t)]' = [t \in Tasks |-> Line(t)]
    BY <2>1, <2>2, LineKept
  <2>4. held[p] \in Tasks /\ Line(held[p]) = "taken"
    BY <1>2, HeldIsTaken DEF HoldingPc
  <2>5. Ledger!Changed(held[p]) \/ complete' = complete
    BY <1>2 DEF LeavesEvidence, Ledger!Changed
  <2>6. CASE Ledger!Changed(held[p]) /\ Told' = "open"
    <3>1. Ledger!Evaluate(held[p])
      BY <2>2, <2>3, <2>4, <2>6 DEF Ledger!Evaluate
    <3> QED BY <2>4, <3>1 DEF Ledger!Next
  <2>7. CASE Ledger!Changed(held[p]) /\ Told' = "abandoned"
    <3>1. Ledger!Interrupt(held[p])
      BY <2>2, <2>3, <2>4, <2>7 DEF Ledger!Interrupt
    <3> QED BY <2>4, <3>1 DEF Ledger!Next
  <2> QED BY <1>1, <2>2, <2>5, <2>6, <2>7
<1> QED BY <1>1, <1>2 DEF WorkerDies

LEMMA LedgerLaunches ==
  ASSUME NEW p \in Procs, LaunchWorker(p)
  PROVE  UNCHANGED Ledger!ledgerVars
<1>1. /\ alive /\ alive' /\ phase = "working" /\ phase' = "working"
      /\ UNCHANGED <<queue, complete>>
  BY DEF LaunchWorker, driverVars
<1> QED BY <1>1, LineKept DEF Told, Built, Ledger!ledgerVars

\* Between drives the ledger is closed.
LEMMA LedgerChanges ==
  ASSUME NEW t \in Tasks, EvidenceChanges(t)
  PROVE  Ledger!Change(t)
<1>1. /\ UNCHANGED <<queue, alive, phase, bad, pc>>
      /\ complete' \in {complete \ {t}, complete \cup {t}}
      /\ phase = "returned" \/ (~alive /\ QuietWorkers)
  BY DEF EvidenceChanges, driverVars, procVars
<1>2. QuietWorkers' = QuietWorkers /\ Built' = Built
  BY <1>1 DEF QuietWorkers, Live, Built
<1>3. Told # "open" /\ Told' = Told
  BY <1>1, <1>2 DEF Told
<1> QED BY <1>1, <1>2, <1>3, LineKept DEF Ledger!Change, Ledger!Changed

-----------------------------------------------------------------------------
LEMMA LedgerStep ==
  ASSUME ~OrphanWorkers, TypeInv, IInv, OpenInv, [Next]_vars, IInv'
  PROVE  [Ledger!Next]_Ledger!ledgerVars
<1>1. CASE EnqueueTask
  BY <1>1, LedgerOpens
<1>2. CASE ClearDir \/ WaitWorkers \/ PostProcess \/ DriverDies
  BY <1>2, LedgerDriver, LedgerAbandons
<1>3. CASE CountDir
  BY <1>3, LedgerReports
<1>4. CASE ResumeRun
  BY <1>4, LedgerReopens DEF Ledger!Next
<1>5. ASSUME NEW t \in Tasks, EvidenceChanges(t)
      PROVE  Ledger!Change(t)
  BY <1>5, LedgerChanges
<1>6. ASSUME NEW p \in Procs, LaunchWorker(p) \/ WorkerDies(p)
      PROVE  [Ledger!Next]_Ledger!ledgerVars
  BY <1>6, LedgerDies, LedgerLaunches
<1>7. ASSUME NEW p \in Procs, WorkerNext(p)
      PROVE  [Ledger!Next]_Ledger!ledgerVars
  <2>1. ASSUME NEW t \in Tasks, ClaimDescriptor(p, t)
        PROVE  Ledger!Next
    BY <2>1, LedgerTakes DEF Ledger!Next
  <2>2. CASE FinishRename(p)
    <3>1. held[p] \in Tasks
      BY <2>2, HeldIsTaken DEF FinishRename, HoldingPc
    <3> QED BY <2>2, <3>1, LedgerSettles DEF Ledger!Next
  <2>3. CASE RunTaskCompletes(p) \/ RunTaskUnverified(p) \/ RunTaskFails(p)
    <3>1. held[p] \in Tasks
      BY <2>3, HeldIsTaken DEF RunTaskCompletes, RunTaskUnverified, RunTaskFails, HoldingPc
    <3> QED BY <2>3, <3>1, LedgerRuns DEF Ledger!Next
  <2>4. CASE \/ ScanPending(p) \/ NothingLeft(p) \/ \E t \in Tasks : LoseRace(p, t)
             \/ ReadPayload(p) \/ FinishRead(p) \/ FinishRewrite(p)
    BY <2>4, LedgerStutters
  <2> QED BY <1>7, <2>1, <2>2, <2>3, <2>4 DEF WorkerNext
<1>8. CASE UNCHANGED vars
  <2>1. UNCHANGED <<queue, alive, phase, bad, pc, complete>>
    BY <1>8 DEF vars, procVars
  <2>2. Built' = Built /\ Told' = Told
    BY <2>1 DEF Built, Told, QuietWorkers, Live
  <2> QED BY <2>1, <2>2, LineKept DEF Ledger!ledgerVars
<1>9. (\E t \in Tasks : EvidenceChanges(t)) => Ledger!Next
  BY <1>5 DEF Ledger!Next
<1> QED BY <1>1, <1>2, <1>3, <1>4, <1>6, <1>7, <1>8, <1>9 DEF Next, DriverNext

\* Every behaviour of the queue is one of the ledger: each task is taken
\* once, settled once by its taker, and success is told only over a ledger
\* whose tasks are all finished.
THEOREM QueueImplementsLedger ==
  ASSUME ~OrphanWorkers
  PROVE  Spec => ImplementsLedger
<1>1. Init => OpenInv
  BY DEF Init, OpenInv
<1>2. TypeInv /\ IInv /\ OpenInv /\ [Next]_vars /\ IInv' => OpenInv'
  BY OpenStep
<1>3. TypeInv /\ IInv /\ OpenInv /\ [Next]_vars /\ IInv' => [Ledger!Next]_Ledger!ledgerVars
  BY LedgerStep
<1>4. QED
  BY <1>1, <1>2, <1>3, LedgerInit, Invariance, PTL DEF Spec, ImplementsLedger, Ledger!Spec

-----------------------------------------------------------------------------
(* Every step of the queue keeps the contract of every task                *)

Reply(p) == IF pc[p] \in Answered THEN IF ok[p] THEN "true" ELSE "false" ELSE "nothing"

\* A task that somebody has is his alone, and its answer is the one he got;
\* a task that nobody has has no answer.
Sole ==
  \A t \in Tasks :
    /\ \A p \in Procs : p \in Holders(t) => Holders(t) = {p} /\ Answer(t) = Reply(p)
    /\ Holders(t) = {} => Answer(t) = "nothing"

LEMMA SoleHolds == TypeInv /\ IInv => Sole
<1> SUFFICES ASSUME TypeInv, IInv, NEW t \in Tasks
             PROVE  /\ \A p \in Procs : p \in Holders(t) => Holders(t) = {p} /\ Answer(t) = Reply(p)
                    /\ Holders(t) = {} => Answer(t) = "nothing"
  BY DEF Sole
<1>1. ASSUME NEW p \in Procs, p \in Holders(t)
      PROVE  Holders(t) = {p} /\ Answer(t) = Reply(p)
  <2>1. Holders(t) = {p}
    BY <1>1, HeldByOne DEF Holders, IInv
  <2> QED BY <2>1, Zenon DEF Answer, Reply
<1>2. Holders(t) = {} => Answer(t) = "nothing"
  BY DEF Answer
<1> QED BY <1>1, <1>2

LEMMA SoleAfter ==
  ASSUME TypeInv', IInv'
  PROVE  Sole'
<1>1. (TypeInv /\ IInv => Sole)'
  BY SoleHolds, PTL
<1> QED BY <1>1

\* A step that moves no worker from or to task t, and leaves its evidence and
\* its answer alone, is none of the contract for t.
LEMMA ContractKept ==
  ASSUME NEW t \in Tasks, Sole, Sole', Holders(t)' = Holders(t),
         \A p \in Holders(t) : Reply(p)' = Reply(p),
         t \in complete <=> t \in complete'
  PROVE  Contract(t)!Step
<1>1. Answer(t)' = Answer(t)
  <2>1. CASE Holders(t) = {}
    BY <2>1 DEF Sole
  <2>2. CASE Holders(t) # {}
    <3>1. PICK p \in Procs : p \in Holders(t)
      BY <2>2 DEF Holders
    <3>2. Answer(t) = Reply(p) /\ Answer(t)' = Reply(p)'
      BY <3>1 DEF Sole
    <3> QED BY <3>1, <3>2
  <2> QED BY <2>1, <2>2
<1>2. (t \in complete)' = (t \in complete)
  OBVIOUS
<1> QED BY <1>1, <1>2 DEF Contract!Step, Contract!contractVars

\* Steps of other workers, and steps without an answer, are of this kind.
LEMMA OthersKeep ==
  ASSUME NEW t \in Tasks, Sole, Sole',
         \A q \in Procs : pc'[q] \in HoldingPc /\ held'[q] = t <=> pc[q] \in HoldingPc /\ held[q] = t,
         \A q \in Procs : pc[q] \in HoldingPc /\ held[q] = t =>
            ok'[q] = ok[q] /\ (pc'[q] \in Answered <=> pc[q] \in Answered),
         t \in complete <=> t \in complete'
  PROVE  Contract(t)!Step
<1>1. Holders(t)' = Holders(t)
  BY DEF Holders
<1>2. \A p \in Holders(t) : Reply(p)' = Reply(p)
  BY DEF Holders, Reply
<1> QED BY <1>1, <1>2, ContractKept

\* A claim starts a run: nobody else has the task, and it is not complete.
LEMMA ContractClaims ==
  ASSUME TypeInv, IInv, Sole, Sole', NEW p \in Procs, NEW t \in Tasks, NEW u \in Tasks,
         ClaimDescriptor(p, u)
  PROVE  Contract(t)!Step
<1>1. /\ pc[p] = "try" /\ pc'[p] = "claimed" /\ held'[p] = u /\ complete' = complete
      /\ \A q \in Procs : q # p => pc'[q] = pc[q] /\ held'[q] = held[q] /\ ok'[q] = ok[q]
  BY DEF ClaimDescriptor, TypeInv, TypeOK
<1>2. CASE t # u
  BY <1>1, <1>2, OthersKeep DEF HoldingPc
<1>3. CASE t = u
  <2>1. p \in Holders(t)'
    BY <1>1, <1>3 DEF Holders, HoldingPc
  <2>2. Holders(t)' = {p} /\ Answer(t)' = "nothing"
    <3>1. Holders(t)' = {p} /\ Answer(t)' = Reply(p)'
      BY <2>1 DEF Sole
    <3> QED BY <1>1, <3>1 DEF Reply, Answered
  <2>3. Holders(t) = {}
    <3>1. \A q \in Procs : q \in Holders(t) => q \in Holders(t)' /\ q # p
      BY <1>1 DEF Holders, HoldingPc
    <3> QED BY <2>2, <3>1 DEF Holders
  <2>4. t \notin complete
    <3>1. Live(p) /\ <<NoWorker, u>> \in queue["pending"]
      BY DEF ClaimDescriptor, Live, LivePc
    <3> QED BY <1>3, <3>1, DescriptorFacts DEF IInv, EvidenceInv, Claiming, FreshPending, QuietWorkers
  <2>5. (t \in complete)' = (t \in complete)
    BY <1>1
  <2>6. Contract(t)!Start
    BY <2>2, <2>3, <2>4, <2>5 DEF Contract!Start
  <2> QED BY <2>6 DEF Contract!Step, Contract!Next
<1> QED BY <1>2, <1>3

\* run_task answers: True with evidence, or of a task whose runner is trusted.
LEMMA ContractRuns ==
  ASSUME TypeInv, IInv, Sole, Sole', NEW p \in Procs, NEW t \in Tasks,
         RunTaskCompletes(p) \/ RunTaskUnverified(p) \/ RunTaskFails(p)
  PROVE  Contract(t)!Step
<1>1. /\ pc[p] = "run" /\ pc'[p] = "ran" /\ held' = held
      /\ \A q \in Procs : q # p => pc'[q] = pc[q] /\ ok'[q] = ok[q]
      /\ \/ ok'[p] = TRUE /\ complete' = complete \cup {held[p]}
         \/ ok'[p] = TRUE /\ held[p] \in V2Tasks /\ complete' = complete \ {held[p]}
         \/ /\ ok'[p] = FALSE
            /\ complete' \in {complete, complete \cup {held[p]}, complete \ {held[p]}}
  BY DEF RunTaskCompletes, RunTaskUnverified, RunTaskFails, LeavesEvidence, TypeInv, TypeOK
<1>2. CASE t # held[p]
  <2>1. t \in complete <=> t \in complete'
    BY <1>1, <1>2
  <2> QED BY <1>1, <1>2, <2>1, OthersKeep DEF HoldingPc
<1>3. CASE t = held[p]
  <2>1. p \in Holders(t) /\ p \in Holders(t)'
    BY <1>1, <1>3 DEF Holders, HoldingPc
  <2>2. Holders(t) = {p} /\ Answer(t) = Reply(p) /\ Holders(t)' = {p} /\ Answer(t)' = Reply(p)'
    BY <2>1 DEF Sole
  <2>3. Reply(p) = "nothing" /\ Reply(p)' = IF ok'[p] THEN "true" ELSE "false"
    BY <1>1 DEF Reply, Answered
  <2>4. ok'[p] => t \in complete' \/ t \in V2Tasks
    BY <1>1, <1>3
  <2>5. ok'[p] \in BOOLEAN
    BY <1>1
  <2>6. (t \in complete') \in BOOLEAN
    OBVIOUS
  <2>7. Contract(t)!Answer
    BY <2>2, <2>3, <2>4, <2>5, <2>6 DEF Contract!Answer
  <2> QED BY <2>7 DEF Contract!Step, Contract!Next
<1> QED BY <1>2, <1>3

\* The answer is filed, and the task is nobody's.
LEMMA ContractFiles ==
  ASSUME TypeInv, IInv, Sole, Sole', NEW p \in Procs, NEW t \in Tasks, FinishRename(p)
  PROVE  Contract(t)!Step
<1>1. Mine(p) \in queue["running"] /\ pc[p] = "rewritten"
  BY DEF FinishRename, IInv, HoldInv, HoldingPc
<1>2. /\ pc'[p] = "scan" /\ complete' = complete
      /\ \A q \in Procs : q # p => pc'[q] = pc[q] /\ held'[q] = held[q] /\ ok'[q] = ok[q]
  BY <1>1 DEF FinishRename, FileMissing, TypeInv, TypeOK
<1>3. CASE t # held[p]
  BY <1>1, <1>2, <1>3, OthersKeep DEF HoldingPc
<1>4. CASE t = held[p]
  <2>1. p \in Holders(t)
    BY <1>1, <1>4 DEF Holders, HoldingPc
  <2>2. Holders(t) = {p} /\ Answer(t) # "nothing"
    <3>1. Holders(t) = {p} /\ Answer(t) = Reply(p)
      BY <2>1 DEF Sole
    <3> QED BY <1>1, <3>1 DEF Reply, Answered
  <2>3. Holders(t)' = {}
    <3>1. \A q \in Procs : q \in Holders(t)' => q \in Holders(t) /\ q # p
      BY <1>2 DEF Holders, HoldingPc
    <3> QED BY <2>2, <3>1 DEF Holders
  <2>4. Answer(t)' = "nothing" /\ (t \in complete)' = (t \in complete)
    BY <1>2, <2>3 DEF Sole
  <2>5. Contract(t)!File
    BY <2>2, <2>3, <2>4 DEF Contract!File
  <2> QED BY <2>5 DEF Contract!Step, Contract!Next
<1> QED BY <1>3, <1>4

\* A worker that dies holding a task leaves it without an answer.
LEMMA ContractDies ==
  ASSUME TypeInv, IInv, Sole, Sole', NEW p \in Procs, NEW t \in Tasks, WorkerDies(p)
  PROVE  Contract(t)!Step
<1>1. /\ pc'[p] = "crashed"
      /\ \A q \in Procs : q # p => pc'[q] = pc[q] /\ held'[q] = held[q] /\ ok'[q] = ok[q]
  BY DieFacts DEF WorkerDies
<1>4. /\ pc[p] # "run" => complete' = complete
      /\ pc[p] = "run" => pc[p] \in HoldingPc
      /\ t # held[p] => (t \in complete' <=> t \in complete)
  BY DEF WorkerDies, LeavesEvidence, HoldingPc
<1>2. CASE p \notin Holders(t)
  <2>1. ~(pc[p] \in HoldingPc /\ held[p] = t) /\ pc'[p] \notin HoldingPc
    BY <1>1, <1>2 DEF Holders, HoldingPc
  <2>2. \A q \in Procs : pc'[q] \in HoldingPc /\ held'[q] = t <=> pc[q] \in HoldingPc /\ held[q] = t
    BY <1>1, <2>1
  <2>3. \A q \in Procs : pc[q] \in HoldingPc /\ held[q] = t =>
          ok'[q] = ok[q] /\ (pc'[q] \in Answered <=> pc[q] \in Answered)
    BY <1>1, <2>1
  <2>4. t \in complete' <=> t \in complete
    BY <1>4, <2>1
  <2> QED BY <1>1, <2>2, <2>3, <2>4, OthersKeep
<1>3. CASE p \in Holders(t)
  <2>1. Holders(t) = {p} /\ Answer(t) = Reply(p)
    BY <1>3 DEF Sole
  <2>2. Holders(t)' = {}
    <3>1. \A q \in Procs : q \in Holders(t)' => q \in Holders(t) /\ q # p
      BY <1>1 DEF Holders, HoldingPc
    <3> QED BY <2>1, <3>1 DEF Holders
  <2>3. Answer(t)' = "nothing"
    BY <2>2 DEF Sole
  <2>4. Answer(t) # "nothing" => complete' = complete
    <3>1. Answer(t) # "nothing" => pc[p] # "run"
      BY <2>1 DEF Reply, Answered
    <3> QED BY <1>4, <3>1
  <2>5. (t \in complete') \in BOOLEAN /\ (Answer(t) # "nothing" => (t \in complete') = (t \in complete))
    BY <2>4
  <2>6. Contract(t)!Die
    BY <2>1, <2>2, <2>3, <2>5 DEF Contract!Die
  <2> QED BY <2>6 DEF Contract!Step, Contract!Next
<1> QED BY <1>2, <1>3

\* Whatever else a worker does, it keeps its task and its answer.
LEMMA ContractWorks ==
  ASSUME TypeInv, IInv, Sole, Sole', NEW p \in Procs, NEW t \in Tasks,
         \/ LaunchWorker(p) \/ ScanPending(p) \/ NothingLeft(p) \/ \E u \in Tasks : LoseRace(p, u)
         \/ ReadPayload(p) \/ FinishRead(p) \/ FinishRewrite(p)
  PROVE  Contract(t)!Step
<1>1. pc[p] \in HoldingPc => Mine(p) \in queue["running"]
  BY DEF IInv, HoldInv
<1>2. /\ UNCHANGED <<complete, held, ok>>
      /\ \A q \in Procs : q # p => pc'[q] = pc[q]
      /\ pc'[p] \in HoldingPc <=> pc[p] \in HoldingPc
      /\ pc[p] \in HoldingPc => (pc'[p] \in Answered <=> pc[p] \in Answered)
  <2>1. CASE LaunchWorker(p) \/ ScanPending(p) \/ NothingLeft(p)
    BY <2>1 DEF LaunchWorker, ScanPending, NothingLeft, HoldingPc, TypeInv, TypeOK
  <2>2. CASE \E u \in Tasks : LoseRace(p, u)
    BY <2>2 DEF LoseRace
  <2>3. CASE ReadPayload(p) \/ FinishRead(p)
    BY <1>1, <2>3 DEF ReadPayload, FinishRead, FileMissing, HoldingPc, Answered, TypeInv, TypeOK
  <2>4. CASE FinishRewrite(p)
    BY <2>4 DEF FinishRewrite, HoldingPc, Answered, TypeInv, TypeOK
  <2> QED BY <2>1, <2>2, <2>3, <2>4
<1> QED BY <1>2, OthersKeep

LEMMA ContractStep ==
  ASSUME TypeInv, IInv, [Next]_vars, TypeInv', IInv', NEW t \in Tasks
  PROVE  Contract(t)!Step
<1>0. Sole /\ Sole'
  BY SoleHolds, SoleAfter
<1>1. CASE \/ ClearDir \/ EnqueueTask \/ WaitWorkers \/ PostProcess \/ CountDir \/ DriverDies
           \/ ResumeRun \/ UNCHANGED vars
  <2>1. UNCHANGED <<complete, pc, held, ok>>
    BY <1>1 DEF ClearDir, EnqueueTask, WaitWorkers, PostProcess, CountDir, DriverDies, ResumeRun,
       vars, procVars
  <2> QED BY <1>0, <2>1, OthersKeep
<1>2. ASSUME NEW u \in Tasks, EvidenceChanges(u)
      PROVE  Contract(t)!Step
  <2>1. UNCHANGED <<pc, held>> /\ QuietWorkers
    BY <1>2 DEF EvidenceChanges, procVars
  <2>2. Holders(t) = {} /\ Holders(t)' = {}
    BY <2>1 DEF Holders, QuietWorkers, Live, LivePc, HoldingPc
  <2>3. Answer(t) = "nothing" /\ Answer(t)' = "nothing"
    BY <1>0, <2>2 DEF Sole
  <2>4. (t \in complete') \in BOOLEAN
    OBVIOUS
  <2>5. Contract(t)!Change
    BY <2>2, <2>3, <2>4 DEF Contract!Change
  <2> QED BY <2>5 DEF Contract!Step, Contract!Next
<1>3. ASSUME NEW p \in Procs, LaunchWorker(p) \/ WorkerDies(p)
      PROVE  Contract(t)!Step
  BY <1>0, <1>3, ContractWorks, ContractDies
<1>4. ASSUME NEW p \in Procs, WorkerNext(p)
      PROVE  Contract(t)!Step
  <2>1. CASE \E u \in Tasks : ClaimDescriptor(p, u)
    BY <1>0, <2>1, ContractClaims
  <2>2. CASE RunTaskCompletes(p) \/ RunTaskUnverified(p) \/ RunTaskFails(p)
    BY <1>0, <2>2, ContractRuns
  <2>3. CASE FinishRename(p)
    BY <1>0, <2>3, ContractFiles
  <2>4. CASE \/ ScanPending(p) \/ NothingLeft(p) \/ \E u \in Tasks : LoseRace(p, u)
             \/ ReadPayload(p) \/ FinishRead(p) \/ FinishRewrite(p)
    BY <1>0, <2>4, ContractWorks
  <2> QED BY <1>4, <2>1, <2>2, <2>3, <2>4 DEF WorkerNext
<1> QED BY <1>1, <1>2, <1>3, <1>4 DEF Next, DriverNext

\* The queue drives every task as a run of it may expect: one run at a time,
\* none of a completed task, and an answer that is filed as it was given.
THEOREM QueueKeepsContract ==
  ASSUME ~OrphanWorkers
  PROVE  Spec => ImplementsContract
<1>1. ASSUME Init, NEW t \in Tasks
      PROVE  Contract(t)!Init
  <2>1. Holders(t) = {} /\ t \notin complete
    BY <1>1 DEF Init, Holders, HoldingPc
  <2> QED BY <2>1 DEF Answer, Contract!Init
<1>2. Init => \A t \in Tasks : Contract(t)!Init
  BY <1>1
<1>3. TypeInv /\ IInv /\ [Next]_vars /\ TypeInv' /\ IInv' => [\A t \in Tasks : Contract(t)!Step]_vars
  BY ContractStep
<1> QED BY <1>2, <1>3, Invariance, PTL DEF Spec, ImplementsContract

\* ... and takes every answer that the contract allows: what the queue is
\* modelled to expect of run_task excludes none.
THEOREM QueueTakesAnswers ==
  ASSUME TypeInv, NEW p \in Procs, pc[p] = "run", NEW c \in BOOLEAN, NEW answer \in BOOLEAN,
         answer => c \/ held[p] \in V2Tasks,
         complete' = (IF c THEN complete \cup {held[p]} ELSE complete \ {held[p]}),
         ok' = [ok EXCEPT ![p] = answer],
         failures' = (IF answer THEN failures ELSE [failures EXCEPT ![p] = TRUE]),
         pc' = [pc EXCEPT ![p] = "ran"],
         UNCHANGED <<queue, driverVars, todo, held, crashes>>
  PROVE  WorkerNext(p)
<1>1. CASE answer /\ c
  BY <1>1 DEF WorkerNext, RunTaskCompletes
<1>2. CASE answer /\ ~c
  BY <1>2 DEF WorkerNext, RunTaskUnverified
<1>3. CASE ~answer
  BY <1>3 DEF WorkerNext, RunTaskFails, LeavesEvidence
<1> QED BY <1>1, <1>2, <1>3

=============================================================================
