-------------------------- MODULE EvalToolsProofs --------------------------
(***************************************************************************)
(* Proofs about EvalTools, for all tools and all deadlines that satisfy    *)
(* EvalToolsAssumption.                                                    *)
(*                                                                         *)
(* The argument compares two countdowns.  While a command has a process,   *)
(* what the sidecar may still take until the last one is gone (timer and   *)
(* Rest) is less than what the client still waits (BusyInv).  A client     *)
(* that gives up therefore leaves behind a sidecar that only drains        *)
(* (DrainInv), for a shorter time than the next health request waits, and  *)
(* a command is sent to a sidecar that is idle (ProbeInv, QueueInv).       *)
(***************************************************************************)
EXTENDS EvalTools, TLAPS

USE EvalToolsAssumption

\* What the phases after p may take while processes exist.
Rest(p) == IF p = "command" THEN 5 * (Term + Kill)
           ELSE IF p = "terminate" THEN 3 * (Term + Kill)
           ELSE IF p = "again" THEN Term + Kill ELSE 0

Running == {"command", "terminate", "again", "contain"}

Asked(method, eval) == <<[method |-> method, open |-> TRUE, eval |-> eval]>>

JobInv ==
  \A t \in Tools : job[t].open =>
    pc = "executing" /\ tool = t /\ job[t].eval = evals /\ phase[t] \in Running \cup {"drain"}

BusyInv ==
  \A t \in Tools : phase[t] \in Running =>
    job[t].open /\ timer[t] + Rest(phase[t]) + Grace <= deadline + 5 * (Term + Kill)

DrainInv ==
  \A t \in Tools : phase[t] = "drain" =>
    IF job[t].open THEN timer[t] + Grace <= deadline + 5 * (Term + Kill) + Stall
    ELSE /\ timer[t] + Grace <= 5 * (Term + Kill) + Stall
         /\ results[t] # "clean"
         /\ pc = "probing" /\ tool = t => timer[t] < deadline

QueueInv ==
  \A t \in Tools : queue[t] # <<>> =>
    /\ tool = t
    /\ \/ pc = "probing" /\ queue[t] = Asked("health", evals) /\ phase[t] \in {"idle", "drain"}
       \/ /\ pc = "executing" /\ queue[t] = Asked("execute", evals) /\ phase[t] = "idle"
          /\ deadline = Timeout[t] + Grace

ProbeInv ==
  /\ pc = "probing" => /\ phase[tool] \in {"idle", "drain", "dead"}
                       /\ phase[tool] # "dead" => queue[tool] # <<>> /\ deadline > 0
  /\ pc = "assess" => phase[tool] \in {"idle", "dead"}

GateInv ==
  /\ \A t \in Tools : results[t] = "clean" => proven[t] = evals
  /\ pc = "measure" /\ policy = "required" => Satisfied

IInv == TypeOK /\ JobInv /\ BusyInv /\ DrainInv /\ QueueInv /\ ProbeInv /\ GateInv

-----------------------------------------------------------------------------
(* Lemmas about sequences of at most one request                           *)

LEMMA OneRequest ==
  ASSUME NEW r, NEW S, r \in S
  PROVE  /\ Append(<<>>, r) = <<r>> /\ <<r>> \in Seq(S) /\ <<>> \in Seq(S)
         /\ <<r>> # <<>> /\ Head(<<r>>) = r /\ Tail(<<r>>) = <<>>
OBVIOUS

LEMMA AskedFacts ==
  ASSUME NEW m \in {"health", "execute"}, NEW e \in 0..MaxEvals
  PROVE  /\ Asked(m, e) \in Seq(Request) /\ <<>> \in Seq(Request) /\ Asked(m, e) # <<>>
         /\ Append(<<>>, [method |-> m, open |-> TRUE, eval |-> e]) = Asked(m, e)
         /\ Head(Asked(m, e)).method = m /\ Head(Asked(m, e)).open
         /\ Head(Asked(m, e)).eval = e /\ Tail(Asked(m, e)) = <<>>
<1> DEFINE r == [method |-> m, open |-> TRUE, eval |-> e]
<1>1. r \in Request /\ r.method = m /\ r.open /\ r.eval = e
  BY DEF Request
<1> HIDE DEF r
<1>2. Asked(m, e) = <<r>>
  BY DEF Asked, r
<1> QED BY <1>1, <1>2, OneRequest DEF r

LEMMA InvInit == Init => IInv
<1> SUFFICES ASSUME Init
             PROVE  IInv
  OBVIOUS
<1>1. TypeOK
  BY DEF Init, TypeOK, Job, NoJob
<1> QED BY <1>1
    DEF Init, IInv, JobInv, BusyInv, DrainInv, QueueInv, ProbeInv, GateInv, Running, NoJob

-----------------------------------------------------------------------------
(* What the parts of an action do                                          *)

LEMMA EnterSets ==
  ASSUME TypeOK, NEW t \in Tools, NEW p \in Running \cup {"idle", "drain", "dead"}, NEW n \in Nat,
         Enter(t, p, n)
  PROVE  /\ phase' \in [Tools -> {"idle", "command", "terminate", "again", "contain", "drain", "dead"}]
         /\ timer' \in [Tools -> Nat]
         /\ phase'[t] = p /\ timer'[t] = n
         /\ \A u \in Tools \ {t} : phase'[u] = phase[u] /\ timer'[u] = timer[u]
<1>1. phase' = [phase EXCEPT ![t] = p] /\ timer' = [timer EXCEPT ![t] = n]
  BY DEF Enter
<1>2. /\ phase \in [Tools -> {"idle", "command", "terminate", "again", "contain", "drain", "dead"}]
      /\ timer \in [Tools -> Nat]
  BY DEF TypeOK
<1>3. p \in {"idle", "command", "terminate", "again", "contain", "drain", "dead"}
  BY DEF Running
<1> QED BY <1>1, <1>2, <1>3

LEMMA SendAsks ==
  ASSUME TypeOK, NEW t \in Tools, NEW m \in {"health", "execute"}, queue[t] = <<>>, Send(t, m)
  PROVE  /\ queue' \in [Tools -> Seq(Request)]
         /\ queue'[t] = IF phase[t] = "dead" THEN <<>> ELSE Asked(m, evals)
         /\ \A u \in Tools \ {t} : queue'[u] = queue[u]
<1>1. queue \in [Tools -> Seq(Request)] /\ evals \in 0..MaxEvals
  BY DEF TypeOK
<1>2. Append(queue[t], [method |-> m, open |-> TRUE, eval |-> evals]) = Asked(m, evals)
  BY <1>1, AskedFacts
<1>3. Asked(m, evals) \in Seq(Request)
  BY <1>1, AskedFacts
<1>4. queue' = IF phase[t] = "dead" THEN queue ELSE [queue EXCEPT ![t] = Asked(m, evals)]
  BY <1>2 DEF Send
<1> QED BY <1>1, <1>3, <1>4

LEMMA HangupCloses ==
  ASSUME TypeOK, NEW t \in Tools, queue[t] = <<>>, Hangup(t)
  PROVE  /\ queue' = queue /\ job' \in [Tools -> Job]
         /\ ~job'[t].open
         /\ \A u \in Tools \ {t} : job'[u] = job[u]
<1>1. queue \in [Tools -> Seq(Request)] /\ job \in [Tools -> Job]
  BY DEF TypeOK
<1>2. [i \in DOMAIN queue[t] |-> [queue[t][i] EXCEPT !.open = FALSE]] = <<>>
  OBVIOUS
<1>3. queue' = [queue EXCEPT ![t] = <<>>]
  BY <1>2 DEF Hangup
<1>4. queue' = queue
  BY <1>1, <1>3
<1>5. job' = [job EXCEPT ![t].open = FALSE]
  BY DEF Hangup
<1> QED BY <1>1, <1>4, <1>5 DEF Job

LEMMA NothingQueued ==
  ASSUME IInv, NEW t \in Tools, pc \notin {"probing", "executing"} \/ tool # t \/ phase[t] = "dead"
  PROVE  queue[t] = <<>>
BY DEF IInv, QueueInv

\* A client that gives up has no request queued, and leaves no process.
LEMMA GivingUp ==
  ASSUME IInv, pc \in {"probing", "executing"}, deadline = 0 \/ phase[tool] = "dead"
  PROVE  /\ tool \in Tools /\ queue[tool] = <<>> /\ phase[tool] \notin Running
         /\ pc = "probing" => phase[tool] = "dead"
<1>1. /\ tool \in Tools /\ deadline \in Nat /\ timer[tool] \in Nat /\ Timeout[tool] \in Nat \ {0}
      /\ phase[tool] \in {"idle", "command", "terminate", "again", "contain", "drain", "dead"}
  BY DEF IInv, TypeOK
<1>2. pc = "probing" => phase[tool] = "dead"
  BY <1>1 DEF IInv, ProbeInv
<1>3. queue[tool] = <<>>
  BY <1>1, <1>2 DEF IInv, QueueInv
<1>4. Rest(phase[tool]) \in Nat
  BY DEF Rest
<1>5. phase[tool] \notin Running
  <2> SUFFICES ASSUME phase[tool] \in Running
               PROVE  FALSE
    OBVIOUS
  <2>1. timer[tool] + Rest(phase[tool]) + Grace <= deadline + 5 * (Term + Kill)
    BY <1>1 DEF IInv, BusyInv
  <2>2. deadline = 0
    BY DEF Running
  <2> QED BY <1>1, <1>4, <2>1, <2>2
<1> QED BY <1>1, <1>2, <1>3, <1>5

-----------------------------------------------------------------------------
(* The scoring process                                                     *)

LEMMA StartKeeps ==
  ASSUME IInv, StartEvaluation
  PROVE  IInv'
<1> USE DEF IInv, StartEvaluation, sidecarVars
<1>1. TypeOK'
  BY DEF TypeOK
<1>2. JobInv'
  BY DEF JobInv
<1>3. BusyInv'
  BY DEF BusyInv, JobInv
<1>4. DrainInv'
  BY DEF DrainInv, JobInv
<1>5. QueueInv'
  BY DEF QueueInv
<1>6. ProbeInv'
  BY DEF ProbeInv
<1>7. GateInv'
  BY DEF GateInv, TypeOK
<1> QED BY <1>1, <1>2, <1>3, <1>4, <1>5, <1>6, <1>7

LEMMA ProbeKeeps ==
  ASSUME IInv, NEW t \in Tools, Probe(t)
  PROVE  IInv'
<1>1. /\ pc = "next" /\ pc' = "probing" /\ tool' = t /\ deadline' = Health
      /\ UNCHANGED <<policy, todo, results, evals, phase, timer, job, proven>>
  BY DEF Probe
<1>2. queue[t] = <<>>
  BY <1>1, NothingQueued
<1>3. /\ queue' \in [Tools -> Seq(Request)]
      /\ queue'[t] = IF phase[t] = "dead" THEN <<>> ELSE Asked("health", evals)
      /\ \A u \in Tools \ {t} : queue'[u] = queue[u]
  <2>1. Send(t, "health")
    BY DEF Probe
  <2> QED BY <1>2, <2>1, SendAsks DEF IInv
<1>4. \A u \in Tools \ {t} : queue'[u] = <<>>
  BY <1>1, <1>3, NothingQueued
<1>5. /\ \A u \in Tools : phase[u] \notin Running /\ ~job[u].open
      /\ phase[t] \in {"idle", "drain", "dead"}
  BY <1>1 DEF IInv, BusyInv, JobInv, TypeOK, Running
<1>6. TypeOK'
  BY <1>1, <1>3 DEF IInv, TypeOK
<1>7. JobInv' /\ BusyInv'
  BY <1>1, <1>5 DEF JobInv, BusyInv
<1>8. DrainInv'
  <2>1. \A u \in Tools : timer[u] \in Nat
    BY DEF IInv, TypeOK
  <2> QED BY <1>1, <1>5, <2>1 DEF IInv, DrainInv
<1>9. Asked("health", evals) # <<>>
  BY AskedFacts DEF IInv, TypeOK
<1>10. QueueInv'
  BY <1>1, <1>3, <1>4, <1>5 DEF QueueInv
<1>11. ProbeInv'
  BY <1>1, <1>3, <1>5, <1>9 DEF ProbeInv
<1>12. GateInv'
  BY <1>1 DEF IInv, GateInv
<1> QED BY <1>6, <1>7, <1>8, <1>10, <1>11, <1>12 DEF IInv

\* A client that leaves, with something else than clean in its report.
LEMMA LeavingKeeps ==
  ASSUME IInv, pc \in {"probing", "executing"}, deadline = 0 \/ phase[tool] = "dead",
         NEW result \in {"not_applicable", "blocked", "failed"}, Report(tool, result),
         Hangup(tool), deadline' = 0,
         UNCHANGED <<policy, tool, evals, phase, timer, proven>>
  PROVE  IInv'
<1>1. /\ tool \in Tools /\ queue[tool] = <<>> /\ phase[tool] \notin Running
      /\ pc = "probing" => phase[tool] = "dead"
  BY GivingUp
<1>2. /\ queue' = queue /\ job' \in [Tools -> Job] /\ ~job'[tool].open
      /\ \A u \in Tools \ {tool} : job'[u] = job[u]
  BY <1>1, HangupCloses DEF IInv
<1>3. /\ pc' = "next" /\ todo' = todo \ {tool} /\ results' = [results EXCEPT ![tool] = result]
  BY DEF Report
<1>4. results \in [Tools -> {"none", "not_applicable", "blocked", "failed", "clean"}]
  BY DEF IInv, TypeOK
<1>5. \A u \in Tools \ {tool} : queue[u] = <<>> /\ ~job[u].open /\ phase[u] \notin Running
  BY DEF IInv, QueueInv, JobInv, BusyInv
<1>6. TypeOK'
  BY <1>2, <1>3, <1>4 DEF IInv, TypeOK
<1>7. JobInv' /\ BusyInv'
  BY <1>1, <1>2, <1>5 DEF JobInv, BusyInv
<1>8. QueueInv' /\ ProbeInv'
  BY <1>1, <1>2, <1>3, <1>5 DEF QueueInv, ProbeInv
<1>9. DrainInv'
  <2> SUFFICES ASSUME NEW u \in Tools, phase[u] = "drain"
               PROVE  timer[u] + Grace <= 5 * (Term + Kill) + Stall /\ results'[u] # "clean"
    BY <1>2, <1>3, <1>5 DEF DrainInv
  <2>1. timer[u] \in Nat /\ deadline \in Nat
    BY DEF IInv, TypeOK
  <2>2. CASE u = tool
    BY <1>3, <1>4, <2>1, <2>2 DEF IInv, DrainInv
  <2>3. CASE u # tool
    BY <1>3, <1>4, <1>5, <2>3 DEF IInv, DrainInv
  <2> QED BY <2>2, <2>3
<1>10. GateInv'
  BY <1>3, <1>4 DEF IInv, GateInv
<1> QED BY <1>6, <1>7, <1>8, <1>9, <1>10 DEF IInv

LEMMA ProbeFailsKeeps ==
  ASSUME IInv, ProbeFails
  PROVE  IInv'
<1>1. PICK result \in {"not_applicable", "blocked"} : Report(tool, result)
  BY DEF ProbeFails
<1>2. /\ pc = "probing" /\ (deadline = 0 \/ phase[tool] = "dead")
      /\ Hangup(tool) /\ deadline' = 0
      /\ UNCHANGED <<policy, tool, evals, phase, timer, proven>>
  BY DEF ProbeFails
<1> QED BY <1>1, <1>2, LeavingKeeps

LEMMA ExecuteFailsKeeps ==
  ASSUME IInv, ExecuteFails
  PROVE  IInv'
BY LeavingKeeps DEF ExecuteFails

LEMMA AssessKeeps ==
  ASSUME IInv, Assess
  PROVE  IInv'
<1>1. pc = "assess" /\ UNCHANGED <<policy, tool, evals, phase, timer, job, proven>>
  BY DEF Assess
<1>2. tool \in Tools /\ queue[tool] = <<>> /\ phase[tool] \in {"idle", "dead"}
  BY <1>1, NothingQueued DEF IInv, TypeOK, ProbeInv
<1>3. \A u \in Tools : queue[u] = <<>> /\ ~job[u].open /\ phase[u] \notin Running
  BY <1>1 DEF IInv, QueueInv, JobInv, BusyInv
<1>4. results \in [Tools -> {"none", "not_applicable", "blocked", "failed", "clean"}]
  BY DEF IInv, TypeOK
<1>5. ASSUME NEW result \in {"not_applicable", "blocked", "failed"}, Report(tool, result),
             UNCHANGED <<deadline, queue>>
      PROVE  IInv'
  <2>1. /\ pc' = "next" /\ todo' = todo \ {tool} /\ results' = [results EXCEPT ![tool] = result]
    BY <1>5 DEF Report
  <2>2. TypeOK'
    BY <1>1, <1>4, <1>5, <2>1 DEF IInv, TypeOK
  <2>3. JobInv' /\ BusyInv' /\ QueueInv' /\ ProbeInv'
    BY <1>1, <1>3, <1>5, <2>1 DEF JobInv, BusyInv, QueueInv, ProbeInv
  <2>4. DrainInv'
    BY <1>1, <1>2, <1>3, <1>4, <2>1 DEF IInv, DrainInv
  <2>5. GateInv'
    BY <1>1, <1>4, <2>1 DEF IInv, GateInv
  <2> QED BY <2>2, <2>3, <2>4, <2>5 DEF IInv
<1>6. ASSUME pc' = "executing", deadline' = Timeout[tool] + Grace, Send(tool, "execute"),
             UNCHANGED <<results, todo>>
      PROVE  IInv'
  <2>1. /\ queue' \in [Tools -> Seq(Request)]
        /\ queue'[tool] = IF phase[tool] = "dead" THEN <<>> ELSE Asked("execute", evals)
        /\ \A u \in Tools \ {tool} : queue'[u] = queue[u]
    BY <1>2, <1>6, SendAsks DEF IInv
  <2>2. TypeOK'
    BY <1>1, <1>2, <1>6, <2>1 DEF IInv, TypeOK
  <2>3. JobInv' /\ BusyInv' /\ ProbeInv'
    BY <1>1, <1>3, <1>6 DEF JobInv, BusyInv, ProbeInv
  <2>4. QueueInv'
    BY <1>1, <1>2, <1>3, <1>6, <2>1 DEF QueueInv
  <2>5. DrainInv'
    BY <1>1, <1>3, <1>6 DEF IInv, DrainInv
  <2>6. GateInv'
    BY <1>1, <1>6 DEF IInv, GateInv
  <2> QED BY <2>2, <2>3, <2>4, <2>5, <2>6 DEF IInv
<1> QED BY <1>5, <1>6 DEF Assess

LEMMA DecideKeeps ==
  ASSUME IInv, Decide
  PROVE  IInv'
<1> USE DEF IInv, Decide, sidecarVars
<1>1. TypeOK'
  BY DEF TypeOK
<1>2. JobInv'
  BY DEF JobInv
<1>3. BusyInv'
  BY DEF BusyInv, JobInv
<1>4. DrainInv'
  BY DEF DrainInv, JobInv
<1>5. QueueInv'
  BY DEF QueueInv
<1>6. ProbeInv'
  BY DEF ProbeInv
<1>7. GateInv'
  BY DEF GateInv, TypeOK, Satisfied
<1> QED BY <1>1, <1>2, <1>3, <1>4, <1>5, <1>6, <1>7

LEMMA MeasureKeeps ==
  ASSUME IInv, MeasurePerformance
  PROVE  IInv'
<1> USE DEF IInv, MeasurePerformance, sidecarVars
<1>1. TypeOK'
  BY DEF TypeOK
<1>2. JobInv'
  BY DEF JobInv
<1>3. BusyInv'
  BY DEF BusyInv, JobInv
<1>4. DrainInv'
  BY DEF DrainInv, JobInv
<1>5. QueueInv'
  BY DEF QueueInv
<1>6. ProbeInv'
  BY DEF ProbeInv
<1>7. GateInv'
  BY DEF GateInv
<1> QED BY <1>1, <1>2, <1>3, <1>4, <1>5, <1>6, <1>7

-----------------------------------------------------------------------------
(* The sidecars                                                            *)

\* While the client waits for an answer of its own, nothing else is open.
LEMMA OnlyOpen ==
  ASSUME IInv, NEW t \in Tools, queue[t] # <<>>
  PROVE  /\ \A u \in Tools \ {t} : queue[u] = <<>> /\ ~job[u].open /\ phase[u] \notin Running
         /\ phase[t] = "idle" => ~job[t].open
<1>1. tool = t /\ pc \in {"probing", "executing"}
  BY DEF IInv, QueueInv
<1> QED BY <1>1 DEF IInv, QueueInv, JobInv, BusyInv, Running

LEMMA HealthKeeps ==
  ASSUME IInv, NEW t \in Tools, AnswerHealth(t)
  PROVE  IInv'
<1>1. /\ phase[t] = "idle" /\ queue[t] # <<>> /\ Head(queue[t]).method = "health"
      /\ queue' = [queue EXCEPT ![t] = Tail(@)]
      /\ UNCHANGED <<policy, tool, todo, results, evals, phase, timer, job, proven>>
  BY DEF AnswerHealth, Incoming
<1>2. evals \in 0..MaxEvals /\ queue \in [Tools -> Seq(Request)]
  BY DEF IInv, TypeOK
<1>3. pc = "probing" /\ tool = t /\ Head(queue[t]).open /\ Tail(queue[t]) = <<>>
  BY <1>1, <1>2, AskedFacts DEF IInv, QueueInv
<1>4. pc' = "assess" /\ deadline' = 0
  BY <1>3 DEF AnswerHealth
<1>5. /\ \A u \in Tools \ {t} : queue[u] = <<>> /\ ~job[u].open /\ phase[u] \notin Running
      /\ ~job[t].open
  BY <1>1, OnlyOpen
<1>6. queue' = [queue EXCEPT ![t] = <<>>]
  BY <1>1, <1>3
<1>7. TypeOK'
  BY <1>1, <1>2, <1>4, <1>6, AskedFacts DEF IInv, TypeOK
<1>8. JobInv' /\ BusyInv'
  BY <1>1, <1>5 DEF JobInv, BusyInv, Running
<1>9. DrainInv'
  BY <1>1, <1>4, <1>5 DEF IInv, DrainInv
<1>10. QueueInv'
  BY <1>2, <1>5, <1>6 DEF QueueInv
<1>11. ProbeInv'
  BY <1>1, <1>3, <1>4 DEF ProbeInv
<1>12. GateInv'
  BY <1>1, <1>4 DEF IInv, GateInv
<1> QED BY <1>7, <1>8, <1>9, <1>10, <1>11, <1>12 DEF IInv

LEMMA AcceptKeeps ==
  ASSUME IInv, NEW t \in Tools, AcceptExecute(t)
  PROVE  IInv'
<1>1. /\ phase[t] = "idle" /\ queue[t] # <<>> /\ Head(queue[t]).method = "execute"
      /\ queue' = [queue EXCEPT ![t] = Tail(@)]
      /\ UNCHANGED <<policy, tool, evals, proven>>
  BY DEF AcceptExecute, Incoming
<1>2. /\ evals \in 0..MaxEvals /\ queue \in [Tools -> Seq(Request)] /\ Timeout[t] \in Nat
      /\ results \in [Tools -> {"none", "not_applicable", "blocked", "failed", "clean"}]
      /\ job \in [Tools -> Job]
  BY DEF IInv, TypeOK
<1>3. /\ pc = "executing" /\ tool = t /\ deadline = Timeout[t] + Grace
      /\ Head(queue[t]).open /\ Head(queue[t]).eval = evals /\ Tail(queue[t]) = <<>>
  BY <1>1, <1>2, AskedFacts DEF IInv, QueueInv
<1>4. /\ \A u \in Tools \ {t} : queue[u] = <<>> /\ ~job[u].open /\ phase[u] \notin Running
      /\ ~job[t].open
  BY <1>1, OnlyOpen
<1>5. queue' = [queue EXCEPT ![t] = <<>>] /\ <<>> \in Seq(Request)
  BY <1>1, <1>2, <1>3, AskedFacts
<1>6. QueueInv'
  BY <1>2, <1>4, <1>5 DEF QueueInv
<1>7. ASSUME Report(t, "failed"), deadline' = 0, UNCHANGED <<phase, timer, job>>
      PROVE  IInv'
  <2>1. /\ pc' = "next" /\ todo' = todo \ {t} /\ results' = [results EXCEPT ![t] = "failed"]
    BY <1>7 DEF Report
  <2>2. TypeOK'
    BY <1>1, <1>2, <1>5, <1>7, <2>1 DEF IInv, TypeOK
  <2>3. JobInv' /\ BusyInv' /\ ProbeInv'
    BY <1>1, <1>4, <1>7, <2>1 DEF JobInv, BusyInv, ProbeInv, Running
  <2>4. DrainInv'
    BY <1>1, <1>2, <1>4, <1>7, <2>1 DEF IInv, DrainInv
  <2>5. GateInv'
    BY <1>1, <1>2, <2>1 DEF IInv, GateInv
  <2> QED BY <1>6, <2>2, <2>3, <2>4, <2>5 DEF IInv
<1>8. ASSUME Enter(t, "command", Timeout[t]),
             job' = [job EXCEPT ![t] = JobOf(Head(queue[t]))],
             UNCHANGED <<pc, todo, results, deadline>>
      PROVE  IInv'
  <2>1. /\ phase' \in [Tools -> {"idle", "command", "terminate", "again", "contain", "drain", "dead"}]
        /\ timer' \in [Tools -> Nat]
        /\ phase'[t] = "command" /\ timer'[t] = Timeout[t]
        /\ \A u \in Tools \ {t} : phase'[u] = phase[u] /\ timer'[u] = timer[u]
    BY <1>2, <1>8, EnterSets DEF IInv, Running
  <2>2. /\ job' \in [Tools -> Job] /\ job'[t].open /\ job'[t].eval = evals
        /\ \A u \in Tools \ {t} : job'[u] = job[u]
    <3> DEFINE j == [open |-> TRUE, eval |-> evals, clean |-> FALSE, late |-> FALSE, left |-> FALSE]
    <3>1. j \in Job /\ j.open /\ j.eval = evals
      BY <1>2 DEF Job
    <3>2. Head(queue[t]).open = TRUE /\ Head(queue[t]).eval = evals
      <4>1. queue[t] = Asked("execute", evals)
        BY <1>1, <1>3 DEF IInv, QueueInv
      <4>2. Head(queue[t]) = [method |-> "execute", open |-> TRUE, eval |-> evals]
        BY <4>1 DEF Asked
      <4> QED BY <4>2
    <3>3. JobOf(Head(queue[t])) = j
      BY <3>2 DEF JobOf
    <3> HIDE DEF j
    <3>4. job' = [job EXCEPT ![t] = j]
      BY <1>8, <3>3
    <3> QED BY <1>2, <3>1, <3>4
  <2>3. TypeOK'
    BY <1>1, <1>5, <1>8, <2>1, <2>2 DEF IInv, TypeOK
  <2>4. JobInv'
    BY <1>1, <1>3, <1>4, <1>8, <2>1, <2>2 DEF JobInv, Running
  <2>5. BusyInv'
    <3>1. timer'[t] + Rest(phase'[t]) + Grace <= deadline' + 5 * (Term + Kill)
      BY <1>2, <1>3, <1>8, <2>1 DEF Rest
    <3> QED BY <1>4, <2>1, <2>2, <3>1 DEF BusyInv
  <2>6. DrainInv'
    <3> SUFFICES ASSUME NEW u \in Tools, phase'[u] = "drain"
                 PROVE  /\ ~job'[u].open /\ timer'[u] + Grace <= 5 * (Term + Kill) + Stall
                        /\ results'[u] # "clean" /\ pc' # "probing"
      BY DEF DrainInv
    <3>1. u # t
      BY <2>1
    <3> QED BY <1>3, <1>4, <1>8, <2>1, <2>2, <3>1 DEF IInv, DrainInv
  <2>7. ProbeInv'
    BY <1>3, <1>8 DEF ProbeInv
  <2>8. GateInv'
    BY <1>1, <1>3, <1>8 DEF IInv, GateInv
  <2> QED BY <1>6, <2>3, <2>4, <2>5, <2>6, <2>7, <2>8 DEF IInv
<1> QED BY <1>3, <1>7, <1>8 DEF AcceptExecute

\* A phase that ends while processes may exist: the next one and the rest
\* fit in what is left of the time.
LEMMA PhaseKeeps ==
  ASSUME IInv, NEW t \in Tools, NEW p \in (Running \ {"command"}) \cup {"drain"}, NEW n \in Nat,
         phase[t] \in Running, Enter(t, p, n),
         p # "drain" => n + Rest(p) <= timer[t] + Rest(phase[t]),
         p = "drain" => n = Stall,
         job' \in [Tools -> Job], job'[t].open = job[t].open, job'[t].eval = job[t].eval,
         \A u \in Tools \ {t} : job'[u] = job[u],
         UNCHANGED <<policy, clientVars, queue, proven>>
  PROVE  IInv'
<1>1. /\ phase' \in [Tools -> {"idle", "command", "terminate", "again", "contain", "drain", "dead"}]
      /\ timer' \in [Tools -> Nat]
      /\ phase'[t] = p /\ timer'[t] = n
      /\ \A u \in Tools \ {t} : phase'[u] = phase[u] /\ timer'[u] = timer[u]
  <2>1. p \in Running \cup {"idle", "drain", "dead"}
    OBVIOUS
  <2> QED BY <2>1, EnterSets DEF IInv
<1>2. UNCHANGED <<policy, pc, tool, todo, results, evals, deadline, queue, proven>>
  BY DEF clientVars
<1>3. job[t].open /\ pc = "executing" /\ tool = t /\ job[t].eval = evals
  BY DEF IInv, BusyInv, JobInv
<1>4. timer[t] + Rest(phase[t]) + Grace <= deadline + 5 * (Term + Kill)
  BY DEF IInv, BusyInv
<1>5. \A u \in Tools \ {t} : ~job'[u].open /\ phase'[u] \notin Running
  BY <1>1, <1>3 DEF IInv, JobInv, BusyInv
<1>6. TypeOK'
  BY <1>1, <1>2 DEF IInv, TypeOK
<1>7. JobInv'
  BY <1>1, <1>2, <1>3, <1>5 DEF JobInv
<1>8. timer[t] \in Nat /\ deadline \in Nat /\ Rest(phase[t]) \in Nat /\ Rest(p) \in Nat
  BY DEF IInv, TypeOK, Rest
<1>9. BusyInv'
  <2>1. p \in Running => n + Rest(p) + Grace <= deadline + 5 * (Term + Kill)
    BY <1>4, <1>8 DEF Running
  <2> QED BY <1>1, <1>2, <1>3, <1>5, <2>1 DEF BusyInv
<1>10. DrainInv'
  <2>1. p = "drain" => n + Grace <= deadline + 5 * (Term + Kill) + Stall
    BY <1>4, <1>8
  <2> QED BY <1>1, <1>2, <1>3, <1>5, <2>1 DEF IInv, DrainInv
<1>11. QueueInv'
  BY <1>1, <1>2, <1>3 DEF IInv, QueueInv, Running
<1>12. ProbeInv'
  BY <1>2, <1>3 DEF ProbeInv
<1>13. GateInv'
  BY <1>2, <1>3 DEF IInv, GateInv
<1> QED BY <1>6, <1>7, <1>9, <1>10, <1>11, <1>12, <1>13 DEF IInv

LEMMA EndsKeeps ==
  ASSUME IInv, NEW t \in Tools, CommandEnds(t)
  PROVE  IInv'
<1>1. PICK clean \in BOOLEAN, left \in BOOLEAN :
        /\ job' = [job EXCEPT ![t].clean = clean, ![t].left = left]
        /\ IF left THEN Enter(t, "terminate", 2 * (Term + Kill)) ELSE Enter(t, "contain", Term + Kill)
  BY DEF CommandEnds
<1>2. phase[t] = "command" /\ UNCHANGED <<policy, clientVars, queue, proven>>
  BY DEF CommandEnds
<1>3. job \in [Tools -> Job] /\ timer[t] \in Nat
  BY DEF IInv, TypeOK
<1>4. /\ job' \in [Tools -> Job] /\ job'[t].open = job[t].open /\ job'[t].eval = job[t].eval
      /\ \A u \in Tools \ {t} : job'[u] = job[u]
  BY <1>1, <1>3 DEF Job
<1>5. /\ 2 * (Term + Kill) \in Nat /\ Term + Kill \in Nat /\ phase[t] \in Running
      /\ 2 * (Term + Kill) + Rest("terminate") <= timer[t] + Rest(phase[t])
      /\ Term + Kill + Rest("contain") <= timer[t] + Rest(phase[t])
  BY <1>2, <1>3 DEF Rest, Running
<1>6. {"terminate", "contain"} \subseteq (Running \ {"command"}) \cup {"drain"}
  BY DEF Running
<1>7. CASE left
  BY <1>1, <1>2, <1>4, <1>5, <1>6, <1>7, PhaseKeeps
<1>8. CASE ~left
  BY <1>1, <1>2, <1>4, <1>5, <1>6, <1>8, PhaseKeeps
<1> QED BY <1>7, <1>8

LEMMA TimesOutKeeps ==
  ASSUME IInv, NEW t \in Tools, CommandTimesOut(t)
  PROVE  IInv'
<1>1. PICK clean \in BOOLEAN : job' = [job EXCEPT ![t].clean = clean, ![t].late = TRUE]
  BY DEF CommandTimesOut
<1>2. /\ phase[t] = "command" /\ Enter(t, "terminate", 2 * (Term + Kill))
      /\ UNCHANGED <<policy, clientVars, queue, proven>>
  BY DEF CommandTimesOut
<1>3. job \in [Tools -> Job] /\ timer[t] \in Nat
  BY DEF IInv, TypeOK
<1>4. /\ job' \in [Tools -> Job] /\ job'[t].open = job[t].open /\ job'[t].eval = job[t].eval
      /\ \A u \in Tools \ {t} : job'[u] = job[u]
  BY <1>1, <1>3 DEF Job
<1>5. /\ 2 * (Term + Kill) \in Nat /\ phase[t] \in Running
      /\ 2 * (Term + Kill) + Rest("terminate") <= timer[t] + Rest(phase[t])
  BY <1>2, <1>3 DEF Rest, Running
<1>6. "terminate" \in (Running \ {"command"}) \cup {"drain"}
  BY DEF Running
<1> QED BY <1>2, <1>4, <1>5, <1>6, PhaseKeeps

LEMMA TerminatedKeeps ==
  ASSUME IInv, NEW t \in Tools, GroupTerminated(t)
  PROVE  IInv'
<1>1. UNCHANGED <<policy, clientVars, queue, job, proven>>
  BY DEF GroupTerminated
<1>2. /\ job' \in [Tools -> Job] /\ job'[t].open = job[t].open /\ job'[t].eval = job[t].eval
      /\ \A u \in Tools \ {t} : job'[u] = job[u]
  BY <1>1 DEF IInv, TypeOK
<1>3. timer[t] \in Nat
  BY DEF IInv, TypeOK
<1>4. 2 * (Term + Kill) \in Nat /\ Term + Kill \in Nat
  OBVIOUS
<1>5. {"again", "contain"} \subseteq (Running \ {"command"}) \cup {"drain"}
  BY DEF Running
<1>6. CASE phase[t] \in {"terminate", "again"} /\ Enter(t, "contain", Term + Kill)
  <2>1. phase[t] \in Running /\ Term + Kill + Rest("contain") <= timer[t] + Rest(phase[t])
    BY <1>3, <1>6 DEF Rest, Running
  <2> QED BY <1>1, <1>2, <1>4, <1>5, <1>6, <2>1, PhaseKeeps
<1>7. CASE phase[t] = "terminate" /\ Enter(t, "again", 2 * (Term + Kill))
  <2>1. phase[t] \in Running /\ 2 * (Term + Kill) + Rest("again") <= timer[t] + Rest(phase[t])
    BY <1>3, <1>7 DEF Rest, Running
  <2> QED BY <1>1, <1>2, <1>4, <1>5, <1>7, <2>1, PhaseKeeps
<1> QED BY <1>6, <1>7 DEF GroupTerminated

LEMMA ContainedKeeps ==
  ASSUME IInv, NEW t \in Tools, Contained(t)
  PROVE  IInv'
<1>1. PICK more \in BOOLEAN : job' = [job EXCEPT ![t].left = @ \/ more]
  BY DEF Contained
<1>2. /\ phase[t] = "contain" /\ Enter(t, "drain", Stall)
      /\ UNCHANGED <<policy, clientVars, queue, proven>>
  BY DEF Contained
<1>3. job \in [Tools -> Job]
  BY DEF IInv, TypeOK
<1>4. /\ job' \in [Tools -> Job] /\ job'[t].open = job[t].open /\ job'[t].eval = job[t].eval
      /\ \A u \in Tools \ {t} : job'[u] = job[u]
  BY <1>1, <1>3 DEF Job
<1>5. phase[t] \in Running
  BY <1>2 DEF Running
<1> QED BY <1>2, <1>4, <1>5, PhaseKeeps

LEMMA ReplyKeeps ==
  ASSUME IInv, NEW t \in Tools, Reply(t)
  PROVE  IInv'
<1>1. PICK whole \in BOOLEAN :
        /\ IF job[t].open THEN Report(t, Result(job[t], whole)) /\ deadline' = 0
                          ELSE UNCHANGED <<pc, todo, results, deadline>>
        /\ proven' = IF job[t].clean /\ ~job[t].late /\ ~job[t].left /\ whole
                     THEN [proven EXCEPT ![t] = job[t].eval] ELSE proven
  BY DEF Reply
<1>2. /\ phase[t] = "drain" /\ Enter(t, "idle", 0) /\ job' = [job EXCEPT ![t] = NoJob]
      /\ UNCHANGED <<policy, tool, evals, queue>>
  BY DEF Reply
<1>3. /\ phase' \in [Tools -> {"idle", "command", "terminate", "again", "contain", "drain", "dead"}]
      /\ timer' \in [Tools -> Nat]
      /\ phase'[t] = "idle" /\ timer'[t] = 0
      /\ \A u \in Tools \ {t} : phase'[u] = phase[u] /\ timer'[u] = timer[u]
  BY <1>2, EnterSets DEF IInv
<1>4. /\ results \in [Tools -> {"none", "not_applicable", "blocked", "failed", "clean"}]
      /\ job \in [Tools -> Job] /\ proven \in [Tools -> 0..MaxEvals]
      /\ timer[t] \in Nat /\ deadline \in Nat
  BY DEF IInv, TypeOK
<1>5. /\ job' \in [Tools -> Job] /\ ~job'[t].open
      /\ \A u \in Tools \ {t} : job'[u] = job[u]
  <2>1. NoJob \in Job /\ ~NoJob.open
    BY DEF NoJob, Job
  <2> QED BY <1>2, <1>4, <2>1
<1>6. proven' \in [Tools -> 0..MaxEvals] /\ \A u \in Tools \ {t} : proven'[u] = proven[u]
  <2>1. job[t].eval \in 0..MaxEvals
    BY <1>4 DEF Job
  <2> QED BY <1>1, <1>4, <2>1
<1>7. CASE job[t].open
  <2>1. pc = "executing" /\ tool = t /\ job[t].eval = evals
    BY <1>7 DEF IInv, JobInv
  <2>2. /\ pc' = "next" /\ todo' = todo \ {t} /\ deadline' = 0
        /\ results' = [results EXCEPT ![t] = Result(job[t], whole)]
    BY <1>1, <1>7 DEF Report
  <2>3. Result(job[t], whole) \in {"clean", "failed"}
    BY DEF Result
  <2>4. /\ \A u \in Tools \ {t} : ~job[u].open /\ phase[u] \notin Running /\ queue[u] = <<>>
        /\ queue[t] = <<>>
    BY <1>2, <2>1 DEF IInv, JobInv, BusyInv, QueueInv
  <2>5. TypeOK'
    BY <1>2, <1>3, <1>4, <1>5, <1>6, <2>2, <2>3 DEF IInv, TypeOK
  <2>6. JobInv' /\ BusyInv' /\ QueueInv' /\ ProbeInv'
    BY <1>2, <1>3, <1>5, <2>2, <2>4 DEF JobInv, BusyInv, QueueInv, ProbeInv, Running
  <2>7. DrainInv'
    BY <1>3, <1>4, <1>5, <2>2, <2>4 DEF IInv, DrainInv
  <2>8. GateInv'
    <3>1. Result(job[t], whole) = "clean" => proven'[t] = evals
      BY <1>1, <1>4, <2>1 DEF Result
    <3> QED BY <1>2, <1>4, <1>6, <2>2, <3>1 DEF IInv, GateInv
  <2> QED BY <2>5, <2>6, <2>7, <2>8 DEF IInv
<1>8. CASE ~job[t].open
  <2>1. UNCHANGED <<pc, todo, results, deadline>>
    BY <1>1, <1>8
  <2>2. results[t] # "clean"
    BY <1>2, <1>8 DEF IInv, DrainInv
  <2>3. TypeOK'
    BY <1>2, <1>3, <1>5, <1>6, <2>1 DEF IInv, TypeOK
  <2>4. JobInv'
    BY <1>2, <1>3, <1>5, <2>1 DEF IInv, JobInv
  <2>5. BusyInv'
    BY <1>3, <1>5, <2>1 DEF IInv, BusyInv, Running
  <2>6. DrainInv'
    BY <1>2, <1>3, <1>5, <2>1 DEF IInv, DrainInv
  <2>7. QueueInv'
    BY <1>2, <1>3, <2>1 DEF IInv, QueueInv
  <2>8. ProbeInv'
    <3>1. CASE tool = t
      <4>1. pc = "probing" => timer[t] < deadline
        BY <1>2, <1>8, <3>1 DEF IInv, DrainInv
      <4>2. pc = "probing" => queue[t] # <<>>
        BY <1>2, <3>1 DEF IInv, ProbeInv
      <4> QED BY <1>2, <1>3, <1>4, <2>1, <3>1, <4>1, <4>2 DEF ProbeInv
    <3>2. CASE tool # t
      BY <1>2, <1>3, <2>1, <3>2 DEF IInv, ProbeInv, TypeOK
    <3> QED BY <3>1, <3>2
  <2>9. GateInv'
    BY <1>2, <1>6, <2>1, <2>2 DEF IInv, GateInv, Satisfied
  <2> QED BY <2>3, <2>4, <2>5, <2>6, <2>7, <2>8, <2>9 DEF IInv
<1> QED BY <1>7, <1>8

LEMMA DiesKeeps ==
  ASSUME IInv, NEW t \in Tools, Dies(t)
  PROVE  IInv'
<1>1. /\ Enter(t, "dead", 0) /\ queue' = [queue EXCEPT ![t] = <<>>]
      /\ job' = [job EXCEPT ![t] = NoJob]
      /\ UNCHANGED <<policy, pc, tool, todo, results, evals, deadline, proven>>
  BY DEF Dies, clientVars
<1>2. /\ phase' \in [Tools -> {"idle", "command", "terminate", "again", "contain", "drain", "dead"}]
      /\ timer' \in [Tools -> Nat]
      /\ phase'[t] = "dead" /\ timer'[t] = 0
      /\ \A u \in Tools \ {t} : phase'[u] = phase[u] /\ timer'[u] = timer[u]
  BY <1>1, EnterSets DEF IInv
<1>3. /\ job' \in [Tools -> Job] /\ ~job'[t].open
      /\ \A u \in Tools \ {t} : job'[u] = job[u]
  <2>1. NoJob \in Job /\ ~NoJob.open
    BY DEF NoJob, Job
  <2> QED BY <1>1, <2>1 DEF IInv, TypeOK
<1>4. /\ queue' \in [Tools -> Seq(Request)] /\ queue'[t] = <<>>
      /\ \A u \in Tools \ {t} : queue'[u] = queue[u]
  BY <1>1 DEF IInv, TypeOK
<1>5. TypeOK'
  BY <1>1, <1>2, <1>3, <1>4 DEF IInv, TypeOK
<1>6. JobInv'
  BY <1>1, <1>2, <1>3 DEF IInv, JobInv
<1>7. BusyInv'
  BY <1>1, <1>2, <1>3 DEF IInv, BusyInv, Running
<1>8. DrainInv'
  BY <1>1, <1>2, <1>3 DEF IInv, DrainInv
<1>9. QueueInv'
  BY <1>1, <1>2, <1>4 DEF IInv, QueueInv
<1>10. ProbeInv'
  BY <1>1, <1>2, <1>4 DEF IInv, ProbeInv, TypeOK
<1>11. GateInv'
  BY <1>1 DEF IInv, GateInv, Satisfied
<1> QED BY <1>5, <1>6, <1>7, <1>8, <1>9, <1>10, <1>11 DEF IInv

LEMMA TickKeeps ==
  ASSUME IInv, Tick
  PROVE  IInv'
<1>1. /\ pc \in {"probing", "executing"} => deadline > 0 /\ phase[tool] # "dead"
      /\ \A t \in Tools : phase[t] \in Running \cup {"drain"} => timer[t] > 0
      /\ \A t \in Tools : phase[t] = "idle" => queue[t] = <<>>
      /\ deadline' = IF pc \in {"probing", "executing"} THEN deadline - 1 ELSE deadline
      /\ UNCHANGED <<policy, pc, tool, todo, results, evals, queue, phase, job, proven>>
  BY DEF Tick, Waiting, Timed, Running
<1>2. timer' = [t \in Tools |-> IF phase[t] \in Running \cup {"drain"} THEN timer[t] - 1 ELSE timer[t]]
  <2>1. Timed = {t \in Tools : phase[t] \in Running \cup {"drain"}}
    BY DEF Timed, Running
  <2> QED BY <2>1 DEF Tick
<1>3. deadline \in Nat /\ timer \in [Tools -> Nat] /\ tool \in Tools
  BY DEF IInv, TypeOK
<1>4. timer' \in [Tools -> Nat]
  BY <1>1, <1>2, <1>3
<1>5. deadline' \in Nat
  BY <1>1, <1>3
<1>6. TypeOK'
  BY <1>1, <1>4, <1>5 DEF IInv, TypeOK
<1>7. JobInv'
  BY <1>1 DEF IInv, JobInv
<1>8. \A t \in Tools : Rest(phase[t]) \in Nat
  BY DEF Rest
<1>9. BusyInv'
  <2> SUFFICES ASSUME NEW t \in Tools, phase[t] \in Running
               PROVE  job[t].open /\ timer'[t] + Rest(phase[t]) + Grace <= deadline' + 5 * (Term + Kill)
    BY <1>1 DEF BusyInv
  <2>1. job[t].open /\ timer[t] + Rest(phase[t]) + Grace <= deadline + 5 * (Term + Kill)
    BY DEF IInv, BusyInv
  <2>2. deadline' = deadline - 1 /\ timer'[t] = timer[t] - 1
    BY <1>1, <1>2, <2>1 DEF IInv, JobInv
  <2> QED BY <1>3, <1>8, <2>1, <2>2
<1>10. DrainInv'
  <2> SUFFICES ASSUME NEW t \in Tools, phase[t] = "drain"
               PROVE  IF job[t].open THEN timer'[t] + Grace <= deadline' + 5 * (Term + Kill) + Stall
                      ELSE /\ timer'[t] + Grace <= 5 * (Term + Kill) + Stall
                           /\ results[t] # "clean"
                           /\ pc = "probing" /\ tool = t => timer'[t] < deadline'
    BY <1>1 DEF DrainInv
  <2>1. timer'[t] = timer[t] - 1
    BY <1>2
  <2>2. IF job[t].open THEN timer[t] + Grace <= deadline + 5 * (Term + Kill) + Stall
        ELSE /\ timer[t] + Grace <= 5 * (Term + Kill) + Stall
             /\ results[t] # "clean"
             /\ pc = "probing" /\ tool = t => timer[t] < deadline
    BY DEF IInv, DrainInv
  <2>3. job[t].open => pc = "executing"
    BY DEF IInv, JobInv
  <2> QED BY <1>1, <1>3, <2>1, <2>2, <2>3
<1>11. QueueInv'
  BY <1>1 DEF IInv, QueueInv
<1>12. ProbeInv'
  <2> SUFFICES ASSUME pc = "probing", phase[tool] # "dead"
               PROVE  phase[tool] \in {"idle", "drain"} /\ queue[tool] # <<>> /\ deadline' > 0
    BY <1>1 DEF IInv, ProbeInv
  <2>1. phase[tool] \in {"idle", "drain"} /\ queue[tool] # <<>>
    BY DEF IInv, ProbeInv
  <2>2. phase[tool] = "drain" /\ ~job[tool].open /\ timer[tool] > 0 /\ timer[tool] < deadline
    BY <1>1, <1>3, <2>1 DEF IInv, JobInv, DrainInv
  <2> QED BY <1>1, <1>3, <2>1, <2>2
<1>13. GateInv'
  BY <1>1 DEF IInv, GateInv, Satisfied
<1> QED BY <1>6, <1>7, <1>9, <1>10, <1>11, <1>12, <1>13 DEF IInv

-----------------------------------------------------------------------------
(* The theorems                                                            *)

LEMMA InvNext == IInv /\ [Next]_vars => IInv'
<1> SUFFICES ASSUME IInv, [Next]_vars
             PROVE  IInv'
  OBVIOUS
<1>1. CASE StartEvaluation
  BY <1>1, StartKeeps
<1>2. CASE Evaluate
  BY <1>2, ProbeKeeps, ProbeFailsKeeps, AssessKeeps, ExecuteFailsKeeps, DecideKeeps, MeasureKeeps
  DEF Evaluate
<1>3. CASE Tick
  BY <1>3, TickKeeps
<1>4. ASSUME NEW t \in Tools, Serve(t)
      PROVE  IInv'
  BY <1>4, HealthKeeps, AcceptKeeps, EndsKeeps, TimesOutKeeps, TerminatedKeeps, ContainedKeeps,
     ReplyKeeps DEF Serve
<1>5. ASSUME NEW t \in Tools, Dies(t)
      PROVE  IInv'
  BY <1>5, DiesKeeps
<1>6. CASE UNCHANGED vars
  BY <1>6 DEF vars, clientVars, sidecarVars, IInv, TypeOK, JobInv, BusyInv, DrainInv, QueueInv,
     ProbeInv, GateInv, Satisfied
<1> QED BY <1>1, <1>2, <1>3, <1>4, <1>5, <1>6 DEF Next

LEMMA Invariance == Spec => []IInv
<1> QED BY InvInit, InvNext, PTL DEF Spec

\* Every reachable state has its types.
THEOREM EvalToolsTypes == Spec => []TypeOK
<1>1. IInv => TypeOK
  BY DEF IInv
<1> QED BY <1>1, Invariance, PTL

\* The client outwaits every process of the command it asked for: the GPU is
\* quiet when it measures, whatever the timeouts of the tools.
THEOREM EvalToolsQuiet == Spec => []QuietGPU
<1>1. IInv => QuietGPU
  BY DEF IInv, BusyInv, JobInv, QuietGPU, Busy, Running
<1> QED BY <1>1, Invariance, PTL

\* Under the required policy, performance is measured on clean evidence of
\* this evaluation only.
THEOREM EvalToolsGate == Spec => []GateIsHonest
<1>1. IInv => GateIsHonest
  BY DEF IInv, GateInv, GateIsHonest, Satisfied
<1> QED BY <1>1, Invariance, PTL

\* A tool is unavailable only if its sidecar is gone.
THEOREM EvalToolsAvailable == Spec => []BusyIsNotUnavailable
<1>1. IInv => BusyIsNotUnavailable
  BY DEF IInv, ProbeInv, BusyIsNotUnavailable, TypeOK
<1> QED BY <1>1, Invariance, PTL

-----------------------------------------------------------------------------
(* The sidecar that ToolContainment justifies                               *)

LEMMA BusyIs ==
  \A t \in Tools : t \in Busy <=> phase[t] \in {"command", "terminate", "again", "contain"}
BY DEF Busy

LEMMA SidecarInit ==
  ASSUME Init, NEW t \in Tools
  PROVE  Sidecar(t)!Init
<1>1. phase[t] = "idle" /\ ~job[t].left /\ ~job[t].late
  BY DEF Init, NoJob
<1>2. t \notin Busy
  BY <1>1, BusyIs
<1> QED BY <1>1, <1>2 DEF Sidecar!Init

\* A step that leaves the phase and what the reply will say of a sidecar alone.
LEMMA SidecarIdle ==
  ASSUME NEW t \in Tools, phase'[t] = phase[t],
         job'[t].left = job[t].left, job'[t].late = job[t].late
  PROVE  [Sidecar(t)!Next]_(Sidecar(t)!sidecarVars)
<1>1. (t \in Busy)' = (t \in Busy)
  BY DEF Busy
<1> QED BY <1>1 DEF Sidecar!sidecarVars

\* ... as what another sidecar does is.
LEMMA OthersIdle ==
  ASSUME TypeOK, NEW t \in Tools, NEW u \in Tools \ {t},
         (\E p, n : Enter(t, p, n)) \/ UNCHANGED phase,
         (\E j : job' = [job EXCEPT ![t] = j]) \/ UNCHANGED job
  PROVE  [Sidecar(u)!Next]_(Sidecar(u)!sidecarVars)
<1>1. phase'[u] = phase[u]
  BY DEF Enter, TypeOK
<1>2. job'[u] = job[u]
  BY DEF TypeOK
<1> QED BY <1>1, <1>2, SidecarIdle

LEMMA JobType ==
  ASSUME TypeOK, NEW t \in Tools
  PROVE  /\ job[t].left \in BOOLEAN /\ job[t].late \in BOOLEAN
         /\ \A clean, left, late :
              /\ [job[t] EXCEPT !.clean = clean, !.left = left].left = left
              /\ [job[t] EXCEPT !.clean = clean, !.left = left].late = job[t].late
              /\ [job[t] EXCEPT !.clean = clean, !.late = late].left = job[t].left
              /\ [job[t] EXCEPT !.clean = clean, !.late = late].late = late
              /\ [job[t] EXCEPT !.left = left].left = left
              /\ [job[t] EXCEPT !.left = left].late = job[t].late
BY DEF TypeOK, Job

LEMMA ServeKeepsPromise ==
  ASSUME TypeOK, NEW t \in Tools, Serve(t) \/ Dies(t)
  PROVE  [Sidecar(t)!Next]_(Sidecar(t)!sidecarVars)
<1>0. /\ phase \in [Tools -> {"idle", "command", "terminate", "again", "contain", "drain", "dead"}]
      /\ job \in [Tools -> Job]
      /\ job[t].left \in BOOLEAN /\ job[t].late \in BOOLEAN
  BY JobType DEF TypeOK
<1>1. (t \in Busy <=> phase[t] \in {"command", "terminate", "again", "contain"})
      /\ ((t \in Busy)' <=> phase'[t] \in {"command", "terminate", "again", "contain"})
  BY DEF Busy
<1>2. \A p, n : Enter(t, p, n) => phase'[t] = p
  BY <1>0 DEF Enter
<1>3. CASE AnswerHealth(t)
  BY <1>3, SidecarIdle DEF AnswerHealth
<1>4. CASE AcceptExecute(t)
  <2>1. CASE UNCHANGED <<phase, job>>
    BY <2>1, SidecarIdle
  <2>2. CASE Enter(t, "command", Timeout[t]) /\ job' = [job EXCEPT ![t] = JobOf(Head(queue[t]))]
    <3>1. phase[t] = "idle" /\ phase'[t] = "command"
      BY <1>2, <1>4, <2>2 DEF AcceptExecute, Incoming
    <3>2. job'[t] = JobOf(Head(queue[t]))
      BY <1>0, <2>2
    <3>3. ~job'[t].left /\ ~job'[t].late
      BY <3>2 DEF JobOf
    <3>4. Sidecar(t)!Start
      BY <1>1, <3>1, <3>3 DEF Sidecar!Start
    <3> QED BY <3>4 DEF Sidecar!Next
  <2> QED BY <1>4, <2>1, <2>2 DEF AcceptExecute
<1>5. CASE CommandEnds(t)
  <2>1. PICK clean \in BOOLEAN, l \in BOOLEAN :
          /\ job' = [job EXCEPT ![t].clean = clean, ![t].left = l]
          /\ IF l THEN Enter(t, "terminate", 2 * (Term + Kill)) ELSE Enter(t, "contain", Term + Kill)
    BY <1>5 DEF CommandEnds
  <2>2. job'[t] = [job[t] EXCEPT !.clean = clean, !.left = l]
    BY <1>0, <2>1
  <2>3. job'[t].left = l /\ job'[t].late = job[t].late
    BY <2>2, JobType
  <2>4. phase[t] = "command" /\ phase'[t] = IF l THEN "terminate" ELSE "contain"
    BY <1>2, <1>5, <2>1 DEF CommandEnds
  <2>5. Sidecar(t)!CommandEnds
    BY <1>1, <2>3, <2>4 DEF Sidecar!CommandEnds
  <2> QED BY <2>5 DEF Sidecar!Next
<1>6. CASE CommandTimesOut(t)
  <2>1. PICK clean \in BOOLEAN : job' = [job EXCEPT ![t].clean = clean, ![t].late = TRUE]
    BY <1>6 DEF CommandTimesOut
  <2>2. job'[t] = [job[t] EXCEPT !.clean = clean, !.late = TRUE]
    BY <1>0, <2>1
  <2>3. job'[t].left = job[t].left /\ job'[t].late = TRUE
    BY <2>2, JobType
  <2>4. phase[t] = "command" /\ phase'[t] = "terminate"
    BY <1>2, <1>6 DEF CommandTimesOut
  <2>5. Sidecar(t)!CommandTimesOut
    BY <1>1, <2>3, <2>4 DEF Sidecar!CommandTimesOut
  <2> QED BY <2>5 DEF Sidecar!Next
<1>7. CASE GroupTerminated(t)
  <2>1. \/ phase[t] \in {"terminate", "again"} /\ phase'[t] = "contain"
        \/ phase[t] = "terminate" /\ phase'[t] = "again"
    BY <1>2, <1>7 DEF GroupTerminated
  <2>2. job' = job
    BY <1>7 DEF GroupTerminated
  <2>3. Sidecar(t)!GroupTerminated
    BY <1>1, <2>1, <2>2 DEF Sidecar!GroupTerminated
  <2> QED BY <2>3 DEF Sidecar!Next
<1>8. CASE Contained(t)
  <2>1. PICK more \in BOOLEAN : job' = [job EXCEPT ![t].left = @ \/ more]
    BY <1>8 DEF Contained
  <2>2. job'[t] = [job[t] EXCEPT !.left = job[t].left \/ more]
    BY <1>0, <2>1
  <2>3. job'[t].left = (job[t].left \/ more) /\ job'[t].late = job[t].late
    BY <2>2, JobType
  <2>4. phase[t] = "contain" /\ phase'[t] = "drain"
    BY <1>2, <1>8 DEF Contained
  <2>5. Sidecar(t)!Contained
    BY <1>0, <1>1, <2>3, <2>4 DEF Sidecar!Contained
  <2> QED BY <2>5 DEF Sidecar!Next
<1>9. CASE Reply(t)
  <2>1. phase[t] = "drain" /\ phase'[t] = "idle" /\ job'[t] = NoJob
    BY <1>0, <1>2, <1>9 DEF Reply
  <2>2. ~job'[t].left /\ ~job'[t].late
    BY <2>1 DEF NoJob
  <2>3. Sidecar(t)!Reply
    BY <1>1, <2>1, <2>2 DEF Sidecar!Reply
  <2> QED BY <2>3 DEF Sidecar!Next
<1>10. CASE Dies(t)
  <2>1. phase'[t] = "dead" /\ job'[t] = NoJob
    BY <1>0, <1>2, <1>10 DEF Dies
  <2>2. ~job'[t].left /\ ~job'[t].late
    BY <2>1 DEF NoJob
  <2>3. Sidecar(t)!Dies
    BY <1>1, <2>1, <2>2 DEF Sidecar!Dies
  <2> QED BY <2>3 DEF Sidecar!Next
<1> QED BY <1>3, <1>4, <1>5, <1>6, <1>7, <1>8, <1>9, <1>10 DEF Serve

LEMMA ServeIsLocal ==
  ASSUME TypeOK, NEW t \in Tools, Serve(t) \/ Dies(t), NEW u \in Tools \ {t}
  PROVE  [Sidecar(u)!Next]_(Sidecar(u)!sidecarVars)
<1>1. phase \in [Tools -> {"idle", "command", "terminate", "again", "contain", "drain", "dead"}]
      /\ job \in [Tools -> Job]
  BY DEF TypeOK
<1>2. phase'[u] = phase[u]
  BY <1>1 DEF Serve, Dies, AnswerHealth, AcceptExecute, CommandEnds, CommandTimesOut,
              GroupTerminated, Contained, Reply, Enter
<1>3. job'[u] = job[u]
  BY <1>1 DEF Serve, Dies, AnswerHealth, AcceptExecute, CommandEnds, CommandTimesOut,
              GroupTerminated, Contained, Reply
<1> QED BY <1>2, <1>3, SidecarIdle

\* The client hangs up, and nothing else it does touches a sidecar.
LEMMA ClientIsIdle ==
  ASSUME TypeOK, StartEvaluation \/ Evaluate \/ Tick \/ UNCHANGED vars, NEW u \in Tools
  PROVE  [Sidecar(u)!Next]_(Sidecar(u)!sidecarVars)
<1>1. phase' = phase
  BY DEF StartEvaluation, Evaluate, Tick, vars, sidecarVars, Probe, ProbeFails, Assess,
         ExecuteFails, Decide, MeasurePerformance
<1>2. job' = job \/ job' = [job EXCEPT ![tool].open = FALSE]
  BY DEF StartEvaluation, Evaluate, Tick, vars, sidecarVars, Probe, ProbeFails, Assess,
         ExecuteFails, Decide, MeasurePerformance, Hangup
<1>3. job'[u] = job[u] \/ job'[u] = [job[u] EXCEPT !.open = FALSE]
  BY <1>2 DEF TypeOK
<1>4. job[u] \in Job
  BY DEF TypeOK
<1>5. job'[u].left = job[u].left /\ job'[u].late = job[u].late
  BY <1>3, <1>4 DEF Job
<1> QED BY <1>1, <1>5, SidecarIdle

\* Every sidecar of the evaluation keeps the promise of a ToolSidecar: what
\* EvalTools takes for granted of execute_command is what ToolContainment
\* proves of it (ContainmentImplementsSidecar), for all tools and deadlines.
THEOREM EvalToolsImplementSidecar == Spec => ImplementsSidecar
<1>1. Init => \A t \in Tools : Sidecar(t)!Init
  BY SidecarInit, Zenon
<1>2. IInv /\ [Next]_vars => [\A t \in Tools : [Sidecar(t)!Next]_(Sidecar(t)!sidecarVars)]_vars
  <2> SUFFICES ASSUME TypeOK, [Next]_vars, NEW u \in Tools
               PROVE  [Sidecar(u)!Next]_(Sidecar(u)!sidecarVars)
    BY Zenon DEF IInv
  <2>1. ASSUME NEW t \in Tools, Serve(t) \/ Dies(t)
        PROVE  [Sidecar(u)!Next]_(Sidecar(u)!sidecarVars)
    BY <2>1, ServeKeepsPromise, ServeIsLocal, Zenon
  <2> QED BY <2>1, ClientIsIdle, Zenon DEF Next
<1> QED BY <1>1, <1>2, Invariance, PTL DEF Spec, ImplementsSidecar
=============================================================================
