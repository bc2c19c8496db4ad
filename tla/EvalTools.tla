----------------------------- MODULE EvalTools -----------------------------
(***************************************************************************)
(* The evaluation of one candidate by the optional tools: the manager and  *)
(* the client in the scoring process (src/eval_tools/manager.py,           *)
(* runtime_client.py), the policy gate before the performance measurement  *)
(* (src/evaluator.py), and one sequential sidecar per tool                 *)
(* (src/eval_tools/worker.py, execution.py) on the same GPU.               *)
(*                                                                         *)
(* Time matters: client and sidecar give up by deadlines of their own.     *)
(* Tick lets a unit of time pass; the steps between two waits take none.   *)
(* How a sidecar finds its processes is the subject of ToolContainment.    *)
(***************************************************************************)
EXTENDS Integers, Sequences

CONSTANTS
  Tools,       \* the enabled tools, a sidecar each
  Timeout,     \* of each tool's command: timeout_s
  Term, Kill,  \* DEFAULT_TERM_GRACE_SECONDS, DEFAULT_KILL_GRACE_SECONDS
  Stall,       \* longest wait for the drains of stdout and stderr
  Health,      \* the client's deadline for a health request
  Grace,       \* DEFAULT_RPC_GRACE_SECONDS
  MaxEvals     \* bound on the evaluations of a run

\* 2 * (10 + 5) for the group, as much again for its leader, 10 + 5 for the
\* containment: 75 seconds, and the client grants 90.  With the 34 of the
\* drains 109, and the client's next request waits for another 30.
ASSUME EvalToolsAssumption ==
  /\ Timeout \in [Tools -> Nat \ {0}]
  /\ Term \in Nat /\ Kill \in Nat /\ Stall \in Nat /\ Health \in Nat \ {0} /\ Grace \in Nat
  /\ MaxEvals \in Nat
  /\ 5 * (Term + Kill) < Grace
  /\ 5 * (Term + Kill) + Stall < Grace + Health

VARIABLES
  policy,     \* of the run: advisory or required
  pc, tool,   \* the scoring process, and the tool it is busy with
  todo,       \* the tools of the plan it has not come to
  results,    \* what the report says of each tool
  evals,      \* evaluations so far
  deadline,   \* time left for the reply the client waits for
  queue,      \* connections each sidecar has not accepted, with their request
  phase,      \* of each sidecar
  timer,      \* time left for its phase
  job,        \* the command it executes
  proven      \* last evaluation in which each tool's command ended clean

clientVars == <<pc, tool, todo, results, evals, deadline>>
sidecarVars == <<queue, phase, timer, job>>
vars == <<policy, clientVars, sidecarVars, proven>>

Request == [method : {"health", "execute"}, open : BOOLEAN, eval : 0..MaxEvals]
Job == [open : BOOLEAN, eval : 0..MaxEvals, clean : BOOLEAN, late : BOOLEAN, left : BOOLEAN]
JobOf(r) == [open |-> r.open, eval |-> r.eval, clean |-> FALSE, late |-> FALSE, left |-> FALSE]
NoJob == [open |-> FALSE, eval |-> 0, clean |-> FALSE, late |-> FALSE, left |-> FALSE]

Init ==
  /\ policy \in {"advisory", "required"}
  /\ pc = "idle" /\ tool \in Tools /\ todo = {} /\ results = [t \in Tools |-> "none"]
  /\ evals = 0 /\ deadline = 0
  /\ queue = [t \in Tools |-> <<>>] /\ phase = [t \in Tools |-> "idle"]
  /\ timer = [t \in Tools |-> 0] /\ job = [t \in Tools |-> NoJob]
  /\ proven = [t \in Tools |-> 0]

\* Phases in which a process of the command may exist.
Busy == {t \in Tools : phase[t] \in {"command", "terminate", "again", "contain"}}
Waiting == pc \in {"probing", "executing"}

-----------------------------------------------------------------------------
(* The scoring process                                                     *)

StartEvaluation ==
  /\ pc = "idle" /\ evals < MaxEvals
  /\ pc' = "next" /\ todo' = Tools /\ evals' = evals + 1
  /\ results' = [t \in Tools |-> "none"]
  /\ UNCHANGED <<policy, tool, deadline, sidecarVars, proven>>

\* A connection of its own for every request, which a dead sidecar refuses.
Send(t, method) ==
  queue' = IF phase[t] = "dead" THEN queue
           ELSE [queue EXCEPT ![t] = Append(@, [method |-> method, open |-> TRUE, eval |-> evals])]

Probe(t) ==
  /\ pc = "next" /\ t \in todo
  /\ pc' = "probing" /\ tool' = t /\ deadline' = Health
  /\ Send(t, "health")
  /\ UNCHANGED <<policy, todo, results, evals, phase, timer, job, proven>>

\* Mutant: a tool that is unavailable is tried again.
ReportRetried(t, result) ==
  /\ results' = [results EXCEPT ![t] = result]
  /\ todo' = IF result = "blocked" THEN todo ELSE todo \ {t}
  /\ pc' = "next"

\* The report on the tool is made; on to the next one.
Report(t, result) ==
  /\ results' = [results EXCEPT ![t] = result] /\ todo' = todo \ {t}
  /\ pc' = "next"

\* The client leaves: its connection is closed, accepted or not.
Hangup(t) ==
  /\ queue' = [queue EXCEPT ![t] = [i \in DOMAIN @ |-> [@[i] EXCEPT !.open = FALSE]]]
  /\ job' = [job EXCEPT ![t].open = FALSE]

\* No answer in time, connection refused or closed.  The runtime is
\* unavailable, but a tool the task does not need is still not applicable.
ProbeFails ==
  /\ pc = "probing" /\ (deadline = 0 \/ phase[tool] = "dead")
  /\ \E result \in {"not_applicable", "blocked"} : Report(tool, result)
  /\ Hangup(tool) /\ deadline' = 0
  /\ UNCHANGED <<policy, tool, evals, phase, timer, proven>>

\* Mutant: the client's deadline is the command's.
AssessNoGrace ==
  /\ pc = "assess"
  /\ \/ /\ \E result \in {"not_applicable", "blocked", "failed"} : Report(tool, result)
        /\ UNCHANGED <<deadline, queue>>
     \/ /\ pc' = "executing" /\ deadline' = Timeout[tool]
        /\ Send(tool, "execute")
        /\ UNCHANGED <<results, todo>>
  /\ UNCHANGED <<policy, tool, evals, phase, timer, job, proven>>

\* assess and build_invocation after a health answer: the tool is blocked
\* or not applicable, the invocation cannot be built, or it is executed.
Assess ==
  /\ pc = "assess"
  /\ \/ /\ \E result \in {"not_applicable", "blocked", "failed"} : Report(tool, result)
        /\ UNCHANGED <<deadline, queue>>
     \/ /\ pc' = "executing" /\ deadline' = Timeout[tool] + Grace
        /\ Send(tool, "execute")
        /\ UNCHANGED <<results, todo>>
  /\ UNCHANGED <<policy, tool, evals, phase, timer, job, proven>>

ExecuteFails ==
  /\ pc = "executing" /\ (deadline = 0 \/ phase[tool] = "dead")
  /\ Report(tool, "failed") /\ Hangup(tool) /\ deadline' = 0
  /\ UNCHANGED <<policy, tool, evals, phase, timer, proven>>

\* evaluate_policy: every tool that applies has a clean result.
Satisfied == \A t \in Tools : results[t] \in {"not_applicable", "clean"}

Decide ==
  /\ pc = "next" /\ todo = {}
  /\ pc' = IF policy = "advisory" \/ Satisfied THEN "measure" ELSE "idle"
  /\ UNCHANGED <<policy, tool, todo, results, evals, deadline, sidecarVars, proven>>

MeasurePerformance ==
  /\ pc = "measure"
  /\ pc' = "idle"
  /\ UNCHANGED <<policy, tool, todo, results, evals, deadline, sidecarVars, proven>>

-----------------------------------------------------------------------------
(* A sidecar: one request after the other                                  *)

Enter(t, p, limit) ==
  phase' = [phase EXCEPT ![t] = p] /\ timer' = [timer EXCEPT ![t] = limit]

Incoming(t, method) ==
  phase[t] = "idle" /\ queue[t] # <<>> /\ Head(queue[t]).method = method

\* Whatever the health answer says, the client's assessment follows.
AnswerHealth(t) ==
  /\ Incoming(t, "health")
  /\ queue' = [queue EXCEPT ![t] = Tail(@)]
  /\ IF Head(queue[t]).open THEN pc' = "assess" /\ deadline' = 0
                            ELSE UNCHANGED <<pc, deadline>>
  /\ UNCHANGED <<policy, tool, todo, results, evals, phase, timer, job, proven>>

\* The request is refused, or its command starts.
AcceptExecute(t) ==
  /\ Incoming(t, "execute")
  /\ queue' = [queue EXCEPT ![t] = Tail(@)]
  /\ \/ /\ IF Head(queue[t]).open THEN Report(t, "failed") /\ deadline' = 0
                                  ELSE UNCHANGED <<pc, todo, results, deadline>>
        /\ UNCHANGED <<phase, timer, job>>
     \/ /\ Enter(t, "command", Timeout[t])
        /\ job' = [job EXCEPT ![t] = JobOf(Head(queue[t]))]
        /\ UNCHANGED <<pc, todo, results, deadline>>
  /\ UNCHANGED <<policy, tool, evals, proven>>

\* Mutant: a command that ended alone in its group is not contained.
CommandEndsAlone(t) ==
  /\ phase[t] = "command"
  /\ \E clean \in BOOLEAN, left \in BOOLEAN :
       /\ job' = [job EXCEPT ![t].clean = clean, ![t].left = left]
       /\ IF left THEN Enter(t, "terminate", 2 * (Term + Kill)) ELSE Enter(t, "drain", Stall)
  /\ UNCHANGED <<policy, clientVars, queue, proven>>

\* The leader exits, with a clean report or not, and alone in its group or not.
CommandEnds(t) ==
  /\ phase[t] = "command"
  /\ \E clean \in BOOLEAN, left \in BOOLEAN :
       /\ job' = [job EXCEPT ![t].clean = clean, ![t].left = left]
       /\ IF left THEN Enter(t, "terminate", 2 * (Term + Kill)) ELSE Enter(t, "contain", Term + Kill)
  /\ UNCHANGED <<policy, clientVars, queue, proven>>

\* What it printed before may look clean.
CommandTimesOut(t) ==
  /\ phase[t] = "command" /\ timer[t] = 0
  /\ \E clean \in BOOLEAN : job' = [job EXCEPT ![t].clean = clean, ![t].late = TRUE]
  /\ Enter(t, "terminate", 2 * (Term + Kill))
  /\ UNCHANGED <<policy, clientVars, queue, proven>>

\* The group is terminated, and once more if its leader survived that.
GroupTerminated(t) ==
  /\ \/ phase[t] \in {"terminate", "again"} /\ Enter(t, "contain", Term + Kill)
     \/ phase[t] = "terminate" /\ timer[t] = 0 /\ Enter(t, "again", 2 * (Term + Kill))
  /\ UNCHANGED <<policy, clientVars, queue, job, proven>>

\* Mutant: each of the two drains is granted the time of both.
ContainedSlowly(t) ==
  /\ phase[t] = "contain"
  /\ \E more \in BOOLEAN : job' = [job EXCEPT ![t].left = @ \/ more]
  /\ Enter(t, "drain", 2 * Stall)
  /\ UNCHANGED <<policy, clientVars, queue, proven>>

\* Every process is gone; some may have had to be looked for.
Contained(t) ==
  /\ phase[t] = "contain"
  /\ \E more \in BOOLEAN : job' = [job EXCEPT ![t].left = @ \/ more]
  /\ Enter(t, "drain", Stall)
  /\ UNCHANGED <<policy, clientVars, queue, proven>>

\* Mutant: a report that looks clean counts though the command was stopped.
ResultLate(j, whole) == IF j.clean /\ ~j.left /\ whole THEN "clean" ELSE "failed"

\* parse: a clean report counts if the command ended by itself, left nothing
\* and was logged in full.
Result(j, whole) == IF j.clean /\ ~j.late /\ ~j.left /\ whole THEN "clean" ELSE "failed"

\* The reply reaches the client if it still waits.
Reply(t) ==
  /\ phase[t] = "drain"
  /\ \E whole \in BOOLEAN :
       /\ IF job[t].open THEN Report(t, Result(job[t], whole)) /\ deadline' = 0
                         ELSE UNCHANGED <<pc, todo, results, deadline>>
       /\ proven' = IF job[t].clean /\ ~job[t].late /\ ~job[t].left /\ whole
                    THEN [proven EXCEPT ![t] = job[t].eval] ELSE proven
  /\ Enter(t, "idle", 0) /\ job' = [job EXCEPT ![t] = NoJob]
  /\ UNCHANGED <<policy, tool, evals, queue>>

\* PID 1 of the container ends (os._exit(70), or from outside), and with it
\* its processes and connections.  Nothing starts it again.
Dies(t) ==
  /\ phase[t] # "dead"
  /\ Enter(t, "dead", 0)
  /\ queue' = [queue EXCEPT ![t] = <<>>] /\ job' = [job EXCEPT ![t] = NoJob]
  /\ UNCHANGED <<policy, clientVars, proven>>

-----------------------------------------------------------------------------
Timed == {t \in Tools : phase[t] \in {"command", "terminate", "again", "contain", "drain"}}

\* Mutant: the sidecar waits for its command without a deadline.
TickUnbounded ==
  /\ Waiting \/ Timed # {}
  /\ Waiting => deadline > 0 /\ phase[tool] # "dead"
  /\ \A t \in Tools : phase[t] = "idle" => queue[t] = <<>>
  /\ deadline' = IF Waiting THEN deadline - 1 ELSE deadline
  /\ timer' = [t \in Tools |-> IF t \in Timed THEN timer[t] - 1 ELSE timer[t]]
  /\ UNCHANGED <<policy, pc, tool, todo, results, evals, queue, phase, job, proven>>

\* No deadline is overslept, and a sidecar that is idle accepts at once.
Tick ==
  /\ Waiting \/ Timed # {}
  /\ Waiting => deadline > 0 /\ phase[tool] # "dead"
  /\ \A t \in Timed : timer[t] > 0
  /\ \A t \in Tools : phase[t] = "idle" => queue[t] = <<>>
  /\ deadline' = IF Waiting THEN deadline - 1 ELSE deadline
  /\ timer' = [t \in Tools |-> IF t \in Timed THEN timer[t] - 1 ELSE timer[t]]
  /\ UNCHANGED <<policy, pc, tool, todo, results, evals, queue, phase, job, proven>>

Evaluate ==
  \/ \E t \in Tools : Probe(t)
  \/ ProbeFails \/ Assess \/ ExecuteFails \/ Decide \/ MeasurePerformance

Serve(t) ==
  \/ AnswerHealth(t) \/ AcceptExecute(t)
  \/ CommandEnds(t) \/ CommandTimesOut(t) \/ GroupTerminated(t) \/ Contained(t) \/ Reply(t)

Next ==
  \/ StartEvaluation \/ Evaluate \/ Tick
  \/ \E t \in Tools : Serve(t) \/ Dies(t)

Spec == Init /\ [][Next]_vars

\* The scoring process and the sidecars run, and time passes.
FairSpec == Spec /\ WF_vars(Evaluate) /\ WF_vars(Tick) /\ \A t \in Tools : WF_vars(Serve(t))

-----------------------------------------------------------------------------
(* Properties                                                              *)

\* Every variable has its type, whatever reply comes late.
TypeOK ==
  /\ policy \in {"advisory", "required"}
  /\ pc \in {"idle", "next", "probing", "assess", "executing", "measure"}
  /\ tool \in Tools /\ todo \subseteq Tools
  /\ results \in [Tools -> {"none", "not_applicable", "blocked", "failed", "clean"}]
  /\ evals \in 0..MaxEvals /\ deadline \in Nat
  /\ queue \in [Tools -> Seq(Request)]
  /\ phase \in [Tools -> {"idle", "command", "terminate", "again", "contain", "drain", "dead"}]
  /\ timer \in [Tools -> Nat] /\ job \in [Tools -> Job]
  /\ proven \in [Tools -> 0..MaxEvals]

\* A process of a tool's command exists only while the scoring process waits
\* for that very command: never while another tool's command runs, while
\* performance is measured, or later, under either policy.
QuietGPU == Busy \subseteq (IF pc = "executing" THEN {tool} ELSE {})

\* Performance is measured under the required policy only if the command of
\* every tool that applies ended clean in this evaluation.
GateIsHonest ==
  pc = "measure" /\ policy = "required" =>
    \A t \in Tools : results[t] = "not_applicable" \/ proven[t] = evals

\* A tool is reported unavailable because its sidecar is gone, never because
\* it is still busy with a command the client gave up on.
BusyIsNotUnavailable == pc = "probing" /\ deadline = 0 => phase[tool] = "dead"

\* An evaluation ends, with sidecars that hang, stall or die.
EvaluationEnds == pc = "next" ~> pc = "idle"

-----------------------------------------------------------------------------
Sidecar(t) == INSTANCE ToolSidecar WITH
                phase <- phase[t], present <- t \in Busy,
                left <- job[t].left /\ t \in Busy,
                swept <- job[t].left, late <- job[t].late,
                blind <- FALSE

\* Each sidecar keeps the promise that ToolContainment is shown to keep: the
\* phases that stand for processes end before the reply, and the reply owns up
\* to a timeout and to what had to be terminated.  Here no sidecar is blind.
ImplementsSidecar ==
  /\ \A t \in Tools : Sidecar(t)!Init
  /\ [][\A t \in Tools : [Sidecar(t)!Next]_(Sidecar(t)!sidecarVars)]_vars

=============================================================================
