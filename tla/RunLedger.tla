----------------------------- MODULE RunLedger -----------------------------
(***************************************************************************)
(* What a parallel run promises, without queue directories, workers or     *)
(* renames: a ledger with one line per task.  A drive opens the ledger     *)
(* with every task that has no completion evidence waiting; each waiting   *)
(* task is taken once, evaluated by its one taker and settled; success is  *)
(* reported only over a ledger whose tasks are all finished.  A task is    *)
(* finished on evidence, or on the word of a taker that is trusted.        *)
(***************************************************************************)
CONSTANTS Tasks,
          Trusted  \* tasks whose taker's word is taken without evidence

VARIABLES
  status,    \* task -> its line in the ledger
  evidence,  \* tasks with valid completion evidence
  verdict    \* what the drive told its caller, "open" while it is at work

ledgerVars == <<status, evidence, verdict>>

Statuses == {"absent", "waiting", "taken", "finished", "failed"}

Init ==
  /\ status = [t \in Tasks |-> "absent"]
  /\ evidence = {}
  /\ verdict = "open"

Opened(e) == [t \in Tasks |-> IF t \in e THEN "finished" ELSE "waiting"]

Open ==
  /\ verdict = "open"
  /\ status = [t \in Tasks |-> "absent"]
  /\ status' = Opened(evidence)
  /\ UNCHANGED <<evidence, verdict>>

Take(t) ==
  /\ verdict = "open" /\ status[t] = "waiting"
  /\ t \notin evidence
  /\ status' = [status EXCEPT ![t] = "taken"]
  /\ UNCHANGED <<evidence, verdict>>

\* Evidence of a task comes and goes.
Changed(t) == evidence' \in {evidence \cup {t}, evidence \ {t}}

\* While a drive is at work, only the taker of a task makes or withdraws its
\* evidence ...
Evaluate(t) ==
  /\ verdict = "open" /\ status[t] = "taken"
  /\ Changed(t)
  /\ UNCHANGED <<status, verdict>>

\* ... and at other times anybody may.
Change(t) ==
  /\ verdict # "open"
  /\ Changed(t)
  /\ UNCHANGED <<status, verdict>>

Settle(t) ==
  /\ verdict = "open" /\ status[t] = "taken"
  /\ \/ t \in evidence \cup Trusted /\ status' = [status EXCEPT ![t] = "finished"]
     \/ status' = [status EXCEPT ![t] = "failed"]
  /\ UNCHANGED <<evidence, verdict>>

ReportSuccess ==
  /\ verdict = "open"
  /\ \A t \in Tasks : status[t] = "finished" /\ t \in evidence \cup Trusted
  /\ verdict' = "success"
  /\ UNCHANGED <<status, evidence>>

\* The drive reports a failure, or is interrupted and reports nothing.
EndWithout ==
  /\ verdict = "open"
  /\ verdict' \in {"failure", "abandoned"}
  /\ UNCHANGED <<status, evidence>>

\* ... just when its last taker has changed the evidence of its task.
Interrupt(t) ==
  /\ verdict = "open" /\ status[t] = "taken"
  /\ Changed(t)
  /\ verdict' = "abandoned"
  /\ UNCHANGED status

Reopen ==
  /\ verdict # "open"
  /\ status' = [t \in Tasks |-> "absent"]
  /\ verdict' = "open"
  /\ UNCHANGED evidence

Next ==
  \/ Open \/ ReportSuccess \/ EndWithout \/ Reopen
  \/ \E t \in Tasks : Take(t) \/ Evaluate(t) \/ Change(t) \/ Settle(t) \/ Interrupt(t)

Spec == Init /\ [][Next]_ledgerVars

=============================================================================
