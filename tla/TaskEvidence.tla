---------------------------- MODULE TaskEvidence ----------------------------
(***************************************************************************)
(* What the directory of an optimization task may come to say, without the *)
(* workspace, the agent, the commands, kills or resumes: it is given one   *)
(* baseline and one initial verdict, neither of which changes again, and   *)
(* certifies a candidate only after this very candidate was compiled,      *)
(* found correct and timed, in this order and in one evaluation.           *)
(***************************************************************************)
CONSTANTS Versions, Original, None

VARIABLES
  baseline,     \* what the candidate is compared with
  verdict,      \* of the initial validation
  passed,       \* actions that passed in this evaluation, with the version
  certificate   \* the completion record: accepted or not, and the version

evidenceVars == <<baseline, verdict, passed, certificate>>

\* What an action builds on.
Before == [compile |-> {}, correctness |-> {"compile"},
           performance |-> {"compile", "correctness"}]
Actions == DOMAIN Before

Init ==
  /\ baseline = None /\ verdict = "none" /\ passed = {}
  /\ certificate = [accepted |-> FALSE, source |-> None]

Freeze ==
  /\ baseline = None /\ verdict = "none"
  /\ baseline' = Original
  /\ UNCHANGED <<verdict, passed, certificate>>

Conclude ==
  /\ baseline = Original /\ verdict = "none"
  /\ verdict' \in {"accepted", "rejected"}
  /\ UNCHANGED <<baseline, passed, certificate>>

Pass(a, v) ==
  /\ verdict = "accepted"
  /\ Before[a] \X {v} \subseteq passed
  /\ \A m \in passed : m[2] = v
  /\ passed' = passed \cup {<<a, v>>}
  /\ UNCHANGED <<baseline, verdict, certificate>>

\* An evaluation begins, or the run ends.
Forget ==
  /\ passed' = {}
  /\ UNCHANGED <<baseline, verdict, certificate>>

Certify(v) ==
  /\ \/ certificate' = [accepted |-> FALSE, source |-> v]
     \/ /\ verdict = "accepted" /\ Actions \X {v} \subseteq passed
        /\ certificate' = [accepted |-> TRUE, source |-> v]
  /\ passed' = {}
  /\ UNCHANGED <<baseline, verdict>>

Next ==
  \/ Freeze \/ Conclude \/ Forget
  \/ \E v \in Versions : Certify(v) \/ \E a \in Actions : Pass(a, v)

Spec == Init /\ [][Next]_evidenceVars

=============================================================================
