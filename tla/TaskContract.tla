---------------------------- MODULE TaskContract ----------------------------
(***************************************************************************)
(* One task between whoever drives it and whoever runs it.  The driver     *)
(* starts a run only of a task without completion evidence, and one run at *)
(* a time.  The run answers true or false, or dies without an answer; true *)
(* means that the evidence is there, unless what it vouches for was        *)
(* damaged or never fit to be loaded again.  Nobody touches the evidence   *)
(* of an answered task before its answer is filed.                         *)
(***************************************************************************)
CONSTANT Runners  \* processes, or runs, that may have the task

VARIABLES
  runners,   \* who has the task
  told,      \* the answer, "nothing" before there is one
  complete,  \* there is valid completion evidence
  damaged    \* damaged or unusable: may an answer be true all the same? (never constrained here)

contractVars == <<runners, told, complete>>

Init == runners = {} /\ told = "nothing" /\ ~complete

Start ==
  /\ runners = {} /\ ~complete
  /\ \E r \in Runners : runners' = {r}
  /\ told' = "nothing"
  /\ UNCHANGED complete

\* A run creates, overwrites or withdraws the evidence of its task.
Work ==
  /\ runners # {} /\ told = "nothing"
  /\ complete' \in BOOLEAN
  /\ UNCHANGED <<runners, told>>

Answer ==
  /\ runners # {} /\ told = "nothing"
  /\ told' \in {"true", "false"}
  /\ complete' \in BOOLEAN
  /\ told' = "true" => complete' \/ damaged'
  /\ runners' \in {runners, {}}

File ==
  /\ runners # {} /\ told # "nothing"
  /\ runners' = {} /\ told' = "nothing"
  /\ UNCHANGED complete

Die ==
  /\ runners # {}
  /\ runners' = {} /\ told' = "nothing"
  /\ complete' \in BOOLEAN /\ (told # "nothing" => complete' = complete)

\* Between runs the sources and the records may be edited.
Change ==
  /\ runners = {}
  /\ complete' \in BOOLEAN
  /\ UNCHANGED <<runners, told>>

Next == Start \/ Work \/ Answer \/ File \/ Die \/ Change

Step == Next \/ UNCHANGED contractVars

Spec == Init /\ [][Next]_contractVars

=============================================================================
