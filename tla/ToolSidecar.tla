---------------------------- MODULE ToolSidecar ----------------------------
(***************************************************************************)
(* What the sidecar of an evaluation tool promises the evaluation, without *)
(* processes, /proc, clocks or connections: it executes one command after  *)
(* the other, a process of a command exists only until the command is      *)
(* contained, and the reply that follows owns up to what the command left. *)
(* The promise is off when the sidecar was blind: a process of the command *)
(* had a name that does not decode, and a reading of /proc passed over it. *)
(***************************************************************************)
VARIABLES
  phase,    \* what the sidecar is doing
  present,  \* a process of the command may exist
  left,     \* the command left something running that was not owned up to yet
  swept,    \* the reply will say that something had to be terminated
  late,     \* the reply will say that the command ran out of time
  blind     \* a process of the command was passed over (nothing is said of when)

sidecarVars == <<phase, present, left, swept, late>>

Init == phase = "idle" /\ ~present /\ ~left /\ ~swept /\ ~late

Start ==
  /\ phase = "idle" /\ phase' = "command"
  /\ present' /\ ~left' /\ ~swept' /\ ~late'

\* The rest of the group is terminated, if it has any.
CommandEnds ==
  /\ phase = "command"
  /\ swept' \in BOOLEAN /\ phase' = IF swept' THEN "terminate" ELSE "contain"
  /\ left' \in BOOLEAN /\ present' \in BOOLEAN
  /\ left' => present'
  /\ UNCHANGED late

CommandTimesOut ==
  /\ phase = "command" /\ phase' = "terminate"
  /\ late'
  /\ UNCHANGED <<present, left, swept>>

GroupTerminated ==
  /\ \/ phase \in {"terminate", "again"} /\ phase' = "contain"
     \/ phase = "terminate" /\ phase' = "again"
  /\ UNCHANGED <<present, left, swept, late>>

\* The last process is gone, or one that had left the group is found.
Vanish ==
  /\ phase \in {"terminate", "again", "contain"}
  /\ ~present'
  /\ UNCHANGED <<phase, left, swept, late>>

Find ==
  /\ phase = "contain" /\ swept'
  /\ UNCHANGED <<phase, present, left, late>>

Contained ==
  /\ phase = "contain" /\ phase' = "drain"
  /\ ~left' /\ (present' => blind')
  /\ swept' \in {swept, TRUE} /\ (left => swept' \/ blind')
  /\ UNCHANGED late

Reply ==
  /\ phase = "drain" /\ phase' = "idle"
  /\ ~swept' /\ ~late'
  /\ UNCHANGED <<present, left>>

Dies ==
  /\ phase' = "dead"
  /\ ~present' /\ ~left' /\ ~swept' /\ ~late'

Next ==
  \/ Start \/ CommandEnds \/ CommandTimesOut \/ GroupTerminated \/ Vanish \/ Find
  \/ Contained \/ Reply \/ Dies

Spec == Init /\ [][Next]_sidecarVars

=============================================================================
