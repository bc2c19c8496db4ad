----------------------------- MODULE MCTaskRun -----------------------------
(* TaskRun on small instances; the values are in the .cfg files.           *)
EXTENDS TaskRun

=============================================================================
