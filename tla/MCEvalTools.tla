---------------------------- MODULE MCEvalTools ----------------------------
(* Two tools; a unit of time is five seconds, the deadlines are the code's. *)
EXTENDS EvalTools, TLC

CONSTANTS t1, t2
MCTimeout == t1 :> 1 @@ t2 :> 2

=============================================================================
