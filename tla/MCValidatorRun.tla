--------------------------- MODULE MCValidatorRun ---------------------------
(* Instance of ValidatorRun for TLC: two initial checks, so that a resume   *)
(* can find none, one or both of them recorded.                             *)
EXTENDS ValidatorRun
=============================================================================
