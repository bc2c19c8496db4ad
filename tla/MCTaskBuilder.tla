--------------------------- MODULE MCTaskBuilder ---------------------------
(* TaskBuilder with campaigns from the same bundle: they emit the same     *)
(* draft and allow the same contents.  One of them may repair its drafts.  *)
EXTENDS TaskBuilder
CONSTANTS good,     \* the emitted draft
          patient   \* the campaign with a repair attempt

LegalContents == [c \in Campaigns |-> Contents \ {Partial}]
EmittedContents == [c \in Campaigns |-> good]
RepairAttempts == [c \in Campaigns |-> IF c = patient THEN 1 ELSE 0]
=============================================================================
