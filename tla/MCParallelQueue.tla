-------------------------- MODULE MCParallelQueue --------------------------
(* ParallelQueue on small instances; the values are in the .cfg files.     *)
EXTENDS ParallelQueue, TLC

\* Worker IDs are interchangeable in every safety property.
WorkerSymmetry == Permutations(Workers)

=============================================================================
