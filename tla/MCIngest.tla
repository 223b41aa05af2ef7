------------------------------ MODULE MCIngest ------------------------------
(* An instance of Ingest for TLC. *)
EXTENDS Ingest, TLC

\* Runs of the tool are interchangeable in every state.
Symmetry == Permutations(Uploads)
=============================================================================
