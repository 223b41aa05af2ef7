----------------------------- MODULE MCIdentity -----------------------------
(* An instance of Identity for TLC. *)
EXTENDS Identity, TLC

\* Programs are interchangeable in every state.
Symmetry == Permutations(Programs)
=============================================================================
