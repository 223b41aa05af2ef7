---------------------------- MODULE MCDownloader ----------------------------
(* Instances of Downloader for TLC. *)
EXTENDS Downloader, TLC

\* Peers are interchangeable in every state, and so are downloads.
Symmetry == Permutations(Peers) \cup Permutations(Downloads)
=============================================================================
