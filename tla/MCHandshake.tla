---------------------------- MODULE MCHandshake ----------------------------
(* Instances of Handshake for TLC: see the .cfg files of this name. *)
EXTENDS Handshake
=============================================================================
