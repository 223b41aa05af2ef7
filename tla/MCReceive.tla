----------------------------- MODULE MCReceive -----------------------------
(* An instance of Receive for TLC. *)
EXTENDS Receive
=============================================================================
