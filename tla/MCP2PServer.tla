---------------------------- MODULE MCP2PServer ----------------------------
(* Instances of P2PServer for TLC. *)
EXTENDS P2PServer

\* Ranges at the start, in the middle, over the end and beyond the end of a
\* file of up to three bytes, an empty one, and one with a negative start.
SomeAsks == {[lo |-> 0, hi |-> 1], [lo |-> 1, hi |-> 1], [lo |-> 1, hi |-> 5],
             [lo |-> 4, hi |-> 5], [lo |-> 2, hi |-> 1], [lo |-> -1, hi |-> 1]}
=============================================================================
