----------------------------- MODULE TrustGate -----------------------------
(***************************************************************************)
(* The question every agent asks before it deals with another one:         *)
(* gateway.check_path, and what its callers make of the answer.  The same  *)
(* lines stand in _handshake_peer (downloader.py) and in the three         *)
(* handlers of p2p_server.py.                                              *)
(***************************************************************************)

\* The gateway knows no path, one within max_depth, one beyond it, or one it
\* gives no length for.
Paths == {"none", "near", "far", "unsized"}

\* What it answers: the path of the moment, or it cannot be asked.
Answers(path) == {path, "unreachable"}

\* What counts as trust: a path within max_depth, or of unknown length.
Trusting == {"near", "unsized"}

\* The answers the callers go on with.  The mutant refuses only what the
\* gateway refuses: a gateway that cannot be asked opens the door.
AcceptsUnlessRefused(a) == a \notin {"none", "far"}
Accepts(a) == a \in {"near", "unsized"}
=============================================================================
