---------------------------- MODULE VerifiedFile ----------------------------
(***************************************************************************)
(* What the downloads of one hash promise about the file at its path, with *)
(* no word of peers, ranges, writes or hashing.                            *)
(*                                                                         *)
(* A download waits, works on the file, and then completes, fails, or is   *)
(* lost to an exception or the end of the process.  It may complete only   *)
(* over the whole requested file, unless another download has changed the  *)
(* file since it began to work; and it may never be the last to leave a    *)
(* partial file behind, except by being lost.                              *)
(***************************************************************************)
CONSTANT Downloads

VARIABLES
    file,    \* "absent", "whole" or "partial"
    phase,   \* of each download
    mixed    \* downloads whose file another one has changed

vars == << file, phase, mixed >>

Files  == {"absent", "whole", "partial"}
Phases == {"waiting", "working", "complete", "failed", "lost"}

\* Every variable holds a value of its kind.
TypeOK ==
    /\ file \in Files
    /\ phase \in [Downloads -> Phases]
    /\ mixed \in [Downloads -> BOOLEAN]

Init ==
    /\ file \in {"absent", "whole"}
    /\ phase = [d \in Downloads |-> "waiting"]
    /\ mixed = [d \in Downloads |-> FALSE]

Become(d, ph) == phase' = [phase EXCEPT ![d] = ph]

\* What a change by d means to the others: once it shows, they are mixed; it
\* may be one that does not show.
OthersMixed(d) ==
    \A e \in Downloads \ {d} : /\ mixed[e] => mixed'[e]
                               /\ file' # file => mixed'[e]

\* d empties the path and begins to work, or is lost in doing so.
Enter(d) ==
    /\ phase[d] = "waiting"
    /\ file' \in {"partial", "whole"}
    /\ mixed' \in [Downloads -> BOOLEAN] /\ ~mixed'[d] /\ OthersMixed(d)
    /\ \E ph \in {"working", "lost"} : Become(d, ph)

\* d changes the file as it likes, short of removing it.
Work(d) ==
    /\ phase[d] = "working"
    /\ file' \in {"partial", "whole"}
    /\ mixed' \in [Downloads -> BOOLEAN] /\ mixed'[d] = mixed[d] /\ OthersMixed(d)
    /\ UNCHANGED phase

\* The file d has read to its end hashes right, or it was not the file of one
\* moment that d read.
Finishable(d) == phase[d] = "working" /\ (mixed[d] \/ file = "whole")

Complete(d) ==
    /\ Finishable(d)
    /\ file = "partial" =>
         \E e \in Downloads \ {d} : phase[e] \in {"working", "lost"}
    /\ Become(d, "complete")
    /\ UNCHANGED << file, mixed >>

\* d removes the file and fails.
Discard(d) ==
    /\ phase[d] = "working"
    /\ file' = "absent"
    /\ mixed' \in [Downloads -> BOOLEAN] /\ mixed'[d] = mixed[d] /\ OthersMixed(d)
    /\ Become(d, "failed")

\* d fails before it has touched the file.
GiveUp(d) ==
    /\ phase[d] = "waiting"
    /\ Become(d, "failed")
    /\ UNCHANGED << file, mixed >>

\* Some downloads are lost where they are.
Lose ==
    /\ \E S \in SUBSET {d \in Downloads : phase[d] \in {"waiting", "working"}} :
          phase' = [d \in Downloads |-> IF d \in S THEN "lost" ELSE phase[d]]
    /\ UNCHANGED << file, mixed >>

Next ==
    \/ \E d \in Downloads : Enter(d) \/ Work(d) \/ Complete(d) \/ Discard(d) \/ GiveUp(d)
    \/ Lose

Spec == Init /\ [][Next]_vars

\* A completed download nobody else has meddled with stands for the file, from
\* then on (download_from_peers returns only after the whole-file hash).
CompleteIsWhole ==
    \A d \in Downloads : phase[d] = "complete" /\ ~mixed[d] => file = "whole"

\* Only work in progress, or a download that was lost, accounts for a partial
\* file: who fails in an orderly way leaves none (the deletes of
\* download_from_peers).
PartialHasOwner ==
    file = "partial" => \E d \in Downloads : phase[d] \in {"working", "lost"}
=============================================================================
