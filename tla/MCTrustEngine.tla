--------------------------- MODULE MCTrustEngine ---------------------------
(* An instance of TrustEngine for TLC. *)
EXTENDS TrustEngine

CONSTANTS a, b

\* Every edge once, sound and lasting; and a forged, two short-lived and two
\* long-lived ones on the way from Me to b.
SomeVouches ==
    {v \in [issuer : Agents, subject : Agents, expires : {2}, genuine : {TRUE}] :
        v.issuer # v.subject}
    \cup {[issuer |-> Me, subject |-> a, expires |-> 0, genuine |-> TRUE],
          [issuer |-> a, subject |-> b, expires |-> 1, genuine |-> TRUE],
          [issuer |-> Me, subject |-> a, expires |-> 2, genuine |-> FALSE]}
=============================================================================
