---------------------------- MODULE TrustEngine ----------------------------
(***************************************************************************)
(* The local trust engine (trust.py): it accepts a chain of vouches from a *)
(* trust anchor to a subject, and remembers revocations.  One chain is     *)
(* presented for one subject again and again, while time passes and        *)
(* revocations come in.                                                    *)
(*                                                                         *)
(* A signature is genuine or not; times are whole.                         *)
(***************************************************************************)
EXTENDS Integers, Sequences, FiniteSets

CONSTANTS
    Agents,         \* agent ids
    Me,             \* this agent
    Anchors,        \* the configured trust anchors
    Vouches,        \* the vouches a chain may be made of
    MaxDepth,       \* max_depth
    MaxChain,       \* bound: the vouches of a chain
    MaxTime,        \* bound: the time
    MaxRevocations  \* bound: the pairs revoked

Vouch == [issuer : Agents, subject : Agents, expires : Int, genuine : BOOLEAN]

ASSUME TrustAssumption ==
    /\ Me \in Agents
    /\ Anchors \subseteq Agents
    /\ Vouches \subseteq Vouch
    /\ MaxDepth \in Nat
    /\ MaxChain \in Nat
    /\ MaxTime \in Nat
    /\ MaxRevocations \in Nat

VARIABLES
    revocations,  \* _revocations: pairs of issuer and subject
    now,          \* the time
    subject,      \* the agent the chain is presented for
    chain

vars == << revocations, now, subject, chain >>

Chains == UNION {[1..n -> Vouches] : n \in 0..MaxChain}

\* __post_init__ adds the agent itself.
TrustAnchors == Anchors \cup {Me}

Init ==
    /\ revocations = {}
    /\ now = 0
    /\ subject \in Agents
    /\ chain \in Chains
-----------------------------------------------------------------------------
(* verify_chain. *)

IsRevoked(v) == << v.issuer, v.subject >> \in revocations

\* A vouch is good up to and including the moment it expires.
Expired(v) == v.expires < now

\* What is wrong with the vouch at a depth, in the order it is looked for;
\* mutant: the chain is not looked at for breaks.
FlawButBreaks(i) ==
    IF ~chain[i].genuine THEN "signature"
    ELSE IF Expired(chain[i]) THEN "expired"
    ELSE IF IsRevoked(chain[i]) THEN "revoked"
    ELSE "none"
Flaw(i) ==
    IF ~chain[i].genuine THEN "signature"
    ELSE IF Expired(chain[i]) THEN "expired"
    ELSE IF IsRevoked(chain[i]) THEN "revoked"
    ELSE IF i < Len(chain) /\ chain[i].subject # chain[i + 1].issuer THEN "break"
    ELSE "none"

Flawed == {i \in 1..Len(chain) : Flaw(i) # "none"}

\* The reason of the TrustResult: the first obstacle on the walk.
Reason ==
    IF subject \in TrustAnchors THEN "anchor"
    ELSE IF chain = << >> THEN "no chain"
    ELSE IF Len(chain) > MaxDepth THEN "too deep"
    ELSE IF chain[1].issuer \notin TrustAnchors THEN "root"
    ELSE IF Flawed # {} THEN Flaw(CHOOSE i \in Flawed : \A j \in Flawed : i <= j)
    ELSE IF chain[Len(chain)].subject # subject THEN "terminus"
    ELSE "valid"

Trusted == Reason \in {"anchor", "valid"}
-----------------------------------------------------------------------------
\* What is recorded of a revocation; mutant: only the latest one.
RecordedLast(pair) == {pair}
Recorded(pair) == revocations \cup {pair}

\* issue_revoke: this agent revokes what it vouched for.
IssueRevoke(a) ==
    /\ revocations' = Recorded(<< Me, a >>)
    /\ UNCHANGED << now, subject, chain >>

\* apply_revoke: another agent's revocation counts if its signature is genuine.
ApplyRevoke(i, a) ==
    /\ \E genuine \in BOOLEAN :
          revocations' = IF genuine THEN Recorded(<< i, a >>) ELSE revocations
    /\ UNCHANGED << now, subject, chain >>

Tick ==
    /\ now < MaxTime
    /\ now' = now + 1
    /\ UNCHANGED << revocations, subject, chain >>

Next ==
    \/ Tick
    \/ /\ Cardinality(revocations) < MaxRevocations
       /\ \/ \E a \in Agents : IssueRevoke(a)
          \/ \E i, a \in Agents : ApplyRevoke(i, a)

Spec == Init /\ [][Next]_vars
-----------------------------------------------------------------------------
(* What must hold. *)

\* A vouch that stands on its own: genuine, not expired, not revoked.
Good(v) == v.genuine /\ v.expires >= now /\ << v.issuer, v.subject >> \notin revocations

\* The agents a chain leads through, from an anchor to the subject.
IsPath(p) ==
    /\ p[0] \in TrustAnchors /\ p[Len(chain)] = subject
    /\ \A i \in 1..Len(chain) :
          Good(chain[i]) /\ chain[i].issuer = p[i - 1] /\ chain[i].subject = p[i]

\* A subject is trusted exactly if it is an anchor or the chain leads to it
\* from one over good vouches, no more of them than max_depth: no order of
\* the checks and no early return lets a broken chain pass, or refuses a
\* sound one (verify_chain).
TrustedIffPath ==
    Trusted <=> \/ subject \in TrustAnchors
                \/ /\ Len(chain) \in 1..MaxDepth
                   /\ \E p \in [0..Len(chain) -> Agents] : IsPath(p)

\* A chain that was refused is never accepted later: no revocation is
\* forgotten and no vouch comes back to life (apply_revoke, verify_chain).
TrustOnlyLapses == [][~Trusted => ~Trusted']_vars
=============================================================================
