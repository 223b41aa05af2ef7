------------------------- MODULE TrustEngineProofs -------------------------
(***************************************************************************)
(* What verify_chain accepts, for chains of any length and any max_depth,  *)
(* and that trust only ever lapses.                                        *)
(*                                                                         *)
(* A chain without a flaw leads through its root issuer and then its       *)
(* subjects; and a path of good vouches has no flaw at any depth.  That    *)
(* trust lapses follows: time and revocations only take vouches away.      *)
(***************************************************************************)
EXTENDS TrustEngine, SequenceTheorems, TLAPS

TypeInv ==
    /\ revocations \subseteq Agents \X Agents
    /\ now \in Int
    /\ subject \in Agents
    /\ chain \in Seq(Vouch)

LEMMA TypeInitially == Init => TypeInv
  <1> SUFFICES ASSUME Init PROVE TypeInv
    OBVIOUS
  <1>1. PICK n \in 0..MaxChain : chain \in [1..n -> Vouches]
    BY DEF Init, Chains
  <1>2. chain \in [1..n -> Vouch]
    BY <1>1, TrustAssumption
  <1>3. n \in Nat
    BY TrustAssumption
  <1>4. chain \in Seq(Vouch)
    BY <1>2, <1>3, IsASeq
  <1> QED
    BY <1>4 DEF Init, TypeInv

LEMMA TypeStep == TypeInv /\ [Next]_vars => TypeInv'
  BY TrustAssumption
  DEF TypeInv, Next, vars, Tick, IssueRevoke, ApplyRevoke, Recorded

LEMMA TypeAlways == Spec => []TypeInv
  BY TypeInitially, TypeStep, PTL DEF Spec

\* A vouch of the chain is a vouch.
LEMMA ChainFacts ==
    ASSUME TypeInv
    PROVE  /\ Len(chain) \in Nat
           /\ \A i \in 1..Len(chain) : chain[i] \in Vouch
           /\ chain # << >> <=> Len(chain) # 0
  BY DEF TypeInv

\* No flaw at a depth says that the vouch there is good and meets the next.
LEMMA FlawlessMeans ==
    ASSUME TypeInv, NEW i \in 1..Len(chain)
    PROVE  i \notin Flawed <=>
             Good(chain[i])
               /\ (i < Len(chain) => chain[i].subject = chain[i + 1].issuer)
  <1>1. chain[i].expires \in Int /\ now \in Int /\ Len(chain) \in Nat
    BY ChainFacts DEF Vouch, TypeInv
  <1>2. Expired(chain[i]) <=> ~(chain[i].expires >= now)
    BY <1>1 DEF Expired
  <1>3. i \notin Flawed <=> Flaw(i) = "none"
    BY DEF Flawed
  <1> QED
    BY <1>2, <1>3 DEF Flaw, Good, IsRevoked

\* What the early returns come to.
LEMMA ValidMeans ==
    ASSUME TypeInv, subject \notin TrustAnchors
    PROVE  Trusted <=>
             /\ chain # << >> /\ ~(Len(chain) > MaxDepth)
             /\ chain[1].issuer \in TrustAnchors
             /\ Flawed = {}
             /\ chain[Len(chain)].subject = subject
  <1>1. ASSUME Flawed # {}
        PROVE  Flaw(CHOOSE i \in Flawed : \A j \in Flawed : i <= j) \notin {"anchor", "valid"}
    BY DEF Flaw
  <1> QED
    BY <1>1 DEF Trusted, Reason

\* verify_chain accepts exactly the chains that are paths.
LEMMA Characterised == TypeInv => TrustedIffPath
  <1> SUFFICES ASSUME TypeInv, subject \notin TrustAnchors
               PROVE  Trusted <=>
                        /\ Len(chain) \in 1..MaxDepth
                        /\ \E p \in [0..Len(chain) -> Agents] : IsPath(p)
    BY DEF TrustedIffPath, Trusted, Reason
  <1>0. Len(chain) \in Nat /\ MaxDepth \in Nat
    BY ChainFacts, TrustAssumption
  <1>1. ASSUME Trusted
        PROVE  /\ Len(chain) \in 1..MaxDepth
               /\ \E p \in [0..Len(chain) -> Agents] : IsPath(p)
    <2>1. Len(chain) \in 1..MaxDepth
      BY <1>0, <1>1, ValidMeans, ChainFacts
    <2> DEFINE p == [k \in 0..Len(chain) |-> IF k = 0 THEN chain[1].issuer
                                              ELSE chain[k].subject]
    <2>2. p \in [0..Len(chain) -> Agents]
      <3> SUFFICES ASSUME NEW k \in 0..Len(chain)
                   PROVE  (IF k = 0 THEN chain[1].issuer ELSE chain[k].subject) \in Agents
        OBVIOUS
      <3>1. chain[1] \in Vouch /\ (k # 0 => chain[k] \in Vouch)
        BY <1>0, <2>1, ChainFacts
      <3> QED
        BY <3>1 DEF Vouch
    <2>3. p[0] \in TrustAnchors /\ p[Len(chain)] = subject
      BY <1>0, <1>1, <2>1, ValidMeans
    <2>4. ASSUME NEW i \in 1..Len(chain)
          PROVE  Good(chain[i]) /\ chain[i].issuer = p[i - 1] /\ chain[i].subject = p[i]
      <3>1. Good(chain[i]) /\ chain[i].subject = p[i]
        BY <1>0, <1>1, <2>4, ValidMeans, FlawlessMeans
      <3>2. CASE i = 1
        BY <1>0, <3>1, <3>2
      <3>3. CASE i # 1
        <4>1. i - 1 \in 1..Len(chain) /\ i - 1 < Len(chain) /\ (i - 1) + 1 = i
          BY <1>0, <3>3
        <4>2. chain[i - 1].subject = chain[i].issuer
          BY <1>1, <4>1, ValidMeans, FlawlessMeans
        <4>3. p[i - 1] = chain[i - 1].subject
          BY <1>0, <4>1
        <4> QED
          BY <3>1, <4>2, <4>3
      <3> QED
        BY <3>2, <3>3
    <2>5. IsPath(p)
      BY <2>3, <2>4 DEF IsPath
    <2> QED
      BY <2>1, <2>2, <2>5
  <1>2. ASSUME Len(chain) \in 1..MaxDepth,
               NEW p \in [0..Len(chain) -> Agents], IsPath(p)
        PROVE  Trusted
    <2>1. ASSUME NEW i \in 1..Len(chain) PROVE i \notin Flawed
      <3>1. Good(chain[i]) /\ chain[i].subject = p[i]
        BY <1>2 DEF IsPath
      <3>2. ASSUME i < Len(chain) PROVE chain[i + 1].issuer = p[i]
        <4>1. i + 1 \in 1..Len(chain) /\ (i + 1) - 1 = i
          BY <1>0, <3>2
        <4> QED
          BY <1>2, <4>1 DEF IsPath
      <3> QED
        BY <3>1, <3>2, FlawlessMeans
    <2>2. Flawed = {}
      BY <2>1 DEF Flawed
    <2>3. 1 \in 1..Len(chain) /\ Len(chain) \in 1..Len(chain) /\ 1 - 1 = 0
      BY <1>0, <1>2
    <2>4. chain[1].issuer \in TrustAnchors /\ chain[Len(chain)].subject = subject
      BY <1>2, <2>3 DEF IsPath
    <2>5. chain # << >> /\ ~(Len(chain) > MaxDepth)
      BY <1>0, <1>2, ChainFacts
    <2> QED
      BY <2>2, <2>4, <2>5, ValidMeans
  <1> QED
    BY <1>1, <1>2
-----------------------------------------------------------------------------
\* A subject is trusted exactly if it is an anchor or the chain is a path of
\* good vouches to it, within max_depth (verify_chain).
THEOREM ChainIsPath == Spec => []TrustedIffPath
  BY TypeAlways, Characterised, PTL

\* Revocations are kept and time goes on, so a refused chain stays refused
\* (apply_revoke, verify_chain).
THEOREM TrustLapses == Spec => TrustOnlyLapses
  <1>1. ASSUME TypeInv, TypeInv', TrustedIffPath, TrustedIffPath', [Next]_vars
        PROVE  [~Trusted => ~Trusted']_vars
    <2>1. /\ revocations \subseteq revocations' /\ now <= now'
          /\ chain' = chain /\ subject' = subject
      BY <1>1 DEF TypeInv, Next, vars, Tick, IssueRevoke, ApplyRevoke, Recorded
    <2>2. ASSUME NEW i \in 1..Len(chain), Good(chain[i])' PROVE Good(chain[i])
      <3>1. chain[i].expires \in Int
        BY <1>1, ChainFacts DEF Vouch
      <3> QED
        BY <1>1, <2>1, <2>2, <3>1 DEF Good, TypeInv
    <2>3. ASSUME NEW p, IsPath(p)' PROVE IsPath(p)
      BY <2>1, <2>2, <2>3 DEF IsPath
    <2>4. Trusted' => Trusted
      BY <1>1, <2>1, <2>3 DEF TrustedIffPath
    <2> QED
      BY <2>4
  <1> QED
    BY <1>1, TypeAlways, ChainIsPath, PTL DEF Spec, TrustOnlyLapses
=============================================================================
