-------------------------- MODULE HandshakeProofs --------------------------
(***************************************************************************)
(* Who is accepted is who was dialled, under a path at both ends: for any  *)
(* number of downloads and peers, however many of them are foreign.  And   *)
(* nobody who passes is left out of what the round returns.                *)
(*                                                                         *)
(* A handshake is accepted on what two tasks and two answers of the        *)
(* gateway have settled before, so the invariant follows each of them: a   *)
(* reply was made once and carries signatures that were made; an answer in *)
(* the air was a path at some moment since the history variables watch.    *)
(***************************************************************************)
EXTENDS Handshake, FiniteSetTheorems, TLAPS

Stages == {"idle", "connect", "await", "check", "decide", "accepted", "rejected"}
Gateway == Paths \cup {"unreachable"}

\* The types the argument uses.
Types ==
    /\ to \in [Peers -> Paths]
    /\ from \in [Peers \ Foreign -> Paths]
    /\ round \in [Downloads -> {"idle", "shaking", "done"}]
    /\ stage \in [Handshakes -> Stages]
    /\ serving \in [Handshakes -> {"idle", "check", "decide", "done"}]
    /\ reply \in [Handshakes -> Replies]
    /\ told \in [Handshakes -> Gateway]
    /\ heard \in [Handshakes -> Gateway]
    /\ proven \in [Handshakes -> BOOLEAN]
    /\ pathTo \in [Handshakes -> BOOLEAN]
    /\ pathFrom \in [Handshakes -> BOOLEAN]

\* A handshake begins once, with its download; its request is served once.
Order ==
    \A h \in Handshakes :
        /\ round[h[1]] = "idle" => stage[h] = "idle"
        /\ stage[h] \in {"idle", "connect"} => serving[h] = "idle"
        /\ serving[h] # "done" => reply[h] = NoReply

\* What the peer's task has established.
Served ==
    \A h \in Handshakes :
        /\ serving[h] = "check" /\ PeerOf(h) \notin Foreign /\ from[PeerOf(h)] \in Trusting
              => pathFrom[h]
        /\ serving[h] = "decide" =>
              PeerOf(h) \notin Foreign /\ (heard[h] \in Trusting => pathFrom[h])
        /\ reply[h] \notin {NoReply, Refusal} =>
              /\ reply[h].nonce = h /\ reply[h].signer = PeerOf(h) => proven[h]
              /\ PeerOf(h) \notin Foreign => pathFrom[h]

\* What this agent's task has established.
Shaken ==
    \A h \in Handshakes :
        /\ stage[h] \in {"check", "decide", "accepted"} =>
              /\ reply[h] \notin {NoReply, Refusal}
              /\ Proves(h, reply[h]) /\ IsDialled(h, reply[h])
        /\ stage[h] = "check" /\ to[PeerOf(h)] \in Trusting => pathTo[h]
        /\ stage[h] = "decide" /\ told[h] \in Trusting => pathTo[h]
        /\ stage[h] = "accepted" => pathTo[h]

IndInv == Types /\ Order /\ Served /\ Shaken
-----------------------------------------------------------------------------
\* A response is one of the replies, and no refusal.
LEMMA ResponseFacts ==
    ASSUME NEW p \in Peers, NEW q \in Peers, NEW g \in Nonces
    PROVE  /\ Response(p, q, g) \in Replies \ {NoReply, Refusal}
           /\ Response(p, q, g).sender = p
           /\ Response(p, q, g).signer = q
           /\ Response(p, q, g).nonce = g
  BY DEF Response, Replies, Refusal, NoReply

\* What is no refusal and not nothing is a response.
LEMMA ReplyFacts ==
    ASSUME NEW r \in Replies \ {NoReply, Refusal}
    PROVE  r.sender \in Peers /\ r.signer \in Peers /\ r.nonce \in Nonces
  BY DEF Replies, Refusal, NoReply

LEMMA RefusalFacts == Refusal \in Replies /\ NoReply \in Replies /\ Refusal # NoReply
  BY DEF Replies, Refusal, NoReply

LEMMA PeerFacts ==
    ASSUME NEW h \in Handshakes
    PROVE  PeerOf(h) \in Peers /\ h[1] \in Downloads
  BY DEF Handshakes, PeerOf

LEMMA InitInv == Init => IndInv
  <1> SUFFICES ASSUME Init PROVE IndInv
    OBVIOUS
  <1>1. Types
    BY RefusalFacts DEF Init, Types, Stages, Gateway, Paths
  <1>2. Order
    BY PeerFacts DEF Init, Order
  <1>3. Served
    BY PeerFacts DEF Init, Served
  <1>4. Shaken
    BY DEF Init, Shaken
  <1> QED
    BY <1>1, <1>2, <1>3, <1>4 DEF IndInv

LEMMA Inductive == IndInv /\ [Next]_vars => IndInv'
  <1> SUFFICES ASSUME IndInv, [Next]_vars PROVE IndInv'
    OBVIOUS
  <1>0. Types /\ Order /\ Served /\ Shaken
    BY DEF IndInv
  <1> USE PeerFacts DEF graphVars, ownVars, peerVars, Goto
  <1>1. ASSUME NEW p \in Peers, PathToChanges(p) PROVE IndInv'
    <2>1. Types'
      BY <1>0, <1>1 DEF Types, PathToChanges, Paths, Trusting
    <2>2. Order' /\ Served'
      BY <1>0, <1>1 DEF Order, Served, PathToChanges
    <2>3. Shaken'
      BY <1>0, <1>1 DEF Types, Shaken, PathToChanges, Asking, Proves, IsDialled
    <2> QED
      BY <2>1, <2>2, <2>3 DEF IndInv
  <1>2. ASSUME NEW p \in Peers, PathFromChanges(p) PROVE IndInv'
    <2>1. Types'
      BY <1>0, <1>2 DEF Types, PathFromChanges, Paths, Trusting
    <2>2. Order' /\ Shaken'
      BY <1>0, <1>2 DEF Order, Shaken, PathFromChanges, Proves, IsDialled
    <2>3. Served'
      BY <1>0, <1>2 DEF Types, Served, PathFromChanges, Asking
    <2> QED
      BY <2>1, <2>2, <2>3 DEF IndInv
  <1>3. ASSUME NEW g \in Handshakes, PeerChecks(g) PROVE IndInv'
    <2>1. Types'
      BY <1>0, <1>3 DEF Types, PeerChecks, Answers, Gateway
    <2>2. Order' /\ Shaken'
      BY <1>0, <1>3 DEF Types, Order, Shaken, PeerChecks, Proves, IsDialled
    <2>3. Served'
      BY <1>0, <1>3 DEF Types, Served, PeerChecks, Answers, Trusting
    <2> QED
      BY <2>1, <2>2, <2>3 DEF IndInv
  <1>4. ASSUME NEW g \in Handshakes, PeerDecides(g) PROVE IndInv'
    <2>0. g \in Nonces /\ Response(PeerOf(g), PeerOf(g), g) \in Replies
      BY ResponseFacts DEF Nonces
    <2>1. Types'
      BY <1>0, <1>4, <2>0, RefusalFacts DEF Types, PeerDecides, Gateway, Paths, Accepts
    <2>2. Order'
      BY <1>0, <1>4 DEF Types, Order, PeerDecides
    <2>3. Served'
      <3> SUFFICES ASSUME NEW h \in Handshakes,
                          reply'[h] \notin {NoReply, Refusal}
                   PROVE  /\ reply'[h].nonce = h /\ reply'[h].signer = PeerOf(h) => proven'[h]
                          /\ PeerOf(h) \notin Foreign => pathFrom'[h]
        BY <1>0, <1>4 DEF Types, Served, PeerDecides
      <3>1. CASE h = g
        BY <1>0, <1>4, <2>0, <3>1, ResponseFacts DEF Types, Served, PeerDecides,
              Accepts, Trusting
      <3>2. CASE h # g
        <4>1. reply'[h] = reply[h] /\ pathFrom'[h] = pathFrom[h]
          BY <1>0, <1>4, <3>2 DEF Types, PeerDecides
        <4>2. proven'[h] = proven[h]
          BY <1>0, <1>4, <3>2 DEF Types, PeerDecides
        <4> QED
          BY <1>0, <4>1, <4>2 DEF Served
      <3> QED
        BY <3>1, <3>2
    <2>4. Shaken'
      BY <1>0, <1>4 DEF Types, Order, Shaken, PeerDecides, Proves, IsDialled
    <2> QED
      BY <2>1, <2>2, <2>3, <2>4 DEF IndInv
  <1>5. ASSUME NEW g \in Handshakes, ForeignReplies(g) PROVE IndInv'
    <2>0. PICK sender \in Peers, signer \in Peers, n \in {g, Earlier} :
             /\ reply' = [reply EXCEPT ![g] = Response(sender, signer, n)]
             /\ proven' = [proven EXCEPT ![g] = @ \/ (n = g /\ signer = PeerOf(g))]
      BY <1>5 DEF ForeignReplies
    <2>1. n \in Nonces
      BY DEF Nonces
    <2> USE <2>1
    <2>9. Types'
      BY <1>0, <1>5, <2>0, ResponseFacts DEF Types, ForeignReplies
    <2>2. Order'
      BY <1>0, <1>5, <2>0 DEF Types, Order, ForeignReplies
    <2>3. Served'
      <3> SUFFICES ASSUME NEW h \in Handshakes,
                          reply'[h] \notin {NoReply, Refusal}
                   PROVE  /\ reply'[h].nonce = h /\ reply'[h].signer = PeerOf(h) => proven'[h]
                          /\ PeerOf(h) \notin Foreign => pathFrom'[h]
        BY <1>0, <1>5 DEF Types, Served, ForeignReplies
      <3>1. CASE h = g
        <4>1. reply'[g].signer = signer /\ reply'[g].nonce = n
          BY <1>0, <2>0, ResponseFacts DEF Types
        <4>2. n = g /\ signer = PeerOf(g) => proven'[g]
          BY <1>0, <2>0, Zenon DEF Types
        <4>3. PeerOf(g) \in Foreign
          BY <1>5 DEF ForeignReplies
        <4> QED
          BY <3>1, <4>1, <4>2, <4>3
      <3>2. CASE h # g
        <4>1. reply'[h] = reply[h] /\ pathFrom'[h] = pathFrom[h]
          BY <1>0, <1>5, <2>0, <3>2 DEF Types, ForeignReplies
        <4>2. proven'[h] = proven[h]
          BY <1>0, <2>0, <3>2 DEF Types
        <4> QED
          BY <1>0, <4>1, <4>2 DEF Served
      <3> QED
        BY <3>1, <3>2
    <2>4. Shaken'
      BY <1>0, <1>5, <2>0 DEF Types, Order, Shaken, ForeignReplies, Proves, IsDialled
    <2> QED
      BY <2>9, <2>2, <2>3, <2>4 DEF IndInv
  <1>6. ASSUME NEW d \in Downloads, Begin(d) PROVE IndInv'
    <2>1. Types'
      BY <1>0, <1>6 DEF Types, Begin, Stages
    <2>2. Order'
      BY <1>0, <1>6 DEF Types, Order, Begin
    <2>3. Served' /\ Shaken'
      BY <1>0, <1>6 DEF Types, Served, Order, Shaken, Begin, Proves, IsDialled
    <2> QED
      BY <2>1, <2>2, <2>3 DEF IndInv
  <1>7. ASSUME NEW g \in Handshakes, Request(g) PROVE IndInv'
    <2>1. Types'
      BY <1>0, <1>7 DEF Types, Request, Stages
    <2>2. Order'
      BY <1>0, <1>7 DEF Types, Order, Request
    <2>3. Served'
      BY <1>0, <1>7 DEF Types, Order, Served, Request
    <2>4. Shaken'
      BY <1>0, <1>7 DEF Types, Shaken, Request, Proves, IsDialled
    <2> QED
      BY <2>1, <2>2, <2>3, <2>4 DEF IndInv
  <1>8. ASSUME NEW g \in Handshakes, TransportFails(g) PROVE IndInv'
    <2>1. Types' /\ Order' /\ Served'
      BY <1>0, <1>8 DEF Types, Order, Served, TransportFails, Stages
    <2>2. Shaken'
      BY <1>0, <1>8 DEF Types, Shaken, TransportFails, Proves, IsDialled
    <2> QED
      BY <2>1, <2>2 DEF IndInv
  <1>9. ASSUME NEW g \in Handshakes, Receive(g) PROVE IndInv'
    <2>1. CASE Convinces(g, reply[g])
      <3>1. /\ stage' = [stage EXCEPT ![g] = "check"]
            /\ pathTo' = [pathTo EXCEPT ![g] = to[PeerOf(g)] \in Trusting]
            /\ reply[g] \notin {NoReply, Refusal}
            /\ Proves(g, reply[g]) /\ IsDialled(g, reply[g])
        BY <1>9, <2>1 DEF Receive, Convinces
      <3>2. UNCHANGED << graphVars, peerVars, round, told >>
        BY <1>9 DEF Receive
      <3>3. pathTo' \in [Handshakes -> BOOLEAN]
        BY <1>0, <3>1 DEF Types
      <3>4. Types' /\ Order' /\ Served'
        BY <1>0, <1>9, <3>1, <3>2, <3>3 DEF Types, Order, Served, Receive, Stages
      <3>5. Shaken'
        BY <1>0, <3>1, <3>2 DEF Types, Shaken, Proves, IsDialled
      <3> QED
        BY <3>4, <3>5 DEF IndInv
    <2>2. CASE ~Convinces(g, reply[g])
      <3>1. stage' = [stage EXCEPT ![g] = "rejected"]
        BY <1>9, <2>2 DEF Receive
      <3>2. UNCHANGED << graphVars, peerVars, round, told, pathTo >>
        BY <1>9, <2>2 DEF Receive
      <3>3. Types' /\ Order' /\ Served'
        BY <1>0, <1>9, <3>1, <3>2 DEF Types, Order, Served, Receive, Stages
      <3>4. Shaken'
        BY <1>0, <3>1, <3>2 DEF Types, Shaken, Proves, IsDialled
      <3> QED
        BY <3>3, <3>4 DEF IndInv
    <2> QED
      BY <2>1, <2>2
  <1>10. ASSUME NEW g \in Handshakes, Check(g) PROVE IndInv'
    <2>0. reply[g].sender = PeerOf(g)
      BY <1>0, <1>10 DEF Shaken, Check, IsDialled
    <2>1. Types'
      BY <1>0, <1>10, <2>0 DEF Types, Check, Stages, Gateway, Answers
    <2>2. Order' /\ Served'
      BY <1>0, <1>10 DEF Types, Order, Served, Check
    <2>3. Shaken'
      BY <1>0, <1>10, <2>0 DEF Types, Shaken, Check, Answers, Trusting, Proves,
                               IsDialled
    <2> QED
      BY <2>1, <2>2, <2>3 DEF IndInv
  <1>11. ASSUME NEW g \in Handshakes, Decide(g) PROVE IndInv'
    <2>1. Types'
      BY <1>0, <1>11 DEF Types, Decide, Stages, Gateway, Paths
    <2>2. Order' /\ Served'
      BY <1>0, <1>11 DEF Types, Order, Served, Decide
    <2>3. Shaken'
      BY <1>0, <1>11 DEF Types, Shaken, Decide, Accepts, Trusting, Proves, IsDialled
    <2> QED
      BY <2>1, <2>2, <2>3 DEF IndInv
  <1>12. ASSUME NEW d \in Downloads, Gather(d) PROVE IndInv'
    BY <1>0, <1>12 DEF IndInv, Types, Order, Served, Shaken, Gather, Proves, IsDialled
  <1>13. CASE UNCHANGED vars
    BY <1>0, <1>13 DEF vars, IndInv, Types, Order, Served, Shaken, Proves, IsDialled
  <1> QED
    BY <1>1, <1>2, <1>3, <1>4, <1>5, <1>6, <1>7, <1>8, <1>9, <1>10, <1>11, <1>12,
       <1>13 DEF Next, Shake, Own, Serve
-----------------------------------------------------------------------------
\* Nobody is accepted in the place of the candidate that was dialled, nor on an
\* answer from another handshake (_handshake_peer).
THEOREM DialledIsAccepted == Spec => []AcceptedIsDialled
  <1>1. IndInv => AcceptedIsDialled
    BY DEF IndInv, Served, Shaken, AcceptedIsDialled, Proves, IsDialled
  <1> QED
    BY <1>1, InitInv, Inductive, PTL DEF Spec

\* Nobody is accepted without a path to it, nor, if it runs this server,
\* without a path from it (_handshake_peer, _handle_handshake).
THEOREM MutualTrust == Spec => []TrustIsMutual
  <1>1. IndInv => TrustIsMutual
    BY DEF IndInv, Served, Shaken, TrustIsMutual
  <1> QED
    BY <1>1, InitInv, Inductive, PTL DEF Spec
-----------------------------------------------------------------------------
(* The round as a whole. *)

CandidateLists == UNION {[1..n -> Peers] : n \in 0..MaxPeers}
ListTypes ==
    /\ candidates \in [Downloads -> CandidateLists]
    /\ trusted \in [Downloads -> Seq(Peers)]

\* A handshake that has begun is one with a candidate, so that a round that is
\* done has none of its handshakes still going on.
Dialled ==
    \A d \in Downloads :
        /\ \A p \in Peers : stage[<< d, p >>] # "idle" =>
              \E i \in DOMAIN candidates[d] : candidates[d][i] = p
        /\ round[d] = "done" => AllEnded(d)

RoundInv == ListTypes /\ Dialled /\ NobodyLeftOut

\* The first max_peers of a list are a list of no more than those.
LEMMA TakenType ==
    ASSUME NEW l \in Lists
    PROVE  Taken(l) \in CandidateLists
  <1>1. Cardinality(Peers) \in Nat
    BY HandshakeAssumption, FS_CardinalityType
  <1>2. PICK n \in 1..Cardinality(Peers) : l \in [1..n -> Peers]
    BY DEF Lists
  <1> DEFINE m == IF n <= MaxPeers THEN n ELSE MaxPeers
  <1>3. m \in 0..MaxPeers
    BY <1>1, HandshakeAssumption
  <1>4. {j \in DOMAIN l : j <= MaxPeers} = 1..m
    BY <1>1, <1>2, HandshakeAssumption
  <1>5. Taken(l) \in [1..m -> Peers]
    BY <1>1, <1>2, <1>3, <1>4 DEF Taken
  <1> QED
    BY <1>3, <1>5 DEF CandidateLists

\* The list a download shakes hands with, as a function.
LEMMA ListShape ==
    ASSUME NEW l \in CandidateLists
    PROVE  \E n \in 0..MaxPeers : l \in [1..n -> Peers]
  BY DEF CandidateLists

LEMMA CandidatesShape ==
    ASSUME ListTypes, NEW d \in Downloads
    PROVE  \E n \in 0..MaxPeers : candidates[d] \in [1..n -> Peers]
  <1>1. candidates[d] \in CandidateLists
    BY DEF ListTypes
  <1> HIDE DEF CandidateLists
  <1> QED
    BY <1>1, ListShape

\* The places of a list are finitely many, and lead to peers.
LEMMA PassedFacts ==
    ASSUME ListTypes, NEW d \in Downloads
    PROVE  /\ IsFiniteSet(Passed(d)) /\ Cardinality(Passed(d)) \in Nat
           /\ \A i \in Passed(d) : candidates[d][i] \in Peers
  <1>1. PICK n \in 0..MaxPeers : candidates[d] \in [1..n -> Peers]
    BY CandidatesShape
  <1>2. n \in Nat /\ IsFiniteSet(1..n)
    BY HandshakeAssumption, FS_Interval
  <1>3. Passed(d) \in SUBSET (1..n)
    BY <1>1 DEF Passed
  <1>4. IsFiniteSet(Passed(d))
    BY <1>2, <1>3, FS_Subset
  <1> QED
    BY <1>1, <1>3, <1>4, FS_CardinalityType

\* Counting the places that passed in ascending order misses none.
LEMMA AllCounted ==
    ASSUME ListTypes, NEW d \in Downloads,
           NEW place \in [1..Cardinality(Passed(d)) -> Passed(d)],
           \A i, j \in DOMAIN place : i < j => place[i] < place[j]
    PROVE  \A k \in Passed(d) : \E i \in DOMAIN place : place[i] = k
  <1> DEFINE n == Cardinality(Passed(d))
  <1>1. n \in Nat /\ IsFiniteSet(Passed(d))
    BY PassedFacts
  <1>2. IsFiniteSet(1..n) /\ Cardinality(1..n) = n
    BY <1>1, FS_Interval
  <1>3. \A i, j \in 1..n : i # j => i < j \/ j < i
    BY <1>1
  <1>4. PICK m \in 0..MaxPeers : candidates[d] \in [1..m -> Peers]
    BY CandidatesShape
  <1>5. \A k \in Passed(d) : k \in Nat
    BY <1>4, HandshakeAssumption DEF Passed
  <1>6. \A i, j \in 1..n : place[i] = place[j] => i = j
    BY <1>3, <1>5
  <1>7. place \in Injection(1..n, Passed(d))
    BY <1>6 DEF Injection, IsInjective
  <1>8. place \in Surjection(1..n, Passed(d))
    BY <1>1, <1>2, <1>7, FS_Injection
  <1> QED
    BY <1>8 DEF Surjection

LEMMA RoundInit == Init => RoundInv
  <1> SUFFICES ASSUME Init PROVE RoundInv
    OBVIOUS
  <1>1. << >> \in CandidateLists
    <2>1. << >> \in [1..0 -> Peers] /\ 0 \in 0..MaxPeers
      BY HandshakeAssumption
    <2> QED
      BY <2>1 DEF CandidateLists
  <1>2. ListTypes
    BY <1>1 DEF Init, ListTypes
  <1>3. Dialled
    BY DEF Init, Dialled, Handshakes
  <1> QED
    BY <1>2, <1>3 DEF Init, RoundInv, NobodyLeftOut

\* What a step of one handshake does to the round it belongs to.
LEMMA ShakeStep ==
    ASSUME Types, RoundInv, NEW h \in Handshakes, Shake(h)
    PROVE  RoundInv'
  <1>1. /\ stage[h] \in {"connect", "await", "check", "decide"}
        /\ \E st \in Stages \ {"idle"} : stage' = [stage EXCEPT ![h] = st]
        /\ UNCHANGED << round, candidates, trusted >>
    BY DEF Shake, Own, Request, TransportFails, Receive, Check, Decide, Goto, Stages, ownVars
  <1>2. PICK d \in Downloads, p \in Peers : h = << d, p >>
    BY DEF Handshakes
  <1>3. round[d] # "done"
    BY <1>1, <1>2 DEF RoundInv, Dialled, AllEnded, Settled
  <1>4. \A e \in Downloads, q \in Peers :
            e # d => stage'[<< e, q >>] = stage[<< e, q >>]
    BY <1>1, <1>2 DEF Types, Handshakes
  <1>5. \A e \in Downloads, q \in Peers :
            stage'[<< e, q >>] # "idle" => stage[<< e, q >>] # "idle"
    BY <1>1, <1>2 DEF Types, Handshakes
  <1>6. ListTypes'
    BY <1>1 DEF RoundInv, ListTypes
  <1>7. ASSUME NEW e \in Downloads, round[e] = "done" PROVE AllEnded(e)'
    <2>1. PICK n \in 0..MaxPeers : candidates[e] \in [1..n -> Peers]
      BY CandidatesShape DEF RoundInv
    <2> QED
      BY <1>1, <1>3, <1>4, <1>7, <2>1 DEF RoundInv, Dialled, AllEnded, Settled
  <1>8. Dialled'
    BY <1>1, <1>5, <1>7 DEF RoundInv, Dialled
  <1>9. NobodyLeftOut'
    BY <1>1, <1>3, <1>4 DEF RoundInv, NobodyLeftOut
  <1> QED
    BY <1>6, <1>8, <1>9 DEF RoundInv

LEMMA BeginStep ==
    ASSUME Types, Order, RoundInv, NEW d \in Downloads, Begin(d)
    PROVE  RoundInv'
  <1>1. PICK l \in Lists : candidates' = [candidates EXCEPT ![d] = Taken(l)]
    BY DEF Begin
  <1>2. /\ round[d] = "idle" /\ round' = [round EXCEPT ![d] = "shaking"]
        /\ trusted' = trusted
        /\ stage' = [h \in Handshakes |->
             IF h[1] = d /\ \E i \in DOMAIN candidates'[d] : candidates'[d][i] = PeerOf(h)
             THEN "connect" ELSE stage[h]]
    BY DEF Begin
  <1>3. ListTypes'
    BY <1>1, <1>2, TakenType DEF RoundInv, ListTypes
  <1>4. /\ \A e \in Downloads : e # d => /\ candidates'[e] = candidates[e]
                                         /\ round'[e] = round[e]
        /\ round'[d] = "shaking"
    BY <1>1, <1>2 DEF RoundInv, ListTypes, Types
  <1>5. \A e \in Downloads, q \in Peers :
            /\ << e, q >> \in Handshakes
            /\ e # d => stage'[<< e, q >>] = stage[<< e, q >>]
    BY <1>2 DEF Handshakes
  <1>6. \A q \in Peers : stage[<< d, q >>] = "idle"
    BY <1>2, <1>5 DEF Order
  <1>7. \A q \in Peers : stage'[<< d, q >>] # "idle" =>
            \E i \in DOMAIN candidates'[d] : candidates'[d][i] = q
    BY <1>2, <1>5, <1>6 DEF PeerOf
  <1>8. ASSUME NEW e \in Downloads, round'[e] = "done" PROVE AllEnded(e)'
    <2>1. e # d /\ round[e] = "done"
      BY <1>4, <1>8
    <2>2. PICK n \in 0..MaxPeers : candidates[e] \in [1..n -> Peers]
      BY CandidatesShape DEF RoundInv
    <2> QED
      BY <1>4, <1>5, <2>1, <2>2 DEF RoundInv, Dialled, AllEnded, Settled
  <1>9. Dialled'
    BY <1>4, <1>5, <1>7, <1>8 DEF RoundInv, Dialled
  <1>10. NobodyLeftOut'
    BY <1>2, <1>4, <1>5 DEF RoundInv, NobodyLeftOut
  <1> QED
    BY <1>3, <1>9, <1>10 DEF RoundInv

LEMMA GatherStep ==
    ASSUME Types, RoundInv, NEW d \in Downloads, Gather(d)
    PROVE  RoundInv'
  <1>1. PICK place \in [1..Cardinality(Passed(d)) -> Passed(d)] :
          /\ \A i, j \in DOMAIN place : i < j => place[i] < place[j]
          /\ trusted' = [trusted EXCEPT ![d] =
                [i \in DOMAIN place |-> candidates[d][place[i]]]]
    BY DEF Gather
  <1>2. /\ AllEnded(d) /\ round' = [round EXCEPT ![d] = "done"]
        /\ UNCHANGED << candidates, stage >>
    BY DEF Gather
  <1> DEFINE passed == [i \in DOMAIN place |-> candidates[d][place[i]]]
  <1>0. ListTypes
    BY DEF RoundInv
  <1>3. passed \in Seq(Peers) /\ DOMAIN passed = DOMAIN place
    BY <1>0, <1>1, PassedFacts
  <1>4. /\ trusted'[d] = passed
        /\ \A e \in Downloads : e # d => trusted'[e] = trusted[e] /\ round'[e] = round[e]
    BY <1>0, <1>1, <1>2 DEF ListTypes, Types
  <1>5. ListTypes'
    BY <1>0, <1>1, <1>2, <1>3 DEF ListTypes
  <1>6. {passed[i] : i \in DOMAIN passed} = {p \in Peers : stage[<< d, p >>] = "accepted"}
    <2>1. ASSUME NEW i \in DOMAIN passed
          PROVE  passed[i] \in Peers /\ stage[<< d, passed[i] >>] = "accepted"
      <3>1. place[i] \in Passed(d) /\ passed[i] = candidates[d][place[i]]
        BY <1>1, <1>3, <2>1
      <3> QED
        BY <1>0, <3>1, PassedFacts DEF Passed
    <2>2. ASSUME NEW p \in Peers, stage[<< d, p >>] = "accepted"
          PROVE  \E i \in DOMAIN passed : passed[i] = p
      <3>1. PICK k \in DOMAIN candidates[d] : candidates[d][k] = p
        BY <2>2 DEF RoundInv, Dialled
      <3>2. k \in Passed(d)
        BY <2>2, <3>1 DEF Passed
      <3>3. PICK i \in DOMAIN place : place[i] = k
        BY <1>0, <1>1, <3>2, AllCounted
      <3> QED
        BY <1>3, <3>1, <3>3
    <2> QED
      BY <2>1, <2>2
  <1> HIDE DEF passed
  <1>7. Dialled'
    BY <1>2, <1>4 DEF RoundInv, Dialled, AllEnded, Settled
  <1>8. NobodyLeftOut'
    BY <1>2, <1>4, <1>6 DEF RoundInv, NobodyLeftOut
  <1> QED
    BY <1>5, <1>7, <1>8 DEF RoundInv

LEMMA RoundStep == Types /\ Order /\ RoundInv /\ [Next]_vars => RoundInv'
  <1> SUFFICES ASSUME Types, Order, RoundInv, [Next]_vars PROVE RoundInv'
    OBVIOUS
  <1>1. ASSUME UNCHANGED << round, candidates, trusted, stage >> PROVE RoundInv'
    BY <1>1 DEF RoundInv, ListTypes, Dialled, NobodyLeftOut, AllEnded, Settled
  <1>2. ASSUME NEW p \in Peers, PathToChanges(p) PROVE RoundInv'
    BY <1>1, <1>2 DEF PathToChanges
  <1>3. ASSUME NEW p \in Peers \ Foreign, PathFromChanges(p) PROVE RoundInv'
    BY <1>1, <1>3 DEF PathFromChanges, ownVars
  <1>4. ASSUME NEW h \in Handshakes, Serve(h) PROVE RoundInv'
    BY <1>1, <1>4 DEF Serve, PeerChecks, PeerDecides, ForeignReplies, ownVars
  <1>5. CASE UNCHANGED vars
    BY <1>1, <1>5 DEF vars, ownVars
  <1> QED
    BY <1>2, <1>3, <1>4, <1>5, ShakeStep, BeginStep, GatherStep DEF Next

\* Shaking hands with all at once returns exactly those that passed
\* (_handshake_all).
THEOREM AllThatPass == Spec => []NobodyLeftOut
  <1>1. IndInv => Types /\ Order
    BY DEF IndInv
  <1>2. RoundInv => NobodyLeftOut
    BY DEF RoundInv
  <1> QED
    BY <1>1, <1>2, InitInv, Inductive, RoundInit, RoundStep, PTL DEF Spec

\* Every variable keeps its type (_handshake_all, _handshake_peer).
THEOREM TypeCorrect == Spec => []TypeOK
  <1>1. IndInv /\ RoundInv => TypeOK
    BY DEF IndInv, Types, RoundInv, ListTypes, TypeOK, CandidateLists, Stages, Gateway
  <1>2. IndInv => Types /\ Order
    BY DEF IndInv
  <1> QED
    BY <1>1, <1>2, InitInv, Inductive, RoundInit, RoundStep, PTL DEF Spec
=============================================================================
