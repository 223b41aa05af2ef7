----------------------------- MODULE Handshake -----------------------------
(***************************************************************************)
(* The handshakes of one agent's downloads: _handshake_all shakes hands    *)
(* with all candidates of a download at once, a task for each             *)
(* (_handshake_peer), and the peers answer with the handler of             *)
(* p2p_server.py, each side asking the gateway on its own and in its own   *)
(* time.  Meanwhile the gateway's graph changes.                           *)
(*                                                                         *)
(* A nonce is fresh for every handshake, so it is named by the handshake:  *)
(* the pair of download and peer; that of a handshake of some other time   *)
(* is Earlier.  A signature names its signer and the nonce; nobody signs   *)
(* for another.                                                            *)
(***************************************************************************)
EXTENDS Naturals, Sequences, FiniteSets, TrustGate

CONSTANTS
    Downloads,  \* downloads that shake hands
    Peers,      \* the agents the tracker may name
    Foreign,    \* those that do not run p2p_server.py with its trust checks
    MaxPeers    \* max_peers

ASSUME HandshakeAssumption ==
    /\ IsFiniteSet(Peers)
    /\ Foreign \subseteq Peers
    /\ MaxPeers \in Nat \ {0}

VARIABLES
    to,          \* what the gateway would answer about the path to each peer
    from,        \* and to each peer that asks about the path from it
    round,       \* how far each download is
    candidates,  \* whom it shakes hands with
    trusted,     \* who passed
    stage,       \* what the task of each handshake does next
    serving,     \* what the task at the peer does next
    reply,       \* the message the peer has sent back
    told,        \* what the gateway told this agent, while it matters
    heard,       \* what the gateway told the peer, while it matters
    proven,      \* history: the peer has signed this handshake's nonce
    pathTo,      \* history: there was a path to it since its reply came
    pathFrom     \* history: there was a path from it since the request came

graphVars == << to, from >>
ownVars == << round, candidates, trusted, stage, told, pathTo >>
peerVars == << serving, reply, heard, proven, pathFrom >>
vars == << graphVars, ownVars, peerVars >>

Handshakes == Downloads \X Peers
PeerOf(h) == h[2]
Earlier == << "earlier" >>
Nonces == Handshakes \cup {Earlier}

\* What the tracker may name: lists of different agents.
Lists == {l \in UNION {[1..n -> Peers] : n \in 1..Cardinality(Peers)} :
             \A i, j \in DOMAIN l : i # j => l[i] # l[j]}

\* Of these only the first max_peers are shaken hands with; mutant: the list is
\* counted from zero, and its first agent passed over.
TakenFromZero(l) == [i \in {j \in DOMAIN l : 1 < j /\ j <= MaxPeers + 1} |-> l[i]]
Taken(l) == [i \in {j \in DOMAIN l : j <= MaxPeers} |-> l[i]]

Response(sender, signer, nonce) ==
    [type |-> "response", sender |-> sender, signer |-> signer, nonce |-> nonce]
Refusal == [type |-> "error"]
NoReply == [type |-> "none"]

Goto(h, st) == stage' = [stage EXCEPT ![h] = st]
Settled(h) == stage[h] \in {"accepted", "rejected"}

\* The answers in the air: while the gateway is asked, or its answer used.
Asking == {"check", "decide"}

Init ==
    /\ to \in [Peers -> Paths]
    /\ from \in [Peers \ Foreign -> Paths]
    /\ round = [d \in Downloads |-> "idle"]
    /\ candidates = [d \in Downloads |-> << >>]
    /\ trusted = [d \in Downloads |-> << >>]
    /\ stage = [h \in Handshakes |-> "idle"]
    /\ serving = [h \in Handshakes |-> "idle"]
    /\ reply = [h \in Handshakes |-> NoReply]
    /\ told = [h \in Handshakes |-> "none"]
    /\ heard = [h \in Handshakes |-> "none"]
    /\ proven = [h \in Handshakes |-> FALSE]
    /\ pathTo = [h \in Handshakes |-> FALSE]
    /\ pathFrom = [h \in Handshakes |-> FALSE]
-----------------------------------------------------------------------------
(* The gateway's graph: vouches are given, revoked or expire. *)

PathToChanges(p) ==
    /\ \E path \in Paths : to' = [to EXCEPT ![p] = path]
    /\ pathTo' = [h \in Handshakes |->
          \/ pathTo[h]
          \/ PeerOf(h) = p /\ stage[h] \in Asking /\ to'[p] \in Trusting]
    /\ UNCHANGED << from, round, candidates, trusted, stage, told, peerVars >>

PathFromChanges(p) ==
    /\ \E path \in Paths : from' = [from EXCEPT ![p] = path]
    /\ pathFrom' = [h \in Handshakes |->
          \/ pathFrom[h]
          \/ PeerOf(h) = p /\ serving[h] \in Asking /\ from'[p] \in Trusting]
    /\ UNCHANGED << to, ownVars, serving, reply, heard, proven >>
-----------------------------------------------------------------------------
(* The peer. *)

\* A peer that runs this server asks the gateway, if P2P_TRUST_ALL is off.
PeerChecks(h) ==
    /\ serving[h] = "check" /\ PeerOf(h) \notin Foreign
    /\ \E a \in Answers(from[PeerOf(h)]) : heard' = [heard EXCEPT ![h] = a]
    /\ serving' = [serving EXCEPT ![h] = "decide"]
    /\ UNCHANGED << graphVars, ownVars, reply, proven, pathFrom >>

\* It signs the nonce it was sent in its own name, or refuses.
PeerDecides(h) ==
    LET yes == Accepts(heard[h])
    IN  /\ serving[h] = "decide"
        /\ reply' = [reply EXCEPT ![h] = IF yes THEN Response(PeerOf(h), PeerOf(h), h)
                                         ELSE Refusal]
        /\ proven' = [proven EXCEPT ![h] = @ \/ yes]
        /\ heard' = [heard EXCEPT ![h] = "none"]
        /\ serving' = [serving EXCEPT ![h] = "done"]
        /\ UNCHANGED << graphVars, ownVars, pathFrom >>

\* Any other peer may sign the nonce of some other request for this one, name
\* anybody as the sender, or pass on what another agent signed.
ForeignReplies(h) ==
    /\ serving[h] = "check" /\ PeerOf(h) \in Foreign
    /\ \E sender, signer \in Peers, nonce \in {h, Earlier} :
          /\ reply' = [reply EXCEPT ![h] = Response(sender, signer, nonce)]
          /\ proven' = [proven EXCEPT ![h] = @ \/ (nonce = h /\ signer = PeerOf(h))]
    /\ serving' = [serving EXCEPT ![h] = "done"]
    /\ UNCHANGED << graphVars, ownVars, heard, pathFrom >>
-----------------------------------------------------------------------------
(* This agent. *)

\* A task for each of the first max_peers candidates.
Begin(d) ==
    /\ round[d] = "idle"
    /\ \E l \in Lists : candidates' = [candidates EXCEPT ![d] = Taken(l)]
    /\ stage' = [h \in Handshakes |->
          IF h[1] = d /\ \E i \in DOMAIN candidates'[d] : candidates'[d][i] = PeerOf(h)
          THEN "connect" ELSE stage[h]]
    /\ round' = [round EXCEPT ![d] = "shaking"]
    /\ UNCHANGED << graphVars, peerVars, trusted, told, pathTo >>

\* The request, with this handshake's nonce, has come to the peer.
Request(h) ==
    /\ stage[h] = "connect"
    /\ Goto(h, "await")
    /\ serving' = [serving EXCEPT ![h] = "check"]
    /\ pathFrom' = [pathFrom EXCEPT ![h] =
          PeerOf(h) \notin Foreign /\ from[PeerOf(h)] \in Trusting]
    /\ UNCHANGED << graphVars, round, candidates, trusted, told, pathTo, reply,
                    heard, proven >>

\* The connection or the stream fails, or what came does not decode.  Nothing
\* makes this happen in time: read_to_end (downloader.py:143) has no time-out,
\* and handshake_timeout (393) is stored and never used.
TransportFails(h) ==
    /\ stage[h] \in {"connect", "await"}
    /\ Goto(h, "rejected")
    /\ UNCHANGED << graphVars, peerVars, round, candidates, trusted, told, pathTo >>

\* The sender signed this very nonce; mutant: any nonce.
ProvesAnyNonce(h, r) == r.signer = r.sender
Proves(h, r) == r.signer = r.sender /\ r.nonce = h

\* The sender is the one that was dialled.
IsDialled(h, r) == r.sender = PeerOf(h)

Convinces(h, r) == r # Refusal /\ Proves(h, r) /\ IsDialled(h, r)

\* The reply is judged without an await.
Receive(h) ==
    /\ stage[h] = "await" /\ reply[h] # NoReply
    /\ IF Convinces(h, reply[h])
       THEN /\ Goto(h, "check")
            /\ pathTo' = [pathTo EXCEPT ![h] = to[PeerOf(h)] \in Trusting]
       ELSE /\ Goto(h, "rejected")
            /\ UNCHANGED pathTo
    /\ UNCHANGED << graphVars, peerVars, round, candidates, trusted, told >>

\* The gateway is asked about the sender the reply names; its answer is used
\* later.
Check(h) ==
    /\ stage[h] = "check"
    /\ \E a \in Answers(to[reply[h].sender]) : told' = [told EXCEPT ![h] = a]
    /\ Goto(h, "decide")
    /\ UNCHANGED << graphVars, peerVars, round, candidates, trusted, pathTo >>

Decide(h) ==
    /\ stage[h] = "decide"
    /\ Goto(h, IF Accepts(told[h]) THEN "accepted" ELSE "rejected")
    /\ told' = [told EXCEPT ![h] = "none"]
    /\ UNCHANGED << graphVars, peerVars, round, candidates, trusted, pathTo >>

\* gather waits for all candidates; mutants: for the first that ends; for one that
\* is accepted.
FirstEnded(d) == \E i \in DOMAIN candidates[d] : Settled(<< d, candidates[d][i] >>)
OneAccepted(d) == \E i \in DOMAIN candidates[d] : stage[<< d, candidates[d][i] >>] = "accepted"
AllEnded(d) == \A i \in DOMAIN candidates[d] : Settled(<< d, candidates[d][i] >>)

\* The places of those that passed among the candidates.
Passed(d) == {i \in DOMAIN candidates[d] : stage[<< d, candidates[d][i] >>] = "accepted"}

\* Those accepted go on, in the order they were named in.
Gather(d) ==
    /\ round[d] = "shaking" /\ AllEnded(d)
    /\ \E place \in [1..Cardinality(Passed(d)) -> Passed(d)] :
          /\ \A i, j \in DOMAIN place : i < j => place[i] < place[j]
          /\ trusted' = [trusted EXCEPT ![d] =
                [i \in DOMAIN place |-> candidates[d][place[i]]]]
    /\ round' = [round EXCEPT ![d] = "done"]
    /\ UNCHANGED << graphVars, peerVars, candidates, stage, told, pathTo >>
-----------------------------------------------------------------------------
\* What this agent's task does once the peer has answered.
Own(h) == Receive(h) \/ Check(h) \/ Decide(h)

Shake(h) == Request(h) \/ TransportFails(h) \/ Own(h)
Serve(h) == PeerChecks(h) \/ PeerDecides(h) \/ ForeignReplies(h)

Next ==
    \/ \E p \in Peers : PathToChanges(p)
    \/ \E p \in Peers \ Foreign : PathFromChanges(p)
    \/ \E h \in Handshakes : Shake(h) \/ Serve(h)
    \/ \E d \in Downloads : Begin(d) \/ Gather(d)

Spec == Init /\ [][Next]_vars

\* This agent's tasks get their turns, and the gateway answers or its request
\* times out.  Peers owe nothing, and neither does the transport: a peer that
\* takes a connection and says nothing is waited for as long as it stays.
FairSpec ==
    /\ Spec
    /\ \A h \in Handshakes : WF_vars(Own(h))
    /\ \A d \in Downloads : WF_vars(Gather(d))

\* The task of the handshake waits for the peer or for the transport.
Waiting(h) == stage[h] = "connect" \/ (stage[h] = "await" /\ reply[h] = NoReply)
-----------------------------------------------------------------------------
(* What must hold. *)

Replies ==
    [type : {"response"}, sender : Peers, signer : Peers, nonce : Nonces]
        \cup {Refusal, NoReply}

\* Every variable holds a value of its kind.
TypeOK ==
    /\ to \in [Peers -> Paths]
    /\ from \in [Peers \ Foreign -> Paths]
    /\ round \in [Downloads -> {"idle", "shaking", "done"}]
    /\ candidates \in [Downloads -> UNION {[1..n -> Peers] : n \in 0..MaxPeers}]
    /\ trusted \in [Downloads -> Seq(Peers)]
    /\ stage \in [Handshakes -> {"idle", "connect", "await", "check", "decide",
                                 "accepted", "rejected"}]
    /\ serving \in [Handshakes -> {"idle", "check", "decide", "done"}]
    /\ reply \in [Handshakes -> Replies]
    /\ told \in [Handshakes -> Paths \cup {"unreachable"}]
    /\ heard \in [Handshakes -> Paths \cup {"unreachable"}]
    /\ proven \in [Handshakes -> BOOLEAN]
    /\ pathTo \in [Handshakes -> BOOLEAN]
    /\ pathFrom \in [Handshakes -> BOOLEAN]

\* A candidate is accepted only if it, and nobody in its place, has signed the
\* nonce of this very handshake: not with an answer kept from another one, nor
\* with one that another agent gave (_handshake_peer).
AcceptedIsDialled == \A h \in Handshakes : stage[h] = "accepted" => proven[h]

\* Trust is asked for at both ends: whoever is accepted could be reached by a
\* path within max_depth at some moment since its reply came, and if it runs
\* this server, it had a path to this agent at some moment since the request
\* came; a gateway that cannot be asked opens neither door.
TrustIsMutual ==
    \A h \in Handshakes :
        stage[h] = "accepted" =>
            /\ pathTo[h]
            /\ PeerOf(h) \notin Foreign => pathFrom[h]

\* Shaking hands with several at once leaves out nobody who passes, and lets
\* nobody in who does not (_handshake_all).
NobodyLeftOut ==
    \A d \in Downloads : round[d] = "done" =>
        {trusted[d][i] : i \in DOMAIN trusted[d]} =
            {p \in Peers : stage[<< d, p >>] = "accepted"}

\* A round of handshakes ends if none of its peers keeps it waiting for ever,
\* however many of them fail, refuse or are not trusted, and in any order.  The
\* condition is needed: gather waits for all (_handshake_all), and one silent
\* peer holds up the download of all others.
HandshakesEnd ==
    \A d \in Downloads :
        (\A p \in Peers : []<>~Waiting(<< d, p >>))
            => (round[d] = "shaking" ~> round[d] = "done")
=============================================================================
