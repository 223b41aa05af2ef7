------------------------------ MODULE P2PServer ------------------------------
(***************************************************************************)
(* The seeding side of an agent (p2p_server.py): every stream a peer opens *)
(* carries one request and is handled by a task of its own, which asks the *)
(* gateway for a trust path, looks the file up and sends its frames, with  *)
(* an await between any two of these.  Meanwhile the gateway's graph       *)
(* changes, and so does the file: the agent's own downloads empty, write   *)
(* and unlink files the server is reading.  A peer may stop reading: no    *)
(* write has a time limit, so the task then waits as long as the peer is   *)
(* connected.                                                              *)
(*                                                                         *)
(* The requests are about one file hash.                                   *)
(***************************************************************************)
EXTENDS LocalStorage, TrustGate

CONSTANTS
    Streams,   \* the streams peers open
    Peers,     \* the agents that may be named as senders
    Asks,      \* the (inclusive) byte ranges a FileRequest may ask for:
               \* plain ints of the sender's, no rule of the message bounds them
    MaxFile,   \* bound: bytes of any file other parts of the agent store
    TrustAll   \* P2P_TRUST_ALL

ASSUME ServerAssumption ==
    /\ Asks \subseteq [lo : Int, hi : Int]
    /\ MaxFile \in Nat /\ TrueSize <= MaxFile
    /\ TrustAll \in BOOLEAN

VARIABLES
    disk,     \* the file at the path named by the hash, or NoFile
    graph,    \* what the gateway would answer now about each peer
    reads,    \* the peer at the other end still reads what is sent
    phase,    \* what each stream's task does next
    request,  \* what it was asked
    answer,   \* what the gateway told it
    size,     \* the file size it was told
    buf,      \* the bytes it has read
    held,     \* what its open file holds once unlinked
    sent,     \* the frames it has written
    vouched,  \* history: a path to the sender existed since the request came
    seen      \* history: the file as its size was told, unless it was
              \* written or lost to the task since

envVars == << disk, graph, reads >>
vars == << disk, graph, reads, phase, request, answer, size, buf, held, sent,
           vouched, seen >>

Files == {NoFile} \cup UNION {[1..n -> Cell] : n \in 0..MaxFile}

Requests ==
    [kind : {"handshake", "info"}, from : Peers, lo : {0}, hi : {0}]
        \cup {[kind |-> "transfer", from |-> p, lo |-> r.lo, hi |-> r.hi] :
                 p \in Peers, r \in Asks}
NoRequest == [kind |-> "none", from |-> "nobody", lo |-> 0, hi |-> 0]

Frame(type, n, data) == [type |-> type, size |-> n, data |-> data]
Single == {"reject", "error", "handshake", "info"}

Goto(s, ph) == phase' = [phase EXCEPT ![s] = ph]
Send(s, frame) == sent' = [sent EXCEPT ![s] = Append(@, frame)]

\* A stream whose task has not ended.
Active == {"check", "decide", "exists", "stat", "open", "read", "header",
           "data", "finish"}

\* The phases that may write to the stream next.
Writing == {"decide", "exists", "stat", "header", "data", "finish"}

Init ==
    /\ disk \in {NoFile, TrueFile}
    /\ graph \in [Peers -> Paths]
    /\ reads = [s \in Streams |-> TRUE]
    /\ phase = [s \in Streams |-> "closed"]
    /\ request = [s \in Streams |-> NoRequest]
    /\ answer = [s \in Streams |-> "none"]
    /\ size = [s \in Streams |-> 0]
    /\ buf = [s \in Streams |-> << >>]
    /\ held = [s \in Streams |-> NoFile]
    /\ sent = [s \in Streams |-> << >>]
    /\ vouched = [s \in Streams |-> FALSE]
    /\ seen = [s \in Streams |-> NoFile]
-----------------------------------------------------------------------------
(* The environment. *)

\* Vouches are given, revoked or expire at the gateway.
GraphChanges(p) ==
    /\ \E path \in Paths : graph' = [graph EXCEPT ![p] = path]
    /\ vouched' = [s \in Streams |-> \/ vouched[s]
                                    \/ /\ phase[s] \in Active
                                       /\ request[s].from = p
                                       /\ graph'[p] \in Trusting]
    /\ UNCHANGED << disk, reads, phase, request, answer, size, buf, held, sent,
                    seen >>

\* The file is created, emptied or written in place.
FileWritten ==
    /\ \E f \in Files \ {NoFile} :
          /\ disk' = f
          /\ seen' = [s \in Streams |->
                        IF f # disk /\ held[s] = NoFile /\ phase[s] \in {"open", "read"}
                        THEN NoFile ELSE seen[s]]
    /\ UNCHANGED << graph, reads, phase, request, answer, size, buf, held, sent,
                    vouched >>

\* The file is unlinked; a task that has it open keeps it.
FileRemoved ==
    /\ disk # NoFile
    /\ disk' = NoFile
    /\ held' = [s \in Streams |-> IF phase[s] = "read" /\ held[s] = NoFile
                                  THEN disk ELSE held[s]]
    /\ seen' = [s \in Streams |-> IF phase[s] = "open" THEN NoFile ELSE seen[s]]
    /\ UNCHANGED << graph, reads, phase, request, answer, size, buf, sent, vouched >>

\* The peer stays connected and reads no more: once the window of the stream
\* is full, a write_all does not return.  How much still fits is left open:
\* the task may go on writing, or not.
StopsReading(s) ==
    /\ phase[s] \in Active /\ reads[s]
    /\ reads' = [reads EXCEPT ![s] = FALSE]
    /\ UNCHANGED << disk, graph, phase, request, answer, size, buf, held, sent,
                    vouched, seen >>
-----------------------------------------------------------------------------
(* One stream. *)

\* _handle_stream reads the request and decodes it; what is no request is
\* answered with an error; what cannot be read is not answered.
Arrive(s) ==
    /\ phase[s] = "closed"
    /\ \/ \E r \in Requests :
             /\ request' = [request EXCEPT ![s] = r]
             /\ vouched' = [vouched EXCEPT ![s] = graph[r.from] \in Trusting]
             /\ Goto(s, IF ~TrustAll THEN "check"
                        ELSE IF r.kind = "handshake" THEN "decide" ELSE "exists")
             /\ UNCHANGED sent
       \/ /\ Send(s, Frame("error", 0, << >>))
          /\ Goto(s, "done")
          /\ UNCHANGED << request, vouched >>
       \/ /\ Goto(s, "dropped")
          /\ UNCHANGED << request, vouched, sent >>
    /\ UNCHANGED << envVars, answer, size, buf, held, seen >>

\* gateway.check_path: the gateway looks at its graph now, or cannot be asked.
\* The answer is used later.
Check(s) ==
    /\ phase[s] = "check"
    /\ \E a \in Answers(graph[request[s].from]) :
          answer' = [answer EXCEPT ![s] = a]
    /\ Goto(s, "decide")
    /\ UNCHANGED << envVars, request, size, buf, held, sent, vouched, seen >>

\* The answer has come: refuse, or go on.  A handshake is answered here.
Decide(s) ==
    /\ phase[s] = "decide"
    /\ \/ /\ ~TrustAll /\ ~Accepts(answer[s])
          /\ Send(s, Frame(IF request[s].kind = "transfer" THEN "reject" ELSE "error",
                           0, << >>))
          /\ Goto(s, "done")
       \/ /\ TrustAll \/ Accepts(answer[s])
          /\ IF request[s].kind = "handshake"
             THEN Send(s, Frame("handshake", 0, << >>)) /\ Goto(s, "done")
             ELSE Goto(s, "exists") /\ UNCHANGED sent
    /\ UNCHANGED << envVars, request, answer, size, buf, held, vouched, seen >>

Exists(s) ==
    /\ phase[s] = "exists"
    /\ IF disk = NoFile
       THEN /\ Send(s, Frame(IF request[s].kind = "transfer" THEN "reject" ELSE "error",
                             0, << >>))
            /\ Goto(s, "done")
       ELSE Goto(s, "stat") /\ UNCHANGED sent
    /\ UNCHANGED << envVars, request, answer, size, buf, held, vouched, seen >>

\* The last byte sent is the last one asked for or the last one there is; the
\* mutant takes the size for an inclusive end.
LastByteOver(s, n) == Lesser(request[s].hi, n)
LastByte(s, n) == Lesser(request[s].hi, n - 1)

\* The range [lo, last] has n bytes, none if it begins beyond the file; the
\* mutant sees only the range that ends right before it begins.
NothingLeftExactly(n) == n = 0
NothingLeft(n) == n <= 0

\* get_size: the file may be gone since (FileNotFoundError, which nothing
\* catches).  A file info request is answered here; a transfer is refused if
\* nothing is left of the range, or acknowledged with its length.
Stat(s) ==
    /\ phase[s] = "stat"
    /\ \/ /\ disk = NoFile
          /\ Goto(s, "dropped")
          /\ UNCHANGED << size, sent, seen >>
       \/ /\ disk # NoFile
          /\ seen' = [seen EXCEPT ![s] = disk]
          /\ size' = [size EXCEPT ![s] = Len(disk)]
          /\ LET last == LastByte(s, Len(disk))
                 n    == last - request[s].lo + 1
             IN  CASE request[s].kind = "info" ->
                        Send(s, Frame("info", Len(disk), << >>)) /\ Goto(s, "done")
                   [] request[s].kind = "transfer" /\ NothingLeft(n) ->
                        Send(s, Frame("reject", 0, << >>)) /\ Goto(s, "done")
                   [] OTHER ->
                        Send(s, Frame("ack", n, << >>)) /\ Goto(s, "open")
    /\ UNCHANGED << envVars, request, answer, buf, held, vouched >>

\* read_range opens the file, if it is still there, and seeks to the first
\* byte, which fails if that is a negative one: nothing has refused it so far.
Open(s) ==
    /\ phase[s] = "open"
    /\ Goto(s, IF disk = NoFile \/ request[s].lo < 0 THEN "dropped" ELSE "read")
    /\ UNCHANGED << envVars, request, answer, size, buf, held, sent, vouched, seen >>

\* The file an open reader reads.
Reading(s) == IF held[s] = NoFile THEN disk ELSE held[s]
NextByte(s) == request[s].lo + Len(buf[s])

\* The range or the file is at its end; the mutant waits for the whole range.
AtEndOfRange(s) == NextByte(s) > LastByte(s, size[s])
AtEnd(s) == NextByte(s) > LastByte(s, size[s]) \/ NextByte(s) >= Len(Reading(s))

\* One read into the buffer.
Read(s) ==
    /\ phase[s] = "read"
    /\ NextByte(s) <= LastByte(s, size[s]) /\ NextByte(s) < Len(Reading(s))
    /\ buf' = [buf EXCEPT ![s] = Append(@, Reading(s)[NextByte(s) + 1])]
    /\ UNCHANGED << envVars, phase, request, answer, size, held, sent, vouched, seen >>

ReadEnds(s) ==
    /\ phase[s] = "read"
    /\ AtEnd(s)
    /\ held' = [held EXCEPT ![s] = NoFile]
    /\ Goto(s, "header")
    /\ UNCHANGED << envVars, request, answer, size, buf, sent, vouched, seen >>

\* ChunkHeader: the length and the checksum of what was read.  The checksum
\* stands for the bytes it is taken of.
SendHeader(s) ==
    /\ phase[s] = "header"
    /\ Send(s, Frame("header", Len(buf[s]), buf[s]))
    /\ Goto(s, "data")
    /\ UNCHANGED << envVars, request, answer, size, buf, held, vouched, seen >>

\* What is sent is what was hashed; the mutant reads the range again.
PayloadReread(s) == IF disk = NoFile THEN << >>
                    ELSE SubSeq(disk, request[s].lo + 1, Lesser(NextByte(s), Len(disk)))
Payload(s) == buf[s]

SendData(s) ==
    /\ phase[s] = "data"
    /\ Send(s, Frame("data", Len(Payload(s)), Payload(s)))
    /\ Goto(s, "finish")
    /\ UNCHANGED << envVars, request, answer, size, buf, held, vouched, seen >>

\* TransferComplete, and the stream is finished.
SendComplete(s) ==
    /\ phase[s] = "finish"
    /\ Send(s, Frame("complete", Len(buf[s]), << >>))
    /\ Goto(s, "done")
    /\ UNCHANGED << envVars, request, answer, size, buf, held, vouched, seen >>

\* A write, a read or a stat fails, the peer closes the connection, or the
\* process ends: the task is gone, the frames already written stay written.
\* The tasks of the streams are made at p2p_server.py:156 and kept by nobody:
\* stop() does not cancel them, they end with the endpoint or the process.
Drop(s) ==
    /\ phase[s] \in Active
    /\ held' = [held EXCEPT ![s] = NoFile]
    /\ Goto(s, "dropped")
    /\ UNCHANGED << envVars, request, answer, size, buf, sent, vouched, seen >>

Handle(s) ==
    \/ Check(s) \/ Decide(s) \/ Exists(s) \/ Stat(s) \/ Open(s) \/ Read(s)
    \/ ReadEnds(s) \/ SendHeader(s) \/ SendData(s) \/ SendComplete(s)

Next ==
    \/ \E p \in Peers : GraphChanges(p)
    \/ FileWritten \/ FileRemoved
    \/ \E s \in Streams : Arrive(s) \/ Handle(s) \/ Drop(s) \/ StopsReading(s)

\* Before a write to a peer that reads no more.
AtPeer(s) == ~reads[s] /\ phase[s] \in Writing

\* What the task does without the peer: any step that writes nothing, and a
\* write the peer reads.
Own(s) == Handle(s) /\ (sent' = sent \/ reads[s])

Spec == Init /\ [][Next]_vars

\* Every task gets its turns as long as it does not wait for the peer: what it
\* does with the gateway (whose requests time out) and the file ends, a write
\* only if the peer reads.  Peers, files and the graph owe nothing.
FairSpec == Spec /\ \A s \in Streams : WF_vars(Own(s))
-----------------------------------------------------------------------------
(* What must hold. *)

FrameType == [type : Single \cup {"ack", "header", "data", "complete"},
              size : Nat, data : Seq(Cell)]

\* Every variable holds a value of its kind.
TypeOK ==
    /\ disk \in Files
    /\ graph \in [Peers -> Paths]
    /\ reads \in [Streams -> BOOLEAN]
    /\ phase \in [Streams -> {"closed", "done", "dropped"} \cup Active]
    /\ request \in [Streams -> Requests \cup {NoRequest}]
    /\ answer \in [Streams -> Paths \cup {"unreachable"}]
    /\ size \in [Streams -> Nat]
    /\ buf \in [Streams -> Seq(Cell)]
    /\ held \in [Streams -> Files]
    /\ sent \in [Streams -> Seq(FrameType)]
    /\ vouched \in [Streams -> BOOLEAN]
    /\ seen \in [Streams -> Files]

Types(s) == [i \in DOMAIN sent[s] |-> sent[s][i].type]
Told(s, type) == \E i \in DOMAIN sent[s] : sent[s][i].type = type

\* Nobody is told anything about a file, or that it is trusted, unless a path
\* to it within max_depth existed at some moment since its request came: no
\* answer of the gateway outlives the request it was asked for, and a gateway
\* that cannot be reached opens nothing (the trust checks of all handlers).
ToldUnderTrust ==
    \A s \in Streams :
        Told(s, "handshake") \/ Told(s, "info") \/ Told(s, "ack")
            => TrustAll \/ vouched[s]

\* What a stream carries is one message or the frames of one transfer in
\* order, as far as the task came; a task that ended by itself sent all of
\* them.  The header speaks of the very bytes that follow, however the file
\* changes meanwhile, and there are no more of them than acknowledged, nor
\* more acknowledged than asked for: a peer that runs this server is never
\* blamed for a mismatch, and sends nothing in excess (_handle_transfer).
HonestReply ==
    \A s \in Streams :
        LET f == sent[s]
        IN  /\ \/ Types(s) \in {<< t >> : t \in Single}
               \/ Types(s) = SubSeq(<< "ack", "header", "data", "complete" >>, 1, Len(f))
            /\ phase[s] = "done" =>
                 Types(s) \in {<< t >> : t \in Single} \/ Len(f) = 4
            /\ Told(s, "ack") => f[1].size \in 1..(request[s].hi - request[s].lo + 1)
            /\ Len(f) >= 3 => /\ f[3].data = f[2].data
                             /\ Len(f[3].data) = f[2].size
                             /\ f[2].size <= f[1].size
            /\ Len(f) = 4 => f[4].size = f[2].size

\* A transfer of a file nobody writes to meanwhile delivers exactly the bytes
\* it acknowledged, also when the file is unlinked under the open reader.
FaithfulWhenSteady ==
    \A s \in Streams :
        Len(sent[s]) >= 3 /\ seen[s] # NoFile =>
            /\ Len(sent[s][3].data) = sent[s][1].size
            /\ sent[s][3].data =
                 SubSeq(seen[s], request[s].lo + 1, request[s].lo + sent[s][1].size)

\* Every request is dealt with in the end, whatever happens to the file and
\* the graph, or it is stuck where it writes to a peer that reads no more:
\* a task never waits for a file that got shorter, and no other step of it
\* waits for the peer (_handle_stream; no write_all there has a time limit).
StreamEnds ==
    \A s \in Streams :
        phase[s] \in Active ~> phase[s] \in {"done", "dropped"} \/ AtPeer(s)
=============================================================================
