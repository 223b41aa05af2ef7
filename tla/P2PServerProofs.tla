-------------------------- MODULE P2PServerProofs --------------------------
(***************************************************************************)
(* What the serving side keeps to, for any number of streams, peers and    *)
(* ranges, and however the file and the gateway's graph change under it.   *)
(*                                                                         *)
(* Streams do not act on each other, so the invariant speaks of each alone:*)
(* what its task knows (Judged, Measured), what it has open (Open), and    *)
(* that the frames it has sent are those of its phase (Framed).            *)
(***************************************************************************)
EXTENDS P2PServer, TLAPS

\* The phases of a transfer that was acknowledged.
Sending == {"open", "read", "header", "data", "finish"}
Fresh == {"closed", "check", "decide", "exists", "stat"}

\* How many bytes were acknowledged, and the frames of a whole transfer.
AckSize(s) == LastByte(s, size[s]) - request[s].lo + 1
AckFrame(s) == Frame("ack", AckSize(s), << >>)
HeaderFrame(s) == Frame("header", Len(buf[s]), buf[s])
DataFrame(s) == Frame("data", Len(buf[s]), buf[s])
LastFrame(s) == Frame("complete", Len(buf[s]), << >>)

\* What the task was asked, and that there was a path if it goes on.
Judged(s) ==
    /\ phase[s] \in Active => request[s] \in Requests
    /\ phase[s] \in {"exists", "stat"} => request[s].kind # "handshake"
    /\ phase[s] = "check" /\ graph[request[s].from] \in Trusting => vouched[s]
    /\ phase[s] \in {"closed", "check"} => answer[s] = "none"
    /\ phase[s] = "decide" /\ answer[s] \in Trusting => vouched[s]
    /\ phase[s] \in {"exists", "stat"} \cup Sending => TrustAll \/ vouched[s]
    /\ sent[s] # << >> /\ sent[s][1].type \in {"handshake", "info", "ack"} =>
          TrustAll \/ vouched[s]

\* The range acknowledged has bytes, and no more than that are read; a task
\* that got beyond the opening of the file was not asked for a negative start.
Measured(s) ==
    /\ phase[s] \in Fresh => buf[s] = << >>
    /\ phase[s] \in Sending \/ (sent[s] # << >> /\ sent[s][1].type = "ack") =>
          /\ request[s] \in Requests
          /\ AckSize(s) >= 1 /\ Len(buf[s]) <= AckSize(s)
    /\ phase[s] \in Sending \ {"open"} \/ Len(sent[s]) >= 2 => request[s].lo \in Nat

\* A task that reads has a file open; no other has.
Opened(s) ==
    /\ phase[s] = "read" => Reading(s) # NoFile
    /\ phase[s] # "read" => held[s] = NoFile

\* The frames sent are those of the phase.
Framed(s) ==
    /\ phase[s] \in Fresh => sent[s] = << >>
    /\ phase[s] \in {"open", "read", "header"} => sent[s] = << AckFrame(s) >>
    /\ phase[s] = "data" => sent[s] = << AckFrame(s), HeaderFrame(s) >>
    /\ phase[s] = "finish" => sent[s] = << AckFrame(s), HeaderFrame(s), DataFrame(s) >>
    /\ phase[s] = "done" =>
          \/ \E t \in Single, n \in Nat : sent[s] = << Frame(t, n, << >>) >>
          \/ sent[s] = << AckFrame(s), HeaderFrame(s), DataFrame(s), LastFrame(s) >>
    /\ phase[s] = "dropped" =>
          \/ sent[s] = << >>
          \/ sent[s] = << AckFrame(s) >>
          \/ sent[s] = << AckFrame(s), HeaderFrame(s) >>
          \/ sent[s] = << AckFrame(s), HeaderFrame(s), DataFrame(s) >>

StreamInv(s) == Judged(s) /\ Measured(s) /\ Opened(s) /\ Framed(s)

IndInv == TypeOK /\ \A s \in Streams : StreamInv(s)
-----------------------------------------------------------------------------
(* The data. *)

LEMMA FileFacts ==
    ASSUME NEW f \in Files, f # NoFile
    PROVE  f \in Seq(Cell) /\ Len(f) \in Nat /\ DOMAIN f = 1..Len(f)
  <1>1. PICK n \in 0..MaxFile : f \in [1..n -> Cell]
    BY DEF Files
  <1> QED
    BY <1>1, ServerAssumption

LEMMA NoFileFacts == NoFile \in Files /\ \A f \in Seq(Cell) : f # NoFile
  BY StorageAssumption DEF Files

LEMMA TrueFileFacts == TrueFile \in Files /\ TrueFile # NoFile
  <1>1. TrueFile \in [1..TrueSize -> Cell] /\ TrueSize \in 0..MaxFile
    BY StorageAssumption, ServerAssumption DEF TrueFile, Cell
  <1>2. TrueFile \in Seq(Cell)
    BY <1>1, ServerAssumption
  <1> QED
    BY <1>1, <1>2, NoFileFacts DEF Files

LEMMA RequestFacts ==
    ASSUME NEW r \in Requests
    PROVE  /\ r.lo \in Int /\ r.hi \in Int /\ r.from \in Peers
           /\ r.kind \in {"handshake", "info", "transfer"}
  BY ServerAssumption DEF Requests

LEMMA NoRequestFacts == NoRequest.lo = 0 /\ NoRequest.hi = 0
  BY DEF NoRequest

\* Numbers of a request that is one.
LEMMA SizeFacts ==
    ASSUME TypeOK, NEW s \in Streams, request[s] \in Requests
    PROVE  /\ AckSize(s) \in Int
           /\ AckSize(s) <= request[s].hi - request[s].lo + 1
           /\ \A n \in Nat : LastByte(s, n) \in Int
           /\ NextByte(s) \in Int
           /\ request[s].lo \in Nat => NextByte(s) \in Nat
  BY RequestFacts DEF TypeOK, AckSize, LastByte, Lesser, NextByte

LEMMA FrameFacts ==
    ASSUME NEW t \in Single \cup {"ack", "header", "data", "complete"},
           NEW n \in Nat, NEW d \in Seq(Cell)
    PROVE  /\ Frame(t, n, d) \in FrameType
           /\ Frame(t, n, d).type = t /\ Frame(t, n, d).size = n
           /\ Frame(t, n, d).data = d
  BY DEF Frame, FrameType

\* Sequences written out, one element longer.
LEMMA AppendSecond ==
    ASSUME NEW a, NEW b PROVE Append(<< a >>, b) = << a, b >>
  <1> DEFINE s == << a >>
  <1>1. Append(s, b) = [i \in 1..2 |-> IF i <= 1 THEN s[i] ELSE b]
    OBVIOUS
  <1>2. << a, b >> = [i \in 1..2 |-> IF i <= 1 THEN s[i] ELSE b]
    OBVIOUS
  <1> QED
    BY <1>1, <1>2

LEMMA AppendThird ==
    ASSUME NEW a, NEW b, NEW c PROVE Append(<< a, b >>, c) = << a, b, c >>
  <1> DEFINE s == << a, b >>
  <1>1. Append(s, c) = [i \in 1..3 |-> IF i <= 2 THEN s[i] ELSE c]
    OBVIOUS
  <1>2. << a, b, c >> = [i \in 1..3 |-> IF i <= 2 THEN s[i] ELSE c]
    OBVIOUS
  <1> QED
    BY <1>1, <1>2

LEMMA AppendFourth ==
    ASSUME NEW a, NEW b, NEW c, NEW d
    PROVE  Append(<< a, b, c >>, d) = << a, b, c, d >>
  <1> DEFINE s == << a, b, c >>
  <1>1. Append(s, d) = [i \in 1..4 |-> IF i <= 3 THEN s[i] ELSE d]
    OBVIOUS
  <1>2. << a, b, c, d >> = [i \in 1..4 |-> IF i <= 3 THEN s[i] ELSE d]
    OBVIOUS
  <1> QED
    BY <1>1, <1>2

\* A part of a sequence.
LEMMA PartOf ==
    ASSUME NEW S, NEW q \in Seq(S), NEW lo \in Nat, NEW n \in Nat, lo + n <= Len(q)
    PROVE  SubSeq(q, lo + 1, lo + n) = [i \in 1..n |-> q[lo + i]]
  <1>1. (lo + n) - (lo + 1) + 1 = n
    OBVIOUS
  <1>2. SubSeq(q, lo + 1, lo + n) =
          [i \in 1..((lo + n) - (lo + 1) + 1) |-> q[(lo + 1) + i - 1]]
    OBVIOUS
  <1>3. \A i \in 1..n : (lo + 1) + i - 1 = lo + i
    OBVIOUS
  <1> QED
    BY <1>1, <1>2, <1>3

LEMMA EmptyFacts == << >> \in Seq(Cell) /\ Len(<< >>) = 0
  OBVIOUS
-----------------------------------------------------------------------------
(* What does not concern a stream leaves it as it is. *)

LEMMA Unmoved ==
    ASSUME NEW s \in Streams, StreamInv(s),
           phase'[s] = phase[s], request'[s] = request[s], answer'[s] = answer[s],
           size'[s] = size[s], buf'[s] = buf[s], held'[s] = held[s],
           sent'[s] = sent[s], vouched'[s] = vouched[s],
           graph' = graph, disk' = disk
    PROVE  StreamInv(s)'
  BY DEF StreamInv, Judged, Measured, Opened, Framed, Reading, AckSize, LastByte,
         AckFrame, HeaderFrame, DataFrame, LastFrame

LEMMA InitInv == Init => IndInv
  <1> SUFFICES ASSUME Init PROVE IndInv
    OBVIOUS
  <1>1. TypeOK
    BY TrueFileFacts, NoFileFacts, EmptyFacts DEF Init, TypeOK, Paths
  <1>2. \A s \in Streams : StreamInv(s)
    BY EmptyFacts
    DEF Init, StreamInv, Judged, Measured, Opened, Framed, Active, Sending, Fresh
  <1> QED
    BY <1>1, <1>2 DEF IndInv

-----------------------------------------------------------------------------
(* Every step keeps the types. *)

LEMMA TypesEnv ==
    ASSUME TypeOK, \/ \E p \in Peers : GraphChanges(p)
                   \/ FileWritten \/ FileRemoved
                   \/ \E s \in Streams : StopsReading(s)
    PROVE  TypeOK'
  <1>1. ASSUME NEW p \in Peers, GraphChanges(p) PROVE TypeOK'
    <2>1. vouched' \in [Streams -> BOOLEAN]
      BY <1>1 DEF GraphChanges, TypeOK, Active
    <2>2. graph' \in [Peers -> Paths]
      BY <1>1 DEF GraphChanges, TypeOK
    <2> QED
      BY <1>1, <2>1, <2>2 DEF GraphChanges, TypeOK
  <1>2. ASSUME FileWritten PROVE TypeOK'
    BY <1>2, NoFileFacts DEF FileWritten, TypeOK
  <1>3. ASSUME FileRemoved PROVE TypeOK'
    BY <1>3, NoFileFacts DEF FileRemoved, TypeOK
  <1>4. ASSUME NEW s \in Streams, StopsReading(s) PROVE TypeOK'
    BY <1>4 DEF StopsReading, TypeOK
  <1> QED
    BY <1>1, <1>2, <1>3, <1>4

\* One frame more, of a type and a size.
LEMMA SendFacts ==
    ASSUME TypeOK, NEW s \in Streams,
           NEW t \in Single \cup {"ack", "header", "data", "complete"},
           NEW n \in Nat, NEW d \in Seq(Cell), Send(s, Frame(t, n, d))
    PROVE  sent' \in [Streams -> Seq(FrameType)]
  <1>1. sent[s] \in Seq(FrameType) /\ Frame(t, n, d) \in FrameType
    BY FrameFacts DEF TypeOK
  <1>2. Append(sent[s], Frame(t, n, d)) \in Seq(FrameType)
    BY <1>1
  <1> QED
    BY <1>2 DEF TypeOK, Send

\* Where a request goes first.
Begins(s, r, ph) ==
    /\ request' = [request EXCEPT ![s] = r]
    /\ vouched' = [vouched EXCEPT ![s] = graph[r.from] \in Trusting]
    /\ phase' = [phase EXCEPT ![s] = ph]
    /\ UNCHANGED sent
    /\ ph = "check" \/ TrustAll
    /\ ph = "exists" => r.kind # "handshake"

LEMMA FirstPhase ==
    ASSUME NEW s \in Streams, Arrive(s)
    PROVE  \/ \E r \in Requests, ph \in {"check", "decide", "exists"} : Begins(s, r, ph)
           \/ /\ Send(s, Frame("error", 0, << >>)) /\ Goto(s, "done")
              /\ UNCHANGED << request, vouched >>
           \/ Goto(s, "dropped") /\ UNCHANGED << request, vouched, sent >>
  <1>1. ASSUME NEW r \in Requests
        PROVE  \E ph \in {"check", "decide", "exists"} :
                  /\ ph = (IF ~TrustAll THEN "check"
                           ELSE IF r.kind = "handshake" THEN "decide" ELSE "exists")
                  /\ ph = "check" \/ TrustAll
                  /\ ph = "exists" => r.kind # "handshake"
    OBVIOUS
  <1> QED
    BY <1>1 DEF Arrive, Goto, Begins

LEMMA TypesStream ==
    ASSUME IndInv, NEW s \in Streams, Arrive(s) \/ Handle(s) \/ Drop(s)
    PROVE  TypeOK'
  <1> USE DEF Goto, envVars
  <1>0. TypeOK /\ StreamInv(s)
    BY DEF IndInv
  <1>1. ASSUME Arrive(s) PROVE TypeOK'
    <2>0. UNCHANGED << envVars, answer, size, buf, held, seen >>
      BY <1>1 DEF Arrive
    <2>1. ASSUME NEW r \in Requests, NEW ph \in {"check", "decide", "exists"},
                 Begins(s, r, ph)
          PROVE  TypeOK'
      BY <1>0, <2>0, <2>1, RequestFacts DEF Begins, TypeOK, Active
    <2>2. CASE Send(s, Frame("error", 0, << >>)) /\ Goto(s, "done")
               /\ UNCHANGED << request, vouched >>
      <3>1. sent' \in [Streams -> Seq(FrameType)]
        BY <1>0, <2>2, SendFacts, EmptyFacts DEF Single
      <3> QED
        BY <1>0, <2>0, <2>2, <3>1 DEF TypeOK
    <2>3. CASE Goto(s, "dropped") /\ UNCHANGED << request, vouched, sent >>
      BY <1>0, <2>0, <2>3 DEF TypeOK
    <2> QED
      BY <1>1, <2>1, <2>2, <2>3, FirstPhase
  <1>2. ASSUME Check(s) PROVE TypeOK'
    <2>1. \A a \in Answers(graph[request[s].from]) : a \in Paths \cup {"unreachable"}
      BY <1>0, <1>2, RequestFacts DEF Check, Answers, TypeOK, StreamInv, Judged, Active
    <2> QED
      BY <1>0, <1>2, <2>1 DEF Check, TypeOK, Active
  <1>3. ASSUME Decide(s) PROVE TypeOK'
    <2>1. sent' \in [Streams -> Seq(FrameType)]
      BY <1>0, <1>3, SendFacts, EmptyFacts DEF Decide, TypeOK, Single
    <2> QED
      BY <1>0, <1>3, <2>1 DEF Decide, TypeOK, Active
  <1>4. ASSUME Exists(s) PROVE TypeOK'
    <2>1. sent' \in [Streams -> Seq(FrameType)]
      BY <1>0, <1>4, SendFacts, EmptyFacts DEF Exists, TypeOK, Single
    <2> QED
      BY <1>0, <1>4, <2>1 DEF Exists, TypeOK, Active
  <1>5. ASSUME Stat(s) PROVE TypeOK'
    <2>1. CASE disk = NoFile
      BY <1>0, <1>5, <2>1 DEF Stat, TypeOK, Active
    <2>2. CASE disk # NoFile
      <3>1. Len(disk) \in Nat /\ request[s] \in Requests
        BY <1>0, <1>5, <2>2, FileFacts DEF Stat, TypeOK, StreamInv, Judged, Active
      <3>2. LastByte(s, Len(disk)) - request[s].lo + 1 \in Int
        BY <1>0, <3>1, SizeFacts, RequestFacts
      <3> DEFINE n == LastByte(s, Len(disk)) - request[s].lo + 1
      <3>3. CASE request[s].kind = "info"
        <4>1. Send(s, Frame("info", Len(disk), << >>)) /\ Goto(s, "done")
          BY <1>5, <2>2, <3>3 DEF Stat
        <4> QED
          BY <1>0, <1>5, <2>2, <3>1, <4>1, SendFacts, EmptyFacts DEF Stat, Single, TypeOK
      <3>4. CASE request[s].kind = "transfer" /\ NothingLeft(n)
        <4>1. Send(s, Frame("reject", 0, << >>)) /\ Goto(s, "done")
          BY <1>5, <2>2, <3>4 DEF Stat
        <4> QED
          BY <1>0, <1>5, <2>2, <3>1, <4>1, SendFacts, EmptyFacts DEF Stat, Single, TypeOK
      <3>5. CASE request[s].kind # "info" /\ ~(request[s].kind = "transfer" /\ NothingLeft(n))
        <4>1. Send(s, Frame("ack", n, << >>)) /\ Goto(s, "open")
          BY <1>5, <2>2, <3>5 DEF Stat
        <4>2. n \in Nat
          BY <1>0, <1>5, <3>1, <3>2, <3>5, RequestFacts
          DEF NothingLeft, Stat, StreamInv, Judged
        <4> QED
          BY <1>0, <1>5, <2>2, <3>1, <4>1, <4>2, SendFacts, EmptyFacts
          DEF Stat, Single, TypeOK, Active
      <3> QED
        BY <3>3, <3>4, <3>5
    <2> QED
      BY <2>1, <2>2
  <1>6. ASSUME Open(s) PROVE TypeOK'
    BY <1>0, <1>6 DEF Open, TypeOK, Active
  <1>7. ASSUME Read(s) PROVE TypeOK'
    <2>1. /\ Reading(s) \in Files /\ Reading(s) # NoFile
          /\ request[s] \in Requests /\ request[s].lo \in Nat
      BY <1>0, <1>7
      DEF Read, TypeOK, StreamInv, Opened, Judged, Measured, Active, Sending, Reading
    <2>2. NextByte(s) + 1 \in DOMAIN Reading(s) /\ Reading(s) \in Seq(Cell)
      BY <1>0, <1>7, <2>1, FileFacts, SizeFacts DEF Read
    <2>3. Append(buf[s], Reading(s)[NextByte(s) + 1]) \in Seq(Cell)
      BY <1>0, <2>2 DEF TypeOK
    <2> QED
      BY <1>0, <1>7, <2>3 DEF Read, TypeOK
  <1>8. ASSUME ReadEnds(s) PROVE TypeOK'
    BY <1>0, <1>8, NoFileFacts DEF ReadEnds, TypeOK, Active
  <1>9. ASSUME SendHeader(s) PROVE TypeOK'
    <2>0. Len(buf[s]) \in Nat /\ buf[s] \in Seq(Cell)
      BY <1>0 DEF TypeOK
    <2>1. sent' \in [Streams -> Seq(FrameType)]
      BY <1>0, <1>9, <2>0, SendFacts DEF SendHeader
    <2> QED
      BY <1>0, <1>9, <2>1 DEF SendHeader, TypeOK, Active
  <1>10. ASSUME SendData(s) PROVE TypeOK'
    <2>0. Len(buf[s]) \in Nat /\ buf[s] \in Seq(Cell)
      BY <1>0 DEF TypeOK
    <2>1. sent' \in [Streams -> Seq(FrameType)]
      BY <1>0, <1>10, <2>0, SendFacts DEF SendData, Payload
    <2> QED
      BY <1>0, <1>10, <2>1 DEF SendData, TypeOK, Active
  <1>11. ASSUME SendComplete(s) PROVE TypeOK'
    <2>0. Len(buf[s]) \in Nat /\ buf[s] \in Seq(Cell)
      BY <1>0 DEF TypeOK
    <2>1. sent' \in [Streams -> Seq(FrameType)]
      BY <1>0, <1>11, <2>0, SendFacts, EmptyFacts DEF SendComplete
    <2> QED
      BY <1>0, <1>11, <2>1 DEF SendComplete, TypeOK
  <1>12. ASSUME Drop(s) PROVE TypeOK'
    BY <1>0, <1>12, NoFileFacts DEF Drop, TypeOK
  <1> QED
    BY <1>1, <1>2, <1>3, <1>4, <1>5, <1>6, <1>7, <1>8, <1>9, <1>10, <1>11, <1>12
    DEF Handle
-----------------------------------------------------------------------------
(* Every step keeps what is known of each stream. *)

LEMMA StreamsEnv ==
    ASSUME IndInv, NEW s \in Streams,
           \/ \E p \in Peers : GraphChanges(p)
           \/ FileWritten \/ FileRemoved
           \/ \E t \in Streams : StopsReading(t)
    PROVE  StreamInv(s)'
  <1> USE DEF AckSize, LastByte, AckFrame, HeaderFrame, DataFrame, LastFrame
  <1>0. TypeOK /\ Judged(s) /\ Measured(s) /\ Opened(s) /\ Framed(s)
    BY DEF IndInv, StreamInv
  <1>1. ASSUME NEW p \in Peers, GraphChanges(p) PROVE StreamInv(s)'
    <2>1. Judged(s)'
      BY <1>0, <1>1, RequestFacts DEF GraphChanges, Judged, TypeOK, Active, Sending
    <2>2. Measured(s)' /\ Framed(s)'
      BY <1>0, <1>1 DEF GraphChanges, Measured, Framed
    <2>3. Opened(s)'
      BY <1>0, <1>1 DEF GraphChanges, Opened, Reading
    <2> QED
      BY <2>1, <2>2, <2>3 DEF StreamInv
  <1>2. ASSUME FileWritten PROVE StreamInv(s)'
    <2>1. Judged(s)' /\ Measured(s)' /\ Framed(s)'
      BY <1>0, <1>2 DEF FileWritten, Judged, Measured, Framed
    <2>2. Opened(s)'
      BY <1>0, <1>2 DEF FileWritten, Opened, Reading
    <2> QED
      BY <2>1, <2>2 DEF StreamInv
  <1>3. ASSUME FileRemoved PROVE StreamInv(s)'
    <2>1. Judged(s)' /\ Measured(s)' /\ Framed(s)'
      BY <1>0, <1>3 DEF FileRemoved, Judged, Measured, Framed
    <2>2. Opened(s)'
      BY <1>0, <1>3 DEF FileRemoved, Opened, Reading, TypeOK
    <2> QED
      BY <2>1, <2>2 DEF StreamInv
  <1>4. ASSUME NEW t \in Streams, StopsReading(t) PROVE StreamInv(s)'
    BY <1>0, <1>4, Unmoved DEF StopsReading, StreamInv
  <1> QED
    BY <1>1, <1>2, <1>3, <1>4

LEMMA OtherStreams ==
    ASSUME IndInv, NEW s \in Streams, Arrive(s) \/ Handle(s) \/ Drop(s),
           NEW t \in Streams, t # s
    PROVE  StreamInv(t)'
  <1>1. /\ phase'[t] = phase[t] /\ request'[t] = request[t] /\ answer'[t] = answer[t]
        /\ size'[t] = size[t] /\ buf'[t] = buf[t] /\ held'[t] = held[t]
        /\ vouched'[t] = vouched[t] /\ graph' = graph /\ disk' = disk
    BY DEF IndInv, TypeOK, Arrive, Handle, Drop, Check, Decide, Exists, Stat, Open, Read,
           ReadEnds, SendHeader, SendData, SendComplete, Goto, envVars, Send
  <1>2. sent'[t] = sent[t]
    BY DEF IndInv, TypeOK, Arrive, Handle, Drop, Check, Decide, Exists, Stat, Open, Read,
           ReadEnds, SendHeader, SendData, SendComplete, Goto, envVars, Send
  <1> QED
    BY <1>1, <1>2, Unmoved DEF IndInv

\* A stream that ends with one message, which tells nothing or stands under trust.
LEMMA AnsweredAtOnce ==
    ASSUME NEW s \in Streams, NEW t \in Single, NEW n \in Nat,
           phase'[s] = "done", sent'[s] = << Frame(t, n, << >>) >>, held'[s] = NoFile,
           t \in {"handshake", "info"} => TrustAll \/ vouched'[s]
    PROVE  StreamInv(s)'
  <1>1. sent'[s][1].type = t
    BY DEF Frame
  <1>2. Judged(s)'
    BY <1>1 DEF Judged, Active, Sending, Single
  <1>3. Measured(s)'
    <2>1. Len(sent'[s]) = 1
      OBVIOUS
    <2> QED
      BY <1>1, <2>1 DEF Measured, Sending, Fresh, Single
  <1>4. Opened(s)' /\ Framed(s)'
    BY DEF Opened, Framed, Fresh
  <1> QED
    BY <1>2, <1>3, <1>4 DEF StreamInv

\* A stream that is dropped keeps what it has sent.
LEMMA Dropped ==
    ASSUME NEW s \in Streams, StreamInv(s), phase[s] \in Active, phase'[s] = "dropped",
           request'[s] = request[s], size'[s] = size[s], buf'[s] = buf[s],
           vouched'[s] = vouched[s], sent'[s] = sent[s], held'[s] = NoFile
    PROVE  StreamInv(s)'
  <1>1. /\ AckSize(s)' = AckSize(s) /\ AckFrame(s)' = AckFrame(s)
        /\ HeaderFrame(s)' = HeaderFrame(s) /\ DataFrame(s)' = DataFrame(s)
    BY DEF AckSize, LastByte, AckFrame, HeaderFrame, DataFrame
  <1>2. Judged(s)'
    BY DEF StreamInv, Judged, Active, Sending
  <1>3. Measured(s)'
    BY <1>1 DEF StreamInv, Measured, Sending, Fresh
  <1>4. Opened(s)'
    BY DEF Opened
  <1>5. Framed(s)'
    BY <1>1 DEF StreamInv, Framed, Active, Fresh
  <1> QED
    BY <1>2, <1>3, <1>4, <1>5 DEF StreamInv

\* The steps up to the acknowledgement.
LEMMA Opening ==
    ASSUME IndInv, NEW s \in Streams,
           Arrive(s) \/ Check(s) \/ Decide(s) \/ Exists(s)
    PROVE  StreamInv(s)'
  <1> USE DEF Goto, envVars
  <1>0. TypeOK /\ Judged(s) /\ Measured(s) /\ Opened(s) /\ Framed(s)
    BY DEF IndInv, StreamInv
  <1>1. ASSUME Arrive(s) PROVE StreamInv(s)'
    <2>0. phase[s] = "closed" /\ UNCHANGED << envVars, answer, size, buf, held, seen >>
      BY <1>1 DEF Arrive
    <2>1. ASSUME NEW r \in Requests, NEW ph \in {"check", "decide", "exists"},
                 Begins(s, r, ph)
          PROVE  StreamInv(s)'
      <3>1. /\ phase'[s] = ph /\ request'[s] = r /\ sent'[s] = << >>
            /\ vouched'[s] = (graph[r.from] \in Trusting)
            /\ answer'[s] = answer[s] /\ buf'[s] = << >> /\ held'[s] = NoFile
        BY <1>0, <2>0, <2>1 DEF Begins, TypeOK, Framed, Measured, Opened, Fresh
      <3>2. answer[s] = "none"
        BY <1>0, <2>0 DEF Judged
      <3>3. Judged(s)'
        BY <2>0, <2>1, <3>1, <3>2, RequestFacts DEF Begins, Judged, Sending, Trusting
      <3>4. Measured(s)' /\ Opened(s)'
        BY <3>1, EmptyFacts DEF Measured, Opened, Sending
      <3>5. Framed(s)'
        BY <3>1 DEF Framed
      <3> QED
        BY <3>3, <3>4, <3>5 DEF StreamInv
    <2>2. CASE Send(s, Frame("error", 0, << >>)) /\ Goto(s, "done")
               /\ UNCHANGED << request, vouched >>
      <3>1. phase'[s] = "done" /\ sent'[s] = << Frame("error", 0, << >>) >> /\ held'[s] = NoFile
        BY <1>0, <2>0, <2>2 DEF Send, TypeOK, Framed, Measured, Opened, Fresh
      <3> QED
        BY <3>1, AnsweredAtOnce DEF Single
    <2>3. CASE Goto(s, "dropped") /\ UNCHANGED << request, vouched, sent >>
      <3>1. phase'[s] = "dropped" /\ sent'[s] = << >> /\ held'[s] = NoFile
        BY <1>0, <2>0, <2>3 DEF TypeOK, Framed, Measured, Opened, Fresh
      <3>2. Judged(s)' /\ Measured(s)' /\ Opened(s)' /\ Framed(s)'
        BY <3>1, EmptyFacts DEF Judged, Measured, Opened, Framed, Active, Sending, Fresh
      <3> QED
        BY <3>2 DEF StreamInv
    <2> QED
      BY <1>1, <2>1, <2>2, <2>3, FirstPhase
  <1>2. ASSUME Check(s) PROVE StreamInv(s)'
    <2>1. /\ phase[s] = "check" /\ request[s] \in Requests /\ request'[s] = request[s]
          /\ phase'[s] = "decide" /\ sent'[s] = << >> /\ buf'[s] = << >>
          /\ vouched'[s] = vouched[s] /\ held'[s] = NoFile
      BY <1>0, <1>2 DEF Check, TypeOK, Framed, Measured, Opened, Judged, Fresh, Active
    <2>2. answer'[s] \in Trusting => vouched'[s]
      BY <1>0, <1>2, <2>1 DEF Check, TypeOK, Judged, Answers, Trusting
    <2>3. Judged(s)'
      BY <2>1, <2>2 DEF Judged, Sending
    <2>4. Measured(s)' /\ Opened(s)'
      BY <2>1, EmptyFacts DEF Measured, Opened, Sending
    <2>5. Framed(s)'
      BY <2>1 DEF Framed
    <2> QED
      BY <2>3, <2>4, <2>5 DEF StreamInv
  <1>3. ASSUME Decide(s) PROVE StreamInv(s)'
    <2>0. /\ phase[s] = "decide" /\ request[s] \in Requests /\ request'[s] = request[s]
          /\ sent[s] = << >> /\ buf'[s] = << >>
          /\ vouched'[s] = vouched[s] /\ held'[s] = NoFile /\ answer'[s] = answer[s]
      BY <1>0, <1>3 DEF Decide, TypeOK, Framed, Measured, Opened, Judged, Fresh, Active
    <2>1. CASE /\ ~TrustAll /\ ~Accepts(answer[s]) /\ Goto(s, "done")
               /\ \E t \in {"reject", "error"} : Send(s, Frame(t, 0, << >>))
      <3>1. PICK t \in {"reject", "error"} : sent'[s] = << Frame(t, 0, << >>) >>
        BY <1>0, <2>0, <2>1 DEF Send, TypeOK
      <3> QED
        BY <1>0, <2>0, <2>1, <3>1, AnsweredAtOnce DEF Single, TypeOK
    <2>2. CASE /\ TrustAll \/ Accepts(answer[s])
               /\ Send(s, Frame("handshake", 0, << >>)) /\ Goto(s, "done")
      <3>1. sent'[s] = << Frame("handshake", 0, << >>) >>
        BY <1>0, <2>0, <2>2 DEF Send, TypeOK
      <3>2. TrustAll \/ vouched'[s]
        BY <1>0, <2>0, <2>2 DEF Accepts, Judged, Trusting
      <3> QED
        BY <1>0, <2>0, <2>2, <3>1, <3>2, AnsweredAtOnce DEF Single, TypeOK
    <2>3. CASE /\ TrustAll \/ Accepts(answer[s])
               /\ request[s].kind # "handshake" /\ Goto(s, "exists") /\ UNCHANGED sent
      <3>1. phase'[s] = "exists" /\ sent'[s] = << >>
        BY <1>0, <2>0, <2>3 DEF TypeOK
      <3>2. TrustAll \/ vouched'[s]
        BY <1>0, <2>0, <2>3 DEF Accepts, Judged, Trusting
      <3>3. Judged(s)'
        BY <2>0, <2>3, <3>1, <3>2 DEF Judged
      <3>4. Measured(s)' /\ Opened(s)'
        BY <2>0, <3>1, EmptyFacts DEF Measured, Opened, Sending
      <3>5. Framed(s)'
        BY <3>1 DEF Framed
      <3> QED
        BY <3>3, <3>4, <3>5 DEF StreamInv
    <2> QED
      BY <1>3, <2>1, <2>2, <2>3 DEF Decide
  <1>4. ASSUME Exists(s) PROVE StreamInv(s)'
    <2>0. /\ phase[s] = "exists" /\ request[s] \in Requests /\ request'[s] = request[s]
          /\ sent[s] = << >> /\ buf'[s] = << >> /\ request[s].kind # "handshake"
          /\ held'[s] = NoFile
      BY <1>0, <1>4 DEF Exists, TypeOK, Framed, Measured, Opened, Judged, Fresh, Active
    <2>3. TrustAll \/ vouched'[s]
      BY <1>0, <1>4 DEF Exists, Judged
    <2>1. CASE disk = NoFile
      <3>1. PICK t \in {"reject", "error"} : Send(s, Frame(t, 0, << >>)) /\ Goto(s, "done")
        BY <1>4, <2>1 DEF Exists
      <3>2. sent'[s] = << Frame(t, 0, << >>) >> /\ phase'[s] = "done"
        BY <1>0, <2>0, <3>1 DEF Send, TypeOK
      <3> QED
        BY <2>0, <2>3, <3>2, AnsweredAtOnce DEF Single
    <2>2. CASE disk # NoFile
      <3>1. phase'[s] = "stat" /\ sent'[s] = << >>
        BY <1>0, <1>4, <2>0, <2>2 DEF Exists, TypeOK
      <3>2. Judged(s)'
        BY <2>0, <2>3, <3>1 DEF Judged
      <3>3. Measured(s)' /\ Opened(s)'
        BY <2>0, <3>1, EmptyFacts DEF Measured, Opened, Sending
      <3>4. Framed(s)'
        BY <3>1 DEF Framed
      <3> QED
        BY <3>2, <3>3, <3>4 DEF StreamInv
    <2> QED
      BY <2>1, <2>2
  <1> QED
    BY <1>1, <1>2, <1>3, <1>4

\* A stream that goes on, or ends, in the middle of a transfer: the measure
\* and the trust are those of before, and the frames those of the new phase.
LEMMA GoesOn ==
    ASSUME TypeOK, NEW s \in Streams, StreamInv(s), phase[s] \in Sending,
           phase'[s] \in Sending \cup {"done"},
           request'[s] = request[s], size'[s] = size[s], buf'[s] = buf[s],
           vouched'[s] = vouched[s], request[s].lo \in Nat, Opened(s)', Framed(s)'
    PROVE  StreamInv(s)'
  <1>1. request[s] \in Requests /\ (TrustAll \/ vouched'[s])
    BY DEF StreamInv, Judged, Measured
  <1>2. AckSize(s)' = AckSize(s)
    BY DEF AckSize, LastByte
  <1>3. Judged(s)'
    BY <1>1 DEF Judged, Sending, Active
  <1>4. Measured(s)'
    BY <1>1, <1>2 DEF StreamInv, Measured, Sending, Fresh
  <1> QED
    BY <1>3, <1>4 DEF StreamInv

LEMMA StatKeeps ==
    ASSUME IndInv, NEW s \in Streams, Stat(s)
    PROVE  StreamInv(s)'
  <1> USE DEF Goto, envVars
  <1>0. TypeOK /\ Judged(s) /\ Measured(s) /\ Opened(s) /\ Framed(s)
    BY DEF IndInv, StreamInv
  <1>1. /\ phase[s] = "stat" /\ request[s] \in Requests /\ request'[s] = request[s]
        /\ request[s].kind # "handshake"
        /\ sent[s] = << >> /\ buf'[s] = << >> /\ held'[s] = NoFile
    BY <1>0 DEF Stat, TypeOK, Framed, Measured, Opened, Judged, Fresh, Active
  <1>2. TrustAll \/ vouched'[s]
    BY <1>0 DEF Stat, Judged
  <1>3. CASE disk = NoFile
    <2>1. phase'[s] = "dropped" /\ sent'[s] = << >>
      BY <1>0, <1>1, <1>3 DEF Stat, TypeOK
    <2>2. Judged(s)' /\ Measured(s)' /\ Opened(s)' /\ Framed(s)'
      BY <1>1, <2>1, EmptyFacts DEF Judged, Measured, Opened, Framed, Active, Sending, Fresh
    <2> QED
      BY <2>2 DEF StreamInv
  <1>4. CASE disk # NoFile
    <2> DEFINE n == LastByte(s, Len(disk)) - request[s].lo + 1
    <2>1. Len(disk) \in Nat /\ size'[s] = Len(disk)
      BY <1>0, <1>4, FileFacts DEF Stat, TypeOK
    <2>2. CASE request[s].kind = "info"
      <3>1. Send(s, Frame("info", Len(disk), << >>)) /\ Goto(s, "done")
        BY <1>4, <2>2 DEF Stat
      <3>2. sent'[s] = << Frame("info", Len(disk), << >>) >> /\ phase'[s] = "done"
        BY <1>0, <1>1, <3>1 DEF Send, TypeOK
      <3> QED
        BY <1>1, <1>2, <2>1, <3>2, AnsweredAtOnce DEF Single
    <2>3. CASE request[s].kind = "transfer" /\ NothingLeft(n)
      <3>1. Send(s, Frame("reject", 0, << >>)) /\ Goto(s, "done")
        BY <1>4, <2>3 DEF Stat
      <3>2. sent'[s] = << Frame("reject", 0, << >>) >> /\ phase'[s] = "done"
        BY <1>0, <1>1, <3>1 DEF Send, TypeOK
      <3> QED
        BY <1>1, <1>2, <3>2, AnsweredAtOnce DEF Single
    <2>4. CASE request[s].kind = "transfer" /\ ~NothingLeft(n)
      <3>1. Send(s, Frame("ack", n, << >>)) /\ Goto(s, "open")
        BY <1>4, <2>4 DEF Stat
      <3>2. sent'[s] = << Frame("ack", n, << >>) >> /\ phase'[s] = "open"
        BY <1>0, <1>1, <3>1 DEF Send, TypeOK
      <3>3. AckSize(s)' = n
        BY <1>1, <2>1 DEF AckSize, LastByte
      <3>4. n >= 1 /\ Len(buf'[s]) <= n
        BY <1>0, <1>1, <2>1, <2>4, SizeFacts, RequestFacts, EmptyFacts DEF NothingLeft
      <3>5. Judged(s)'
        BY <1>1, <1>2, <3>2 DEF Judged
      <3>6. Measured(s)'
        <4>1. Len(sent'[s]) = 1
          BY <3>2
        <4> QED
          BY <1>1, <3>2, <3>3, <3>4, <4>1 DEF Measured, Fresh, Sending
      <3>7. Opened(s)' /\ Framed(s)'
        BY <1>1, <3>2, <3>3 DEF Opened, Framed, AckFrame, Fresh
      <3> QED
        BY <3>5, <3>6, <3>7 DEF StreamInv
    <2> QED
      BY <1>1, <2>2, <2>3, <2>4, RequestFacts
  <1> QED
    BY <1>3, <1>4

LEMMA SendingKeeps ==
    ASSUME IndInv, NEW s \in Streams,
           \/ Open(s) \/ Read(s) \/ ReadEnds(s)
           \/ SendHeader(s) \/ SendData(s) \/ SendComplete(s)
    PROVE  StreamInv(s)'
  <1> USE DEF Goto, envVars
  <1>0. TypeOK /\ StreamInv(s) /\ Judged(s) /\ Measured(s) /\ Opened(s) /\ Framed(s)
    BY DEF IndInv, StreamInv
  <1>1. ASSUME Open(s) PROVE StreamInv(s)'
    <2>0. /\ phase[s] = "open" /\ request'[s] = request[s] /\ size'[s] = size[s]
          /\ buf'[s] = buf[s] /\ vouched'[s] = vouched[s] /\ held'[s] = NoFile
          /\ sent'[s] = << AckFrame(s) >> /\ sent' = sent /\ disk' = disk
      BY <1>0, <1>1 DEF Open, TypeOK, Opened, Framed
    <2>1. AckFrame(s)' = AckFrame(s)
      BY <2>0 DEF AckFrame, AckSize, LastByte
    <2>2. CASE disk # NoFile /\ ~(request[s].lo < 0)
      <3>1. phase'[s] = "read"
        BY <1>0, <1>1, <2>2 DEF Open, TypeOK
      <3>2. Opened(s)'
        BY <2>0, <2>2, <3>1 DEF Opened, Reading
      <3>3. Framed(s)'
        BY <2>0, <2>1, <3>1 DEF Framed, Fresh
      <3>4. request[s].lo \in Nat
        BY <1>0, <2>0, <2>2, RequestFacts DEF Judged, Active
      <3> QED
        BY <1>0, <2>0, <3>1, <3>2, <3>3, <3>4, GoesOn DEF Sending
    <2>3. CASE disk = NoFile \/ request[s].lo < 0
      <3>1. phase'[s] = "dropped"
        BY <1>0, <1>1, <2>3 DEF Open, TypeOK
      <3> QED
        BY <1>0, <2>0, <2>1, <3>1, Dropped DEF Sending, Active
    <2> QED
      BY <2>2, <2>3
  <1>2. ASSUME Read(s) PROVE StreamInv(s)'
    <2>1. /\ phase[s] = "read" /\ phase'[s] = phase[s] /\ request'[s] = request[s]
          /\ size'[s] = size[s] /\ vouched'[s] = vouched[s] /\ held' = held
          /\ sent'[s] = << AckFrame(s) >> /\ disk' = disk
          /\ request[s] \in Requests
      BY <1>0, <1>2 DEF Read, TypeOK, Framed, Judged, Active
    <2>2. AckSize(s)' = AckSize(s) /\ AckFrame(s)' = AckFrame(s)
      BY <2>1 DEF AckFrame, AckSize, LastByte
    <2>3. buf'[s] = Append(buf[s], Reading(s)[NextByte(s) + 1])
      BY <1>0, <1>2 DEF Read, TypeOK
    <2>4. Len(buf'[s]) = Len(buf[s]) + 1
      BY <1>0, <2>3 DEF TypeOK
    <2>5. Len(buf'[s]) <= AckSize(s)
      <3>1. request[s].lo + Len(buf[s]) <= LastByte(s, size[s])
        BY <1>2 DEF Read, NextByte
      <3>2. size[s] \in Nat /\ LastByte(s, size[s]) \in Int /\ Len(buf[s]) \in Nat
        BY <1>0, <2>1, SizeFacts DEF TypeOK
      <3> QED
        BY <2>1, <2>4, <3>1, <3>2, RequestFacts DEF AckSize
    <2>6. Judged(s)'
      BY <1>0, <1>2, <2>1 DEF Judged, Sending, Active, AckFrame, Frame, Read, TypeOK
    <2>7. Measured(s)'
      BY <1>0, <2>1, <2>2, <2>5 DEF Measured, Sending, Fresh
    <2>8. Opened(s)'
      BY <1>0, <2>1 DEF Opened, Reading
    <2>9. Framed(s)'
      BY <2>1, <2>2 DEF Framed, Fresh
    <2> QED
      BY <2>6, <2>7, <2>8, <2>9 DEF StreamInv
  <1>3. ASSUME ReadEnds(s) PROVE StreamInv(s)'
    <2>0. /\ phase[s] = "read" /\ request'[s] = request[s] /\ size'[s] = size[s]
          /\ buf'[s] = buf[s] /\ vouched'[s] = vouched[s] /\ held'[s] = NoFile
          /\ sent'[s] = << AckFrame(s) >> /\ phase'[s] = "header"
      BY <1>0, <1>3 DEF ReadEnds, TypeOK, Framed
    <2>1. AckFrame(s)' = AckFrame(s)
      BY <2>0 DEF AckFrame, AckSize, LastByte
    <2>2. Opened(s)' /\ Framed(s)'
      BY <2>0, <2>1 DEF Opened, Framed, Fresh
    <2> QED
      BY <1>0, <2>0, <2>2, GoesOn DEF Sending, Measured
  <1>4. ASSUME SendHeader(s) PROVE StreamInv(s)'
    <2>0. /\ phase[s] = "header" /\ request'[s] = request[s] /\ size'[s] = size[s]
          /\ buf'[s] = buf[s] /\ vouched'[s] = vouched[s] /\ held'[s] = NoFile
          /\ sent[s] = << AckFrame(s) >> /\ phase'[s] = "data"
      BY <1>0, <1>4 DEF SendHeader, TypeOK, Framed, Opened
    <2>1. sent'[s] = Append(sent[s], HeaderFrame(s))
      BY <1>0, <1>4 DEF SendHeader, Send, HeaderFrame, TypeOK
    <2>2. sent'[s] = << AckFrame(s), HeaderFrame(s) >>
      BY <2>0, <2>1, AppendSecond
    <2>3. AckFrame(s)' = AckFrame(s) /\ HeaderFrame(s)' = HeaderFrame(s)
      BY <2>0 DEF AckFrame, AckSize, LastByte, HeaderFrame
    <2>4. Opened(s)' /\ Framed(s)'
      BY <2>0, <2>2, <2>3 DEF Opened, Framed, Fresh
    <2> QED
      BY <1>0, <2>0, <2>4, GoesOn DEF Sending, Measured
  <1>5. ASSUME SendData(s) PROVE StreamInv(s)'
    <2>0. /\ phase[s] = "data" /\ request'[s] = request[s] /\ size'[s] = size[s]
          /\ buf'[s] = buf[s] /\ vouched'[s] = vouched[s] /\ held'[s] = NoFile
          /\ sent[s] = << AckFrame(s), HeaderFrame(s) >> /\ phase'[s] = "finish"
      BY <1>0, <1>5 DEF SendData, TypeOK, Framed, Opened
    <2>1. sent'[s] = Append(sent[s], DataFrame(s))
      BY <1>0, <1>5 DEF SendData, Send, Payload, DataFrame, TypeOK
    <2>2. sent'[s] = << AckFrame(s), HeaderFrame(s), DataFrame(s) >>
      BY <2>0, <2>1, AppendThird
    <2>3. /\ AckFrame(s)' = AckFrame(s) /\ HeaderFrame(s)' = HeaderFrame(s)
          /\ DataFrame(s)' = DataFrame(s)
      BY <2>0 DEF AckFrame, AckSize, LastByte, HeaderFrame, DataFrame
    <2>4. Opened(s)' /\ Framed(s)'
      BY <2>0, <2>2, <2>3 DEF Opened, Framed, Fresh
    <2> QED
      BY <1>0, <2>0, <2>4, GoesOn DEF Sending, Measured
  <1>6. ASSUME SendComplete(s) PROVE StreamInv(s)'
    <2>0. /\ phase[s] = "finish" /\ request'[s] = request[s] /\ size'[s] = size[s]
          /\ buf'[s] = buf[s] /\ vouched'[s] = vouched[s] /\ held'[s] = NoFile
          /\ sent[s] = << AckFrame(s), HeaderFrame(s), DataFrame(s) >>
          /\ phase'[s] = "done"
      BY <1>0, <1>6 DEF SendComplete, TypeOK, Framed, Opened
    <2>1. sent'[s] = Append(sent[s], LastFrame(s))
      BY <1>0, <1>6 DEF SendComplete, Send, LastFrame, TypeOK
    <2>2. sent'[s] = << AckFrame(s), HeaderFrame(s), DataFrame(s), LastFrame(s) >>
      BY <2>0, <2>1, AppendFourth
    <2>3. /\ AckFrame(s)' = AckFrame(s) /\ HeaderFrame(s)' = HeaderFrame(s)
          /\ DataFrame(s)' = DataFrame(s) /\ LastFrame(s)' = LastFrame(s)
      BY <2>0 DEF AckFrame, AckSize, LastByte, HeaderFrame, DataFrame, LastFrame
    <2>4. Opened(s)' /\ Framed(s)'
      BY <2>0, <2>2, <2>3 DEF Opened, Framed, Fresh
    <2> QED
      BY <1>0, <2>0, <2>4, GoesOn DEF Sending, Measured
  <1> QED
    BY <1>1, <1>2, <1>3, <1>4, <1>5, <1>6
-----------------------------------------------------------------------------
LEMMA Inductive == IndInv /\ [Next]_vars => IndInv'
  <1> SUFFICES ASSUME IndInv, [Next]_vars PROVE IndInv'
    OBVIOUS
  <1>1. CASE \/ \E p \in Peers : GraphChanges(p)
             \/ FileWritten \/ FileRemoved
             \/ \E s \in Streams : StopsReading(s)
    BY <1>1, TypesEnv, StreamsEnv DEF IndInv
  <1>2. ASSUME NEW s \in Streams, Arrive(s) \/ Handle(s) \/ Drop(s)
        PROVE  IndInv'
    <2>1. TypeOK'
      BY <1>2, TypesStream
    <2>2. \A t \in Streams : t # s => StreamInv(t)'
      BY <1>2, OtherStreams
    <2>3. StreamInv(s)'
      <3>1. CASE Drop(s)
        BY <3>1, Dropped DEF IndInv, TypeOK, Drop, Goto
      <3>2. CASE Arrive(s) \/ Handle(s)
        BY <3>2, Opening, StatKeeps, SendingKeeps DEF Handle
      <3> QED
        BY <1>2, <3>1, <3>2
    <2> QED
      BY <2>1, <2>2, <2>3 DEF IndInv
  <1>3. CASE UNCHANGED vars
    <2>1. TypeOK'
      BY <1>3 DEF IndInv, TypeOK, vars
    <2>2. ASSUME NEW s \in Streams PROVE StreamInv(s)'
      BY <1>3, Unmoved DEF IndInv, vars
    <2> QED
      BY <2>1, <2>2 DEF IndInv
  <1> QED
    BY <1>1, <1>2, <1>3 DEF Next

LEMMA Invariant == Spec => []IndInv
  BY InitInv, Inductive, PTL DEF Spec

\* What a stream carries: nothing, one message, or the frames of a transfer as
\* far as it came.
LEMMA Carried ==
    ASSUME IndInv, NEW s \in Streams
    PROVE  \/ sent[s] = << >>
           \/ \E t \in Single, n \in Nat : sent[s] = << Frame(t, n, << >>) >>
           \/ sent[s] = << AckFrame(s) >>
           \/ sent[s] = << AckFrame(s), HeaderFrame(s) >>
           \/ sent[s] = << AckFrame(s), HeaderFrame(s), DataFrame(s) >>
           \/ sent[s] = << AckFrame(s), HeaderFrame(s), DataFrame(s), LastFrame(s) >>
  <1>1. phase[s] \in {"done", "dropped", "open", "read", "header", "data", "finish"} \cup Fresh
    BY DEF IndInv, TypeOK, Active, Fresh
  <1> QED
    BY <1>1 DEF IndInv, StreamInv, Framed

\* Only a first frame tells whether the sender is trusted.
LEMMA LaterFrames ==
    ASSUME IndInv, NEW s \in Streams, NEW i \in DOMAIN sent[s], i # 1
    PROVE  sent[s][i].type \in {"header", "data", "complete"}
  <1> USE DEF AckFrame, HeaderFrame, DataFrame, LastFrame, Frame
  <1>1. CASE sent[s] = << >>
    BY <1>1
  <1>5. CASE sent[s] = << AckFrame(s) >>
    BY <1>5
  <1>6. CASE \E t \in Single, n \in Nat : sent[s] = << Frame(t, n, << >>) >>
    BY <1>6
  <1>2. CASE sent[s] = << AckFrame(s), HeaderFrame(s) >>
    BY <1>2
  <1>3. CASE sent[s] = << AckFrame(s), HeaderFrame(s), DataFrame(s) >>
    BY <1>3
  <1>4. CASE sent[s] = << AckFrame(s), HeaderFrame(s), DataFrame(s), LastFrame(s) >>
    BY <1>4
  <1> QED
    BY <1>1, <1>2, <1>3, <1>4, <1>5, <1>6, Carried

\* Every variable of the serving side keeps to its kind, whatever peers ask.
THEOREM TypeCorrect == Spec => []TypeOK
  <1>1. IndInv => TypeOK
    BY DEF IndInv
  <1> QED
    BY <1>1, Invariant, PTL

\* Nobody is told anything but under a path that existed since it asked, for
\* any number of streams and peers (the trust checks of all handlers).
THEOREM TrustNeeded == Spec => []ToldUnderTrust
  <1>1. ASSUME IndInv PROVE ToldUnderTrust
    <2> SUFFICES ASSUME NEW s \in Streams,
                        Told(s, "handshake") \/ Told(s, "info") \/ Told(s, "ack")
                 PROVE  TrustAll \/ vouched[s]
      BY DEF ToldUnderTrust
    <2>1. PICK i \in DOMAIN sent[s] : sent[s][i].type \in {"handshake", "info", "ack"}
      BY DEF Told
    <2>2. i = 1 /\ sent[s] # << >>
      BY <1>1, <2>1, LaterFrames
    <2> QED
      BY <1>1, <2>1, <2>2 DEF IndInv, StreamInv, Judged
  <1> QED
    BY <1>1, Invariant, PTL

\* What a stream carries is one message or the frames of one transfer in order;
\* the header speaks of the bytes that follow, which are no more than were
\* acknowledged, nor those more than asked for (_handle_transfer): for any
\* ranges, and whatever happens to the file meanwhile.
THEOREM Honest == Spec => []HonestReply
  <1>1. ASSUME IndInv PROVE HonestReply
    <2> SUFFICES ASSUME NEW s \in Streams
                 PROVE  LET f == sent[s] IN
                        /\ \/ Types(s) \in {<< t >> : t \in Single}
                           \/ Types(s) = SubSeq(<< "ack", "header", "data", "complete" >>,
                                                1, Len(f))
                        /\ phase[s] = "done" =>
                              Types(s) \in {<< t >> : t \in Single} \/ Len(f) = 4
                        /\ Told(s, "ack") =>
                              f[1].size \in 1..(request[s].hi - request[s].lo + 1)
                        /\ Len(f) >= 3 => /\ f[3].data = f[2].data
                                         /\ Len(f[3].data) = f[2].size
                                         /\ f[2].size <= f[1].size
                        /\ Len(f) = 4 => f[4].size = f[2].size
      BY DEF HonestReply
    <2>0. TypeOK /\ Measured(s) /\ Framed(s) /\ Len(buf[s]) \in Nat
      BY <1>1 DEF IndInv, StreamInv, TypeOK
    <2> DEFINE whole == << "ack", "header", "data", "complete" >>
    <2>1. ASSUME NEW t \in Single, NEW n \in Nat, sent[s] = << Frame(t, n, << >>) >>
          PROVE  /\ Types(s) \in {<< u >> : u \in Single}
                 /\ ~Told(s, "ack") /\ Len(sent[s]) = 1
      BY <2>1 DEF Types, Told, Frame, Single
    <2>2. ASSUME sent[s] # << >>, sent[s][1] = AckFrame(s)
          PROVE  sent[s][1].size \in 1..(request[s].hi - request[s].lo + 1)
                 /\ sent[s][1].size >= Len(buf[s])
      <3>1. sent[s][1].type = "ack" /\ sent[s][1].size = AckSize(s)
        BY <2>2 DEF AckFrame, Frame
      <3> QED
        BY <2>0, <2>2, <3>1, SizeFacts, RequestFacts DEF Measured
    <2>3. CASE sent[s] = << >>
      <3>1. Types(s) = SubSeq(whole, 1, Len(sent[s]))
        BY <2>3 DEF Types
      <3>2. phase[s] # "done"
        BY <2>0, <2>3 DEF Framed
      <3> QED
        BY <2>3, <3>1, <3>2 DEF Told
    <2>4. CASE sent[s] = << AckFrame(s) >>
      <3>1. Types(s) = SubSeq(whole, 1, Len(sent[s]))
        BY <2>4 DEF Types, AckFrame, Frame
      <3>2. phase[s] # "done"
        <4>1. sent[s][1].type = "ack" /\ Len(sent[s]) = 1
          BY <2>4 DEF AckFrame, Frame
        <4>2. \A t \in Single, n \in Nat :
                 sent[s] = << Frame(t, n, << >>) >> => sent[s][1].type = t
          BY DEF Frame
        <4> QED
          BY <2>0, <4>1, <4>2 DEF Framed, Single
      <3> QED
        BY <2>2, <2>4, <3>1, <3>2
    <2>5. CASE sent[s] = << AckFrame(s), HeaderFrame(s) >>
      <3>1. Types(s) = SubSeq(whole, 1, Len(sent[s]))
        BY <2>5 DEF Types, AckFrame, HeaderFrame, Frame
      <3>2. phase[s] # "done"
        BY <2>0, <2>5 DEF Framed
      <3> QED
        BY <2>2, <2>5, <3>1, <3>2
    <2>6. CASE sent[s] = << AckFrame(s), HeaderFrame(s), DataFrame(s) >>
      <3>1. Types(s) = SubSeq(whole, 1, Len(sent[s]))
        BY <2>6 DEF Types, AckFrame, HeaderFrame, DataFrame, Frame
      <3>2. phase[s] # "done"
        BY <2>0, <2>6 DEF Framed
      <3>3. /\ sent[s][3].data = buf[s] /\ sent[s][2].data = buf[s]
            /\ sent[s][2].size = Len(buf[s])
        BY <2>6 DEF HeaderFrame, DataFrame, Frame
      <3> QED
        BY <2>2, <2>6, <3>1, <3>2, <3>3
    <2>7. CASE sent[s] = << AckFrame(s), HeaderFrame(s), DataFrame(s), LastFrame(s) >>
      <3>1. Types(s) = SubSeq(whole, 1, Len(sent[s]))
        BY <2>7 DEF Types, AckFrame, HeaderFrame, DataFrame, LastFrame, Frame
      <3>3. /\ sent[s][3].data = buf[s] /\ sent[s][2].data = buf[s]
            /\ sent[s][2].size = Len(buf[s]) /\ sent[s][4].size = Len(buf[s])
        BY <2>7 DEF HeaderFrame, DataFrame, LastFrame, Frame
      <3> QED
        BY <2>2, <2>7, <3>1, <3>3
    <2> QED
      BY <1>1, <2>1, <2>3, <2>4, <2>5, <2>6, <2>7, Carried
  <1> QED
    BY <1>1, Invariant, PTL
-----------------------------------------------------------------------------
(* What a file nobody writes to is delivered as. *)

\* As long as the file is the one whose size was told, it is what is read, and
\* what was read are its bytes from the range's first on.
Steady(s) ==
    seen[s] # NoFile =>
        /\ phase[s] = "open" => disk = seen[s] /\ buf[s] = << >>
        /\ phase[s] = "read" => Reading(s) = seen[s]
        /\ phase[s] \in Sending => size[s] = Len(seen[s])
        /\ phase[s] \in Sending \/ Len(sent[s]) >= 3 =>
              \A i \in 1..Len(buf[s]) :
                  request[s].lo + i <= Len(seen[s]) /\ buf[s][i] = seen[s][request[s].lo + i]
        /\ phase[s] \in {"header", "data", "finish"} \/ Len(sent[s]) >= 3 =>
              Len(buf[s]) = AckSize(s)

SteadyInv == \A s \in Streams : Steady(s)

LEMMA SteadyUnmoved ==
    ASSUME NEW s \in Streams, Steady(s),
           phase'[s] = phase[s], request'[s] = request[s], size'[s] = size[s],
           buf'[s] = buf[s], held'[s] = held[s], sent'[s] = sent[s],
           seen'[s] = seen[s], disk' = disk
    PROVE  Steady(s)'
  BY DEF Steady, Reading, AckSize, LastByte

LEMMA SteadyEnv ==
    ASSUME IndInv, NEW s \in Streams, Steady(s),
           \/ \E p \in Peers : GraphChanges(p)
           \/ FileWritten \/ FileRemoved
           \/ \E t \in Streams : StopsReading(t)
    PROVE  Steady(s)'
  <1>1. ASSUME NEW p \in Peers, GraphChanges(p) PROVE Steady(s)'
    BY <1>1, SteadyUnmoved DEF GraphChanges
  <1>2. ASSUME FileWritten PROVE Steady(s)'
    <2>1. CASE held[s] = NoFile /\ phase[s] \in {"open", "read"} /\ disk' # disk
      BY <1>2, <2>1 DEF FileWritten, Steady
    <2>2. CASE disk' = disk
      <3>1. seen'[s] = seen[s]
        BY <1>2, <2>2 DEF FileWritten
      <3> QED
        BY <1>2, <2>2, <3>1, SteadyUnmoved DEF FileWritten
    <2>3. CASE held[s] # NoFile \/ phase[s] \notin {"open", "read"}
      <3>1. seen'[s] = seen[s]
        BY <1>2, <2>3 DEF FileWritten
      <3>2. phase[s] # "open"
        BY <2>3 DEF IndInv, StreamInv, Opened
      <3> QED
        BY <1>2, <2>3, <3>1, <3>2 DEF FileWritten, Steady, Reading, AckSize, LastByte
    <2> QED
      BY <2>1, <2>2, <2>3
  <1>3. ASSUME FileRemoved PROVE Steady(s)'
    <2>1. CASE phase[s] = "open"
      BY <1>3, <2>1 DEF FileRemoved, Steady
    <2>2. CASE phase[s] # "open"
      <3>1. seen'[s] = seen[s] /\ (phase[s] = "read" => Reading(s)' = Reading(s))
        BY <1>3, <2>2 DEF FileRemoved, Reading, IndInv, TypeOK
      <3> QED
        BY <1>3, <2>2, <3>1 DEF FileRemoved, Steady, AckSize, LastByte
    <2> QED
      BY <2>1, <2>2
  <1>4. ASSUME NEW t \in Streams, StopsReading(t) PROVE Steady(s)'
    BY <1>4, SteadyUnmoved DEF StopsReading
  <1> QED
    BY <1>1, <1>2, <1>3, <1>4

\* A step from before the acknowledgement sends at most one frame.
LEMMA FirstFrame ==
    ASSUME IndInv, NEW s \in Streams,
           Arrive(s) \/ Check(s) \/ Decide(s) \/ Exists(s) \/ Stat(s)
    PROVE  Len(sent'[s]) <= 1 /\ phase'[s] \notin Sending \ {"open"}
  <1>1. TypeOK /\ phase[s] \in Fresh /\ sent[s] = << >>
    BY DEF IndInv, StreamInv, Framed, Arrive, Check, Decide, Exists, Stat, Fresh
  <1>2. UNCHANGED sent \/ \E f : Send(s, f)
    BY DEF Arrive, Check, Decide, Exists, Stat
  <1>3. \A f : Len(Append(<< >>, f)) = 1
    OBVIOUS
  <1>4. Len(sent'[s]) <= 1
    <2>1. CASE UNCHANGED sent
      BY <1>1, <2>1, EmptyFacts
    <2>2. ASSUME NEW f, Send(s, f) PROVE Len(sent'[s]) <= 1
      <3>1. sent'[s] = Append(<< >>, f)
        BY <1>1, <2>2 DEF Send, TypeOK
      <3> QED
        BY <1>3, <3>1
    <2> QED
      BY <1>2, <2>1, <2>2
  <1>5. phase'[s] \notin Sending \ {"open"}
    <2>1. CASE Arrive(s)
      BY <1>1, <2>1, FirstPhase DEF Begins, Goto, Sending, TypeOK
    <2>2. CASE Check(s) \/ Decide(s) \/ Exists(s) \/ Stat(s)
      BY <1>1, <2>2 DEF Check, Decide, Exists, Stat, Goto, Sending, TypeOK
    <2> QED
      BY <2>1, <2>2
  <1> QED
    BY <1>4, <1>5

LEMMA SteadyStream ==
    ASSUME IndInv, NEW s \in Streams, Arrive(s) \/ Handle(s) \/ Drop(s), Steady(s)
    PROVE  Steady(s)'
  <1> USE DEF Goto, envVars
  <1>0. TypeOK /\ Judged(s) /\ Measured(s) /\ Opened(s) /\ Framed(s) /\ Len(buf[s]) \in Nat
    BY DEF IndInv, StreamInv, TypeOK
  <1>1. ASSUME Arrive(s) \/ Check(s) \/ Decide(s) \/ Exists(s) \/ Stat(s) PROVE Steady(s)'
    <2>1. CASE phase'[s] = "open"
      <3>1. Stat(s)
        BY <1>0, <1>1, <2>1, FirstPhase
        DEF Begins, Check, Decide, Exists, TypeOK
      <3>2. buf'[s] = << >> /\ disk' = disk /\ seen'[s] = disk /\ size'[s] = Len(disk)
        BY <1>0, <2>1, <3>1 DEF Stat, TypeOK, Measured, Fresh
      <3> QED
        BY <1>1, <2>1, <3>2, FirstFrame, EmptyFacts DEF Steady, Sending
    <2>2. CASE phase'[s] # "open"
      BY <1>1, <2>2, FirstFrame DEF Steady, Sending
    <2> QED
      BY <2>1, <2>2
  <1>2. ASSUME Open(s) PROVE Steady(s)'
    <2>1. /\ phase[s] = "open" /\ phase'[s] \in {"read", "dropped"} /\ seen' = seen
          /\ request' = request /\ size' = size /\ buf' = buf /\ sent' = sent
          /\ held'[s] = NoFile /\ disk' = disk
      BY <1>0, <1>2 DEF Open, TypeOK, Opened
    <2>2. Len(sent[s]) = 1
      <3>1. sent[s] = << AckFrame(s) >>
        BY <1>0, <2>1 DEF Framed
      <3> QED
        BY <3>1
    <2> QED
      BY <2>1, <2>2 DEF Steady, Reading, Sending
  <1>3. ASSUME Read(s) PROVE Steady(s)'
    <2> SUFFICES ASSUME seen'[s] # NoFile PROVE Steady(s)'
      BY DEF Steady
    <2>1. /\ phase[s] = "read" /\ phase'[s] = "read" /\ seen' = seen /\ request' = request
          /\ size' = size /\ sent' = sent /\ held' = held /\ disk' = disk
          /\ NextByte(s) < Len(Reading(s))
          /\ buf'[s] = Append(buf[s], Reading(s)[NextByte(s) + 1])
      BY <1>0, <1>3 DEF Read, TypeOK
    <2>2. Reading(s) = seen[s] /\ Reading(s)' = Reading(s) /\ size[s] = Len(seen[s])
      BY <2>1 DEF Steady, Reading, Sending
    <2>3. Len(sent[s]) = 1
      <3>1. sent[s] = << AckFrame(s) >>
        BY <1>0, <2>1 DEF Framed
      <3> QED
        BY <3>1
    <2>4. request[s].lo \in Nat /\ Len(seen[s]) \in Nat
      BY <1>0, <2>1, <2>2 DEF Measured, Sending, TypeOK
    <2>5. ASSUME NEW i \in 1..Len(buf'[s])
          PROVE  request[s].lo + i <= Len(seen[s]) /\ buf'[s][i] = seen[s][request[s].lo + i]
      <3>1. CASE i \in 1..Len(buf[s])
        BY <1>0, <2>1, <3>1 DEF Steady, Sending, TypeOK
      <3>2. CASE i = Len(buf[s]) + 1
        BY <1>0, <2>1, <2>2, <2>4, <3>2 DEF NextByte, TypeOK
      <3> QED
        BY <1>0, <2>1, <3>1, <3>2 DEF TypeOK
    <2> QED
      BY <2>1, <2>2, <2>3, <2>5 DEF Steady
  <1>4. ASSUME ReadEnds(s) PROVE Steady(s)'
    <2> SUFFICES ASSUME seen'[s] # NoFile PROVE Steady(s)'
      BY DEF Steady
    <2>1. /\ phase[s] = "read" /\ phase'[s] = "header" /\ seen' = seen /\ request' = request
          /\ size' = size /\ sent' = sent /\ buf' = buf /\ AtEnd(s)
      BY <1>0, <1>4 DEF ReadEnds, TypeOK
    <2>2. Reading(s) = seen[s] /\ size[s] = Len(seen[s])
      BY <2>1 DEF Steady, Sending
    <2>3. /\ request[s] \in Requests /\ request[s].lo \in Int /\ request[s].hi \in Int
          /\ size[s] \in Nat
      BY <1>0, <2>1, RequestFacts DEF Judged, Active, TypeOK
    <2>4. Len(buf[s]) >= AckSize(s)
      <3>1. CASE NextByte(s) > LastByte(s, size[s])
        BY <1>0, <2>3, <3>1 DEF NextByte, AckSize, LastByte, Lesser
      <3>2. CASE NextByte(s) >= Len(Reading(s))
        <4>1. request[s].lo + Len(buf[s]) >= size[s]
          BY <2>2, <3>2 DEF NextByte
        <4> QED
          BY <1>0, <2>3, <4>1 DEF AckSize, LastByte, Lesser
      <3> QED
        BY <2>1, <3>1, <3>2 DEF AtEnd
    <2>5. Len(buf[s]) = AckSize(s)
      BY <1>0, <2>1, <2>3, <2>4, SizeFacts DEF Measured, Sending
    <2>6. AckSize(s)' = AckSize(s)
      BY <2>1 DEF AckSize, LastByte
    <2> QED
      BY <2>1, <2>5, <2>6 DEF Steady, Sending
  <1>5. ASSUME SendHeader(s) \/ SendData(s) \/ SendComplete(s) PROVE Steady(s)'
    <2>1. /\ phase[s] \in {"header", "data", "finish"} /\ seen' = seen /\ request' = request
          /\ size' = size /\ buf' = buf
          /\ phase'[s] \in {"data", "finish", "done"}
      BY <1>0, <1>5 DEF SendHeader, SendData, SendComplete, TypeOK
    <2>2. AckSize(s)' = AckSize(s)
      BY <2>1 DEF AckSize, LastByte
    <2> QED
      BY <2>1, <2>2 DEF Steady, Sending
  <1>6. ASSUME Drop(s) PROVE Steady(s)'
    <2>1. /\ phase'[s] = "dropped" /\ seen' = seen /\ request' = request
          /\ size' = size /\ buf' = buf /\ sent' = sent
      BY <1>0, <1>6 DEF Drop, TypeOK
    <2>2. AckSize(s)' = AckSize(s)
      BY <2>1 DEF AckSize, LastByte
    <2> QED
      BY <2>1, <2>2 DEF Steady, Sending
  <1> QED
    BY <1>1, <1>2, <1>3, <1>4, <1>5, <1>6 DEF Handle

LEMMA SteadyInductive == IndInv /\ SteadyInv /\ [Next]_vars => SteadyInv'
  <1> SUFFICES ASSUME IndInv, SteadyInv, [Next]_vars, NEW t \in Streams PROVE Steady(t)'
    BY DEF SteadyInv
  <1>0. Steady(t)
    BY DEF SteadyInv
  <1>1. CASE \/ \E p \in Peers : GraphChanges(p)
             \/ FileWritten \/ FileRemoved
             \/ \E s \in Streams : StopsReading(s)
    BY <1>0, <1>1, SteadyEnv
  <1>2. ASSUME NEW s \in Streams, Arrive(s) \/ Handle(s) \/ Drop(s)
        PROVE  Steady(t)'
    <2>1. CASE t = s
      BY <1>0, <1>2, <2>1, SteadyStream
    <2>2. CASE t # s
      <3>1. /\ phase'[t] = phase[t] /\ request'[t] = request[t] /\ size'[t] = size[t]
            /\ buf'[t] = buf[t] /\ held'[t] = held[t] /\ seen'[t] = seen[t] /\ disk' = disk
        BY <1>2, <2>2
        DEF IndInv, TypeOK, Arrive, Handle, Drop, Check, Decide, Exists, Stat, Open, Read,
            ReadEnds, SendHeader, SendData, SendComplete, Goto, envVars, Send
      <3>2. sent'[t] = sent[t]
        BY <1>2, <2>2
        DEF IndInv, TypeOK, Arrive, Handle, Drop, Check, Decide, Exists, Stat, Open, Read,
            ReadEnds, SendHeader, SendData, SendComplete, Goto, envVars, Send
      <3> QED
        BY <1>0, <3>1, <3>2, SteadyUnmoved
    <2> QED
      BY <2>1, <2>2
  <1>3. CASE UNCHANGED vars
    BY <1>0, <1>3, SteadyUnmoved DEF vars
  <1> QED
    BY <1>1, <1>2, <1>3 DEF Next

\* A transfer of a file nobody writes to delivers exactly the bytes that were
\* acknowledged, even if the file is unlinked meanwhile (_handle_transfer,
\* read_range): for any range and any size.
THEOREM Faithful == Spec => []FaithfulWhenSteady
  <1>1. Init => SteadyInv
    BY DEF Init, SteadyInv, Steady
  <1>2. ASSUME IndInv, SteadyInv PROVE FaithfulWhenSteady
    <2> SUFFICES ASSUME NEW s \in Streams, Len(sent[s]) >= 3, seen[s] # NoFile
                 PROVE  /\ Len(sent[s][3].data) = sent[s][1].size
                        /\ sent[s][3].data =
                             SubSeq(seen[s], request[s].lo + 1,
                                    request[s].lo + sent[s][1].size)
      BY DEF FaithfulWhenSteady
    <2>1. Len(buf[s]) = AckSize(s) /\ buf[s] \in Seq(Cell) /\ Len(buf[s]) \in Nat
      BY <1>2 DEF SteadyInv, Steady, IndInv, TypeOK
    <2>2. sent[s][1] = AckFrame(s) /\ sent[s][3] = DataFrame(s)
      BY <1>2, Carried
    <2>3. sent[s][1].size = Len(buf[s]) /\ sent[s][3].data = buf[s]
      BY <2>1, <2>2 DEF AckFrame, DataFrame, Frame
    <2>4. \A i \in 1..Len(buf[s]) : buf[s][i] = seen[s][request[s].lo + i]
      BY <1>2 DEF SteadyInv, Steady
    <2>5. request[s].lo \in Nat /\ AckSize(s) >= 1
      <3>1. sent[s] # << >> /\ sent[s][1].type = "ack"
        BY <2>2 DEF AckFrame, Frame
      <3> QED
        BY <1>2, <3>1 DEF IndInv, StreamInv, Measured
    <2>6. buf[s] = SubSeq(seen[s], request[s].lo + 1, request[s].lo + Len(buf[s]))
      <3>1. seen[s] \in Seq(Cell) /\ Len(seen[s]) \in Nat
        BY <1>2, FileFacts DEF IndInv, TypeOK
      <3> DEFINE n == Len(buf[s])
                 lo == request[s].lo
                 sub == SubSeq(seen[s], lo + 1, lo + n)
      <3>2. lo + n <= Len(seen[s])
        <4>1. n >= 1
          BY <2>1, <2>5
        <4>2. n \in 1..n
          BY <2>1, <4>1
        <4> QED
          BY <1>2, <4>2 DEF SteadyInv, Steady
      <3>3. sub = [i \in 1..n |-> seen[s][lo + i]]
        <4> HIDE DEF n, lo
        <4>1. n \in Nat /\ lo \in Nat
          BY <2>1, <2>5 DEF n, lo
        <4> QED
          BY <3>1, <3>2, <4>1, PartOf
      <3>4. buf[s] = [i \in 1..n |-> buf[s][i]]
        BY <2>1
      <3> QED
        BY <2>4, <3>3, <3>4
    <2> QED
      BY <2>3, <2>6
  <1> QED
    BY <1>1, <1>2, SteadyInductive, Invariant, InitInv, PTL DEF Spec
=============================================================================
