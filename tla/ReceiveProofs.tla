--------------------------- MODULE ReceiveProofs ---------------------------
(***************************************************************************)
(* What receive.py can rely on, for any number of downloads and any sizes. *)
(*                                                                         *)
(* The command only looks at the agent and its file, so the agent is still *)
(* the one Downloader describes, and all that was proved of it holds here. *)
(* A run that copies is one whose download is complete; while no other     *)
(* download changes the file, the file it has opened is the one at the     *)
(* path, that one is the requested file, and what is copied is its start,  *)
(* if no reply was longer than its request.                                *)
(***************************************************************************)
EXTENDS Receive, DownloaderProofs

\* The agent keeps to its own specification, whatever runs of the command look
\* on and whenever it ends (main, poll_download).
THEOREM AgentAsBefore == ReceiveSpec => Spec
  <1>1. ReceiveInit => Init
    BY DEF ReceiveInit
  <1>2. [ReceiveNext]_receiveVars => [Next]_vars
    <2> SUFFICES ASSUME [ReceiveNext]_receiveVars PROVE [Next]_vars
      OBVIOUS
    <2>1. CASE Agent
      BY <2>1 DEF Agent, Next
    <2>2. CASE AgentEnds
      BY <2>2 DEF AgentEnds, Next
    <2>3. ASSUME NEW d \in Downloads, Post(d) PROVE Next
      BY <2>3 DEF Post, Next
    <2>4. ASSUME NEW d \in Downloads, Client(d) \/ PollFails(d) \/ CopyFails(d)
          PROVE  UNCHANGED vars
      BY <2>4 DEF Client, Poll, Export, CopyCell, CopyEnds, PollFails, CopyFails
    <2>5. CASE UNCHANGED receiveVars
      BY <2>5 DEF receiveVars
    <2> QED
      BY <2>1, <2>2, <2>3, <2>4, <2>5 DEF ReceiveNext
  <1> QED
    BY <1>1, <1>2, PTL DEF ReceiveSpec, Spec

-----------------------------------------------------------------------------
\* Every variable of the command holds a value of its kind, and a run that
\* copies, and no other, has a file to copy from and one to copy to.
ClientTypes ==
    /\ client \in [Downloads -> {"none"} \cup Waiting \cup Returned]
    /\ source \in [Downloads -> Seq(Cell) \cup {NoFile}]
    /\ saved \in [Downloads -> Seq(Cell) \cup {NoFile}]
    /\ \A d \in Downloads :
          /\ client[d] = "copy" => Source(d) # NoFile /\ saved[d] # NoFile
          /\ client[d] # "copy" => source[d] = NoFile

\* Nobody has touched the file of d but d, with replies to the point.
Clean(d) == ~shared[d] /\ surplus[d] = 0

\* What a run may count on: its download is complete, and what it has copied so
\* far is the start of the requested file.
CopyInv ==
    \A d \in Downloads :
        /\ client[d] \in {"export", "copy", "saved"} => pc[d] = "complete"
        /\ client[d] = "copy" /\ Clean(d) =>
             /\ source[d] = NoFile
             /\ Len(saved[d]) <= TrueSize
             /\ \A k \in 1..Len(saved[d]) : saved[d][k] = "right"
        /\ client[d] = "saved" /\ Clean(d) => saved[d] = TrueFile

\* Nothing takes a completed download out of its state, or makes it forget that
\* another one has changed its file, or what it wrote beyond its requests.
LEMMA CompleteStays ==
    ASSUME TypeOK, [Next]_vars, NEW d \in Downloads, pc[d] = "complete"
    PROVE  /\ pc'[d] = "complete"
           /\ Clean(d)' => Clean(d)
  <1> USE DEF TypeOK, fileVars, blameVars, readVars, Clean
  <1>1. ASSUME NEW e \in Downloads,
               \/ Start(e) \/ Run(e) \/ GetPeers(e) \/ HandshakeAll(e)
               \/ FetchFileInfo(e) \/ Assess(e) \/ OpenReader(e)
               \/ ReadFails(e) \/ FinishHash(e) \/ DeleteFails(e)
        PROVE  pc'[d] = "complete" /\ UNCHANGED << shared, surplus >>
    BY <1>1 DEF Start, Run, GetPeers, HandshakeAll, FetchFileInfo, Assess, OpenReader,
                ReadFails, FinishHash, DeleteFails, Goto
  <1>2. ASSUME NEW e \in Downloads, NEW i \in Slots,
               FetchOk(e, i) \/ FetchFails(e, i) \/ FetchMismatch(e, i) \/ Blame(e, i)
        PROVE  UNCHANGED << pc, shared, surplus >>
    BY <1>2 DEF FetchOk, FetchFails, FetchMismatch, Blame
  <1>3. ASSUME NEW e \in Downloads, NEW i \in Slots, WriteChunk(e, i) \/ WriteFails(e, i)
        PROVE  pc' = pc /\ (Clean(d)' => Clean(d))
    <2>1. e # d
      BY <1>3 DEF WriteChunk, WriteFails
    <2> QED
      BY <1>3, <2>1 DEF WriteChunk, WriteFails, Store
  <1>4. ASSUME NEW e \in Downloads, Preallocate(e) \/ PreallocateFails(e) \/ Delete(e)
        PROVE  pc'[d] = "complete" /\ (Clean(d)' => Clean(d))
    <2>1. e # d
      BY <1>4 DEF Preallocate, PreallocateFails, Delete
    <2> QED
      BY <1>4, <2>1 DEF Preallocate, PreallocateFails, Delete, Store, StoreAnew, Goto,
                        GotoAfresh
  <1>5. ASSUME NEW e \in Downloads, ReadCell(e) PROVE UNCHANGED << pc, shared, surplus >>
    BY <1>5 DEF ReadCell
  <1>6. CASE Stop
    BY <1>6 DEF Stop, Early, OnFile
  <1>7. CASE UNCHANGED vars
    BY <1>7 DEF vars
  <1> QED
    BY <1>1, <1>2, <1>3, <1>4, <1>5, <1>6, <1>7 DEF Next, Step

\* Nobody is told anything new by the agent's steps; a file that is unlinked
\* lives on under the handle of who copies it.
LEMMA ClientFrame ==
    ASSUME ClientTypes, TypeOK, TypeOK',
           UNCHANGED << client, saved >>, KeepSource \/ (UNCHANGED source /\ disk' = disk)
    PROVE  ClientTypes'
  <1>1. source' \in [Downloads -> Seq(Cell) \cup {NoFile}]
    BY DEF ClientTypes, TypeOK, KeepSource
  <1>2. ASSUME NEW d \in Downloads, client[d] = "copy" PROVE Source(d)' # NoFile
    BY <1>2 DEF ClientTypes, KeepSource, Source
  <1>3. ASSUME NEW d \in Downloads, client[d] # "copy" PROVE source'[d] = NoFile
    BY <1>3 DEF ClientTypes, KeepSource
  <1> QED
    BY <1>1, <1>2, <1>3 DEF ClientTypes

\* Whatever happens, the variables of the command keep their kinds.
LEMMA ClientStep ==
    ASSUME ClientTypes, CopyInv, TypeOK, TypeOK', [ReceiveNext]_receiveVars
    PROVE  ClientTypes'
  <1>1. CASE Agent
    BY <1>1, ClientFrame DEF Agent
  <1>2. CASE AgentEnds
    <2>1. UNCHANGED << client, saved, source, disk >>
      BY <1>2 DEF AgentEnds, Stop, vars, clientVars
    <2> QED
      BY <2>1, ClientFrame
  <1>3. ASSUME NEW d \in Downloads, Post(d) PROVE ClientTypes'
    <2>1. UNCHANGED << disk, source, saved >> /\ client' = [client EXCEPT ![d] = "poll"]
      BY <1>3 DEF Post, Turn, Start, fileVars
    <2>2. client[d] # "copy"
      BY <1>3 DEF Post, Start, CopyInv
    <2> QED
      BY <2>1, <2>2 DEF ClientTypes, Source, Waiting
  <1>4. ASSUME NEW d \in Downloads, Poll(d) \/ PollFails(d) PROVE ClientTypes'
    <2>1. UNCHANGED << disk, source, saved >> /\ client[d] = "poll"
      BY <1>4 DEF Poll, PollFails, vars
    <2>2. \E st \in {"export", "told", "failed", "poll", "cutoff"} :
             client' = [client EXCEPT ![d] = st]
      BY <1>4 DEF Poll, PollFails, Turn, Heard
    <2> QED
      BY <2>1, <2>2 DEF ClientTypes, Source, Waiting, Returned
  <1>5. ASSUME NEW d \in Downloads, Export(d) PROVE ClientTypes'
    <2>1. UNCHANGED << disk, source >>
      BY <1>5 DEF Export, vars
    <2>2. CASE disk = NoFile
      BY <1>5, <2>1, <2>2 DEF Export, Turn, ClientTypes, Source, Waiting, Returned
    <2>3. CASE disk # NoFile
      <3>1. /\ saved' = [saved EXCEPT ![d] = << >>]
            /\ client' = [client EXCEPT ![d] = "copy"]
        BY <1>5, <2>3 DEF Export, Turn
      <3>2. << >> \in Seq(Cell) /\ << >> # NoFile
        BY EmptySeq, StorageAssumption
      <3> QED
        BY <2>1, <2>3, <3>1, <3>2 DEF ClientTypes, Source, Waiting
    <2> QED
      BY <2>2, <2>3
  <1>6. ASSUME NEW d \in Downloads, CopyCell(d) PROVE ClientTypes'
    <2>1. /\ UNCHANGED << disk, source, client >> /\ client[d] = "copy"
          /\ Len(saved[d]) < Len(Source(d))
          /\ saved' = [saved EXCEPT ![d] = Append(@, Source(d)[Len(@) + 1])]
      BY <1>6 DEF CopyCell, vars
    <2>2. saved[d] \in Seq(Cell) /\ Source(d) \in Seq(Cell)
      BY <2>1 DEF ClientTypes, Source, TypeOK
    <2>3. Append(saved[d], Source(d)[Len(saved[d]) + 1]) \in Seq(Cell)
      BY <2>1, <2>2, ElementOfSeq, AppendProperties, LenProperties
    <2> QED
      BY <2>1, <2>3, StorageAssumption DEF ClientTypes, Source
  <1>7. ASSUME NEW d \in Downloads, CopyEnds(d) \/ CopyFails(d) PROVE ClientTypes'
    <2>1. /\ UNCHANGED << disk, saved >>
          /\ source' = [source EXCEPT ![d] = NoFile]
          /\ \E st \in {"saved", "told"} : client' = [client EXCEPT ![d] = st]
      BY <1>7 DEF CopyEnds, CopyFails, Turn, vars
    <2> QED
      BY <2>1 DEF ClientTypes, Source, Returned
  <1>8. CASE UNCHANGED receiveVars
    BY <1>8 DEF receiveVars, vars, clientVars, ClientTypes, Source
  <1> QED
    BY <1>1, <1>2, <1>3, <1>4, <1>5, <1>6, <1>7, <1>8 DEF ReceiveNext, Client

\* A step of the agent alone: a copy that is under way reads on in its file,
\* which is unlinked only by another download.
LEMMA CopyFrame ==
    ASSUME CopyInv, TypeOK, CompleteIsStored', [Next]_vars,
           UNCHANGED << client, saved >>, KeepSource \/ UNCHANGED source
    PROVE  CopyInv'
  <1>1. ASSUME NEW d \in Downloads, client[d] \in {"export", "copy", "saved"}
        PROVE  pc'[d] = "complete" /\ (Clean(d)' => Clean(d))
    BY <1>1, CompleteStays DEF CopyInv
  <1>2. ASSUME NEW d \in Downloads, client[d] = "copy", Clean(d)'
        PROVE  source'[d] = source[d]
    <2>1. disk' = TrueFile
      BY <1>1, <1>2 DEF CompleteIsStored, Clean
    <2>2. disk' # NoFile
      BY <2>1, TrueFileType, StorageAssumption
    <2> QED
      BY <2>2 DEF KeepSource
  <1> QED
    BY <1>1, <1>2 DEF CopyInv

LEMMA CopyStep ==
    ASSUME CopyInv, ClientTypes, TypeOK, CompleteIsStored, CompleteIsStored',
           [ReceiveNext]_receiveVars, [Next]_vars
    PROVE  CopyInv'
  <1>1. CASE Agent
    BY <1>1, CopyFrame DEF Agent
  <1>2. CASE AgentEnds
    BY <1>2, CopyFrame DEF AgentEnds, clientVars
  <1>3. ASSUME NEW d \in Downloads, Post(d) PROVE CopyInv'
    <2>1. /\ UNCHANGED << source, saved, shared, surplus >> /\ pc[d] = "idle"
          /\ client' = [client EXCEPT ![d] = "poll"]
      BY <1>3 DEF Post, Turn, Start, fileVars
    <2>2. \A e \in Downloads : e # d => pc'[e] = pc[e]
      BY <1>3 DEF Post, Start, Goto, TypeOK
    <2> QED
      BY <2>1, <2>2 DEF CopyInv, Clean, ClientTypes
  <1>4. ASSUME NEW d \in Downloads, Poll(d) \/ PollFails(d) PROVE CopyInv'
    <2>1. UNCHANGED << pc, shared, surplus, source, saved >>
      BY <1>4 DEF Poll, PollFails, vars
    <2>2. \E st \in {"export", "told", "failed", "poll", "cutoff"} :
             /\ client' = [client EXCEPT ![d] = st]
             /\ st = "export" => pc[d] = "complete"
      <3>1. CASE Poll(d)
        <4>1. PICK st \in Heard(d) : client' = [client EXCEPT ![d] = st]
          BY <3>1 DEF Poll, Turn
        <4>2. st \in {"export", "told", "failed", "poll"}
          BY <4>1 DEF Heard
        <4>3. st = "export" => Status(d) = "complete"
          BY <4>1 DEF Heard
        <4>4. Status(d) = "complete" => pc[d] = "complete"
          BY DEF Status
        <4> QED
          BY <4>1, <4>2, <4>3, <4>4
      <3>2. CASE PollFails(d)
        BY <3>2 DEF PollFails, Turn
      <3> QED
        BY <1>4, <3>1, <3>2
    <2> QED
      BY <2>1, <2>2 DEF CopyInv, Clean, ClientTypes
  <1>5. ASSUME NEW d \in Downloads, Export(d) PROVE CopyInv'
    <2>1. UNCHANGED << disk, pc, shared, surplus, source >> /\ client[d] = "export"
      BY <1>5 DEF Export, vars
    <2>2. CASE disk = NoFile
      <3>1. client' = [client EXCEPT ![d] = "told"] /\ UNCHANGED saved
        BY <1>5, <2>2 DEF Export, Turn
      <3> QED
        BY <2>1, <3>1 DEF CopyInv, Clean, ClientTypes
    <2>3. CASE disk # NoFile
      <3>1. /\ client' = [client EXCEPT ![d] = "copy"]
            /\ saved' = [saved EXCEPT ![d] = << >>]
        BY <1>5, <2>3 DEF Export, Turn
      <3>2. client'[d] = "copy" /\ saved'[d] = << >> /\ Len(saved'[d]) = 0
        BY <3>1, LenProperties, EmptySeq DEF ClientTypes
      <3>3. source[d] = NoFile
        BY <2>1 DEF ClientTypes
      <3>4. \A e \in Downloads : e # d => client'[e] = client[e] /\ saved'[e] = saved[e]
        BY <3>1 DEF ClientTypes
      <3> QED
        BY <2>1, <3>2, <3>3, <3>4, StorageAssumption DEF CopyInv, Clean
    <2> QED
      BY <2>2, <2>3
  <1>6. ASSUME NEW d \in Downloads, CopyCell(d) PROVE CopyInv'
    <2>1. /\ UNCHANGED << disk, pc, shared, surplus, source, client >> /\ client[d] = "copy"
          /\ Len(saved[d]) < Len(Source(d))
          /\ saved' = [saved EXCEPT ![d] = Append(@, Source(d)[Len(@) + 1])]
      BY <1>6 DEF CopyCell, vars
    <2>2. saved[d] \in Seq(Cell) /\ Len(saved[d]) \in Nat
      BY <2>1, LenProperties DEF ClientTypes
    <2>3. /\ \A e \in Downloads : e # d => saved'[e] = saved[e]
          /\ saved'[d] = Append(saved[d], Source(d)[Len(saved[d]) + 1])
      BY <2>1 DEF ClientTypes
    <2>4. ASSUME Clean(d)
          PROVE  /\ Len(saved'[d]) <= TrueSize
                 /\ \A k \in 1..Len(saved'[d]) : saved'[d][k] = "right"
      <3>1. Source(d) = TrueFile
        BY <2>1, <2>4 DEF CopyInv, CompleteIsStored, Clean, Source
      <3>2. Len(saved[d]) < TrueSize
        BY <2>1, <3>1, TrueFileType
      <3>3. Source(d)[Len(saved[d]) + 1] = "right"
        BY <2>2, <3>1, <3>2, StorageAssumption DEF TrueFile
      <3>4. saved'[d] = Append(saved[d], "right") /\ "right" \in Cell
        BY <2>3, <3>3 DEF Cell
      <3>5. /\ Len(saved'[d]) = Len(saved[d]) + 1
            /\ saved'[d][Len(saved[d]) + 1] = "right"
            /\ \A k \in 1..Len(saved[d]) : saved'[d][k] = saved[d][k]
        BY <2>2, <3>4, AppendProperties
      <3>6. \A k \in 1..Len(saved[d]) : saved[d][k] = "right"
        BY <2>1, <2>4 DEF CopyInv, Clean
      <3> QED
        BY <2>2, <3>2, <3>5, <3>6, StorageAssumption
    <2> QED
      BY <2>1, <2>3, <2>4 DEF CopyInv, Clean
  <1>7. ASSUME NEW d \in Downloads, CopyEnds(d) PROVE CopyInv'
    <2>1. /\ UNCHANGED << disk, pc, shared, surplus, saved >> /\ client[d] = "copy"
          /\ Len(saved[d]) >= Len(Source(d))
          /\ client' = [client EXCEPT ![d] = "saved"]
          /\ source' = [source EXCEPT ![d] = NoFile]
      BY <1>7 DEF CopyEnds, Copied, Turn, vars
    <2>2. ASSUME Clean(d) PROVE saved[d] = TrueFile
      <3>1. Source(d) = TrueFile /\ Len(TrueFile) = TrueSize
        BY <2>1, <2>2, TrueFileType DEF CopyInv, CompleteIsStored, Clean, Source
      <3>2. /\ saved[d] \in Seq(Cell) /\ Len(saved[d]) <= TrueSize
            /\ \A k \in 1..Len(saved[d]) : saved[d][k] = "right"
        BY <2>1, <2>2 DEF CopyInv, Clean, ClientTypes
      <3>3. Len(saved[d]) = TrueSize
        BY <2>1, <3>1, <3>2, LenProperties, StorageAssumption
      <3>4. \A k \in 1..TrueSize : saved[d][k] = TrueFile[k]
        BY <3>2, <3>3 DEF TrueFile
      <3> QED
        BY <3>1, <3>2, <3>3, <3>4, TrueFileType, SeqEqual
    <2> QED
      BY <2>1, <2>2 DEF CopyInv, Clean, ClientTypes
  <1>8. ASSUME NEW d \in Downloads, CopyFails(d) PROVE CopyInv'
    <2>1. /\ UNCHANGED << pc, shared, surplus, saved >>
          /\ client' = [client EXCEPT ![d] = "told"]
          /\ source' = [source EXCEPT ![d] = NoFile]
      BY <1>8 DEF CopyFails, Turn, vars
    <2> QED
      BY <2>1 DEF CopyInv, Clean, ClientTypes
  <1>9. CASE UNCHANGED receiveVars
    BY <1>9 DEF receiveVars, vars, clientVars, CopyInv, Clean
  <1> QED
    BY <1>1, <1>2, <1>3, <1>4, <1>5, <1>6, <1>7, <1>8, <1>9 DEF ReceiveNext, Client

\* The copy that receive.py says it has saved is the requested file, however
\* long after the agent's answer it is taken and whatever the agent does
\* meanwhile, unless another download has changed the file since this one
\* began it, or one of its peers has sent more than it was asked for; for any
\* number of downloads and peers (main, _run_download).
THEOREM SavedRequested == ReceiveSpec => []SavedIsRequested
  <1>1. ReceiveInit => CopyInv /\ ClientTypes
    BY DEF ReceiveInit, CopyInv, ClientTypes
  <1>2. /\ ClientTypes /\ CopyInv /\ TypeOK /\ TypeOK' /\ [ReceiveNext]_receiveVars
        => ClientTypes'
    BY ClientStep
  <1>3. /\ CopyInv /\ ClientTypes /\ TypeOK /\ CompleteIsStored /\ CompleteIsStored'
        /\ [ReceiveNext]_receiveVars /\ [Next]_vars
        => CopyInv'
    BY CopyStep
  <1>4. CopyInv => SavedIsRequested
    BY DEF CopyInv, SavedIsRequested, Clean
  <1>5. Spec => []TypeOK /\ []CompleteIsStored
    BY TypeCorrect, CompleteStored, PTL
  <1>6. ReceiveSpec => Spec
    BY AgentAsBefore
  <1> QED
    BY <1>1, <1>2, <1>3, <1>4, <1>5, <1>6, PTL DEF ReceiveSpec, Spec
=============================================================================
