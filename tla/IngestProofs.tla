---------------------------- MODULE IngestProofs ----------------------------
(***************************************************************************)
(* Theorems about agent and tools over one path, for any number of         *)
(* downloads and runs of the tool, any sizes and any division.             *)
(*                                                                         *)
(* The tools change the file under the agent, so its specification is not  *)
(* kept; but its inductive invariant is, because whoever changes the file  *)
(* is noted in the history of every download that may have to do with it.  *)
(* The same history, kept for the tools, carries what a run has copied.    *)
(* For a half-written file the invariant names one who answers for it      *)
(* whatever the others do: a download as in DownloaderProofs, a tool that  *)
(* gave up, was cut off or copies from a source that has been edited, or   *)
(* one that will make the file right: it has copied a right start of it,   *)
(* and nothing stands beyond the end.  Only this needs peers that send no  *)
(* more than they are asked for.                                           *)
(***************************************************************************)
EXTENDS Ingest, DownloaderProofs

Stages == {"hash", "look", "open", "copy", "undo", "meta", "ready", "failed",
           "interrupted", "superseded"}

\* The variables of the tools hold values of their kinds, and a run that copies
\* to the path has a file there.
ToolTypes ==
    /\ tool \in [Uploads -> Stages]
    /\ upos \in [Uploads -> 0..TrueSize]
    /\ changed \in [Uploads -> BOOLEAN]
    /\ apart \in [Uploads -> BOOLEAN]
    /\ copied \in [Uploads -> BOOLEAN]
    /\ spoiled \in [Uploads -> BOOLEAN]
    /\ \A u \in Uploads : tool[u] = "copy" /\ ~apart[u] => disk # NoFile

\* The file at the path begins as u has copied it.
StartsRight(u) ==
    /\ upos[u] <= Len(disk) /\ Len(disk) <= TrueSize
    /\ \A k \in 1..upos[u] : disk[k] = "right"

\* What a run knows of the file when nobody has meddled.
ToolInv ==
    \A u \in Uploads :
        /\ tool[u] \in {"hash", "look", "open"} =>
             ~copied[u] /\ ~apart[u] /\ upos[u] = 0
        /\ copied[u] /\ ~changed[u] /\ ~spoiled[u] =>
             /\ tool[u] = "copy" => /\ ~apart[u]
                                    /\ Len(disk) = upos[u] /\ StartsRight(u)
             /\ tool[u] \in {"meta", "ready"} => disk = TrueFile

\* Run u answers for what is at the path.
ToolAnswers(u) ==
    \/ tool[u] \in {"undo", "interrupted"}
    \/ tool[u] \in {"copy", "meta", "ready"} /\ changed[u]
    \/ tool[u] = "copy" /\ ~apart[u] /\ StartsRight(u)

AnsweredInv ==
    disk \notin {NoFile, TrueFile} =>
        \/ \E d \in Downloads : AnswersFor(d)
        \/ \E u \in Uploads : ToolAnswers(u)
-----------------------------------------------------------------------------
(* What a step of the agent does to the file.                              *)

\* The agent changes the file by emptying or removing it, or by a write.
LEMMA FileChanges ==
    ASSUME TypeOK, [Next]_vars, disk' # disk, ~Emptied
    PROVE  \E d \in Downloads, i \in Slots : WriteChunk(d, i) \/ WriteFails(d, i)
  <1> USE DEF fileVars, blameVars, readVars
  <1>1. ASSUME NEW d \in Downloads,
               \/ Start(d) \/ Run(d) \/ GetPeers(d) \/ HandshakeAll(d)
               \/ FetchFileInfo(d) \/ Assess(d) \/ OpenReader(d) \/ ReadCell(d)
               \/ ReadFails(d) \/ FinishHash(d) \/ DeleteFails(d)
        PROVE  disk' = disk
    BY <1>1 DEF Start, Run, GetPeers, HandshakeAll, FetchFileInfo, Assess, OpenReader,
                ReadCell, ReadFails, FinishHash, DeleteFails
  <1>2. ASSUME NEW d \in Downloads, NEW i \in Slots,
               FetchOk(d, i) \/ FetchFails(d, i) \/ FetchMismatch(d, i) \/ Blame(d, i)
        PROVE  disk' = disk
    BY <1>2 DEF FetchOk, FetchFails, FetchMismatch, Blame
  <1>3. ASSUME NEW d \in Downloads, Preallocate(d) \/ Delete(d) PROVE Emptied
    BY <1>3 DEF Preallocate, Delete, GotoAfresh, Emptied, TypeOK
  <1>4. ASSUME NEW d \in Downloads, PreallocateFails(d) PROVE Emptied \/ disk' = disk
    BY <1>4 DEF PreallocateFails, GotoAfresh, Store, Emptied, TypeOK
  <1>5. ASSUME Stop \/ UNCHANGED vars PROVE disk' = disk
    BY <1>5 DEF Stop, vars
  <1> QED
    BY <1>1, <1>2, <1>3, <1>4, <1>5 DEF Next, Step

\* Who has emptied the file answers for it.
LEMMA EmptierAnswers ==
    ASSUME TypeOK, [Next]_vars, Emptied, disk' # NoFile
    PROVE  \E d \in Downloads : AnswersFor(d)'
  <1> USE DEF fileVars, blameVars, readVars
  <1>1. PICK d \in Downloads : \/ pc[d] = "preallocate" /\ pc'[d] \in {"fetch", "orphaned"}
                               \/ pc[d] = "delete" /\ pc'[d] = "failed"
    BY DEF Emptied
  <1>2. ASSUME NEW e \in Downloads,
               \/ Start(e) \/ Run(e) \/ GetPeers(e) \/ HandshakeAll(e)
               \/ FetchFileInfo(e) \/ Assess(e) \/ OpenReader(e)
               \/ ReadFails(e) \/ FinishHash(e) \/ DeleteFails(e)
        PROVE  FALSE
    BY <1>1, <1>2
    DEF Start, Run, GetPeers, HandshakeAll, FetchFileInfo, Assess, OpenReader,
        ReadFails, FinishHash, DeleteFails, Goto, TypeOK
  <1>3. ASSUME NEW e \in Downloads, NEW i \in Slots, Fetching(e, i) PROVE FALSE
    BY <1>1, <1>3, FetchingFrame
  <1>4. ASSUME NEW e \in Downloads, ReadCell(e) PROVE FALSE
    BY <1>1, <1>4 DEF ReadCell
  <1>5. ASSUME NEW e \in Downloads, Preallocate(e) PROVE AnswersFor(e)'
    <2>1. size[e] \in Nat /\ size' = size /\ pc'[e] = "fetch"
      BY <1>5 DEF Preallocate, GotoAfresh, TypeOK
    <2>2. Len(disk') = size[e]
      BY <1>5, <2>1, PreallocatedType DEF Preallocate, StoreAnew
    <2> QED
      BY <2>1, <2>2 DEF AnswersFor
  <1>6. ASSUME NEW e \in Downloads, PreallocateFails(e) PROVE AnswersFor(e)'
    BY <1>1, <1>6 DEF PreallocateFails, Goto, GotoAfresh, AnswersFor, TypeOK
  <1>7. ASSUME NEW e \in Downloads, Delete(e) PROVE FALSE
    BY <1>7 DEF Delete, Store
  <1>8. ASSUME Stop \/ UNCHANGED vars PROVE FALSE
    BY <1>1, <1>8 DEF Stop, vars, Early, OnFile, TypeOK
  <1> QED
    BY <1>2, <1>3, <1>4, <1>5, <1>6, <1>7, <1>8 DEF Next, Step, Fetching
-----------------------------------------------------------------------------
(* What a step of a tool does to what the agent knows.                     *)

\* A tool that changes the file tells every download; it takes nothing from
\* them but a remainder, and leaves readers the file they have open.
LEMMA MeddleInd ==
    ASSUME IndInv, UNCHANGED agentVars,
           disk' \in Seq(Cell) \cup {NoFile},
           shared' \in [Downloads -> BOOLEAN],
           \A d \in Downloads : ~shared'[d] => ~shared[d] /\ disk' = disk,
           pc' = pc \/ Disown,
           held' = held \/ (Unlinked /\ disk' = NoFile)
    PROVE  IndInv'
  <1> USE DEF agentVars, blameVars
  <1>0. TypeOK
    BY DEF IndInv
  <1>1. /\ pc' \in [Downloads -> {"idle"} \cup Early \cup OnFile \cup Ended]
        /\ \A d \in Downloads : \/ pc'[d] = pc[d]
                                \/ pc[d] = "orphaned" /\ pc'[d] = "aborted"
    BY <1>0 DEF Disown, TypeOK, Ended
  <1>2. /\ held' \in [Downloads -> Seq(Cell) \cup {NoFile}]
        /\ \A d \in Downloads : \/ held'[d] = held[d]
                                \/ pc[d] = "hash" /\ disk' = NoFile
    BY <1>0 DEF Unlinked, TypeOK
  <1>3. TypeOK'
    BY <1>0, <1>1, <1>2 DEF TypeOK
  <1>4. EarlyInv' /\ SlotInv' /\ TaskInv'
    <2>1. EarlyInv /\ SlotInv /\ TaskInv
      BY DEF IndInv
    <2>2. EarlyInv'
      BY <1>1, <2>1 DEF EarlyInv, Early
    <2>3. SlotInv'
      BY <2>1 DEF SlotInv
    <2>4. TaskInv'
      BY <2>1 DEF TaskInv
    <2> QED
      BY <2>2, <2>3, <2>4
  <1>5. HeldInv'
    BY <1>1, <1>2 DEF IndInv, HeldInv
  <1>6. FileInv'
    <2>1. ASSUME NEW d \in Downloads, ~shared'[d] PROVE ~shared[d] /\ disk' = disk
      BY <2>1
    <2>2. ASSUME NEW d \in Downloads, ~shared'[d] PROVE held'[d] = held[d]
      BY <1>2, <2>1, <2>2 DEF IndInv, FileInv
    <2>3. \A d \in Downloads : FileInvOf(d)
      BY FileInvAll DEF IndInv
    <2>4. ASSUME NEW d \in Downloads PROVE FileInvOf(d)'
      BY <1>1, <2>1, <2>2, <2>3, FileInvFrame
    <2> QED
      BY <2>4 DEF FileInv, FileInvOf
  <1> QED
    BY <1>3, <1>4, <1>5, <1>6 DEF IndInv

\* What a run does short of opening, copying and unlinking leaves the agent, the
\* file and what the runs know of it alone.
Quiet(u) ==
    \/ Hash(u) \/ SourceChanges(u) \/ Look(u) \/ CopyEnds(u) \/ CopyFails(u)
    \/ WriteMeta(u) \/ Interrupt(u)

LEMMA QuietFrame ==
    ASSUME NEW u \in Uploads, Quiet(u)
    PROVE  /\ UNCHANGED << vars, upos, apart, copied, spoiled >>
           /\ \/ tool' = tool
              \/ changed' = changed /\ \E st \in Stages : Turn(u, st)
  BY DEF Quiet, Hash, SourceChanges, Look, CopyEnds, CopyFails, WriteMeta, Interrupt,
         Turn, Stages, toolVars

\* One byte copied to the path leaves a file there, with a right byte where the
\* source is still what was hashed.
LEMMA CopyWrites ==
    ASSUME TypeOK, ToolTypes, NEW u \in Uploads, Copy(u), ~apart[u]
    PROVE  /\ disk \in Seq(Cell) /\ disk' \in Seq(Cell) /\ disk' # NoFile
           /\ \E c \in Cell : /\ disk' = Written(disk, upos[u], << c >>)
                              /\ ~changed[u] => c = "right"
  <1>1. disk \in Seq(Cell) /\ upos[u] \in Nat
    BY StorageAssumption DEF Copy, ToolTypes, TypeOK
  <1>2. PICK c \in SourceCells(u) : disk' = Written(disk, upos[u], << c >>)
    BY DEF Copy, Put
  <1>3. c \in Cell /\ (~changed[u] => c = "right")
    BY <1>2 DEF SourceCells, Cell
  <1>4. << c >> \in Seq(Cell)
    BY <1>3
  <1>5. disk' \in Seq(Cell)
    BY <1>1, <1>2, <1>4, WrittenType
  <1> QED
    BY <1>1, <1>2, <1>3, <1>5, StorageAssumption

\* The agent's invariant survives the tools.
LEMMA SharedInd ==
    ASSUME IndInv, ToolTypes, [IngestNext]_ingestVars
    PROVE  IndInv'
  <1>0. TypeOK
    BY DEF IndInv
  <1>1. CASE Agent
    BY <1>1, NextInd DEF Agent
  <1>2. ASSUME NEW u \in Uploads, Quiet(u) PROVE IndInv'
    BY <1>2, QuietFrame, NextInd
  <1>3. ASSUME NEW u \in Uploads, Open(u) PROVE IndInv'
    <2>1. /\ disk' = << >> /\ Disown /\ UNCHANGED << agentVars, held >>
          /\ shared' = [d \in Downloads |-> shared[d] \/ disk # << >>]
      BY <1>3 DEF Open
    <2>2. disk' \in Seq(Cell) \cup {NoFile}
      BY <2>1, EmptySeq
    <2>3. /\ shared' \in [Downloads -> BOOLEAN]
          /\ \A d \in Downloads : ~shared'[d] => ~shared[d] /\ disk' = disk
      BY <2>1
    <2> QED
      BY <2>1, <2>2, <2>3, MeddleInd
  <1>4. ASSUME NEW u \in Uploads, Copy(u) PROVE IndInv'
    <2>1. UNCHANGED << agentVars, pc, held >>
      BY <1>4 DEF Copy
    <2>2. CASE apart[u]
      <3>1. UNCHANGED << disk, shared >>
        BY <1>4, <2>2 DEF Copy
      <3> QED
        BY <1>0, <2>1, <3>1, MeddleInd DEF TypeOK, IndInv
    <2>3. CASE ~apart[u]
      <3>1. disk' \in Seq(Cell)
        BY <1>0, <1>4, <2>3, CopyWrites
      <3>2. shared' = [d \in Downloads |-> shared[d] \/ disk' # disk]
        BY <1>4, <2>3 DEF Copy, Put
      <3>3. /\ shared' \in [Downloads -> BOOLEAN]
            /\ \A d \in Downloads : ~shared'[d] => ~shared[d] /\ disk' = disk
        BY <3>2
      <3> QED
        BY <2>1, <3>1, <3>3, MeddleInd
    <2> QED
      BY <2>2, <2>3
  <1>5. ASSUME NEW u \in Uploads, Undo(u) PROVE IndInv'
    <2>1. /\ disk' = NoFile /\ Disown /\ Unlinked /\ UNCHANGED agentVars
          /\ shared' = [d \in Downloads |-> shared[d] \/ NoFile # disk]
      BY <1>5 DEF Undo, Put, Remainder
    <2>2. /\ shared' \in [Downloads -> BOOLEAN]
          /\ \A d \in Downloads : ~shared'[d] => ~shared[d] /\ disk' = disk
      BY <2>1
    <2> QED
      BY <2>1, <2>2, MeddleInd
  <1>6. CASE UNCHANGED ingestVars
    BY <1>6, NextInd DEF ingestVars
  <1> QED
    BY <1>1, <1>2, <1>3, <1>4, <1>5, <1>6 DEF IngestNext, Upload, Quiet
-----------------------------------------------------------------------------
(* What the tools know. *)

LEMMA ToolTypesStep ==
    ASSUME TypeOK, TypeOK', ToolTypes, [IngestNext]_ingestVars
    PROVE  ToolTypes'
  <1> USE DEF toolVars
  <1>1. CASE Agent
    <2>1. /\ tool' \in [Uploads -> Stages]
          /\ \A u \in Uploads : tool'[u] = "copy" => tool[u] = "copy"
      BY <1>1 DEF Agent, ToolTypes, Stages
    <2>2. /\ apart' \in [Uploads -> BOOLEAN]
          /\ \A u \in Uploads : /\ apart[u] => apart'[u]
                                /\ tool[u] = "copy" /\ ~apart'[u]
                                     => disk' # NoFile \/ disk = NoFile
      BY <1>1 DEF Agent, ToolTypes
    <2>3. spoiled' \in [Uploads -> BOOLEAN] /\ UNCHANGED << upos, changed, copied >>
      BY <1>1 DEF Agent, ToolTypes
    <2> QED
      BY <2>1, <2>2, <2>3 DEF ToolTypes
  <1>2. ASSUME NEW u \in Uploads, Quiet(u) PROVE ToolTypes'
    <2>1. UNCHANGED << disk, upos, apart, copied, spoiled >>
      BY <1>2, QuietFrame DEF vars
    <2>2. tool' \in [Uploads -> Stages]
      BY <1>2, QuietFrame DEF Turn, ToolTypes
    <2>3. changed' \in [Uploads -> BOOLEAN]
      BY <1>2 DEF Quiet, Hash, SourceChanges, Look, CopyEnds, CopyFails, WriteMeta,
                  Interrupt, ToolTypes
    <2>4. \A v \in Uploads : tool'[v] = "copy" => tool[v] = "copy"
      BY <1>2 DEF Quiet, Hash, SourceChanges, Look, CopyEnds, CopyFails, WriteMeta,
                  Interrupt, Turn, ToolTypes
    <2> QED
      BY <2>1, <2>2, <2>3, <2>4 DEF ToolTypes
  <1>3. ASSUME NEW u \in Uploads, Open(u) PROVE ToolTypes'
    <2>1. disk' # NoFile
      BY <1>3, EmptySeq, StorageAssumption DEF Open
    <2>2. tool' \in [Uploads -> Stages]
      BY <1>3 DEF Open, TurnAfresh, ToolTypes, Stages
    <2>3. /\ spoiled' \in [Uploads -> BOOLEAN] /\ copied' \in [Uploads -> BOOLEAN]
          /\ UNCHANGED << upos, changed, apart >>
      BY <1>3 DEF Open, ToolTypes
    <2> QED
      BY <2>1, <2>2, <2>3 DEF ToolTypes
  <1>4. ASSUME NEW u \in Uploads, Copy(u) PROVE ToolTypes'
    <2>1. UNCHANGED << tool, changed, apart, copied >>
      BY <1>4 DEF Copy
    <2>2. upos' \in [Uploads -> 0..TrueSize]
      BY <1>4, StorageAssumption DEF Copy, ToolTypes
    <2>3. spoiled' \in [Uploads -> BOOLEAN]
      BY <1>4 DEF Copy, Put, ToolTypes
    <2>4. CASE apart[u]
      BY <1>4, <2>1, <2>2, <2>3, <2>4 DEF Copy, ToolTypes
    <2>5. CASE ~apart[u]
      BY <1>4, <2>1, <2>2, <2>3, <2>5, CopyWrites DEF ToolTypes
    <2> QED
      BY <2>4, <2>5
  <1>5. ASSUME NEW u \in Uploads, Undo(u) PROVE ToolTypes'
    <2>1. /\ tool' \in [Uploads -> Stages]
          /\ \A v \in Uploads : tool'[v] = "copy" => tool[v] = "copy"
      BY <1>5 DEF Undo, TurnAfresh, ToolTypes, Stages
    <2>2. /\ apart' \in [Uploads -> BOOLEAN]
          /\ \A v \in Uploads : tool[v] = "copy" => apart'[v]
      BY <1>5 DEF Undo, Unlinked, ToolTypes
    <2>3. spoiled' \in [Uploads -> BOOLEAN] /\ UNCHANGED << upos, changed, copied >>
      BY <1>5 DEF Undo, Put, ToolTypes
    <2> QED
      BY <2>1, <2>2, <2>3 DEF ToolTypes
  <1>6. CASE UNCHANGED ingestVars
    BY <1>6 DEF ingestVars, uploadVars, vars, ToolTypes
  <1> QED
    BY <1>1, <1>2, <1>3, <1>4, <1>5, <1>6 DEF IngestNext, Upload, Quiet

\* A right byte written spoils no right one.
LEMMA RightByte ==
    ASSUME NEW f \in Seq(Cell), NEW off \in Nat
    PROVE  LET w == Written(f, off, << "right" >>)
           IN  /\ w \in Seq(Cell) /\ Len(w) = Greater(Len(f), off + 1)
               /\ w[off + 1] = "right"
               /\ \A k \in 1..Len(f) : f[k] = "right" => w[k] = "right"
  <1> DEFINE w == Written(f, off, << "right" >>)
  <1>1. /\ << "right" >> \in Seq(Cell) /\ << "right" >> # << >>
        /\ Len(<< "right" >>) = 1 /\ << "right" >>[1] = "right"
    BY DEF Cell
  <1>2. Len(f) \in Nat
    BY LenProperties
  <1>3. w \in Seq(Cell)
    BY <1>1, WrittenType
  <1> DEFINE n == Greater(Len(f), off + 1)
  <1>4. n \in Nat /\ n >= off + 1 /\ n >= Len(f)
    BY <1>2 DEF Greater
  <1>5. w = [i \in 1..n |->
               IF i \in (off + 1)..(off + 1) THEN << "right" >>[i - off]
               ELSE IF i <= Len(f) THEN f[i]
               ELSE ZeroByte(i)]
    BY <1>1 DEF Written
  <1> HIDE DEF n
  <1>6. DOMAIN w = 1..n
    BY <1>5
  <1>7. Len(w) = n
    BY <1>3, <1>4, <1>6, LenProperties
  <1>8. w[off + 1] = "right"
    BY <1>1, <1>4, <1>5
  <1>9. \A k \in 1..Len(f) : f[k] = "right" => w[k] = "right"
    BY <1>1, <1>2, <1>4, <1>5
  <1> QED
    BY <1>3, <1>7, <1>8, <1>9 DEF n

\* A file that a run has copied rightly to the end is the requested one.
LEMMA AllRight ==
    ASSUME NEW f \in Seq(Cell), Len(f) = TrueSize,
           \A k \in 1..TrueSize : f[k] = "right"
    PROVE  f = TrueFile
  <1>1. \A k \in 1..Len(f) : f[k] = TrueFile[k]
    BY DEF TrueFile
  <1> QED
    BY <1>1, TrueFileType, SeqEqual

LEMMA ToolStep ==
    ASSUME TypeOK, ToolTypes, ToolInv, [IngestNext]_ingestVars
    PROVE  ToolInv'
  <1> USE DEF toolVars
  <1>1. CASE Agent
    <2>1. UNCHANGED << upos, changed, copied >>
      BY <1>1 DEF Agent
    <2>2. \A u \in Uploads : \/ tool'[u] = tool[u]
                             \/ tool[u] = "interrupted" /\ tool'[u] = "superseded"
      BY <1>1 DEF Agent, ToolTypes
    <2>3. \A u \in Uploads : /\ ~spoiled'[u] => ~spoiled[u] /\ disk' = disk
                             /\ tool[u] # "copy" \/ disk' = disk => apart'[u] = apart[u]
      BY <1>1 DEF Agent, ToolTypes
    <2> QED
      BY <2>1, <2>2, <2>3 DEF ToolInv, StartsRight
  <1>2. ASSUME NEW u \in Uploads, Quiet(u) PROVE ToolInv'
    <2>1. UNCHANGED << disk, upos, apart, copied, spoiled >>
      BY <1>2, QuietFrame DEF vars
    <2>2. \A v \in Uploads : v # u => tool'[v] = tool[v] /\ changed'[v] = changed[v]
      BY <1>2 DEF Quiet, Hash, SourceChanges, Look, CopyEnds, CopyFails, WriteMeta,
                  Interrupt, Turn, ToolTypes
    <2>3. CASE CopyEnds(u)
      <3>1. /\ tool[u] = "copy" /\ tool'[u] = "meta" /\ changed' = changed
            /\ changed[u] \/ upos[u] = TrueSize
        BY <2>3 DEF CopyEnds, SourceEnds, Turn, ToolTypes
      <3>2. ASSUME copied[u], ~changed[u], ~spoiled[u] PROVE disk = TrueFile
        <4>1. /\ ~apart[u] /\ Len(disk) = TrueSize
              /\ \A k \in 1..TrueSize : disk[k] = "right"
          BY <3>1, <3>2 DEF ToolInv, StartsRight
        <4>2. disk \in Seq(Cell)
          BY <3>1, <4>1 DEF ToolTypes, TypeOK
        <4> QED
          BY <4>1, <4>2, AllRight
      <3> QED
        BY <2>1, <2>2, <3>1, <3>2 DEF ToolInv, StartsRight
    <2>4. CASE ~CopyEnds(u)
      <3>1. \/ tool'[u] = tool[u]
            \/ tool[u] \in {"hash", "look", "open"} /\ tool'[u] \in {"look", "open", "meta"}
            \/ tool[u] = "meta" /\ tool'[u] = "ready"
            \/ tool'[u] \in {"undo", "failed", "interrupted"}
        BY <1>2, <2>4 DEF Quiet, Hash, SourceChanges, Look, CopyFails, WriteMeta,
                          Interrupt, Turn, ToolTypes
      <3>2. changed[u] => changed'[u]
        BY <1>2 DEF Quiet, Hash, SourceChanges, Look, CopyEnds, CopyFails, WriteMeta,
                    Interrupt, ToolTypes
      <3> QED
        BY <2>1, <2>2, <3>1, <3>2 DEF ToolInv, StartsRight
    <2> QED
      BY <2>3, <2>4
  <1>3. ASSUME NEW u \in Uploads, Open(u) PROVE ToolInv'
    <2>1. /\ disk' = << >> /\ tool[u] = "open" /\ tool'[u] = "copy" /\ copied'[u]
          /\ UNCHANGED << upos, changed, apart >>
      BY <1>3 DEF Open, TurnAfresh, ToolTypes
    <2>2. upos[u] = 0 /\ ~apart[u] /\ Len(disk') = 0
      BY <2>1 DEF ToolInv
    <2>3. \A v \in Uploads : v # u => /\ ~spoiled'[v] => ~spoiled[v] /\ disk' = disk
                                      /\ copied'[v] = copied[v]
                                      /\ \/ tool'[v] = tool[v]
                                         \/ tool'[v] = "superseded"
      BY <1>3 DEF Open, TurnAfresh, ToolTypes
    <2>4. ASSUME NEW v \in Uploads, v # u
          PROVE  /\ tool'[v] \in {"hash", "look", "open"} =>
                      ~copied'[v] /\ ~apart'[v] /\ upos'[v] = 0
                 /\ copied'[v] /\ ~changed'[v] /\ ~spoiled'[v] =>
                      /\ tool'[v] = "copy" =>
                           /\ ~apart'[v]
                           /\ Len(disk') = upos'[v] /\ StartsRight(v)'
                      /\ tool'[v] \in {"meta", "ready"} => disk' = TrueFile
      BY <2>1, <2>3, <2>4 DEF ToolInv, StartsRight
    <2>5. StartsRight(u)'
      BY <2>1, <2>2, StorageAssumption DEF StartsRight
    <2> QED
      BY <2>1, <2>2, <2>4, <2>5 DEF ToolInv
  <1>4. ASSUME NEW u \in Uploads, Copy(u) PROVE ToolInv'
    <2>1. /\ UNCHANGED << tool, changed, apart, copied >> /\ tool[u] = "copy"
          /\ \A v \in Uploads : v # u => upos'[v] = upos[v]
          /\ upos[u] \in Nat /\ upos[u] < TrueSize /\ upos'[u] = upos[u] + 1
      BY <1>4, StorageAssumption DEF Copy, ToolTypes
    <2>2. \A v \in Uploads : v # u /\ ~spoiled'[v] => ~spoiled[v] /\ disk' = disk
      BY <1>4 DEF Copy, Put, ToolTypes
    <2>3. spoiled'[u] = spoiled[u]
      BY <1>4 DEF Copy, Put, ToolTypes
    <2>4. ASSUME copied[u], ~changed[u], ~spoiled[u]
          PROVE  ~apart[u] /\ Len(disk') = upos'[u] /\ StartsRight(u)'
      <3>1. /\ ~apart[u] /\ Len(disk) = upos[u]
            /\ \A k \in 1..upos[u] : disk[k] = "right"
        BY <2>1, <2>4 DEF ToolInv, StartsRight
      <3>2. disk \in Seq(Cell) /\ disk' = Written(disk, upos[u], << "right" >>)
        BY <1>4, <2>4, <3>1, CopyWrites
      <3>3. /\ Len(disk') = Greater(Len(disk), upos[u] + 1)
            /\ disk'[upos[u] + 1] = "right"
            /\ \A k \in 1..Len(disk) : disk[k] = "right" => disk'[k] = "right"
        BY <2>1, <3>2, RightByte
      <3>4. Len(disk') = upos[u] + 1
        BY <2>1, <3>1, <3>3 DEF Greater
      <3>5. \A k \in 1..(upos[u] + 1) : disk'[k] = "right"
        BY <2>1, <3>1, <3>3
      <3> QED
        BY <2>1, <3>1, <3>4, <3>5, StorageAssumption DEF StartsRight
    <2> QED
      BY <2>1, <2>2, <2>3, <2>4 DEF ToolInv, StartsRight
  <1>5. ASSUME NEW u \in Uploads, Undo(u) PROVE ToolInv'
    <2>1. /\ tool[u] = "undo" /\ tool'[u] = "failed"
          /\ UNCHANGED << upos, changed, copied >>
      BY <1>5 DEF Undo, TurnAfresh, ToolTypes
    <2>2. \A v \in Uploads : v # u => /\ ~spoiled'[v] => ~spoiled[v] /\ disk' = disk
                                      /\ \/ tool'[v] = tool[v]
                                         \/ tool'[v] = "superseded"
      BY <1>5 DEF Undo, Put, TurnAfresh, ToolTypes
    <2>3. \A v \in Uploads : tool[v] # "copy" \/ disk = NoFile => apart'[v] = apart[v]
      BY <1>5 DEF Undo, Unlinked, ToolTypes
    <2>4. disk' = NoFile
      BY <1>5 DEF Undo, Put, Remainder
    <2>5. ASSUME NEW v \in Uploads, v # u, copied[v], ~changed[v], ~spoiled'[v]
          PROVE  tool'[v] # "copy" /\ (tool'[v] \in {"meta", "ready"} => disk' = TrueFile)
      <3>1. ~spoiled[v] /\ disk = NoFile
        BY <2>2, <2>4, <2>5
      <3>2. tool[v] # "copy"
        BY <2>5, <3>1 DEF ToolInv, ToolTypes
      <3> QED
        BY <2>2, <2>4, <2>5, <3>1, <3>2 DEF ToolInv
    <2>6. ASSUME NEW v \in Uploads, tool'[v] \in {"hash", "look", "open"}
          PROVE  ~copied'[v] /\ ~apart'[v] /\ upos'[v] = 0
      BY <2>1, <2>2, <2>3, <2>6 DEF ToolInv
    <2> QED
      BY <2>1, <2>5, <2>6 DEF ToolInv
  <1>6. CASE UNCHANGED ingestVars
    BY <1>6 DEF ingestVars, uploadVars, vars, ToolInv, StartsRight
  <1> QED
    BY <1>1, <1>2, <1>3, <1>4, <1>5, <1>6 DEF IngestNext, Upload, Quiet
-----------------------------------------------------------------------------
(* Who answers for a file that is not the requested one.                   *)

\* A run that copies what was hashed takes nobody's answer away: it leaves right
\* bytes right, and writes nothing beyond the end.
LEMMA RightCopy ==
    ASSUME TypeOK, ToolTypes, NEW u \in Uploads, Copy(u), ~apart[u], ~changed[u]
    PROVE  /\ disk = TrueFile => disk' = TrueFile
           /\ \A d \in Downloads : AnswersFor(d) => AnswersFor(d)'
           /\ \A v \in Uploads : ToolAnswers(v) => ToolAnswers(v)'
  <1>1. /\ disk \in Seq(Cell) /\ Len(disk) \in Nat
        /\ disk' = Written(disk, upos[u], << "right" >>)
    BY CopyWrites, LenProperties
  <1>2. /\ UNCHANGED << pc, held, size, read, good, tool, changed, apart >>
        /\ upos[u] \in Nat /\ upos[u] + 1 <= TrueSize /\ upos'[u] = upos[u] + 1
        /\ \A v \in Uploads : v # u => upos'[v] = upos[v]
    BY StorageAssumption DEF Copy, ToolTypes, agentVars
  <1>3. /\ disk' \in Seq(Cell) /\ Len(disk') = Greater(Len(disk), upos[u] + 1)
        /\ disk'[upos[u] + 1] = "right"
        /\ \A k \in 1..Len(disk) : disk[k] = "right" => disk'[k] = "right"
    BY <1>1, <1>2, RightByte
  <1>4. /\ Len(disk') \in Nat /\ Len(disk') >= Len(disk) /\ Len(disk') >= upos[u] + 1
        /\ Len(disk) <= TrueSize => Len(disk') <= TrueSize
        /\ Len(disk') <= TrueSize \/ Len(disk') = Len(disk)
    BY <1>1, <1>2, <1>3, StorageAssumption DEF Greater
  <1>5. disk = TrueFile => disk' = TrueFile
    <2> SUFFICES ASSUME disk = TrueFile PROVE disk' = TrueFile
      OBVIOUS
    <2>1. Len(disk) = TrueSize /\ \A k \in 1..TrueSize : disk[k] = "right"
      BY TrueFileType DEF TrueFile
    <2>2. Len(disk') = TrueSize
      BY <1>4, <2>1, StorageAssumption
    <2>3. \A k \in 1..TrueSize : disk'[k] = "right"
      BY <1>3, <2>1
    <2> QED
      BY <1>3, <2>2, <2>3, AllRight
  <1>6. ASSUME NEW d \in Downloads, AnswersFor(d) PROVE AnswersFor(d)'
    <2>1. size[d] \in Nat /\ read[d] \in Nat
      BY DEF TypeOK
    <2>2. ReadsTrue(d) => ReadsTrue(d)'
      BY <1>1, <1>2, <1>3, <1>4, <2>1 DEF ReadsTrue
    <2>3. size[d] >= TrueSize /\ Len(disk) <= size[d] => Len(disk') <= size[d]
      BY <1>1, <1>4, <2>1, StorageAssumption
    <2>4. Len(disk') <= TrueSize => Len(disk) <= TrueSize
      BY <1>1, <1>4, StorageAssumption
    <2> QED
      BY <1>2, <1>6, <2>1, <2>2, <2>3, <2>4, StorageAssumption DEF AnswersFor
  <1>7. ASSUME NEW v \in Uploads, ToolAnswers(v) PROVE ToolAnswers(v)'
    <2>1. upos[v] \in Nat
      BY StorageAssumption DEF ToolTypes
    <2>2. StartsRight(v) => StartsRight(v)'
      <3>1. CASE v = u
        BY <1>1, <1>2, <1>3, <1>4, <3>1 DEF StartsRight
      <3>2. CASE v # u
        BY <1>1, <1>2, <1>3, <1>4, <2>1, <3>2, StorageAssumption DEF StartsRight
      <3> QED
        BY <3>1, <3>2
    <2> QED
      BY <1>2, <1>7, <2>2 DEF ToolAnswers
  <1> QED
    BY <1>5, <1>6, <1>7

\* A run that only goes on, or ends, still answers for what it has written.
LEMMA QuietAnswers ==
    ASSUME TypeOK, ToolTypes, NEW u \in Uploads, Quiet(u), disk # TrueFile,
           NEW v \in Uploads, ToolAnswers(v)
    PROVE  ToolAnswers(v)'
  <1> USE DEF toolVars
  <1>1. UNCHANGED << disk, upos, apart >>
    BY QuietFrame DEF vars
  <1>2. StartsRight(v)' = StartsRight(v)
    BY <1>1 DEF StartsRight
  <1>3. CASE v # u
    <2>1. tool'[v] = tool[v] /\ changed'[v] = changed[v]
      BY <1>3 DEF Quiet, Hash, SourceChanges, Look, CopyEnds, CopyFails, WriteMeta,
                  Interrupt, Turn, ToolTypes
    <2> QED
      BY <1>1, <1>2, <2>1 DEF ToolAnswers
  <1>4. CASE v = u
    <2>1. tool[u] \in {"copy", "undo", "meta", "ready", "interrupted"}
      BY <1>4 DEF ToolAnswers
    <2>2. CASE SourceChanges(u)
      BY <1>4, <2>1, <2>2 DEF SourceChanges, ToolAnswers, ToolTypes
    <2>3. CASE CopyEnds(u)
      <3>1. ASSUME ~changed[u] PROVE FALSE
        <4>1. ~apart[u] /\ StartsRight(u) /\ upos[u] = TrueSize /\ tool[u] = "copy"
          BY <1>4, <2>3, <3>1 DEF CopyEnds, SourceEnds, ToolAnswers
        <4>2. disk \in Seq(Cell) /\ Len(disk) \in Nat
          BY <4>1, LenProperties DEF ToolTypes, TypeOK
        <4>3. Len(disk) = TrueSize /\ \A k \in 1..TrueSize : disk[k] = "right"
          BY <4>1, <4>2, StorageAssumption DEF StartsRight
        <4> QED
          BY <4>2, <4>3, AllRight
      <3> QED
        BY <1>4, <2>3, <3>1 DEF CopyEnds, Turn, ToolAnswers, ToolTypes
    <2>4. CASE CopyFails(u)
      BY <1>4, <2>4 DEF CopyFails, Turn, ToolAnswers, ToolTypes
    <2>5. CASE WriteMeta(u)
      BY <1>4, <2>5 DEF WriteMeta, Turn, ToolAnswers, ToolTypes
    <2>6. CASE Interrupt(u)
      BY <1>4, <2>1, <2>6 DEF Interrupt, Turn, ToolAnswers, ToolTypes
    <2>7. ~Hash(u) /\ ~Look(u)
      BY <2>1 DEF Hash, Look
    <2> QED
      BY <2>2, <2>3, <2>4, <2>5, <2>6, <2>7 DEF Quiet
  <1> QED
    BY <1>3, <1>4

LEMMA AnsweredStep ==
    ASSUME IndInv, ModestInv, ReadWithin, ToolTypes, ToolInv, AnsweredInv,
           [IngestNext]_ingestVars
    PROVE  AnsweredInv'
  <1> SUFFICES ASSUME disk' \notin {NoFile, TrueFile}
               PROVE  \/ \E d \in Downloads : AnswersFor(d)'
                      \/ \E v \in Uploads : ToolAnswers(v)'
    BY DEF AnsweredInv
  <1>0. TypeOK
    BY DEF IndInv
  <1>1. CASE Agent
    <2>1. CASE disk \notin {NoFile, TrueFile} => \E d \in Downloads : AnswersFor(d)
      BY <1>1, <2>1, AnswerStep DEF Agent
    <2>2. CASE Emptied
      BY <1>0, <1>1, <2>2, EmptierAnswers DEF Agent
    <2>3. CASE /\ ~(disk \notin {NoFile, TrueFile} => \E d \in Downloads : AnswersFor(d))
               /\ ~Emptied
      <3>1. PICK v \in Uploads : ToolAnswers(v)
        BY <2>3 DEF AnsweredInv
      <3>2. UNCHANGED << tool, upos, changed >>
        BY <1>1, <2>3 DEF Agent, toolVars
      <3>3. CASE disk' = disk
        <4>1. apart'[v] = apart[v]
          BY <1>1, <3>3 DEF Agent, ToolTypes
        <4> QED
          BY <3>1, <3>2, <3>3, <4>1 DEF ToolAnswers, StartsRight
      <3>4. CASE disk' # disk /\ StartsRight(v)
        <4>1. PICK d \in Downloads, i \in Slots : WriteChunk(d, i) \/ WriteFails(d, i)
          BY <1>0, <1>1, <2>3, <3>4, FileChanges DEF Agent
        <4>2. ~(Len(disk) > TrueSize)
          <5>1. disk \in Seq(Cell)
            BY <1>0, <2>3 DEF TypeOK
          <5>2. Len(disk) \in Nat
            BY <5>1, LenProperties
          <5> QED
            BY <3>4, <5>2, StorageAssumption DEF StartsRight
        <4> QED
          BY <4>1, <4>2, WriterAnswers
      <3>5. CASE ~StartsRight(v)
        BY <3>1, <3>2, <3>5 DEF ToolAnswers
      <3> QED
        BY <3>3, <3>4, <3>5
    <2> QED
      BY <2>1, <2>2, <2>3
  <1>2. ASSUME NEW u \in Uploads, Quiet(u)
        PROVE  \/ \E d \in Downloads : AnswersFor(d)'
               \/ \E v \in Uploads : ToolAnswers(v)'
    <2>1. UNCHANGED << disk, pc, size, held, read, good >>
      BY <1>2, QuietFrame DEF vars
    <2>2. \A d \in Downloads : AnswersFor(d) => AnswersFor(d)'
      BY <2>1, AnswersFrame
    <2> QED
      BY <1>0, <1>2, <2>1, <2>2, QuietAnswers DEF AnsweredInv
  <1>3. ASSUME NEW u \in Uploads, Open(u) PROVE ToolAnswers(u)'
    <2>1. /\ disk' = << >> /\ tool[u] = "open" /\ tool'[u] = "copy"
          /\ UNCHANGED << upos, apart >>
      BY <1>3 DEF Open, TurnAfresh, ToolTypes
    <2>2. upos[u] = 0 /\ ~apart[u] /\ Len(disk') = 0
      BY <2>1 DEF ToolInv
    <2> QED
      BY <2>1, <2>2, StorageAssumption DEF ToolAnswers, StartsRight
  <1>4. ASSUME NEW u \in Uploads, Copy(u)
        PROVE  \/ \E d \in Downloads : AnswersFor(d)'
               \/ \E v \in Uploads : ToolAnswers(v)'
    <2>1. /\ UNCHANGED << pc, held, size, read, good, tool, changed, apart >>
          /\ tool[u] = "copy" /\ \A v \in Uploads : v # u => upos'[v] = upos[v]
      BY <1>4 DEF Copy, agentVars, ToolTypes
    <2>2. CASE changed[u]
      BY <2>1, <2>2 DEF ToolAnswers
    <2>3. CASE ~changed[u] /\ apart[u]
      <3>1. disk' = disk
        BY <1>4, <2>3 DEF Copy
      <3>2. \A d \in Downloads : AnswersFor(d) => AnswersFor(d)'
        BY <2>1, <3>1, AnswersFrame
      <3>3. \A v \in Uploads : ToolAnswers(v) => ToolAnswers(v)'
        BY <2>1, <2>3, <3>1 DEF ToolAnswers, StartsRight
      <3> QED
        BY <3>1, <3>2, <3>3 DEF AnsweredInv
    <2>4. CASE ~changed[u] /\ ~apart[u]
      <3>1. disk # NoFile
        BY <2>1, <2>4 DEF ToolTypes
      <3> QED
        BY <1>0, <1>4, <2>4, <3>1, RightCopy DEF AnsweredInv
    <2> QED
      BY <2>2, <2>3, <2>4
  <1>5. ASSUME NEW u \in Uploads, Undo(u) PROVE FALSE
    BY <1>5 DEF Undo, Put, Remainder
  <1>6. CASE UNCHANGED ingestVars
    <2>1. UNCHANGED << disk, pc, size, held, read, good, tool, upos, changed, apart >>
      BY <1>6 DEF ingestVars, vars, uploadVars, toolVars
    <2>2. \A d \in Downloads : AnswersFor(d) => AnswersFor(d)'
      BY <2>1, AnswersFrame
    <2> QED
      BY <2>1, <2>2 DEF AnsweredInv, ToolAnswers, StartsRight
  <1> QED
    BY <1>1, <1>2, <1>3, <1>4, <1>5, <1>6 DEF IngestNext, Upload, Quiet

\* What the agent reads it reads within the size, also beside the tools.
LEMMA SharedRead ==
    ASSUME IndInv, IndInv', ReadWithin, [IngestNext]_ingestVars
    PROVE  ReadWithin'
  <1>1. CASE Agent
    BY <1>1, ReadStep DEF Agent
  <1>2. ASSUME NEW u \in Uploads, Upload(u)
        PROVE  /\ UNCHANGED << read, size >>
               /\ \A d \in Downloads : pc'[d] = "hash" => pc[d] = "hash"
    <2>1. CASE Quiet(u)
      BY <2>1, QuietFrame DEF vars
    <2>2. CASE Open(u) \/ Copy(u) \/ Undo(u)
      <3>1. UNCHANGED << read, size >> /\ (pc' = pc \/ Disown)
        BY <2>2 DEF Open, Copy, Undo, agentVars
      <3> QED
        BY <3>1 DEF Disown
    <2> QED
      BY <1>2, <2>1, <2>2 DEF Upload, Quiet
  <1>3. CASE UNCHANGED ingestVars
    BY <1>3 DEF ingestVars, vars, ReadWithin
  <1> QED
    BY <1>1, <1>2, <1>3 DEF IngestNext, ReadWithin
-----------------------------------------------------------------------------
\* No tool makes a peer send more than it was asked for.
LEMMA SharedModest ==
    ASSUME Excess = 0, TypeOK, ModestInv, [IngestNext]_ingestVars
    PROVE  ModestInv'
  <1>1. CASE Agent
    BY <1>1, ModestStep DEF Agent
  <1>2. ASSUME UNCHANGED << task, surplus >> PROVE ModestInv'
    BY <1>2 DEF ModestInv, Asked
  <1>3. ASSUME NEW u \in Uploads, Upload(u) PROVE UNCHANGED << task, surplus >>
    <2>1. CASE Quiet(u)
      BY <2>1, QuietFrame DEF vars
    <2>2. CASE Open(u) \/ Copy(u) \/ Undo(u)
      BY <2>2 DEF Open, Copy, Undo, agentVars
    <2> QED
      BY <1>3, <2>1, <2>2 DEF Upload, Quiet
  <1>4. CASE UNCHANGED ingestVars
    BY <1>2, <1>4 DEF ingestVars, vars
  <1> QED
    BY <1>1, <1>2, <1>3, <1>4 DEF IngestNext
-----------------------------------------------------------------------------
\* What holds whatever peers deliver.
SharedInv == IndInv /\ ToolTypes /\ ToolInv

LEMMA SharedInit == IngestInit => SharedInv
  <1> SUFFICES ASSUME IngestInit PROVE SharedInv
    OBVIOUS
  <1>1. IndInv
    BY InitInd DEF IngestInit
  <1>2. ToolTypes /\ ToolInv
    BY StorageAssumption DEF IngestInit, ToolTypes, ToolInv, Stages
  <1> QED
    BY <1>1, <1>2 DEF SharedInv

LEMMA SharedStep ==
    ASSUME SharedInv, [IngestNext]_ingestVars
    PROVE  SharedInv'
  <1>1. TypeOK /\ IndInv' /\ TypeOK'
    BY SharedInd DEF SharedInv, IndInv
  <1> QED
    BY <1>1, ToolTypesStep, ToolStep DEF SharedInv

LEMMA SharedHolds == IngestSpec => []SharedInv
  <1>1. SharedInv /\ [IngestNext]_ingestVars => SharedInv'
    BY SharedStep
  <1> QED
    BY <1>1, SharedInit, PTL DEF IngestSpec

\* "FILE READY TO SHARE" after a copy stands for the file, for any number of
\* runs and downloads that meet on one path, as long as the source stayed what
\* was hashed and nobody else has changed the file since this run opened it
\* (main, write_stream).
THEOREM CopiesWhole == IngestSpec => []CopyIsWhole
  <1>1. SharedInv => CopyIsWhole
    BY DEF SharedInv, ToolInv, CopyIsWhole
  <1> QED
    BY <1>1, SharedHolds, PTL

\* Among any number of downloads and tools a path that holds neither nothing nor
\* the file has somebody to answer for it, as long as no peer sends more than it
\* was asked for: one at work on it, one that was cut off, or a tool whose source
\* was edited under it (write_stream's unlink, the deletes of
\* download_from_peers).
THEOREM HalfWrittenTold ==
    ASSUME Excess = 0
    PROVE  IngestSpec => []HalfWrittenAnswered
  <1> DEFINE Inv == SharedInv /\ ModestInv /\ ReadWithin /\ AnsweredInv
  <1>1. IngestInit => Inv
    BY SharedInit, InitModest DEF IngestInit, Init, ReadWithin, AnsweredInv
  <1>2. Inv /\ [IngestNext]_ingestVars => Inv'
    <2> SUFFICES ASSUME Inv, [IngestNext]_ingestVars PROVE Inv'
      OBVIOUS
    <2>1. SharedInv' /\ TypeOK /\ IndInv /\ IndInv'
      BY SharedStep DEF SharedInv, IndInv
    <2> QED
      BY <2>1, SharedModest, SharedRead, AnsweredStep DEF SharedInv
  <1>3. Inv => HalfWrittenAnswered
    BY DEF AnsweredInv, AnswersFor, ToolAnswers, OnFile, HalfWrittenAnswered
  <1> QED
    BY <1>1, <1>2, <1>3, PTL DEF IngestSpec

\* A completed download whose file neither another download nor a tool has
\* changed has left the requested file, whatever the tools do, and nothing
\* behind it if no reply was longer than its request (download_from_peers).
THEOREM CompleteStillStored == IngestSpec => []CompleteIsStored
  <1>1. SharedInv => CompleteIsStored
    BY DEF SharedInv, IndInv, FileInv, CompleteIsStored
  <1> QED
    BY <1>1, SharedHolds, PTL
=============================================================================
