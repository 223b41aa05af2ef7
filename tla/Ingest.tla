------------------------------- MODULE Ingest -------------------------------
(***************************************************************************)
(* The tool that puts a local file into an agent's storage                 *)
(* (ingest_file.py) at the side of the agent that downloads to the same    *)
(* path: other processes, which share nothing with it but the directory.   *)
(* A tool hashes its source, looks whether the path exists, copies the     *)
(* source there if not (write_stream), and writes the .meta file.          *)
(*                                                                         *)
(* All is about one hash, so every tool has hashed the requested file; but *)
(* the source may be edited before it is read again to be copied.          *)
(***************************************************************************)
EXTENDS Downloader

CONSTANT Uploads  \* the runs of the tool

VARIABLES
    tool,     \* how far each run is
    upos,     \* how many bytes it has copied
    changed,  \* its source is not what it hashed any more
    apart,    \* the file it has open was unlinked from the path
    copied,   \* history: it did copy, and did not find the file there
    spoiled   \* history: another process or run changed the file at the path
              \* since this run opened it

toolVars == << upos, changed, copied >>
uploadVars == << tool, apart, spoiled, toolVars >>
ingestVars == << vars, uploadVars >>

\* The variables of Downloader the tools leave alone.
agentVars == << trusted, size, task, bytes, read, good, surplus, blameVars >>

IngestInit ==
    /\ Init
    /\ tool = [u \in Uploads |-> "hash"]
    /\ upos = [u \in Uploads |-> 0]
    /\ changed = [u \in Uploads |-> FALSE]
    /\ apart = [u \in Uploads |-> FALSE]
    /\ copied = [u \in Uploads |-> FALSE]
    /\ spoiled = [u \in Uploads |-> FALSE]

\* Run u goes on, or ends.  interrupted: what it wrote may still be at the path;
\* superseded: the file was emptied or removed since.
Turn(u, st) == tool' = [tool EXCEPT ![u] = st]
TurnAfresh(u, st) ==
    tool' = [v \in Uploads |-> IF v = u THEN st
                               ELSE IF tool[v] = "interrupted" THEN "superseded"
                               ELSE tool[v]]

\* The file at the path becomes f by u's doing; everybody else is told.
Put(u, f) ==
    /\ disk' = f
    /\ shared' = [d \in Downloads |-> shared[d] \/ f # disk]
    /\ spoiled' = [v \in Uploads |-> spoiled[v] \/ (v # u /\ f # disk)]

\* What u empties or unlinks is nobody's remainder any more.
Disown == pc' = [d \in Downloads |-> IF pc[d] = "orphaned" THEN "aborted" ELSE pc[d]]

\* Who has the file open keeps it when it is unlinked.
Unlinked ==
    /\ held' = [d \in Downloads |-> IF pc[d] = "hash" /\ held[d] = NoFile
                                    THEN disk ELSE held[d]]
    /\ apart' = [v \in Uploads |-> apart[v] \/ (tool[v] = "copy" /\ disk # NoFile)]
-----------------------------------------------------------------------------
\* The source is hashed before anything else; it may change afterwards.
Hash(u) ==
    /\ tool[u] = "hash"
    /\ Turn(u, "look")
    /\ UNCHANGED << vars, apart, spoiled, toolVars >>

SourceChanges(u) ==
    /\ tool[u] \in {"look", "open", "copy"} /\ ~changed[u]
    /\ changed' = [changed EXCEPT ![u] = TRUE]
    /\ UNCHANGED << vars, tool, upos, apart, copied, spoiled >>

\* A file that exists is taken for the one to share.
Look(u) ==
    /\ tool[u] = "look"
    /\ Turn(u, IF disk = NoFile THEN "open" ELSE "meta")
    /\ UNCHANGED << vars, apart, spoiled, toolVars >>

\* open("wb") makes the file, or empties the one that has come meanwhile.
Open(u) ==
    /\ tool[u] = "open"
    /\ disk' = << >>
    /\ shared' = [d \in Downloads |-> shared[d] \/ disk # << >>]
    /\ spoiled' = [v \in Uploads |-> v # u /\ (spoiled[v] \/ disk # << >>)]
    /\ copied' = [copied EXCEPT ![u] = TRUE]
    /\ TurnAfresh(u, "copy") /\ Disown
    /\ UNCHANGED << agentVars, held, upos, changed, apart >>

\* What the source gives next; of a changed one, anything.
SourceCells(u) == IF changed[u] THEN Cell ELSE {"right"}

\* The source is read to its end, which a changed one may have anywhere (but,
\* a bound, no later than before); mutant: one byte too soon.
SourceEndsEarly(u) == changed[u] \/ upos[u] + 1 >= TrueSize
SourceEnds(u) == changed[u] \/ upos[u] = TrueSize

\* One chunk goes to where the handle stands: into the file at the path, or
\* into the one that was there when it was opened.
Copy(u) ==
    /\ tool[u] = "copy" /\ upos[u] < TrueSize
    /\ \E c \in SourceCells(u) :
          IF apart[u] THEN UNCHANGED << disk, shared, spoiled >>
          ELSE Put(u, Written(disk, upos[u], << c >>))
    /\ upos' = [upos EXCEPT ![u] = @ + 1]
    /\ UNCHANGED << agentVars, pc, held, tool, changed, apart, copied >>

CopyEnds(u) ==
    /\ tool[u] = "copy" /\ SourceEnds(u)
    /\ Turn(u, "meta")
    /\ UNCHANGED << vars, apart, spoiled, toolVars >>

\* Reading or writing fails: the handle is closed, and then the path unlinked.
CopyFails(u) ==
    /\ tool[u] = "copy"
    /\ Turn(u, "undo")
    /\ UNCHANGED << vars, apart, spoiled, toolVars >>

\* What is at the path when a copy has failed; mutant: it stays.
RemainderKept == disk
Remainder == NoFile

\* Whatever is there is unlinked; StorageError ends the tool.
Undo(u) ==
    /\ tool[u] = "undo"
    /\ Put(u, Remainder) /\ TurnAfresh(u, "failed") /\ Disown /\ Unlinked
    /\ UNCHANGED << agentVars, toolVars >>

WriteMeta(u) ==
    /\ tool[u] = "meta"
    /\ Turn(u, "ready")
    /\ UNCHANGED << vars, apart, spoiled, toolVars >>

\* A signal, a crash, or an error where nothing undoes: opening, the last
\* close, which writes what is still in the buffer, unlinking.
Interrupt(u) ==
    /\ tool[u] \in {"hash", "look", "open", "copy", "undo", "meta"}
    /\ Turn(u, IF tool[u] \in {"copy", "undo"} \/ (tool[u] = "meta" /\ changed[u])
               THEN "interrupted" ELSE "failed")
    /\ UNCHANGED << vars, apart, spoiled, toolVars >>
-----------------------------------------------------------------------------
\* A download has just emptied or removed the file.
Emptied ==
    \E d \in Downloads :
        \/ pc[d] = "preallocate" /\ pc'[d] \in {"fetch", "orphaned"}
        \/ pc[d] = "delete" /\ pc'[d] = "failed"

\* What the agent does changes the file under the tools.
Agent ==
    /\ Next
    /\ tool' = IF Emptied
               THEN [v \in Uploads |-> IF tool[v] = "interrupted" THEN "superseded"
                                       ELSE tool[v]]
               ELSE tool
    /\ apart' = [v \in Uploads |->
          apart[v] \/ (tool[v] = "copy" /\ disk # NoFile /\ disk' = NoFile)]
    /\ spoiled' = [v \in Uploads |-> spoiled[v] \/ disk' # disk]
    /\ UNCHANGED toolVars

Upload(u) ==
    \/ Hash(u) \/ SourceChanges(u) \/ Look(u) \/ Open(u)
    \/ Copy(u) \/ CopyEnds(u) \/ CopyFails(u) \/ Undo(u)
    \/ WriteMeta(u) \/ Interrupt(u)

IngestNext == Agent \/ \E u \in Uploads : Upload(u)

IngestSpec == IngestInit /\ [][IngestNext]_ingestVars
-----------------------------------------------------------------------------
(* What must hold. *)

\* "FILE READY TO SHARE" after a copy stands for the file, as long as the source
\* stayed what was hashed and nobody else has changed the file since this run
\* opened it (main, write_stream).
CopyIsWhole ==
    \A u \in Uploads :
        tool[u] \in {"meta", "ready"} /\ copied[u] /\ ~changed[u] /\ ~spoiled[u]
            => disk = TrueFile

\* Among downloads and tools, as long as no peer sends more than it was asked
\* for, a path that holds neither nothing nor the file has somebody to answer
\* for it: one that is at work on it, one that was cut off,
\* or a tool whose source was edited under it.  Who fails in an orderly way
\* leaves nothing (write_stream's unlink, the deletes of download_from_peers),
\* and who begins anew makes up for what others left.
HalfWrittenAnswered ==
    disk \notin {NoFile, TrueFile} =>
        \/ \E d \in Downloads : pc[d] \in OnFile \cup {"orphaned"}
        \/ \E u \in Uploads : \/ tool[u] \in {"copy", "undo", "interrupted"}
                              \/ tool[u] \in {"meta", "ready"} /\ changed[u]
=============================================================================
