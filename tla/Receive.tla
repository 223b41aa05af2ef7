------------------------------ MODULE Receive ------------------------------
(***************************************************************************)
(* The command that asks the running agent for a file (receive.py), from   *)
(* outside its process: it posts the download, polls its status, and, when *)
(* that is complete, copies the file at the path it was told to a friendly *)
(* name in its own directory.  Between the agent's answer and the end of   *)
(* the copy nothing holds the file: other downloads of the same hash go on,*)
(* and the agent may end.                                                  *)
(*                                                                         *)
(* A run of the command belongs to one download; a download may also have  *)
(* been asked for by something else.                                       *)
(***************************************************************************)
EXTENDS Downloader

VARIABLES
    client,  \* how far each run is
    source,  \* what the file it copies holds, once that was unlinked
    saved,   \* the copy under the friendly name, or NoFile
    lost     \* the agent has ended since it took on the download

clientVars == << client, source, saved >>
receiveVars == << vars, clientVars, lost >>

\* Stages of a run that has not ended, and how it ends: with the copy; without
\* it, but told where the file is; told that the download failed; or by an
\* exception, having heard nothing of the download's end.
Waiting == {"poll", "export", "copy"}
Returned == {"saved", "told", "failed", "cutoff"}

ReceiveInit ==
    /\ Init
    /\ client = [d \in Downloads |-> "none"]
    /\ source = [d \in Downloads |-> NoFile]
    /\ saved = [d \in Downloads |-> NoFile]
    /\ lost = [d \in Downloads |-> FALSE]

Turn(d, st) == client' = [client EXCEPT ![d] = st]
-----------------------------------------------------------------------------
(* The agent. *)

\* Who has the file open keeps it when it is unlinked.
KeepSource ==
    source' = [d \in Downloads |->
        IF client[d] = "copy" /\ source[d] = NoFile /\ disk' = NoFile
        THEN disk ELSE source[d]]

\* Everything in the agent but its end.
Agent ==
    /\ \E d \in Downloads : Start(d) \/ Step(d)
    /\ KeepSource
    /\ UNCHANGED << client, saved, lost >>

\* The agent ends, and with it the records of all downloads it has taken on.
AgentEnds ==
    /\ IF \E d \in Downloads : pc[d] \in Early \cup OnFile THEN Stop
       ELSE UNCHANGED vars
    /\ lost' = [d \in Downloads |-> pc[d] # "idle"]
    /\ UNCHANGED clientVars
-----------------------------------------------------------------------------
(* One run of the command. *)

\* POST /downloads.
Post(d) ==
    /\ Start(d) /\ Turn(d, "poll")
    /\ UNCHANGED << source, saved, lost >>

\* What the run does about the status of its download; mutant: it waits for
\* nothing but completion.
HeardComplete(d) == IF Status(d) = "complete" THEN {"export", "told"} ELSE {"poll"}
Heard(d) == CASE Status(d) = "complete" -> {"export", "told"}
              [] Status(d) = "failed"   -> {"failed"}
              [] OTHER                  -> {"poll"}

\* GET /downloads/{id}.  Complete: there is a name for the copy, or none.  Any
\* other status: it asks again.
Poll(d) ==
    /\ client[d] = "poll" /\ ~lost[d]
    /\ \E st \in Heard(d) : Turn(d, st)
    /\ UNCHANGED << vars, source, saved, lost >>

\* The agent is gone, or another one answers that it knows no such download
\* (404, which has no status), or none answers in time.
PollFails(d) ==
    /\ client[d] = "poll"
    /\ Turn(d, "cutoff")
    /\ UNCHANGED << vars, source, saved, lost >>

\* copy2 opens the file, if it is still there, and empties the copy.
Export(d) ==
    /\ client[d] = "export"
    /\ IF disk = NoFile THEN Turn(d, "told") /\ UNCHANGED saved
       ELSE Turn(d, "copy") /\ saved' = [saved EXCEPT ![d] = << >>]
    /\ UNCHANGED << vars, source, lost >>

\* The file the copy is taken of.
Source(d) == IF source[d] = NoFile THEN disk ELSE source[d]

CopyCell(d) ==
    /\ client[d] = "copy" /\ Len(saved[d]) < Len(Source(d))
    /\ saved' = [saved EXCEPT ![d] = Append(@, Source(d)[Len(@) + 1])]
    /\ UNCHANGED << vars, client, source, lost >>

\* Nothing more to read; mutant: the last byte is taken for the end.
CopiedEarly(d) == Len(saved[d]) + 1 >= Len(Source(d))
Copied(d) == Len(saved[d]) >= Len(Source(d))

CopyEnds(d) ==
    /\ client[d] = "copy" /\ Copied(d)
    /\ Turn(d, "saved") /\ source' = [source EXCEPT ![d] = NoFile]
    /\ UNCHANGED << vars, saved, lost >>

\* OSError: what was copied stays, and the run says where the file is.
CopyFails(d) ==
    /\ client[d] \in {"export", "copy"}
    /\ Turn(d, "told") /\ source' = [source EXCEPT ![d] = NoFile]
    /\ UNCHANGED << vars, saved, lost >>

Client(d) == Poll(d) \/ Export(d) \/ CopyCell(d) \/ CopyEnds(d)
-----------------------------------------------------------------------------
ReceiveNext ==
    \/ Agent \/ AgentEnds
    \/ \E d \in Downloads : Post(d) \/ Client(d) \/ PollFails(d) \/ CopyFails(d)

ReceiveSpec == ReceiveInit /\ [][ReceiveNext]_receiveVars

\* Downloads go on as in FairSpec; a run of the command goes on, and notices in
\* the end that its agent has gone.
ReceiveFairSpec ==
    /\ ReceiveSpec
    /\ \A d \in Downloads :
          /\ WF_receiveVars(Agent /\ Step(d))
          /\ WF_receiveVars(Client(d))
          /\ WF_receiveVars(PollFails(d) /\ lost[d])
-----------------------------------------------------------------------------
(* What must hold. *)

\* "saved as": the copy is the requested file, although it was taken some time
\* after the agent said that it is complete, unless another download changed
\* the file since this one began it, or a reply was longer than its request
\* (main, _run_download).
SavedIsRequested ==
    \A d \in Downloads :
        client[d] = "saved" /\ ~shared[d] /\ surplus[d] = 0 => saved[d] = TrueFile

\* Every run of the command returns, but for the one whose download was taken
\* by an exception that _run_download does not catch: the agent goes on to say
\* that it is running.
ReceiveEnds ==
    \A d \in Downloads :
        client[d] = "poll" ~> \/ client[d] \in Returned
                              \/ pc[d] \in {"aborted", "orphaned"} /\ ~lost[d]
=============================================================================
