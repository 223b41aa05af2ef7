----------------------------- MODULE Downloader -----------------------------
(***************************************************************************)
(* The downloads of ONE file hash by one agent: control_api.py starts      *)
(* them, Downloader (downloader.py) runs them, LocalStorage (storage.py)   *)
(* holds the one file they all write to.  Each download is an asyncio task *)
(* of its own; an action is what a task does between two awaits, or what a *)
(* storage call does in the worker thread it is handed to.                 *)
(*                                                                         *)
(* Nothing in the code keeps two downloads of one hash apart, so all of    *)
(* them may be running, at any stage, over the same path.                  *)
(***************************************************************************)
EXTENDS LocalStorage, Ranges, FiniteSets

CONSTANTS
    Downloads,  \* the downloads asked of the control API
    Peers,      \* the agents the tracker may name
    Sizes,      \* the sizes a peer may answer to FileInfoRequest
    SubChunk,   \* SUB_CHUNK_SIZE
    MaxPeers,   \* max_peers
    Threshold,  \* auto_revoke_threshold
    Excess      \* how many bytes more than asked a peer may deliver

ASSUME DownloaderAssumption ==
    /\ Sizes \subseteq Nat
    /\ SubChunk \in Nat \ {0}
    /\ MaxPeers \in Nat \ {0}
    /\ Threshold \in Nat \ {0}
    /\ Excess \in Nat

VARIABLES
    disk,      \* the file at the path named by the hash, or NoFile
    pc,        \* how far each download is
    trusted,   \* the peers that passed its handshake
    size,      \* the file size the first of them gave
    task,      \* its chunk tasks, one slot for each trusted peer
    bytes,     \* bytes reported through on_bytes
    read,      \* bytes of the re-read hashed so far
    good,      \* whether all of those were right
    held,      \* what an open reader holds once its file was unlinked
    failures,  \* _checksum_failures
    revoked,   \* peers whose vouch this process asked the gateway to revoke
    offences,  \* history: mismatching sub-chunks a peer delivered
    shared,    \* history: another download changed the file after this
               \* one preallocated it
    surplus    \* history: bytes it wrote, or tried to write, beyond what it
               \* had asked for

vars == << disk, pc, trusted, size, task, bytes, read, good, held, failures,
           revoked, offences, shared, surplus >>

fileVars  == << disk, held, shared, surplus >>
blameVars == << failures, revoked, offences >>
readVars  == << read, good >>

Slots == 1..MaxPeers
TrustedLists == UNION {[1..n -> Peers] : n \in 0..MaxPeers}

\* Stages in which the file at the path may be this download's doing.
OnFile == {"fetch", "open", "hash", "delete"}
Early  == {"pending", "discover", "handshake", "info", "preallocate"}
\* An exception other than DownloadError, or the end of the process, took the
\* task.  orphaned: what it wrote may still be at the path; aborted: it wrote
\* nothing, or the file was emptied or removed since.
Ended  == {"complete", "failed", "aborted", "orphaned"}

\* DownloadStatus as GET /downloads/{id} shows it: _run_download catches
\* DownloadError and nothing else.
Status(d) == CASE pc[d] = "pending"  -> "pending"
               [] pc[d] = "complete" -> "complete"
               [] pc[d] = "failed"   -> "failed"
               [] OTHER              -> "running"

NoTask == [st |-> "off", lo |-> 0, hi |-> 0, pos |-> 0, data |-> << >>]

\* What one request of a chunk task asks for: at most SubChunk bytes from pos.
Asked(t) == Lesser(t.pos + SubChunk - 1, t.hi) - t.pos + 1

\* How much longer than that the answer is.
Beyond(t) == Greater(Len(t.data) - Asked(t), 0)

\* Where the task goes on: the position moves by what was asked, whatever the
\* length of the answer.  Mutants: the last byte is asked for again; the
\* position moves by what was received.
NextPosRepeating(t) == t.pos + Asked(t) - 1
NextPosReceived(t) == t.pos + Len(t.data)
NextPos(t) == t.pos + Asked(t)

\* What a peer may deliver under a checksum of its own making.  The length
\* is the one its header gives (raw_bytes), which nothing compares with the
\* request: Excess, how much longer it may be, is a bound of the model.
Replies(t) ==
    {r \in UNION {[1..n -> Cell] : n \in 0..(Asked(t) + Excess)} :
        \A i \in DOMAIN r : r[i] = "right" => t.pos + i <= TrueSize}

Settled(d) == \A i \in Slots : task[d][i].st \notin {"fetch", "write"}
Mismatches(d) == {i \in Slots : task[d][i].st = "mismatch"}
\* The mismatches of a download are answered before anything else; the mutant
\* looks for gaps at once.
AnsweredAtOnce(d) == Settled(d)
Answered(d) == Settled(d) /\ Mismatches(d) = {}
Delivered(d) == {task[d][i] : i \in {j \in Slots : task[d][j].st = "ok"}}

Goto(d, stage) == pc' = [pc EXCEPT ![d] = stage]

\* The same where d empties or removes the file: orphans leave nothing behind.
GotoAfresh(d, stage) ==
    pc' = [e \in Downloads |-> IF e = d THEN stage
                               ELSE IF pc[e] = "orphaned" THEN "aborted"
                               ELSE pc[e]]

\* The file becomes f by d's doing; every other download is told in history.
Store(d, f) ==
    /\ disk' = f
    /\ shared' = [e \in Downloads |-> IF e = d \/ f = disk THEN shared[e]
                                      ELSE TRUE]

\* The same by opening it with "wb": nothing older is left in it.
StoreAnew(d, f) ==
    /\ disk' = f
    /\ shared' = [e \in Downloads |-> IF e = d THEN FALSE
                                      ELSE shared[e] \/ f # disk]

Init ==
    /\ disk \in {NoFile, TrueFile}
    /\ pc = [d \in Downloads |-> "idle"]
    /\ trusted = [d \in Downloads |-> << >>]
    /\ size = [d \in Downloads |-> 0]
    /\ task = [d \in Downloads |-> [i \in Slots |-> NoTask]]
    /\ bytes = [d \in Downloads |-> 0]
    /\ read = [d \in Downloads |-> 0]
    /\ good = [d \in Downloads |-> TRUE]
    /\ held = [d \in Downloads |-> NoFile]
    /\ failures = [p \in Peers |-> 0]
    /\ revoked = {}
    /\ offences = [p \in Peers |-> 0]
    /\ shared = [d \in Downloads |-> FALSE]
    /\ surplus = [d \in Downloads |-> 0]
-----------------------------------------------------------------------------
(* Finding and checking peers: nothing on disk changes yet. *)

\* POST /downloads creates the record and the task.
Start(d) ==
    /\ pc[d] = "idle"
    /\ Goto(d, "pending")
    /\ UNCHANGED << fileVars, blameVars, readVars, trusted, size, task, bytes >>

\* The event loop gives the task its first turn.
Run(d) ==
    /\ pc[d] = "pending"
    /\ Goto(d, "discover")
    /\ UNCHANGED << fileVars, blameVars, readVars, trusted, size, task, bytes >>

\* The tracker names candidates, names none, or cannot be asked: TrackerError
\* is no DownloadError.
GetPeers(d) ==
    /\ pc[d] = "discover"
    /\ \E stage \in {"handshake", "failed", "aborted"} : Goto(d, stage)
    /\ UNCHANGED << fileVars, blameVars, readVars, trusted, size, task, bytes >>

\* The first MaxPeers candidates are shaken hands with at once; those that
\* pass are kept in their order.
HandshakeAll(d) ==
    /\ pc[d] = "handshake"
    /\ \E ps \in TrustedLists :
          /\ \A i, j \in DOMAIN ps : i # j => ps[i] # ps[j]
          /\ trusted' = [trusted EXCEPT ![d] = ps]
          /\ Goto(d, IF ps = << >> THEN "failed" ELSE "info")
    /\ UNCHANGED << fileVars, blameVars, readVars, size, task, bytes >>

\* The first trusted peer says how long the file is, or the request fails.
FetchFileInfo(d) ==
    /\ pc[d] = "info"
    /\ \/ \E sz \in Sizes :
             /\ size' = [size EXCEPT ![d] = sz]
             /\ Goto(d, "preallocate")
       \/ /\ Goto(d, "failed")
          /\ UNCHANGED size
    /\ UNCHANGED << fileVars, blameVars, readVars, trusted, task, bytes >>
-----------------------------------------------------------------------------
(* Fetching the file, a task for each range. *)

\* The chunk tasks of a download that just split its file.
NewTasks(d) ==
    LET ranges == SplitRanges(size[d], Len(trusted[d]))
    IN  [i \in Slots |->
            IF i \in 1..Len(ranges)
            THEN [st |-> "fetch", lo |-> ranges[i].lo, hi |-> ranges[i].hi,
                  pos |-> ranges[i].lo, data |-> << >>]
            ELSE NoTask]

\* preallocate empties whatever file was at the path and gives it its size.
Preallocate(d) ==
    /\ pc[d] = "preallocate"
    /\ StoreAnew(d, Preallocated(size[d]))
    /\ task' = [task EXCEPT ![d] = NewTasks(d)]
    /\ GotoAfresh(d, "fetch")
    /\ UNCHANGED << blameVars, readVars, held, surplus, trusted, size, bytes >>

\* It raises StorageError outside the try block: the file was not opened, or
\* was emptied and not grown.
PreallocateFails(d) ==
    /\ pc[d] = "preallocate"
    /\ \/ Goto(d, "aborted") /\ Store(d, disk)
       \/ GotoAfresh(d, "orphaned") /\ StoreAnew(d, << >>)
    /\ UNCHANGED << blameVars, readVars, held, surplus, trusted, size, task, bytes >>

\* A sub-chunk arrives and matches the checksum in its own header.
FetchOk(d, i) ==
    /\ pc[d] = "fetch" /\ task[d][i].st = "fetch"
    /\ \E r \in Replies(task[d][i]) :
          task' = [task EXCEPT ![d][i].st = "write", ![d][i].data = r]
    /\ UNCHANGED << fileVars, blameVars, readVars, pc, trusted, size, bytes >>

\* Connecting fails, the transport fails, the peer rejects the request or
\* answers with an error, or its frames do not decode: the task is over.
FetchFails(d, i) ==
    /\ pc[d] = "fetch" /\ task[d][i].st = "fetch"
    /\ task' = [task EXCEPT ![d][i].st = "failed"]
    /\ UNCHANGED << fileVars, blameVars, readVars, pc, trusted, size, bytes >>

\* The bytes do not match the peer's own checksum: ChecksumMismatchError.
FetchMismatch(d, i) ==
    /\ pc[d] = "fetch" /\ task[d][i].st = "fetch"
    /\ task' = [task EXCEPT ![d][i].st = "mismatch"]
    /\ offences' = [offences EXCEPT ![trusted[d][i]] = @ + 1]
    /\ UNCHANGED << fileVars, readVars, pc, trusted, size, bytes, failures,
                    revoked >>

\* write_chunk_at, on_bytes, and on to the next sub-chunk of the range.
WriteChunk(d, i) ==
    LET t == task[d][i]
    IN  /\ pc[d] = "fetch" /\ t.st = "write"
        /\ disk # NoFile
        /\ Store(d, Written(disk, t.pos, t.data))
        /\ bytes' = [bytes EXCEPT ![d] = @ + Len(t.data)]
        /\ surplus' = [surplus EXCEPT ![d] = @ + Beyond(t)]
        /\ task' = [task EXCEPT ![d][i] =
                      [t EXCEPT !.st = IF NextPos(t) <= t.hi THEN "fetch" ELSE "ok",
                                !.pos = NextPos(t), !.data = << >>]]
        /\ UNCHANGED << blameVars, readVars, pc, held, trusted, size >>

\* write_chunk_at raises StorageError: the file is not there, or the disk
\* took only the first bytes.  gather keeps the exception as a result.
WriteFails(d, i) ==
    LET t == task[d][i]
    IN  /\ pc[d] = "fetch" /\ t.st = "write"
        /\ \/ disk = NoFile /\ Store(d, disk)
           \/ /\ disk # NoFile
              /\ \E n \in 0..Len(t.data) :
                    Store(d, Written(disk, t.pos, SubSeq(t.data, 1, n)))
        /\ surplus' = [surplus EXCEPT ![d] = @ + Beyond(t)]
        /\ task' = [task EXCEPT ![d][i].st = "failed", ![d][i].data = << >>]
        /\ UNCHANGED << blameVars, readVars, pc, held, trusted, size, bytes >>

\* From how many mismatches on a peer is revoked; the mutant is one late.
PunishableLate(count) == count > Threshold
Punishable(count) == ~(count < Threshold)

\* All tasks are done and one ended in a mismatch: _handle_checksum_failure
\* counts it and, from the threshold on, asks the gateway to revoke.  Whether
\* the gateway can be reached does not matter here.
Blame(d, i) ==
    LET p == trusted[d][i]
    IN  /\ pc[d] = "fetch" /\ Settled(d)
        /\ i \in Mismatches(d) /\ \A j \in Mismatches(d) : i <= j
        /\ failures' = [failures EXCEPT ![p] = @ + 1]
        /\ revoked' = IF Punishable(failures[p] + 1) THEN revoked \cup {p}
                      ELSE revoked
        /\ task' = [task EXCEPT ![d][i].st = "blamed"]
        /\ UNCHANGED << fileVars, readVars, pc, trusted, size, bytes, offences >>

\* A gap raises DownloadError, whose handler removes the file; the mutant fails
\* without removing it.
OnGapKeeping == "failed"
OnGap == "delete"

\* The gap check over the chunks that came back.
Assess(d) ==
    /\ pc[d] = "fetch" /\ Answered(d)
    /\ Goto(d, IF GapFree(Delivered(d), size[d]) THEN "open" ELSE OnGap)
    /\ UNCHANGED << fileVars, blameVars, readVars, trusted, size, task, bytes >>
-----------------------------------------------------------------------------
(* Hashing what is on disk. *)

\* The file an open reader reads: an unlinked one lives on under its handle.
Reading(d) == IF held[d] = NoFile THEN disk ELSE held[d]

\* read_range opens the file, if it is there; FileNotFoundError otherwise.
OpenReader(d) ==
    /\ pc[d] = "open"
    /\ IF disk = NoFile THEN Goto(d, "aborted") ELSE Goto(d, "hash")
    /\ read' = [read EXCEPT ![d] = 0]
    /\ good' = [good EXCEPT ![d] = TRUE]
    /\ UNCHANGED << fileVars, blameVars, trusted, size, task, bytes >>

\* One read of the re-read, up to the size or the end of the file.
ReadCell(d) ==
    /\ pc[d] = "hash"
    /\ read[d] < Lesser(size[d], Len(Reading(d)))
    /\ read' = [read EXCEPT ![d] = @ + 1]
    /\ good' = [good EXCEPT ![d] = @ /\ Reading(d)[read[d] + 1] = "right"]
    /\ UNCHANGED << fileVars, blameVars, pc, trusted, size, task, bytes >>

\* Opening or reading raises OSError: nothing catches it.
ReadFails(d) ==
    /\ pc[d] \in {"open", "hash"}
    /\ Goto(d, "orphaned")
    /\ held' = [held EXCEPT ![d] = NoFile]
    /\ UNCHANGED << blameVars, readVars, disk, shared, surplus, trusted, size,
                    task, bytes >>

\* The bytes read hash to the requested hash; the mutant stops at the size the
\* peer gave.
VerifiedToSize(d) == good[d]
Verified(d) == good[d] /\ read[d] = TrueSize

\* The hash of what was read is the requested one, or the file goes.
FinishHash(d) ==
    /\ pc[d] = "hash"
    /\ read[d] >= Lesser(size[d], Len(Reading(d)))
    /\ Goto(d, IF Verified(d) THEN "complete" ELSE "delete")
    /\ held' = [held EXCEPT ![d] = NoFile]
    /\ UNCHANGED << blameVars, readVars, disk, shared, surplus, trusted, size,
                    task, bytes >>

\* delete: unlink, missing_ok.  Readers that have the file open keep it.
Delete(d) ==
    /\ pc[d] = "delete"
    /\ Store(d, NoFile)
    /\ held' = [e \in Downloads |-> IF pc[e] = "hash" /\ held[e] = NoFile
                                    THEN disk ELSE held[e]]
    /\ GotoAfresh(d, "failed")
    /\ UNCHANGED << blameVars, readVars, surplus, trusted, size, task, bytes >>

\* unlink raises OSError in the place of the DownloadError being handled.
DeleteFails(d) ==
    /\ pc[d] = "delete"
    /\ Goto(d, "orphaned")
    /\ UNCHANGED << fileVars, blameVars, readVars, trusted, size, task, bytes >>
-----------------------------------------------------------------------------
\* The process ends, by a signal or a crash: every task ends where it is
\* (CancelledError is no DownloadError) and the counters with it.
Stop ==
    /\ \E d \in Downloads : pc[d] \in Early \cup OnFile
    /\ pc' = [d \in Downloads |-> IF pc[d] \in Early THEN "aborted"
                                  ELSE IF pc[d] \in OnFile THEN "orphaned"
                                  ELSE pc[d]]
    /\ held' = [d \in Downloads |-> NoFile]
    /\ failures' = [p \in Peers |-> 0]
    /\ offences' = [p \in Peers |-> 0]
    /\ revoked' = {}
    /\ UNCHANGED << readVars, disk, shared, surplus, trusted, size, task, bytes >>

\* What download d does on its own.
Step(d) ==
    \/ Run(d) \/ GetPeers(d) \/ HandshakeAll(d) \/ FetchFileInfo(d)
    \/ Preallocate(d) \/ PreallocateFails(d)
    \/ \E i \in Slots : \/ FetchOk(d, i) \/ FetchFails(d, i) \/ FetchMismatch(d, i)
                        \/ WriteChunk(d, i) \/ WriteFails(d, i) \/ Blame(d, i)
    \/ Assess(d)
    \/ OpenReader(d) \/ ReadCell(d) \/ ReadFails(d) \/ FinishHash(d)
    \/ Delete(d) \/ DeleteFails(d)

Next == Stop \/ \E d \in Downloads : Start(d) \/ Step(d)

Spec == Init /\ [][Next]_vars

\* The event loop runs every task that can go on, and every answer awaited
\* comes or is given up by the transport: that is assumed, since the code puts
\* no time limit of its own on it.  Requests to the control API and the end of
\* the process are nobody's duty.
FairSpec == Spec /\ \A d \in Downloads : WF_vars(Step(d))
-----------------------------------------------------------------------------
(* What must hold. *)

Task == [st : {"off", "fetch", "write", "ok", "failed", "mismatch", "blamed"},
         lo : Nat, hi : Nat, pos : Nat, data : Seq(Cell)]

\* Every variable holds a value of its kind.
TypeOK ==
    /\ disk \in Seq(Cell) \cup {NoFile}
    /\ pc \in [Downloads -> {"idle"} \cup Early \cup OnFile \cup Ended]
    /\ trusted \in [Downloads -> TrustedLists]
    /\ size \in [Downloads -> Nat]
    /\ task \in [Downloads -> [Slots -> Task]]
    /\ bytes \in [Downloads -> Nat]
    /\ read \in [Downloads -> Nat]
    /\ good \in [Downloads -> BOOLEAN]
    /\ held \in [Downloads -> Seq(Cell) \cup {NoFile}]
    /\ failures \in [Peers -> Nat]
    /\ revoked \subseteq Peers
    /\ offences \in [Peers -> Nat]
    /\ shared \in [Downloads -> BOOLEAN]
    /\ surplus \in [Downloads -> Nat]

\* The requested file stands at the path, more bytes behind it or not.
BeginsTrue ==
    /\ disk # NoFile /\ TrueSize <= Len(disk)
    /\ \A k \in 1..TrueSize : disk[k] = "right"

\* A completed download whose file no other download has changed has left
\* exactly the requested file on disk, however many ranges were fetched at
\* once, in whatever order they were written, and whatever its peers put in
\* them, unless one of them sent more than it was asked for: the file then
\* begins with the requested one (download_from_peers, end to end).
CompleteIsStored ==
    \A d \in Downloads :
        pc[d] = "complete" /\ ~shared[d] =>
            /\ BeginsTrue
            /\ surplus[d] = 0 => disk = TrueFile

\* As long as no peer sends more than it was asked for, a file that is not
\* the requested one has somebody to answer for it: a download that still
\* fetches, checks or deletes, or one that an exception or the end of the
\* process took.  A download that ended by itself, complete or failed, leaves
\* no path half written, even among other downloads, and a download that
\* begins after a crash makes up for what the crash left.  (A completed one
\* does leave a longer file where a reply was too long.)
HalfWrittenHasOwner ==
    disk \notin {NoFile, TrueFile} =>
        \E d \in Downloads : pc[d] \in OnFile \cup {"orphaned"}

\* The places of the file a task is about to write to.
Places(t) == (t.pos + 1)..(t.pos + Len(t.data))

\* Chunk tasks of a download get in each other's way, or out of the file, only
\* by a reply longer than what was asked for: as long as the bytes two tasks
\* have in hand are no more than they asked for, they are for different places,
\* and all of them inside the size, whatever any reply before them was like
\* (write_chunk_at: "DIFFERENT offsets").
WritersDisjoint ==
    \A d \in Downloads :
        pc[d] = "fetch" =>
            LET modest == {i \in Slots : Beyond(task[d][i]) = 0}
            IN  \A i, j \in modest :
                    /\ Places(task[d][i]) \subseteq 1..size[d]
                    /\ i # j => Places(task[d][i]) \cap Places(task[d][j]) = {}

\* The re-read starts only when every range of the split came back: a task
\* that failed in any way always leaves a gap the walk over the sorted chunks
\* finds, also at the end of the file.
ReadOnlyWhole ==
    \A d \in Downloads :
        pc[d] \in {"open", "hash", "complete"} =>
            /\ \A i \in Slots : task[d][i].st \in {"off", "ok"}
            /\ \A b \in 0..(size[d] - 1) :
                  \E i \in Slots : /\ task[d][i].st = "ok"
                                   /\ b \in task[d][i].lo..task[d][i].hi

\* Nor does the walk find gaps that are not there: a file that was fetched is
\* given up unread only if a task of its own failed, or if it is empty, which
\* leaves no range to fetch (download_from_peers).
GapsAreReal ==
    [][\A d \in Downloads :
          pc[d] = "fetch" /\ pc'[d] = "delete" =>
              \/ size[d] = 0
              \/ \E i \in Slots : task[d][i].st \in {"failed", "blamed"}]_vars

\* The progress shown passes the size shown by no more than what peers have
\* sent beyond what they were asked for, which on_bytes counts like the rest:
\* nothing of the file is counted twice, and a short reply hides no surplus
\* (on_bytes, on_size_known).
ProgressWithinSize == \A d \in Downloads : bytes[d] <= size[d] + surplus[d]

\* Mismatches of peer p that its download has yet to account for.
Pending(p) ==
    {x \in Downloads \X Slots : /\ pc[x[1]] = "fetch"
                               /\ x[2] \in Mismatches(x[1])
                               /\ trusted[x[1]][x[2]] = p}

\* No mismatch is lost or counted twice, however the downloads that meet one
\* peer interleave; and the peer is revoked once the threshold is counted,
\* never before (_handle_checksum_failure).
OffencesAnswered ==
    \A p \in Peers :
        /\ offences[p] = failures[p] + Cardinality(Pending(p))
        /\ p \in revoked <=> offences[p] - Cardinality(Pending(p)) >= Threshold

\* What the file and a download look like to VerifiedFile.
StoredAs == CASE disk = NoFile   -> "absent"
              [] disk = TrueFile -> "whole"
              [] OTHER           -> "partial"
PhaseOf(d) == CASE pc[d] \in {"complete", "failed"}   -> pc[d]
                [] pc[d] \in {"aborted", "orphaned"}  -> "lost"
                [] pc[d] \in OnFile                   -> "working"
                [] OTHER                              -> "waiting"

Promise == INSTANCE VerifiedFile
           WITH file <- StoredAs,
                phase <- [d \in Downloads |-> PhaseOf(d)],
                mixed <- shared

\* As long as no peer sends more than it was asked for, the downloader, with
\* all its awaits, keeps the promise of VerifiedFile: every step of a download
\* is one VerifiedFile allows, or changes nothing of what VerifiedFile sees.
KeepsPromise == Promise!Spec

\* A download that was started comes to an end: the waits of its tasks for
\* each other, for the file and for the gateway never form a circle.
DownloadEnds ==
    \A d \in Downloads : pc[d] = "pending" ~> pc[d] \in Ended

\* A peer whose bytes did not match its checksum is brought to account,
\* unless the process ends first; a failing sibling task does not save it.
MismatchAnswered ==
    \A d \in Downloads, i \in Slots :
        task[d][i].st = "mismatch" ~> \/ task[d][i].st = "blamed"
                                       \/ pc[d] \in {"orphaned", "aborted"}
-----------------------------------------------------------------------------
(* What the repository says of the program and the code does not keep. *)

\* "Only after step 7 passes does the receiver have a file": a download that
\* reports complete has its file.  Another download of the same hash empties,
\* rewrites and may remove it.
CompleteHasFile ==
    \A d \in Downloads : pc[d] = "complete" => disk = TrueFile

\* "You never end up with a silently corrupt or half-written file": with no
\* download under way the path holds the file or nothing.  preallocate stands
\* outside the try block, and nothing cleans up after the process ends.
NothingHalfWritten ==
    (\A d \in Downloads : pc[d] \in {"idle"} \cup Ended)
        => disk \in {NoFile, TrueFile}

\* "No locking needed because no two writers target the same bytes": what two
\* chunk tasks of a download have in hand is for different places.  A reply
\* that is longer than its request reaches into the range of the next task.
NoSharedBytes ==
    \A d \in Downloads : \A i, j \in Slots :
        i # j => Places(task[d][i]) \cap Places(task[d][j]) = {}
=============================================================================
