# p2p_agent: models, checks and proofs

TLA+ models of the agent: its downloading and serving sides, its life at the
tracker, its key file, and the tools that share its storage; TLC runs over small
instances of them, and TLAPS proofs of what holds for every instance.  File and
line numbers are of this repository.

## The system

| Component | Code | State | Operations |
|---|---|---|---|
| Downloader | `agent/downloader.py` | `_checksum_failures`; per download: trusted peers, size, chunk tasks | `download`, `download_from_peers`, `_handshake_all`, `_fetch_file_info`, `_fetch_chunk`, `_handle_checksum_failure` |
| Control API | `agent/control_api.py` | `downloads`: a `TrackedDownload` for each request | `POST /downloads`, `_run_download`, two GETs |
| LocalStorage | `agent/storage.py` | one file per hash under the root | `exists`, `get_size`, `read_range`, `write_stream`, `preallocate`, `write_chunk_at`, `delete`, `list_files` |
| P2P server | `agent/p2p_server.py` | connection tasks; a task for each stream | handshake, file info and transfer handlers, `start`, `stop` |
| Trust engine | `agent/trust.py` | anchors, `_revocations` | `issue_*`, `apply_revoke`, `verify_chain` (the agent itself calls none of them; it reads `max_depth`) |
| Gateway client | `agent/gateway_client.py` | none (the graph is the gateway's) | `register`, `vouch_for`, `revoke`, `check_path` |
| Tracker client | `agent/tracker_client.py` | none | `register`, `keepalive`, `get_peers`, `unregister`, with a retry |
| Agent life | `agent/main.py` | `shutdown_event` | start-up, keepalive loop, shutdown |
| Identity | `agent/identity.py` | the key file | `load_or_create`, `sign`, `verify` |
| Wire format | `agent/serializer.py`, `agent/messages.py` | none | `encode`, `decode`, `decode_as` |
| Ingest tool | `devtools/ingest_file.py` | a file in the storage root and its `.meta` | hash, look, copy, describe |
| Receiving tools | `devtools/receive.py`, `devtools/download_file.py` | a copy under a friendly name | post, poll, copy |
| Other tools | `devtools/` | none | one call each: vouch, revoke, ... |

How they meet.  A request to the control API makes a task that asks the tracker
for peers, shakes hands with up to `max_peers` of them at once (each handshake
asks the gateway for a trust path), asks the first trusted one for the size,
empties and sizes the file at the path named by the hash, fetches one range
from each trusted peer with a chunk task each, checks that the ranges that came
have no gap, reads the file back and compares its hash.  The peers' P2P servers
answer each stream with a task of its own.  All of an agent's downloads and all
its serving tasks meet in **one file per hash**, and all its downloads in one
mismatch counter per peer; there is no lock anywhere.  The ingest tool writes to
the same path from another process, the receiving command copies from it, and
every program of an agent begins by loading or creating the same key file.  The
agent announces what lies in its storage root to the tracker, which forgets it
unless the announcement is renewed.

What is hard, and so what the properties are about:

* two downloads of the same hash at any two stages over one path;
* some chunk tasks failing while others write;
* a file emptied, rewritten or unlinked under an open reader, in the downloader
  and in the server;
* the end of the process at any await, and the downloads after it;
* exceptions of other types than the handler catches;
* counting a peer's mismatches across downloads, and answering each;
* the gateway's answer used after an await;
* ranges with inclusive ends at every boundary;
* a request that is tried again although its first attempt arrived, or arrives
  after it was given up, at a tracker that forgets;
* a file, or a key file, created by one step and filled by a later one, with
  other processes looking in between;
* everything ending, although `gather` waits for all tasks.

What makes each component correct:

* **Downloader**: completion means that the file is there and is the requested
  one; failure leaves nothing; every mismatch is answered; every download ends.
* **Storage**: a write changes only its range; a reader sees one file.
* **Server**: nothing is told without a trust path; a reply is one message or
  the frames of one transfer, and its checksum is of the bytes it carries.
* **Handshake**: who is accepted is who was dialled, and both ends had a path.
* **Trust engine**: a chain is accepted iff it is a path of good vouches, and a
  refused one stays refused.
* **Tracker client, agent life**: who keeps announcing stays listed, who has gone
  does not for long, who is told to stop does.
* **Identity**: one agent has one key, over all its restarts.
* **Ingest tool**: what is called ready to share is the file; a failed copy
  leaves nothing.
* **Receiving command**: what is saved is the file asked for; the command
  returns.

`PROJECT.json` lists the hazards, each at its line, with the properties that
would catch it.

## The modules

| Module | Models | Remarks |
|---|---|---|
| `LocalStorage` | the bytes of one file and what each storage call does to them | operators only |
| `Ranges` | `_split_ranges` and the gap walk | operators only, no recursion, so they can be proved about |
| `Downloader` | the downloads of one hash by one agent: control API, downloader, storage, end of the process | extends the two above |
| `VerifiedFile` | what those downloads promise about the file, with no peers, ranges or hashing | implemented by `Downloader` |
| `TrustGate` | what callers make of the gateway's answer | operators only |
| `P2PServer` | the streams of the serving side, about one hash | extends `LocalStorage` and `TrustGate` |
| `Handshake` | the handshakes of one agent's downloads, both ends of each | extends `TrustGate` |
| `TrustEngine` | `verify_chain` and the revocations it looks at | |
| `AgentLife` | `run` of `main.py`, the tracker client's requests, and the tracker's listings | time in ticks |
| `Identity` | `load_or_create` by several programs over one key file | |
| `Ingest` | runs of the ingest tool beside the agent's downloads | extends `Downloader` |
| `Receive` | runs of the receiving command beside them | extends `Downloader` |
| `MC*` | instances for TLC | |
| `*Proofs` | theorems about the module of that name | `DownloaderProofs` has those about `Ranges` and `VerifiedFile` too; `IngestProofs` and `ReceiveProofs` extend it |

### Data

One hash is enough: downloads of different hashes share only the mismatch
counter, and two downloads of one hash share it too.  A file is a sequence of
cells, each `"right"` (the byte the requested file has there) or `"wrong"`.
SHA-256 is taken to be free of collisions, so a file hashes to the requested
hash iff it is `TrueFile`.  Bytes nobody wrote are zero; `ZeroCells` says where
the requested file has a zero, so that holes that happen to be right occur.
The checksum of a sub-chunk is by the peer, of the peer's own bytes: a peer may
deliver any bytes under a matching checksum (`Replies`), or a mismatch.

### `Downloader`

One action is what a task does between two awaits, or what one `to_thread`
call does in its worker thread.  `pc[d]` names the await a download is at:
`pending` (task created), `discover` (tracker), `handshake`, `info`,
`preallocate`, `fetch` (the `gather` and the accounting after it), `open` and
`hash` (the re-read), `delete`.  `complete` and `failed` are what
`_run_download` records.  `aborted` and `orphaned` are tasks taken by an
exception other than `DownloadError` or by the end of the process: the control
API shows them as running for ever (`Status`).  An orphaned one may have left
its bytes at the path, an aborted one has not.

A chunk task's slot goes from `fetch` (request sent) to `write` (bytes in hand)
and back, to `ok`, or to `failed` or `mismatch`; `blamed` is a mismatch that
has been counted.  `Blame` goes through mismatches in the order of the tasks,
as the loop at downloader.py:484 does, each with its own await.

An open reader keeps an unlinked file (`held`), but sees an emptied and
rewritten one change under it, for `preallocate` opens with `"wb"` and unlinks
nothing.  Storage calls fail part-way: a write may store any prefix of its
data, a preallocate may empty the file and not grow it.

`offences`, `shared` and `surplus` are history variables: mismatches delivered,
whether another download changed the file since this one preallocated it, and
how many bytes it wrote beyond what it had asked for.

### `P2PServer`

A stream goes through `check` (asking the gateway), `decide`, `exists`, `stat`,
`open`, `read`, `header`, `data`, `finish`.  Between any two, `GraphChanges`
gives any peer any path, `FileWritten` replaces the file's content by any
content up to `MaxFile` bytes, and `FileRemoved` unlinks it: an
overapproximation of what the agent's own downloads and other writers do.
`StopsReading` is a peer that stays connected and reads no more (`reads`); how
much the stream still takes is left open.  A request's numbers are the sender's,
a negative start included.
`sent` is the list of frames on the stream.  `vouched` and `seen` are history:
whether there was a path at some moment since the request came, and the file as
its size was told.  One stream is enough: streams share only the graph and the
file, which the environment already changes in every way.

### `Handshake`

What is one step in `Downloader` (`HandshakeAll`) is here a task for each
candidate and the task that serves it at the peer: `connect`, `await` (the
request is at the peer), `check` (asking the gateway), `decide`.  The reply is
judged in one step, `Receive`, for `_handshake_peer` does not await between
decoding it and asking the gateway.  A nonce is named by its handshake, since
it is fresh; a signature by its signer and nonce.  A peer in `Foreign` does not
run this server: it may sign any nonce it was sent, name any sender, and pass
on what another agent signed.  A peer with `P2P_TRUST_ALL` on counts as
foreign.  `proven`, `pathTo` and `pathFrom` are history.

### `TrustEngine`

One chain is presented for one subject over and over, while `Tick` and the two
revoking functions change what it is judged by.  `Reason` is the reason of the
`TrustResult`, found in the order of the code's early returns.  Time does not
run backwards.  A revocation is of a pair of issuer and subject, not of a
vouch: a vouch issued again after it is refused too, as in the code.

### `AgentLife`

`at` is the stage of the process: `down`, `start`, `announce`, `bind`, `wait`
(the loop waits for the event or the interval), `renew`, `close`, `leave`.  In
`announce`, `renew` and `leave` a request is under way, and `flight` says how
far: sent, done (the tracker has acted on it), or in the pause between two
attempts.  `Breaks` is a transport error or the client's time-out; it may leave
the request on its way, in `late`, from where it arrives up to `Late` ticks
later, also after newer requests and after the process has gone.  `Garbled` is a
reply the client does not expect, which is not a `TrackerError`: it ends `run`
in the start, and the loop in the loop.

Time passes in `Tick`, and only when nothing is left that the event loop does at
once.  The tracker is not in the repository; it is modelled from how the client
uses it ("re-registration resets TTL"): a listing lasts `TTL` ticks after the
last request that named the file, and the tracker may forget all of them.
`kept` is what the agent may count on being listed: what its last announcement
named that arrived, as long as that did not fail in the end, the tracker forgot
nothing, and no late `unregister` came in.  `stale` is how long ago the agent
last held each file, `left` that its shutdown was confirmed, `revived` that a
request given up has listed it since.

### `Identity`

A program goes through `idle`, `load` or `create`, `fill`, `chmod`, `ready`
(it has an identity), `done` (it has registered it).  `exists` and `stored` are
the key file.  Looking for the file decides for `load` or `create`; creating it
and filling it are two steps, and the program may be killed or fail at each.
`raced` is history: two programs have created the file at the same time.

### `Ingest`

A run of the tool goes through `hash`, `look`, `open`, `copy`, `meta`, `ready`,
or through `undo` to `failed`.  It shares `disk` and nothing else with the
agent, so every action of `Downloader` is a step beside it (`Agent`).  Its
source may be edited after it was hashed (`changed`); the file it has open may
be unlinked under it (`apart`).  `copied` and `spoiled` are history: whether it
copied at all, and whether anybody else changed the file since it began.

### `Receive`

`client[d]` is the run of the command that asked for download `d`: `poll`,
`export` (told that it is complete), `copy`, and how it ends: `saved`, `told`
(where the file is), `failed`, `cutoff`.  The copy takes one cell at a time, so
that the file can be emptied, rewritten or unlinked under it; an unlinked one is
kept in `source`.  `AgentEnds` ends the agent and forgets its downloads
(`lost`).

## The runs

| Run | Instance | Shows |
|---|---|---|
| `two_downloads` | 2 downloads, 2 peers, file of 2 bytes, sizes short and right | `CompleteIsStored`, `HalfWrittenHasOwner`, `OffencesAnswered` with everything interleaving and failing, and that `Downloader` implements `VerifiedFile` (`KeepsPromise`) |
| `split_download` | 1 download, 3 peers, a file of 3 bytes, sizes zero, short, right and long (5 bytes) in sub-chunks of 2, replies up to a byte longer than asked for, fair | `TypeOK`, `CompleteIsStored`, `WritersDisjoint`, `ReadOnlyWhole`, `GapsAreReal`, `ProgressWithinSize`, `MismatchAnswered`, and `DownloadEnds`, although `gather` waits for every task |
| `serving` | 1 stream, ranges at the start, in the middle, over and past the end, empty and with a negative start, files of 0 to 3 bytes, a peer that may stop reading, fair | `TypeOK`, `ToldUnderTrust`, `HonestReply`, `FaithfulWhenSteady`, `StreamEnds` |
| `handshake_round` | 1 download, 2 peers, one foreign, fair | `TypeOK`, `AcceptedIsDialled`, `TrustIsMutual`, `NobodyLeftOut`, `HandshakesEnd` |
| `trust_chain` | 3 agents, chains of up to 3 of 9 vouches (forged, short-lived, sound), 2 revocations | `TrustedIffPath`, `TrustOnlyLapses` |
| `life` | 2 files, interval 2, time-out 1, pause 1, TTL 7, 1 tick of delay, fair | `TypeOK`, `KeptListed`, `ListingsLapse`, `CleanExit`, `ShutdownCompletes` |
| `identity` | 4 programs | `TypeOK`, `OneIdentity`, `KeyIsKept` |
| `upload` | 2 runs of the ingest tool and 1 download with 1 peer, file of 2 bytes | `CopyIsWhole`, `HalfWrittenAnswered`, and `CompleteIsStored` with the tools at the same path |
| `receive` | 2 downloads with a run of the command each, 1 peer, file of 2 bytes, fair | `SavedIsRequested`, `ReceiveEnds` |
| `same_hash_again`, `half_written_at_rest`, `over_long_reply` | smallest that do it | the disagreements below |

Bounds.  Two downloads show every interference one download can suffer from
another; three of them with one peer (6.2 million states, not among the runs)
show nothing more.  Liveness of downloads is checked of one: downloads never
wait for each other, only for their own tasks.
Two or three ranges give a first, a middle and a last one; five bytes in
sub-chunks of two give a sub-chunk that is cut off.  Sizes a peer may claim go
from zero over too short to too long.  `Threshold` is 2 where counting matters,
so that the first mismatch must not revoke.  Every counter of a download is
bounded by the number of downloads and ranges, for a download is asked for once.

`Excess` is how many bytes a reply may be longer than its request; the code sets
no bound to it (downloader.py:303 takes the length from the peer's header).  It
is 1 in `split_download` and `over_long_reply`: one byte is enough to reach the
range of the next task, or beyond the size, and a second one does nothing new.
It is 0 in the other runs.  `surplus` counts what a download has written beyond
its requests, and the properties of `split_download` say what holds in spite of
it.  Two properties hold only as long as nobody sends more than was asked for,
and say so: `HalfWrittenHasOwner`, and with it `HalfWrittenAnswered`, for a
completed download then leaves a longer file at the path, and `KeepsPromise`.

In `life`, `TTL` is the least that `LifeAssumption` allows, so that a listing
runs out at the first tick it may; `BindTime` is 0 for the same reason as
`Late` is 1, that a longer one only adds ticks, and the theorems hold for any.
In `identity`, four programs are two that race and two that come after them, or
a row of four that each meet what the one before has left.  In `receive`, every
peer claims the right size, for what a wrong one does is settled in
`two_downloads`.  No run of `Handshake` has more peers than `MaxPeers`, so that
the cut of the candidates is exercised only as far as it must keep all of them;
its theorems hold for any number.

`CHECK_DEADLOCK FALSE` stands in the runs of `Downloader` and of the two modules
that extend it because they do stop: when every download has ended nothing is
left to do.  It stands in `identity`, where programs end, and in `trust_chain`,
where time, revocations and chains are bounded.

Fairness.  `FairSpec` of `Downloader` asks that a task that can go on goes on:
the event loop runs every ready task, and worker threads finish.  A peer's, the
tracker's and the gateway's answer is part of the waiting task's step, with
giving up as one of the outcomes.  For the tracker and the gateway the clients'
timeouts justify it.  For peers nothing in this code does: `Downloader.timeout`
(downloader.py:393) is stored and never used, and `read_to_end`
(downloader.py:143) has no limit in time.  `DownloadEnds`, `MismatchAnswered` and
`ReceiveEnds` therefore rest on the transport giving up on a silent peer in the
end; what they show is that nothing inside the agent keeps a download from
ending.  Nobody has to start downloads, end the process, change the graph or
touch the file.
`FairSpec` of `Handshake` asks for less: only the steps this agent takes once a
reply has come (`Own`), and `Gather`.  No peer need answer and no transport give
up, and `HandshakesEnd` has as its condition that no peer of the round is
silent for ever (`Waiting`).  `FairSpec` of `P2PServer` asks that a task goes on
as long as it does not write to a peer that reads no more: `write_all`
(p2p_server.py:423, 443, 447, 451 and 196) waits for the peer and has no
limit in time either.  `StopsReading` is such a peer, and `StreamEnds` says that
a task ends or has come to a write to one.
`FairSpec` of `AgentLife` asks that the process goes on and that time passes: a
client gives up at its time-out, and neither the tracker nor the network owes
anything.  `ReceiveFairSpec` asks of the command that it goes on, and that it
notices an agent that has gone; the agent's downloads go on as above.

## Where the code and what is said of it differ

* **A second download of a stored hash** (`same_hash_again`).  "Only after step
  7 passes does the receiver have a file." (ARCHITECTURE.md:474).  The second
  download's `preallocate` empties the completed file, and its failure deletes
  it.
* **A half-written file at rest** (`half_written_at_rest`).  "You never end up
  with a silently corrupt or half-written file." (ARCHITECTURE.md:292).
  `preallocate` is outside the `try` block that cleans up, and nothing cleans
  up when the process ends.  `HalfWrittenHasOwner` is the part of the sentence
  that does hold: only an exception or the end of the process leaves one.
* **Two writers of the same bytes** (`over_long_reply`).  "No locking needed
  because no two writers target the same bytes." (ARCHITECTURE.md:229).  A
  payload is as long as its own header says (downloader.py:303), and is written
  whatever was asked for: with one byte too many, a chunk task holds a byte for
  the first place of the next task's range.  `WritersDisjoint` is what does
  hold: tasks whose replies are no longer than their requests never meet.  The
  whole-file hash finds what was overwritten, so the download fails; it does
  not find what lies behind the end.

These have no run of their own; the models have them as their behaviour:

* "the assembled file is re-read end to end" (ARCHITECTURE.md:469).  It is
  re-read to the size the peer gave; a reply longer than its request may have
  left more in the file.  `CompleteIsStored` says that this is the only way in
  which a completed file differs from the requested one.
* **A failure nobody hears of.**  `DownloadError` is "Raised when a download
  fails unrecoverably." (downloader.py:38), and `_run_download` catches no other
  (control_api.py:106).  `TrackerError`, `StorageError` and `OSError` end the
  task with the status still `running`: the states `aborted` and `orphaned`, to
  which `GetPeers`, `PreallocateFails`, `OpenReader`, `ReadFails` and
  `DeleteFails` lead, have that `Status`.
* The time-out of a download (downloader.py:393) is used nowhere, so that one
  peer that says nothing holds the handshakes, and the download, of all others.
* A negative `range_start` is acknowledged and fails only when the file is read
  (`Open`): nothing checks a request's numbers before.
* The endpoint is bound before the files are announced, says ARCHITECTURE.md:336;
  the code announces first (main.py:72, main.py:112).  `AgentLife` has the order
  of the code: `Announce` before `Bind`.
* The agent runs until it is signalled, says ARCHITECTURE.md:343.  An `OSError`
  from `list_files` or a garbled reply to a keepalive ends it too (`ListFails`,
  `Garbled`).
* "Call every ~peer_ttl/2 seconds" (tracker_client.py:99) is enough only if the
  other half of the TTL has room for a time-out, the binding, and a keepalive
  with its retries.  `LifeAssumption` says so, and with one tick less TLC finds
  `KeptListed` violated.
* "file already present" (ingest_file.py:35) is said of any file at the path, a
  remainder of an interrupted copy or download included.  `CopyIsWhole` speaks
  of runs that did copy.
* `list_files` names every file in the root, the `.meta` files and half-written
  ones too, and so they are announced.
* A program killed between creating the key file and filling it leaves a file
  that every later start refuses (`LoadFails`); two first starts at the same
  time both go on with a key of their own, and one of the keys is lost, which is
  why `OneIdentity` excepts `raced`.
* The receiving command asks as long as the answer is `running`, which after an
  unreported failure is for ever.  `ReceiveEnds` names that as its exception.

## What is proved

For every value of the constants that meets the modules' assumptions:

* `DownloaderProofs!SplitIsPartition`: the ranges of `_split_ranges` follow one
  another, are nonempty and cover the file exactly.  From the facts of division
  with remainder: there are `min(peers, size \div MinChunk)` ranges, at least
  one, the last of which ends at the size.
* `DownloaderProofs!TypeCorrect`: `Spec => []TypeOK`.
* `DownloaderProofs!CompleteStored`, `WritesApart`, `ProgressShown`:
  `CompleteIsStored`, `WritersDisjoint` and `ProgressWithinSize`, whatever peers
  deliver, replies longer than asked for included.
* `DownloaderProofs!HalfWrittenOwned`: `HalfWrittenHasOwner`, if `Excess = 0`.
* `DownloaderProofs!PromiseKept`: the refinement, `Spec => KeepsPromise`, if
  `Excess = 0`.
* `DownloaderProofs!ReadsWhole`, `NoGapInvented`, `MismatchesCounted`:
  `ReadOnlyWhole`, `GapsAreReal` and `OffencesAnswered`, whatever peers deliver.
* `DownloaderProofs!CompletePromise`, `PartialPromise`: the two promises of
  `VerifiedFile`, each inductive with the types.
* `IngestProofs!CopiesWhole`, `CompleteStillStored`: `CopyIsWhole` and, with the
  tools at the same path, `CompleteIsStored`, for any number of runs and
  downloads and whatever peers deliver; `HalfWrittenTold`: `HalfWrittenAnswered`,
  if `Excess = 0`.
* `ReceiveProofs!AgentAsBefore`: `ReceiveSpec => Spec`, so that what is proved
  of the downloads holds beside the command; and `SavedRequested`:
  `SavedIsRequested`.
* `P2PServerProofs!TrustNeeded`, `Honest`, `Faithful`: `ToldUnderTrust`,
  `HonestReply` and `FaithfulWhenSteady`, for any number of streams.
* `HandshakeProofs!DialledIsAccepted`, `MutualTrust`, `AllThatPass`:
  `AcceptedIsDialled`, `TrustIsMutual` and `NobodyLeftOut`, for any number of
  downloads, peers and foreign peers.
* `TrustEngineProofs!ChainIsPath`, `TrustLapses`: `TrustedIffPath` and
  `TrustOnlyLapses`, for chains of any length.
* `AgentLifeProofs!StaysListed`, `ListingsEnd`, `LeavesNothing`: `KeptListed`,
  `ListingsLapse` and `CleanExit`, for any files and all times that meet
  `LifeAssumption`.
* `IdentityProofs!StableIdentity`, `KeptKey`: `OneIdentity` and `KeyIsKept`, for
  any number of programs.
* `TypeCorrect` in the modules about `P2PServer`, `Handshake`, `AgentLife` and
  `Identity`: their `TypeOK`.

The assumptions on the constants are named and stand in the modules:
`DownloaderAssumption`, `StorageAssumption`, `MinChunkAssumption`,
`ServerAssumption`, `HandshakeAssumption`, `TrustAssumption`,
`IdentityAssumption`, `LifeAssumption`.

**The argument of `CompleteStored`.**  `CompleteIsStored` is not inductive: it
says nothing of a download before it completes.  `IndInv` adds what completion
rests on:

* `EarlyInv`: a download that has not preallocated has no task at work, and one
  past its handshakes has a trusted peer;
* `SlotInv`: every task has a peer of its own;
* `TaskInv`: a task at work stands inside its range and the range inside the
  size, by `SplitIsPartition`;
* `HeldInv`: only a reader keeps an unlinked file;
* `FileInv`: as long as no other download has changed the file, the file at the
  path has the size the download was told unless a reply was too long, the
  reader reads that file, the cells it has read are right if `good`, and a
  complete download has left a file that begins with the requested one and, if
  no reply was too long, ends with it.

`TypeOK` is the sixth part.  A reply that is no longer than its request is
written inside the size (`AskedBounds`), so such a step of
the download keeps the file's length, and any other raises `surplus`; the
re-read sees every cell up to the size once; at its end all of them are right
and there are `TrueSize` of them.  A step of another download that changes the
file sets `shared` for this one.

**Upon `IndInv`** rest the other theorems about the downloads.

* `HalfWrittenOwned`.  `OwnerInv` names a witness for a file that is neither
  absent nor the requested one (`AnswersFor`): a download lost over it, or one at
  work on it that cannot yet have verified it.  Such a one was told too short a
  size, or its size covers the file and what it has read of the file is as it
  stands, unless the file is too long for it to be verified at all.  Without
  this, the last download at work could complete over bytes it has not seen, and
  leave them to nobody.  This and the next theorem assume `Excess = 0`, from which
  `ModestInv` follows: nothing was ever written beyond a request.
* `PromiseKept` has one lemma for each abstract action (`EnterStep`,
  `CompleteStep`, `DiscardStep`, ...) that says which concrete facts make a step
  one of it, and one step for each concrete action.  Completing needs
  `OwnerInv'`: the file that stands is the verified one.
* `WritesApart`.  The ranges of different tasks are apart, because starts and
  ends of `_split_ranges` are multiples of one step, and what a task has in hand
  lies in its range if it is no more than it asked for.
* `MismatchesCounted`.  The mismatches delivered and not yet counted are those
  of a finite set of tasks (`Pending`); every step that counts one takes it out,
  every step that delivers one puts it in.
* `ReadsWhole`.  `ChunkInv` keeps every task that was started inside its range
  (`PlaceInv`: and the ranges apart), so that one that has ended well has passed
  all of it.  What the walk over the sorted chunks accepts covers the size
  (`GapFreeCovers`): of the chunks that do not end before a byte, the first one
  cannot begin after it.  That there is a first one is the least element of a
  set of numbers (`Least`), which the library gives as well-foundedness, and
  not an induction.
* `NoGapInvented` is the other direction.  `SplitInv` says that the tasks of a
  download at `fetch` are those of the split of its file, which nobody has
  changed since; if all of them end well, the split itself, in its own order, is
  the sorting of the chunks that has no gap (`SplitGapFree`).
* `ProgressShown`.  `ProgressInv`: no more bytes are reported than there are
  places the tasks have passed (`Done`) and bytes in `surplus`.  Each step of a
  task passes at least as many places as it reports without raising `surplus`,
  none of which another task passes, and all of them lie in the file.

**The assumption `Excess = 0`** is about peers, not about this agent's
downloader, and three theorems make it: `HalfWrittenOwned`, `PromiseKept` and
`HalfWrittenTold`.  `P2PServerProofs!Honest` shows that a peer running this
repository's server meets it: no more is sent than was acknowledged, and no more
acknowledged than asked for, for any ranges, sizes and changes of the file.  For
another peer it has to be assumed.

**The argument of the tool's theorems.**  The tools change the file, so `Spec`
does not hold beside them; but `IndInv` is kept (`SharedInv`), for a tool that
changes the file sets `shared` for every download, as another download would. 
`ToolInv` is what a run knows of its copy while nobody has meddled: the file is
as long as it has copied and right so far. `HalfWrittenAnswered` needs somebody
named for it whatever the others do (`AnsweredInv`): a download that
`AnswersFor` the file as above; a run that has given up, was cut off, or whose
source was edited; or one that will make the file right, which is one that
still has the path open, with a right start and nothing beyond the end.  The
last is needed when two runs copy at once: the one that ends first leaves the
answer to the other, and without the right start that one could end over bytes
it never wrote.  `ReadWithin` is the part of `OwnerInv` that the tools leave
true.

**The argument of the receiving command.**  A run posts a
download (`Start`) and otherwise leaves the agent's variables alone, and
`AgentEnds` is `Stop`, which is `AgentAsBefore`.  A
copying run's download is complete and stays so (`CopyInv`); as long as no other
download has changed its file, that is the path's, it is `TrueFile`, and what
was copied is the start of it.

**The argument of the server's theorems.**  Streams do not act on each other, so
`IndInv` speaks of each alone: what its task was asked and whether it was judged
under a path (`Judged`), that the size it goes by covers the range, which does
not begin before the file once that is read (`Measured`), what it has open
(`Opened`), and that the frames it has sent are those of its phase (`Framed`).
`Faithful` needs one more: as long as the file
has stayed as it was when its size was told, what was read is the part of it
that was acknowledged.

**The argument of the agent's theorems** is an account of time.  For every stage
`Ahead` is what the process may still take until its next request has been
delivered or given up, and the invariant (`Renewed`) says that the listings it
counts on last longer than its clock and that.  The longest way is that from an
announcement delivered at once: the rest of its time-out, binding, the wait, and
a keepalive with all its attempts, which is the bound in `LifeAssumption`; it is
tight.  `Fresh` is the account from the other side: of every request under way
or given up, how old the sight of the files it names can be, against what is
left of a listing.  `Gone` says what a confirmed `unregister` leaves.

**The argument of the identity theorems.**  While nobody has raced, whoever is
about to create the file is alone and there is none (`CreatesAlone`), whoever
fills it is alone and it is empty (`FillsAlone`), and what is in use is what is
stored (`InUseIsStored`).

**The argument of the handshake theorems.**  Acceptance rests on what two tasks
and two answers settled before, so `IndInv` follows each: a handshake begins
once and its request is served once (`Order`); a reply carries only signatures
that were made, and a reply of this server only under a path (`Served`); a
handshake past `await` has a reply that proves this nonce and names the
dialled peer, and an answer of the gateway that means trust was a path at some
moment since the reply came (`Shaken`).  For `AllThatPass`, `RoundInv` follows
the lists instead: only a candidate's handshake ever begins, and a round is done
only when those of all candidates have ended, after which nobody is accepted any
more.  That the tracker names finitely many peers is part of
`HandshakeAssumption`.

**The argument of the chain theorems.**  A chain that passes leads through its
root issuer and then the subjects of its vouches, which is the path asked for;
a path of good vouches has no flaw at any depth, so no early return is taken.
No induction is needed, for the path is given outright.  `TrustLapses` follows:
revocations only grow and time only passes, so what is a path now was one
before.

**Only model-checked**: liveness (`DownloadEnds`, `MismatchAnswered`,
`StreamEnds`, `HandshakesEnd`, `ShutdownCompletes`, `ReceiveEnds`) is out of the
prover's reach, as are ENABLED and induction over data.  Every invariant and
every other action property that a run checks is stated by a theorem; that the
three disagreements above are disagreements is TLC's finding.

## What is not modelled

`PROJECT.json` gives a reason for each component.  In short: JSON, base64,
signatures and the transport are taken to do what they say; the tracker is
assumed to name an agent once; the `.meta` file decides nothing but a name;
reading configuration keeps no state; `vouch_for` appears as a change of the
graph; the handshake that `P2P_TEST_HANDSHAKE_PEER` asks for is a test aid.
`download_file.py` runs a `Downloader` in a process of its own: to the file it
is one more of `Downloader`'s downloads, but its counters of mismatches are its
own.  `HTTPStorageAdapter` is spoken of and not in the repository.
A write by a worker thread that outlives the cancellation of its task, which
may land after the process began to stop, is not told from one before it.

`P2PServer` is not composed with `Downloader`: its environment changes the file
and the graph in every way, those of the downloads included, so that what is
shown of it holds beside them.

## What could come next

1. Instances of `Ingest` and `Receive` with several peers to a download.
2. `KeepsPromise` with the tools beside the downloads: it needs a `VerifiedFile`
   in which somebody else may change the file.
3. A second agent that serves a file while it is being downloaded, end to end,
   should the server come to do more than read what is at the path.
