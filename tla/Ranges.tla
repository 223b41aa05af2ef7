------------------------------- MODULE Ranges -------------------------------
(***************************************************************************)
(* How the downloader divides a file among its peers, and how it decides   *)
(* afterwards that what came back has no gap (downloader.py).              *)
(***************************************************************************)
EXTENDS Integers, Sequences, FiniteSets

CONSTANT MinChunk   \* MIN_CHUNK_SIZE

ASSUME MinChunkAssumption == MinChunk \in Nat \ {0}

\* How many ranges a file of sz bytes is cut into for n peers: no more than
\* one for every MinChunk bytes, and at least one.
RangeCount(sz, n) ==
    LET affordable == IF sz \div MinChunk < 1 THEN 1 ELSE sz \div MinChunk
    IN  IF affordable <= n THEN affordable ELSE n

\* The inclusive end of the i-th range; the mutant takes it for exclusive.
LastOfExclusive(i, chunk) == i * chunk
LastOf(i, chunk) == i * chunk - 1

\* An empty file has no range; the mutant gives it one.
EmptyNever(sz) == FALSE
Empty(sz) == sz = 0

\* _split_ranges: equal ranges, inclusive at both ends, the last one takes
\* what the division leaves over.
SplitRanges(sz, n) ==
    LET actual == RangeCount(sz, n)
        chunk  == sz \div actual
    IN  IF Empty(sz) THEN << >> ELSE
        [i \in 1..actual |->
            [lo |-> (i - 1) * chunk,
             hi |-> IF i < actual THEN LastOf(i, chunk) ELSE sz - 1]]

\* chunks.sort(key=range_start): a list of all chunks, none twice, by their starts.
Ascending(s) ==
    \A i, j \in DOMAIN s : i < j => s[i] # s[j] /\ s[i].lo <= s[j].lo

\* Each sorted chunk starts where the one before ended, the first at 0; the
\* mutant takes the end for exclusive.
JoinedExclusive(s) == s[1].lo = 0 /\ \A k \in 2..Len(s) : s[k].lo = s[k - 1].hi
Joined(s) == s[1].lo = 0 /\ \A k \in 2..Len(s) : s[k].lo = s[k - 1].hi + 1

\* The walk over the sorted chunks; the mutant forgets to compare the place
\* where it ends with the size.
GapFreeButTail(chunks, sz) ==
    /\ chunks # {}
    /\ \E s \in [1..Cardinality(chunks) -> chunks] : Ascending(s) /\ Joined(s)
GapFree(chunks, sz) ==
    /\ chunks # {}
    /\ \E s \in [1..Cardinality(chunks) -> chunks] :
          /\ Ascending(s) /\ Joined(s)
          /\ s[Len(s)].hi + 1 = sz
=============================================================================
