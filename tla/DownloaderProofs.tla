-------------------------- MODULE DownloaderProofs --------------------------
(***************************************************************************)
(* Theorems about Downloader for any number of downloads, peers, bytes and *)
(* ranges.                                                                 *)
(*                                                                         *)
(* A download whose file nobody else changes knows the file: the part the  *)
(* re-read has passed is right as long as the re-read says so, and the     *)
(* file has the size it was preallocated with, unless a reply was longer   *)
(* than its request.  This does not follow from the state of the re-read   *)
(* alone, so the invariant carries the file from the first write to the    *)
(* last read.                                                              *)
(*                                                                         *)
(* Upon this rests what a completed download has stored.  Like what the    *)
(* tasks write apart, how far the progress shown may go, that mismatches   *)
(* are counted, that only a whole file is read and that no gap is found    *)
(* where there is none, it holds whatever peers deliver.  Who answers for  *)
(* a half-written file, and that the downloads implement VerifiedFile,     *)
(* needs peers that send no more than they are asked for: Excess = 0.  The *)
(* first section is about Ranges, the last about the promises of           *)
(* VerifiedFile.                                                           *)
(***************************************************************************)
EXTENDS Downloader, SequenceTheorems, FiniteSetTheorems, WellFoundedInduction, TLAPS
-----------------------------------------------------------------------------
(* How a file is cut into ranges. *)

\* Whole division: a * (s \div a) is at most s and misses it by less than a.
LEMMA Division ==
    ASSUME NEW s \in Nat, NEW a \in Nat \ {0}
    PROVE  /\ s \div a \in Nat
           /\ a * (s \div a) <= s
           /\ s < a * (s \div a) + a
           /\ s \div a <= s
           /\ a <= s => s \div a >= 1
  OBVIOUS

\* There is at least one range, no more than peers, and no more than bytes.
LEMMA RangeCountBounds ==
    ASSUME NEW sz \in Nat \ {0}, NEW n \in Nat \ {0}
    PROVE  RangeCount(sz, n) \in 1..n /\ RangeCount(sz, n) <= sz
  <1>1. sz \div MinChunk \in Nat /\ sz \div MinChunk <= sz
    BY MinChunkAssumption, Division
  <1> QED
    BY <1>1 DEF RangeCount

\* The ranges as an explicit function.
LEMMA SplitRangesShape ==
    ASSUME NEW sz \in Nat \ {0}, NEW n \in Nat \ {0}
    PROVE  LET a == RangeCount(sz, n)
               c == sz \div a
           IN  SplitRanges(sz, n) =
                 [i \in 1..a |-> [lo |-> (i - 1) * c,
                                  hi |-> IF i < a THEN i * c - 1 ELSE sz - 1]]
  BY DEF SplitRanges, Empty, LastOf

\* An empty file is cut into nothing.
LEMMA SplitRangesOfNothing ==
    ASSUME NEW n \in Nat
    PROVE  SplitRanges(0, n) = << >>
  BY DEF SplitRanges, Empty

\* The ranges of _split_ranges partition the bytes of the file in order:
\* every range is in the file and holds a byte, the first starts at 0, each
\* starts where the one before ended, and the last ends with the file.
THEOREM SplitIsPartition ==
    ASSUME NEW sz \in Nat \ {0}, NEW n \in Nat \ {0}
    PROVE  LET r == SplitRanges(sz, n)
           IN  /\ r \in Seq([lo : 0..(sz - 1), hi : 0..(sz - 1)])
               /\ Len(r) \in 1..n
               /\ \A i \in 1..Len(r) : r[i].lo <= r[i].hi
               /\ Joined(r)
               /\ r[Len(r)].hi = sz - 1
  <1> DEFINE a == RangeCount(sz, n)
             c == sz \div a
             r == SplitRanges(sz, n)
             Lo(i) == (i - 1) * c
             Hi(i) == IF i < a THEN i * c - 1 ELSE sz - 1
  <1>1. a \in 1..n /\ a <= sz
    BY RangeCountBounds
  <1>2. c \in Nat /\ a * c <= sz /\ c >= 1
    BY <1>1, Division
  <1>3. r = [i \in 1..a |-> [lo |-> Lo(i), hi |-> Hi(i)]]
    BY SplitRangesShape
  <1> HIDE DEF a, c, r
  <1>4. ASSUME NEW i \in 1..a
        PROVE  /\ Lo(i) \in 0..(sz - 1) /\ Hi(i) \in 0..(sz - 1)
               /\ Lo(i) <= Hi(i)
               /\ Hi(a) = sz - 1
               /\ i > 1 => Lo(i) = Hi(i - 1) + 1
    <2>1. (i - 1) * c >= 0 /\ (i - 1) * c + c = i * c
      BY <1>1, <1>2
    <2>2. i * c <= a * c
      BY <1>1, <1>2
    <2>3. (i - 1) * c \in Int /\ i * c \in Int /\ a * c \in Int
      BY <1>1, <1>2
    <2>4. i > 1 => i - 1 < a
      BY <1>1
    <2> HIDE DEF Lo, Hi
    <2>5. Lo(i) = (i - 1) * c /\ Hi(i) = (IF i < a THEN i * c - 1 ELSE sz - 1)
      BY DEF Lo, Hi
    <2>6. i > 1 => Hi(i - 1) = (i - 1) * c - 1
      BY <2>4 DEF Hi
    <2>7. Hi(a) = sz - 1
      BY <1>1 DEF Hi
    <2> QED
      BY <1>1, <1>2, <2>1, <2>2, <2>3, <2>5, <2>6, <2>7
  <1> HIDE DEF Lo, Hi
  <1> DEFINE S == [lo : 0..(sz - 1), hi : 0..(sz - 1)]
  <1>5. r \in Seq(S) /\ Len(r) = a
    <2>1. \A i \in 1..a : [lo |-> Lo(i), hi |-> Hi(i)] \in S
      BY <1>4
    <2>2. r \in [1..a -> S]
      BY <1>3, <2>1
    <2>3. a \in Nat
      BY <1>1
    <2> HIDE DEF S
    <2>4. r \in Seq(S)
      BY <2>2, <2>3, IsASeq
    <2> QED
      BY <2>2, <2>3, <2>4, LenProperties
  <1>6. Joined(r)
    <2>1. \A i \in 1..a : r[i].lo = Lo(i) /\ r[i].hi = Hi(i)
      BY <1>3
    <2>2. Lo(1) = 0
      BY <1>2 DEF Lo
    <2>3. r[1].lo = 0
      BY <1>1, <2>1, <2>2
    <2>4. \A k \in 2..a : r[k].lo = r[k - 1].hi + 1
      BY <1>1, <1>4, <2>1
    <2> QED
      BY <1>5, <2>3, <2>4 DEF Joined
  <1> QED
    BY <1>1, <1>3, <1>4, <1>5, <1>6 DEF r
-----------------------------------------------------------------------------
(* What a download knows of the file. *)

\* Before the file is touched there is no task, and a size is asked of
\* somebody.
EarlyInv ==
    \A d \in Downloads :
        /\ pc[d] \in {"idle"} \cup Early => \A i \in Slots : task[d][i].st = "off"
        /\ pc[d] \in {"info", "preallocate"} => trusted[d] # << >>

\* Every task has a peer of its own.
SlotInv ==
    \A d \in Downloads, i \in Slots :
        task[d][i].st # "off" => i \in DOMAIN trusted[d]

\* A task at work stands in its range, and the range lies in the file.
TaskInv ==
    \A d \in Downloads, i \in Slots :
        LET t == task[d][i]
        IN  t.st \in {"fetch", "write"} => t.pos <= t.hi /\ t.hi < size[d]

\* A reader that was not unlinked from under a download reads the path.
HeldInv == \A d \in Downloads : held[d] # NoFile => pc[d] = "hash"

\* What a download that was left alone knows of the file: what it has read of
\* it is as it stands, and it has the size it was given, unless a reply was too
\* long.
FileInv ==
    \A d \in Downloads :
        ~shared[d] =>
            /\ pc[d] \in {"fetch", "open", "hash"} =>
                 /\ disk # NoFile
                 /\ surplus[d] = 0 => Len(disk) = size[d]
            /\ pc[d] = "hash" =>
                 /\ held[d] = NoFile
                 /\ read[d] <= Len(disk)
                 /\ good[d] => \A k \in 1..read[d] : disk[k] = "right"
            /\ pc[d] = "complete" =>
                 /\ BeginsTrue
                 /\ surplus[d] = 0 => disk = TrueFile

\* What no peer that sends more than it was asked for leaves.
ModestInv ==
    \A d \in Downloads :
        /\ surplus[d] = 0
        /\ \A i \in Slots : task[d][i].st = "write" =>
              Len(task[d][i].data) <= Asked(task[d][i])

\* The inductive invariant.
IndInv == TypeOK /\ EarlyInv /\ SlotInv /\ TaskInv /\ HeldInv /\ FileInv
-----------------------------------------------------------------------------
(* What the operators on files, requests and ranges return. *)

LEMMA TrueFileType == TrueFile \in Seq(Cell) /\ Len(TrueFile) = TrueSize
  <1>1. TrueFile \in [1..TrueSize -> Cell]
    BY DEF TrueFile, Cell
  <1> QED
    BY <1>1, StorageAssumption, IsASeq, LenProperties

LEMMA PreallocatedType ==
    ASSUME NEW n \in Nat
    PROVE  Preallocated(n) \in Seq(Cell) /\ Len(Preallocated(n)) = n
  <1>1. Preallocated(n) \in [1..n -> Cell]
    BY DEF Preallocated, ZeroByte, Cell
  <1> QED
    BY <1>1, IsASeq, LenProperties

\* A write keeps the file a file; it is longer only by a write past its end.
LEMMA WrittenType ==
    ASSUME NEW f \in Seq(Cell), NEW off \in Nat, NEW data \in Seq(Cell)
    PROVE  /\ Written(f, off, data) \in Seq(Cell)
           /\ off + Len(data) <= Len(f) => Len(Written(f, off, data)) = Len(f)
  <1> DEFINE n == Greater(Len(f), off + Len(data))
             w == Written(f, off, data)
  <1>1. CASE data = << >>
    BY <1>1 DEF Written
  <1>2. CASE data # << >>
    <2>1. Len(f) \in Nat /\ Len(data) \in Nat
      BY LenProperties
    <2>2. n \in Nat /\ (off + Len(data) <= Len(f) => n = Len(f))
      BY <2>1 DEF Greater
    <2>3. \A i \in 1..n : /\ i \in (off + 1)..(off + Len(data)) => data[i - off] \in Cell
                          /\ i <= Len(f) => f[i] \in Cell
                          /\ ZeroByte(i) \in Cell
      BY <2>1, <2>2, ElementOfSeq DEF ZeroByte, Cell
    <2>4. w \in [1..n -> Cell]
      BY <1>2, <2>3 DEF Written
    <2> HIDE DEF n, w
    <2>5. w \in Seq(Cell) /\ Len(w) = n
      BY <2>2, <2>4, IsASeq, LenProperties
    <2> QED
      BY <2>2, <2>5 DEF w
  <1> QED
    BY <1>1, <1>2

\* A task at work asks for at least one byte, and for none beyond its range.
LEMMA AskedBounds ==
    ASSUME NEW t \in Task
    PROVE  /\ Asked(t) \in Int
           /\ NextPos(t) = t.pos + Asked(t)
           /\ NextPos(t) \in Nat
           /\ t.pos <= t.hi => Asked(t) >= 1 /\ NextPos(t) <= t.hi + 1
  BY DownloaderAssumption DEF Task, Asked, NextPos, Lesser

\* How much too long an answer is, is a number.
LEMMA BeyondBounds ==
    ASSUME NEW t \in Task
    PROVE  /\ Beyond(t) \in Nat
           /\ Len(t.data) <= Asked(t) + Beyond(t)
           /\ Beyond(t) = 0 <=> Len(t.data) <= Asked(t)
  <1>1. Asked(t) \in Int /\ Len(t.data) \in Nat
    BY AskedBounds, LenProperties DEF Task
  <1> HIDE DEF Asked
  <1> QED
    BY <1>1 DEF Beyond, Greater

\* A write adds to the surplus of its download alone.
LEMMA SurplusGrows ==
    ASSUME TypeOK, NEW d \in Downloads, NEW i \in Slots,
           surplus' = [surplus EXCEPT ![d] = @ + Beyond(task[d][i])]
    PROVE  /\ surplus' \in [Downloads -> Nat]
           /\ surplus'[d] = surplus[d] + Beyond(task[d][i])
           /\ surplus'[d] = 0 => /\ surplus[d] = 0
                                 /\ Len(task[d][i].data) <= Asked(task[d][i])
           /\ \A e \in Downloads : e # d => surplus'[e] = surplus[e]
  <1>1. /\ Beyond(task[d][i]) \in Nat /\ surplus[d] \in Nat
        /\ Beyond(task[d][i]) = 0 <=> Len(task[d][i].data) <= Asked(task[d][i])
    BY BeyondBounds DEF TypeOK
  <1> HIDE DEF Asked, Beyond
  <1> QED
    BY <1>1 DEF TypeOK

\* What arrives is a sequence of cells no longer than asked for and Excess.
LEMMA ReplyBounds ==
    ASSUME NEW t \in Task, NEW r \in Replies(t)
    PROVE  r \in Seq(Cell) /\ Len(r) <= Asked(t) + Excess
  <1>1. PICK n \in 0..(Asked(t) + Excess) : r \in [1..n -> Cell]
    BY DEF Replies
  <1>2. Asked(t) \in Int /\ Excess \in Nat
    BY AskedBounds, DownloaderAssumption
  <1>3. n \in Nat /\ n <= Asked(t) + Excess
    BY <1>2
  <1> QED
    BY <1>1, <1>3, IsASeq, LenProperties

\* A list of trusted peers, as a sequence.
LEMMA TrustedListType ==
    ASSUME NEW ps \in TrustedLists
    PROVE  /\ ps \in Seq(Peers) /\ Len(ps) \in Nat /\ DOMAIN ps = 1..Len(ps)
           /\ Len(ps) <= MaxPeers
           /\ ps # << >> => Len(ps) \in Nat \ {0}
  <1>1. PICK n \in 0..MaxPeers : ps \in [1..n -> Peers]
    BY DEF TrustedLists
  <1>2. n \in Nat /\ n <= MaxPeers
    BY DownloaderAssumption
  <1>3. ps \in Seq(Peers)
    BY <1>1, <1>2, IsASeq
  <1>4. Len(ps) = n
    BY <1>1, <1>2, <1>3, LenProperties
  <1> QED
    BY <1>2, <1>3, <1>4, LenProperties, EmptySeq

\* The tasks of a split lie in the file, one for each of the first peers.
LEMMA NewTasksType ==
    ASSUME NEW d \in Downloads, TypeOK, trusted[d] # << >>
    PROVE  /\ NewTasks(d) \in [Slots -> Task]
           /\ \A i \in Slots :
                 LET t == NewTasks(d)[i]
                 IN  /\ t.st \in {"off", "fetch"}
                     /\ t.st = "fetch" => /\ i \in DOMAIN trusted[d]
                                          /\ t.pos <= t.hi /\ t.hi < size[d]
  <1> DEFINE n == Len(trusted[d])
             r == SplitRanges(size[d], n)
  <1>1. size[d] \in Nat /\ n \in Nat \ {0} /\ DOMAIN trusted[d] = 1..n
    BY TrustedListType DEF TypeOK
  <1>2. /\ Len(r) \in Nat
        /\ \A i \in 1..Len(r) : /\ i \in 1..n
                               /\ r[i].lo \in Nat /\ r[i].hi \in Nat
                               /\ r[i].lo <= r[i].hi /\ r[i].hi < size[d]
    <2>1. CASE size[d] = 0
      BY <1>1, <2>1, SplitRangesOfNothing
    <2>2. CASE size[d] # 0
      <3> DEFINE sz == size[d]
                 S == [lo : 0..(sz - 1), hi : 0..(sz - 1)]
      <3>1. sz \in Nat \ {0}
        BY <1>1, <2>2
      <3>2. /\ r \in Seq(S) /\ Len(r) \in 1..n
            /\ \A i \in 1..Len(r) : r[i].lo <= r[i].hi
        BY <1>1, <3>1, SplitIsPartition
      <3>3. \A i \in 1..Len(r) : r[i] \in S
        BY <3>2, ElementOfSeq
      <3> QED
        BY <1>1, <3>1, <3>2, <3>3
    <2> QED
      BY <2>1, <2>2
  <1> HIDE DEF n, r
  <1>3. NewTasks(d) = [i \in Slots |->
            IF i \in 1..Len(r)
            THEN [st |-> "fetch", lo |-> r[i].lo, hi |-> r[i].hi,
                  pos |-> r[i].lo, data |-> << >>]
            ELSE NoTask]
    BY DEF NewTasks, r, n
  <1>4. << >> \in Seq(Cell)
    BY EmptySeq
  <1> QED
    BY <1>1, <1>2, <1>3, <1>4 DEF NoTask, Task
-----------------------------------------------------------------------------
(* Type correctness. *)

\* Changing the file keeps the file and its history of their kinds, and what
\* is still unshared afterwards has not seen a change.
LEMMA StoreType ==
    ASSUME TypeOK, NEW d \in Downloads, NEW f \in Seq(Cell) \cup {NoFile},
           Store(d, f) \/ StoreAnew(d, f)
    PROVE  /\ disk' = f
           /\ disk' \in Seq(Cell) \cup {NoFile}
           /\ shared' \in [Downloads -> BOOLEAN]
           /\ \A e \in Downloads : e # d /\ ~shared'[e] => ~shared[e] /\ disk' = disk
           /\ Store(d, f) => shared'[d] = shared[d]
  BY DEF TypeOK, Store, StoreAnew

LEMMA GotoType ==
    ASSUME TypeOK, NEW d \in Downloads,
           NEW stage \in {"idle"} \cup Early \cup OnFile \cup Ended,
           Goto(d, stage) \/ GotoAfresh(d, stage)
    PROVE  /\ pc' \in [Downloads -> {"idle"} \cup Early \cup OnFile \cup Ended]
           /\ pc'[d] = stage
           /\ \A e \in Downloads :
                e # d => (pc'[e] = pc[e] \/ (pc[e] = "orphaned" /\ pc'[e] = "aborted"))
  BY DEF TypeOK, Goto, GotoAfresh, Early, OnFile, Ended

LEMMA InitType == Init => TypeOK
  <1> SUFFICES ASSUME Init PROVE TypeOK
    OBVIOUS
  <1>1. disk \in Seq(Cell) \cup {NoFile}
    BY TrueFileType DEF Init
  <1>2. << >> \in TrustedLists
    <2>1. << >> \in [1..0 -> Peers]
      OBVIOUS
    <2> QED
      BY <2>1, DownloaderAssumption DEF TrustedLists
  <1>3. NoTask \in Task
    BY EmptySeq DEF NoTask, Task
  <1> QED
    BY <1>1, <1>2, <1>3 DEF Init, TypeOK

\* What the types and the early stages are when an action begins.
TypeInv == TypeOK /\ EarlyInv /\ SlotInv

LEMMA TypeStep == TypeInv /\ [Next]_vars => TypeOK'
  <1> SUFFICES ASSUME TypeInv, [Next]_vars
               PROVE  TypeOK'
    OBVIOUS
  <1>0. TypeOK /\ EarlyInv /\ SlotInv
    BY DEF TypeInv
  <1> USE DEF fileVars, blameVars, readVars
  <1>1. ASSUME NEW d \in Downloads, Start(d) PROVE TypeOK'
    BY <1>0, <1>1, GotoType DEF Start, TypeOK, Early
  <1>2. ASSUME NEW d \in Downloads, Run(d) PROVE TypeOK'
    BY <1>0, <1>2, GotoType DEF Run, TypeOK, Early
  <1>3. ASSUME NEW d \in Downloads, GetPeers(d) PROVE TypeOK'
    BY <1>0, <1>3, GotoType DEF GetPeers, TypeOK, Early, Ended
  <1>4. ASSUME NEW d \in Downloads, HandshakeAll(d) PROVE TypeOK'
    BY <1>0, <1>4, GotoType DEF HandshakeAll, TypeOK, Early, Ended
  <1>5. ASSUME NEW d \in Downloads, FetchFileInfo(d) PROVE TypeOK'
    BY <1>0, <1>5, GotoType, DownloaderAssumption
    DEF FetchFileInfo, TypeOK, Early, Ended
  <1>6. ASSUME NEW d \in Downloads, Preallocate(d) PROVE TypeOK'
    <2>1. trusted[d] # << >> /\ size[d] \in Nat
      BY <1>0, <1>6 DEF EarlyInv, Preallocate, TypeOK
    <2>2. Preallocated(size[d]) \in Seq(Cell)
      BY <2>1, PreallocatedType
    <2>3. NewTasks(d) \in [Slots -> Task]
      BY <1>0, <2>1, NewTasksType
    <2>4. task' \in [Downloads -> [Slots -> Task]]
      BY <1>0, <1>6, <2>3 DEF Preallocate, TypeOK
    <2> QED
      BY <1>0, <1>6, <2>2, <2>4, StoreType, GotoType
      DEF Preallocate, TypeOK, OnFile
  <1>7. ASSUME NEW d \in Downloads, PreallocateFails(d) PROVE TypeOK'
    <2>1. disk \in Seq(Cell) \cup {NoFile} /\ << >> \in Seq(Cell)
      BY <1>0, EmptySeq DEF TypeOK
    <2> QED
      BY <1>0, <1>7, <2>1, StoreType, GotoType DEF PreallocateFails, TypeOK, Ended
  <1>8. ASSUME NEW d \in Downloads, NEW i \in Slots, FetchOk(d, i) PROVE TypeOK'
    <2>1. task[d][i] \in Task
      BY <1>0 DEF TypeOK
    <2>2. PICK r \in Replies(task[d][i]) :
             task' = [task EXCEPT ![d][i].st = "write", ![d][i].data = r]
      BY <1>8 DEF FetchOk
    <2>3. r \in Seq(Cell)
      BY <2>1, ReplyBounds
    <2>4. task' \in [Downloads -> [Slots -> Task]]
      BY <1>0, <2>1, <2>2, <2>3 DEF TypeOK, Task
    <2> QED
      BY <1>0, <1>8, <2>4 DEF FetchOk, TypeOK
  <1>9. ASSUME NEW d \in Downloads, NEW i \in Slots, FetchFails(d, i) PROVE TypeOK'
    <2>0. task[d][i] \in Task
      BY <1>0 DEF TypeOK
    <2>1. task' \in [Downloads -> [Slots -> Task]]
      BY <1>0, <1>9, <2>0 DEF FetchFails, TypeOK, Task
    <2> QED
      BY <1>0, <1>9, <2>1 DEF FetchFails, TypeOK
  <1>10. ASSUME NEW d \in Downloads, NEW i \in Slots, FetchMismatch(d, i) PROVE TypeOK'
    <2>0. task[d][i] \in Task /\ trusted[d][i] \in Peers
      BY <1>0, <1>10, TrustedListType, ElementOfSeq DEF FetchMismatch, SlotInv, TypeOK
    <2>1. task' \in [Downloads -> [Slots -> Task]]
      BY <1>0, <1>10, <2>0 DEF FetchMismatch, TypeOK, Task
    <2>2. offences' \in [Peers -> Nat]
      BY <1>0, <1>10, <2>0 DEF FetchMismatch, TypeOK
    <2> QED
      BY <1>0, <1>10, <2>1, <2>2 DEF FetchMismatch, TypeOK
  <1>11. ASSUME NEW d \in Downloads, NEW i \in Slots, WriteChunk(d, i) PROVE TypeOK'
    <2> DEFINE t == task[d][i]
    <2>1. t \in Task /\ t.pos \in Nat /\ t.data \in Seq(Cell) /\ NextPos(t) \in Nat
      BY <1>0, AskedBounds DEF TypeOK, Task
    <2>2. Written(disk, t.pos, t.data) \in Seq(Cell)
      BY <1>0, <1>11, <2>1, WrittenType DEF WriteChunk, TypeOK
    <2>3. task' \in [Downloads -> [Slots -> Task]]
      BY <1>0, <1>11, <2>1, EmptySeq DEF WriteChunk, TypeOK, Task
    <2>4. bytes' \in [Downloads -> Nat]
      BY <1>0, <1>11, <2>1, LenProperties DEF WriteChunk, TypeOK
    <2>5. surplus' \in [Downloads -> Nat]
      BY <1>0, <1>11, SurplusGrows DEF WriteChunk
    <2> QED
      BY <1>0, <1>11, <2>2, <2>3, <2>4, <2>5, StoreType DEF WriteChunk, TypeOK
  <1>12. ASSUME NEW d \in Downloads, NEW i \in Slots, WriteFails(d, i) PROVE TypeOK'
    <2> DEFINE t == task[d][i]
    <2>1. t \in Task /\ t.pos \in Nat /\ t.data \in Seq(Cell)
      BY <1>0 DEF TypeOK, Task
    <2>2. ASSUME disk # NoFile, NEW n \in 0..Len(t.data)
          PROVE  Written(disk, t.pos, SubSeq(t.data, 1, n)) \in Seq(Cell)
      <3>1. SubSeq(t.data, 1, n) \in Seq(Cell)
        BY <2>1, <2>2
      <3> QED
        BY <1>0, <2>1, <2>2, <3>1, WrittenType DEF TypeOK
    <2>3. task' \in [Downloads -> [Slots -> Task]]
      BY <1>0, <1>12, <2>1, EmptySeq DEF WriteFails, TypeOK, Task
    <2>4. disk' \in Seq(Cell) \cup {NoFile} /\ shared' \in [Downloads -> BOOLEAN]
      BY <1>0, <1>12, <2>2, StoreType DEF WriteFails, TypeOK
    <2>5. surplus' \in [Downloads -> Nat]
      BY <1>0, <1>12, SurplusGrows DEF WriteFails
    <2> QED
      BY <1>0, <1>12, <2>3, <2>4, <2>5 DEF WriteFails, TypeOK
  <1>13. ASSUME NEW d \in Downloads, NEW i \in Slots, Blame(d, i) PROVE TypeOK'
    <2>1. task[d][i].st # "off"
      BY <1>13 DEF Blame, Mismatches
    <2>2. trusted[d][i] \in Peers
      BY <1>0, <2>1, TrustedListType, ElementOfSeq DEF SlotInv, TypeOK
    <2>0. task[d][i] \in Task
      BY <1>0 DEF TypeOK
    <2>3. task' \in [Downloads -> [Slots -> Task]]
      BY <1>0, <1>13, <2>0 DEF Blame, TypeOK, Task
    <2>4. failures' \in [Peers -> Nat] /\ revoked' \subseteq Peers
      BY <1>0, <1>13, <2>2 DEF Blame, TypeOK
    <2> QED
      BY <1>0, <1>13, <2>3, <2>4 DEF Blame, TypeOK
  <1>14. ASSUME NEW d \in Downloads, Assess(d) PROVE TypeOK'
    BY <1>0, <1>14, GotoType DEF Assess, OnGap, TypeOK, OnFile
  <1>15. ASSUME NEW d \in Downloads, OpenReader(d) PROVE TypeOK'
    BY <1>0, <1>15, GotoType DEF OpenReader, TypeOK, OnFile, Ended
  <1>16. ASSUME NEW d \in Downloads, ReadCell(d) PROVE TypeOK'
    <2>1. read' \in [Downloads -> Nat] /\ good' \in [Downloads -> BOOLEAN]
      BY <1>0, <1>16 DEF ReadCell, TypeOK
    <2> QED
      BY <1>0, <1>16, <2>1 DEF ReadCell, TypeOK
  <1>17. ASSUME NEW d \in Downloads, ReadFails(d) PROVE TypeOK'
    BY <1>0, <1>17, GotoType DEF ReadFails, TypeOK, Ended
  <1>18. ASSUME NEW d \in Downloads, FinishHash(d) PROVE TypeOK'
    BY <1>0, <1>18, GotoType DEF FinishHash, TypeOK, OnFile, Ended
  <1>19. ASSUME NEW d \in Downloads, Delete(d) PROVE TypeOK'
    <2>1. held' \in [Downloads -> Seq(Cell) \cup {NoFile}]
      BY <1>0, <1>19 DEF Delete, TypeOK
    <2> QED
      BY <1>0, <1>19, <2>1, StoreType, GotoType DEF Delete, TypeOK, Ended
  <1>20. ASSUME NEW d \in Downloads, DeleteFails(d) PROVE TypeOK'
    BY <1>0, <1>20, GotoType DEF DeleteFails, TypeOK, Ended
  <1>21. ASSUME Stop PROVE TypeOK'
    BY <1>0, <1>21 DEF Stop, TypeOK, Ended
  <1>22. CASE UNCHANGED vars
    BY <1>0, <1>22 DEF vars, TypeOK
  <1> QED
    BY <1>1, <1>2, <1>3, <1>4, <1>5, <1>6, <1>7, <1>8, <1>9, <1>10, <1>11,
       <1>12, <1>13, <1>14, <1>15, <1>16, <1>17, <1>18, <1>19, <1>20, <1>21,
       <1>22 DEF Next, Step
-----------------------------------------------------------------------------
(* The stages of a download and its tasks. *)

\* What a task does between two awaits.
Fetching(d, i) ==
    \/ FetchOk(d, i) \/ FetchFails(d, i) \/ FetchMismatch(d, i)
    \/ WriteChunk(d, i) \/ WriteFails(d, i) \/ Blame(d, i)

\* A task that takes a step is a task of a fetching download; it changes
\* nothing of the other tasks and nothing of the stages.
LEMMA FetchingFrame ==
    ASSUME TypeOK, NEW d \in Downloads, NEW i \in Slots, Fetching(d, i)
    PROVE  /\ pc[d] = "fetch" /\ task[d][i].st # "off"
           /\ UNCHANGED << pc, trusted, size, read, good, held >>
           /\ \A e \in Downloads, j \in Slots :
                e # d \/ j # i => task'[e][j] = task[e][j]
  <1> USE DEF fileVars, blameVars, readVars
  <1>1. CASE FetchOk(d, i)
    BY <1>1 DEF FetchOk, TypeOK
  <1>2. CASE FetchFails(d, i)
    BY <1>2 DEF FetchFails, TypeOK
  <1>3. CASE FetchMismatch(d, i)
    BY <1>3 DEF FetchMismatch, TypeOK
  <1>4. CASE WriteChunk(d, i)
    BY <1>4 DEF WriteChunk, TypeOK
  <1>5. CASE WriteFails(d, i)
    BY <1>5 DEF WriteFails, TypeOK
  <1>6. CASE Blame(d, i)
    BY <1>6 DEF Blame, Mismatches, TypeOK
  <1> QED
    BY <1>1, <1>2, <1>3, <1>4, <1>5, <1>6 DEF Fetching

LEMMA StageStep == TypeInv /\ [Next]_vars => EarlyInv' /\ SlotInv'
  <1> SUFFICES ASSUME TypeInv, [Next]_vars
               PROVE  EarlyInv' /\ SlotInv'
    OBVIOUS
  <1>0. TypeOK /\ EarlyInv /\ SlotInv
    BY DEF TypeInv
  <1> USE DEF fileVars, blameVars, readVars
  <1>1. ASSUME NEW d \in Downloads, Start(d) \/ Run(d) \/ GetPeers(d)
        PROVE  EarlyInv' /\ SlotInv'
    BY <1>0, <1>1, GotoType DEF Start, Run, GetPeers, EarlyInv, SlotInv, Early, Ended
  <1>2. ASSUME NEW d \in Downloads, HandshakeAll(d) PROVE EarlyInv' /\ SlotInv'
    <2>1. PICK ps \in TrustedLists :
             /\ trusted' = [trusted EXCEPT ![d] = ps]
             /\ Goto(d, IF ps = << >> THEN "failed" ELSE "info")
      BY <1>2 DEF HandshakeAll
    <2>2. /\ trusted'[d] = ps
          /\ \A e \in Downloads : e # d => trusted'[e] = trusted[e]
      BY <1>0, <2>1 DEF TypeOK
    <2>3. \A i \in Slots : task[d][i].st = "off"
      BY <1>0, <1>2 DEF HandshakeAll, EarlyInv, Early
    <2>4. task' = task
      BY <1>2 DEF HandshakeAll
    <2>5. pc'[d] = (IF ps = << >> THEN "failed" ELSE "info")
      BY <1>0, <2>1 DEF Goto, TypeOK
    <2>6. \A e \in Downloads : e # d => pc'[e] = pc[e]
      BY <1>0, <2>1 DEF Goto, TypeOK
    <2>7. EarlyInv'
      BY <1>0, <2>2, <2>3, <2>4, <2>5, <2>6 DEF EarlyInv, Early
    <2> QED
      BY <1>0, <2>2, <2>3, <2>4, <2>7 DEF SlotInv
  <1>3. ASSUME NEW d \in Downloads, FetchFileInfo(d) PROVE EarlyInv' /\ SlotInv'
    BY <1>0, <1>3, GotoType
    DEF FetchFileInfo, EarlyInv, SlotInv, Early, Ended
  <1>4. ASSUME NEW d \in Downloads, Preallocate(d) PROVE EarlyInv' /\ SlotInv'
    <2>1. trusted[d] # << >>
      BY <1>0, <1>4 DEF EarlyInv, Preallocate
    <2>2. \A i \in Slots : LET t == NewTasks(d)[i]
                          IN  t.st # "off" => i \in DOMAIN trusted[d]
      BY <1>0, <2>1, NewTasksType
    <2>3. /\ task'[d] = NewTasks(d)
          /\ \A e \in Downloads : e # d => task'[e] = task[e]
      BY <1>0, <1>4 DEF Preallocate, TypeOK
    <2>4. trusted' = trusted
      BY <1>4 DEF Preallocate
    <2>5. EarlyInv'
      BY <1>0, <1>4, <2>3, <2>4, GotoType
      DEF Preallocate, EarlyInv, Early, OnFile
    <2> QED
      BY <1>0, <2>2, <2>3, <2>4, <2>5 DEF SlotInv
  <1>5. ASSUME NEW d \in Downloads, PreallocateFails(d) PROVE EarlyInv' /\ SlotInv'
    BY <1>0, <1>5, GotoType DEF PreallocateFails, EarlyInv, SlotInv, Early, Ended
  <1>6. ASSUME NEW d \in Downloads, NEW i \in Slots, Fetching(d, i)
        PROVE  EarlyInv' /\ SlotInv'
    <2>1. EarlyInv'
      BY <1>0, <1>6, FetchingFrame DEF EarlyInv, Early
    <2> QED
      BY <1>0, <1>6, <2>1, FetchingFrame DEF SlotInv
  <1>7. ASSUME NEW d \in Downloads,
               Assess(d) \/ OpenReader(d) \/ ReadFails(d) \/ FinishHash(d) \/ DeleteFails(d)
        PROVE  EarlyInv' /\ SlotInv'
    <2>1. \E stage \in OnFile \cup Ended : Goto(d, stage)
      BY <1>7 DEF Assess, OnGap, OpenReader, ReadFails, FinishHash, DeleteFails,
                  OnFile, Ended
    <2>2. UNCHANGED << task, trusted >>
      BY <1>7 DEF Assess, OpenReader, ReadFails, FinishHash, DeleteFails
    <2> QED
      BY <1>0, <2>1, <2>2 DEF Goto, TypeOK, EarlyInv, SlotInv, Early, OnFile, Ended
  <1>8. ASSUME NEW d \in Downloads, ReadCell(d) PROVE EarlyInv' /\ SlotInv'
    BY <1>0, <1>8 DEF ReadCell, EarlyInv, SlotInv
  <1>9. ASSUME NEW d \in Downloads, Delete(d) PROVE EarlyInv' /\ SlotInv'
    BY <1>0, <1>9, GotoType DEF Delete, EarlyInv, SlotInv, Early, Ended
  <1>10. ASSUME Stop PROVE EarlyInv' /\ SlotInv'
    BY <1>0, <1>10 DEF Stop, EarlyInv, SlotInv, TypeOK, Early, OnFile, Ended
  <1>11. CASE UNCHANGED vars
    BY <1>0, <1>11 DEF vars, EarlyInv, SlotInv
  <1> QED
    BY <1>1, <1>2, <1>3, <1>4, <1>5, <1>6, <1>7, <1>8, <1>9, <1>10, <1>11
    DEF Next, Step, Fetching

\* Every variable holds a value of its kind in every reachable state.
THEOREM TypeCorrect == Spec => []TypeOK
  <1>1. Init => TypeInv
    BY InitType DEF TypeInv, Init, EarlyInv, SlotInv, NoTask, Early
  <1>2. TypeInv /\ [Next]_vars => TypeInv'
    BY TypeStep, StageStep DEF TypeInv
  <1>3. TypeInv => TypeOK
    BY DEF TypeInv
  <1> QED
    BY <1>1, <1>2, <1>3, PTL DEF Spec
-----------------------------------------------------------------------------
(* What a download left alone knows of its file. *)

\* The write of a task at work stays within the file it was cut from, as long as
\* it has no more in hand than it asked for.
LEMMA WriteInFile ==
    ASSUME IndInv, NEW d \in Downloads, NEW i \in Slots,
           pc[d] = "fetch", task[d][i].st = "write", ~shared[d], surplus[d] = 0,
           Len(task[d][i].data) <= Asked(task[d][i]),
           NEW data \in Seq(Cell), Len(data) <= Len(task[d][i].data)
    PROVE  /\ disk # NoFile
           /\ Written(disk, task[d][i].pos, data) \in Seq(Cell)
           /\ Len(Written(disk, task[d][i].pos, data)) = size[d]
  <1> DEFINE t == task[d][i]
  <1>1. TypeOK /\ TaskInv /\ FileInv
    BY DEF IndInv
  <1>2. /\ t \in Task /\ t.pos \in Nat /\ t.hi \in Nat /\ t.data \in Seq(Cell)
        /\ size[d] \in Nat
    BY <1>1 DEF TypeOK, Task
  <1>3. disk \in Seq(Cell) /\ disk # NoFile /\ Len(disk) = size[d]
    BY <1>1 DEF FileInv, TypeOK
  <1>4. t.pos <= t.hi /\ t.hi < size[d] /\ Len(t.data) <= Asked(t)
    BY <1>1 DEF TaskInv
  <1>5. t.pos + Asked(t) <= t.hi + 1 /\ Asked(t) \in Int
    BY <1>2, <1>4, AskedBounds
  <1>6. Len(data) \in Nat /\ Len(t.data) \in Nat
    BY <1>2, LenProperties
  <1>7. t.pos + Len(data) <= Len(disk)
    BY <1>2, <1>3, <1>4, <1>5, <1>6
  <1> QED
    BY <1>2, <1>3, <1>7, WrittenType

LEMMA TaskStep ==
    ASSUME IndInv, [Next]_vars
    PROVE  TaskInv'
  <1>0. TypeOK /\ EarlyInv /\ TaskInv
    BY DEF IndInv
  <1> USE DEF fileVars, blameVars, readVars
  <1>1. ASSUME NEW d \in Downloads, FetchFileInfo(d) PROVE TaskInv'
    <2>1. \A i \in Slots : task[d][i].st = "off"
      BY <1>0, <1>1 DEF FetchFileInfo, EarlyInv, Early
    <2>2. task' = task /\ \A e \in Downloads : e # d => size'[e] = size[e]
      BY <1>0, <1>1 DEF FetchFileInfo, TypeOK
    <2>3. ASSUME NEW e \in Downloads, NEW i \in Slots, task[e][i].st # "off"
          PROVE  task'[e][i] = task[e][i] /\ size'[e] = size[e]
      BY <2>1, <2>2, <2>3
    <2> QED
      BY <1>0, <2>2, <2>3 DEF TaskInv
  <1>2. ASSUME NEW d \in Downloads, Preallocate(d) PROVE TaskInv'
    <2>1. trusted[d] # << >>
      BY <1>0, <1>2 DEF EarlyInv, Preallocate
    <2>2. /\ task'[d] = NewTasks(d) /\ size' = size
          /\ \A e \in Downloads : e # d => task'[e] = task[e]
      BY <1>0, <1>2 DEF Preallocate, TypeOK
    <2>3. \A i \in Slots :
            /\ task'[d][i].st \in {"off", "fetch"}
            /\ task'[d][i].st = "fetch" =>
                 task'[d][i].pos <= task'[d][i].hi /\ task'[d][i].hi < size[d]
      BY <1>0, <2>1, <2>2, NewTasksType
    <2> QED
      BY <1>0, <2>2, <2>3 DEF TaskInv
  <1>3. ASSUME NEW d \in Downloads, NEW i \in Slots, Fetching(d, i) PROVE TaskInv'
    <2> DEFINE t == task[d][i]
               u == task'[d][i]
    <2>1. t \in Task /\ t.pos \in Nat /\ t.hi \in Nat /\ size[d] \in Nat
      BY <1>0 DEF TypeOK, Task
    <2>2. u.st \in {"fetch", "write"} => u.pos <= u.hi /\ u.hi < size[d]
      <3>1. CASE FetchOk(d, i)
        <4>1. PICK r \in Replies(t) :
                 task' = [task EXCEPT ![d][i].st = "write", ![d][i].data = r]
          BY <3>1 DEF FetchOk
        <4>2. t.st = "fetch" /\ t.pos <= t.hi /\ t.hi < size[d]
          BY <1>0, <3>1 DEF FetchOk, TaskInv
        <4>3. u.pos = t.pos /\ u.hi = t.hi
          BY <1>0, <2>1, <4>1 DEF TypeOK, Task
        <4> QED
          BY <4>2, <4>3
      <3>2. CASE WriteChunk(d, i)
        <4>1. u = [t EXCEPT !.st = IF NextPos(t) <= t.hi THEN "fetch" ELSE "ok",
                            !.pos = NextPos(t), !.data = << >>]
          BY <1>0, <3>2 DEF WriteChunk, TypeOK
        <4>2. u.st = (IF NextPos(t) <= t.hi THEN "fetch" ELSE "ok")
          BY <2>1, <4>1 DEF Task
        <4>3. u.pos = NextPos(t) /\ u.hi = t.hi
          BY <2>1, <4>1 DEF Task
        <4>4. t.hi < size[d]
          BY <1>0, <3>2 DEF WriteChunk, TaskInv
        <4> QED
          BY <4>2, <4>3, <4>4
      <3>3. CASE \/ FetchFails(d, i) \/ FetchMismatch(d, i)
                 \/ WriteFails(d, i) \/ Blame(d, i)
        <4>1. u.st \notin {"fetch", "write"}
          BY <1>0, <2>1, <3>3
          DEF FetchFails, FetchMismatch, WriteFails, Blame, TypeOK, Task
        <4> QED
          BY <4>1
      <3> QED
        BY <1>3, <3>1, <3>2, <3>3 DEF Fetching
    <2> QED
      BY <1>0, <1>3, <2>2, FetchingFrame DEF TaskInv
  <1>4. ASSUME UNCHANGED << task, size >> PROVE TaskInv'
    BY <1>0, <1>4 DEF TaskInv
  <1> QED
    BY <1>1, <1>2, <1>3, <1>4
    DEF Next, Step, Fetching, vars, Start, Run, GetPeers, HandshakeAll,
        PreallocateFails, Assess, OpenReader, ReadCell, ReadFails, FinishHash,
        Delete, DeleteFails, Stop

LEMMA HeldStep == TypeOK /\ HeldInv /\ [Next]_vars => HeldInv'
  <1> SUFFICES ASSUME TypeOK, HeldInv, [Next]_vars PROVE HeldInv'
    OBVIOUS
  <1>0. TypeOK /\ HeldInv
    OBVIOUS
  <1> USE DEF fileVars, blameVars, readVars
  <1>1. ASSUME NEW d \in Downloads,
               \/ Start(d) \/ Run(d) \/ GetPeers(d) \/ HandshakeAll(d)
               \/ FetchFileInfo(d) \/ Assess(d) \/ OpenReader(d) \/ DeleteFails(d)
        PROVE  HeldInv'
    <2>1. held' = held /\ pc[d] # "hash"
      BY <1>1 DEF Start, Run, GetPeers, HandshakeAll, FetchFileInfo, Assess,
                  OpenReader, DeleteFails
    <2>2. \A e \in Downloads : e # d => pc'[e] = pc[e]
      BY <1>0, <1>1 DEF Start, Run, GetPeers, HandshakeAll, FetchFileInfo, Assess,
                        OpenReader, DeleteFails, Goto, TypeOK
    <2> QED
      BY <1>0, <2>1, <2>2 DEF HeldInv
  <1>2. ASSUME NEW d \in Downloads, Preallocate(d) \/ PreallocateFails(d)
        PROVE  HeldInv'
    <2>1. held' = held /\ pc[d] # "hash"
      BY <1>2 DEF Preallocate, PreallocateFails
    <2>2. \A e \in Downloads : e # d /\ pc[e] = "hash" => pc'[e] = "hash"
      BY <1>0, <1>2 DEF Preallocate, PreallocateFails, Goto, GotoAfresh, TypeOK
    <2> QED
      BY <1>0, <2>1, <2>2 DEF HeldInv
  <1>3. ASSUME NEW d \in Downloads, NEW i \in Slots, Fetching(d, i) PROVE HeldInv'
    BY <1>0, <1>3, FetchingFrame DEF HeldInv
  <1>4. ASSUME NEW d \in Downloads, ReadCell(d) PROVE HeldInv'
    BY <1>0, <1>4 DEF ReadCell, HeldInv
  <1>5. ASSUME NEW d \in Downloads, ReadFails(d) \/ FinishHash(d) PROVE HeldInv'
    <2>1. /\ held'[d] = NoFile
          /\ \A e \in Downloads : e # d => held'[e] = held[e] /\ pc'[e] = pc[e]
      BY <1>0, <1>5 DEF ReadFails, FinishHash, Goto, TypeOK
    <2> QED
      BY <1>0, <2>1 DEF HeldInv
  <1>6. ASSUME NEW d \in Downloads, Delete(d) PROVE HeldInv'
    <2>1. pc[d] = "delete"
      BY <1>6 DEF Delete
    <2>2. \A e \in Downloads : pc[e] = "hash" => pc'[e] = "hash"
      BY <1>0, <1>6, <2>1 DEF Delete, GotoAfresh, TypeOK
    <2>3. \A e \in Downloads : pc[e] # "hash" => held'[e] = held[e]
      BY <1>0, <1>6 DEF Delete, TypeOK
    <2> QED
      BY <1>0, <2>2, <2>3 DEF HeldInv
  <1>7. ASSUME Stop PROVE HeldInv'
    BY <1>7 DEF Stop, HeldInv
  <1>8. CASE UNCHANGED vars
    BY <1>0, <1>8 DEF vars, HeldInv
  <1> QED
    BY <1>1, <1>2, <1>3, <1>4, <1>5, <1>6, <1>7, <1>8 DEF Next, Step, Fetching

\* FileInv of one download, so that a step can leave it alone.
FileInvOf(d) ==
    ~shared[d] =>
        /\ pc[d] \in {"fetch", "open", "hash"} =>
             /\ disk # NoFile
             /\ surplus[d] = 0 => Len(disk) = size[d]
        /\ pc[d] = "hash" =>
             /\ held[d] = NoFile
             /\ read[d] <= Len(disk)
             /\ good[d] => \A k \in 1..read[d] : disk[k] = "right"
        /\ pc[d] = "complete" =>
             /\ BeginsTrue
             /\ surplus[d] = 0 => disk = TrueFile

LEMMA FileInvAll == FileInv <=> \A d \in Downloads : FileInvOf(d)
  BY DEF FileInv, FileInvOf

\* A step that changes nothing of e, and the file only if e's history says
\* so, leaves e what it knows.
LEMMA FileInvFrame ==
    ASSUME NEW e \in Downloads, FileInvOf(e),
           ~shared'[e] =>
             /\ ~shared[e] /\ disk' = disk
             /\ size'[e] = size[e] /\ read'[e] = read[e]
             /\ surplus'[e] = surplus[e]
             /\ good'[e] = good[e] /\ held'[e] = held[e]
             /\ \/ pc'[e] = pc[e]
                \/ pc'[e] \notin {"fetch", "open", "hash", "complete"}
    PROVE  FileInvOf(e)'
  BY DEF FileInvOf, BeginsTrue

LEMMA FileStep ==
    ASSUME IndInv, [Next]_vars
    PROVE  FileInv'
  <1>0. /\ TypeOK /\ HeldInv
        /\ \A d \in Downloads : FileInvOf(d)
    BY FileInvAll DEF IndInv
  <1> SUFFICES \A e \in Downloads : FileInvOf(e)'
    BY FileInvAll DEF FileInv, FileInvOf
  <1> USE DEF fileVars, blameVars, readVars
  <1>1. ASSUME NEW d \in Downloads,
               \/ Start(d) \/ Run(d) \/ GetPeers(d) \/ HandshakeAll(d)
               \/ FetchFileInfo(d) \/ ReadFails(d) \/ DeleteFails(d)
        PROVE  \A e \in Downloads : FileInvOf(e)'
    <2>1. UNCHANGED << disk, shared, surplus, read, good >>
      BY <1>1 DEF Start, Run, GetPeers, HandshakeAll, FetchFileInfo, ReadFails,
                  DeleteFails
    <2>2. pc'[d] \notin {"fetch", "open", "hash", "complete"}
      BY <1>0, <1>1 DEF Start, Run, GetPeers, HandshakeAll, FetchFileInfo,
                        ReadFails, DeleteFails, Goto, TypeOK
    <2>3. \A e \in Downloads :
             e # d => pc'[e] = pc[e] /\ size'[e] = size[e] /\ held'[e] = held[e]
      BY <1>0, <1>1 DEF Start, Run, GetPeers, HandshakeAll, FetchFileInfo,
                        ReadFails, DeleteFails, Goto, TypeOK
    <2>4. FileInvOf(d)'
      BY <2>2 DEF FileInvOf
    <2> QED
      BY <1>0, <2>1, <2>3, <2>4, FileInvFrame
  <1>2. ASSUME NEW d \in Downloads, Preallocate(d)
        PROVE  \A e \in Downloads : FileInvOf(e)'
    <2>1. size[d] \in Nat /\ size' = size
      BY <1>0, <1>2 DEF Preallocate, TypeOK
    <2>2. disk' = Preallocated(size[d]) /\ disk' \in Seq(Cell) /\ Len(disk') = size[d]
      BY <1>2, <2>1, PreallocatedType DEF Preallocate, StoreAnew
    <2>3. pc'[d] = "fetch"
      BY <1>0, <1>2, GotoType DEF Preallocate, OnFile
    <2>4. FileInvOf(d)'
      BY <2>1, <2>2, <2>3, StorageAssumption DEF FileInvOf
    <2>5. ASSUME NEW e \in Downloads, e # d, ~shared'[e]
          PROVE  /\ ~shared[e] /\ disk' = disk
                 /\ \/ pc'[e] = pc[e]
                    \/ pc'[e] \notin {"fetch", "open", "hash", "complete"}
      BY <1>0, <1>2, <2>2, <2>5, StoreType, GotoType DEF Preallocate, OnFile
    <2>6. UNCHANGED << size, surplus, read, good, held >>
      BY <1>2 DEF Preallocate
    <2> QED
      BY <1>0, <2>4, <2>5, <2>6, FileInvFrame
  <1>3. ASSUME NEW d \in Downloads, PreallocateFails(d)
        PROVE  \A e \in Downloads : FileInvOf(e)'
    <2>1. pc'[d] \notin {"fetch", "open", "hash", "complete"}
      BY <1>0, <1>3, GotoType DEF PreallocateFails, Ended
    <2>2. FileInvOf(d)'
      BY <2>1 DEF FileInvOf
    <2>3. disk \in Seq(Cell) \cup {NoFile} /\ << >> \in Seq(Cell)
      BY <1>0, EmptySeq DEF TypeOK
    <2>4. ASSUME NEW e \in Downloads, e # d, ~shared'[e]
          PROVE  /\ ~shared[e] /\ disk' = disk
                 /\ \/ pc'[e] = pc[e]
                    \/ pc'[e] \notin {"fetch", "open", "hash", "complete"}
      BY <1>0, <1>3, <2>3, <2>4, StoreType, GotoType DEF PreallocateFails, Ended
    <2>5. UNCHANGED << size, surplus, read, good, held >>
      BY <1>3 DEF PreallocateFails
    <2> QED
      BY <1>0, <2>2, <2>4, <2>5, FileInvFrame
  <1>4. ASSUME NEW d \in Downloads, NEW i \in Slots, WriteChunk(d, i) \/ WriteFails(d, i)
        PROVE  \A e \in Downloads : FileInvOf(e)'
    <2> DEFINE t == task[d][i]
    <2>1. /\ pc[d] = "fetch" /\ t.st = "write"
          /\ UNCHANGED << pc, size, read, good, held >>
      BY <1>4 DEF WriteChunk, WriteFails
    <2>2. t.data \in Seq(Cell) /\ t.pos \in Nat
      BY <1>0 DEF TypeOK, Task
    <2>6. /\ surplus'[d] = 0 => surplus[d] = 0 /\ Len(t.data) <= Asked(t)
          /\ \A e \in Downloads : e # d => surplus'[e] = surplus[e]
      BY <1>0, <1>4, SurplusGrows DEF WriteChunk, WriteFails
    <2>3. \/ disk = NoFile /\ Store(d, disk)
          \/ /\ disk # NoFile
             /\ \E data \in Seq(Cell) :
                  Len(data) <= Len(t.data) /\ Store(d, Written(disk, t.pos, data))
      <3>1. CASE WriteChunk(d, i)
        BY <2>2, <3>1, LenProperties DEF WriteChunk
      <3>2. CASE WriteFails(d, i)
        <4>1. \A n \in 0..Len(t.data) : /\ SubSeq(t.data, 1, n) \in Seq(Cell)
                                        /\ Len(SubSeq(t.data, 1, n)) <= Len(t.data)
          BY <2>2, LenProperties
        <4> QED
          BY <3>2, <4>1 DEF WriteFails
      <3> QED
        BY <1>4, <3>1, <3>2
    <2>4. FileInvOf(d)'
      <3>1. ASSUME ~shared'[d]
            PROVE  disk' # NoFile /\ (surplus'[d] = 0 => Len(disk') = size[d])
        <4>1. ~shared[d]
          BY <1>0, <2>3, <3>1 DEF Store, TypeOK
        <4>2. disk # NoFile /\ disk \in Seq(Cell)
          BY <1>0, <2>1, <4>1 DEF FileInvOf, TypeOK
        <4>3. PICK data \in Seq(Cell) : /\ Len(data) <= Len(t.data)
                                        /\ disk' = Written(disk, t.pos, data)
          BY <2>3, <4>2 DEF Store
        <4>4. disk' # NoFile
          BY <2>2, <4>2, <4>3, WrittenType, StorageAssumption
        <4>5. ASSUME surplus'[d] = 0 PROVE Len(disk') = size[d]
          BY <2>1, <2>6, <4>1, <4>3, <4>5, WriteInFile
        <4> QED
          BY <4>4, <4>5
      <3> QED
        BY <2>1, <3>1 DEF FileInvOf
    <2>5. ASSUME NEW e \in Downloads, e # d, ~shared'[e]
          PROVE  ~shared[e] /\ disk' = disk
      BY <1>0, <2>3, <2>5 DEF Store, TypeOK
    <2> QED
      BY <1>0, <2>1, <2>4, <2>5, <2>6, FileInvFrame
  <1>5. ASSUME NEW d \in Downloads, NEW i \in Slots,
               FetchOk(d, i) \/ FetchFails(d, i) \/ FetchMismatch(d, i) \/ Blame(d, i)
        PROVE  \A e \in Downloads : FileInvOf(e)'
    <2>1. UNCHANGED << disk, shared, surplus, pc, size, read, good, held >>
      BY <1>5 DEF FetchOk, FetchFails, FetchMismatch, Blame
    <2> QED
      BY <1>0, <2>1, FileInvFrame
  <1>6. ASSUME NEW d \in Downloads, Assess(d) \/ OpenReader(d)
        PROVE  \A e \in Downloads : FileInvOf(e)'
    <2>1. /\ UNCHANGED << disk, shared, surplus, size, held >>
          /\ pc[d] \in {"fetch", "open"}
          /\ \A e \in Downloads : e # d => /\ pc'[e] = pc[e] /\ read'[e] = read[e]
                                         /\ good'[e] = good[e]
      BY <1>0, <1>6 DEF Assess, OpenReader, Goto, TypeOK
    <2>2. held[d] = NoFile /\ (disk # NoFile => Len(disk) \in Nat)
      BY <1>0, <2>1, LenProperties DEF HeldInv, TypeOK
    <2>3. /\ pc'[d] # "complete"
          /\ pc'[d] = "hash" => read'[d] = 0
      BY <1>0, <1>6 DEF Assess, OnGap, OpenReader, Goto, TypeOK
    <2>4. FileInvOf(d)'
      BY <1>0, <2>1, <2>2, <2>3 DEF FileInvOf
    <2> QED
      BY <1>0, <2>1, <2>4, FileInvFrame
  <1>7. ASSUME NEW d \in Downloads, ReadCell(d)
        PROVE  \A e \in Downloads : FileInvOf(e)'
    <2>1. UNCHANGED << disk, shared, surplus, size, held, pc >> /\ pc[d] = "hash"
      BY <1>7 DEF ReadCell
    <2>2. \A e \in Downloads : e # d => read'[e] = read[e] /\ good'[e] = good[e]
      BY <1>0, <1>7 DEF ReadCell, TypeOK
    <2>3. /\ read[d] \in Nat /\ read'[d] = read[d] + 1
          /\ good'[d] => good[d] /\ Reading(d)[read[d] + 1] = "right"
      BY <1>0, <1>7 DEF ReadCell, TypeOK
    <2>4. ASSUME ~shared[d] PROVE FileInvOf(d)'
      <3>1. Reading(d) = disk /\ Len(disk) \in Nat /\ size[d] \in Nat
        BY <1>0, <2>1, <2>4, LenProperties DEF FileInvOf, Reading, TypeOK
      <3>2. read[d] + 1 <= Len(disk)
        BY <1>7, <2>3, <3>1 DEF ReadCell, Lesser
      <3>3. good'[d] => \A k \in 1..read'[d] : disk[k] = "right"
        <4>1. good[d] => \A k \in 1..read[d] : disk[k] = "right"
          BY <1>0, <2>1, <2>4 DEF FileInvOf
        <4> QED
          BY <2>3, <3>1, <4>1
      <3> QED
        BY <1>0, <2>1, <2>3, <2>4, <3>2, <3>3 DEF FileInvOf
    <2>5. FileInvOf(d)'
      BY <2>1, <2>4 DEF FileInvOf
    <2> QED
      BY <1>0, <2>1, <2>2, <2>5, FileInvFrame
  <1>8. ASSUME NEW d \in Downloads, FinishHash(d)
        PROVE  \A e \in Downloads : FileInvOf(e)'
    <2>1. UNCHANGED << disk, shared, surplus, size, read, good >> /\ pc[d] = "hash"
      BY <1>8 DEF FinishHash
    <2>2. /\ pc'[d] = (IF Verified(d) THEN "complete" ELSE "delete")
          /\ \A e \in Downloads : e # d => pc'[e] = pc[e] /\ held'[e] = held[e]
      BY <1>0, <1>8 DEF FinishHash, Goto, TypeOK
    <2>3. ASSUME ~shared[d], Verified(d) PROVE BeginsTrue
      BY <1>0, <2>1, <2>3 DEF FileInvOf, Verified, BeginsTrue
    <2>4. ASSUME ~shared[d], Verified(d), surplus[d] = 0 PROVE disk = TrueFile
      <3>1. /\ Reading(d) = disk /\ Len(disk) = size[d] /\ disk \in Seq(Cell)
            /\ read[d] <= Len(disk) /\ size[d] \in Nat /\ read[d] \in Nat
            /\ \A k \in 1..read[d] : disk[k] = "right"
        BY <1>0, <2>1, <2>4 DEF FileInvOf, Reading, Verified, TypeOK
      <3>2. read[d] = size[d] /\ Len(disk) = TrueSize
        BY <1>8, <2>4, <3>1 DEF FinishHash, Lesser, Verified
      <3>3. Len(TrueFile) = TrueSize /\ TrueFile \in Seq(Cell)
        BY TrueFileType
      <3>4. \A k \in 1..TrueSize : disk[k] = TrueFile[k]
        BY <3>1, <3>2 DEF TrueFile
      <3> QED
        BY <3>1, <3>2, <3>3, <3>4, SeqEqual
    <2>5. FileInvOf(d)'
      BY <2>1, <2>2, <2>3, <2>4 DEF FileInvOf, BeginsTrue
    <2> QED
      BY <1>0, <2>1, <2>2, <2>5, FileInvFrame
  <1>9. ASSUME NEW d \in Downloads, Delete(d)
        PROVE  \A e \in Downloads : FileInvOf(e)'
    <2>1. /\ Store(d, NoFile) /\ pc'[d] = "failed"
          /\ UNCHANGED << size, surplus, read, good >>
      BY <1>0, <1>9, GotoType DEF Delete, Ended
    <2>2. FileInvOf(d)'
      BY <2>1 DEF FileInvOf
    <2>3. ASSUME NEW e \in Downloads, e # d, ~shared'[e]
          PROVE  /\ ~shared[e] /\ disk' = disk /\ disk = NoFile
                 /\ \/ pc'[e] = pc[e]
                    \/ pc'[e] \notin {"fetch", "open", "hash", "complete"}
      BY <1>0, <1>9, <2>1, <2>3, StoreType, GotoType DEF Delete, Ended
    <2>4. ASSUME NEW e \in Downloads, e # d, ~shared'[e] PROVE held'[e] = held[e]
      BY <1>0, <1>9, <2>3, <2>4 DEF Delete, TypeOK
    <2> QED
      BY <1>0, <2>1, <2>2, <2>3, <2>4, FileInvFrame
  <1>10. ASSUME Stop PROVE \A e \in Downloads : FileInvOf(e)'
    <2>1. UNCHANGED << disk, shared, surplus, size, read, good >>
      BY <1>10 DEF Stop
    <2>2. ASSUME NEW e \in Downloads
          PROVE  /\ pc'[e] \notin {"fetch", "open", "hash"}
                 /\ pc'[e] = "complete" => pc[e] = "complete"
      BY <1>0, <1>10 DEF Stop, TypeOK, Early, OnFile, Ended
    <2> QED
      BY <1>0, <2>1, <2>2 DEF FileInvOf, BeginsTrue
  <1>11. CASE UNCHANGED vars
    BY <1>0, <1>11, FileInvFrame DEF vars
  <1> QED
    BY <1>1, <1>2, <1>3, <1>4, <1>5, <1>6, <1>7, <1>8, <1>9, <1>10, <1>11
    DEF Next, Step

LEMMA InitInd == Init => IndInv
  <1>1. Init => TypeInv
    BY InitType DEF TypeInv, Init, EarlyInv, SlotInv, NoTask, Early
  <1>2. Init => TaskInv /\ HeldInv /\ FileInv
    BY DEF Init, TaskInv, HeldInv, FileInv, NoTask
  <1> QED
    BY <1>1, <1>2 DEF IndInv, TypeInv

LEMMA NextInd ==
    ASSUME IndInv, [Next]_vars
    PROVE  IndInv'
  BY TypeStep, StageStep, TaskStep, HeldStep, FileStep DEF IndInv, TypeInv

\* A download that completed and whose file no other download changed has
\* left the requested file, and nothing behind it if no reply was longer than
\* its request: for any number of downloads and peers, any division, any sizes
\* the peers tell and any replies they send (download_from_peers).
THEOREM CompleteStored == Spec => []CompleteIsStored
  <1>1. Init => IndInv
    BY InitInd
  <1>2. IndInv /\ [Next]_vars => IndInv'
    BY NextInd
  <1>3. IndInv => CompleteIsStored
    BY DEF IndInv, FileInv, CompleteIsStored
  <1> QED
    BY <1>1, <1>2, <1>3, PTL DEF Spec
-----------------------------------------------------------------------------
(* Peers that send no more than they are asked for. *)

LEMMA InitModest == Init => ModestInv
  BY DEF Init, ModestInv, NoTask

LEMMA ModestStep ==
    ASSUME Excess = 0, TypeOK, ModestInv, [Next]_vars
    PROVE  ModestInv'
  <1> USE DEF fileVars, blameVars, readVars
  <1>1. ASSUME NEW d \in Downloads, Preallocate(d) PROVE ModestInv'
    <2>1. /\ surplus' = surplus
          /\ \A i \in Slots : task'[d][i].st \in {"off", "fetch"}
          /\ \A e \in Downloads : e # d => task'[e] = task[e]
      BY <1>1 DEF Preallocate, NewTasks, NoTask, TypeOK
    <2> QED
      BY <2>1 DEF ModestInv, Asked
  <1>2. ASSUME NEW d \in Downloads, NEW i \in Slots, Fetching(d, i) PROVE ModestInv'
    <2> DEFINE t == task[d][i]
               u == task'[d][i]
    <2>1. t \in Task /\ Asked(t) \in Int
      BY AskedBounds DEF TypeOK
    <2>2. CASE FetchOk(d, i)
      <3>1. PICK r \in Replies(t) :
               task' = [task EXCEPT ![d][i].st = "write", ![d][i].data = r]
        BY <2>2 DEF FetchOk
      <3>2. Len(r) <= Asked(t)
        BY <2>1, <3>1, ReplyBounds, LenProperties
      <3>3. /\ u.data = r /\ u.pos = t.pos /\ u.hi = t.hi
            /\ \A e \in Downloads, j \in Slots : e # d \/ j # i => task'[e][j] = task[e][j]
        BY <2>1, <3>1 DEF TypeOK, Task
      <3>4. surplus' = surplus
        BY <2>2 DEF FetchOk
      <3> QED
        BY <3>2, <3>3, <3>4 DEF ModestInv, Asked
    <2>3. CASE ~FetchOk(d, i)
      <3>1. /\ u.st # "write"
            /\ \A e \in Downloads, j \in Slots : e # d \/ j # i => task'[e][j] = task[e][j]
        <4>1. CASE FetchFails(d, i) \/ FetchMismatch(d, i) \/ Blame(d, i)
          <5>1. PICK st \in {"failed", "mismatch", "blamed"} :
                   task' = [task EXCEPT ![d][i].st = st]
            BY <4>1 DEF FetchFails, FetchMismatch, Blame
          <5> QED
            BY <2>1, <5>1 DEF TypeOK, Task
        <4>2. CASE WriteChunk(d, i)
          BY <2>1, <4>2 DEF WriteChunk, TypeOK, Task
        <4>3. CASE WriteFails(d, i)
          BY <2>1, <4>3 DEF WriteFails, TypeOK, Task
        <4> QED
          BY <1>2, <2>3, <4>1, <4>2, <4>3 DEF Fetching
      <3>2. surplus' = surplus
        <4>1. CASE WriteChunk(d, i) \/ WriteFails(d, i)
          <5>1. t.st = "write" /\ surplus' = [surplus EXCEPT ![d] = @ + Beyond(t)]
            BY <4>1 DEF WriteChunk, WriteFails
          <5>2. Beyond(t) = 0 /\ surplus[d] = 0
            BY <2>1, <5>1, BeyondBounds DEF ModestInv
          <5> QED
            BY <5>1, <5>2 DEF TypeOK
        <4>2. CASE ~(WriteChunk(d, i) \/ WriteFails(d, i))
          BY <1>2, <2>3, <4>2 DEF Fetching, FetchFails, FetchMismatch, Blame
        <4> QED
          BY <4>1, <4>2
      <3> QED
        BY <3>1, <3>2 DEF ModestInv, Asked
    <2> QED
      BY <2>2, <2>3
  <1>3. ASSUME UNCHANGED << task, surplus >> PROVE ModestInv'
    BY <1>3 DEF ModestInv, Asked
  <1> QED
    BY <1>1, <1>2, <1>3
    DEF Next, Step, Fetching, vars, Start, Run, GetPeers, HandshakeAll, FetchFileInfo,
        PreallocateFails, Assess, OpenReader, ReadCell, ReadFails, FinishHash,
        Delete, DeleteFails, Stop
-----------------------------------------------------------------------------
(* Who answers for a file that is not the requested one.                   *)
(*                                                                         *)
(* Somebody fetches, deletes or was lost over it; or somebody is hashing   *)
(* it and will not find it right.  The last one that began to hash is not  *)
(* enough: it may have a size that is too short for what another one wrote *)
(* beyond it, or be written under.  So the one to look for is one whose    *)
(* size is too short to be verified, or one whose size covers the file;    *)
(* and that one has read the file as it is, unless the file is too long to *)
(* be verified by anybody who reads all of it.                             *)

\* What d has read is what is there.
ReadsTrue(d) ==
    /\ read[d] <= Len(disk)
    /\ good[d] => \A k \in 1..read[d] : disk[k] = "right"

AnswersFor(d) ==
    \/ pc[d] \in {"delete", "orphaned"}
    \/ /\ pc[d] \in {"fetch", "open", "hash"}
       /\ \/ size[d] < TrueSize
          \/ /\ Len(disk) <= size[d]
             /\ pc[d] = "hash" => /\ held[d] = NoFile
                                  /\ Len(disk) <= TrueSize => ReadsTrue(d)

\* The re-read stays within the size.
ReadWithin == \A d \in Downloads : pc[d] = "hash" => read[d] <= size[d]

OwnerInv ==
    /\ disk \notin {NoFile, TrueFile} => \E d \in Downloads : AnswersFor(d)
    /\ ReadWithin

\* A write makes the file no longer than itself reaches, if longer at all.
LEMMA WrittenLength ==
    ASSUME NEW f \in Seq(Cell), NEW off \in Nat, NEW data \in Seq(Cell)
    PROVE  /\ Len(Written(f, off, data)) \in Nat
           /\ \/ Len(Written(f, off, data)) = Len(f)
              \/ Len(Written(f, off, data)) <= off + Len(data)
  <1>1. CASE off + Len(data) <= Len(f)
    BY <1>1, WrittenType, LenProperties
  <1>2. CASE ~(off + Len(data) <= Len(f)) /\ data = << >>
    BY <1>2, LenProperties DEF Written
  <1>3. CASE ~(off + Len(data) <= Len(f)) /\ data # << >>
    <2> DEFINE n == off + Len(data)
               w == Written(f, off, data)
    <2>1. Len(f) \in Nat /\ Len(data) \in Nat /\ n \in Nat
      BY LenProperties
    <2>2. Greater(Len(f), n) = n
      BY <1>3, <2>1 DEF Greater
    <2>3. DOMAIN w = 1..n
      BY <1>3, <2>2 DEF Written
    <2> HIDE DEF n, w
    <2>4. w \in Seq(Cell)
      BY WrittenType DEF w
    <2>5. Len(w) = n
      BY <2>1, <2>3, <2>4, LenProperties
    <2> QED
      BY <2>1, <2>5 DEF w, n
  <1> QED
    BY <1>1, <1>2, <1>3

\* A download whose part a step does not touch answers for the file as before.
LEMMA AnswersFrame ==
    ASSUME NEW e \in Downloads, AnswersFor(e), disk' = disk,
           pc'[e] = pc[e], size'[e] = size[e], held'[e] = held[e],
           read'[e] = read[e], good'[e] = good[e]
    PROVE  AnswersFor(e)'
  BY DEF AnswersFor, ReadsTrue

\* Whoever reads to the end and finds all of it right has found the file, if
\* it answers for the file.
LEMMA NotVerified ==
    ASSUME IndInv, ReadWithin, NEW d \in Downloads, FinishHash(d), AnswersFor(d),
           Verified(d), disk # NoFile
    PROVE  disk = TrueFile
  <1>1. /\ pc[d] = "hash" /\ size[d] \in Nat /\ read[d] \in Nat
        /\ disk \in Seq(Cell) /\ Len(disk) \in Nat
        /\ read[d] = TrueSize /\ good[d] /\ read[d] <= size[d]
    BY LenProperties DEF IndInv, TypeOK, FinishHash, Verified, ReadWithin
  <1>2. Len(disk) <= size[d] /\ held[d] = NoFile
    BY <1>1, StorageAssumption DEF AnswersFor
  <1>3. read[d] >= Len(disk)
    BY <1>1, <1>2 DEF FinishHash, Reading, Lesser
  <1>4. ReadsTrue(d)
    BY <1>1, <1>3, StorageAssumption DEF AnswersFor
  <1>5. Len(disk) = TrueSize /\ \A k \in 1..TrueSize : disk[k] = TrueFile[k]
    BY <1>1, <1>3, <1>4 DEF ReadsTrue, TrueFile
  <1> QED
    BY <1>1, <1>5, TrueFileType, SeqEqual

\* Whoever writes answers for what the file becomes; or, if the file was longer
\* than that before, whoever answered for it then.
LEMMA WriterAnswers ==
    ASSUME IndInv, ModestInv, NEW d \in Downloads, NEW i \in Slots,
           WriteChunk(d, i) \/ WriteFails(d, i), disk' \notin {NoFile, TrueFile},
           Len(disk) > TrueSize => \E e \in Downloads : AnswersFor(e)
    PROVE  \E e \in Downloads : AnswersFor(e)'
  <1> DEFINE t == task[d][i]
  <1> USE DEF fileVars, blameVars, readVars
  <1>0. TypeOK /\ TaskInv
    BY DEF IndInv
  <1>1. /\ pc[d] = "fetch" /\ t.st = "write"
        /\ UNCHANGED << pc, size, read, good, held >>
    BY DEF WriteChunk, WriteFails
  <1>2. /\ t \in Task /\ t.data \in Seq(Cell) /\ t.pos \in Nat /\ t.hi \in Nat
        /\ size[d] \in Nat /\ Len(t.data) \in Nat
    BY <1>0, LenProperties DEF TypeOK, Task
  <1>3. t.pos + Len(t.data) <= size[d]
    <2>1. t.pos <= t.hi /\ t.hi < size[d] /\ Len(t.data) <= Asked(t)
      BY <1>0, <1>1 DEF TaskInv, ModestInv
    <2>2. t.pos + Asked(t) <= t.hi + 1 /\ Asked(t) \in Int
      BY <1>2, <2>1, AskedBounds
    <2>3. t.pos + Len(t.data) <= t.pos + Asked(t)
      BY <1>2, <2>1, <2>2
    <2>4. t.hi + 1 <= size[d]
      BY <1>2, <2>1
    <2> HIDE DEF t
    <2> QED
      BY <1>2, <2>2, <2>3, <2>4
  <1>4. /\ disk \in Seq(Cell) /\ Len(disk) \in Nat
        /\ \E data \in Seq(Cell) :
              Len(data) <= Len(t.data) /\ disk' = Written(disk, t.pos, data)
    <2>1. CASE WriteChunk(d, i)
      BY <1>0, <1>2, <2>1, LenProperties DEF WriteChunk, Store, TypeOK
    <2>2. CASE WriteFails(d, i)
      <3>1. \A n \in 0..Len(t.data) : /\ SubSeq(t.data, 1, n) \in Seq(Cell)
                                      /\ Len(SubSeq(t.data, 1, n)) <= Len(t.data)
        BY <1>2, LenProperties
      <3>2. disk # NoFile
        BY <2>2 DEF WriteFails, Store
      <3> QED
        BY <1>0, <2>2, <3>1, <3>2, LenProperties DEF WriteFails, Store, TypeOK
    <2> QED
      BY <2>1, <2>2
  <1>5. PICK data \in Seq(Cell) :
           Len(data) <= Len(t.data) /\ disk' = Written(disk, t.pos, data)
    BY <1>4
  <1>6. Len(disk') \in Nat /\ (Len(disk') = Len(disk) \/ Len(disk') <= size[d])
    <2>1. Len(data) \in Nat
      BY LenProperties
    <2> QED
      <3>1. t.pos + Len(data) <= size[d]
        <4> HIDE DEF t
        <4> QED
          BY <1>2, <1>3, <1>5, <2>1
      <3>2. /\ Len(disk') \in Nat
            /\ Len(disk') = Len(disk) \/ Len(disk') <= t.pos + Len(data)
        BY <1>2, <1>4, <1>5, WrittenLength
      <3> HIDE DEF t
      <3> QED
        BY <1>2, <2>1, <3>1, <3>2
  <1>7. CASE size[d] < TrueSize \/ Len(disk') <= size[d]
    BY <1>1, <1>7 DEF AnswersFor
  <1>8. CASE ~(size[d] < TrueSize) /\ ~(Len(disk') <= size[d])
    <2>1. Len(disk') = Len(disk) /\ Len(disk) > size[d] /\ Len(disk) > TrueSize
      BY <1>2, <1>4, <1>6, <1>8, StorageAssumption
    <2>2. PICK e \in Downloads : AnswersFor(e)
      BY <2>1
    <2>3. ~(Len(disk') <= TrueSize)
      BY <1>4, <2>1, StorageAssumption
    <2> QED
      BY <1>1, <2>1, <2>2, <2>3 DEF AnswersFor
  <1> QED
    BY <1>7, <1>8

LEMMA ReadStep ==
    ASSUME IndInv, IndInv', ReadWithin, [Next]_vars
    PROVE  ReadWithin'
  <1> SUFFICES ASSUME NEW d \in Downloads, pc'[d] = "hash"
               PROVE  read'[d] <= size'[d]
    BY DEF ReadWithin
  <1> USE DEF fileVars, blameVars, readVars
  <1>0. TypeOK
    BY DEF IndInv
  <1>1. size'[d] \in Nat /\ (pc[d] = "hash" => read[d] <= size[d])
    BY DEF IndInv, TypeOK, ReadWithin
  <1>2. CASE \E e \in Downloads : OpenReader(e) \/ ReadCell(e)
    <2>1. PICK e \in Downloads : OpenReader(e) \/ ReadCell(e)
      BY <1>2
    <2>2. size' = size /\ (e # d => pc'[d] = pc[d] /\ read'[d] = read[d])
      BY <1>0, <2>1 DEF OpenReader, ReadCell, Goto, TypeOK
    <2>3. CASE OpenReader(e) /\ e = d
      BY <1>0, <1>1, <2>3 DEF OpenReader, TypeOK
    <2>4. CASE ReadCell(e) /\ e = d
      BY <1>0, <2>4, LenProperties DEF ReadCell, Lesser, TypeOK
    <2> QED
      BY <1>1, <2>1, <2>2, <2>3, <2>4
  <1>3. CASE \E e \in Downloads : FetchFileInfo(e)
    BY <1>0, <1>1, <1>3 DEF FetchFileInfo, Goto, TypeOK
  <1>4. CASE \E e \in Downloads : Preallocate(e) \/ PreallocateFails(e) \/ Delete(e)
    BY <1>0, <1>1, <1>4
    DEF Preallocate, PreallocateFails, Delete, Goto, GotoAfresh, TypeOK
  <1>5. CASE \E e \in Downloads :
               \/ Start(e) \/ Run(e) \/ GetPeers(e) \/ HandshakeAll(e) \/ Assess(e)
               \/ ReadFails(e) \/ FinishHash(e) \/ DeleteFails(e)
    BY <1>0, <1>1, <1>5
    DEF Start, Run, GetPeers, HandshakeAll, Assess, OnGap, ReadFails, FinishHash,
        DeleteFails, Goto, TypeOK
  <1>6. CASE \E e \in Downloads, i \in Slots : Fetching(e, i)
    BY <1>0, <1>1, <1>6, FetchingFrame
  <1>7. CASE Stop \/ UNCHANGED vars
    BY <1>0, <1>1, <1>7 DEF Stop, vars, Early, OnFile, TypeOK
  <1> QED
    BY <1>2, <1>3, <1>4, <1>5, <1>6, <1>7 DEF Next, Step, Fetching

\* If somebody answers for the file as it is, somebody does after the step.
LEMMA AnswerStep ==
    ASSUME IndInv, ModestInv, ReadWithin, [Next]_vars, disk' \notin {NoFile, TrueFile},
           disk \notin {NoFile, TrueFile} => \E e \in Downloads : AnswersFor(e)
    PROVE  \E e \in Downloads : AnswersFor(e)'
  <1>0. TypeOK /\ HeldInv
    BY DEF IndInv
  <1> USE DEF fileVars, blameVars, readVars
  <1>1. Len(disk) > TrueSize /\ disk # NoFile => \E z \in Downloads : AnswersFor(z)
    BY TrueFileType, StorageAssumption
  <1>2. disk' = disk => \E z \in Downloads : AnswersFor(z)
    OBVIOUS
  <1>3. ASSUME NEW d \in Downloads,
               Start(d) \/ Run(d) \/ GetPeers(d) \/ HandshakeAll(d) \/ FetchFileInfo(d)
        PROVE  \E e \in Downloads : AnswersFor(e)'
    <2>1. disk' = disk /\ pc[d] \in {"idle"} \cup Early
      BY <1>3 DEF Start, Run, GetPeers, HandshakeAll, FetchFileInfo, Early
    <2>2. PICK z \in Downloads : AnswersFor(z)
      BY <1>2, <2>1
    <2>3. z # d
      BY <2>1, <2>2 DEF AnswersFor, Early
    <2>4. /\ pc'[z] = pc[z] /\ size'[z] = size[z] /\ held'[z] = held[z]
          /\ read'[z] = read[z] /\ good'[z] = good[z]
      BY <1>0, <1>3, <2>3 DEF Start, Run, GetPeers, HandshakeAll, FetchFileInfo, Goto,
                              TypeOK
    <2> QED
      BY <2>1, <2>2, <2>4, AnswersFrame
  <1>4. ASSUME NEW d \in Downloads, Preallocate(d)
        PROVE  \E e \in Downloads : AnswersFor(e)'
    <2>1. size[d] \in Nat /\ size' = size
      BY <1>0, <1>4 DEF Preallocate, TypeOK
    <2>2. Len(disk') = size[d]
      BY <1>4, <2>1, PreallocatedType DEF Preallocate, StoreAnew
    <2>3. pc'[d] = "fetch"
      BY <1>0, <1>4 DEF Preallocate, GotoAfresh, TypeOK
    <2> QED
      BY <2>1, <2>2, <2>3 DEF AnswersFor
  <1>5. ASSUME NEW d \in Downloads, PreallocateFails(d)
        PROVE  \E e \in Downloads : AnswersFor(e)'
    <2>1. CASE Goto(d, "aborted") /\ Store(d, disk)
      <3>1. PICK z \in Downloads : AnswersFor(z)
        BY <1>2, <2>1 DEF Store
      <3>2. z # d
        BY <1>5, <3>1 DEF PreallocateFails, AnswersFor
      <3>3. pc'[z] = pc[z] /\ UNCHANGED << disk, size, held, read, good >>
        BY <1>0, <1>5, <2>1, <3>2 DEF PreallocateFails, Goto, Store, TypeOK
      <3> QED
        BY <3>1, <3>3, AnswersFrame
    <2>2. CASE GotoAfresh(d, "orphaned")
      BY <1>0, <2>2 DEF GotoAfresh, AnswersFor, TypeOK
    <2> QED
      BY <1>5, <2>1, <2>2 DEF PreallocateFails
  <1>6. ASSUME NEW d \in Downloads, NEW i \in Slots, WriteChunk(d, i) \/ WriteFails(d, i)
        PROVE  \E e \in Downloads : AnswersFor(e)'
    <2>1. disk # NoFile \/ disk' = disk
      BY <1>6 DEF WriteChunk, WriteFails, Store
    <2> QED
      BY <1>1, <1>6, <2>1, WriterAnswers
  <1>7. ASSUME NEW d \in Downloads, NEW i \in Slots,
               FetchOk(d, i) \/ FetchFails(d, i) \/ FetchMismatch(d, i) \/ Blame(d, i)
        PROVE  \E e \in Downloads : AnswersFor(e)'
    <2>1. UNCHANGED << disk, pc, size, held, read, good >>
      BY <1>7 DEF FetchOk, FetchFails, FetchMismatch, Blame
    <2> QED
      BY <1>2, <2>1, AnswersFrame
  <1>8. ASSUME NEW d \in Downloads,
               \/ Assess(d) \/ OpenReader(d) \/ ReadCell(d) \/ ReadFails(d)
               \/ FinishHash(d) \/ DeleteFails(d)
        PROVE  \E e \in Downloads : AnswersFor(e)'
    <2>1. disk' = disk /\ size' = size
      BY <1>8 DEF Assess, OpenReader, ReadCell, ReadFails, FinishHash, DeleteFails
    <2>2. PICK z \in Downloads : AnswersFor(z)
      BY <1>2, <2>1
    <2>3. CASE z # d
      <3>1. /\ pc'[z] = pc[z] /\ held'[z] = held[z]
            /\ read'[z] = read[z] /\ good'[z] = good[z]
        BY <1>0, <1>8, <2>3
        DEF Assess, OpenReader, ReadCell, ReadFails, FinishHash, DeleteFails, Goto, TypeOK
      <3> QED
        BY <2>1, <2>2, <3>1, AnswersFrame
    <2>4. CASE z = d
      <3>1. CASE Assess(d)
        <4>1. pc[d] = "fetch" /\ pc'[d] \in {"open", "delete"}
          BY <1>0, <3>1 DEF Assess, OnGap, Goto, TypeOK
        <4> QED
          BY <2>1, <2>2, <2>4, <4>1 DEF AnswersFor
      <3>2. CASE OpenReader(d)
        <4>1. /\ pc[d] = "open" /\ pc'[d] = "hash" /\ read'[d] = 0
              /\ held'[d] = NoFile
          BY <1>0, <2>1, <3>2 DEF OpenReader, Goto, HeldInv, TypeOK
        <4>2. Len(disk) \in Nat
          BY <1>0, <2>1, LenProperties DEF TypeOK
        <4> QED
          BY <2>1, <2>2, <2>4, <4>1, <4>2 DEF AnswersFor, ReadsTrue
      <3>3. CASE ReadCell(d)
        <4>1. /\ pc[d] = "hash" /\ pc'[d] = "hash" /\ held' = held
              /\ read[d] \in Nat /\ size[d] \in Nat /\ read'[d] = read[d] + 1
              /\ good'[d] => good[d] /\ Reading(d)[read[d] + 1] = "right"
          BY <1>0, <3>3 DEF ReadCell, TypeOK
        <4>2. CASE size[d] < TrueSize
          BY <2>1, <4>1, <4>2 DEF AnswersFor
        <4>3. CASE ~(size[d] < TrueSize)
          <5>1. /\ Len(disk) <= size[d] /\ held[d] = NoFile
                /\ Len(disk) <= TrueSize => ReadsTrue(d)
            BY <2>2, <2>4, <4>1, <4>3 DEF AnswersFor
          <5>2. Reading(d) = disk /\ Len(disk) \in Nat
            BY <1>0, <2>1, <5>1, LenProperties DEF Reading, TypeOK
          <5>3. read[d] < Len(disk)
            BY <3>3, <4>1, <5>2 DEF ReadCell, Lesser
          <5>4. ReadsTrue(d) => ReadsTrue(d)'
            BY <2>1, <4>1, <5>2, <5>3 DEF ReadsTrue
          <5> QED
            BY <2>1, <4>1, <5>1, <5>4 DEF AnswersFor
        <4> QED
          BY <4>2, <4>3
      <3>4. CASE FinishHash(d)
        <4>1. ~Verified(d)
          BY <2>1, <2>2, <2>4, <3>4, NotVerified
        <4> QED
          BY <1>0, <3>4, <4>1 DEF FinishHash, Goto, AnswersFor, TypeOK
      <3>5. CASE ReadFails(d) \/ DeleteFails(d)
        BY <1>0, <3>5 DEF ReadFails, DeleteFails, Goto, AnswersFor, TypeOK
      <3> QED
        BY <1>8, <3>1, <3>2, <3>3, <3>4, <3>5
    <2> QED
      BY <2>3, <2>4
  <1>9. ASSUME NEW d \in Downloads, Delete(d) PROVE FALSE
    BY <1>9 DEF Delete, Store
  <1>10. ASSUME Stop PROVE \E e \in Downloads : AnswersFor(e)'
    <2>1. PICK z \in Downloads : AnswersFor(z)
      BY <1>2, <1>10 DEF Stop
    <2>2. pc'[z] \in {"orphaned"}
      BY <1>0, <1>10, <2>1 DEF Stop, AnswersFor, Early, OnFile, TypeOK
    <2> QED
      BY <2>2 DEF AnswersFor
  <1>11. CASE UNCHANGED vars
    BY <1>2, <1>11, AnswersFrame DEF vars
  <1> QED
    BY <1>3, <1>4, <1>5, <1>6, <1>7, <1>8, <1>9, <1>10, <1>11 DEF Next, Step

LEMMA OwnerStep ==
    ASSUME IndInv, IndInv', ModestInv, OwnerInv, [Next]_vars
    PROVE  OwnerInv'
  BY ReadStep, AnswerStep DEF OwnerInv

LEMMA InitOwner == Init => OwnerInv
  BY DEF Init, OwnerInv, ReadWithin

LEMMA OwnerShows == OwnerInv => HalfWrittenHasOwner
  BY DEF OwnerInv, AnswersFor, HalfWrittenHasOwner, OnFile

\* A file that is neither the requested one nor absent always has a download
\* that is still at it, or that was lost over it (the deletes of
\* download_from_peers): however many downloads of the hash interleave,
\* whatever sizes the peers tell them, as long as no peer sends more than it
\* was asked for.
THEOREM HalfWrittenOwned ==
    ASSUME Excess = 0
    PROVE  Spec => []HalfWrittenHasOwner
  <1>1. Init => IndInv /\ ModestInv /\ OwnerInv
    BY InitInd, InitModest, InitOwner
  <1>2. IndInv /\ ModestInv /\ OwnerInv /\ [Next]_vars
           => IndInv' /\ ModestInv' /\ OwnerInv'
    BY NextInd, ModestStep, OwnerStep DEF IndInv
  <1>3. OwnerInv => HalfWrittenHasOwner
    BY OwnerShows
  <1> QED
    BY <1>1, <1>2, <1>3, PTL DEF Spec
-----------------------------------------------------------------------------
(* That the downloader implements VerifiedFile.  The file and the phases    *)
(* VerifiedFile sees are StoredAs and PhaseOf, and Mixing is what a change  *)
(* of the file by d means to the others there.                              *)

phaseOf == [d \in Downloads |-> PhaseOf(d)]

\* A step of d that takes it from one phase to another, and no other.
PhaseBecomes(d, ph) ==
    /\ PhaseOf(d)' = ph
    /\ \A e \in Downloads : e # d => PhaseOf(e)' = PhaseOf(e)

LEMMA PhaseStep ==
    ASSUME NEW d \in Downloads, NEW ph, PhaseBecomes(d, ph)
    PROVE  phaseOf' = [phaseOf EXCEPT ![d] = ph]
  BY DEF PhaseBecomes, phaseOf

\* The same stage for d, and for orphans at most the other lost stage.
LEMMA GotoPhase ==
    ASSUME TypeOK, NEW d \in Downloads,
           NEW stage \in {"idle"} \cup Early \cup OnFile \cup Ended,
           Goto(d, stage) \/ GotoAfresh(d, stage)
    PROVE  /\ pc'[d] = stage
           /\ \A e \in Downloads : e # d => PhaseOf(e)' = PhaseOf(e)
  <1>1. pc'[d] = stage
    BY GotoType
  <1>2. ASSUME NEW e \in Downloads, e # d PROVE PhaseOf(e)' = PhaseOf(e)
    <2>1. pc'[e] = pc[e] \/ (pc[e] = "orphaned" /\ pc'[e] = "aborted")
      BY <1>2, GotoType
    <2>2. CASE pc'[e] = pc[e]
      BY <2>2 DEF PhaseOf
    <2>3. CASE pc[e] = "orphaned" /\ pc'[e] = "aborted"
      BY <2>3 DEF PhaseOf, OnFile
    <2> QED
      BY <2>1, <2>2, <2>3
  <1> QED
    BY <1>1, <1>2

LEMMA StoredFacts ==
    /\ disk = NoFile <=> StoredAs = "absent"
    /\ disk = TrueFile <=> StoredAs = "whole"
    /\ StoredAs \in {"absent", "whole", "partial"}
  <1>1. TrueFile # NoFile
    BY TrueFileType, StorageAssumption
  <1> QED
    BY <1>1 DEF StoredAs

\* A change of the file by d reaches the history of the others.
LEMMA StoreMixes ==
    ASSUME TypeOK, NEW d \in Downloads, NEW f \in Seq(Cell) \cup {NoFile},
           Store(d, f) \/ StoreAnew(d, f)
    PROVE  /\ shared' \in [Downloads -> BOOLEAN]
           /\ \A e \in Downloads \ {d} :
                 /\ shared[e] => shared'[e]
                 /\ StoredAs' # StoredAs => shared'[e]
  <1>1. shared' \in [Downloads -> BOOLEAN] /\ disk' = f
    BY StoreType
  <1>2. ASSUME NEW e \in Downloads \ {d}
        PROVE  shared[e] => shared'[e]
    BY DEF Store, StoreAnew, TypeOK
  <1>3. ASSUME NEW e \in Downloads \ {d}, StoredAs' # StoredAs
        PROVE  shared'[e]
    <2>1. disk' # disk
      BY <1>3 DEF StoredAs
    <2> QED
      BY <1>1, <1>3, <2>1 DEF Store, StoreAnew, TypeOK
  <1> QED
    BY <1>1, <1>2, <1>3

PStep == Promise!Next \/ UNCHANGED Promise!vars

LEMMA QuietStep ==
    ASSUME UNCHANGED << disk, shared >>, \A e \in Downloads : PhaseOf(e)' = PhaseOf(e)
    PROVE  PStep
  BY DEF PStep, Promise!vars, StoredAs

LEMMA GivesUpStep ==
    ASSUME NEW d \in Downloads, PhaseOf(d) = "waiting", PhaseBecomes(d, "failed"),
           UNCHANGED << disk, shared >>
    PROVE  PStep
  <1>1. phaseOf' = [phaseOf EXCEPT ![d] = "failed"]
    BY PhaseStep
  <1>2. StoredAs' = StoredAs
    BY DEF StoredAs
  <1>3. Promise!GiveUp(d)
    BY <1>1, <1>2 DEF Promise!GiveUp, Promise!Become, phaseOf
  <1> QED
    BY <1>3 DEF PStep, Promise!Next

\* At most, the step loses e.
LosesAtMost(e) ==
    \/ PhaseOf(e)' = PhaseOf(e)
    \/ PhaseOf(e) \in {"waiting", "working"} /\ PhaseOf(e)' = "lost"

LEMMA LosesStep ==
    ASSUME UNCHANGED << disk, shared >>, \A e \in Downloads : LosesAtMost(e)
    PROVE  PStep
  <1> DEFINE S == {e \in Downloads : PhaseOf(e)' # PhaseOf(e)}
  <1>1. S \in SUBSET {e \in Downloads : phaseOf[e] \in {"waiting", "working"}}
    BY DEF phaseOf, LosesAtMost
  <1>2. phaseOf' = [e \in Downloads |-> IF e \in S THEN "lost" ELSE phaseOf[e]]
    BY DEF phaseOf, LosesAtMost
  <1>3. StoredAs' = StoredAs
    BY DEF StoredAs
  <1>4. Promise!Lose
    BY <1>1, <1>2, <1>3 DEF Promise!Lose, phaseOf
  <1> QED
    BY <1>4 DEF PStep, Promise!Next

\* What d changes in the file while it works is allowed there.
LEMMA WorkStep ==
    ASSUME NEW d \in Downloads, PhaseOf(d) = "working",
           \A e \in Downloads : PhaseOf(e)' = PhaseOf(e),
           TypeOK, NEW f \in Seq(Cell), Store(d, f)
    PROVE  PStep
  <1>1. phaseOf' = phaseOf /\ phaseOf[d] = "working"
    BY DEF phaseOf
  <1>2. StoredAs' \in {"partial", "whole"}
    <2>1. disk' # NoFile
      BY StorageAssumption DEF Store
    <2> QED
      BY <2>1 DEF StoredAs
  <1>3. shared' \in [Downloads -> BOOLEAN] /\ shared'[d] = shared[d]
    BY StoreType
  <1>4. Promise!OthersMixed(d)
    BY StoreMixes DEF Promise!OthersMixed
  <1>5. Promise!Work(d)
    BY <1>1, <1>2, <1>3, <1>4 DEF Promise!Work, phaseOf
  <1> QED
    BY <1>5 DEF PStep, Promise!Next

LEMMA EnterStep ==
    ASSUME NEW d \in Downloads, PhaseOf(d) = "waiting",
           NEW ph \in {"working", "lost"}, PhaseBecomes(d, ph),
           TypeOK, NEW f \in Seq(Cell), StoreAnew(d, f)
    PROVE  PStep
  <1>1. phaseOf' = [phaseOf EXCEPT ![d] = ph] /\ phaseOf[d] = "waiting"
    BY PhaseStep DEF phaseOf
  <1>2. StoredAs' \in {"partial", "whole"}
    <2>1. disk' # NoFile
      BY StorageAssumption DEF StoreAnew
    <2> QED
      BY <2>1 DEF StoredAs
  <1>3. shared' \in [Downloads -> BOOLEAN] /\ ~shared'[d]
    BY DEF StoreAnew, TypeOK
  <1>4. Promise!OthersMixed(d)
    BY StoreMixes DEF Promise!OthersMixed
  <1>5. Promise!Enter(d)
    BY <1>1, <1>2, <1>3, <1>4 DEF Promise!Enter, Promise!Become, phaseOf
  <1> QED
    BY <1>5 DEF PStep, Promise!Next

LEMMA DiscardStep ==
    ASSUME NEW d \in Downloads, TypeOK, Delete(d)
    PROVE  PStep
  <1>1. /\ PhaseOf(d) = "working" /\ PhaseBecomes(d, "failed") /\ Store(d, NoFile)
    BY GotoPhase DEF Delete, PhaseBecomes, PhaseOf, OnFile, Ended
  <1>2. phaseOf' = [phaseOf EXCEPT ![d] = "failed"] /\ phaseOf[d] = "working"
    BY <1>1, PhaseStep DEF phaseOf
  <1>3. StoredAs' = "absent"
    <2>1. disk' = NoFile /\ TrueFile # NoFile
      BY <1>1, TrueFileType, StorageAssumption DEF Store
    <2> QED
      BY <2>1 DEF StoredAs
  <1>4. shared' \in [Downloads -> BOOLEAN] /\ shared'[d] = shared[d]
    BY <1>1, StoreType
  <1>5. Promise!OthersMixed(d)
    BY <1>1, StoreMixes DEF Promise!OthersMixed
  <1>6. Promise!Discard(d)
    BY <1>2, <1>3, <1>4, <1>5 DEF Promise!Discard, Promise!Become, phaseOf
  <1> QED
    BY <1>6 DEF PStep, Promise!Next

\* Completing is allowed: the file is the requested one unless others have
\* changed it, and if it is half written, somebody else answers for it.
LEMMA CompleteStep ==
    ASSUME NEW d \in Downloads, IndInv, IndInv', ModestInv', OwnerInv',
           FinishHash(d), Verified(d)
    PROVE  PStep
  <1>0. TypeOK
    BY DEF IndInv
  <1>1. /\ PhaseOf(d) = "working" /\ pc'[d] = "complete" /\ PhaseBecomes(d, "complete")
        /\ UNCHANGED << disk, shared >>
    BY <1>0, GotoPhase DEF FinishHash, PhaseBecomes, PhaseOf, OnFile, Ended
  <1>2. phaseOf' = [phaseOf EXCEPT ![d] = "complete"] /\ phaseOf[d] = "working"
    BY <1>1, PhaseStep DEF phaseOf
  <1>3. UNCHANGED << StoredAs, shared >>
    BY <1>1 DEF StoredAs
  <1>4. shared[d] \/ StoredAs = "whole"
    <2>1. ~shared'[d] => disk' = TrueFile
      BY <1>1 DEF IndInv, FileInv, ModestInv
    <2>2. shared'[d] \in BOOLEAN
      BY DEF IndInv, TypeOK
    <2> QED
      BY <1>1, <2>1, <2>2, StoredFacts
  <1>5. ASSUME StoredAs = "partial"
        PROVE  \E e \in Downloads \ {d} : phaseOf[e] \in {"working", "lost"}
    <2>1. disk' \notin {NoFile, TrueFile}
      BY <1>1, <1>5, StoredFacts
    <2>2. PICK e \in Downloads : AnswersFor(e)'
      BY <2>1 DEF OwnerInv
    <2>3. e # d /\ pc'[e] \in OnFile \cup {"orphaned"}
      BY <1>1, <2>2 DEF AnswersFor, OnFile
    <2>4. pc'[e] = pc[e]
      BY <1>0, <2>3 DEF FinishHash, Goto, TypeOK
    <2> QED
      BY <2>3, <2>4 DEF phaseOf, PhaseOf, OnFile
  <1>6. Promise!Complete(d)
    BY <1>2, <1>3, <1>4, <1>5
    DEF Promise!Complete, Promise!Finishable, Promise!Become, phaseOf
  <1> QED
    BY <1>6 DEF PStep, Promise!Next

LEMMA PromiseStep ==
    ASSUME IndInv, IndInv', ModestInv', OwnerInv', [Next]_vars
    PROVE  PStep
  <1>0. TypeOK
    BY DEF IndInv
  <1> USE DEF fileVars, blameVars, readVars
  <1>1. ASSUME NEW d \in Downloads,
               \/ Start(d) \/ Run(d) \/ GetPeers(d) \/ HandshakeAll(d)
               \/ FetchFileInfo(d)
        PROVE  PStep
    <2>1. /\ pc[d] \in {"idle"} \cup Early /\ UNCHANGED << disk, shared >>
          /\ \E stage \in Early \cup {"failed", "aborted"} : Goto(d, stage)
      BY <1>1 DEF Start, Run, GetPeers, HandshakeAll, FetchFileInfo, Early
    <2>2. PICK stage \in Early \cup {"failed", "aborted"} : Goto(d, stage)
      BY <2>1
    <2>3. pc'[d] = stage /\ \A e \in Downloads : e # d => PhaseOf(e)' = PhaseOf(e)
      BY <1>0, <2>2, GotoPhase DEF Ended
    <2>4. PhaseOf(d) = "waiting"
      BY <2>1 DEF PhaseOf, Early, OnFile
    <2>5. CASE stage \in Early
      <3>1. PhaseOf(d)' = "waiting"
        BY <2>3, <2>5 DEF PhaseOf, Early, OnFile
      <3> QED
        BY <2>1, <2>3, <2>4, <3>1, QuietStep
    <2>6. CASE stage = "failed"
      <3>1. PhaseBecomes(d, "failed")
        BY <2>3, <2>6 DEF PhaseBecomes, PhaseOf, OnFile
      <3> QED
        BY <2>1, <2>4, <3>1, GivesUpStep
    <2>7. CASE stage = "aborted"
      <3>1. PhaseOf(d)' = "lost"
        BY <2>3, <2>7 DEF PhaseOf, OnFile
      <3> QED
        BY <2>1, <2>3, <2>4, <3>1, LosesStep DEF LosesAtMost
    <2> QED
      BY <2>5, <2>6, <2>7
  <1>2. ASSUME NEW d \in Downloads, Preallocate(d) PROVE PStep
    <2>1. Preallocated(size[d]) \in Seq(Cell)
      BY <1>0, PreallocatedType DEF TypeOK
    <2>2. PhaseOf(d) = "waiting" /\ PhaseBecomes(d, "working")
      BY <1>0, <1>2, GotoPhase DEF Preallocate, PhaseBecomes, PhaseOf, OnFile
    <2> QED
      BY <1>0, <1>2, <2>1, <2>2, EnterStep DEF Preallocate
  <1>3. ASSUME NEW d \in Downloads, PreallocateFails(d) PROVE PStep
    <2>1. PhaseOf(d) = "waiting"
      BY <1>3 DEF PreallocateFails, PhaseOf, OnFile
    <2>2. CASE Goto(d, "aborted") /\ Store(d, disk)
      <3>1. PhaseBecomes(d, "lost")
        BY <1>0, <2>2, GotoPhase DEF PhaseBecomes, PhaseOf, OnFile, Ended
      <3>2. UNCHANGED << disk, shared >>
        BY <1>0, <2>2 DEF Store, TypeOK
      <3> QED
        BY <2>1, <3>1, <3>2, LosesStep DEF PhaseBecomes, LosesAtMost
    <2>3. CASE GotoAfresh(d, "orphaned") /\ StoreAnew(d, << >>)
      <3>1. PhaseBecomes(d, "lost")
        BY <1>0, <2>3, GotoPhase DEF PhaseBecomes, PhaseOf, OnFile, Ended
      <3> QED
        BY <1>0, <2>1, <2>3, <3>1, EnterStep, EmptySeq
    <2> QED
      BY <1>3, <2>2, <2>3 DEF PreallocateFails
  <1>4. ASSUME NEW d \in Downloads, NEW i \in Slots, WriteChunk(d, i) \/ WriteFails(d, i)
        PROVE  PStep
    <2>1. pc[d] = "fetch" /\ UNCHANGED pc
      BY <1>4 DEF WriteChunk, WriteFails
    <2>2. PhaseOf(d) = "working" /\ \A e \in Downloads : PhaseOf(e)' = PhaseOf(e)
      BY <2>1 DEF PhaseOf, OnFile
    <2>3. task[d][i].data \in Seq(Cell) /\ task[d][i].pos \in Nat
      BY <1>0 DEF TypeOK, Task
    <2>4. \/ UNCHANGED << disk, shared >>
          \/ \E f \in Seq(Cell) : Store(d, f)
      <3>1. CASE WriteChunk(d, i)
        BY <1>0, <2>3, <3>1, WrittenType DEF WriteChunk, TypeOK
      <3>2. CASE WriteFails(d, i)
        <4>1. \A n \in 0..Len(task[d][i].data) :
                 SubSeq(task[d][i].data, 1, n) \in Seq(Cell)
          BY <2>3, LenProperties
        <4>2. disk # NoFile => \A n \in 0..Len(task[d][i].data) :
                 Written(disk, task[d][i].pos, SubSeq(task[d][i].data, 1, n)) \in Seq(Cell)
          BY <1>0, <2>3, <4>1, WrittenType DEF TypeOK
        <4>3. Store(d, disk) => UNCHANGED << disk, shared >>
          BY <1>0 DEF Store, TypeOK
        <4> QED
          BY <3>2, <4>2, <4>3 DEF WriteFails
      <3> QED
        BY <1>4, <3>1, <3>2
    <2> QED
      BY <1>0, <2>2, <2>4, WorkStep, QuietStep
  <1>5. ASSUME NEW d \in Downloads, NEW i \in Slots,
               FetchOk(d, i) \/ FetchFails(d, i) \/ FetchMismatch(d, i) \/ Blame(d, i)
        PROVE  PStep
    <2>1. UNCHANGED << disk, shared, pc >>
      BY <1>5 DEF FetchOk, FetchFails, FetchMismatch, Blame
    <2> QED
      BY <2>1, QuietStep DEF PhaseOf
  <1>6. ASSUME NEW d \in Downloads,
               Assess(d) \/ OpenReader(d) \/ ReadFails(d) \/ DeleteFails(d)
        PROVE  PStep
    <2>1. /\ pc[d] \in OnFile /\ UNCHANGED << disk, shared >>
          /\ \E stage \in OnFile \cup {"aborted", "orphaned"} : Goto(d, stage)
      BY <1>6 DEF Assess, OnGap, OpenReader, ReadFails, DeleteFails, OnFile
    <2>2. PICK stage \in OnFile \cup {"aborted", "orphaned"} : Goto(d, stage)
      BY <2>1
    <2>3. pc'[d] = stage /\ \A e \in Downloads : e # d => PhaseOf(e)' = PhaseOf(e)
      BY <1>0, <2>2, GotoPhase DEF Ended
    <2>4. PhaseOf(d) = "working" /\ PhaseOf(d)' \in {"working", "lost"}
      BY <2>1, <2>3 DEF PhaseOf, OnFile
    <2> QED
      <3>1. \A e \in Downloads : LosesAtMost(e)
        BY <2>3, <2>4 DEF LosesAtMost
      <3> QED
        BY <2>1, <3>1, LosesStep
  <1>7. ASSUME NEW d \in Downloads, ReadCell(d) PROVE PStep
    BY <1>7, QuietStep DEF ReadCell, PhaseOf
  <1>8. ASSUME NEW d \in Downloads, FinishHash(d) PROVE PStep
    <2>1. CASE Verified(d)
      BY <1>8, <2>1, CompleteStep
    <2>2. CASE ~Verified(d)
      <3>1. pc[d] = "hash" /\ Goto(d, "delete") /\ UNCHANGED << disk, shared >>
        BY <1>8, <2>2 DEF FinishHash
      <3>2. pc'[d] = "delete" /\ \A e \in Downloads : e # d => PhaseOf(e)' = PhaseOf(e)
        BY <1>0, <3>1, GotoPhase DEF OnFile
      <3>3. PhaseOf(d)' = PhaseOf(d)
        BY <3>1, <3>2 DEF PhaseOf, OnFile
      <3> QED
        BY <3>1, <3>2, <3>3, QuietStep
    <2> QED
      BY <2>1, <2>2
  <1>9. ASSUME NEW d \in Downloads, Delete(d) PROVE PStep
    BY <1>0, <1>9, DiscardStep
  <1>10. ASSUME Stop PROVE PStep
    <2>1. UNCHANGED << disk, shared >>
      BY <1>10 DEF Stop
    <2>2. ASSUME NEW e \in Downloads
          PROVE  LosesAtMost(e)
      <3>1. pc'[e] = IF pc[e] \in Early THEN "aborted"
                     ELSE IF pc[e] \in OnFile THEN "orphaned" ELSE pc[e]
        BY <1>10 DEF Stop
      <3>2. CASE pc[e] \in Early
        BY <3>1, <3>2 DEF LosesAtMost, PhaseOf, Early, OnFile
      <3>3. CASE pc[e] \notin Early /\ pc[e] \in OnFile
        BY <3>1, <3>3 DEF LosesAtMost, PhaseOf, Early, OnFile
      <3>4. CASE pc[e] \notin Early /\ pc[e] \notin OnFile
        BY <3>1, <3>4 DEF LosesAtMost, PhaseOf
      <3> QED
        BY <3>2, <3>3, <3>4
    <2> QED
      BY <2>1, <2>2, LosesStep
  <1>11. CASE UNCHANGED vars
    BY <1>11, QuietStep DEF vars, PhaseOf
  <1> QED
    BY <1>1, <1>2, <1>3, <1>4, <1>5, <1>6, <1>7, <1>8, <1>9, <1>10, <1>11 DEF Next, Step

\* The downloads implement VerifiedFile: whatever it promises holds of them,
\* for any number of downloads and peers (download_from_peers, _run_download),
\* as long as no peer sends more than it was asked for.
THEOREM PromiseKept ==
    ASSUME Excess = 0
    PROVE  Spec => KeepsPromise
  <1>1. Init => IndInv /\ ModestInv /\ OwnerInv
    BY InitInd, InitModest, InitOwner
  <1>2. IndInv /\ ModestInv /\ OwnerInv /\ [Next]_vars
           => IndInv' /\ ModestInv' /\ OwnerInv'
    BY NextInd, ModestStep, OwnerStep DEF IndInv
  <1>3. Init => Promise!Init
    <2> SUFFICES ASSUME Init PROVE Promise!Init
      OBVIOUS
    <2>1. StoredAs \in {"absent", "whole"}
      BY DEF Init, StoredAs
    <2>2. [d \in Downloads |-> PhaseOf(d)] = [d \in Downloads |-> "waiting"]
      BY DEF Init, PhaseOf, OnFile
    <2> QED
      BY <2>1, <2>2 DEF Init, Promise!Init
  <1>4. IndInv /\ IndInv' /\ ModestInv' /\ OwnerInv' /\ [Next]_vars => [Promise!Next]_(Promise!vars)
    BY PromiseStep DEF PStep
  <1> QED
    BY <1>1, <1>2, <1>3, <1>4, PTL DEF Spec, KeepsPromise, Promise!Spec
-----------------------------------------------------------------------------
(* Where the tasks of one download write.                                  *)

Apart(t, u) == t.hi < u.lo \/ u.hi < t.lo

\* Only who writes has bytes in hand; nobody stands before his range; and the
\* ranges of the tasks of one download lie apart.
PlaceInv ==
    \A d \in Downloads, i \in Slots :
        /\ task[d][i].st # "write" => task[d][i].data = << >>
        /\ task[d][i].st # "off" => task[d][i].lo <= task[d][i].pos
        /\ \A j \in Slots :
              i # j /\ task[d][i].st # "off" /\ task[d][j].st # "off" =>
                  Apart(task[d][i], task[d][j])

\* Multiples are ordered as their factors are.
LEMMA Multiples ==
    ASSUME NEW i \in Nat, NEW k \in Nat, NEW c \in Nat, i <= k
    PROVE  i * c <= k * c
  <1>1. k * c = i * c + (k - i) * c
    OBVIOUS
  <1>2. (k - i) * c \in Nat /\ i * c \in Nat
    OBVIOUS
  <1> QED
    BY <1>1, <1>2

LEMMA RangesApart ==
    ASSUME NEW sz \in Nat, NEW n \in Nat \ {0},
           NEW i \in 1..Len(SplitRanges(sz, n)), NEW j \in 1..Len(SplitRanges(sz, n)),
           i < j
    PROVE  SplitRanges(sz, n)[i].hi < SplitRanges(sz, n)[j].lo
  <1>1. sz # 0
    BY SplitRangesOfNothing
  <1> DEFINE a == RangeCount(sz, n)
             c == sz \div a
  <1>2. a \in 1..n /\ a \in Nat \ {0}
    <2>1. sz \in Nat \ {0}
      BY <1>1
    <2>2. RangeCount(sz, n) \in 1..n
      BY <2>1, RangeCountBounds
    <2> QED
      BY <2>2
  <1>3. c \in Nat
    BY <1>2, Division
  <1>4. SplitRanges(sz, n) =
          [k \in 1..a |-> [lo |-> (k - 1) * c,
                           hi |-> IF k < a THEN k * c - 1 ELSE sz - 1]]
    BY <1>1, SplitRangesShape
  <1>5. Len(SplitRanges(sz, n)) = a
    BY <1>2, <1>4
  <1> HIDE DEF a, c
  <1>6. i \in 1..a /\ j \in 1..a /\ i < a /\ i <= j - 1 /\ i \in Nat /\ j - 1 \in Nat
    BY <1>2, <1>5
  <1>7. SplitRanges(sz, n)[i].hi = i * c - 1 /\ SplitRanges(sz, n)[j].lo = (j - 1) * c
    BY <1>4, <1>6
  <1>8. i * c <= (j - 1) * c /\ i * c \in Int /\ (j - 1) * c \in Int
    BY <1>3, <1>6, Multiples
  <1> QED
    BY <1>7, <1>8

\* The tasks of a split lie apart, with nothing in hand.
LEMMA NewTasksApart ==
    ASSUME NEW d \in Downloads, TypeOK, trusted[d] # << >>
    PROVE  \A i \in Slots :
              LET t == NewTasks(d)[i]
              IN  /\ t.st # "write" /\ t.data = << >>
                  /\ t.st # "off" => t.lo <= t.pos
                  /\ \A j \in Slots :
                        i # j /\ t.st # "off" /\ NewTasks(d)[j].st # "off" =>
                            Apart(t, NewTasks(d)[j])
  <1> DEFINE n == Len(trusted[d])
             r == SplitRanges(size[d], n)
  <1>1. size[d] \in Nat /\ n \in Nat \ {0}
    BY TrustedListType DEF TypeOK
  <1>2. \A i, j \in 1..Len(r) : i < j => r[i].hi < r[j].lo
    BY <1>1, RangesApart
  <1>3. Len(r) \in Nat /\ \A i \in 1..Len(r) : r[i].lo \in Nat
    <2>1. CASE size[d] = 0
      BY <1>1, <2>1, SplitRangesOfNothing
    <2>2. CASE size[d] # 0
      <3> DEFINE sz == size[d]
                 S == [lo : 0..(sz - 1), hi : 0..(sz - 1)]
      <3>1. r \in Seq(S) /\ Len(r) \in 1..n
        BY <1>1, <2>2, SplitIsPartition
      <3>2. \A i \in 1..Len(r) : r[i] \in S
        BY <3>1, ElementOfSeq
      <3> QED
        BY <1>1, <3>1, <3>2
    <2> QED
      BY <2>1, <2>2
  <1> HIDE DEF n, r
  <1>4. NewTasks(d) = [i \in Slots |->
            IF i \in 1..Len(r)
            THEN [st |-> "fetch", lo |-> r[i].lo, hi |-> r[i].hi,
                  pos |-> r[i].lo, data |-> << >>]
            ELSE NoTask]
    BY DEF NewTasks, r, n
  <1>5. \A i \in Slots :
          \/ /\ i \in 1..Len(r)
             /\ NewTasks(d)[i] = [st |-> "fetch", lo |-> r[i].lo, hi |-> r[i].hi,
                                  pos |-> r[i].lo, data |-> << >>]
          \/ NewTasks(d)[i] = NoTask
    BY <1>4
  <1>6. ASSUME NEW i \in Slots, NEW j \in Slots, i # j,
               NewTasks(d)[i].st # "off", NewTasks(d)[j].st # "off"
        PROVE  Apart(NewTasks(d)[i], NewTasks(d)[j])
    <2>0. NewTasks(d)[i] # NoTask /\ NewTasks(d)[j] # NoTask
      BY <1>6 DEF NoTask
    <2>4. ASSUME NEW k \in Slots, NewTasks(d)[k] # NoTask
          PROVE  /\ k \in 1..Len(r)
                 /\ NewTasks(d)[k].lo = r[k].lo /\ NewTasks(d)[k].hi = r[k].hi
      <3>1. /\ k \in 1..Len(r)
            /\ NewTasks(d)[k] = [st |-> "fetch", lo |-> r[k].lo, hi |-> r[k].hi,
                                 pos |-> r[k].lo, data |-> << >>]
        BY <1>5, <2>4
      <3> QED
        BY <3>1
    <2>1. i \in 1..Len(r) /\ j \in 1..Len(r)
      BY <2>0, <2>4
    <2>2. i < j \/ j < i
      BY <1>3, <1>6, <2>1
    <2>3. /\ NewTasks(d)[i].lo = r[i].lo /\ NewTasks(d)[i].hi = r[i].hi
          /\ NewTasks(d)[j].lo = r[j].lo /\ NewTasks(d)[j].hi = r[j].hi
      BY <2>0, <2>4
    <2> QED
      BY <1>2, <2>1, <2>2, <2>3 DEF Apart
  <1>7. ASSUME NEW i \in Slots
        PROVE  /\ NewTasks(d)[i].st # "write" /\ NewTasks(d)[i].data = << >>
               /\ NewTasks(d)[i].st # "off" => NewTasks(d)[i].lo <= NewTasks(d)[i].pos
    <2>1. CASE NewTasks(d)[i] = NoTask
      BY <2>1 DEF NoTask
    <2>2. CASE i \in 1..Len(r)
      <3>1. NewTasks(d)[i] = [st |-> "fetch", lo |-> r[i].lo, hi |-> r[i].hi,
                              pos |-> r[i].lo, data |-> << >>]
        BY <1>4, <2>2
      <3>2. r[i].lo <= r[i].lo
        BY <1>3, <2>2
      <3> QED
        BY <3>1, <3>2
    <2> QED
      BY <1>5, <2>1, <2>2
  <1> QED
    BY <1>6, <1>7

\* A task that was started has a range in the file that holds a byte, and does
\* not stand beyond its end; within it, as long as it is at work.
ChunkInv ==
    \A d \in Downloads, i \in Slots :
        LET t == task[d][i]
        IN  t.st # "off" =>
              /\ t.lo <= t.hi /\ t.hi < size[d]
              /\ t.lo <= t.pos /\ t.pos <= t.hi + 1
              /\ t.st \in {"fetch", "write"} => t.pos <= t.hi

\* What a task keeps of itself in a step, and how it moves on.
LEMMA FetchingMoves ==
    ASSUME TypeOK, NEW d \in Downloads, NEW i \in Slots, Fetching(d, i)
    PROVE  /\ task'[d][i].lo = task[d][i].lo /\ task'[d][i].hi = task[d][i].hi
           /\ task[d][i].st # "off" /\ task'[d][i].st # "off"
           /\ \/ /\ task'[d][i].pos = task[d][i].pos /\ UNCHANGED bytes
                 /\ task'[d][i].st \in {"fetch", "write"} =>
                      task[d][i].st \in {"fetch", "write"}
              \/ /\ task[d][i].st = "write" /\ WriteChunk(d, i)
                 /\ task'[d][i].pos = NextPos(task[d][i])
                 /\ task'[d][i].st \in {"fetch", "write"} =>
                      NextPos(task[d][i]) <= task[d][i].hi
  <1> USE DEF fileVars, blameVars, readVars
  <1> DEFINE t == task[d][i]
             u == task'[d][i]
  <1>0. t \in Task /\ t.st # "off"
    BY FetchingFrame DEF TypeOK
  <1>1. CASE FetchOk(d, i)
    <2>1. PICK r \in Replies(t) :
             task' = [task EXCEPT ![d][i].st = "write", ![d][i].data = r]
      BY <1>1 DEF FetchOk
    <2>2. u.st = "write" /\ u.pos = t.pos /\ u.hi = t.hi /\ u.lo = t.lo
      BY <1>0, <2>1 DEF TypeOK, Task
    <2> QED
      BY <1>0, <1>1, <2>2 DEF FetchOk
  <1>2. CASE WriteChunk(d, i)
    <2>1. u = [t EXCEPT !.st = IF NextPos(t) <= t.hi THEN "fetch" ELSE "ok",
                        !.pos = NextPos(t), !.data = << >>]
      BY <1>2 DEF WriteChunk, TypeOK
    <2>2. u.pos = NextPos(t) /\ u.hi = t.hi /\ u.lo = t.lo
         /\ u.st = IF NextPos(t) <= t.hi THEN "fetch" ELSE "ok"
      BY <1>0, <2>1 DEF Task
    <2> QED
      BY <1>0, <1>2, <2>2 DEF WriteChunk
  <1>3. CASE FetchFails(d, i)
    BY <1>0, <1>3 DEF FetchFails, TypeOK, Task
  <1>4. CASE FetchMismatch(d, i)
    BY <1>0, <1>4 DEF FetchMismatch, TypeOK, Task
  <1>5. CASE WriteFails(d, i)
    BY <1>0, <1>5 DEF WriteFails, TypeOK, Task
  <1>6. CASE Blame(d, i)
    BY <1>0, <1>6 DEF Blame, TypeOK, Task
  <1> QED
    BY <1>1, <1>2, <1>3, <1>4, <1>5, <1>6 DEF Fetching

LEMMA ChunkStep ==
    ASSUME TypeInv, ChunkInv, [Next]_vars
    PROVE  ChunkInv'
  <1>0. TypeOK /\ EarlyInv
    BY DEF TypeInv
  <1> USE DEF fileVars, blameVars, readVars
  <1>1. ASSUME NEW d \in Downloads, Preallocate(d) PROVE ChunkInv'
    <2>1. trusted[d] # << >>
      BY <1>0, <1>1 DEF EarlyInv, Preallocate
    <2>2. /\ task'[d] = NewTasks(d) /\ size' = size
          /\ \A e \in Downloads : e # d => task'[e] = task[e]
      BY <1>0, <1>1 DEF Preallocate, TypeOK
    <2>3. ASSUME NEW i \in Slots, NewTasks(d)[i].st # "off"
          PROVE  LET t == NewTasks(d)[i]
                 IN  /\ t.lo <= t.hi /\ t.hi < size[d]
                     /\ t.lo <= t.pos /\ t.pos <= t.hi + 1
                     /\ t.pos <= t.hi
      <3>1. NewTasks(d)[i] \in Task
        BY <1>0, <2>1, NewTasksType
      <3>2. /\ NewTasks(d)[i].pos <= NewTasks(d)[i].hi
            /\ NewTasks(d)[i].hi < size[d]
        BY <1>0, <2>1, <2>3, NewTasksType
      <3>3. NewTasks(d)[i].lo <= NewTasks(d)[i].pos
        BY <1>0, <2>1, <2>3, NewTasksApart
      <3> QED
        BY <3>1, <3>2, <3>3 DEF Task
    <2> QED
      BY <2>2, <2>3 DEF ChunkInv
  <1>2. ASSUME NEW d \in Downloads, NEW i \in Slots, Fetching(d, i) PROVE ChunkInv'
    <2> DEFINE t == task[d][i]
    <2>1. /\ t \in Task /\ t.pos \in Nat /\ t.hi \in Nat /\ t.lo \in Nat
          /\ NextPos(t) \in Nat /\ Asked(t) \in Int /\ NextPos(t) = t.pos + Asked(t)
      BY <1>0, AskedBounds DEF TypeOK, Task
    <2>2. t.st = "write" => t.pos <= NextPos(t) /\ NextPos(t) <= t.hi + 1
      <3>1. t.st = "write" => Asked(t) >= 1 /\ NextPos(t) <= t.hi + 1
        BY <2>1, AskedBounds DEF ChunkInv
      <3> HIDE DEF t
      <3> QED
        BY <2>1, <3>1
    <2> DEFINE u == task'[d][i]
    <2>3. \/ /\ u.pos = t.pos
             /\ u.st \in {"fetch", "write"} => t.st \in {"fetch", "write"}
          \/ /\ t.st = "write" /\ u.pos = NextPos(t)
             /\ u.st \in {"fetch", "write"} => NextPos(t) <= t.hi
      BY <1>0, <1>2, FetchingMoves
    <2>4. /\ t.lo <= t.hi /\ t.hi < size[d] /\ t.lo <= t.pos /\ t.pos <= t.hi + 1
          /\ t.st \in {"fetch", "write"} => t.pos <= t.hi
      BY <1>0, <1>2, FetchingMoves DEF ChunkInv
    <2>5. /\ t.lo <= u.pos /\ u.pos <= t.hi + 1
          /\ u.st \in {"fetch", "write"} => u.pos <= t.hi
      <3> HIDE DEF t, u
      <3> QED
        BY <2>1, <2>2, <2>3, <2>4
    <2>6. size' = size /\ u.lo = t.lo /\ u.hi = t.hi
      BY <1>0, <1>2, FetchingFrame, FetchingMoves
    <2>7. \A e \in Downloads, j \in Slots : e # d \/ j # i => task'[e][j] = task[e][j]
      BY <1>0, <1>2, FetchingFrame
    <2> HIDE DEF t
    <2> QED
      BY <2>4, <2>5, <2>6, <2>7 DEF ChunkInv
  <1>3. ASSUME NEW d \in Downloads, FetchFileInfo(d) PROVE ChunkInv'
    <2>1. /\ task' = task /\ pc[d] = "info"
          /\ \A e \in Downloads : e # d => size'[e] = size[e]
      BY <1>0, <1>3 DEF FetchFileInfo, TypeOK
    <2>2. \A i \in Slots : task[d][i].st = "off"
      BY <1>0, <2>1 DEF EarlyInv, Early
    <2> QED
      BY <2>1, <2>2 DEF ChunkInv
  <1>4. ASSUME UNCHANGED << task, size >> PROVE ChunkInv'
    BY <1>4 DEF ChunkInv
  <1> QED
    BY <1>1, <1>2, <1>3, <1>4
    DEF Next, Step, Fetching, vars, Start, Run, GetPeers, HandshakeAll,
        PreallocateFails, Assess, OpenReader, ReadCell, ReadFails, FinishHash,
        Delete, DeleteFails, Stop

LEMMA PlaceStep ==
    ASSUME TypeInv, ChunkInv, PlaceInv, [Next]_vars
    PROVE  PlaceInv'
  <1>0. TypeOK /\ EarlyInv
    BY DEF TypeInv
  <1> USE DEF fileVars, blameVars, readVars
  <1>1. ASSUME NEW d \in Downloads, Preallocate(d) PROVE PlaceInv'
    <2>1. trusted[d] # << >>
      BY <1>0, <1>1 DEF EarlyInv, Preallocate
    <2>2. /\ task'[d] = NewTasks(d)
          /\ \A e \in Downloads : e # d => task'[e] = task[e]
      BY <1>0, <1>1 DEF Preallocate, TypeOK
    <2> QED
      BY <1>0, <2>1, <2>2, NewTasksApart DEF PlaceInv
  <1>2. ASSUME NEW d \in Downloads, NEW i \in Slots, Fetching(d, i) PROVE PlaceInv'
    <2> DEFINE t == task[d][i]
               u == task'[d][i]
    <2>1. /\ t \in Task /\ t.pos \in Nat /\ t.hi \in Nat /\ t.lo \in Nat
          /\ NextPos(t) \in Nat /\ Asked(t) \in Int /\ NextPos(t) = t.pos + Asked(t)
      BY <1>0, AskedBounds DEF TypeOK, Task
    <2>2. t.st # "off" /\ t.lo <= t.pos
      BY <1>0, <1>2, FetchingFrame DEF PlaceInv
    <2>3. /\ u.lo = t.lo /\ u.hi = t.hi /\ t.lo <= u.pos
          /\ u.st # "write" => u.data = << >>
      <3>1. CASE FetchOk(d, i)
        <4>1. PICK r \in Replies(t) :
                 task' = [task EXCEPT ![d][i].st = "write", ![d][i].data = r]
          BY <3>1 DEF FetchOk
        <4>2. u.st = "write" /\ u.pos = t.pos /\ u.hi = t.hi /\ u.lo = t.lo
          BY <1>0, <2>1, <4>1 DEF TypeOK, Task
        <4> QED
          BY <2>2, <4>2
      <3>2. CASE WriteChunk(d, i)
        <4>1. u = [t EXCEPT !.st = IF NextPos(t) <= t.hi THEN "fetch" ELSE "ok",
                            !.pos = NextPos(t), !.data = << >>]
          BY <1>0, <3>2 DEF WriteChunk, TypeOK
        <4>2. u.pos = NextPos(t) /\ u.hi = t.hi /\ u.lo = t.lo /\ u.data = << >>
          BY <2>1, <4>1 DEF Task
        <4>3. t.st = "write"
          BY <3>2 DEF WriteChunk
        <4>4. Asked(t) >= 1
          BY <2>1, <4>3, AskedBounds DEF ChunkInv
        <4>5. t.lo <= u.pos
          BY <2>1, <2>2, <4>2, <4>4
        <4> QED
          BY <4>2, <4>5
      <3>3. CASE FetchFails(d, i) \/ FetchMismatch(d, i) \/ Blame(d, i)
        <4>1. t.st # "write"
          BY <3>3 DEF FetchFails, FetchMismatch, Blame, Mismatches
        <4>2. /\ u.pos = t.pos /\ u.hi = t.hi /\ u.lo = t.lo /\ u.data = t.data
          <5>1. CASE FetchFails(d, i)
            BY <1>0, <2>1, <5>1 DEF FetchFails, TypeOK, Task
          <5>2. CASE FetchMismatch(d, i)
            BY <1>0, <2>1, <5>2 DEF FetchMismatch, TypeOK, Task
          <5>3. CASE Blame(d, i)
            BY <1>0, <2>1, <5>3 DEF Blame, TypeOK, Task
          <5> QED
            BY <3>3, <5>1, <5>2, <5>3
        <4> QED
          BY <2>2, <4>1, <4>2 DEF PlaceInv
      <3>4. CASE WriteFails(d, i)
        <4>1. /\ u.pos = t.pos /\ u.hi = t.hi /\ u.lo = t.lo /\ u.data = << >>
          BY <1>0, <2>1, <3>4 DEF WriteFails, TypeOK, Task
        <4> QED
          BY <2>2, <4>1
      <3> QED
        BY <1>2, <3>1, <3>2, <3>3, <3>4 DEF Fetching
    <2>4. \A e \in Downloads, j \in Slots :
             /\ task'[e][j].lo = task[e][j].lo /\ task'[e][j].hi = task[e][j].hi
             /\ task'[e][j].st # "off" => task[e][j].st # "off"
      BY <1>0, <1>2, <2>2, <2>3, FetchingFrame
    <2>5. \A e \in Downloads, j \in Slots :
             /\ task'[e][j].st # "write" => task'[e][j].data = << >>
             /\ task'[e][j].st # "off" => task'[e][j].lo <= task'[e][j].pos
      BY <1>0, <1>2, <2>3, FetchingFrame DEF PlaceInv
    <2> QED
      BY <2>4, <2>5 DEF PlaceInv, Apart
  <1>3. ASSUME UNCHANGED task PROVE PlaceInv'
    BY <1>3 DEF PlaceInv, Apart
  <1> QED
    BY <1>1, <1>2, <1>3
    DEF Next, Step, Fetching, vars, Start, Run, GetPeers, HandshakeAll, FetchFileInfo,
        PreallocateFails, Assess, OpenReader, ReadCell, ReadFails, FinishHash,
        Delete, DeleteFails, Stop

\* Tasks of one download that have no more in hand than they asked for have it
\* for different places, all of them inside the file, whatever came before
\* (_split_ranges, _fetch_chunk, write_chunk_at): for any number of peers, any
\* sizes, and replies of any length.
THEOREM WritesApart == Spec => []WritersDisjoint
  <1>1. Init => IndInv /\ ChunkInv /\ PlaceInv
    <2>1. Init => ChunkInv /\ PlaceInv
      BY DEF Init, ChunkInv, PlaceInv, NoTask
    <2> QED
      BY <2>1, InitInd
  <1>2. IndInv /\ ChunkInv /\ PlaceInv /\ [Next]_vars
           => IndInv' /\ ChunkInv' /\ PlaceInv'
    BY NextInd, ChunkStep, PlaceStep DEF IndInv, TypeInv
  <1>3. ASSUME IndInv, PlaceInv PROVE WritersDisjoint
    <2>1. ASSUME NEW d \in Downloads, NEW i \in Slots, task[d][i].st = "write",
                 Beyond(task[d][i]) = 0
          PROVE  /\ task[d][i].lo \in Nat /\ task[d][i].hi \in Nat
                 /\ Places(task[d][i]) \subseteq (task[d][i].lo + 1)..(task[d][i].hi + 1)
                 /\ task[d][i].hi < size[d] /\ size[d] \in Nat
      <3> DEFINE t == task[d][i]
      <3>1. t \in Task /\ t.lo <= t.pos /\ t.pos <= t.hi /\ t.hi < size[d]
            /\ size[d] \in Nat
        BY <1>3, <2>1 DEF IndInv, TypeOK, TaskInv, PlaceInv
      <3>2. /\ t.lo \in Nat /\ t.hi \in Nat /\ t.pos \in Nat /\ Len(t.data) \in Nat
            /\ t.pos + Asked(t) <= t.hi + 1 /\ Asked(t) \in Int
            /\ Len(t.data) <= Asked(t)
        BY <2>1, <3>1, AskedBounds, BeyondBounds, LenProperties DEF Task
      <3>3. t.pos + Len(t.data) <= t.hi + 1
        <4>1. t.pos + Len(t.data) <= t.pos + Asked(t)
          BY <3>1, <3>2
        <4> HIDE DEF t
        <4> QED
          BY <3>2, <4>1
      <3>4. Places(t) \subseteq (t.lo + 1)..(t.hi + 1)
        <4> HIDE DEF t
        <4> QED
          BY <3>1, <3>2, <3>3 DEF Places
      <3> QED
        BY <3>1, <3>2, <3>4
    <2>2. ASSUME NEW d \in Downloads, NEW i \in Slots, task[d][i].st # "write"
          PROVE  Places(task[d][i]) = {}
      <3>1. task[d][i].data = << >> /\ task[d][i].pos \in Nat
        BY <1>3, <2>2 DEF PlaceInv, IndInv, TypeOK, Task
      <3> QED
        BY <3>1 DEF Places
    <2>3. ASSUME NEW d \in Downloads, NEW i \in Slots, Beyond(task[d][i]) = 0
          PROVE  Places(task[d][i]) \subseteq 1..size[d]
      <3>1. CASE task[d][i].st = "write"
        <4>1. (task[d][i].lo + 1)..(task[d][i].hi + 1) \subseteq 1..size[d]
          BY <2>1, <2>3, <3>1
        <4> QED
          BY <2>1, <2>3, <3>1, <4>1
      <3> QED
        BY <2>2, <3>1
    <2>4. ASSUME NEW d \in Downloads, NEW i \in Slots, NEW j \in Slots, i # j,
                 Beyond(task[d][i]) = 0, Beyond(task[d][j]) = 0
          PROVE  Places(task[d][i]) \cap Places(task[d][j]) = {}
      <3>1. CASE task[d][i].st = "write" /\ task[d][j].st = "write"
        <4> DEFINE t == task[d][i]
                   u == task[d][j]
                   p == Places(t)
                   q == Places(u)
        <4>1. Apart(t, u)
          BY <1>3, <2>4, <3>1 DEF PlaceInv
        <4>2. /\ t.lo \in Nat /\ t.hi \in Nat /\ u.lo \in Nat /\ u.hi \in Nat
              /\ p \subseteq (t.lo + 1)..(t.hi + 1) /\ q \subseteq (u.lo + 1)..(u.hi + 1)
          BY <2>1, <2>4, <3>1
        <4> HIDE DEF t, u, p, q
        <4>3. p \cap q = {}
          BY <4>1, <4>2 DEF Apart
        <4> QED
          BY <4>3 DEF p, q, t, u
      <3> QED
        BY <2>2, <3>1
    <2> QED
      BY <2>3, <2>4 DEF WritersDisjoint
  <1> QED
    BY <1>1, <1>2, <1>3, PTL DEF Spec
-----------------------------------------------------------------------------
(* The account of mismatches.                                              *)

Account ==
    \A p \in Peers :
        /\ IsFiniteSet(Pending(p))
        /\ offences[p] = failures[p] + Cardinality(Pending(p))
        /\ p \in revoked <=> failures[p] >= Threshold

\* A step that settles no mismatch and delivers none leaves the account.
LEMMA AccountFrame ==
    ASSUME Account, \A p \in Peers : Pending(p)' = Pending(p),
           UNCHANGED << failures, revoked, offences >>
    PROVE  Account'
  BY DEF Account

\* What is pending is a pair of a download and a slot.
LEMMA PendingPairs ==
    ASSUME NEW p \in Peers
    PROVE  /\ \A x \in Pending(p) : \E e \in Downloads, j \in Slots : x = << e, j >>
           /\ \A x \in Pending(p)' : \E e \in Downloads, j \in Slots : x = << e, j >>
  BY DEF Pending

\* What decides whether a mismatch is pending is the same for all.
LEMMA PendingFrame ==
    ASSUME NEW p \in Peers,
           \A e \in Downloads, j \in Slots :
              (<< e, j >> \in Pending(p))' <=> << e, j >> \in Pending(p)
    PROVE  Pending(p)' = Pending(p)
  BY PendingPairs

LEMMA AccountStep ==
    ASSUME TypeInv, Account, [Next]_vars
    PROVE  Account'
  <1>0. TypeOK /\ EarlyInv /\ SlotInv
    BY DEF TypeInv
  <1> USE DEF fileVars, blameVars, readVars
  <1>1. ASSUME NEW d \in Downloads,
               \/ Start(d) \/ Run(d) \/ GetPeers(d) \/ HandshakeAll(d) \/ FetchFileInfo(d)
               \/ PreallocateFails(d) \/ Preallocate(d)
               \/ OpenReader(d) \/ ReadCell(d) \/ ReadFails(d) \/ FinishHash(d)
               \/ Delete(d) \/ DeleteFails(d)
        PROVE  Account'
    <2>1. UNCHANGED << failures, revoked, offences >>
      BY <1>1 DEF Start, Run, GetPeers, HandshakeAll, FetchFileInfo, PreallocateFails,
                  Preallocate, OpenReader, ReadCell, ReadFails, FinishHash, Delete,
                  DeleteFails
    <2>2. pc[d] # "fetch"
      BY <1>1 DEF Start, Run, GetPeers, HandshakeAll, FetchFileInfo, PreallocateFails,
                  Preallocate, OpenReader, ReadCell, ReadFails, FinishHash, Delete,
                  DeleteFails
    <2>3. \A j \in Slots : pc'[d] = "fetch" => task'[d][j].st # "mismatch"
      <3>1. CASE Preallocate(d)
        <4>1. trusted[d] # << >> /\ task'[d] = NewTasks(d)
          BY <1>0, <3>1 DEF EarlyInv, Preallocate, TypeOK
        <4> QED
          BY <1>0, <4>1, NewTasksType
      <3>2. CASE ~Preallocate(d)
        BY <1>0, <1>1, <3>2
        DEF Start, Run, GetPeers, HandshakeAll, FetchFileInfo, PreallocateFails,
            OpenReader, ReadCell, ReadFails, FinishHash, Delete, DeleteFails, Goto,
            GotoAfresh, TypeOK
      <3> QED
        BY <3>1, <3>2
    <2>4. ASSUME NEW e \in Downloads, e # d
          PROVE  /\ (pc'[e] = "fetch" <=> pc[e] = "fetch")
                 /\ task'[e] = task[e] /\ trusted'[e] = trusted[e]
      BY <1>0, <1>1, <2>4
      DEF Start, Run, GetPeers, HandshakeAll, FetchFileInfo, PreallocateFails,
          Preallocate, OpenReader, ReadCell, ReadFails, FinishHash, Delete, DeleteFails,
          Goto, GotoAfresh, TypeOK
    <2>5. ASSUME NEW p \in Peers PROVE Pending(p)' = Pending(p)
      <3>1. ASSUME NEW e \in Downloads, NEW j \in Slots
            PROVE  (<< e, j >> \in Pending(p))' <=> << e, j >> \in Pending(p)
        BY <2>2, <2>3, <2>4 DEF Pending, Mismatches
      <3> QED
        BY <3>1, PendingFrame
    <2> QED
      BY <2>1, <2>5, AccountFrame
  <1>2. ASSUME NEW d \in Downloads, NEW i \in Slots,
               FetchOk(d, i) \/ FetchFails(d, i) \/ WriteChunk(d, i) \/ WriteFails(d, i)
        PROVE  Account'
    <2>1. /\ UNCHANGED << failures, revoked, offences, pc, trusted >>
          /\ task[d][i].st # "mismatch"
      BY <1>2 DEF FetchOk, FetchFails, WriteChunk, WriteFails
    <2>2. task'[d][i].st # "mismatch"
      <3>0. task[d][i] \in Task
        BY <1>0 DEF TypeOK
      <3>1. CASE FetchOk(d, i)
        BY <1>0, <3>0, <3>1 DEF FetchOk, TypeOK, Task
      <3>2. CASE FetchFails(d, i)
        BY <1>0, <3>0, <3>2 DEF FetchFails, TypeOK, Task
      <3>3. CASE WriteChunk(d, i)
        <4>1. task'[d][i].st \in {"fetch", "ok"}
          BY <1>0, <3>0, <3>3 DEF WriteChunk, TypeOK, Task
        <4> QED
          BY <4>1
      <3>4. CASE WriteFails(d, i)
        BY <1>0, <3>0, <3>4 DEF WriteFails, TypeOK, Task
      <3> QED
        BY <1>2, <3>1, <3>2, <3>3, <3>4
    <2>3. ASSUME NEW p \in Peers PROVE Pending(p)' = Pending(p)
      <3>1. ASSUME NEW e \in Downloads, NEW j \in Slots
            PROVE  (<< e, j >> \in Pending(p))' <=> << e, j >> \in Pending(p)
        <4>1. e # d \/ j # i => task'[e][j] = task[e][j]
          BY <1>0, <1>2, FetchingFrame DEF Fetching
        <4> QED
          BY <2>1, <2>2, <4>1 DEF Pending, Mismatches
      <3> QED
        BY <3>1, PendingFrame
    <2> QED
      BY <2>1, <2>3, AccountFrame
  <1>3. ASSUME NEW d \in Downloads, NEW i \in Slots, FetchMismatch(d, i)
        PROVE  Account'
    <2> DEFINE q == trusted[d][i]
    <2>1. /\ pc[d] = "fetch" /\ task[d][i].st = "fetch"
          /\ UNCHANGED << failures, revoked, pc, trusted >>
      BY <1>3 DEF FetchMismatch
    <2>2. q \in Peers
      BY <1>0, <2>1, TrustedListType, ElementOfSeq DEF SlotInv, TypeOK
    <2>3. /\ offences'[q] = offences[q] + 1
          /\ \A p \in Peers : p # q => offences'[p] = offences[p]
      BY <1>0, <1>3, <2>2 DEF FetchMismatch, TypeOK
    <2>4. task'[d][i].st = "mismatch"
      BY <1>0, <1>3 DEF FetchMismatch, TypeOK, Task
    <2>5. \A e \in Downloads, j \in Slots : e # d \/ j # i => task'[e][j] = task[e][j]
      BY <1>0, <1>3, FetchingFrame DEF Fetching
    <2>6. ASSUME NEW p \in Peers, p # q PROVE Pending(p)' = Pending(p)
      <3>1. ASSUME NEW e \in Downloads, NEW j \in Slots
            PROVE  (<< e, j >> \in Pending(p))' <=> << e, j >> \in Pending(p)
        BY <2>1, <2>5, <2>6 DEF Pending, Mismatches
      <3> QED
        BY <3>1, PendingFrame
    <2>7. Pending(q)' = Pending(q) \cup {<< d, i >>} /\ << d, i >> \notin Pending(q)
      <3>1. ASSUME NEW e \in Downloads, NEW j \in Slots
            PROVE  (<< e, j >> \in Pending(q)') <=>
                      << e, j >> \in Pending(q) \/ (e = d /\ j = i)
        BY <2>1, <2>4, <2>5 DEF Pending, Mismatches
      <3>2. << d, i >> \notin Pending(q)
        BY <2>1 DEF Pending, Mismatches
      <3>3. ASSUME NEW x
            PROVE  x \in Pending(q)' <=> x \in Pending(q) \/ x = << d, i >>
        <4>1. ASSUME NEW e \in Downloads, NEW j \in Slots, x = << e, j >>
              PROVE  x \in Pending(q)' <=> x \in Pending(q) \/ x = << d, i >>
          BY <3>1, <4>1
        <4>2. CASE ~\E e \in Downloads, j \in Slots : x = << e, j >>
          BY <4>2 DEF Pending
        <4> QED
          BY <4>1, <4>2
      <3> HIDE DEF q
      <3> QED
        BY <3>2, <3>3
    <2>8. /\ IsFiniteSet(Pending(q)')
          /\ Cardinality(Pending(q)') = Cardinality(Pending(q)) + 1
          /\ Cardinality(Pending(q)) \in Nat
      BY <2>2, <2>7, FS_AddElement, FS_CardinalityType DEF Account
    <2>9. offences'[q] = failures'[q] + Cardinality(Pending(q)')
      <3>1. offences[q] = failures[q] + Cardinality(Pending(q)) /\ failures[q] \in Nat
        BY <1>0, <2>2 DEF Account, TypeOK
      <3>2. failures'[q] = failures[q] /\ offences'[q] = offences[q] + 1
        BY <2>1, <2>3
      <3> QED
        BY <2>8, <3>1, <3>2
    <2> QED
      BY <2>1, <2>2, <2>3, <2>6, <2>8, <2>9 DEF Account
  <1>4. ASSUME NEW d \in Downloads, NEW i \in Slots, Blame(d, i)
        PROVE  Account'
    <2> DEFINE q == trusted[d][i]
    <2>1. /\ pc[d] = "fetch" /\ task[d][i].st = "mismatch"
          /\ UNCHANGED << offences, pc, trusted >>
      BY <1>4 DEF Blame, Mismatches
    <2>2. q \in Peers
      BY <1>0, <2>1, TrustedListType, ElementOfSeq DEF SlotInv, TypeOK
    <2>3. /\ failures'[q] = failures[q] + 1 /\ failures[q] \in Nat
          /\ \A p \in Peers : p # q => failures'[p] = failures[p]
          /\ revoked' = IF failures[q] + 1 < Threshold THEN revoked ELSE revoked \cup {q}
      BY <1>0, <1>4, <2>2 DEF Blame, Punishable, TypeOK
    <2>4. task'[d][i].st = "blamed"
      BY <1>0, <1>4 DEF Blame, TypeOK, Task
    <2>5. \A e \in Downloads, j \in Slots : e # d \/ j # i => task'[e][j] = task[e][j]
      BY <1>0, <1>4, FetchingFrame DEF Fetching
    <2>6. ASSUME NEW p \in Peers, p # q PROVE Pending(p)' = Pending(p)
      <3>1. ASSUME NEW e \in Downloads, NEW j \in Slots
            PROVE  (<< e, j >> \in Pending(p))' <=> << e, j >> \in Pending(p)
        BY <2>1, <2>5, <2>6 DEF Pending, Mismatches
      <3> QED
        BY <3>1, PendingFrame
    <2>7. Pending(q)' = Pending(q) \ {<< d, i >>} /\ << d, i >> \in Pending(q)
      <3>1. ASSUME NEW e \in Downloads, NEW j \in Slots
            PROVE  (<< e, j >> \in Pending(q)') <=>
                      << e, j >> \in Pending(q) /\ ~(e = d /\ j = i)
        BY <2>1, <2>4, <2>5 DEF Pending, Mismatches
      <3>2. << d, i >> \in Pending(q)
        BY <2>1 DEF Pending, Mismatches
      <3>3. ASSUME NEW x
            PROVE  x \in Pending(q)' <=> x \in Pending(q) /\ x # << d, i >>
        <4>1. ASSUME NEW e \in Downloads, NEW j \in Slots, x = << e, j >>
              PROVE  x \in Pending(q)' <=> x \in Pending(q) /\ x # << d, i >>
          BY <3>1, <4>1
        <4>2. CASE ~\E e \in Downloads, j \in Slots : x = << e, j >>
          BY <4>2 DEF Pending
        <4> QED
          BY <4>1, <4>2
      <3> HIDE DEF q
      <3> QED
        BY <3>2, <3>3
    <2>8. /\ IsFiniteSet(Pending(q)')
          /\ Cardinality(Pending(q)') = Cardinality(Pending(q)) - 1
          /\ Cardinality(Pending(q)) \in Nat
      BY <2>2, <2>7, FS_RemoveElement, FS_CardinalityType DEF Account
    <2>9. offences'[q] = failures'[q] + Cardinality(Pending(q)')
      <3>1. offences[q] = failures[q] + Cardinality(Pending(q)) /\ failures[q] \in Nat
        BY <1>0, <2>2 DEF Account, TypeOK
      <3>2. failures'[q] = failures[q] + 1 /\ offences'[q] = offences[q]
        BY <2>1, <2>3
      <3> QED
        BY <2>8, <3>1, <3>2
    <2>10. \A p \in Peers : p \in revoked' <=> failures'[p] >= Threshold
      <3>1. \A p \in Peers : p \in revoked <=> failures[p] >= Threshold
        BY DEF Account
      <3>2. Threshold \in Nat
        BY DownloaderAssumption
      <3>3. q \in revoked' <=> failures'[q] >= Threshold
        BY <2>2, <2>3, <3>1, <3>2
      <3> QED
        BY <2>2, <2>3, <3>1, <3>3
    <2>11. \A p \in Peers : /\ IsFiniteSet(Pending(p)')
                            /\ offences'[p] = failures'[p] + Cardinality(Pending(p)')
      BY <2>1, <2>3, <2>6, <2>8, <2>9 DEF Account
    <2> QED
      BY <2>10, <2>11 DEF Account
  <1>5. ASSUME NEW d \in Downloads, Assess(d) PROVE Account'
    <2>1. /\ UNCHANGED << failures, revoked, offences, task, trusted >>
          /\ \A j \in Slots : task[d][j].st # "mismatch"
          /\ \A e \in Downloads : e # d => pc'[e] = pc[e]
      BY <1>0, <1>5 DEF Assess, Answered, Mismatches, Goto, TypeOK
    <2>2. ASSUME NEW p \in Peers PROVE Pending(p)' = Pending(p)
      <3>1. ASSUME NEW e \in Downloads, NEW j \in Slots
            PROVE  (<< e, j >> \in Pending(p))' <=> << e, j >> \in Pending(p)
        BY <2>1 DEF Pending, Mismatches
      <3> QED
        BY <3>1, PendingFrame
    <2> QED
      BY <2>1, <2>2, AccountFrame
  <1>6. ASSUME Stop PROVE Account'
    <2>1. \A e \in Downloads : pc'[e] # "fetch"
      BY <1>6 DEF Stop, Early, OnFile
    <2>2. \A p \in Peers : Pending(p)' = {}
      BY <2>1 DEF Pending
    <2>3. \A p \in Peers : offences'[p] = 0 /\ failures'[p] = 0 /\ p \notin revoked'
      BY <1>6 DEF Stop
    <2>4. Threshold \in Nat /\ ~(0 >= Threshold)
      BY DownloaderAssumption
    <2> QED
      BY <2>2, <2>3, <2>4, FS_EmptySet DEF Account
  <1>7. CASE UNCHANGED vars
    <2>1. \A p \in Peers : Pending(p)' = Pending(p)
      BY <1>7 DEF vars, Pending, Mismatches
    <2> QED
      BY <1>7, <2>1, AccountFrame DEF vars
  <1> QED
    BY <1>1, <1>2, <1>3, <1>4, <1>5, <1>6, <1>7 DEF Next, Step

\* Every mismatch a peer delivers is counted once, and the peer is revoked
\* from the threshold on and never before (_handle_checksum_failure): however
\* many downloads meet it at once.
THEOREM MismatchesCounted == Spec => []OffencesAnswered
  <1>1. Init => TypeInv /\ Account
    <2> SUFFICES ASSUME Init PROVE Account
      BY InitInd DEF IndInv, TypeInv
    <2>1. \A p \in Peers : Pending(p) = {}
      BY DEF Init, Pending
    <2>2. Threshold \in Nat /\ ~(0 >= Threshold)
      BY DownloaderAssumption
    <2>3. \A p \in Peers : IsFiniteSet(Pending(p)) /\ Cardinality(Pending(p)) = 0
      BY <2>1, FS_EmptySet
    <2>4. \A p \in Peers : offences[p] = 0 /\ failures[p] = 0 /\ p \notin revoked
      BY DEF Init
    <2> QED
      BY <2>2, <2>3, <2>4 DEF Account
  <1>2. TypeInv /\ Account /\ [Next]_vars => TypeInv' /\ Account'
    BY TypeStep, StageStep, AccountStep DEF TypeInv
  <1>3. ASSUME TypeInv, Account PROVE OffencesAnswered
    <2> SUFFICES ASSUME NEW p \in Peers
                 PROVE  /\ offences[p] = failures[p] + Cardinality(Pending(p))
                        /\ p \in revoked <=>
                              offences[p] - Cardinality(Pending(p)) >= Threshold
      BY DEF OffencesAnswered
    <2>1. Cardinality(Pending(p)) \in Nat /\ failures[p] \in Nat
      BY <1>3, FS_CardinalityType DEF Account, TypeInv, TypeOK
    <2> QED
      BY <1>3, <2>1 DEF Account
  <1> QED
    BY <1>1, <1>2, <1>3, PTL DEF Spec
-----------------------------------------------------------------------------
(* What the chunks cover. *)

\* Of some numbers one is the least.
LEMMA Least ==
    ASSUME NEW T \in SUBSET Nat, NEW n \in T
    PROVE  \E k \in T : \A j \in T : k <= j
  <1> DEFINE below == {0..k : k \in T}
             R == StrictSubsetOrdering(Nat)
             F == FiniteSubsetsOf(Nat)
  <1>1. \A k \in T : k \in Nat /\ 0..k \in F
    <2> SUFFICES ASSUME NEW k \in T PROVE 0..k \in F
      OBVIOUS
    <2>1. IsFiniteSet(0..k)
      BY FS_Interval
    <2>2. 0..k \in SUBSET Nat
      OBVIOUS
    <2> QED
      BY <2>1, <2>2 DEF FiniteSubsetsOf
  <1>2. below \subseteq F /\ below # {}
    BY <1>1
  <1>3. IsWellFoundedOn(R, F)
    BY FS_StrictSubsetOrderingWellFounded
  <1> HIDE DEF R, F, below
  <1>4. PICK x \in below : \A y \in below : << y, x >> \notin R
    BY <1>2, <1>3, WFMin
  <1>5. PICK k \in T : x = 0..k
    BY <1>4 DEF below
  <1>6. ASSUME NEW j \in T, ~(k <= j) PROVE FALSE
    <2>1. k \in Nat /\ j \in Nat /\ j < k
      BY <1>6
    <2>2. 0..j \subseteq 0..k /\ 0..j # 0..k /\ 0..j \in SUBSET Nat /\ 0..k \in SUBSET Nat
      <3>1. k \in 0..k /\ k \notin 0..j
        BY <2>1
      <3> QED
        BY <2>1, <3>1
    <2>3. << 0..j, 0..k >> \in R
      BY <2>2 DEF R, StrictSubsetOrdering
    <2>4. 0..j \in below
      BY DEF below
    <2> QED
      BY <1>4, <1>5, <2>3, <2>4
  <1> QED
    BY <1>6

\* If the walk over the chunks ends with the size it has passed every byte.
LEMMA GapFreeCovers ==
    ASSUME NEW chunks, NEW sz \in Nat, IsFiniteSet(chunks),
           \A c \in chunks : c.lo \in Nat /\ c.hi \in Nat,
           GapFree(chunks, sz), NEW b \in 0..(sz - 1)
    PROVE  \E c \in chunks : b \in c.lo..c.hi
  <1> DEFINE n == Cardinality(chunks)
  <1>1. n \in Nat \ {0}
    BY FS_CardinalityType, FS_EmptySet DEF GapFree
  <1>2. PICK s \in [1..n -> chunks] : Joined(s) /\ s[Len(s)].hi + 1 = sz
    BY DEF GapFree
  <1>3. Len(s) = n
    BY <1>1, <1>2
  <1> HIDE DEF n
  <1>4. /\ s[1].lo = 0 /\ \A k \in 2..n : s[k].lo = s[k - 1].hi + 1
        /\ \A k \in 1..n : s[k] \in chunks /\ s[k].lo \in Nat /\ s[k].hi \in Nat
    BY <1>2, <1>3 DEF Joined
  <1> DEFINE T == {k \in 1..n : b <= s[k].hi}
  <1>5. n \in T /\ T \in SUBSET Nat
    BY <1>1, <1>2, <1>3, <1>4
  <1>6. PICK k \in T : \A j \in T : k <= j
    BY <1>5, Least
  <1>7. k \in 1..n /\ b <= s[k].hi
    BY <1>6
  <1>8. s[k].lo <= b
    <2>1. CASE k = 1
      BY <1>4, <2>1
    <2>2. CASE k # 1
      <3>1. k - 1 \in 1..n /\ k \in 2..n /\ ~(k <= k - 1)
        BY <1>1, <1>7, <2>2
      <3>2. ~(b <= s[k - 1].hi)
        BY <1>6, <3>1
      <3> QED
        BY <1>4, <3>1, <3>2
    <2> QED
      BY <2>1, <2>2
  <1> QED
    BY <1>4, <1>7, <1>8

\* Once the walk found no gap every task has come back: one that failed would
\* leave its range to tasks of other ranges.
LEMMA AssessWhole ==
    ASSUME TypeOK, PlaceInv, ChunkInv, NEW d \in Downloads, Assess(d),
           GapFree(Delivered(d), size[d])
    PROVE  /\ \A i \in Slots : task[d][i].st \in {"off", "ok"}
           /\ \A b \in 0..(size[d] - 1) :
                 \E i \in Slots : task[d][i].st = "ok" /\ b \in task[d][i].lo..task[d][i].hi
  <1> DEFINE ok == {i \in Slots : task[d][i].st = "ok"}
             f == [i \in ok |-> task[d][i]]
  <1>1. /\ size[d] \in Nat
        /\ \A i \in Slots : task[d][i] \in Task
    BY DEF TypeOK
  <1>2. IsFiniteSet(Delivered(d))
    <2>1. IsFiniteSet(Slots)
      BY DownloaderAssumption, FS_Interval DEF Slots
    <2>2. ok \in SUBSET Slots
      OBVIOUS
    <2>3. IsFiniteSet(ok)
      BY <2>1, <2>2, FS_Subset
    <2>4. f \in Surjection(ok, Delivered(d))
      BY DEF Surjection, Delivered
    <2> HIDE DEF ok, f
    <2> QED
      BY <2>3, <2>4, FS_Surjection
  <1>3. \A c \in Delivered(d) : /\ c.lo \in Nat /\ c.hi \in Nat
                                /\ \E i \in Slots : task[d][i].st = "ok" /\ c = task[d][i]
    BY <1>1 DEF Delivered, Task
  <1>4. ASSUME NEW b \in 0..(size[d] - 1)
        PROVE  \E i \in Slots : task[d][i].st = "ok" /\ b \in task[d][i].lo..task[d][i].hi
    <2>1. PICK c \in Delivered(d) : b \in c.lo..c.hi
      BY <1>1, <1>2, <1>3, GapFreeCovers
    <2> QED
      BY <1>3, <2>1
  <1>5. ASSUME NEW j \in Slots, task[d][j].st \notin {"off", "ok"} PROVE FALSE
    <2>1. task[d][j].lo <= task[d][j].hi /\ task[d][j].hi < size[d]
      BY <1>5 DEF ChunkInv
    <2>2. task[d][j].lo \in Nat /\ task[d][j].hi \in Nat
      BY <1>1 DEF Task
    <2>3. task[d][j].lo \in 0..(size[d] - 1)
      BY <1>1, <2>1, <2>2
    <2>4. PICK i \in Slots :
             task[d][i].st = "ok" /\ task[d][j].lo \in task[d][i].lo..task[d][i].hi
      BY <1>4, <2>3
    <2>5. Apart(task[d][i], task[d][j])
      BY <1>5, <2>4 DEF PlaceInv
    <2>6. task[d][i].lo \in Nat /\ task[d][i].hi \in Nat
      BY <1>1 DEF Task
    <2> QED
      BY <2>1, <2>2, <2>4, <2>5, <2>6 DEF Apart
  <1> QED
    BY <1>4, <1>5

LEMMA WholeStep ==
    ASSUME TypeOK, PlaceInv, ChunkInv, ReadOnlyWhole, [Next]_vars
    PROVE  ReadOnlyWhole'
  <1> USE DEF fileVars, blameVars, readVars
  <1> DEFINE Reader == {"open", "hash", "complete"}
             Settles(e) == /\ pc[e] \in Reader
                           /\ task'[e] = task[e] /\ size'[e] = size[e]
  <1>1. ASSUME \A e \in Downloads : pc'[e] \in Reader => Settles(e)
        PROVE  ReadOnlyWhole'
    BY <1>1 DEF ReadOnlyWhole
  <1>2. ASSUME NEW d \in Downloads, Assess(d) PROVE ReadOnlyWhole'
    <2>1. /\ task' = task /\ size' = size
          /\ \A e \in Downloads : e # d => pc'[e] = pc[e]
          /\ pc'[d] \in Reader => GapFree(Delivered(d), size[d])
      BY <1>2 DEF Assess, OnGap, Goto, TypeOK
    <2> QED
      BY <1>2, <2>1, AssessWhole DEF ReadOnlyWhole
  <1>3. ASSUME NEW d \in Downloads,
               \/ Start(d) \/ Run(d) \/ GetPeers(d) \/ HandshakeAll(d)
               \/ FetchFileInfo(d) \/ OpenReader(d) \/ ReadCell(d) \/ ReadFails(d)
               \/ FinishHash(d) \/ DeleteFails(d)
        PROVE  ReadOnlyWhole'
    <2>1. /\ task' = task
          /\ \A e \in Downloads : e # d => pc'[e] = pc[e] /\ size'[e] = size[e]
          /\ pc'[d] \in Reader => pc[d] \in Reader /\ size'[d] = size[d]
      BY <1>3 DEF Start, Run, GetPeers, HandshakeAll, FetchFileInfo, OpenReader,
                        ReadCell, ReadFails, FinishHash, DeleteFails, Goto, TypeOK
    <2> QED
      BY <1>1, <2>1
  <1>4. ASSUME NEW d \in Downloads, Preallocate(d) \/ PreallocateFails(d) \/ Delete(d)
        PROVE  ReadOnlyWhole'
    <2>1. /\ size' = size /\ pc'[d] \notin Reader
          /\ \A e \in Downloads : e # d => task'[e] = task[e]
          /\ \A e \in Downloads : e # d /\ pc'[e] \in Reader => pc[e] \in Reader
      BY <1>4 DEF Preallocate, PreallocateFails, Delete, Goto, GotoAfresh, TypeOK
    <2> QED
      BY <1>1, <2>1
  <1>5. ASSUME NEW d \in Downloads, NEW i \in Slots, Fetching(d, i) PROVE ReadOnlyWhole'
    <2>1. pc[d] = "fetch" /\ pc' = pc /\ size' = size
      BY <1>5, FetchingFrame
    <2>2. \A e \in Downloads : e # d => task'[e] = task[e]
      BY <1>5 DEF Fetching, FetchOk, FetchFails, FetchMismatch, WriteChunk,
                        WriteFails, Blame, TypeOK
    <2> QED
      BY <1>1, <2>1, <2>2
  <1>6. ASSUME Stop PROVE ReadOnlyWhole'
    BY <1>1, <1>6 DEF Stop, TypeOK, Early, OnFile
  <1>7. CASE UNCHANGED vars
    BY <1>1, <1>7 DEF vars
  <1> QED
    BY <1>2, <1>3, <1>4, <1>5, <1>6, <1>7 DEF Next, Step, Fetching

\* The re-read starts only when every range of the split came back, and then
\* covers the file; a task that failed in any way leaves a gap that the walk
\* over the sorted chunks finds, wherever it is (download_from_peers): for any
\* number of downloads, peers and bytes, whatever the peers send.
THEOREM ReadsWhole == Spec => []ReadOnlyWhole
  <1> DEFINE Inv == TypeInv /\ PlaceInv /\ ChunkInv /\ ReadOnlyWhole
  <1>1. Init => Inv
    <2>1. Init => PlaceInv /\ ChunkInv /\ ReadOnlyWhole
      BY DEF Init, PlaceInv, ChunkInv, ReadOnlyWhole, NoTask
    <2>2. Init => TypeInv
      BY InitInd DEF IndInv, TypeInv
    <2> QED
      BY <2>1, <2>2
  <1>2. Inv /\ [Next]_vars => Inv'
    BY TypeStep, StageStep, PlaceStep, ChunkStep, WholeStep DEF TypeInv
  <1>3. Inv => ReadOnlyWhole
    OBVIOUS
  <1> QED
    BY <1>1, <1>2, <1>3, PTL DEF Spec
-----------------------------------------------------------------------------
(* That no gap is found where there is none. *)

\* While a download fetches, its tasks are those of the split of its file, each
\* with the range it was given.
SplitInv ==
    \A d \in Downloads :
        pc[d] = "fetch" =>
            LET r == SplitRanges(size[d], Len(trusted[d]))
            IN  /\ trusted[d] # << >>
                /\ \A i \in Slots :
                      /\ task[d][i].st # "off" <=> i \in 1..Len(r)
                      /\ i \in 1..Len(r) => /\ task[d][i].lo = r[i].lo
                                            /\ task[d][i].hi = r[i].hi

LEMMA SplitStep ==
    ASSUME TypeInv, SplitInv, [Next]_vars
    PROVE  SplitInv'
  <1>0. TypeOK /\ EarlyInv
    BY DEF TypeInv
  <1> USE DEF fileVars, blameVars, readVars
  <1>1. ASSUME \A e \in Downloads :
                  pc'[e] = "fetch" => /\ pc[e] = "fetch" /\ task'[e] = task[e]
                                      /\ size'[e] = size[e] /\ trusted'[e] = trusted[e]
        PROVE  SplitInv'
    BY <1>1 DEF SplitInv
  <1>2. ASSUME NEW d \in Downloads, Preallocate(d) PROVE SplitInv'
    <2> DEFINE r == SplitRanges(size[d], Len(trusted[d]))
    <2>1. /\ trusted[d] # << >> /\ size' = size /\ trusted' = trusted
          /\ task'[d] = NewTasks(d) /\ \A e \in Downloads : e # d => task'[e] = task[e]
      BY <1>0, <1>2 DEF Preallocate, EarlyInv, TypeOK
    <2>2. \A e \in Downloads : e # d /\ pc'[e] = "fetch" => pc[e] = "fetch"
      BY <1>0, <1>2 DEF Preallocate, GotoAfresh, TypeOK
    <2>3. \A i \in Slots : /\ NewTasks(d)[i].st # "off" <=> i \in 1..Len(r)
                           /\ i \in 1..Len(r) => /\ NewTasks(d)[i].lo = r[i].lo
                                                 /\ NewTasks(d)[i].hi = r[i].hi
      <3> HIDE DEF r
      <3> QED
        BY DEF NewTasks, NoTask, r
    <2> QED
      BY <2>1, <2>2, <2>3 DEF SplitInv
  <1>3. ASSUME NEW d \in Downloads, NEW i \in Slots, Fetching(d, i) PROVE SplitInv'
    <2>1. /\ UNCHANGED << pc, size, trusted >>
          /\ \A e \in Downloads, j \in Slots :
                e # d \/ j # i => task'[e][j] = task[e][j]
      BY <1>0, <1>3, FetchingFrame
    <2>2. /\ task'[d][i].lo = task[d][i].lo /\ task'[d][i].hi = task[d][i].hi
          /\ task[d][i].st # "off" /\ task'[d][i].st # "off"
      BY <1>0, <1>3, FetchingMoves
    <2>3. \A e \in Downloads, j \in Slots :
             /\ task'[e][j].lo = task[e][j].lo /\ task'[e][j].hi = task[e][j].hi
             /\ task'[e][j].st = "off" <=> task[e][j].st = "off"
      BY <2>1, <2>2
    <2> QED
      BY <2>1, <2>3 DEF SplitInv
  <1>4. ASSUME NEW d \in Downloads,
               \/ Start(d) \/ Run(d) \/ GetPeers(d) \/ HandshakeAll(d)
               \/ FetchFileInfo(d) \/ OpenReader(d) \/ ReadCell(d) \/ ReadFails(d)
               \/ FinishHash(d) \/ DeleteFails(d) \/ Assess(d)
        PROVE  SplitInv'
    <2>1. /\ task' = task
          /\ \A e \in Downloads : e # d => /\ pc'[e] = pc[e] /\ size'[e] = size[e]
                                         /\ trusted'[e] = trusted[e]
          /\ pc'[d] # "fetch"
      BY <1>0, <1>4 DEF Start, Run, GetPeers, HandshakeAll, FetchFileInfo, OpenReader,
                        ReadCell, ReadFails, FinishHash, DeleteFails, Assess, OnGap,
                        Goto, TypeOK
    <2> QED
      BY <1>1, <2>1
  <1>5. ASSUME NEW d \in Downloads, PreallocateFails(d) \/ Delete(d) PROVE SplitInv'
    <2>1. /\ UNCHANGED << task, size, trusted >>
          /\ \A e \in Downloads : pc'[e] = "fetch" => pc[e] = "fetch"
      BY <1>0, <1>5 DEF PreallocateFails, Delete, Goto, GotoAfresh, TypeOK
    <2> QED
      BY <1>1, <2>1
  <1>6. ASSUME Stop PROVE SplitInv'
    BY <1>0, <1>1, <1>6 DEF Stop, TypeOK, Early, OnFile
  <1>7. CASE UNCHANGED vars
    BY <1>1, <1>7 DEF vars
  <1> QED
    BY <1>2, <1>3, <1>4, <1>5, <1>6, <1>7 DEF Next, Step, Fetching

\* Chunks that are the ranges of a split, each of them once, have no gap.
LEMMA SplitGapFree ==
    ASSUME NEW sz \in Nat \ {0}, NEW n \in Nat \ {0},
           NEW chunks, NEW s \in [1..Len(SplitRanges(sz, n)) -> chunks],
           \A c \in chunks : \E k \in DOMAIN s : s[k] = c,
           \A k \in DOMAIN s : /\ s[k].lo = SplitRanges(sz, n)[k].lo
                               /\ s[k].hi = SplitRanges(sz, n)[k].hi
    PROVE  GapFree(chunks, sz)
  <1> DEFINE r == SplitRanges(sz, n)
             l == Len(r)
  <1>1. /\ r \in Seq([lo : 0..(sz - 1), hi : 0..(sz - 1)]) /\ l \in 1..n
        /\ \A i \in 1..l : r[i].lo <= r[i].hi
        /\ Joined(r) /\ r[l].hi = sz - 1
    BY SplitIsPartition
  <1>2. \A i, j \in 1..l : i < j => r[i].hi < r[j].lo
    BY RangesApart
  <1>3. \A i \in 1..l : r[i].lo \in Nat /\ r[i].hi \in Nat
    <2>1. \A i \in 1..l : r[i] \in [lo : 0..(sz - 1), hi : 0..(sz - 1)]
      BY <1>1, ElementOfSeq
    <2> QED
      BY <2>1
  <1> HIDE DEF r
  <1>4. \A i \in 1..l : s[i].lo = r[i].lo /\ s[i].hi = r[i].hi
    BY DEF r
  <1>5. /\ s \in [1..l -> chunks] /\ l \in Nat /\ 1 <= l
        /\ \A c \in chunks : \E k \in 1..l : s[k] = c
    BY <1>1 DEF r
  <1>6. r[1].lo = 0 /\ \A k \in 2..l : r[k].lo = r[k - 1].hi + 1
    BY <1>1 DEF Joined
  <1>7. r[l].hi = sz - 1
    BY <1>1
  <1>8. \A i \in 1..l : r[i].lo <= r[i].hi
    BY <1>1
  <1> HIDE DEF l
  <1>9. \A i, j \in 1..l : i < j => s[i].lo < s[j].lo
    <2> SUFFICES ASSUME NEW i \in 1..l, NEW j \in 1..l, i < j PROVE s[i].lo < s[j].lo
      OBVIOUS
    <2>1. r[i].hi < r[j].lo /\ r[i].lo <= r[i].hi
      BY <1>2, <1>8
    <2>2. r[i].lo \in Nat /\ r[i].hi \in Nat /\ r[j].lo \in Nat
      BY <1>3
    <2>3. s[i].lo = r[i].lo /\ s[j].lo = r[j].lo
      BY <1>4
    <2> QED
      BY <2>1, <2>2, <2>3
  <1>10. Cardinality(chunks) = l
    <2>1. s \in Bijection(1..l, chunks)
      <3>1. \A i, j \in 1..l : s[i] = s[j] => i = j
        <4> SUFFICES ASSUME NEW i \in 1..l, NEW j \in 1..l, s[i] = s[j], i # j
                     PROVE  FALSE
          OBVIOUS
        <4>1. i < j \/ j < i
          BY <1>5
        <4>2. s[i].lo \in Nat
          BY <1>3, <1>4
        <4> QED
          BY <1>9, <4>1, <4>2
      <3>2. s \in Injection(1..l, chunks)
        BY <1>5, <3>1 DEF Injection, IsInjective
      <3>3. s \in Surjection(1..l, chunks)
        BY <1>5 DEF Surjection
      <3> QED
        BY <3>2, <3>3 DEF Bijection
    <2> QED
      BY <1>5, <2>1, FS_CountingElements DEF ExistsBijection
  <1>11. Ascending(s)
    <2>1. \A i \in 1..l : s[i].lo \in Nat
      BY <1>3, <1>4
    <2>2. \A i, j \in 1..l : i < j => s[i] # s[j] /\ s[i].lo <= s[j].lo
      <3> SUFFICES ASSUME NEW i \in 1..l, NEW j \in 1..l, i < j
                   PROVE  s[i] # s[j] /\ s[i].lo <= s[j].lo
        OBVIOUS
      <3>1. s[i].lo < s[j].lo /\ s[i].lo \in Nat /\ s[j].lo \in Nat
        BY <1>9, <2>1
      <3> QED
        BY <3>1
    <2>3. DOMAIN s = 1..l
      BY <1>5
    <2> QED
      BY <2>2, <2>3 DEF Ascending
  <1>12. Len(s) = l
    BY <1>5
  <1>13. Joined(s) /\ s[Len(s)].hi + 1 = sz
    <2>1. /\ 1 \in 1..l /\ l \in 1..l
          /\ \A k \in 2..l : k \in 1..l /\ k - 1 \in 1..l
      BY <1>5
    <2>2. s[1].lo = 0 /\ s[l].hi = sz - 1
      BY <1>4, <1>6, <1>7, <2>1
    <2>3. \A k \in 2..l : s[k].lo = s[k - 1].hi + 1
      BY <1>4, <1>6, <2>1
    <2> QED
      BY <1>12, <2>2, <2>3 DEF Joined
  <1>14. chunks # {}
    BY <1>5
  <1> QED
    BY <1>5, <1>10, <1>11, <1>13, <1>14 DEF GapFree

\* A download that gives up a file it has fetched has a task that failed.
LEMMA GapStep ==
    ASSUME TypeOK, SplitInv, NEW d \in Downloads, Assess(d), size[d] # 0,
           \A i \in Slots : task[d][i].st \notin {"failed", "blamed"}
    PROVE  GapFree(Delivered(d), size[d])
  <1> DEFINE r == SplitRanges(size[d], Len(trusted[d]))
             s == [i \in 1..Len(r) |-> task[d][i]]
  <1>1. /\ size[d] \in Nat \ {0} /\ Len(trusted[d]) \in Nat \ {0}
        /\ Len(trusted[d]) <= MaxPeers
    BY TrustedListType DEF TypeOK, Assess, SplitInv
  <1>2. Len(r) \in 1..Len(trusted[d])
    BY <1>1, SplitIsPartition
  <1>3. 1..Len(r) \subseteq Slots
    BY <1>1, <1>2, DownloaderAssumption DEF Slots
  <1>4. \A i \in Slots : task[d][i].st \in {"off", "ok"}
    BY DEF Assess, Answered, Settled, Mismatches, TypeOK, Task
  <1>5. \A i \in Slots : task[d][i].st = "ok" <=> i \in 1..Len(r)
    BY <1>4 DEF Assess, SplitInv
  <1>6. /\ s \in [1..Len(r) -> Delivered(d)]
        /\ \A c \in Delivered(d) : \E k \in DOMAIN s : s[k] = c
    <2>1. \A i \in 1..Len(r) : task[d][i] \in Delivered(d)
      BY <1>3, <1>5 DEF Delivered
    <2>2. \A c \in Delivered(d) : \E k \in 1..Len(r) : task[d][k] = c
      BY <1>5 DEF Delivered
    <2> HIDE DEF r
    <2> QED
      BY <2>1, <2>2
  <1>7. \A k \in DOMAIN s : s[k].lo = r[k].lo /\ s[k].hi = r[k].hi
    BY <1>3 DEF Assess, SplitInv
  <1> HIDE DEF s
  <1> QED
    BY <1>1, <1>6, <1>7, SplitGapFree

\* A file that was fetched is given up unread only because a task of its own
\* failed, or because it is empty (_split_ranges, download_from_peers): for any
\* number of downloads, peers and bytes, in whatever order the tasks end.
THEOREM NoGapInvented == Spec => GapsAreReal
  <1> DEFINE Inv == TypeInv /\ SplitInv
  <1>1. Init => Inv
    <2>1. Init => SplitInv
      BY DEF Init, SplitInv
    <2>2. Init => TypeInv
      BY InitInd DEF IndInv, TypeInv
    <2> QED
      BY <2>1, <2>2
  <1>2. Inv /\ [Next]_vars => Inv'
    BY TypeStep, StageStep, SplitStep DEF TypeInv
  <1>3. Inv /\ [Next]_vars => [\A d \in Downloads :
                                    pc[d] = "fetch" /\ pc'[d] = "delete" =>
                                       \/ size[d] = 0
                                       \/ \E i \in Slots :
                                             task[d][i].st \in {"failed", "blamed"}]_vars
    <2> SUFFICES ASSUME Inv, Next, NEW d \in Downloads, pc[d] = "fetch", pc'[d] = "delete"
                 PROVE  \/ size[d] = 0
                        \/ \E i \in Slots : task[d][i].st \in {"failed", "blamed"}
      OBVIOUS
    <2> USE DEF fileVars, blameVars, readVars
    <2>0. TypeOK
      BY DEF TypeInv
    <2>1. CASE Assess(d)
      <3>1. ~GapFree(Delivered(d), size[d])
        BY <2>0, <2>1 DEF Assess, Goto, TypeOK
      <3> QED
        BY <2>0, <2>1, <3>1, GapStep
    <2>2. ASSUME NEW e \in Downloads,
                 \/ Start(e) \/ Run(e) \/ GetPeers(e) \/ HandshakeAll(e)
                 \/ FetchFileInfo(e) \/ OpenReader(e) \/ ReadFails(e)
                 \/ FinishHash(e) \/ DeleteFails(e) \/ (Assess(e) /\ e # d)
          PROVE  FALSE
      BY <2>0, <2>2 DEF Start, Run, GetPeers, HandshakeAll, FetchFileInfo, OpenReader,
                        ReadFails, FinishHash, DeleteFails, Assess, Goto, TypeOK
    <2>3. ASSUME NEW e \in Downloads, Preallocate(e) \/ PreallocateFails(e) \/ Delete(e)
          PROVE  FALSE
      BY <2>0, <2>3 DEF Preallocate, PreallocateFails, Delete, Goto, GotoAfresh, TypeOK
    <2>4. ASSUME NEW e \in Downloads, NEW i \in Slots, Fetching(e, i) PROVE FALSE
      BY <2>0, <2>4, FetchingFrame
    <2>5. ASSUME NEW e \in Downloads, ReadCell(e) PROVE FALSE
      BY <2>5 DEF ReadCell
    <2>6. ASSUME Stop PROVE FALSE
      BY <2>0, <2>6 DEF Stop, TypeOK, Early, OnFile
    <2> QED
      BY <2>1, <2>2, <2>3, <2>4, <2>5, <2>6 DEF Next, Step, Fetching
  <1> QED
    BY <1>1, <1>2, <1>3, PTL DEF Spec, GapsAreReal
-----------------------------------------------------------------------------
(* The progress that is shown. *)

\* The places of a file of sz bytes that the tasks ts have passed.
PassedBy(ts, sz) ==
    {b \in 0..(sz - 1) :
        \E i \in Slots : ts[i].st # "off" /\ ts[i].lo <= b /\ b < ts[i].pos}
Done(d) == PassedBy(task[d], size[d])

\* No more is reported than was passed, but for what was too long.
ProgressInv ==
    \A d \in Downloads : bytes[d] <= Cardinality(Done(d)) + surplus[d]

LEMMA PassedFinite ==
    ASSUME NEW ts, NEW sz \in Nat
    PROVE  /\ IsFiniteSet(PassedBy(ts, sz)) /\ Cardinality(PassedBy(ts, sz)) \in Nat
           /\ Cardinality(PassedBy(ts, sz)) <= sz
  <1>1. IsFiniteSet(0..(sz - 1)) /\ Cardinality(0..(sz - 1)) = sz
    BY FS_Interval
  <1>2. PassedBy(ts, sz) \in SUBSET (0..(sz - 1))
    BY DEF PassedBy
  <1> QED
    BY <1>1, <1>2, FS_Subset, FS_CardinalityType

LEMMA DoneFinite ==
    ASSUME TypeOK, NEW d \in Downloads
    PROVE  /\ IsFiniteSet(Done(d)) /\ Cardinality(Done(d)) \in Nat
           /\ Cardinality(Done(d)) <= size[d]
  BY PassedFinite DEF TypeOK, Done

LEMMA DoneFiniteNext ==
    ASSUME TypeOK', NEW d \in Downloads
    PROVE  IsFiniteSet(Done(d)') /\ Cardinality(Done(d)') \in Nat
  BY PassedFinite DEF TypeOK, Done

\* While nothing was started nothing was reported but what was too long.
LEMMA NothingDone ==
    ASSUME TypeOK, ProgressInv, NEW d \in Downloads,
           \A i \in Slots : task[d][i].st = "off"
    PROVE  bytes[d] <= surplus[d]
  <1>1. Done(d) = {}
    BY DEF Done, PassedBy
  <1>2. Cardinality(Done(d)) = 0
    BY <1>1, FS_EmptySet
  <1> QED
    BY <1>2 DEF TypeOK, ProgressInv

\* A write adds the places it passes to those passed before, which are others.
LEMMA WritePasses ==
    ASSUME TypeInv, TypeOK', TaskInv, PlaceInv, ChunkInv, ProgressInv,
           NEW d \in Downloads, NEW i \in Slots, WriteChunk(d, i)
    PROVE  bytes'[d] <= Cardinality(Done(d)') + surplus'[d]
  <1> USE DEF fileVars, blameVars, readVars
  <1> DEFINE t == task[d][i]
             u == task'[d][i]
             new == t.pos..(NextPos(t) - 1)
  <1>0. TypeOK /\ Fetching(d, i) /\ t.st = "write" /\ size' = size
    BY DEF TypeInv, Fetching, WriteChunk
  <1>1. /\ t \in Task /\ t.pos \in Nat /\ t.hi \in Nat /\ t.lo \in Nat /\ size[d] \in Nat
        /\ NextPos(t) \in Nat /\ Asked(t) \in Int /\ NextPos(t) = t.pos + Asked(t)
        /\ Len(t.data) \in Nat
    <2>1. t \in Task /\ t.data \in Seq(Cell) /\ size[d] \in Nat
      BY <1>0 DEF TypeOK, Task
    <2>2. Len(t.data) \in Nat
      BY <2>1, LenProperties
    <2> QED
      BY <2>1, <2>2, AskedBounds DEF Task
  <1>2. /\ t.lo <= t.hi /\ t.hi < size[d] /\ t.lo <= t.pos /\ t.pos <= t.hi
    BY <1>0 DEF ChunkInv, TaskInv
  <1>3. Asked(t) >= 1 /\ NextPos(t) <= t.hi + 1
    BY <1>1, <1>2, AskedBounds
  <1>4. u.lo = t.lo /\ u.pos = NextPos(t) /\ u.st # "off"
    <2>1. u = [t EXCEPT !.st = IF NextPos(t) <= t.hi THEN "fetch" ELSE "ok",
                        !.pos = NextPos(t), !.data = << >>]
      BY <1>0 DEF WriteChunk, TypeOK
    <2>2. u.pos = NextPos(t) /\ u.lo = t.lo
          /\ u.st = IF NextPos(t) <= t.hi THEN "fetch" ELSE "ok"
      BY <1>1, <2>1 DEF Task
    <2> QED
      BY <2>2
  <1>5. \A j \in Slots : j # i => task'[d][j] = task[d][j]
    BY <1>0, FetchingFrame
  <1>6. bytes'[d] = bytes[d] + Len(t.data) /\ bytes[d] \in Nat
    BY <1>0 DEF WriteChunk, TypeOK
  <1>7. IsFiniteSet(new) /\ Cardinality(new) = Asked(t)
    <2>1. t.pos \in Int /\ NextPos(t) - 1 \in Int
      BY <1>1
    <2>2. /\ IsFiniteSet(new)
          /\ Cardinality(new) = IF t.pos > NextPos(t) - 1 THEN 0
                                ELSE NextPos(t) - 1 - t.pos + 1
      BY <2>1, FS_Interval
    <2> HIDE DEF t
    <2> QED
      BY <1>1, <1>3, <2>2
  <1>8. ASSUME NEW b \in new
        PROVE  b \in 0..(size[d] - 1) /\ b \notin Done(d) /\ t.lo <= b /\ b < NextPos(t)
    <2>1. b \in Nat /\ t.pos <= b /\ b < NextPos(t) /\ b <= t.hi
      <3> HIDE DEF t
      <3> QED
        BY <1>1, <1>3
    <2>2. b \in 0..(size[d] - 1) /\ t.lo <= b
      <3> HIDE DEF t
      <3> QED
        BY <1>1, <1>2, <2>1
    <2>3. ASSUME NEW j \in Slots, task[d][j].st # "off", task[d][j].lo <= b,
                 b < task[d][j].pos
          PROVE  FALSE
      <3>1. j # i
        BY <1>1, <2>1, <2>3
      <3> DEFINE v == task[d][j]
      <3>2. /\ v.lo \in Nat /\ v.hi \in Nat /\ v.pos \in Nat /\ v.pos <= v.hi + 1
        BY <1>0, <2>3 DEF TypeOK, Task, ChunkInv
      <3>3. t.hi < v.lo \/ v.hi < t.lo
        BY <1>0, <2>3, <3>1 DEF PlaceInv, Apart
      <3>4. v.lo <= b /\ b < v.pos
        BY <2>3
      <3> HIDE DEF t, v
      <3> QED
        BY <1>1, <2>1, <2>2, <3>2, <3>3, <3>4
    <2> QED
      BY <2>1, <2>2, <2>3 DEF Done, PassedBy
  <1>9. ASSUME NEW b \in Done(d) PROVE b \in Done(d)'
    <2>1. b \in 0..(size[d] - 1)
      BY DEF Done, PassedBy
    <2>2. PICK j \in Slots : /\ task[d][j].st # "off" /\ task[d][j].lo <= b
                             /\ b < task[d][j].pos
      BY DEF Done, PassedBy
    <2>3. CASE j # i
      BY <1>0, <1>5, <2>1, <2>2, <2>3 DEF Done, PassedBy
    <2>4. CASE j = i
      <3>1. b < NextPos(t)
        <4>1. b \in Nat /\ b < t.pos
          BY <1>1, <2>1, <2>2, <2>4
        <4> HIDE DEF t
        <4> QED
          BY <1>1, <1>3, <4>1
      <3>2. u.st # "off" /\ u.lo <= b /\ b < u.pos
        BY <1>4, <2>2, <2>4, <3>1
      <3> QED
        BY <1>0, <2>1, <3>2 DEF Done, PassedBy
    <2> QED
      BY <2>3, <2>4
  <1>10. ASSUME NEW b \in new PROVE b \in Done(d)'
    <2>1. u.st # "off" /\ u.lo <= b /\ b < u.pos /\ b \in 0..(size[d] - 1)
      BY <1>4, <1>8
    <2> QED
      BY <1>0, <2>1 DEF Done, PassedBy
  <1> HIDE DEF new, u
  <1>11. /\ IsFiniteSet(Done(d)) /\ Cardinality(Done(d)) \in Nat
         /\ IsFiniteSet(Done(d)') /\ Cardinality(Done(d)') \in Nat
    BY <1>0, DoneFinite, DoneFiniteNext
  <1>12. Cardinality(Done(d) \cup new) = Cardinality(Done(d)) + Cardinality(new)
    <2>1. Done(d) \cap new = {}
      BY <1>8
    <2>2. /\ Cardinality(Done(d) \cap new) = 0
          /\ Cardinality(new) \in Nat
      BY <1>7, <2>1, FS_EmptySet, FS_CardinalityType
    <2>3. Cardinality(Done(d) \cup new)
            = Cardinality(Done(d)) + Cardinality(new) - Cardinality(Done(d) \cap new)
      BY <1>7, <1>11, FS_Union
    <2> QED
      BY <1>11, <2>2, <2>3
  <1>13. Cardinality(Done(d) \cup new) <= Cardinality(Done(d)')
    <2>1. (Done(d) \cup new) \in SUBSET (Done(d)')
      BY <1>9, <1>10
    <2> QED
      BY <1>11, <2>1, FS_Subset
  <1>14. bytes[d] <= Cardinality(Done(d)) + surplus[d]
    BY DEF ProgressInv
  <1>15. /\ surplus'[d] = surplus[d] + Beyond(t) /\ surplus[d] \in Nat
         /\ Beyond(t) \in Nat /\ Len(t.data) <= Asked(t) + Beyond(t)
    BY <1>0, <1>1, SurplusGrows, BeyondBounds DEF WriteChunk, TypeOK
  <1> HIDE DEF t
  <1> QED
    BY <1>1, <1>6, <1>7, <1>11, <1>12, <1>13, <1>14, <1>15

LEMMA ProgressStep ==
    ASSUME TypeInv, TypeOK', TaskInv, PlaceInv, ChunkInv, ProgressInv, [Next]_vars
    PROVE  ProgressInv'
  <1>0. TypeOK /\ EarlyInv
    BY DEF TypeInv
  <1> USE DEF fileVars, blameVars, readVars
  <1> DEFINE Still(e) == /\ task'[e] = task[e] /\ size'[e] = size[e]
                         /\ bytes'[e] = bytes[e] /\ surplus'[e] = surplus[e]
             Shown(e) == bytes'[e] <= Cardinality(Done(e)') + surplus'[e]
  <1>1. ASSUME NEW e \in Downloads, Still(e) PROVE Shown(e)
    <2>1. Done(e)' = Done(e)
      BY <1>1 DEF Done, PassedBy
    <2> QED
      BY <1>1, <2>1 DEF ProgressInv
  <1>2. ASSUME NEW d \in Downloads, bytes'[d] <= surplus'[d] PROVE Shown(d)
    <2>1. Cardinality(Done(d)') \in Nat /\ bytes'[d] \in Nat /\ surplus'[d] \in Nat
      BY DoneFiniteNext DEF TypeOK
    <2> QED
      BY <1>2, <2>1
  <1>3. ASSUME NEW d \in Downloads, Preallocate(d) \/ FetchFileInfo(d)
        PROVE  ProgressInv'
    <2>1. /\ bytes' = bytes /\ surplus' = surplus /\ pc[d] \in {"preallocate", "info"}
          /\ \A e \in Downloads : e # d => Still(e)
      BY <1>0, <1>3 DEF Preallocate, FetchFileInfo, TypeOK
    <2>2. bytes[d] <= surplus[d]
      BY <1>0, <2>1, NothingDone DEF EarlyInv, Early
    <2> HIDE DEF Still
    <2> QED
      BY <1>1, <1>2, <2>1, <2>2 DEF ProgressInv
  <1>4. ASSUME NEW d \in Downloads, NEW i \in Slots, Fetching(d, i) PROVE ProgressInv'
    <2>1. /\ size' = size
          /\ \A e \in Downloads, j \in Slots : e # d \/ j # i => task'[e][j] = task[e][j]
      BY <1>0, <1>4, FetchingFrame
    <2>2. \A e \in Downloads : e # d => /\ task'[e] = task[e] /\ bytes'[e] = bytes[e]
                                        /\ surplus'[e] = surplus[e]
      BY <1>0, <1>4 DEF Fetching, FetchOk, FetchFails, FetchMismatch, WriteChunk,
                        WriteFails, Blame, TypeOK
    <2>3. Shown(d)
      <3>1. CASE WriteChunk(d, i)
        BY <3>1, WritePasses
      <3>2. CASE ~WriteChunk(d, i)
        <4>1. /\ bytes' = bytes /\ task[d][i].st # "off" /\ task'[d][i].st # "off"
              /\ task'[d][i].lo = task[d][i].lo /\ task'[d][i].pos = task[d][i].pos
          BY <1>0, <1>4, <3>2, FetchingMoves
        <4>2. \A j \in Slots : /\ task'[d][j].st # "off" <=> task[d][j].st # "off"
                               /\ task'[d][j].lo = task[d][j].lo
                               /\ task'[d][j].pos = task[d][j].pos
          BY <2>1, <4>1
        <4>3. Done(d)' = Done(d)
          BY <2>1, <4>2 DEF Done, PassedBy
        <4>4. surplus'[d] \in Nat /\ surplus[d] \in Nat /\ surplus'[d] >= surplus[d]
          <5>1. CASE WriteFails(d, i)
            <6>1. surplus'[d] = surplus[d] + Beyond(task[d][i]) /\ Beyond(task[d][i]) \in Nat
              BY <1>0, <5>1, SurplusGrows, BeyondBounds DEF WriteFails, TypeOK
            <6> QED
              BY <1>0, <6>1 DEF TypeOK
          <5>2. CASE ~WriteFails(d, i)
            BY <1>0, <1>4, <3>2, <5>2
            DEF Fetching, FetchOk, FetchFails, FetchMismatch, Blame, TypeOK
          <5> QED
            BY <5>1, <5>2
        <4>5. bytes[d] \in Nat /\ Cardinality(Done(d)) \in Nat
          BY <1>0, DoneFinite DEF TypeOK
        <4> QED
          BY <4>1, <4>3, <4>4, <4>5 DEF ProgressInv
      <3> QED
        BY <3>1, <3>2
    <2> QED
      BY <1>1, <2>1, <2>2, <2>3 DEF ProgressInv
  <1>5. ASSUME UNCHANGED << task, size, bytes, surplus >> PROVE ProgressInv'
    BY <1>1, <1>5 DEF ProgressInv
  <1> QED
    BY <1>3, <1>4, <1>5
    DEF Next, Step, Fetching, vars, Start, Run, GetPeers, HandshakeAll,
        PreallocateFails, Assess, OpenReader, ReadCell, ReadFails, FinishHash,
        Delete, DeleteFails, Stop

\* The progress shown passes the size shown by no more than what replies had
\* beyond their requests (on_bytes, on_size_known): every other byte reported
\* was written to a place of the file no other byte was reported for, for any
\* number of downloads, peers and bytes.
THEOREM ProgressShown == Spec => []ProgressWithinSize
  <1> DEFINE Inv == IndInv /\ PlaceInv /\ ChunkInv /\ ProgressInv
  <1>1. Init => Inv
    <2> SUFFICES ASSUME Init PROVE PlaceInv /\ ChunkInv /\ ProgressInv
      BY InitInd
    <2>1. PlaceInv /\ ChunkInv
      BY DEF Init, PlaceInv, ChunkInv, NoTask
    <2>2. ASSUME NEW d \in Downloads PROVE bytes[d] <= Cardinality(Done(d)) + surplus[d]
      <3>1. bytes[d] = 0 /\ surplus[d] = 0 /\ Cardinality(Done(d)) \in Nat
        BY InitInd, DoneFinite DEF Init, IndInv
      <3> QED
        BY <3>1
    <2> QED
      BY <2>1, <2>2 DEF ProgressInv
  <1>2. Inv /\ [Next]_vars => Inv'
    BY NextInd, PlaceStep, ChunkStep, ProgressStep DEF IndInv, TypeInv
  <1>3. ASSUME Inv PROVE ProgressWithinSize
    <2> SUFFICES ASSUME NEW d \in Downloads PROVE bytes[d] <= size[d] + surplus[d]
      BY DEF ProgressWithinSize
    <2>1. /\ Cardinality(Done(d)) \in Nat /\ Cardinality(Done(d)) <= size[d]
          /\ bytes[d] <= Cardinality(Done(d)) + surplus[d]
          /\ bytes[d] \in Nat /\ size[d] \in Nat /\ surplus[d] \in Nat
      BY <1>3, DoneFinite DEF IndInv, ProgressInv, TypeOK
    <2> QED
      BY <2>1
  <1> QED
    BY <1>1, <1>2, <1>3, PTL DEF Spec
-----------------------------------------------------------------------------
(* What VerifiedFile promises, of any downloads that do as it says.  Each   *)
(* of its two promises is inductive with the types: completing is the one   *)
(* step that can break either, and every other step that changes the file   *)
(* marks the others as mixed, or leaves its own download accountable.       *)

VARIABLES file, phase, mixed

VFile == INSTANCE VerifiedFile

\* A step only changes phases, files and marks to what they can be
\* (download_from_peers).
LEMMA VerifiedTypes ==
    VFile!TypeOK /\ [VFile!Next]_(VFile!vars) => VFile!TypeOK'
  <1> SUFFICES ASSUME VFile!TypeOK, [VFile!Next]_(VFile!vars)
               PROVE  VFile!TypeOK'
    OBVIOUS
  <1> USE DEF VFile!TypeOK, VFile!Files, VFile!Phases, VFile!Become
  <1>1. ASSUME NEW d \in Downloads, VFile!Enter(d) PROVE VFile!TypeOK'
    BY <1>1 DEF VFile!Enter
  <1>2. ASSUME NEW d \in Downloads, VFile!Work(d) PROVE VFile!TypeOK'
    BY <1>2 DEF VFile!Work
  <1>3. ASSUME NEW d \in Downloads, VFile!Complete(d) PROVE VFile!TypeOK'
    BY <1>3 DEF VFile!Complete, VFile!Finishable
  <1>4. ASSUME NEW d \in Downloads, VFile!Discard(d) PROVE VFile!TypeOK'
    BY <1>4 DEF VFile!Discard
  <1>5. ASSUME NEW d \in Downloads, VFile!GiveUp(d) PROVE VFile!TypeOK'
    BY <1>5 DEF VFile!GiveUp
  <1>6. CASE VFile!Lose
    BY <1>6 DEF VFile!Lose
  <1>7. CASE UNCHANGED VFile!vars
    BY <1>7 DEF VFile!vars
  <1>8. QED
    BY <1>1, <1>2, <1>3, <1>4, <1>5, <1>6, <1>7 DEF VFile!Next

\* The variables keep their types (download_from_peers).
LEMMA VerifiedType == VFile!Spec => []VFile!TypeOK
  <1>1. VFile!Init => VFile!TypeOK
    BY DEF VFile!Init, VFile!TypeOK, VFile!Files, VFile!Phases
  <1>2. QED
    BY <1>1, VerifiedTypes, PTL DEF VFile!Spec

\* A completed download that nobody has meddled with keeps standing for the
\* file: whoever changes the file marks it (the whole-file hash of
\* download_from_peers).
THEOREM CompletePromise == VFile!Spec => []VFile!CompleteIsWhole
  <1>1. VFile!Init => VFile!CompleteIsWhole
    BY DEF VFile!Init, VFile!CompleteIsWhole
  <1>2. ASSUME VFile!TypeOK, VFile!CompleteIsWhole, [VFile!Next]_(VFile!vars)
        PROVE  VFile!CompleteIsWhole'
    <2> SUFFICES ASSUME NEW c \in Downloads, phase'[c] = "complete", ~mixed'[c]
                 PROVE  file' = "whole"
      BY DEF VFile!CompleteIsWhole
    <2> USE <1>2 DEF VFile!TypeOK, VFile!CompleteIsWhole,
                  VFile!Files, VFile!Phases, VFile!Become
    <2>1. ASSUME NEW d \in Downloads, VFile!Enter(d) PROVE file' = "whole"
      BY <2>1 DEF VFile!Enter, VFile!OthersMixed
    <2>2. ASSUME NEW d \in Downloads, VFile!Work(d) PROVE file' = "whole"
      BY <2>2 DEF VFile!Work, VFile!OthersMixed
    <2>3. ASSUME NEW d \in Downloads, VFile!Complete(d) PROVE file' = "whole"
      BY <2>3 DEF VFile!Complete, VFile!Finishable
    <2>4. ASSUME NEW d \in Downloads, VFile!Discard(d) PROVE file' = "whole"
      BY <2>4 DEF VFile!Discard, VFile!OthersMixed
    <2>5. ASSUME NEW d \in Downloads, VFile!GiveUp(d) PROVE file' = "whole"
      BY <2>5 DEF VFile!GiveUp
    <2>6. CASE VFile!Lose
      BY <2>6 DEF VFile!Lose
    <2>7. CASE UNCHANGED VFile!vars
      BY <2>7 DEF VFile!vars
    <2>8. QED
      BY <2>1, <2>2, <2>3, <2>4, <2>5, <2>6, <2>7 DEF VFile!Next
  <1>3. QED
    BY <1>1, <1>2, VerifiedType, PTL DEF VFile!Spec

\* Whatever the downloads do, a partial file is one somebody still works on, or
\* what an exception or the end of the process left (the deletes of
\* download_from_peers).
THEOREM PartialPromise == VFile!Spec => []VFile!PartialHasOwner
  <1> DEFINE Owned == \E d \in Downloads : phase[d] \in {"working", "lost"}
  <1>1. VFile!Init => VFile!PartialHasOwner
    BY DEF VFile!Init, VFile!PartialHasOwner
  <1>2. ASSUME VFile!TypeOK, VFile!PartialHasOwner, [VFile!Next]_(VFile!vars)
        PROVE  VFile!PartialHasOwner'
    <2> SUFFICES ASSUME file' = "partial" PROVE Owned'
      BY DEF VFile!PartialHasOwner
    <2> USE <1>2 DEF VFile!TypeOK, VFile!PartialHasOwner,
                  VFile!Files, VFile!Phases, VFile!Become
    <2>1. ASSUME NEW d \in Downloads, VFile!Enter(d) PROVE Owned'
      BY <2>1 DEF VFile!Enter
    <2>2. ASSUME NEW d \in Downloads, VFile!Work(d) PROVE Owned'
      BY <2>2 DEF VFile!Work
    <2>3. ASSUME NEW d \in Downloads, VFile!Complete(d) PROVE Owned'
      BY <2>3 DEF VFile!Complete
    <2>4. ASSUME NEW d \in Downloads, VFile!Discard(d) PROVE Owned'
      BY <2>4 DEF VFile!Discard
    <2>5. ASSUME NEW d \in Downloads, VFile!GiveUp(d) PROVE Owned'
      BY <2>5 DEF VFile!GiveUp
    <2>6. CASE VFile!Lose
      BY <2>6 DEF VFile!Lose
    <2>7. CASE UNCHANGED VFile!vars
      BY <2>7 DEF VFile!vars
    <2>8. QED
      BY <2>1, <2>2, <2>3, <2>4, <2>5, <2>6, <2>7 DEF VFile!Next
  <1>3. QED
    BY <1>1, <1>2, VerifiedType, PTL DEF VFile!Spec
=============================================================================
