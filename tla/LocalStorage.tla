---------------------------- MODULE LocalStorage ----------------------------
(***************************************************************************)
(* What LocalStorage (storage.py) does to the bytes of one file.           *)
(*                                                                         *)
(* A file is a sequence of cells.  A cell says whether the byte stored     *)
(* there is the one the requested file has at that place ("right") or any  *)
(* other ("wrong").  SHA-256 is taken to be collision-free: two files have *)
(* one hash iff they are equal, so a file hashes to the requested hash iff *)
(* it is TrueFile.  A byte nobody wrote reads as zero, which is the right  *)
(* byte in the places the requested file has a zero: ZeroCells.            *)
(*                                                                         *)
(* Offsets count from 0 as in the code; cells count from 1.                *)
(***************************************************************************)
EXTENDS Integers, Sequences

CONSTANTS
    TrueSize,   \* number of bytes of the requested file
    ZeroCells,  \* the cells in which the requested file holds a zero byte
    NoFile      \* what a path that names no file holds

Cell == {"right", "wrong"}

ASSUME StorageAssumption ==
    /\ TrueSize \in Nat
    /\ ZeroCells \subseteq 1..TrueSize
    /\ NoFile \notin Seq(Cell)

TrueFile == [i \in 1..TrueSize |-> "right"]

Lesser(a, b) == IF a <= b THEN a ELSE b
Greater(a, b) == IF a <= b THEN b ELSE a

\* A cell nobody wrote.
ZeroByte(i) == IF i \in ZeroCells THEN "right" ELSE "wrong"

\* preallocate: open("wb") empties the file, truncate(n) makes n zero bytes.
Preallocated(n) == [i \in 1..n |-> ZeroByte(i)]

\* write_chunk_at: seek to off, write data.  A write past the end leaves zero
\* bytes between; writing no bytes leaves the file as it was.
Written(f, off, data) ==
    IF data = << >>
    THEN f
    ELSE [i \in 1..Greater(Len(f), off + Len(data)) |->
            IF i \in (off + 1)..(off + Len(data)) THEN data[i - off]
            ELSE IF i <= Len(f) THEN f[i]
            ELSE ZeroByte(i)]
=============================================================================
