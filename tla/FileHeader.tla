----------------------------- MODULE FileHeader -----------------------------
(***************************************************************************)
(* File headers and the free map they allocate from: filesys/filehdr.cc    *)
(* and userprog/bitmap.cc, as functions.  A map is the set of its marked   *)
(* bits.  A header is [numBytes, numSectors, direct, pointer, indirect]:   *)
(* the sectors of the direct blocks, the sectors of the pointer blocks,    *)
(* and the sectors in each pointer block.  An element of an array that the *)
(* code never wrote is missing from the sequence; a sector number may be   *)
(* -1, what BitMap::Find gives when no bit is clear.                       *)
(***************************************************************************)
EXTENDS Integers, Sequences, FiniteSets, SequencesExt

CONSTANTS
    NumSectors,
    SectorSize,         \* 128 bytes
    PointerSectors,     \* 31: sector numbers in a pointer block
    NumInDirect         \* 13: pointer blocks of a header

ASSUME FileHeaderAssumption ==
    /\ NumSectors \in Nat /\ SectorSize \in Nat \ {0}
    /\ PointerSectors \in Nat \ {0, 1} /\ NumInDirect \in Nat

SectorNumber == 0..(NumSectors - 1)

divRoundUp(n, s) == (n + s - 1) \div s

NumClear(map) == Cardinality(SectorNumber \ map)

(* n calls of BitMap::Find: the lowest clear bits, then -1 for want of one. *)
FindAll(map, n) ==
    LET clear == SectorNumber \ map
    IN  [k \in 1..n |->
           IF k > Cardinality(clear) THEN -1
           ELSE CHOOSE s \in clear : Cardinality({t \in clear : t < s}) = k - 1]

Marked(map, found) == map \cup (Range(found) \ {-1})

(* Pointer blocks for n sectors: none for the four direct ones. *)
PointerBlocks(n) == IF n <= 4 THEN 0 ELSE divRoundUp(n - 4, PointerSectors)

(* FileHeader::Allocate.  The count is increased by the pointer blocks and  *)
(* the blocks are then counted again from it.  The test for the last block  *)
(* compares with a number no j reaches, so every block takes PointerSectors *)
(* sectors; the space they need was not part of the test for space.         *)
Allocate(map, fileSize) ==
    LET data   == divRoundUp(fileSize, SectorSize)
        count  == data + PointerBlocks(data)
        direct == IF count > 4 THEN 4 ELSE count
        blocks == PointerBlocks(count)
        found  == FindAll(map, direct + blocks * (1 + PointerSectors))
        at(j)  == direct + (j - 1) * (1 + PointerSectors) + 1
    IN  IF NumClear(map) < count
        THEN [ok |-> FALSE, map |-> map]
        ELSE [ok |-> TRUE, map |-> Marked(map, found),
              hdr |-> [numBytes |-> fileSize, numSectors |-> count,
                       direct |-> SubSeq(found, 1, direct),
                       pointer |-> [j \in 1..blocks |-> found[at(j)]],
                       indirect |-> [j \in 1..blocks |->
                          SubSeq(found, at(j) + 1, at(j) + PointerSectors)]]]

(* All the sectors a header names. *)
SectorsOf(hdr) ==
    Range(hdr.direct) \cup Range(hdr.pointer)
       \cup UNION {Range(hdr.indirect[j]) : j \in DOMAIN hdr.indirect}

(* FileHeader::Deallocate; every sector ought to be marked. *)
Deallocate(map, hdr) == map \ SectorsOf(hdr)

(* The sector of a byte, or -1 where the result is not defined: the array   *)
(* element was never written, or the sector is past the fourth, for which   *)
(* the function has no return statement.                                    *)
ByteToSector(hdr, offset) ==
    LET sector == offset \div SectorSize
    IN  IF sector < 4 /\ sector + 1 \in DOMAIN hdr.direct
        THEN hdr.direct[sector + 1] ELSE -1

(* FileHeader::ExtendFile.  Sectors past the fourth are counted nowhere and *)
(* always start in a new pointer block, which gets no sector of its own;    *)
(* room left in the last block is subtracted and never used.                *)
ExtendFile(map, hdr, n, bytes) ==
    LET max    == CASE hdr.numSectors >= 4 -> hdr.numSectors
                    [] hdr.numSectors < 4 /\ n + hdr.numSectors > 4 -> 4
                    [] OTHER -> n + hdr.numSectors
        first  == max - hdr.numSectors
        blocks == PointerBlocks(max)
        room   == blocks * PointerSectors - (max - 4)
        more   == IF n - first = 0 \/ room > n - first THEN 0 ELSE n - first - room
        fresh  == divRoundUp(more, PointerSectors)
        found  == FindAll(map, first + more)
        last(j) == IF j * PointerSectors < more THEN j * PointerSectors ELSE more
        block(j) == SubSeq(found, first + (j - 1) * PointerSectors + 1, first + last(j))
    IN  IF NumClear(map) < n
        THEN [ok |-> FALSE, map |-> map, hdr |-> hdr]
        ELSE [ok |-> TRUE, map |-> Marked(map, found),
              hdr |-> [hdr EXCEPT
                 !.numBytes = bytes, !.numSectors = max,
                 !.direct = @ \o SubSeq(found, 1, first),
                 !.indirect = [j \in (DOMAIN @) \cup (1..(blocks + fresh)) |->
                    IF j \in (blocks + 1)..(blocks + fresh)
                    THEN block(j - blocks) ELSE hdr.indirect[j]]]]

(* The sectors OpenFile::WriteAt asks for.  A write across the end counts   *)
(* from position; an append counts from the last byte of the file           *)
(* as if that byte were free, and asks for one sector if the file has no    *)
(* full one and none came out.                                              *)
NewSectors(length, position, numBytes) ==
    LET from == CASE position < length -> position
                  [] position >= length /\ length = 0 -> 0
                  [] OTHER -> length - 1
        past == numBytes - (SectorSize - (from % SectorSize))
        more == IF past <= 0 THEN 0 ELSE divRoundUp(past, SectorSize)
    IN  IF position >= length /\ length \div SectorSize = 0 /\ more = 0
        THEN 1 ELSE more
=============================================================================
