------------------------------ MODULE OpenFile ------------------------------
(***************************************************************************)
(* One open file of the larger file system: filesys/openfile.cc built with *)
(* FILESYS, over FileHeader.  WriteAt extends the file: it takes sectors   *)
(* from the free map on disk and changes the header in memory, which       *)
(* nothing ever writes back.                                               *)
(***************************************************************************)
EXTENDS FileHeader

CONSTANTS
    Taken,          \* the sectors of other files
    Value,          \* what the bytes of one write hold
    Stale,          \* a byte nobody wrote
    InitialSize,    \* sizes the file may have been created with
    RequestLength,  \* numbers of bytes of one write
    MaxWrites       \* writes in a behaviour (a bound of the model)

VARIABLES
    freeMap,        \* the free map on disk
    diskSectors,    \* the bytes of every sector
    stored,         \* the file header on disk
    hdr,            \* the header of the OpenFile in memory
    seekPosition,
    written,        \* the bytes the writes so far should have left
    wild,           \* a sector number that is not defined was used
    writes

ofVars == <<freeMap, diskSectors, stored, hdr, seekPosition, written, wild, writes>>

OpenFileInit ==
    \E size \in InitialSize :
        LET a == Allocate(Taken, size)
        IN  /\ a.ok
            /\ freeMap = a.map
            /\ stored = a.hdr
            /\ hdr = a.hdr
            /\ diskSectors = [s \in SectorNumber |-> [b \in 0..(SectorSize - 1) |-> Stale]]
            /\ seekPosition = 0
            /\ written = [k \in 1..size |-> Stale]
            /\ wild = FALSE
            /\ writes = 0

-----------------------------------------------------------------------------
(* The bytes ReadAt returns; Stale for one whose sector is not defined. *)
ReadAt(h, position, numBytes) ==
    LET limit == IF position + numBytes > h.numBytes THEN h.numBytes - position
                                                     ELSE numBytes
        byte(b) == LET s == ByteToSector(h, b)
                   IN  IF s = -1 THEN Stale ELSE diskSectors[s][b % SectorSize]
    IN  [k \in 1..limit |-> byte(position + k - 1)]

(* Mutant of Partial: The last sector is read only when it is not also the first. *)
PartialForgetsShort(position, numBytes) ==
    LET first == position \div SectorSize
        last  == (position + numBytes - 1) \div SectorSize
    IN  (IF position = first * SectorSize THEN {} ELSE {first})
           \cup (IF position + numBytes # (last + 1) * SectorSize /\ first # last
                 THEN {last} ELSE {})

(* The sectors a transfer of numBytes at position must read first. *)
Partial(position, numBytes) ==
    LET first == position \div SectorSize
        last  == (position + numBytes - 1) \div SectorSize
        firstAligned == position = first * SectorSize
        lastAligned  == position + numBytes = (last + 1) * SectorSize
    IN  (IF firstAligned THEN {} ELSE {first})
           \cup (IF ~lastAligned /\ (first # last \/ firstAligned) THEN {last} ELSE {})

(* The common end of WriteAt: a buffer of whole sectors, the partly written *)
(* ones read from the file, the bytes copied in, every sector written.      *)
Transfer(h, position, numBytes, v) ==
    LET range == (position \div SectorSize)..((position + numBytes - 1) \div SectorSize)
        target == [i \in range |-> ByteToSector(h, i * SectorSize)]
        byte(i, b) == CASE b \in position..(position + numBytes - 1) -> v
                        [] /\ b \notin position..(position + numBytes - 1)
                           /\ i \in Partial(position, numBytes)
                           /\ b < h.numBytes -> ReadAt(h, b, 1)[1]
                        [] OTHER -> Stale
        buf(i) == [b \in 0..(SectorSize - 1) |-> byte(i, i * SectorSize + b)]
        lastTo(s) == CHOOSE i \in range : target[i] = s
    IN  [defined |-> \A i \in range : target[i] # -1,
         diskSectors |-> [s \in SectorNumber |-> IF s \in Range(target) THEN buf(lastTo(s))
                                       ELSE diskSectors[s]]]

(* What the file should hold once numBytes of v are stored at position. *)
Overwritten(position, numBytes, v, length) ==
    [k \in 1..length |-> IF k - 1 \in position..(position + numBytes - 1) THEN v
                         ELSE IF k \in DOMAIN written THEN written[k] ELSE Stale]

(* Store through header h, or run into a sector number that may be anything. *)
StoreBytes(h, position, numBytes, v) ==
    LET t == Transfer(h, position, numBytes, v)
    IN  IF t.defined
        THEN /\ diskSectors' = t.diskSectors
             /\ written' = Overwritten(position, numBytes, v, h.numBytes)
             /\ UNCHANGED wild
        ELSE /\ wild' = TRUE
             /\ UNCHANGED <<diskSectors, written>>

(* WriteAt, case 1. *)
WriteInside(position, numBytes, v) ==
    /\ position + numBytes <= hdr.numBytes
    /\ StoreBytes(hdr, position, numBytes, v)
    /\ UNCHANGED <<freeMap, hdr>>

(* Case 2, across the end: the file grows, but only the part before the     *)
(* old end is stored.  Case 3 appends at the end, wherever position was.    *)
Extension(position, numBytes) ==
    ExtendFile(freeMap, hdr, NewSectors(hdr.numBytes, position, numBytes),
        (IF position < hdr.numBytes THEN position ELSE hdr.numBytes) + numBytes)

(* Mutant of WriteExtending: The free map is not written back. *)
WriteExtendingKeepsMap(position, numBytes, v) ==
    LET e == Extension(position, numBytes)
    IN  /\ position + numBytes > hdr.numBytes
        /\ e.ok
        /\ hdr' = e.hdr
        /\ StoreBytes(e.hdr, hdr.numBytes, numBytes, v)
        /\ UNCHANGED freeMap

WriteExtending(position, numBytes, v) ==
    LET e == Extension(position, numBytes)
    IN  /\ position + numBytes > hdr.numBytes
        /\ e.ok
        /\ freeMap' = e.map
        /\ hdr' = e.hdr
        /\ IF position < hdr.numBytes
           THEN StoreBytes(e.hdr, position, hdr.numBytes - position, v)
           ELSE StoreBytes(e.hdr, hdr.numBytes, numBytes, v)

(* No space; or the first sector number of an empty file, which nothing     *)
(* has written, is too large for the test at the start of WriteAt.          *)
WriteRefused(position, numBytes) ==
    /\ \/ position + numBytes > hdr.numBytes /\ ~Extension(position, numBytes).ok
       \/ hdr.direct = <<>>
    /\ UNCHANGED <<freeMap, diskSectors, hdr, written, wild>>

(* The number of bytes WriteAt returns. *)
Stored(position, numBytes) ==
    IF position < hdr.numBytes /\ position + numBytes > hdr.numBytes
    THEN hdr.numBytes - position ELSE numBytes

-----------------------------------------------------------------------------
Writing == ~wild /\ writes < MaxWrites /\ writes' = writes + 1 /\ UNCHANGED stored

(* OpenFile::Write, from the seek position. *)
Write(numBytes, v) ==
    /\ Writing
    /\ \/ /\ WriteInside(seekPosition, numBytes, v) \/ WriteExtending(seekPosition, numBytes, v)
          /\ seekPosition' = seekPosition + Stored(seekPosition, numBytes)
       \/ WriteRefused(seekPosition, numBytes) /\ UNCHANGED seekPosition

(* WriteAt at the start, as the free map and the directory are written. *)
WriteBack(numBytes, v) ==
    /\ Writing
    /\ \/ WriteInside(0, numBytes, v)
       \/ WriteExtending(0, numBytes, v)
       \/ WriteRefused(0, numBytes)
    /\ UNCHANGED seekPosition

Read(numBytes) ==
    /\ ~wild /\ writes < MaxWrites
    /\ seekPosition < hdr.numBytes
    /\ seekPosition' = seekPosition + Len(ReadAt(hdr, seekPosition, numBytes))
    /\ UNCHANGED <<freeMap, diskSectors, stored, hdr, written, wild, writes>>

Seek(position) ==
    /\ ~wild /\ writes < MaxWrites
    /\ seekPosition' = position
    /\ UNCHANGED <<freeMap, diskSectors, stored, hdr, written, wild, writes>>

(* Close the file and open it again: the header comes from disk. *)
Reopen ==
    /\ Writing
    /\ hdr' = stored
    /\ seekPosition' = 0
    /\ written' = SubSeq(written, 1, stored.numBytes)
    /\ UNCHANGED <<freeMap, diskSectors, wild>>

OpenFileNext ==
    \/ \E n \in RequestLength, v \in Value : Write(n, v) \/ WriteBack(n, v)
    \/ \E n \in RequestLength : Read(n)
    \/ \E position \in 0..hdr.numBytes : Seek(position)
    \/ Reopen

-----------------------------------------------------------------------------

(* A byte that a write stored is the byte ReadAt returns, whatever was      *)
(* written since elsewhere in the same sectors, while the file grew or was  *)
(* closed and opened again: WriteAt reads what it only partly overwrites.   *)
ReadsBack ==
    ~wild => \A k \in DOMAIN written :
        written[k] # Stale => ReadAt(hdr, k - 1, 1) = <<written[k]>>

(* The sectors of the open file are distinct, marked in the free map on     *)
(* disk and of no other file, the ones an extension took included.          *)
SectorsOwned ==
    /\ SectorsOf(hdr) \subseteq freeMap \ Taken
    /\ Cardinality(SectorsOf(hdr)) =
          Len(hdr.direct) + Len(hdr.pointer)
             + FoldSeq(LAMBDA block, n : Len(block) + n, 0, hdr.indirect)
=============================================================================
