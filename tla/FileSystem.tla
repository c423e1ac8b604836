----------------------------- MODULE FileSystem -----------------------------
(***************************************************************************)
(* The directory and the free map on disk: filesys/filesys.cc and          *)
(* filesys/directory.cc, with the headers of FileHeader.  An operation     *)
(* reads the directory and the map, works on its copies, and writes the    *)
(* sectors it changed one by one, in the order of the code; Nachos may     *)
(* stop between two of these writes.  There is one operation at a time, as *)
(* the code assumes.  An entry of the directory fills one sector here (6.4 *)
(* of them do in Nachos).  Pointer blocks are objects in memory: a header  *)
(* on disk holds their addresses, which mean nothing once Nachos has       *)
(* stopped.                                                                *)
(***************************************************************************)
EXTENDS FileHeader

CONSTANTS
    Name,
    CreateSize,         \* initial sizes of files, in bytes
    NumDirEntries,      \* 10
    Inc,                \* INC of ExpandTable: 10
    MaxCalls            \* calls and crashes in a behaviour (a bound of the model)

(* A larger file overruns the arrays of the header, which is not modelled. *)
ASSUME FileSystemAssumption ==
    \A size \in CreateSize :
        LET data == divRoundUp(size, SectorSize)
        IN  PointerBlocks(data + PointerBlocks(data)) <= NumInDirect

VARIABLES
    disk,       \* the content of every sector
    dirHdr,     \* header of directoryFile, open as long as Nachos runs
    pending,    \* sectors the current operation still has to write
    op,         \* the current or last operation
    files,      \* the headers of the files that Create returned TRUE for
    torn,       \* Nachos stopped between the writes of the directory and the map
    expanded,   \* the directory was full when a file was created
    misread,    \* Remove took other bytes for a header, or for its pointer blocks
    calls

fsVars == <<disk, dirHdr, pending, op, files, torn, expanded, misread, calls>>

NoOperation == [call |-> "none"]

FreeMapSector == 0
DirectorySector == 1

Unused == [kind |-> "garbage"]
NoEntry == [kind |-> "entry", inUse |-> FALSE]
Entry(n, s) == [kind |-> "entry", inUse |-> TRUE, name |-> n, sector |-> s]
Header(h) == [kind |-> "header", hdr |-> h, dangling |-> FALSE]
Bits(map) == [kind |-> "map", bits |-> map]

(* FileSystem::FileSystem(TRUE). *)
Format ==
    LET mapFile == Allocate({FreeMapSector, DirectorySector}, SectorSize)
        dirFile == Allocate(mapFile.map, NumDirEntries * SectorSize)
    IN  [map |-> dirFile.map,
         mapHdr |-> mapFile.hdr,
         dirHdr |-> dirFile.hdr]

SystemFiles ==
    {FreeMapSector, DirectorySector} \cup SectorsOf(Format.mapHdr) \cup SectorsOf(Format.dirHdr)

FileSystemInit ==
    /\ disk = [s \in SectorNumber |->
                 CASE s = FreeMapSector -> Header(Format.mapHdr)
                   [] s = DirectorySector -> Header(Format.dirHdr)
                   [] s \in SectorsOf(Format.mapHdr) -> Bits(Format.map)
                   [] s \in SectorsOf(Format.dirHdr) -> NoEntry
                   [] OTHER -> Unused]
    /\ dirHdr = Format.dirHdr
    /\ pending = <<>>
    /\ op = NoOperation
    /\ files = <<>>
    /\ torn = FALSE /\ expanded = FALSE /\ misread = FALSE
    /\ calls = 0

-----------------------------------------------------------------------------
MapData == Format.mapHdr.direct[1]

(* BitMap::FetchFrom and Directory::FetchFrom: the first NumDirEntries. *)
FreeMap == disk[MapData].bits
Table == [i \in 1..NumDirEntries |-> disk[ByteToSector(dirHdr, (i - 1) * SectorSize)]]

InUse(table) == {i \in DOMAIN table : table[i].inUse}

(* Directory::FindIndex, 0 if there is none. *)
FindIndex(table, n) ==
    LET found == {i \in InUse(table) : table[i].name = n}
    IN  IF found = {} THEN 0 ELSE CHOOSE i \in found : \A j \in found : i <= j

(* Directory::ExpandTable. *)
ExpandTable(table) == table \o [i \in 1..Inc |-> NoEntry]

(* Mutant of Add: inUse is not looked at. *)
AddFirst(table, n, s) == [table EXCEPT ![1] = Entry(n, s)]

(* Directory::Add of a name that is not in the table. *)
Add(table, n, s) ==
    LET free == {i \in DOMAIN table : ~table[i].inUse}
    IN  IF free # {}
        THEN [table EXCEPT ![CHOOSE i \in free : \A j \in free : i <= j] = Entry(n, s)]
        ELSE [ExpandTable(table) EXCEPT ![Len(table) + 1] = Entry(n, s)]

(* Directory::WriteBack: OpenFile::WriteAt of the whole table.  If the file *)
(* is too short it is extended, from the map that is on disk, and only what *)
(* fitted before is written; if there is no space nothing is.               *)
DirectoryWriteBack(table) ==
    LET bytes == Len(table) * SectorSize
        fits  == bytes <= dirHdr.numBytes
        e == ExtendFile(FreeMap, dirHdr, NewSectors(dirHdr.numBytes, 0, bytes), bytes)
        entries(n) == [i \in 1..n |-> <<ByteToSector(dirHdr, (i - 1) * SectorSize), table[i]>>]
    IN  CASE fits -> [hdr |-> dirHdr, writes |-> entries(Len(table))]
          [] ~fits /\ e.ok ->
               [hdr |-> e.hdr,
                writes |-> <<<<MapData, Bits(e.map)>>>>
                              \o entries(dirHdr.numBytes \div SectorSize)]
          [] OTHER -> [hdr |-> dirHdr, writes |-> <<>>]

Idle == pending = <<>>

Calling == Idle /\ ~misread /\ calls < MaxCalls /\ calls' = calls + 1

(* FileSystem::Create, up to its first write; it fails without one. *)
CreateFile(n, size) ==
    LET header == FindAll(FreeMap, 1)
        a      == Allocate(Marked(FreeMap, header), size)
        added  == Add(Table, n, header[1])
        back   == DirectoryWriteBack(added)
        ok     == FindIndex(Table, n) = 0 /\ header[1] # -1 /\ a.ok
    IN  /\ Calling
        /\ IF ok
           THEN /\ op' = [call |-> "Create", name |-> n, hdr |-> a.hdr]
                /\ pending' = <<<<header[1], Header(a.hdr)>>>> \o back.writes
                                 \o <<<<MapData, Bits(a.map)>>>>
                /\ dirHdr' = back.hdr
                /\ expanded' = (expanded \/ Len(added) > Len(Table))
           ELSE /\ op' = NoOperation
                /\ UNCHANGED <<pending, dirHdr, expanded>>
        /\ UNCHANGED <<disk, files, torn, misread>>

(* Nachos ends and starts again: FileSystem(FALSE) opens the two system    *)
(* files, and the addresses of pointer blocks are those of another run.    *)
Restart ==
    /\ disk' = [s \in SectorNumber |->
                  IF disk[s].kind = "header" /\ disk[s].hdr.pointer # <<>>
                  THEN [disk[s] EXCEPT !.dangling = TRUE] ELSE disk[s]]
    /\ dirHdr' = disk[DirectorySector].hdr
    /\ pending' = <<>>
    /\ op' = NoOperation

(* Mutant of RemoveFile: the header block is not returned. *)
RemoveFileKeepsHeader(n) ==
    LET i == FindIndex(Table, n)
        h == disk[Table[i].sector].hdr
    IN  /\ Calling
        /\ i # 0 /\ SectorsOf(h) \subseteq FreeMap
        /\ op' = [call |-> "Remove", name |-> n]
        /\ pending' = <<<<MapData, Bits(Deallocate(FreeMap, h))>>>>
                         \o DirectoryWriteBack([Table EXCEPT ![i] = NoEntry]).writes
        /\ UNCHANGED <<disk, dirHdr, files, torn, expanded, misread>>

(* FileSystem::Remove, up to its first write.  It takes what the sector of  *)
(* the entry holds for a header, and follows its pointers; if it holds      *)
(* something else, or the pointers are those of an earlier run, what is     *)
(* deallocated may be anything, and the model ends.  Deallocate asserts     *)
(* that the sectors are marked, which -1 never is.                          *)
RemoveFile(n) ==
    LET i == FindIndex(Table, n)
        s == Table[i].sector
        h == disk[s].hdr
        readable == disk[s].kind = "header" /\ ~disk[s].dangling
        marked == SectorsOf(h) \subseteq FreeMap
    IN  /\ Calling
        /\ \/ /\ i = 0
              /\ op' = NoOperation
              /\ UNCHANGED <<disk, dirHdr, pending, misread>>
           \/ /\ i # 0 /\ ~readable
              /\ misread' = TRUE
              /\ UNCHANGED <<disk, dirHdr, pending, op>>
           \/ /\ i # 0 /\ readable /\ ~marked
              /\ Restart
              /\ UNCHANGED misread
           \/ /\ i # 0 /\ readable /\ marked
              /\ op' = [call |-> "Remove", name |-> n]
              /\ pending' = <<<<MapData, Bits(Deallocate(FreeMap, h) \ {s})>>>>
                               \o DirectoryWriteBack([Table EXCEPT ![i] = NoEntry]).writes
              /\ UNCHANGED <<disk, dirHdr, misread>>
        /\ UNCHANGED <<files, torn, expanded>>

(* SynchDisk::WriteSector returned; after the last one the operation does. *)
WriteSector ==
    /\ ~Idle
    /\ disk' = [disk EXCEPT ![Head(pending)[1]] = Head(pending)[2]]
    /\ pending' = Tail(pending)
    /\ files' = CASE Len(pending) > 1 -> files
                  [] Len(pending) = 1 /\ op.call = "Create" ->
                       [m \in DOMAIN files \cup {op.name} |->
                          IF m = op.name THEN op.hdr ELSE files[m]]
                  [] OTHER -> [m \in DOMAIN files \ {op.name} |-> files[m]]
    /\ UNCHANGED <<dirHdr, op, torn, expanded, misread, calls>>

(* Nachos stops.  Of an operation, the last NumDirEntries writes are the    *)
(* ones after the first of the directory and the map.                       *)
Crash ==
    /\ ~misread /\ calls < MaxCalls /\ calls' = calls + 1
    /\ torn' = (torn \/ Len(pending) \in 1..NumDirEntries)
    /\ Restart
    /\ UNCHANGED <<files, expanded, misread>>

FileSystemNext ==
    \/ \E n \in Name, size \in CreateSize : CreateFile(n, size)
    \/ \E n \in Name : RemoveFile(n)
    \/ WriteSector
    \/ Crash

-----------------------------------------------------------------------------
(* The sectors of the file of a directory entry, its header included; -1    *)
(* stands for one that Allocate did not get.                                *)
Owned(i) == ({Table[i].sector} \cup SectorsOf(disk[Table[i].sector].hdr)) \ {-1}

Tidy == ~torn /\ ~expanded

(* Between operations the map marks exactly the sectors in use, and no two  *)
(* files share one: Create and Remove neither leak nor lend a sector, also  *)
(* when the disk is full and a file got fewer than it asked for.  A crash   *)
(* keeps this unless it falls between directory and map, and no operation   *)
(* frees a sector of the map, of the directory or of their headers, unless  *)
(* a Remove reads a header where there is none.                             *)
MapExact ==
    /\ SystemFiles \subseteq FreeMap
    /\ Tidy /\ Idle =>
          /\ \A i \in InUse(Table) : disk[Table[i].sector].kind = "header"
          /\ FreeMap = SystemFiles \cup UNION {Owned(i) : i \in InUse(Table)}
          /\ \A i, j \in InUse(Table) : i # j => Owned(i) \cap Owned(j) = {}

(* A file whose creation returned is found, with the header it was given,   *)
(* until its removal starts, also in the middle of an operation on another  *)
(* file and after a crash in it; only its pointer blocks do not outlive     *)
(* the run.                                                                 *)
FilesSurvive ==
    Tidy => \A n \in DOMAIN files :
        \/ ~Idle /\ op.name = n
        \/ LET i == FindIndex(Table, n)
               d == disk[Table[i].sector]
           IN  i # 0 /\ d.kind = "header" /\ d.hdr = files[n]
=============================================================================
