----------------------------- MODULE OpenFiles ------------------------------
(***************************************************************************)
(* The open files of the processes: SysOpenFileManager                     *)
(* (filesys/SysOpenFile.cc), the file table of each PCB (userprog/PCB.cc)  *)
(* and the system calls Open, Close, Read and Write of                     *)
(* userprog/exception.cc.  fm_lock protects each call of the manager; the  *)
(* calls wait for the disk in FileSystem::Open and under the lock of a     *)
(* SysOpenFile, and there other processes run.  The bytes of Read and      *)
(* Write are those of UserBuffer.                                          *)
(***************************************************************************)
EXTENDS Integers, FiniteSets, Sequences

CONSTANTS
    Proc,
    FileName,           \* files that exist
    TableSize,          \* SOFILETABLE_SIZE: 128
    MaxUserFiles,       \* MAX_USER_FILES: 32
    MaxOpens, MaxIO     \* calls of Open, of Read and Write (bounds of the model)

ASSUME OpenFilesAssumption ==
    /\ TableSize \in Nat /\ MaxUserFiles \in Nat
    /\ IsFiniteSet(Proc) /\ "free" \notin Proc

VARIABLES
    timeSlices,     \* nachos -rs
    table,          \* sysOpenFileTable, NoFile where the bit is clear
    files,          \* openFiles of each PCB, NoFile where the bit is clear
    where,          \* where in a system call a process is
    call,           \* its local variables: [name], [index, serial], ...
    spans,          \* what was written through each SysOpenFile: <<start, size>>
    opens, io,      \* calls so far
    lost,           \* a process ended, or had no slot for, a file it opened
    crashed         \* an assertion or an access to a deleted object

tableVars == <<timeSlices, table, files, where, call, spans, opens, io, lost, crashed>>

NoFile == [userOpens |-> 0]
Index == 0..(TableSize - 1)
Slot == 0..(MaxUserFiles - 1)
Marks(f) == {i \in DOMAIN f : f[i] # NoFile}

OpenFilesInit ==
    /\ timeSlices \in BOOLEAN
    /\ table = [i \in Index |-> NoFile]
    /\ files = [p \in Proc |-> [s \in Slot |-> NoFile]]
    /\ where = [p \in Proc |-> "user"]
    /\ call = [p \in Proc |-> NoFile]
    /\ spans = <<>>
    /\ opens = 0 /\ io = 0
    /\ lost = FALSE /\ crashed = FALSE

-----------------------------------------------------------------------------
(* The places where a process waits for the disk or for a lock. *)
Waiting == {"user", "exited", "open", "lock", "read", "write"}
Runs(p) == ~crashed /\ (timeSlices \/ \A q \in Proc \ {p} : where[q] \in Waiting)

Lowest(S) == CHOOSE i \in S : \A j \in S : i <= j

(* SysOpenFileManager::Get(fileName): the search stops at a clear bit. *)
Get(n) == {i \in Index : table[i] # NoFile /\ table[i].name = n
                           /\ \A j \in 0..i : table[j] # NoFile}

(* PCB::AddFile; the file is forgotten if there is no slot. *)
AddFile(p, n, i) ==
    LET free == Slot \ Marks(files[p])
    IN  /\ files' = IF free = {} THEN files
                    ELSE [files EXCEPT ![p][Lowest(free)] =
                            [name |-> n, index |-> i, offset |-> 0]]
        /\ lost' = (lost \/ free = {})

Open(p, n) ==
    /\ where[p] = "user" /\ Runs(p) /\ opens < MaxOpens
    /\ opens' = opens + 1
    /\ IF Get(n) = {}
       THEN /\ where' = [where EXCEPT ![p] = "open"]
            /\ call' = [call EXCEPT ![p] = [name |-> n]]
       ELSE /\ where' = [where EXCEPT ![p] = "share"]
            /\ call' = [call EXCEPT ![p] =
                  [name |-> n, index |-> Lowest(Get(n)), serial |-> table[Lowest(Get(n))].serial]]
    /\ UNCHANGED <<timeSlices, table, files, spans, io, lost, crashed>>

(* userOpens++ without fm_lock, through the pointer Get returned. *)
OpenShare(p) ==
    LET i == call[p].index
        valid == table[i] # NoFile /\ table[i].serial = call[p].serial
    IN  /\ where[p] = "share" /\ Runs(p)
        /\ table' = IF valid THEN [table EXCEPT ![i].userOpens = @ + 1] ELSE table
        /\ crashed' = ~valid
        /\ AddFile(p, call[p].name, i)
        /\ where' = [where EXCEPT ![p] = "user"]
        /\ UNCHANGED <<timeSlices, call, spans, opens, io>>

(* FileSystem::Open has returned; SysOpenFileManager::Add. *)
OpenAdd(p) ==
    LET free == Index \ Marks(table)
        i == IF free = {} THEN -1 ELSE Lowest(free)
    IN  /\ where[p] = "open" /\ Runs(p)
        /\ table' = IF i = -1 THEN table
                    ELSE [table EXCEPT ![i] =
                            [name |-> call[p].name, userOpens |-> 1, lock |-> "free",
                             seekPosition |-> 0, serial |-> Len(spans) + 1]]
        /\ spans' = IF i = -1 THEN spans ELSE Append(spans, <<>>)
        /\ AddFile(p, call[p].name, i)
        /\ where' = [where EXCEPT ![p] = "user"]
        /\ UNCHANGED <<timeSlices, call, opens, io, crashed>>

(* The search of Close, Read and Write for a FileID: it looks up the index  *)
(* of every file of the process until one fits, and may meet one that is    *)
(* not in the table.                                                        *)
Bad(p, s) == files[p][s].index = -1 \/ table[files[p][s].index] = NoFile
Fits(p, s, i) == files[p][s].index = i

SlotOf(p, i) ==
    LET stop == {s \in Marks(files[p]) : Bad(p, s) \/ Fits(p, s, i)}
    IN  IF stop = {} THEN [slot |-> -1, bad |-> FALSE]
        ELSE [slot |-> Lowest(stop), bad |-> Bad(p, Lowest(stop))]

(* Mutant of Close: the entry goes with the first close. *)
CloseFrees(p, i) ==
    LET found == SlotOf(p, i)
    IN  /\ where[p] = "user" /\ Runs(p) /\ found.slot # -1 /\ ~found.bad
        /\ files' = [files EXCEPT ![p][found.slot] = NoFile]
        /\ table' = [table EXCEPT ![i] = NoFile]
        /\ UNCHANGED <<timeSlices, where, call, spans, opens, io, lost, crashed>>

(* myClose, PCB::CloseFile and SysOpenFileManager::Close. *)
Close(p, i) ==
    LET found == SlotOf(p, i)
    IN  /\ where[p] = "user" /\ Runs(p) /\ found.slot # -1
        /\ crashed' = found.bad
        /\ IF found.bad THEN UNCHANGED <<table, files>>
           ELSE /\ files' = [files EXCEPT ![p][found.slot] = NoFile]
                /\ table' = IF table[i].userOpens = 1 THEN [table EXCEPT ![i] = NoFile]
                            ELSE [table EXCEPT ![i].userOpens = @ - 1]
        /\ UNCHANGED <<timeSlices, where, call, spans, opens, io, lost>>

(* ReadHandler and WriteHandler up to the lock of the SysOpenFile. *)
Transfer(p, i, size, write) ==
    LET found == SlotOf(p, i)
    IN  /\ where[p] = "user" /\ Runs(p) /\ io < MaxIO /\ found.slot # -1
        /\ io' = io + 1
        /\ crashed' = found.bad
        /\ IF found.bad THEN UNCHANGED <<where, call>>
           ELSE /\ where' = [where EXCEPT ![p] = "lock"]
                /\ call' = [call EXCEPT ![p] =
                      [index |-> i, slot |-> found.slot, size |-> size, write |-> write]]
        /\ UNCHANGED <<timeSlices, table, files, spans, opens, lost>>

(* The transfer starts at the position of the SysOpenFile. *)
Positioned(p) ==
    LET c == call[p]
    IN  [index |-> c.index, slot |-> c.slot, size |-> c.size, write |-> c.write,
         position |-> table[c.index].seekPosition]

(* Mutant of Acquire: nobody waits. *)
AcquireAtOnce(p) ==
    /\ where[p] = "lock" /\ Runs(p)
    /\ table' = [table EXCEPT ![call[p].index].lock = p]
    /\ where' = [where EXCEPT ![p] = IF call[p].write THEN "write" ELSE "read"]
    /\ call' = [call EXCEPT ![p] = Positioned(p)]
    /\ UNCHANGED <<timeSlices, files, spans, opens, io, lost, crashed>>

(* Acquire; OpenFile::Write starts at the position all processes share. *)
Acquire(p) ==
    LET i == call[p].index
    IN  /\ where[p] = "lock" /\ Runs(p)
        /\ table[i].lock = "free"
        /\ table' = [table EXCEPT ![i].lock = p]
        /\ where' = [where EXCEPT ![p] = IF call[p].write THEN "write" ELSE "read"]
        /\ call' = [call EXCEPT ![p] = Positioned(p)]
        /\ UNCHANGED <<timeSlices, files, spans, opens, io, lost, crashed>>

(* OpenFile::Write moves the position by the bytes WriteAt wrote, which may *)
(* be fewer than asked for (OpenFile); the offset of the process by all.    *)
WriteDone(p) ==
    LET i == call[p].index
        c == call[p]
    IN  /\ where[p] = "write" /\ Runs(p)
        /\ \E n \in 0..c.size :
              /\ table' = [table EXCEPT ![i].lock = "free", ![i].seekPosition = c.position + n]
              /\ spans' = [spans EXCEPT ![table[i].serial] = Append(@, <<c.position, n>>)]
        /\ files' = [files EXCEPT ![p][c.slot].offset = @ + c.size]
        /\ where' = [where EXCEPT ![p] = "user"]
        /\ call' = [call EXCEPT ![p] = NoFile]
        /\ UNCHANGED <<timeSlices, opens, io, lost, crashed>>

(* ReadAt of the offset of this process; the offset stays. *)
ReadDone(p) ==
    /\ where[p] = "read" /\ Runs(p)
    /\ table' = [table EXCEPT ![call[p].index].lock = "free"]
    /\ where' = [where EXCEPT ![p] = "user"]
    /\ call' = [call EXCEPT ![p] = NoFile]
    /\ UNCHANGED <<timeSlices, files, spans, opens, io, lost, crashed>>

(* MyExit closes no file. *)
ExitOpen(p) ==
    /\ where[p] = "user" /\ Runs(p)
    /\ where' = [where EXCEPT ![p] = "exited"]
    /\ lost' = (lost \/ Marks(files[p]) # {})
    /\ files' = [files EXCEPT ![p] = [s \in Slot |-> NoFile]]
    /\ UNCHANGED <<timeSlices, table, call, spans, opens, io, crashed>>

OpenFilesNext ==
    \E p \in Proc :
        \/ \E n \in FileName : Open(p, n)
        \/ OpenShare(p) \/ OpenAdd(p)
        \/ \E i \in Index : Close(p, i) \/ \E w \in BOOLEAN : Transfer(p, i, 1, w)
        \/ Acquire(p) \/ WriteDone(p) \/ ReadDone(p)
        \/ ExitOpen(p)

OpenFilesSpec == OpenFilesInit /\ [][OpenFilesNext]_tableVars

-----------------------------------------------------------------------------
Users(i) == {u \in Proc \X Slot : LET f == files[u[1]][u[2]]
                                  IN  f # NoFile /\ f.index = i}

(* The index a process keeps for an open file stays the index of that file  *)
(* until the process closes it, whatever the others open and close; it is   *)
(* -1 only for a file opened while the table was full.  userOpens counts    *)
(* the opens not yet closed, so that the last Close and no other frees the  *)
(* entry, as long as no process ended with a file open and none ran out of  *)
(* slots.                                                                   *)
FilesResolve ==
    ~timeSlices =>
        /\ \A p \in Proc : \A s \in Marks(files[p]) :
              LET f == files[p][s]
              IN  f.index # -1 =>
                     table[f.index] # NoFile /\ table[f.index].name = f.name
        /\ ~lost => \A i \in Marks(table) :
                       table[i].userOpens = Cardinality(Users(i))

(* No two writes through one SysOpenFile overlap, whatever processes made   *)
(* them: the lock covers reading the position, the write and moving it.     *)
WritesApart ==
    \A e \in DOMAIN spans : \A j, k \in DOMAIN spans[e] :
        j < k => spans[e][j][1] + spans[e][j][2] <= spans[e][k][1]

(* The inductive invariant behind these: what the tables hold, ... *)
SysOpenFile == [name : FileName, userOpens : Nat \ {0}, lock : Proc \cup {"free"},
                seekPosition : Nat, serial : Nat \ {0}]
UserOpenFile == [name : FileName, index : Index \cup {-1}, offset : Nat]
Transfers == [index : Index, slot : Slot, size : Nat, write : BOOLEAN]
TransfersAt == [index : Index, slot : Slot, size : Nat, write : BOOLEAN, position : Nat]

OFTypeOK ==
    /\ table \in [Index -> SysOpenFile \cup {NoFile}]
    /\ files \in [Proc -> [Slot -> UserOpenFile \cup {NoFile}]]
    /\ where \in [Proc -> {"user", "exited", "open", "share", "lock", "read", "write"}]
    /\ spans \in Seq(Seq(Nat \X Nat))
    /\ DOMAIN call = Proc
    /\ \A p \in Proc :
          /\ where[p] = "open" => call[p] \in [name : FileName]
          /\ where[p] = "share" => call[p] \in [name : FileName, index : Index, serial : Nat \ {0}]
          /\ where[p] = "lock" => call[p] \in Transfers
          /\ where[p] \in {"read", "write"} => call[p] \in TransfersAt

(* ... every index of a process is that of the file in the table, ... *)
Resolved ==
    \A p \in Proc : \A s \in Marks(files[p]) :
        LET f == files[p][s]
        IN  f.index # -1 => table[f.index] # NoFile /\ table[f.index].name = f.name

(* ... userOpens counts no less than the opens not yet closed, ... *)
Counted ==
    \A i \in Marks(table) : /\ Cardinality(Users(i)) <= table[i].userOpens
                            /\ ~lost => table[i].userOpens = Cardinality(Users(i))

(* ... no two objects share what was written, and what was written lies     *)
(* before the position, ...                                                 *)
Positions ==
    \A i \in Marks(table) :
        /\ table[i].serial \in DOMAIN spans
        /\ \A j \in Marks(table) : table[i].serial = table[j].serial => i = j
        /\ \A k \in DOMAIN spans[table[i].serial] :
              LET w == spans[table[i].serial][k] IN w[1] + w[2] <= table[i].seekPosition

(* ... and what a system call read before it waited is still true: a        *)
(* transfer has its file open and, under the lock, its position; ...        *)
TransferSound(p) ==
    LET c == call[p]
    IN  /\ where[p] \in {"lock", "read", "write"} =>
              files[p][c.slot] # NoFile /\ files[p][c.slot].index = c.index
        /\ where[p] \in {"read", "write"} =>
              table[c.index].lock = p /\ table[c.index].seekPosition = c.position

(* ... Open has the object it found, unless that was deleted. *)
ShareSound(p) ==
    LET c == call[p]
        same == table[c.index] # NoFile /\ table[c.index].serial = c.serial
    IN  where[p] = "share" =>
            /\ c.serial \in DOMAIN spans
            /\ same => table[c.index].name = c.name
            /\ ~timeSlices => same /\ \A q \in Proc \ {p} : where[q] \in Waiting

CallsSound == \A p \in Proc : TransferSound(p) /\ ShareSound(p)

OFInv ==
    /\ OFTypeOK /\ WritesApart
    /\ ~crashed \/ ~timeSlices => Resolved /\ Counted /\ Positions /\ CallsSound
=============================================================================
