-------------------------- MODULE SystemCallProofs --------------------------
(***************************************************************************)
(* Proofs about the system calls: OpenFiles for any number of processes,   *)
(* files, slots and calls.                                                 *)
(***************************************************************************)
EXTENDS OpenFiles, FiniteSetTheorems, SequenceTheorems, WellFoundedInduction, TLAPS

(* The lowest number of a set that is not empty is one of its members. *)
LEMMA LowestIs ==
    ASSUME NEW S, S \subseteq Nat, S # {}
    PROVE  Lowest(S) \in S
  <1> DEFINE R == OpToRel(<, Nat)
  <1>1. IsWellFoundedOn(R, Nat)
    BY NatLessThanWellFounded, Zenon
  <1>2. \A k, m \in Nat : k < m => <<k, m>> \in R
    BY Zenon DEF OpToRel
  <1> HIDE DEF R
  <1>3. PICK m \in S : \A k \in S : ~ (<<k, m>> \in R)
    BY <1>1, WFMin, Zenon
  <1>4. ASSUME NEW k \in S PROVE m <= k
    <2>1. k \in Nat /\ m \in Nat
      BY Zenon
    <2>2. ~ (k < m)
      BY <1>2, <1>3, <2>1, Zenon
    <2>3. QED
      BY <2>1, <2>2
  <1>5. QED
    BY <1>4, Zenon DEF Lowest

(* An entry in use is not NoFile. *)
LEMMA InUse ==
    /\ \A f \in SysOpenFile : f # NoFile
    /\ \A f \in UserOpenFile : f # NoFile
  BY DEF SysOpenFile, UserOpenFile, NoFile

LEMMA IndexType == Index \subseteq Nat /\ Slot \subseteq Nat /\ -1 \notin Index
  BY OpenFilesAssumption DEF Index, Slot

-----------------------------------------------------------------------------
(* How many slots of all processes name an index. *)
LEMMA UsersFinite ==
    \A i : /\ IsFiniteSet(Users(i)) /\ Cardinality(Users(i)) \in Nat
           /\ Users(i) \subseteq Proc \X Slot
           /\ Users(i) # {} => Cardinality(Users(i)) >= 1
  <1>1. IsFiniteSet(Slot)
    BY OpenFilesAssumption, FS_Interval DEF Slot
  <1>2. IsFiniteSet(Proc \X Slot)
    BY <1>1, OpenFilesAssumption, FS_Product, Zenon
  <1>3. ASSUME NEW i PROVE Users(i) \subseteq Proc \X Slot /\ IsFiniteSet(Users(i))
    BY <1>2, FS_Subset, Zenon DEF Users
  <1>4. ASSUME NEW i
        PROVE  Cardinality(Users(i)) \in Nat /\ (Users(i) # {} => Cardinality(Users(i)) >= 1)
    <2>1. Cardinality(Users(i)) \in Nat
      BY <1>3, FS_CardinalityType, Zenon
    <2>2. Cardinality(Users(i)) = 0 <=> Users(i) = {}
      BY <1>3, FS_EmptySet, Zenon
    <2>3. QED
      BY <2>1, <2>2
  <1>5. QED
    BY <1>3, <1>4, Zenon

(* A file joins a slot that was clear. *)
LEMMA UsersAdd ==
    ASSUME OFTypeOK, NEW p \in Proc, NEW s \in Slot, NEW f \in UserOpenFile,
           files[p][s] = NoFile, files' = [files EXCEPT ![p][s] = f], NEW j
    PROVE  /\ j = f.index => Cardinality(Users(j)') = Cardinality(Users(j)) + 1
           /\ j # f.index => Users(j)' = Users(j)
  <1>1. /\ files'[p][s] = f
        /\ \A q \in Proc, r \in Slot : q # p \/ r # s => files'[q][r] = files[q][r]
    BY Zenon DEF OFTypeOK
  <1>2. f # NoFile
    BY InUse, Zenon
  <1>3. CASE j = f.index
    <2>1. Users(j)' = Users(j) \cup {<<p, s>>} /\ <<p, s>> \notin Users(j)
      BY <1>1, <1>2, <1>3 DEF Users
    <2>2. QED
      BY <1>3, <2>1, UsersFinite, FS_AddElement, Zenon
  <1>4. CASE j # f.index
    BY <1>1, <1>2, <1>4 DEF Users
  <1>5. QED
    BY <1>3, <1>4, Zenon

(* A file leaves its slot. *)
LEMMA UsersRemove ==
    ASSUME OFTypeOK, NEW p \in Proc, NEW s \in Slot, files[p][s] # NoFile,
           files' = [files EXCEPT ![p][s] = NoFile], NEW j
    PROVE  /\ j = files[p][s].index => Cardinality(Users(j)') = Cardinality(Users(j)) - 1
           /\ j # files[p][s].index => Users(j)' = Users(j)
  <1>1. /\ files'[p][s] = NoFile
        /\ \A q \in Proc, r \in Slot : q # p \/ r # s => files'[q][r] = files[q][r]
    BY Zenon DEF OFTypeOK
  <1>3. CASE j = files[p][s].index
    <2>1. Users(j)' = Users(j) \ {<<p, s>>} /\ <<p, s>> \in Users(j)
      BY <1>1, <1>3 DEF Users
    <2>2. Cardinality(Users(j) \ {<<p, s>>}) = Cardinality(Users(j)) - 1
      <3>1. IsFiniteSet(Users(j))
        BY UsersFinite, Zenon
      <3>2. QED
        BY <2>1, <3>1, FS_RemoveElement, Zenon
    <2>3. QED
      BY <1>3, <2>1, <2>2, Zenon
  <1>4. CASE j # files[p][s].index
    BY <1>1, <1>4 DEF Users
  <1>5. QED
    BY <1>3, <1>4, Zenon

(* PCB::AddFile fills a clear slot, or loses the file. *)
LEMMA AddFileFills ==
    ASSUME OFTypeOK, NEW p \in Proc, NEW n \in FileName, NEW i \in Index \cup {-1},
           AddFile(p, n, i)
    PROVE  /\ [name |-> n, index |-> i, offset |-> 0] \in UserOpenFile
           /\ \/ files' = files /\ lost'
              \/ /\ ~lost' => ~lost
                 /\ \E s \in Slot :
                      /\ files[p][s] = NoFile
                      /\ files' = [files EXCEPT ![p][s] =
                                     [name |-> n, index |-> i, offset |-> 0]]
  <1> DEFINE free == Slot \ Marks(files[p])
  <1>1. [name |-> n, index |-> i, offset |-> 0] \in UserOpenFile
    BY Zenon DEF UserOpenFile
  <1>2. CASE free = {}
    BY <1>1, <1>2, Zenon DEF AddFile
  <1>3. CASE free # {}
    <2>1. Lowest(free) \in free
      BY <1>3, LowestIs, IndexType, Zenon
    <2>2. files[p][Lowest(free)] = NoFile
      BY <2>1, Zenon DEF Marks, OFTypeOK
    <2>3. files' = [files EXCEPT ![p][Lowest(free)] = [name |-> n, index |-> i, offset |-> 0]]
      BY <1>3, Zenon DEF AddFile
    <2>4. ~lost' => ~lost
      BY <1>3, Zenon DEF AddFile
    <2>5. QED
      BY <1>1, <2>1, <2>2, <2>3, <2>4, Zenon
  <1>4. QED
    BY <1>2, <1>3, Zenon

LEMMA FilesTyped ==
    ASSUME OFTypeOK, NEW p \in Proc, NEW s \in Slot, NEW f \in UserOpenFile \cup {NoFile},
           files' = [files EXCEPT ![p][s] = f]
    PROVE  files' \in [Proc -> [Slot -> UserOpenFile \cup {NoFile}]]
  BY Zenon DEF OFTypeOK

(* The slot that Close, Read and Write find. *)
LEMMA SlotOfFits ==
    ASSUME OFTypeOK, NEW p \in Proc, NEW i \in Index,
           SlotOf(p, i).slot # -1, ~SlotOf(p, i).bad
    PROVE  LET s == SlotOf(p, i).slot
           IN  s \in Slot /\ files[p][s] # NoFile /\ files[p][s].index = i /\ table[i] # NoFile
  <1> DEFINE stop == {s \in Marks(files[p]) : Bad(p, s) \/ Fits(p, s, i)}
  <1>1. stop # {} /\ SlotOf(p, i) = [slot |-> Lowest(stop), bad |-> Bad(p, Lowest(stop))]
    BY Zenon DEF SlotOf
  <1>2. stop \subseteq Slot
    BY Zenon DEF OFTypeOK, Marks
  <1>3. Lowest(stop) \in stop
    BY <1>1, <1>2, LowestIs, IndexType, Zenon
  <1>4. SlotOf(p, i).slot = Lowest(stop) /\ ~Bad(p, Lowest(stop))
    BY <1>1
  <1>5. QED
    BY <1>2, <1>3, <1>4, Zenon DEF Marks, Bad, Fits

-----------------------------------------------------------------------------
(* The invariant holds in the beginning, ... *)
LEMMA OFInitInv == OpenFilesInit => OFInv
  <1> SUFFICES ASSUME OpenFilesInit PROVE OFInv
    BY Zenon
  <1>1. OFTypeOK
    BY EmptySeq, Zenon DEF OpenFilesInit, OFTypeOK
  <1>2. Marks(table) = {} /\ \A p \in Proc : Marks(files[p]) = {}
    BY Zenon DEF OpenFilesInit, Marks
  <1>3. WritesApart
    BY EmptySeq DEF OpenFilesInit, WritesApart
  <1>4. Resolved /\ Counted /\ Positions
    BY <1>2, Zenon DEF Resolved, Counted, Positions
  <1>5. CallsSound
    BY Zenon DEF OpenFilesInit, CallsSound, TransferSound, ShareSound
  <1>6. QED
    BY <1>1, <1>3, <1>4, <1>5, Zenon DEF OFInv

(* What the invariant says where a process runs. *)
LEMMA Running ==
    ASSUME OFInv, NEW p \in Proc, Runs(p)
    PROVE  /\ OFTypeOK /\ WritesApart /\ Resolved /\ Counted /\ Positions /\ CallsSound
           /\ \A q \in Proc \ {p} : where[q] = "share" => timeSlices
  <1>1. ~crashed
    BY Zenon DEF Runs
  <1>2. \A q \in Proc \ {p} : where[q] = "share" => timeSlices
    BY Zenon DEF Runs, Waiting
  <1>3. QED
    BY <1>1, <1>2, Zenon DEF OFInv

(* Open takes the index and the serial number of the object it found. *)
LEMMA OpenKeeps ==
    ASSUME OFInv, NEW p \in Proc, NEW n \in FileName, Open(p, n)
    PROVE  OFInv'
  <1>0. /\ OFTypeOK /\ WritesApart /\ Resolved /\ Counted /\ Positions /\ CallsSound
        /\ \A q \in Proc \ {p} : where[q] = "share" => timeSlices
    BY Running, Zenon DEF Open
  <1>1. UNCHANGED <<timeSlices, table, files, spans, io, lost, crashed>>
    BY Zenon DEF Open
  <1>2. WritesApart' /\ Resolved' /\ Counted' /\ Positions'
    BY <1>0, <1>1 DEF WritesApart, Resolved, Counted, Positions, Users, Marks
  <1>3. CASE Get(n) = {}
    <2>1. /\ where' = [where EXCEPT ![p] = "open"]
          /\ call' = [call EXCEPT ![p] = [name |-> n]]
      BY <1>3, Zenon DEF Open
    <2>2. /\ where'[p] = "open" /\ call'[p] = [name |-> n] /\ call'[p] \in [name : FileName]
          /\ \A q \in Proc \ {p} : where'[q] = where[q] /\ call'[q] = call[q]
      BY <1>0, <2>1, Zenon DEF OFTypeOK
    <2>3. OFTypeOK'
      BY <1>0, <1>1, <2>1, <2>2, Zenon DEF OFTypeOK
    <2>4. CallsSound'
      BY <1>0, <1>1, <2>2 DEF CallsSound, TransferSound, ShareSound, Waiting
    <2>5. QED
      BY <1>2, <2>3, <2>4, Zenon DEF OFInv
  <1>4. CASE Get(n) # {}
    <2> DEFINE i == Lowest(Get(n))
    <2>1. /\ where' = [where EXCEPT ![p] = "share"]
          /\ call' = [call EXCEPT ![p] = [name |-> n, index |-> i, serial |-> table[i].serial]]
      BY <1>4, Zenon DEF Open
    <2>2. i \in Index /\ table[i] # NoFile /\ table[i].name = n
      <3>1. i \in Get(n)
        BY <1>4, LowestIs, IndexType, Zenon DEF Get
      <3>2. QED
        BY <3>1, Zenon DEF Get
    <2>3. table[i] \in SysOpenFile /\ i \in Marks(table)
      BY <1>0, <2>2, Zenon DEF OFTypeOK, Marks
    <2> HIDE DEF i
    <2>4. table[i].serial \in Nat \ {0} /\ table[i].serial \in DOMAIN spans
      BY <1>0, <2>3, Zenon DEF Positions, SysOpenFile
    <2>5. /\ where'[p] = "share"
          /\ call'[p] = [name |-> n, index |-> i, serial |-> table[i].serial]
          /\ call'[p] \in [name : FileName, index : Index, serial : Nat \ {0}]
          /\ \A q \in Proc \ {p} : where'[q] = where[q] /\ call'[q] = call[q]
      BY <1>0, <2>1, <2>2, <2>4, Zenon DEF OFTypeOK
    <2>6. OFTypeOK'
      BY <1>0, <1>1, <2>1, <2>5, Zenon DEF OFTypeOK
    <2>7. ~timeSlices => \A q \in Proc \ {p} : where[q] \in Waiting
      BY Zenon DEF Open, Runs
    <2>8. CallsSound'
      <3>1. ASSUME NEW q \in Proc \ {p}, where[q] = "share" PROVE timeSlices'
        BY <1>0, <1>1, <3>1, Zenon
      <3>2. QED
        BY <1>0, <1>1, <2>2, <2>4, <2>5, <2>7, <3>1 DEF CallsSound, TransferSound, ShareSound
    <2>9. QED
      BY <1>2, <2>6, <2>8, Zenon DEF OFInv
  <1>5. QED
    BY <1>3, <1>4, Zenon

(* A process that waits in Read or Write has its file open. *)
LEMMA TransferHasFile ==
    ASSUME OFTypeOK, Resolved, CallsSound, NEW q \in Proc, where[q] \in {"lock", "read", "write"}
    PROVE  /\ call[q].slot \in Slot /\ call[q].index \in Index
           /\ files[q][call[q].slot] # NoFile /\ files[q][call[q].slot].index = call[q].index
           /\ table[call[q].index] # NoFile /\ table[call[q].index] \in SysOpenFile
  <1>1. call[q].slot \in Slot /\ call[q].index \in Index
    BY Zenon DEF OFTypeOK, Transfers, TransfersAt
  <1>2. files[q][call[q].slot] # NoFile /\ files[q][call[q].slot].index = call[q].index
    BY Zenon DEF CallsSound, TransferSound, ShareSound
  <1>3. call[q].slot \in Marks(files[q]) /\ files[q][call[q].slot].index # -1
    BY <1>1, <1>2, IndexType, Zenon DEF Marks, OFTypeOK
  <1>4. table[call[q].index] # NoFile
    BY <1>2, <1>3, Zenon DEF Resolved
  <1>5. QED
    BY <1>1, <1>2, <1>4, Zenon DEF OFTypeOK

(* Nobody keeps the index of a clear entry. *)
LEMMA NoUsers ==
    ASSUME OFTypeOK, Resolved, NEW j \in Index, table[j] = NoFile
    PROVE  Cardinality(Users(j)) = 0
  <1>1. ASSUME NEW u \in Users(j) PROVE FALSE
    <2>1. /\ u[1] \in Proc /\ u[2] \in Slot /\ files[u[1]][u[2]] # NoFile
          /\ files[u[1]][u[2]].index = j
      BY <1>1, Zenon DEF Users
    <2>2. u[2] \in Marks(files[u[1]])
      BY <2>1, Zenon DEF Marks, OFTypeOK
    <2>3. QED
      BY <2>1, <2>2, IndexType, Zenon DEF Resolved
  <1>2. Users(j) = {}
    BY <1>1, Zenon
  <1>3. QED
    BY <1>2, FS_EmptySet, Zenon

(* One more open of an object, and one less. *)
LEMMA OpensUpdated ==
    ASSUME NEW f \in SysOpenFile, NEW k \in Nat \ {0}
    PROVE  LET g == [f EXCEPT !.userOpens = k]
           IN  /\ g \in SysOpenFile /\ g.userOpens = k /\ g.name = f.name /\ g.lock = f.lock
               /\ g.serial = f.serial /\ g.seekPosition = f.seekPosition
  BY Zenon DEF SysOpenFile

(* A change of userOpens or of the lock moves no position. *)
LEMMA PositionsKept ==
    ASSUME Positions, table \in [Index -> SysOpenFile \cup {NoFile}],
           table' \in [Index -> SysOpenFile \cup {NoFile}], spans' = spans,
           \A j \in Index : table'[j] # NoFile =>
              /\ table[j] # NoFile /\ table'[j].serial = table[j].serial
              /\ table'[j].seekPosition = table[j].seekPosition
    PROVE  Positions'
  <1>1. \A j \in Marks(table)' : j \in Marks(table) /\ j \in Index
    BY Zenon DEF Marks
  <1>2. \A j \in Marks(table)' : table'[j].serial = table[j].serial
                                  /\ table'[j].seekPosition = table[j].seekPosition
    BY <1>1, Zenon DEF Marks
  <1>3. QED
    BY <1>1, <1>2, Zenon DEF Positions

(* userOpens++: by one more user, or by a file that is lost. *)
LEMMA OpenShareKeeps ==
    ASSUME OFInv, NEW p \in Proc, OpenShare(p)
    PROVE  OFInv'
  <1>0. /\ OFTypeOK /\ WritesApart /\ Resolved /\ Counted /\ Positions /\ CallsSound
        /\ \A q \in Proc \ {p} : where[q] = "share" => timeSlices
    BY Running, Zenon DEF OpenShare
  <1> DEFINE i == call[p].index
             n == call[p].name
             valid == table[i] # NoFile /\ table[i].serial = call[p].serial
             new == [name |-> n, index |-> i, offset |-> 0]
  <1>1. /\ where[p] = "share" /\ crashed' = ~valid
        /\ table' = IF valid THEN [table EXCEPT ![i].userOpens = @ + 1] ELSE table
        /\ AddFile(p, n, i) /\ where' = [where EXCEPT ![p] = "user"]
        /\ UNCHANGED <<timeSlices, call, spans, opens, io>>
    BY Zenon DEF OpenShare
  <1>2. i \in Index /\ n \in FileName
    BY <1>0, <1>1, Zenon DEF OFTypeOK
  <1> HIDE DEF i, n
  <1>3. /\ new \in UserOpenFile
        /\ \/ files' = files /\ lost'
           \/ /\ ~lost' => ~lost
              /\ \E s \in Slot : files[p][s] = NoFile /\ files' = [files EXCEPT ![p][s] = new]
    BY <1>0, <1>1, <1>2, AddFileFills
  <1>4. \A q \in Proc, s \in Slot :
           \/ files'[q][s] = files[q][s]
           \/ files[q][s] = NoFile /\ files'[q][s] = new
    BY <1>0, <1>3 DEF OFTypeOK
  <1>5. valid => table[i] \in SysOpenFile
    BY <1>0, <1>2, Zenon DEF OFTypeOK
  <1>6. /\ files' \in [Proc -> [Slot -> UserOpenFile \cup {NoFile}]]
        /\ where' \in [Proc -> {"user", "exited", "open", "share", "lock", "read", "write"}]
        /\ where'[p] = "user" /\ \A q \in Proc \ {p} : where'[q] = where[q]
    <2>1. files' \in [Proc -> [Slot -> UserOpenFile \cup {NoFile}]]
      <3>1. CASE files' = files
        BY <1>0, <3>1, Zenon DEF OFTypeOK
      <3>2. ASSUME NEW s \in Slot, files' = [files EXCEPT ![p][s] = new]
            PROVE  files' \in [Proc -> [Slot -> UserOpenFile \cup {NoFile}]]
        BY <1>0, <1>3, <3>2, Zenon DEF OFTypeOK
      <3>3. QED
        BY <1>3, <3>1, <3>2, Zenon
    <2>2. QED
      BY <1>0, <1>1, <2>1, Zenon DEF OFTypeOK
  <1>7. valid => /\ table'[i] \in SysOpenFile
                 /\ table'[i].userOpens = table[i].userOpens + 1
                 /\ table'[i].name = table[i].name /\ table'[i].lock = table[i].lock
                 /\ table'[i].serial = table[i].serial
                 /\ table'[i].seekPosition = table[i].seekPosition
                 /\ \A j \in Index \ {i} : table'[j] = table[j]
    <2>1. SUFFICES ASSUME valid
                   PROVE  /\ table'[i] \in SysOpenFile
                          /\ table'[i].userOpens = table[i].userOpens + 1
                          /\ table'[i].name = table[i].name /\ table'[i].lock = table[i].lock
                          /\ table'[i].serial = table[i].serial
                          /\ table'[i].seekPosition = table[i].seekPosition
                          /\ \A j \in Index \ {i} : table'[j] = table[j]
      BY Zenon
    <2>2. /\ table'[i] = [table[i] EXCEPT !.userOpens = table[i].userOpens + 1]
          /\ \A j \in Index \ {i} : table'[j] = table[j]
      BY <1>0, <1>1, <1>2, <2>1, Zenon DEF OFTypeOK
    <2>3. table[i] \in SysOpenFile /\ table[i].userOpens + 1 \in Nat \ {0}
      BY <1>5, <2>1 DEF SysOpenFile
    <2>4. QED
      BY <2>2, <2>3, OpensUpdated
  <1>8. table' \in [Index -> SysOpenFile \cup {NoFile}]
    BY <1>0, <1>1, <1>2, <1>7, Zenon DEF OFTypeOK
  <1>9. OFTypeOK'
    BY <1>0, <1>1, <1>6, <1>8, Zenon DEF OFTypeOK
  <1>10. WritesApart'
    BY <1>0, <1>1, Zenon DEF WritesApart
  <1>11. CASE ~valid
    <2>1. timeSlices
      BY <1>0, <1>1, <1>11, Zenon DEF CallsSound, TransferSound, ShareSound, i
    <2>2. QED
      BY <1>1, <1>9, <1>10, <1>11, <2>1, Zenon DEF OFInv
  <1>12. CASE valid
    <2>1. /\ \A j \in Index : table'[j] # NoFile <=> table[j] # NoFile
          /\ \A j \in Index : table[j] # NoFile =>
                /\ table'[j].name = table[j].name /\ table'[j].lock = table[j].lock
                /\ table'[j].serial = table[j].serial
                /\ table'[j].seekPosition = table[j].seekPosition
      BY <1>7, <1>12, InUse, Zenon
    <2>2. table[i].name = n
      BY <1>0, <1>1, <1>12, Zenon DEF CallsSound, TransferSound, ShareSound, i, n
    <2>3. Positions'
      BY <1>0, <1>1, <1>8, <2>1, PositionsKept, Zenon DEF OFTypeOK
    <2>4. Resolved'
      <3>1. ASSUME NEW q \in Proc, NEW s \in Slot, files'[q][s] # NoFile, files'[q][s].index # -1
            PROVE  /\ table'[files'[q][s].index] # NoFile
                   /\ table'[files'[q][s].index].name = files'[q][s].name
        <4>1. CASE files'[q][s] = files[q][s]
          <5>1. files[q][s] \in UserOpenFile /\ s \in Marks(files[q])
            BY <1>0, <3>1, <4>1 DEF OFTypeOK, Marks
          <5>2. files[q][s].index \in Index
            BY <3>1, <4>1, <5>1, Zenon DEF UserOpenFile
          <5>3. QED
            BY <1>0, <2>1, <3>1, <4>1, <5>1, <5>2 DEF Resolved
        <4>2. CASE files'[q][s] = new
          BY <1>2, <1>12, <2>1, <2>2, <4>2
        <4>3. QED
          BY <1>4, <4>1, <4>2, Zenon
      <3>2. QED
        BY <1>6, <3>1 DEF Resolved, Marks
    <2>5. Counted'
      <3>1. ASSUME NEW j \in Index, table'[j] # NoFile
            PROVE  /\ Cardinality(Users(j)') <= table'[j].userOpens
                   /\ ~lost' => table'[j].userOpens = Cardinality(Users(j)')
        <4>1. /\ table[j] \in SysOpenFile /\ Cardinality(Users(j)) <= table[j].userOpens
              /\ ~lost => table[j].userOpens = Cardinality(Users(j))
          BY <1>0, <2>1, <3>1, Zenon DEF OFTypeOK, Counted, Marks
        <4>2. table[j].userOpens \in Nat /\ Cardinality(Users(j)) \in Nat
          BY <4>1, UsersFinite, Zenon DEF SysOpenFile
        <4>3. table'[j].userOpens = IF j = i THEN table[j].userOpens + 1 ELSE table[j].userOpens
          BY <1>7, <1>12, Zenon
        <4>4. CASE files' = files /\ lost'
          <5>1. Users(j)' = Users(j)
            BY <4>4, Zenon DEF Users
          <5>2. QED
            BY <4>1, <4>2, <4>3, <4>4, <5>1
        <4>5. CASE /\ ~lost' => ~lost
                   /\ \E s \in Slot : files[p][s] = NoFile /\ files' = [files EXCEPT ![p][s] = new]
          <5>1. Cardinality(Users(j)') = IF j = i THEN Cardinality(Users(j)) + 1
                                                  ELSE Cardinality(Users(j))
            <6>1. PICK s \in Slot : files[p][s] = NoFile /\ files' = [files EXCEPT ![p][s] = new]
              BY <4>5, Zenon
            <6>2. new.index = i
              BY Zenon
            <6>3. QED
              BY <1>0, <1>3, <6>1, <6>2, UsersAdd, Zenon
          <5>2. QED
            BY <4>1, <4>2, <4>3, <4>5, <5>1
        <4>6. QED
          BY <1>3, <4>4, <4>5, Zenon
      <3>2. QED
        BY <1>8, <3>1, Zenon DEF Counted, Marks
    <2>6. CallsSound'
      <3>1. ASSUME NEW q \in Proc \ {p}, where[q] \in {"lock", "read", "write"}
            PROVE  /\ call[q].slot \in Slot /\ call[q].index \in Index
                   /\ files'[q][call[q].slot] = files[q][call[q].slot]
        BY <1>0, <1>4, <3>1 DEF OFTypeOK, Transfers, TransfersAt, CallsSound, TransferSound, ShareSound
      <3>2. ASSUME NEW q \in Proc \ {p}, where[q] = "share"
            PROVE  call[q].index \in Index /\ timeSlices
        BY <1>0, <3>2, Zenon DEF OFTypeOK
      <3>3. ASSUME NEW q \in Proc \ {p}, where[q] \in {"lock", "read", "write"}
            PROVE  table[call[q].index] # NoFile
        BY <1>0, <3>3, TransferHasFile, Zenon
      <3>4. ASSUME NEW q \in Proc PROVE TransferSound(q)'
        BY <1>0, <1>1, <1>6, <2>1, <3>1, <3>3 DEF CallsSound, TransferSound
      <3>5. ASSUME NEW q \in Proc PROVE ShareSound(q)'
        BY <1>0, <1>1, <1>6, <2>1, <3>2 DEF CallsSound, ShareSound
      <3>6. QED
        BY <3>4, <3>5, Zenon DEF CallsSound
    <2>7. QED
      BY <1>9, <1>10, <2>3, <2>4, <2>5, <2>6, Zenon DEF OFInv
  <1>13. QED
    BY <1>11, <1>12, Zenon

(* SysOpenFileManager::Add: a new object, with nothing written through it. *)
LEMMA OpenAddKeeps ==
    ASSUME OFInv, NEW p \in Proc, OpenAdd(p)
    PROVE  OFInv'
  <1>0. /\ OFTypeOK /\ WritesApart /\ Resolved /\ Counted /\ Positions /\ CallsSound
        /\ \A q \in Proc \ {p} : where[q] = "share" => timeSlices
    BY Running, Zenon DEF OpenAdd
  <1> DEFINE free == Index \ Marks(table)
             i == IF free = {} THEN -1 ELSE Lowest(free)
             n == call[p].name
             entry == [name |-> n, userOpens |-> 1, lock |-> "free",
                       seekPosition |-> 0, serial |-> Len(spans) + 1]
             new == [name |-> n, index |-> i, offset |-> 0]
  <1>1. /\ where[p] = "open"
        /\ table' = IF i = -1 THEN table ELSE [table EXCEPT ![i] = entry]
        /\ spans' = IF i = -1 THEN spans ELSE Append(spans, <<>>)
        /\ AddFile(p, n, i) /\ where' = [where EXCEPT ![p] = "user"]
        /\ UNCHANGED <<timeSlices, call, opens, io, crashed>>
    BY Zenon DEF OpenAdd
  <1>2. i \in Index \cup {-1} /\ (i # -1 => table[i] = NoFile)
    <2>1. CASE free = {}
      BY <2>1, Zenon
    <2>2. CASE free # {}
      <3>1. Lowest(free) \in free
        BY <2>2, LowestIs, IndexType, Zenon
      <3>2. QED
        BY <1>0, <2>2, <3>1, Zenon DEF Marks, OFTypeOK
    <2>3. QED
      BY <2>1, <2>2, Zenon
  <1>3. n \in FileName
    BY <1>0, <1>1, Zenon DEF OFTypeOK
  <1> HIDE DEF i, n
  <1>4. /\ new \in UserOpenFile
        /\ \/ files' = files /\ lost'
           \/ /\ ~lost' => ~lost
              /\ \E s \in Slot : files[p][s] = NoFile /\ files' = [files EXCEPT ![p][s] = new]
    BY <1>0, <1>1, <1>2, <1>3, AddFileFills
  <1>5. \A q \in Proc, s \in Slot :
           \/ files'[q][s] = files[q][s]
           \/ files[q][s] = NoFile /\ files'[q][s] = new
    BY <1>0, <1>4 DEF OFTypeOK
  <1>6. /\ files' \in [Proc -> [Slot -> UserOpenFile \cup {NoFile}]]
        /\ where' \in [Proc -> {"user", "exited", "open", "share", "lock", "read", "write"}]
        /\ where'[p] = "user" /\ \A q \in Proc \ {p} : where'[q] = where[q]
    <2>1. files' \in [Proc -> [Slot -> UserOpenFile \cup {NoFile}]]
      <3>1. CASE files' = files
        BY <1>0, <3>1, Zenon DEF OFTypeOK
      <3>2. ASSUME NEW s \in Slot, files' = [files EXCEPT ![p][s] = new]
            PROVE  files' \in [Proc -> [Slot -> UserOpenFile \cup {NoFile}]]
        BY <1>0, <1>4, <3>2, FilesTyped, Zenon
      <3>3. QED
        BY <1>4, <3>1, <3>2, Zenon
    <2>2. QED
      BY <1>0, <1>1, <2>1, Zenon DEF OFTypeOK
  <1>7. spans \in Seq(Seq(Nat \X Nat)) /\ Len(spans) \in Nat /\ DOMAIN spans = 1..Len(spans)
    BY <1>0, LenProperties, Zenon DEF OFTypeOK
  <1>8. entry \in SysOpenFile
    BY <1>3, <1>7 DEF SysOpenFile
  <1>9. i # -1 => /\ table'[i] = entry /\ \A j \in Index \ {i} : table'[j] = table[j]
                  /\ table' \in [Index -> SysOpenFile \cup {NoFile}]
    BY <1>0, <1>1, <1>2, <1>8, Zenon DEF OFTypeOK
  <1>10. i # -1 => /\ spans' \in Seq(Seq(Nat \X Nat)) /\ DOMAIN spans' = 1..(Len(spans) + 1)
                   /\ \A e \in DOMAIN spans : spans'[e] = spans[e]
                   /\ spans'[Len(spans) + 1] = <<>>
    <2>1. <<>> \in Seq(Nat \X Nat)
      BY EmptySeq, Zenon
    <2>2. /\ Append(spans, <<>>) \in Seq(Seq(Nat \X Nat))
          /\ Len(Append(spans, <<>>)) = Len(spans) + 1
          /\ \A e \in 1..Len(spans) : Append(spans, <<>>)[e] = spans[e]
          /\ Append(spans, <<>>)[Len(spans) + 1] = <<>>
      BY <1>7, <2>1, AppendProperties
    <2>3. DOMAIN Append(spans, <<>>) = 1..(Len(spans) + 1)
      BY <2>2, LenProperties, Zenon
    <2>4. QED
      BY <1>1, <1>7, <2>2, <2>3, Zenon
  <1> HIDE DEF entry, new
  <1>11. OFTypeOK'
    <2>1. table' \in [Index -> SysOpenFile \cup {NoFile}] /\ spans' \in Seq(Seq(Nat \X Nat))
      BY <1>0, <1>1, <1>9, <1>10, Zenon DEF OFTypeOK
    <2>2. QED
      BY <1>0, <1>1, <1>6, <2>1, Zenon DEF OFTypeOK
  <1>12. WritesApart'
    <2>1. CASE i = -1
      BY <1>0, <1>1, <2>1, Zenon DEF WritesApart
    <2>2. CASE i # -1
      <3>1. ASSUME NEW e \in DOMAIN spans', NEW j \in DOMAIN spans'[e], NEW k \in DOMAIN spans'[e], j < k
            PROVE  spans'[e][j][1] + spans'[e][j][2] <= spans'[e][k][1]
        <4>1. CASE e \in DOMAIN spans
          BY <1>0, <1>10, <2>2, <3>1, <4>1, Zenon DEF WritesApart
        <4>2. CASE e = Len(spans) + 1
          BY <1>10, <2>2, <3>1, <4>2, EmptySeq
        <4>3. QED
          BY <1>7, <1>10, <2>2, <4>1, <4>2
      <3>2. QED
        BY <3>1, Zenon DEF WritesApart
    <2>3. QED
      BY <2>1, <2>2, Zenon
  <1>13. /\ \A j \in Index \ {i} : table'[j] = table[j]
         /\ i # -1 => table'[i] = entry /\ table'[i] # NoFile
         /\ i = -1 => table' = table
    BY <1>1, <1>8, <1>9, <1>2, InUse, Zenon
  <1>14. Resolved'
    <2>1. ASSUME NEW q \in Proc, NEW s \in Slot, files'[q][s] # NoFile, files'[q][s].index # -1
          PROVE  /\ table'[files'[q][s].index] # NoFile
                 /\ table'[files'[q][s].index].name = files'[q][s].name
      <3>1. CASE files'[q][s] = files[q][s]
        <4>1. files[q][s] \in UserOpenFile /\ s \in Marks(files[q])
          BY <1>0, <2>1, <3>1 DEF OFTypeOK, Marks
        <4>2. files[q][s].index \in Index
          BY <2>1, <3>1, <4>1, Zenon DEF UserOpenFile
        <4>3. table[files[q][s].index] # NoFile /\ table[files[q][s].index].name = files[q][s].name
          BY <1>0, <2>1, <3>1, <4>1, Zenon DEF Resolved
        <4>4. files[q][s].index # i
          BY <1>2, <2>1, <3>1, <4>3, Zenon
        <4>5. QED
          BY <1>13, <3>1, <4>2, <4>3, <4>4
      <3>2. CASE files'[q][s] = new
        <4>1. new.index = i /\ new.name = n
          BY Zenon DEF new
        <4>2. i # -1 /\ entry.name = n
          BY <2>1, <3>2, <4>1, Zenon DEF entry
        <4>3. QED
          BY <1>13, <3>2, <4>1, <4>2, Zenon
      <3>3. QED
        BY <1>5, <3>1, <3>2, Zenon
    <2>2. QED
      BY <1>6, <2>1 DEF Resolved, Marks
  <1>15. Counted'
    <2>1. ASSUME NEW j \in Index, table'[j] # NoFile
          PROVE  /\ Cardinality(Users(j)') <= table'[j].userOpens
                 /\ ~lost' => table'[j].userOpens = Cardinality(Users(j)')
      <3>1. Cardinality(Users(j)) \in Nat
        BY UsersFinite, Zenon
      <3>2. CASE files' = files /\ lost'
        <4>1. Users(j)' = Users(j)
          BY <3>2, Zenon DEF Users
        <4>2. CASE j = i
          <5>1. Cardinality(Users(j)) = 0
            BY <1>0, <1>2, <4>2, IndexType, NoUsers, Zenon
          <5>2. table'[j].userOpens = 1
            BY <1>13, <4>2, IndexType DEF entry
          <5>3. QED
            BY <3>2, <4>1, <5>1, <5>2
        <4>3. CASE j # i
          BY <1>0, <1>13, <2>1, <3>2, <4>1, <4>3, Zenon DEF Counted, Marks, OFTypeOK
        <4>4. QED
          BY <4>2, <4>3, Zenon
      <3>3. CASE /\ ~lost' => ~lost
                 /\ \E s \in Slot : files[p][s] = NoFile /\ files' = [files EXCEPT ![p][s] = new]
        <4>1. PICK s \in Slot : files[p][s] = NoFile /\ files' = [files EXCEPT ![p][s] = new]
          BY <3>3, Zenon
        <4>2. new.index = i
          BY Zenon DEF new
        <4>3. /\ j = i => Cardinality(Users(j)') = Cardinality(Users(j)) + 1
              /\ j # i => Users(j)' = Users(j)
          BY <1>0, <1>4, <4>1, <4>2, UsersAdd, Zenon
        <4>4. CASE j = i
          <5>1. Cardinality(Users(j)) = 0
            BY <1>0, <1>2, <4>4, IndexType, NoUsers, Zenon
          <5>2. table'[j].userOpens = 1
            BY <1>13, <4>4, IndexType DEF entry
          <5>3. QED
            BY <4>3, <4>4, <5>1, <5>2
        <4>5. CASE j # i
          BY <1>0, <1>13, <2>1, <3>3, <4>3, <4>5, Zenon DEF Counted, Marks, OFTypeOK
        <4>6. QED
          BY <4>4, <4>5, Zenon
      <3>4. QED
        BY <1>4, <3>2, <3>3, Zenon
    <2>2. QED
      BY <1>11, <2>1, Zenon DEF Counted, Marks, OFTypeOK
  <1>16. Positions'
    <2>1. CASE i = -1
      BY <1>0, <1>1, <2>1 DEF Positions, Marks
    <2>2. CASE i # -1
      <3>1. Marks(table)' = Marks(table) \cup {i} /\ i \notin Marks(table) /\ i \in Index
        BY <1>0, <1>2, <1>9, <1>13, <2>2 DEF Marks, OFTypeOK
      <3>2. ASSUME NEW j \in Marks(table)
            PROVE  table'[j] = table[j] /\ table[j].serial \in DOMAIN spans
          /\ spans'[table[j].serial] = spans[table[j].serial]
        BY <1>0, <1>10, <1>13, <2>2, <3>1, Zenon DEF Positions, Marks, OFTypeOK
      <3>3. table'[i].serial = Len(spans) + 1 /\ Len(spans) + 1 \notin DOMAIN spans
            /\ spans'[table'[i].serial] = <<>> /\ DOMAIN <<>> = {}
        BY <1>7, <1>10, <1>13, <2>2, EmptySeq DEF entry
      <3>4. DOMAIN spans' = DOMAIN spans \cup {Len(spans) + 1}
        BY <1>7, <1>10, <2>2
      <3>5. QED
        BY <1>0, <3>1, <3>2, <3>3, <3>4 DEF Positions
    <2>3. QED
      BY <2>1, <2>2, Zenon
  <1>17. CallsSound'
    <2>1. ASSUME NEW q \in Proc \ {p}, where[q] \in {"lock", "read", "write"}
          PROVE  /\ files'[q][call[q].slot] = files[q][call[q].slot]
                 /\ table'[call[q].index] = table[call[q].index]
      BY <1>0, <1>2, <1>5, <1>13, <2>1, TransferHasFile, Zenon
    <2>2. ASSUME NEW q \in Proc \ {p}, where[q] = "share"
          PROVE  /\ call[q].serial \in DOMAIN spans' /\ timeSlices'
                 /\ table'[call[q].index] # NoFile /\ table'[call[q].index].serial = call[q].serial =>
                       table'[call[q].index].name = call[q].name
      <3>1. call[q].index \in Index /\ call[q].serial \in DOMAIN spans /\ timeSlices
        BY <1>0, <2>2, Zenon DEF OFTypeOK, CallsSound, TransferSound, ShareSound
      <3>2. call[q].serial \in DOMAIN spans'
        BY <1>1, <1>7, <1>10, <3>1
      <3>3. CASE call[q].index # i
        BY <1>0, <1>1, <1>13, <2>2, <3>1, <3>2, <3>3 DEF CallsSound, TransferSound, ShareSound
      <3>4. CASE call[q].index = i
        <4>1. table'[i].serial = Len(spans) + 1
          BY <1>13, <3>1, <3>4, IndexType DEF entry
        <4>2. call[q].serial # Len(spans) + 1
          BY <1>7, <3>1
        <4>3. QED
          BY <1>1, <3>1, <3>2, <3>4, <4>1, <4>2, Zenon
      <3>5. QED
        BY <3>3, <3>4, Zenon
    <2>3. ASSUME NEW q \in Proc PROVE TransferSound(q)'
      BY <1>0, <1>1, <1>6, <2>1 DEF CallsSound, TransferSound
    <2>4. ASSUME NEW q \in Proc PROVE ShareSound(q)'
      BY <1>1, <1>6, <2>2 DEF ShareSound
    <2>5. QED
      BY <2>3, <2>4, Zenon DEF CallsSound
  <1>18. QED
    BY <1>11, <1>12, <1>14, <1>15, <1>16, <1>17, Zenon DEF OFInv

(* Close frees the entry when, and only when, no slot names it any more. *)
LEMMA CloseKeeps ==
    ASSUME OFInv, NEW p \in Proc, NEW i \in Index, Close(p, i)
    PROVE  OFInv'
  <1>0. /\ OFTypeOK /\ WritesApart /\ Resolved /\ Counted /\ Positions /\ CallsSound
        /\ \A q \in Proc \ {p} : where[q] = "share" => timeSlices
    BY Running, Zenon DEF Close
  <1> DEFINE s == SlotOf(p, i).slot
  <1>1. /\ where[p] = "user" /\ s # -1
        /\ UNCHANGED <<timeSlices, where, call, spans, opens, io, lost>>
    BY Zenon DEF Close
  <1>2. CASE SlotOf(p, i).bad
    <2>1. UNCHANGED <<table, files>>
      BY <1>2, Zenon DEF Close
    <2>2. OFTypeOK' /\ WritesApart'
      BY <1>0, <1>1, <2>1, Zenon DEF OFTypeOK, WritesApart
    <2>3. Resolved' /\ Positions'
      BY <1>0, <1>1, <2>1 DEF Resolved, Positions, Marks
    <2>4. Counted'
      BY <1>0, <1>1, <2>1 DEF Counted, Users, Marks
    <2>5. CallsSound'
      BY <1>0, <1>1, <2>1, Zenon DEF CallsSound, TransferSound, ShareSound
    <2>6. QED
      BY <2>2, <2>3, <2>4, <2>5, Zenon DEF OFInv
  <1>3. CASE ~SlotOf(p, i).bad
    <2>1. s \in Slot /\ files[p][s] # NoFile /\ files[p][s].index = i /\ table[i] # NoFile
      BY <1>0, <1>1, <1>3, SlotOfFits, Zenon
    <2>2. /\ files' = [files EXCEPT ![p][s] = NoFile]
          /\ table' = IF table[i].userOpens = 1 THEN [table EXCEPT ![i] = NoFile]
                      ELSE [table EXCEPT ![i].userOpens = @ - 1]
      BY <1>3, Zenon DEF Close
    <2> HIDE DEF s
    <2>3. /\ files'[p][s] = NoFile
          /\ \A q \in Proc, r \in Slot : q # p \/ r # s => files'[q][r] = files[q][r]
          /\ files' \in [Proc -> [Slot -> UserOpenFile \cup {NoFile}]]
      <3>1. files' \in [Proc -> [Slot -> UserOpenFile \cup {NoFile}]]
        BY <1>0, <2>1, <2>2, FilesTyped, Zenon
      <3>2. QED
        BY <1>0, <2>1, <2>2, <3>1, Zenon DEF OFTypeOK
    <2>4. /\ table[i] \in SysOpenFile /\ table[i].userOpens \in Nat \ {0}
          /\ Cardinality(Users(i)) <= table[i].userOpens
          /\ ~lost => table[i].userOpens = Cardinality(Users(i))
      BY <1>0, <2>1, Zenon DEF OFTypeOK, Counted, Marks, SysOpenFile
    <2>5. /\ Cardinality(Users(i)') = Cardinality(Users(i)) - 1
          /\ \A j \in Index \ {i} : Users(j)' = Users(j)
      BY <1>0, <2>1, <2>2, UsersRemove, Zenon
    <2>6. Cardinality(Users(i)) \in Nat /\ (Users(i)' # {} => Cardinality(Users(i)') >= 1)
      <3>1. Users(i)' \subseteq Users(i)
        BY <1>0, <2>1, <2>3 DEF Users
      <3>2. IsFiniteSet(Users(i)) /\ Cardinality(Users(i)) \in Nat
        BY UsersFinite, Zenon
      <3>3. IsFiniteSet(Users(i)')
        BY <3>1, <3>2, FS_Subset, Zenon
      <3>4. Cardinality(Users(i)') \in Nat /\ (Cardinality(Users(i)') = 0 <=> Users(i)' = {})
        BY <3>3, FS_CardinalityType, FS_EmptySet, Zenon
      <3>5. QED
        BY <3>2, <3>4
    <2>7. /\ \A j \in Index \ {i} : table'[j] = table[j]
          /\ table' \in [Index -> SysOpenFile \cup {NoFile}]
          /\ table[i].userOpens = 1 => table'[i] = NoFile
          /\ table[i].userOpens # 1 =>
                /\ table'[i] # NoFile /\ table'[i].userOpens = table[i].userOpens - 1
                /\ table'[i].name = table[i].name /\ table'[i].lock = table[i].lock
                /\ table'[i].serial = table[i].serial
                /\ table'[i].seekPosition = table[i].seekPosition
      <3>1. CASE table[i].userOpens = 1
        BY <1>0, <2>2, <3>1, Zenon DEF OFTypeOK
      <3>2. CASE table[i].userOpens # 1
        <4>1. table' = [table EXCEPT ![i] = [table[i] EXCEPT !.userOpens = table[i].userOpens - 1]]
          BY <1>0, <2>2, <3>2, Zenon DEF OFTypeOK
        <4>2. table[i].userOpens - 1 \in Nat \ {0}
          BY <2>4, <3>2
        <4>3. [table[i] EXCEPT !.userOpens = table[i].userOpens - 1] \in SysOpenFile
          BY <2>4, <4>2, OpensUpdated, Zenon
        <4>4. /\ table'[i] = [table[i] EXCEPT !.userOpens = table[i].userOpens - 1]
              /\ \A j \in Index \ {i} : table'[j] = table[j]
              /\ table' \in [Index -> SysOpenFile \cup {NoFile}]
          BY <1>0, <4>1, <4>3, Zenon DEF OFTypeOK
        <4>5. QED
          BY <2>4, <3>2, <4>2, <4>3, <4>4, OpensUpdated, InUse
      <3>3. QED
        BY <3>1, <3>2, Zenon
    <2>8. Users(i)' # {} => table[i].userOpens # 1
      BY <2>4, <2>5, <2>6
    <2>9. OFTypeOK' /\ WritesApart'
      BY <1>0, <1>1, <2>3, <2>7 DEF OFTypeOK, WritesApart
    <2>10. Positions'
      BY <1>0, <1>1, <2>1, <2>7, PositionsKept, Zenon DEF OFTypeOK
    <2>11. Resolved'
      <3>1. ASSUME NEW q \in Proc, NEW r \in Slot, files'[q][r] # NoFile, files'[q][r].index # -1
            PROVE  /\ table'[files'[q][r].index] # NoFile
                   /\ table'[files'[q][r].index].name = files'[q][r].name
        <4>1. files'[q][r] = files[q][r]
          BY <2>3, <3>1, Zenon
        <4>2. files[q][r] \in UserOpenFile /\ r \in Marks(files[q])
          BY <1>0, <3>1, <4>1 DEF OFTypeOK, Marks
        <4>3. files[q][r].index \in Index
          BY <3>1, <4>1, <4>2, Zenon DEF UserOpenFile
        <4>4. table[files[q][r].index] # NoFile /\ table[files[q][r].index].name = files[q][r].name
          BY <1>0, <3>1, <4>1, <4>2, Zenon DEF Resolved
        <4>5. CASE files[q][r].index = i
          <5>1. <<q, r>> \in Users(i)'
            BY <3>1, <4>1, <4>5, Zenon DEF Users
          <5>2. QED
            BY <2>7, <2>8, <4>1, <4>4, <4>5, <5>1, Zenon
        <4>6. CASE files[q][r].index # i
          BY <2>7, <4>1, <4>3, <4>4, <4>6, Zenon
        <4>7. QED
          BY <4>5, <4>6, Zenon
      <3>2. QED
        BY <2>3, <3>1 DEF Resolved, Marks
    <2>12. Counted'
      <3>1. ASSUME NEW j \in Index, table'[j] # NoFile
            PROVE  /\ Cardinality(Users(j)') <= table'[j].userOpens
                   /\ ~lost' => table'[j].userOpens = Cardinality(Users(j)')
        <4>1. CASE j = i
          BY <1>1, <2>4, <2>5, <2>6, <2>7, <3>1, <4>1
        <4>2. CASE j # i
          BY <1>0, <1>1, <2>5, <2>7, <3>1, <4>2 DEF Counted, Marks, OFTypeOK
        <4>3. QED
          BY <4>1, <4>2, Zenon
      <3>2. QED
        BY <2>7, <3>1, Zenon DEF Counted, Marks
    <2>13. CallsSound'
      <3>1. ASSUME NEW q \in Proc, where[q] \in {"lock", "read", "write"}
            PROVE  /\ files'[q][call[q].slot] = files[q][call[q].slot]
                   /\ table'[call[q].index].lock = table[call[q].index].lock
                   /\ table'[call[q].index].seekPosition = table[call[q].index].seekPosition
        <4>1. /\ call[q].slot \in Slot /\ call[q].index \in Index
              /\ files[q][call[q].slot] # NoFile /\ files[q][call[q].slot].index = call[q].index
          BY <1>0, <3>1, TransferHasFile, Zenon
        <4>2. files'[q][call[q].slot] = files[q][call[q].slot]
          BY <1>1, <2>3, <3>1, <4>1, Zenon
        <4>3. CASE call[q].index = i
          <5>1. <<q, call[q].slot>> \in Users(i)'
            BY <4>1, <4>2, <4>3, Zenon DEF Users
          <5>2. QED
            BY <2>7, <2>8, <4>2, <4>3, <5>1, Zenon
        <4>4. CASE call[q].index # i
          BY <2>7, <4>1, <4>2, <4>4, Zenon
        <4>5. QED
          BY <4>3, <4>4, Zenon
      <3>2. ASSUME NEW q \in Proc, where[q] = "share"
            PROVE  /\ timeSlices'
                   /\ table'[call[q].index] # NoFile /\ table'[call[q].index].serial = call[q].serial =>
                         table'[call[q].index].name = call[q].name
        <4>1. call[q].index \in Index /\ timeSlices
          BY <1>0, <1>1, <3>2, Zenon DEF OFTypeOK
        <4>2. table[call[q].index] # NoFile /\ table[call[q].index].serial = call[q].serial =>
                  table[call[q].index].name = call[q].name
          BY <1>0, <3>2, Zenon DEF CallsSound, ShareSound
        <4>3. CASE call[q].index = i
          BY <1>1, <2>1, <2>7, <4>1, <4>2, <4>3, Zenon
        <4>4. CASE call[q].index # i
          BY <1>1, <2>7, <4>1, <4>2, <4>4, Zenon
        <4>5. QED
          BY <4>3, <4>4, Zenon
      <3>3. ASSUME NEW q \in Proc PROVE TransferSound(q)' /\ ShareSound(q)'
        <4>1. TransferSound(q) /\ ShareSound(q)
          BY <1>0, Zenon DEF CallsSound
        <4>2. TransferSound(q)'
          BY <1>1, <3>1, <4>1, Zenon DEF TransferSound
        <4>3. ShareSound(q)'
          BY <1>1, <3>2, <4>1, Zenon DEF ShareSound
        <4>4. QED
          BY <4>2, <4>3, Zenon
      <3>4. QED
        BY <3>3, Zenon DEF CallsSound
    <2>14. QED
      BY <2>9, <2>10, <2>11, <2>12, <2>13, Zenon DEF OFInv
  <1>4. QED
    BY <1>2, <1>3, Zenon

(* A transfer goes to the lock with a slot that names the file. *)
LEMMA TransferKeeps ==
    ASSUME OFInv, NEW p \in Proc, NEW i \in Index, NEW w \in BOOLEAN, Transfer(p, i, 1, w)
    PROVE  OFInv'
  <1>0. /\ OFTypeOK /\ WritesApart /\ Resolved /\ Counted /\ Positions /\ CallsSound
        /\ \A q \in Proc \ {p} : where[q] = "share" => timeSlices
    BY Running, Zenon DEF Transfer
  <1> DEFINE s == SlotOf(p, i).slot
  <1>1. /\ where[p] = "user" /\ s # -1 /\ UNCHANGED <<timeSlices, table, files, spans, lost>>
    BY Zenon DEF Transfer
  <1>2. WritesApart' /\ Resolved' /\ Counted' /\ Positions'
    <2>1. WritesApart'
      BY <1>0, <1>1, Zenon DEF WritesApart
    <2>2. Resolved'
      BY <1>0, <1>1, Zenon DEF Resolved, Marks
    <2>3. Counted'
      BY <1>0, <1>1, Zenon DEF Counted, Users, Marks
    <2>4. Positions'
      BY <1>0, <1>1, Zenon DEF Positions, Marks
    <2>5. QED
      BY <2>1, <2>2, <2>3, <2>4, Zenon
  <1>3. CASE SlotOf(p, i).bad
    <2>1. UNCHANGED <<where, call>>
      BY <1>3, Zenon DEF Transfer
    <2>2. OFTypeOK' /\ CallsSound'
      BY <1>0, <1>1, <2>1 DEF OFTypeOK, CallsSound, TransferSound, ShareSound
    <2>3. QED
      BY <1>2, <2>2, Zenon DEF OFInv
  <1>4. CASE ~SlotOf(p, i).bad
    <2>1. s \in Slot /\ files[p][s] # NoFile /\ files[p][s].index = i
      BY <1>0, <1>1, <1>4, SlotOfFits, Zenon
    <2> DEFINE c == [index |-> i, slot |-> s, size |-> 1, write |-> w]
    <2>2. where' = [where EXCEPT ![p] = "lock"] /\ call' = [call EXCEPT ![p] = c]
      BY <1>4, Zenon DEF Transfer
    <2> HIDE DEF s
    <2>3. c \in Transfers /\ c.index = i /\ c.slot = s
      BY <2>1, Zenon DEF Transfers
    <2> HIDE DEF c
    <2>4. /\ where'[p] = "lock" /\ call'[p] = c
          /\ \A q \in Proc \ {p} : where'[q] = where[q] /\ call'[q] = call[q]
      BY <1>0, <2>2, Zenon DEF OFTypeOK
    <2>5. OFTypeOK'
      BY <1>0, <1>1, <2>2, <2>3, <2>4, Zenon DEF OFTypeOK
    <2>6. CallsSound'
      <3>1. TransferSound(p)' /\ ShareSound(p)'
        BY <1>1, <2>1, <2>3, <2>4 DEF TransferSound, ShareSound
      <3>2. ASSUME NEW q \in Proc \ {p} PROVE TransferSound(q)' /\ ShareSound(q)'
        <4>1. TransferSound(q) /\ ShareSound(q) /\ where'[q] = where[q] /\ call'[q] = call[q]
          BY <1>0, <2>4, Zenon DEF CallsSound
        <4>2. TransferSound(q)'
          BY <1>1, <4>1, Zenon DEF TransferSound
        <4>3. ShareSound(q)'
          BY <1>0, <1>1, <4>1 DEF ShareSound
        <4>4. QED
          BY <4>2, <4>3, Zenon
      <3>3. QED
        BY <3>1, <3>2, Zenon DEF CallsSound
    <2>7. QED
      BY <1>2, <2>5, <2>6, Zenon DEF OFInv
  <1>5. QED
    BY <1>3, <1>4, Zenon

(* The lock changes hands; a holder keeps it. *)
LEMMA LockUpdated ==
    ASSUME NEW f \in SysOpenFile, NEW o \in Proc \cup {"free"}
    PROVE  LET g == [f EXCEPT !.lock = o]
           IN  /\ g \in SysOpenFile /\ g.userOpens = f.userOpens /\ g.name = f.name /\ g.lock = o
               /\ g.serial = f.serial /\ g.seekPosition = f.seekPosition
  BY Zenon DEF SysOpenFile

(* What is left to show when an entry stays in use with its name, serial    *)
(* number and count, and no process gets or loses a file.                   *)
LEMMA EntryKept ==
    ASSUME OFTypeOK, Resolved, Counted, table' \in [Index -> SysOpenFile \cup {NoFile}],
           files' \in [Proc -> [Slot -> UserOpenFile \cup {NoFile}]], lost' = lost,
           \A j \in Index : table'[j] # NoFile <=> table[j] # NoFile,
           \A j \in Index : table[j] # NoFile =>
              table'[j].name = table[j].name /\ table'[j].userOpens = table[j].userOpens,
           \A q \in Proc, s \in Slot :
              /\ files'[q][s] # NoFile <=> files[q][s] # NoFile
              /\ files[q][s] # NoFile =>
                    files'[q][s].name = files[q][s].name /\ files'[q][s].index = files[q][s].index
    PROVE  Resolved' /\ Counted'
  <1>1. Marks(table)' = Marks(table) /\ \A j \in Marks(table) : j \in Index
    BY DEF Marks, OFTypeOK
  <1>2. \A j : Users(j)' = Users(j)
    BY DEF Users
  <1>3. Counted'
    BY <1>1, <1>2, Zenon DEF Counted, Marks
  <1>4. ASSUME NEW q \in Proc, NEW s \in Marks(files'[q])
        PROVE  files'[q][s].index # -1 =>
                  /\ table'[files'[q][s].index] # NoFile
                  /\ table'[files'[q][s].index].name = files'[q][s].name
    <2>1. s \in Slot /\ files'[q][s] # NoFile
      BY <1>4, Zenon DEF Marks
    <2>2. s \in Marks(files[q]) /\ files[q][s] \in UserOpenFile
      BY <2>1 DEF Marks, OFTypeOK
    <2>3. files[q][s].index \in Index \cup {-1}
      BY <2>2, Zenon DEF UserOpenFile
    <2>4. QED
      BY <2>1, <2>2, <2>3 DEF Resolved, Marks
  <1>5. QED
    BY <1>3, <1>4, Zenon DEF Resolved

LEMMA AcquireKeeps ==
    ASSUME OFInv, NEW p \in Proc, Acquire(p)
    PROVE  OFInv'
  <1>0. /\ OFTypeOK /\ WritesApart /\ Resolved /\ Counted /\ Positions /\ CallsSound
        /\ \A q \in Proc \ {p} : where[q] = "share" => timeSlices
    BY Running, Zenon DEF Acquire
  <1> DEFINE i == call[p].index
  <1>1. /\ where[p] = "lock" /\ table[i].lock = "free"
        /\ table' = [table EXCEPT ![i].lock = p]
        /\ where' = [where EXCEPT ![p] = IF call[p].write THEN "write" ELSE "read"]
        /\ call' = [call EXCEPT ![p] = Positioned(p)]
        /\ UNCHANGED <<timeSlices, files, spans, lost>>
    BY Zenon DEF Acquire
  <1>2. /\ call[p].slot \in Slot /\ i \in Index
        /\ files[p][call[p].slot] # NoFile /\ files[p][call[p].slot].index = i
        /\ table[i] # NoFile /\ table[i] \in SysOpenFile
    BY <1>0, <1>1, TransferHasFile, Zenon
  <1>3. /\ Positioned(p) \in TransfersAt /\ Positioned(p).index = i
        /\ Positioned(p).slot = call[p].slot /\ Positioned(p).position = table[i].seekPosition
    BY <1>0, <1>1, <1>2, Zenon DEF Positioned, OFTypeOK, Transfers, TransfersAt, SysOpenFile
  <1> HIDE DEF i
  <1>4. /\ table'[i] = [table[i] EXCEPT !.lock = p]
        /\ \A j \in Index \ {i} : table'[j] = table[j]
    BY <1>0, <1>1, <1>2, Zenon DEF OFTypeOK
  <1>5. /\ table'[i] \in SysOpenFile /\ table'[i].userOpens = table[i].userOpens
        /\ table'[i].name = table[i].name /\ table'[i].lock = p
        /\ table'[i].serial = table[i].serial /\ table'[i].seekPosition = table[i].seekPosition
    BY <1>2, <1>4, LockUpdated
  <1>6. table' \in [Index -> SysOpenFile \cup {NoFile}]
    <2>1. table' = [table EXCEPT ![i] = table'[i]]
      BY <1>0, <1>1, <1>2, Zenon DEF OFTypeOK
    <2>2. QED
      BY <1>0, <1>5, <2>1, Zenon DEF OFTypeOK
  <1>7. \A j \in Index : table'[j] # NoFile <=> table[j] # NoFile
    BY <1>2, <1>4, <1>5, InUse, Zenon
  <1>8. /\ where'[p] \in {"read", "write"} /\ call'[p] = Positioned(p)
        /\ where' \in [Proc -> {"user", "exited", "open", "share", "lock", "read", "write"}]
        /\ DOMAIN call' = Proc
        /\ \A q \in Proc \ {p} : where'[q] = where[q] /\ call'[q] = call[q]
    BY <1>0, <1>1, Zenon DEF OFTypeOK
  <1>9. OFTypeOK'
    BY <1>0, <1>1, <1>3, <1>6, <1>8, Zenon DEF OFTypeOK
  <1>10. WritesApart'
    BY <1>0, <1>1, Zenon DEF WritesApart
  <1>11. Positions'
    BY <1>0, <1>1, <1>4, <1>5, <1>6, <1>7, PositionsKept, Zenon DEF OFTypeOK
  <1>12. Resolved' /\ Counted'
    <2>1. files' \in [Proc -> [Slot -> UserOpenFile \cup {NoFile}]] /\ lost' = lost /\ files' = files
      BY <1>0, <1>1, Zenon DEF OFTypeOK
    <2>2. QED
      BY <1>0, <1>4, <1>5, <1>6, <1>7, <2>1, EntryKept, Zenon
  <1>13. CallsSound'
    <2>1. ASSUME NEW q \in Proc \ {p}, where[q] \in {"read", "write"}
          PROVE  table'[call[q].index] = table[call[q].index]
      <3>1. table[call[q].index].lock = q /\ call[q].index \in Index
        BY <1>0, <2>1, TransferHasFile, Zenon DEF CallsSound, TransferSound, ShareSound
      <3>2. call[q].index # i
        BY <1>1, <3>1, OpenFilesAssumption, Zenon DEF i
      <3>3. QED
        BY <1>4, <3>1, <3>2, Zenon
    <2>2. ASSUME NEW q \in Proc \ {p}, where[q] = "share"
          PROVE  /\ timeSlices'
                 /\ table'[call[q].index] # NoFile /\ table'[call[q].index].serial = call[q].serial =>
                       table'[call[q].index].name = call[q].name
      <3>1. call[q].index \in Index /\ timeSlices
        BY <1>0, <2>2, Zenon DEF OFTypeOK
      <3>2. QED
        BY <1>0, <1>1, <1>2, <1>4, <1>5, <2>2, <3>1 DEF CallsSound, TransferSound, ShareSound
    <2>3. /\ files'[p][call'[p].slot] # NoFile /\ files'[p][call'[p].slot].index = call'[p].index
          /\ table'[call'[p].index].lock = p
          /\ table'[call'[p].index].seekPosition = call'[p].position
      BY <1>1, <1>2, <1>3, <1>5, <1>8, Zenon
    <2>4. TransferSound(p)' /\ ShareSound(p)'
      BY <1>8, <2>3, Zenon DEF TransferSound, ShareSound
    <2>5. ASSUME NEW q \in Proc \ {p} PROVE TransferSound(q)'
      <3>1. TransferSound(q) /\ files' = files /\ where'[q] = where[q] /\ call'[q] = call[q]
        BY <1>0, <1>1, <1>8, Zenon DEF CallsSound
      <3>2. QED
        BY <2>1, <3>1, Zenon DEF TransferSound
    <2>6. ASSUME NEW q \in Proc \ {p} PROVE ShareSound(q)'
      BY <1>0, <1>1, <1>8, <2>2 DEF CallsSound, ShareSound
    <2>7. QED
      BY <2>4, <2>5, <2>6, Zenon DEF CallsSound
  <1>14. QED
    BY <1>9, <1>10, <1>11, <1>12, <1>13, Zenon DEF OFInv

LEMMA SpanAppended ==
    ASSUME NEW s \in Seq(Nat \X Nat), NEW w \in Nat \X Nat
    PROVE  /\ Append(s, w) \in Seq(Nat \X Nat) /\ DOMAIN Append(s, w) = 1..(Len(s) + 1)
           /\ \A k \in DOMAIN s : Append(s, w)[k] = s[k]
           /\ Append(s, w)[Len(s) + 1] = w
  <1>1. /\ Append(s, w) \in Seq(Nat \X Nat) /\ Len(Append(s, w)) = Len(s) + 1
        /\ \A k \in 1..Len(s) : Append(s, w)[k] = s[k]
        /\ Append(s, w)[Len(s) + 1] = w
    BY AppendProperties
  <1>2. DOMAIN s = 1..Len(s) /\ DOMAIN Append(s, w) = 1..(Len(s) + 1)
    BY <1>1, LenProperties, Zenon
  <1>3. QED
    BY <1>1, <1>2, Zenon

(* The bytes of a write lie behind all that were written before. *)
LEMMA WriteDoneKeeps ==
    ASSUME OFInv, NEW p \in Proc, WriteDone(p)
    PROVE  OFInv'
  <1>0. /\ OFTypeOK /\ WritesApart /\ Resolved /\ Counted /\ Positions /\ CallsSound
        /\ \A q \in Proc \ {p} : where[q] = "share" => timeSlices
    BY Running, Zenon DEF WriteDone
  <1> DEFINE c == call[p]
             i == c.index
             e == table[i].serial
  <1>a. PICK n \in 0..c.size :
          /\ table' = [table EXCEPT ![i].lock = "free", ![i].seekPosition = c.position + n]
          /\ spans' = [spans EXCEPT ![e] = Append(@, <<c.position, n>>)]
    BY Zenon DEF WriteDone
  <1> DEFINE end == c.position + n
  <1>b. n \in 0..c.size
    BY <1>a
  <1>1. /\ where[p] = "write"
        /\ table' = [table EXCEPT ![i].lock = "free", ![i].seekPosition = end]
        /\ spans' = [spans EXCEPT ![e] = Append(@, <<c.position, n>>)]
        /\ files' = [files EXCEPT ![p][c.slot].offset = @ + c.size]
        /\ where' = [where EXCEPT ![p] = "user"]
        /\ call' = [call EXCEPT ![p] = NoFile]
        /\ UNCHANGED <<timeSlices, lost>>
    BY <1>a, Zenon DEF WriteDone
  <1>2. /\ c.slot \in Slot /\ i \in Index
        /\ files[p][c.slot] # NoFile /\ files[p][c.slot].index = i
        /\ table[i] # NoFile /\ table[i] \in SysOpenFile
        /\ table[i].lock = p /\ table[i].seekPosition = c.position
    BY <1>0, <1>1, TransferHasFile, Zenon DEF CallsSound, TransferSound, ShareSound
  <1>3. c.position \in Nat /\ c.size \in Nat /\ n \in Nat /\ end \in Nat /\ c.position <= end
    <2>1. c \in TransfersAt
      BY <1>0, <1>1, Zenon DEF OFTypeOK
    <2>2. c.position \in Nat /\ c.size \in Nat
      BY <2>1, Zenon DEF TransfersAt
    <2> HIDE DEF c
    <2>3. n \in Nat /\ c.position + n \in Nat /\ c.position <= c.position + n
      BY <1>b, <2>2
    <2>4. QED
      BY <2>2, <2>3, Zenon
  <1>4. /\ e \in DOMAIN spans
        /\ \A j \in Index \ {i} : table[j] # NoFile => table[j].serial # e
        /\ \A k \in DOMAIN spans[e] : spans[e][k][1] + spans[e][k][2] <= c.position
    BY <1>0, <1>2, Zenon DEF Positions, Marks, OFTypeOK
  <1>5. /\ spans \in Seq(Seq(Nat \X Nat)) /\ spans[e] \in Seq(Nat \X Nat)
        /\ Len(spans[e]) \in Nat /\ DOMAIN spans[e] = 1..Len(spans[e])
        /\ DOMAIN spans = 1..Len(spans)
    <2>1. spans \in Seq(Seq(Nat \X Nat)) /\ DOMAIN spans = 1..Len(spans)
      BY <1>0, LenProperties, Zenon DEF OFTypeOK
    <2>2. spans[e] \in Seq(Nat \X Nat)
      BY <1>4, <2>1, ElementOfSeq, Zenon
    <2>3. QED
      BY <2>1, <2>2, LenProperties, Zenon
  <1> DEFINE more == Append(spans[e], <<c.position, n>>)
  <1>6. /\ more \in Seq(Nat \X Nat) /\ DOMAIN more = 1..(Len(spans[e]) + 1)
        /\ \A k \in DOMAIN spans[e] : more[k] = spans[e][k]
        /\ more[Len(spans[e]) + 1] = <<c.position, n>>
    <2>1. <<c.position, n>> \in Nat \X Nat
      BY <1>3, Zenon
    <2>2. QED
      BY <1>5, <2>1, SpanAppended, Zenon
  <1>7. /\ spans' \in Seq(Seq(Nat \X Nat)) /\ DOMAIN spans' = DOMAIN spans /\ spans'[e] = more
        /\ \A d \in DOMAIN spans \ {e} : spans'[d] = spans[d]
    <2>1. spans' = [spans EXCEPT ![e] = more]
      BY <1>1, Zenon
    <2>2. spans' \in Seq(Seq(Nat \X Nat))
      <3>1. e \in 1..Len(spans) /\ more \in Seq(Nat \X Nat)
        BY <1>4, <1>5, <1>6, Zenon
      <3> HIDE DEF more, e
      <3>2. [spans EXCEPT ![e] = more] \in Seq(Seq(Nat \X Nat))
        BY <1>5, <3>1, ExceptSeq, Zenon
      <3>3. QED
        BY <2>1, <3>2, Zenon
    <2>3. QED
      BY <1>4, <2>1, <2>2, Zenon
  <1>8. /\ table'[i] = [table[i] EXCEPT !.lock = "free", !.seekPosition = end]
        /\ \A j \in Index \ {i} : table'[j] = table[j]
    BY <1>0, <1>1, <1>2, Zenon DEF OFTypeOK
  <1> HIDE DEF more, i, e, end
  <1>9. /\ table'[i] \in SysOpenFile /\ table'[i].userOpens = table[i].userOpens
        /\ table'[i].name = table[i].name
        /\ table'[i].serial = table[i].serial /\ table'[i].seekPosition = end
    <2> DEFINE t == table[i]
    <2>1. t \in SysOpenFile /\ end \in Nat
          /\ table'[i] = [t EXCEPT !.lock = "free", !.seekPosition = end]
      BY <1>2, <1>3, <1>8, Zenon
    <2> HIDE DEF t
    <2>2. /\ table'[i] \in SysOpenFile /\ table'[i].userOpens = t.userOpens
          /\ table'[i].name = t.name
          /\ table'[i].serial = t.serial /\ table'[i].seekPosition = end
      BY <2>1, Zenon DEF SysOpenFile
    <2>3. QED
      BY <2>2, Zenon DEF t
  <1>10. table' \in [Index -> SysOpenFile \cup {NoFile}]
    <2>1. table' = [table EXCEPT ![i] = table'[i]]
      BY <1>0, <1>1, <1>2, Zenon DEF OFTypeOK
    <2>2. QED
      BY <1>0, <1>9, <2>1, Zenon DEF OFTypeOK
  <1>11. \A j \in Index : table'[j] # NoFile <=> table[j] # NoFile
    BY <1>2, <1>8, <1>9, InUse
  <1> DEFINE f == files[p][c.slot]
             g == [f EXCEPT !.offset = f.offset + c.size]
  <1>12. g \in UserOpenFile /\ f \in UserOpenFile /\ g.name = f.name /\ g.index = f.index
    <2>1. f \in UserOpenFile
      BY <1>0, <1>2 DEF OFTypeOK
    <2> HIDE DEF f
    <2>2. QED
      BY <1>3, <2>1 DEF UserOpenFile
  <1>13. files' = [files EXCEPT ![p][c.slot] = g]
    BY <1>0, <1>1, <1>2, Zenon DEF OFTypeOK
  <1>14. /\ files' \in [Proc -> [Slot -> UserOpenFile \cup {NoFile}]]
         /\ files'[p][c.slot] = g
         /\ \A q \in Proc, s \in Slot : q # p \/ s # c.slot => files'[q][s] = files[q][s]
    <2>1. files' \in [Proc -> [Slot -> UserOpenFile \cup {NoFile}]]
      BY <1>0, <1>2, <1>12, <1>13, FilesTyped, Zenon
    <2> HIDE DEF g
    <2>2. QED
      BY <1>0, <1>2, <1>13, <2>1, Zenon DEF OFTypeOK
  <1> HIDE DEF f, g, c
  <1>15. /\ where'[p] = "user"
         /\ where' \in [Proc -> {"user", "exited", "open", "share", "lock", "read", "write"}]
         /\ DOMAIN call' = Proc
         /\ \A q \in Proc \ {p} : where'[q] = where[q] /\ call'[q] = call[q]
    BY <1>0, <1>1, Zenon DEF OFTypeOK
  <1>16. OFTypeOK'
    BY <1>0, <1>7, <1>10, <1>14, <1>15, Zenon DEF OFTypeOK
  <1>17. WritesApart'
    <2>1. ASSUME NEW d \in DOMAIN spans', NEW j \in DOMAIN spans'[d], NEW k \in DOMAIN spans'[d],
                 j < k
          PROVE  spans'[d][j][1] + spans'[d][j][2] <= spans'[d][k][1]
      <3>1. CASE d # e
        BY <1>0, <1>7, <2>1, <3>1, Zenon DEF WritesApart
      <3>2. CASE d = e /\ k \in DOMAIN spans[e]
        <4>1. j \in DOMAIN spans[e]
          BY <1>5, <1>6, <1>7, <2>1, <3>2
        <4>2. QED
          BY <1>0, <1>4, <1>6, <1>7, <2>1, <3>2, <4>1, Zenon DEF WritesApart
      <3>3. CASE d = e /\ k = Len(spans[e]) + 1
        <4>1. j \in DOMAIN spans[e]
          BY <1>5, <1>6, <1>7, <2>1, <3>3
        <4>2. spans'[d][j] = spans[e][j] /\ spans'[d][k] = <<c.position, n>>
          BY <1>6, <1>7, <3>3, <4>1, Zenon
        <4>3. QED
          BY <1>4, <4>1, <4>2
      <3>4. d = e => k \in 1..(Len(spans[e]) + 1)
        BY <1>6, <1>7, <2>1, Zenon
      <3> DEFINE l == Len(spans[e])
      <3>5. d = e => k \in DOMAIN spans[e] \/ k = Len(spans[e]) + 1
        <4>1. l \in Nat /\ DOMAIN spans[e] = 1..l /\ (d = e => k \in 1..(l + 1))
          BY <1>5, <3>4, Zenon
        <4> HIDE DEF l
        <4>2. d = e => k \in 1..l \/ k = l + 1
          BY <4>1
        <4>3. QED
          BY <4>1, <4>2, Zenon DEF l
      <3>6. QED
        BY <3>1, <3>2, <3>3, <3>5, Zenon
    <2>2. QED
      BY <2>1, Zenon DEF WritesApart
  <1>18. Positions'
    <2>1. Marks(table)' = Marks(table) /\ \A j \in Marks(table) : j \in Index /\ table[j] # NoFile
      BY <1>0, <1>10, <1>11, Zenon DEF Marks, OFTypeOK
    <2>2. \A j \in Marks(table) : table'[j].serial = table[j].serial
      BY <1>8, <1>9, <2>1, Zenon
    <2>3. ASSUME NEW j \in Marks(table), NEW k \in DOMAIN spans'[table[j].serial]
          PROVE  LET w == spans'[table[j].serial][k] IN w[1] + w[2] <= table'[j].seekPosition
      <3>1. CASE j # i
        <4>1. table[j].serial # e /\ table[j].serial \in DOMAIN spans /\ table'[j] = table[j]
          BY <1>0, <1>4, <1>8, <2>1, <3>1, Zenon DEF Positions
        <4>2. QED
          BY <1>0, <1>7, <2>3, <4>1, Zenon DEF Positions
      <3>2. CASE j = i
        <4>1. spans'[table[j].serial] = more /\ table'[j].seekPosition = end
          BY <1>7, <1>9, <3>2, Zenon DEF e
        <4>2. CASE k = Len(spans[e]) + 1
          BY <1>6, <4>1, <4>2 DEF end
        <4>3. CASE k \in DOMAIN spans[e]
          <5>1. spans[e][k] \in Nat \X Nat
            BY <1>5, <4>3, ElementOfSeq, Zenon
          <5>2. QED
            BY <1>3, <1>4, <1>6, <4>1, <4>3, <5>1
        <4>4. k \in 1..(Len(spans[e]) + 1)
          BY <1>6, <2>3, <4>1, Zenon
        <4>5. k \in DOMAIN spans[e] \/ k = Len(spans[e]) + 1
          BY <1>5, <4>4
        <4>6. QED
          BY <4>2, <4>3, <4>5, Zenon
      <3>3. QED
        BY <3>1, <3>2, Zenon
    <2>4. QED
      BY <1>0, <1>7, <2>1, <2>2, <2>3, Zenon DEF Positions
  <1>19. Resolved' /\ Counted'
    <2>1. \A q \in Proc, s \in Slot :
              /\ files'[q][s] # NoFile <=> files[q][s] # NoFile
              /\ files[q][s] # NoFile =>
                    files'[q][s].name = files[q][s].name /\ files'[q][s].index = files[q][s].index
      BY <1>2, <1>12, <1>14, InUse, Zenon DEF f
    <2>2. QED
      BY <1>0, <1>1, <1>8, <1>9, <1>10, <1>11, <1>14, <2>1, EntryKept, Zenon
  <1>20. CallsSound'
    <2>1. ASSUME NEW q \in Proc \ {p}, where[q] \in {"read", "write"}
          PROVE  table'[call[q].index] = table[call[q].index]
      <3>1. table[call[q].index].lock = q /\ call[q].index \in Index
        BY <1>0, <2>1, TransferHasFile, Zenon DEF CallsSound, TransferSound, ShareSound
      <3>2. QED
        BY <1>2, <1>8, <3>1, Zenon
    <2>2. ASSUME NEW q \in Proc \ {p}, where[q] \in {"lock", "read", "write"}
          PROVE  files'[q][call[q].slot] = files[q][call[q].slot]
      BY <1>0, <1>14, <2>2, TransferHasFile, Zenon
    <2>3. ASSUME NEW q \in Proc \ {p}, where[q] = "share"
          PROVE  /\ timeSlices' /\ call[q].serial \in DOMAIN spans'
                 /\ table'[call[q].index] # NoFile /\ table'[call[q].index].serial = call[q].serial =>
                       table'[call[q].index].name = call[q].name
      <3>1. call[q].index \in Index /\ timeSlices /\ call[q].serial \in DOMAIN spans
        BY <1>0, <2>3, Zenon DEF OFTypeOK, CallsSound, TransferSound, ShareSound
      <3>2. table[call[q].index] # NoFile /\ table[call[q].index].serial = call[q].serial =>
               table[call[q].index].name = call[q].name
        BY <1>0, <2>3, Zenon DEF CallsSound, ShareSound
      <3>3. table'[call[q].index] # NoFile =>
               /\ table[call[q].index] # NoFile
               /\ table'[call[q].index].serial = table[call[q].index].serial
               /\ table'[call[q].index].name = table[call[q].index].name
        BY <1>8, <1>9, <1>11, <3>1, Zenon
      <3>4. QED
        BY <1>1, <1>7, <3>1, <3>2, <3>3, Zenon
    <2>4. TransferSound(p)' /\ ShareSound(p)'
      BY <1>15, Zenon DEF TransferSound, ShareSound
    <2>5. ASSUME NEW q \in Proc \ {p} PROVE TransferSound(q)'
      BY <1>0, <1>15, <2>1, <2>2 DEF CallsSound, TransferSound
    <2>6. ASSUME NEW q \in Proc \ {p} PROVE ShareSound(q)'
      BY <1>15, <2>3, Zenon DEF ShareSound
    <2>7. QED
      BY <2>4, <2>5, <2>6, Zenon DEF CallsSound
  <1>21. QED
    BY <1>16, <1>17, <1>18, <1>19, <1>20, Zenon DEF OFInv

LEMMA ReadDoneKeeps ==
    ASSUME OFInv, NEW p \in Proc, ReadDone(p)
    PROVE  OFInv'
  <1>0. /\ OFTypeOK /\ WritesApart /\ Resolved /\ Counted /\ Positions /\ CallsSound
        /\ \A q \in Proc \ {p} : where[q] = "share" => timeSlices
    BY Running, Zenon DEF ReadDone
  <1> DEFINE i == call[p].index
  <1>1. /\ where[p] = "read"
        /\ table' = [table EXCEPT ![i].lock = "free"]
        /\ where' = [where EXCEPT ![p] = "user"]
        /\ call' = [call EXCEPT ![p] = NoFile]
        /\ UNCHANGED <<timeSlices, files, spans, lost>>
    BY Zenon DEF ReadDone
  <1>2. i \in Index /\ table[i] # NoFile /\ table[i] \in SysOpenFile /\ table[i].lock = p
    BY <1>0, <1>1, TransferHasFile, Zenon DEF CallsSound, TransferSound
  <1> HIDE DEF i
  <1>3. /\ table'[i] = [table[i] EXCEPT !.lock = "free"]
        /\ \A j \in Index \ {i} : table'[j] = table[j]
    BY <1>0, <1>1, <1>2, Zenon DEF OFTypeOK
  <1>4. /\ table'[i] \in SysOpenFile /\ table'[i].userOpens = table[i].userOpens
        /\ table'[i].name = table[i].name
        /\ table'[i].serial = table[i].serial /\ table'[i].seekPosition = table[i].seekPosition
    BY <1>2, <1>3, LockUpdated
  <1>5. table' \in [Index -> SysOpenFile \cup {NoFile}]
    <2>1. table' = [table EXCEPT ![i] = table'[i]]
      BY <1>0, <1>1, <1>2, Zenon DEF OFTypeOK
    <2>2. QED
      BY <1>0, <1>4, <2>1, Zenon DEF OFTypeOK
  <1>6. \A j \in Index : table'[j] # NoFile <=> table[j] # NoFile
    BY <1>2, <1>3, <1>4, InUse, Zenon
  <1>7. /\ where'[p] = "user"
        /\ where' \in [Proc -> {"user", "exited", "open", "share", "lock", "read", "write"}]
        /\ DOMAIN call' = Proc
        /\ \A q \in Proc \ {p} : where'[q] = where[q] /\ call'[q] = call[q]
    BY <1>0, <1>1, Zenon DEF OFTypeOK
  <1>8. OFTypeOK'
    BY <1>0, <1>1, <1>5, <1>7, Zenon DEF OFTypeOK
  <1>9. WritesApart'
    BY <1>0, <1>1, Zenon DEF WritesApart
  <1>10. Positions'
    BY <1>0, <1>1, <1>3, <1>4, <1>5, <1>6, PositionsKept, Zenon DEF OFTypeOK
  <1>11. Resolved' /\ Counted'
    <2>1. files' \in [Proc -> [Slot -> UserOpenFile \cup {NoFile}]] /\ lost' = lost /\ files' = files
      BY <1>0, <1>1, Zenon DEF OFTypeOK
    <2>2. QED
      BY <1>0, <1>3, <1>4, <1>5, <1>6, <2>1, EntryKept, Zenon
  <1>12. CallsSound'
    <2>1. ASSUME NEW q \in Proc \ {p}, where[q] \in {"read", "write"}
          PROVE  table'[call[q].index] = table[call[q].index]
      <3>1. table[call[q].index].lock = q /\ call[q].index \in Index
        BY <1>0, <2>1, TransferHasFile, Zenon DEF CallsSound, TransferSound
      <3>2. QED
        BY <1>2, <1>3, <3>1, Zenon
    <2>2. ASSUME NEW q \in Proc \ {p}, where[q] = "share"
          PROVE  /\ timeSlices' /\ call[q].serial \in DOMAIN spans'
                 /\ table'[call[q].index] # NoFile /\ table'[call[q].index].serial = call[q].serial =>
                       table'[call[q].index].name = call[q].name
      <3>1. call[q].index \in Index /\ timeSlices /\ call[q].serial \in DOMAIN spans
        BY <1>0, <2>2, Zenon DEF OFTypeOK, CallsSound, ShareSound
      <3>2. table[call[q].index] # NoFile /\ table[call[q].index].serial = call[q].serial =>
               table[call[q].index].name = call[q].name
        BY <1>0, <2>2, Zenon DEF CallsSound, ShareSound
      <3>3. table'[call[q].index] # NoFile =>
               /\ table[call[q].index] # NoFile
               /\ table'[call[q].index].serial = table[call[q].index].serial
               /\ table'[call[q].index].name = table[call[q].index].name
        BY <1>3, <1>4, <1>6, <3>1, Zenon
      <3>4. QED
        BY <1>1, <3>1, <3>2, <3>3, Zenon
    <2>3. TransferSound(p)' /\ ShareSound(p)'
      BY <1>7, Zenon DEF TransferSound, ShareSound
    <2>4. ASSUME NEW q \in Proc \ {p} PROVE TransferSound(q)'
      <3>1. TransferSound(q) /\ files' = files /\ where'[q] = where[q] /\ call'[q] = call[q]
        BY <1>0, <1>1, <1>7, Zenon DEF CallsSound
      <3>2. QED
        BY <2>1, <3>1, Zenon DEF TransferSound
    <2>5. ASSUME NEW q \in Proc \ {p} PROVE ShareSound(q)'
      BY <1>7, <2>2, Zenon DEF ShareSound
    <2>6. QED
      BY <2>3, <2>4, <2>5, Zenon DEF CallsSound
  <1>13. QED
    BY <1>8, <1>9, <1>10, <1>11, <1>12, Zenon DEF OFInv

(* MyExit forgets the files of the process, not their entries. *)
LEMMA ExitOpenKeeps ==
    ASSUME OFInv, NEW p \in Proc, ExitOpen(p)
    PROVE  OFInv'
  <1>0. /\ OFTypeOK /\ WritesApart /\ Resolved /\ Counted /\ Positions /\ CallsSound
        /\ \A q \in Proc \ {p} : where[q] = "share" => timeSlices
    BY Running, Zenon DEF ExitOpen
  <1>1. /\ where[p] = "user" /\ where' = [where EXCEPT ![p] = "exited"]
        /\ files' = [files EXCEPT ![p] = [s \in Slot |-> NoFile]]
        /\ ~lost' => ~lost /\ Marks(files[p]) = {}
        /\ UNCHANGED <<timeSlices, table, call, spans>>
    BY Zenon DEF ExitOpen
  <1>2. /\ \A s \in Slot : files'[p][s] = NoFile
        /\ \A q \in Proc \ {p} : files'[q] = files[q] /\ where'[q] = where[q]
        /\ where'[p] = "exited"
        /\ files' \in [Proc -> [Slot -> UserOpenFile \cup {NoFile}]]
        /\ where' \in [Proc -> {"user", "exited", "open", "share", "lock", "read", "write"}]
    BY <1>0, <1>1, Zenon DEF OFTypeOK
  <1>3. OFTypeOK' /\ WritesApart' /\ Positions'
    <2>1. OFTypeOK'
      BY <1>0, <1>1, <1>2, Zenon DEF OFTypeOK
    <2>2. WritesApart'
      BY <1>0, <1>1, Zenon DEF WritesApart
    <2>3. Positions'
      BY <1>0, <1>1, Zenon DEF Positions, Marks
    <2>4. QED
      BY <2>1, <2>2, <2>3, Zenon
  <1>4. Resolved'
    <2>1. Marks(files'[p]) = {}
      BY <1>2, Zenon DEF Marks
    <2>2. \A q \in Proc \ {p} : Marks(files'[q]) = Marks(files[q])
      BY <1>2, Zenon
    <2>3. ASSUME NEW q \in Proc, NEW s \in Marks(files'[q])
          PROVE  LET f == files'[q][s]
                 IN  f.index # -1 => table'[f.index] # NoFile /\ table'[f.index].name = f.name
      <3>1. q # p /\ s \in Marks(files[q]) /\ files'[q][s] = files[q][s] /\ table' = table
        BY <1>1, <1>2, <2>1, <2>2, <2>3, Zenon
      <3>2. QED
        BY <1>0, <3>1, Zenon DEF Resolved
    <2>4. QED
      BY <2>3, Zenon DEF Resolved
  <1>5. Counted'
    <2>1. ASSUME NEW j \in Marks(table)
          PROVE  /\ Cardinality(Users(j)') <= table[j].userOpens
                 /\ ~lost' => table[j].userOpens = Cardinality(Users(j)')
      <3>1. Users(j)' \subseteq Users(j)
        BY <1>2 DEF Users
      <3>2. IsFiniteSet(Users(j)) /\ Cardinality(Users(j)) \in Nat
        BY UsersFinite, Zenon
      <3>3. Cardinality(Users(j)') <= Cardinality(Users(j)) /\ Cardinality(Users(j)') \in Nat
        BY <3>1, <3>2, FS_Subset, FS_CardinalityType, Zenon
      <3>4. ~lost' => Users(j)' = Users(j)
        <4>1. ASSUME ~lost', NEW s \in Slot PROVE files[p][s] = NoFile
          BY <1>0, <1>1, <4>1, Zenon DEF Marks, OFTypeOK
        <4>2. QED
          BY <1>2, <4>1 DEF Users
      <3>5. /\ Cardinality(Users(j)) <= table[j].userOpens
            /\ ~lost => table[j].userOpens = Cardinality(Users(j))
        BY <1>0, Zenon DEF Counted
      <3>6. table[j].userOpens \in Nat
        BY <1>0, Zenon DEF OFTypeOK, Marks, SysOpenFile
      <3>7. Cardinality(Users(j)') <= table[j].userOpens
        BY <3>2, <3>3, <3>5, <3>6
      <3>8. QED
        BY <1>1, <3>4, <3>5, <3>7, Zenon
    <2>2. QED
      BY <1>1, <2>1, Zenon DEF Counted
  <1>6. CallsSound'
    <2>1. TransferSound(p)' /\ ShareSound(p)'
      BY <1>2, Zenon DEF TransferSound, ShareSound
    <2>2. ASSUME NEW q \in Proc \ {p} PROVE TransferSound(q)'
      BY <1>0, <1>1, <1>2, Zenon DEF CallsSound, TransferSound
    <2>3. ASSUME NEW q \in Proc \ {p} PROVE ShareSound(q)'
      <3>1. where[q] = "share" => timeSlices
        BY <1>0, Zenon
      <3>2. QED
        BY <1>0, <1>1, <1>2, <3>1, Zenon DEF CallsSound, ShareSound
    <2>4. QED
      BY <2>1, <2>2, <2>3, Zenon DEF CallsSound
  <1>7. QED
    BY <1>3, <1>4, <1>5, <1>6, Zenon DEF OFInv

(* ... and every step keeps it. *)
LEMMA OFInvStep == OFInv /\ [OpenFilesNext]_tableVars => OFInv'
  <1> SUFFICES ASSUME OFInv, [OpenFilesNext]_tableVars PROVE OFInv'
    BY Zenon
  <1>1. CASE UNCHANGED tableVars
    <2>1. OFTypeOK' /\ WritesApart'
      BY <1>1, Zenon DEF OFInv, tableVars, OFTypeOK, WritesApart
    <2>2. ASSUME ~crashed \/ ~timeSlices PROVE Resolved /\ Counted /\ Positions /\ CallsSound
      BY <2>2, Zenon DEF OFInv
    <2>3. ASSUME ~crashed \/ ~timeSlices PROVE Resolved' /\ Positions'
      BY <1>1, <2>2, <2>3 DEF tableVars, Resolved, Positions, Marks
    <2>4. ASSUME ~crashed \/ ~timeSlices PROVE Counted'
      BY <1>1, <2>2, <2>4 DEF tableVars, Counted, Users, Marks
    <2>5. ASSUME ~crashed \/ ~timeSlices PROVE CallsSound'
      BY <1>1, <2>2, <2>5, Zenon DEF tableVars, CallsSound, TransferSound, ShareSound
    <2>6. QED
      BY <1>1, <2>1, <2>3, <2>4, <2>5, Zenon DEF OFInv, tableVars
  <1>2. CASE OpenFilesNext
    BY <1>2, OpenKeeps, OpenShareKeeps, OpenAddKeeps, CloseKeeps, TransferKeeps, AcquireKeeps,
       WriteDoneKeeps, ReadDoneKeeps, ExitOpenKeeps DEF OpenFilesNext
  <1>3. QED
    BY <1>1, <1>2, Zenon

(* So it holds in every reachable state. *)
THEOREM OFInvAlways == OpenFilesSpec => []OFInv
  BY OFInitInv, OFInvStep, PTL DEF OpenFilesSpec

(* The lock of a SysOpenFile keeps the writes of all processes through it  *)
(* apart, with and without time slices: WriteHandler and OpenFile::Write.  *)
THEOREM WritesStayApart == OpenFilesSpec => []WritesApart
  <1>1. OFInv => WritesApart
    BY Zenon DEF OFInv
  <1>2. QED
    BY <1>1, OFInvAlways, PTL

(* Without time slices a FileID stays that of its file, and userOpens      *)
(* counts the opens: SysOpenFileManager, PCB::AddFile and PCB::CloseFile.   *)
THEOREM FilesKeepResolving == OpenFilesSpec => []FilesResolve
  <1>1. OFInv => FilesResolve
    BY Zenon DEF OFInv, FilesResolve, Resolved, Counted
  <1>2. QED
    BY <1>1, OFInvAlways, PTL
=============================================================================
