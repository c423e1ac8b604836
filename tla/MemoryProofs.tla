---------------------------- MODULE MemoryProofs ----------------------------
(***************************************************************************)
(* No frame is shared and none is lost, whatever the number of processes   *)
(* and frames and however they interleave; and without time slices getPage *)
(* finds a frame for every page.                                           *)
(***************************************************************************)
EXTENDS Memory, FiniteSetTheorems, SequenceTheorems, WellFoundedInduction, TLAPS

(* How far each process is with its page table. *)
Progress ==
    \A p \in Process :
       LET n == Len(pageTable[p]) IN
       /\ pc[p] = "none" => n = 0
       /\ pc[p] = "getPage" => n < numPages[p]
       /\ pc[p] = "user" => n = numPages[p] /\ n > 0
       /\ pc[p] = "clearPage" => 0 < n /\ n <= numPages[p]
       /\ pc[p] = "exited" => n = 0

MemInv ==
    /\ MemTypeOK
    /\ pageTable \in [Process -> Seq(Frame \cup {-1})]
    /\ Progress
    /\ FramesDisjoint
    /\ FramesAccounted

-----------------------------------------------------------------------------
(* A set of frames that is not empty has a least element: Find returns a   *)
(* clear bit whenever there is one.                                        *)
LEMMA FindClear ==
    ASSUME MemTypeOK
    PROVE  /\ Find \in Frame \cup {-1}
           /\ Unmarked # {} => Find \in Unmarked
           /\ Find # -1 => Find \in Unmarked
<1>1. CASE Unmarked = {}
  BY <1>1 DEF Find
<1>2. CASE Unmarked # {}
  <2>1. Unmarked \subseteq Nat
    BY MemoryAssumption DEF Unmarked, Frame
  <2>2. PICK f \in Unmarked : \A g \in Unmarked : f <= g
    <3> DEFINE T == {0..u : u \in Unmarked}
               R == StrictSubsetOrdering(Nat)
    <3>1. T \subseteq FiniteSubsetsOf(Nat) /\ T # {}
      <4>1. ASSUME NEW u \in Unmarked PROVE 0..u \in FiniteSubsetsOf(Nat)
        <5>1. u \in Int /\ 0..u \subseteq Nat
          BY <2>1
        <5>2. IsFiniteSet(0..u)
          BY <5>1, FS_Interval
        <5> QED BY <5>1, <5>2 DEF FiniteSubsetsOf
      <4> QED BY <4>1, <1>2
    <3>2. PICK x \in T : \A y \in T : ~(<<y, x>> \in R)
      BY <3>1, FS_StrictSubsetOrderingWellFounded, WFMin, Zenon
    <3>3. PICK f \in Unmarked : x = 0..f
      BY <3>2
    <3>4. ASSUME NEW g \in Unmarked, g < f PROVE FALSE
      <4>1. 0..g \subseteq 0..f /\ 0..g # 0..f /\ 0..g \subseteq Nat /\ 0..f \subseteq Nat
        BY <2>1, <3>4
      <4>2. <<0..g, 0..f>> \in (SUBSET Nat) \X (SUBSET Nat)
        BY <4>1, Zenon
      <4>3. <<0..g, 0..f>> \in R
        BY <4>1, <4>2, Zenon DEF StrictSubsetOrdering
      <4> QED BY <4>3, <3>2, <3>3, Zenon
    <3> QED BY <2>1, <3>4
  <2>4. Find \in Unmarked
    BY <1>2, <2>2 DEF Find
  <2> QED BY <1>2, <2>4 DEF Unmarked
<1> QED BY <1>1, <1>2

LEMMA InitInv == MemInit => MemInv
<1> SUFFICES ASSUME MemInit PROVE MemInv
  OBVIOUS
<1>1. \A p \in Process : pageTable[p] = <<>> /\ Len(pageTable[p]) = 0 /\ FramesOf(p) = {}
  BY DEF MemInit, FramesOf
<1>2. MemTypeOK /\ pageTable \in [Process -> Seq(Frame \cup {-1})] /\ Progress
  BY <1>1, MemoryAssumption DEF MemInit, MemTypeOK, Progress
<1>3. FramesDisjoint
  BY <1>1 DEF FramesDisjoint
<1>4. FramesAccounted
  BY <1>1 DEF FramesAccounted, MemInit
<1> QED BY <1>2, <1>3, <1>4 DEF MemInv
-----------------------------------------------------------------------------
(* What leaves the bitmap and the tables alone leaves the frames alone. *)
LEMMA SameFrames ==
    ASSUME FramesDisjoint, FramesAccounted, pageTable' = pageTable, bit_mem' = bit_mem
    PROVE  FramesDisjoint' /\ FramesAccounted'
<1>1. \A p : FramesOf(p)' = FramesOf(p)
  BY DEF FramesOf
<1>2. FramesDisjoint'
  BY <1>1 DEF FramesDisjoint
<1>3. FramesAccounted'
  BY <1>1 DEF FramesAccounted
<1> QED BY <1>2, <1>3

(* freePages, then numPages and pc: the page tables stay as they are. *)
LEMMA ReservePreserves ==
    ASSUME MemInv, NEW p \in Process, NEW n \in 1..NumPhysPages, Reserve(p, n)
    PROVE  MemInv'
<1>1. MemTypeOK' /\ (pageTable \in [Process -> Seq(Frame \cup {-1})])'
  BY MemoryAssumption DEF MemInv, MemTypeOK, Progress, Reserve
<1>2. Progress'
  BY MemoryAssumption DEF MemInv, MemTypeOK, Progress, Reserve
<1>3. FramesDisjoint' /\ FramesAccounted'
  BY SameFrames DEF MemInv, Reserve
<1> QED BY <1>1, <1>2, <1>3 DEF MemInv

(* The frames of a table with one more entry. *)
LEMMA getPagePreserves ==
    ASSUME MemInv, NEW p \in Process, getPage(p)
    PROVE  MemInv'
<1> DEFINE T == pageTable[p]
           U == Append(T, Find)
           E == Frame \cup {-1}
<1>1. T \in Seq(E) /\ Len(T) \in Nat /\ Find \in E
  BY FindClear, LenProperties DEF MemInv
<1>2. /\ U \in Seq(E)
      /\ Len(U) = Len(T) + 1
      /\ \A i \in 1..Len(T) : U[i] = T[i]
      /\ U[Len(T) + 1] = Find
  BY <1>1, AppendProperties
<1>3. pageTable' = [pageTable EXCEPT ![p] = U] /\ pageTable'[p] = U
  BY DEF getPage, MemInv
<1>4. \A q \in Process : q # p => pageTable'[q] = pageTable[q]
  BY <1>3 DEF MemInv
<1>5. numPages[p] \in Nat /\ Len(T) < numPages[p]
  BY MemoryAssumption DEF MemInv, MemTypeOK, Progress, getPage
<1>6. MemTypeOK' /\ (pageTable \in [Process -> Seq(E)])'
  <2>1. (pageTable \in [Process -> Seq(E)])'
    BY <1>2, <1>3 DEF MemInv
  <2>2. bit_mem' \in SUBSET Frame
    BY <1>1 DEF getPage, MemInv, MemTypeOK
  <2>3. pc' \in [Process -> {"none", "getPage", "user", "clearPage", "exited"}]
    BY DEF getPage, MemInv, MemTypeOK
  <2>4. \A q \in Process : pageTable'[q] \in Seq(E) /\ Len(pageTable'[q]) <= numPages'[q]
    BY <1>1, <1>2, <1>3, <1>4, <1>5 DEF getPage, MemInv, MemTypeOK
  <2> QED BY <2>1, <2>2, <2>3, <2>4 DEF getPage, MemInv, MemTypeOK
<1>7. Progress'
  <2> SUFFICES ASSUME NEW q \in Process
               PROVE  LET n == Len(pageTable'[q]) IN
                      /\ pc'[q] = "none" => n = 0
                      /\ pc'[q] = "getPage" => n < numPages'[q]
                      /\ pc'[q] = "user" => n = numPages'[q] /\ n > 0
                      /\ pc'[q] = "clearPage" => 0 < n /\ n <= numPages'[q]
                      /\ pc'[q] = "exited" => n = 0
    BY DEF Progress
  <2>1. CASE q = p
    BY <2>1, <1>1, <1>2, <1>3, <1>5 DEF getPage, MemInv, MemTypeOK
  <2>2. CASE q # p
    BY <2>2, <1>4 DEF getPage, MemInv, MemTypeOK, Progress
  <2> QED BY <2>1, <2>2
<1>8. \A q \in Process : q # p => FramesOf(q)' = FramesOf(q)
  BY <1>4 DEF FramesOf
<1>9. FramesOf(p)' = FramesOf(p) \cup ({Find} \ {-1})
  BY <1>1, <1>2, <1>3 DEF FramesOf
<1>10. FramesAccounted'
  BY <1>8, <1>9, Zenon DEF FramesAccounted, MemInv, getPage
<1>11. Find # -1 => \A q \in Process : Find \notin FramesOf(q)
  BY FindClear DEF MemInv, FramesAccounted, Unmarked
<1>12. FramesDisjoint'
  <2>1. \A q, r \in Process : q # r => FramesOf(q)' \cap FramesOf(r)' = {}
    BY <1>8, <1>9, <1>11 DEF MemInv, FramesDisjoint
  <2>2. ASSUME NEW q \in Process, NEW i \in 1..Len(pageTable'[q]),
               NEW j \in 1..Len(pageTable'[q]),
               pageTable'[q][i] = pageTable'[q][j], pageTable'[q][i] # -1
        PROVE  i = j
    <3>1. CASE q # p
      BY <3>1, <2>2, <1>4 DEF MemInv, FramesDisjoint
    <3>2. CASE q = p
      <4>1. \A k \in 1..Len(T) : T[k] # -1 => T[k] # Find
        BY <1>11 DEF FramesOf
      <4>2. CASE i <= Len(T) /\ j <= Len(T)
        BY <4>2, <3>2, <2>2, <1>1, <1>2, <1>3 DEF MemInv, FramesDisjoint
      <4>3. CASE ~(i <= Len(T) /\ j <= Len(T))
        BY <4>1, <4>3, <3>2, <2>2, <1>1, <1>2, <1>3
      <4> QED BY <4>2, <4>3
    <3> QED BY <3>1, <3>2
  <2> QED BY <2>1, <2>2 DEF FramesDisjoint
<1> QED BY <1>6, <1>7, <1>10, <1>12 DEF MemInv

LEMMA ExitPreserves ==
    ASSUME MemInv, NEW p \in Process, Exit(p)
    PROVE  MemInv'
<1>1. MemTypeOK' /\ (pageTable \in [Process -> Seq(Frame \cup {-1})])'
  BY DEF MemInv, MemTypeOK, Exit
<1>2. Progress'
  BY MemoryAssumption DEF MemInv, MemTypeOK, Progress, Exit
<1>3. FramesDisjoint' /\ FramesAccounted'
  BY SameFrames DEF MemInv, Exit
<1> QED BY <1>1, <1>2, <1>3 DEF MemInv

(* The frames of a table without its first entry, which is no other page's. *)
LEMMA clearPagePreserves ==
    ASSUME MemInv, NEW p \in Process, clearPage(p)
    PROVE  MemInv'
<1> DEFINE T == pageTable[p]
           E == Frame \cup {-1}
           f == Head(T)
<1>1. T \in Seq(E) /\ Len(T) \in Nat /\ Len(T) > 0 /\ Len(T) <= numPages[p]
  BY LenProperties DEF MemInv, Progress, clearPage
<1>2. /\ Tail(T) \in Seq(E)
      /\ Len(Tail(T)) = Len(T) - 1
      /\ \A i \in 1..(Len(T) - 1) : Tail(T)[i] = T[i + 1]
      /\ f = T[1] /\ f \in E
  <2>1. T # <<>>
    BY <1>1, EmptySeq
  <2> QED BY <1>1, <2>1, HeadTailProperties
<1>3. pageTable' = [pageTable EXCEPT ![p] = Tail(T)] /\ pageTable'[p] = Tail(T)
  BY DEF clearPage, MemInv
<1>4. \A q \in Process : q # p => pageTable'[q] = pageTable[q]
  BY <1>3 DEF MemInv
<1>5. MemTypeOK' /\ (pageTable \in [Process -> Seq(E)])'
  <2>1. (pageTable \in [Process -> Seq(E)])'
    BY <1>2, <1>3 DEF MemInv
  <2>2. bit_mem' \in SUBSET Frame /\ mem_lock' \in Process \cup {"free"}
    BY DEF clearPage, MemInv, MemTypeOK
  <2>3. pc' \in [Process -> {"none", "getPage", "user", "clearPage", "exited"}]
    BY DEF clearPage, MemInv, MemTypeOK
  <2>4. \A q \in Process : pageTable'[q] \in Seq(E) /\ Len(pageTable'[q]) <= numPages'[q]
    <3>1. numPages[p] \in Nat
      BY MemoryAssumption DEF MemInv, MemTypeOK
    <3> QED BY <3>1, <1>1, <1>2, <1>3, <1>4 DEF clearPage, MemInv, MemTypeOK
  <2> QED BY <2>1, <2>2, <2>3, <2>4 DEF clearPage, MemInv, MemTypeOK
<1>6. Progress'
  <2> SUFFICES ASSUME NEW q \in Process
               PROVE  LET n == Len(pageTable'[q]) IN
                      /\ pc'[q] = "none" => n = 0
                      /\ pc'[q] = "getPage" => n < numPages'[q]
                      /\ pc'[q] = "user" => n = numPages'[q] /\ n > 0
                      /\ pc'[q] = "clearPage" => 0 < n /\ n <= numPages'[q]
                      /\ pc'[q] = "exited" => n = 0
    BY DEF Progress
  <2>1. CASE q = p
    <3>1. numPages[p] \in Nat
      BY MemoryAssumption DEF MemInv, MemTypeOK
    <3> QED BY <3>1, <2>1, <1>1, <1>2, <1>3 DEF clearPage, MemInv, MemTypeOK
  <2>2. CASE q # p
    BY <2>2, <1>4 DEF clearPage, MemInv, MemTypeOK, Progress
  <2> QED BY <2>1, <2>2
<1>7. \A q \in Process : q # p => FramesOf(q)' = FramesOf(q)
  BY <1>4 DEF FramesOf
<1>8. FramesOf(p)' = FramesOf(p) \ {f}
  <2>1. f # -1 => \A i \in 2..Len(T) : T[i] # f
    BY <1>1, <1>2 DEF MemInv, FramesDisjoint
  <2>2. FramesOf(p)' = {T[i] : i \in 2..Len(T)} \ {-1}
    <3>1. FramesOf(p)' = {Tail(T)[i] : i \in 1..(Len(T) - 1)} \ {-1}
      <4>1. FramesOf(p)' = {Tail(T)[i] : i \in 1..Len(Tail(T))} \ {-1}
        BY <1>3, Zenon DEF FramesOf
      <4> QED BY <4>1, <1>2
    <3>2. {Tail(T)[i] : i \in 1..(Len(T) - 1)} = {T[i] : i \in 2..Len(T)}
      <4>1. ASSUME NEW i \in 1..(Len(T) - 1)
            PROVE  i + 1 \in 2..Len(T) /\ Tail(T)[i] = T[i + 1]
        BY <1>1, <1>2
      <4>2. ASSUME NEW i \in 2..Len(T)
            PROVE  i - 1 \in 1..(Len(T) - 1) /\ Tail(T)[i - 1] = T[i]
        BY <1>1, <1>2
      <4> QED BY <4>1, <4>2
    <3> QED BY <3>1, <3>2
  <2>3. FramesOf(p) = ({T[i] : i \in 2..Len(T)} \cup {f}) \ {-1}
    BY <1>1, <1>2 DEF FramesOf
  <2> QED BY <2>1, <2>2, <2>3
<1>9. f # -1 => \A q \in Process : q # p => f \notin FramesOf(q)
  <2>1. f # -1 => f \in FramesOf(p)
    BY <1>1, <1>2 DEF FramesOf
  <2> QED BY <2>1 DEF MemInv, FramesDisjoint
<1>10. FramesAccounted'
  <2>1. f = -1 => bit_mem' = bit_mem
    BY DEF clearPage
  <2>2. f # -1 => bit_mem' = bit_mem \ {f}
    BY DEF clearPage
  <2>3. \A q \in Process : -1 \notin FramesOf(q)
    BY DEF FramesOf
  <2> QED BY <2>1, <2>2, <2>3, <1>7, <1>8, <1>9, Zenon DEF FramesAccounted, MemInv
<1>11. FramesDisjoint'
  <2>1. \A q, r \in Process : q # r => FramesOf(q)' \cap FramesOf(r)' = {}
    BY <1>7, <1>8 DEF MemInv, FramesDisjoint
  <2>2. ASSUME NEW q \in Process, NEW i \in 1..Len(pageTable'[q]),
               NEW j \in 1..Len(pageTable'[q]),
               pageTable'[q][i] = pageTable'[q][j], pageTable'[q][i] # -1
        PROVE  i = j
    <3>1. CASE q # p
      BY <3>1, <2>2, <1>4 DEF MemInv, FramesDisjoint
    <3>2. CASE q = p
      <4>1. /\ i + 1 \in 1..Len(T) /\ j + 1 \in 1..Len(T)
            /\ T[i + 1] = T[j + 1] /\ T[i + 1] # -1
        <5>1. i \in 1..(Len(T) - 1) /\ j \in 1..(Len(T) - 1)
          BY <3>2, <2>2, <1>2, <1>3, Zenon
        <5>2. Tail(T)[i] = Tail(T)[j] /\ Tail(T)[i] # -1
          BY <3>2, <2>2, <1>3, Zenon
        <5> QED BY <5>1, <5>2, <1>1, <1>2
      <4>2. i + 1 = j + 1
        BY <4>1 DEF MemInv, FramesDisjoint
      <4> QED BY <4>2
    <3> QED BY <3>1, <3>2
  <2> QED BY <2>1, <2>2 DEF FramesDisjoint
<1> QED BY <1>5, <1>6, <1>10, <1>11 DEF MemInv

LEMMA NextPreserves == MemInv /\ [MemNext]_vars => MemInv'
<1> SUFFICES ASSUME MemInv, [MemNext]_vars PROVE MemInv'
  OBVIOUS
<1>1. ASSUME NEW p \in Process, Load(p) PROVE MemInv'
  BY <1>1, ReservePreserves, MemoryAssumption DEF Load
<1>2. ASSUME NEW p \in Process, NEW q \in Process, Clone(q, p) PROVE MemInv'
  <2>1. numPages[q] \in 1..NumPhysPages
    BY <1>2, MemoryAssumption DEF MemInv, MemTypeOK, Progress, Clone
  <2> QED BY <1>2, <2>1, ReservePreserves DEF Clone
<1>3. ASSUME NEW p \in Process, getPage(p) PROVE MemInv'
  BY <1>3, getPagePreserves
<1>4. ASSUME NEW p \in Process, Exit(p) PROVE MemInv'
  BY <1>4, ExitPreserves
<1>5. ASSUME NEW p \in Process, clearPage(p) PROVE MemInv'
  BY <1>5, clearPagePreserves
<1>6. CASE UNCHANGED vars
  <2>1. FramesDisjoint' /\ FramesAccounted'
    BY <1>6, SameFrames DEF vars, MemInv
  <2> QED BY <1>6, <2>1 DEF vars, MemInv, MemTypeOK, Progress
<1> QED BY <1>1, <1>2, <1>3, <1>4, <1>5, <1>6 DEF MemNext

(* MemTypeOK holds: no address space ever has more pages than it needs. *)
THEOREM MemoryTypeCorrect == MemSpec => []MemTypeOK
<1>1. MemInv => MemTypeOK
  BY DEF MemInv
<1> QED BY <1>1, InitInv, NextPreserves, PTL DEF MemSpec

(* Two pages never share a frame, although mem_lock protects single calls  *)
(* of the memory manager and not the loops of AddrSpace around them.       *)
THEOREM PagesApart == MemSpec => []FramesDisjoint
<1>1. MemInv => FramesDisjoint
  BY DEF MemInv
<1> QED BY <1>1, InitInv, NextPreserves, PTL DEF MemSpec

(* The bitmap marks exactly the frames in some page table: Exec, Fork and  *)
(* Exit, in any interleaving, lose no frame and free none in use.          *)
THEOREM NoFrameLost == MemSpec => []FramesAccounted
<1>1. MemInv => FramesAccounted
  BY DEF MemInv
<1> QED BY <1>1, InitInv, NextPreserves, PTL DEF MemSpec
-----------------------------------------------------------------------------
(* Without time slices one process at a time is in the memory manager, and *)
(* there is a clear frame for each page it still needs.                    *)
FlatInv ==
    ~randomYield =>
       /\ mem_lock = "free"
       /\ GetPageAllocates
       /\ \A p, q \in Process :
             pc[p] \in {"getPage", "clearPage"} /\ pc[q] \in {"getPage", "clearPage"}
                => p = q
       /\ \A p \in Process :
             pc[p] = "getPage" => numPages[p] - Len(pageTable[p]) <= freePages

LEMMA FlatInit == MemInit => FlatInv
BY DEF MemInit, FlatInv, GetPageAllocates

LEMMA MarkedFinite ==
    ASSUME MemInv
    PROVE  /\ IsFiniteSet(bit_mem) /\ Cardinality(bit_mem) \in Nat
           /\ Unmarked = {} => freePages = 0
<1>1. IsFiniteSet(Frame) /\ Cardinality(Frame) = NumPhysPages
  BY FS_Interval, MemoryAssumption DEF Frame
<1>2. bit_mem \in SUBSET Frame
  BY DEF MemInv, MemTypeOK
<1>3. IsFiniteSet(bit_mem) /\ Cardinality(bit_mem) \in Nat
  BY <1>1, <1>2, FS_Subset, FS_CardinalityType
<1>4. ASSUME Unmarked = {} PROVE freePages = 0
  <2>1. bit_mem = Frame
    BY <1>2, <1>4 DEF Unmarked
  <2> QED BY <2>1, <1>1, MemoryAssumption DEF freePages
<1> QED BY <1>3, <1>4

LEMMA FlatReserve ==
    ASSUME MemInv, FlatInv, NEW p \in Process, NEW n \in 1..NumPhysPages, Reserve(p, n)
    PROVE  FlatInv'
<1> SUFFICES ASSUME ~randomYield
             PROVE  FlatInv'
  BY DEF Reserve, FlatInv
<1>1. mem_lock' = "free" /\ GetPageAllocates'
  BY DEF Reserve, FlatInv, GetPageAllocates
<1>2. \A q \in Process \ {p} : pc[q] \notin {"getPage", "clearPage"}
  BY DEF Reserve, HasCPU, Acquirable
<1>3. /\ pc' = [pc EXCEPT ![p] = "getPage"]
      /\ pc \in [Process -> {"none", "getPage", "user", "clearPage", "exited"}]
  BY DEF Reserve, MemInv, MemTypeOK
<1>4. \A q, r \in Process :
         pc'[q] \in {"getPage", "clearPage"} /\ pc'[r] \in {"getPage", "clearPage"} => q = r
  BY <1>2, <1>3
<1>5. ASSUME NEW q \in Process, pc'[q] = "getPage"
      PROVE  numPages'[q] - Len(pageTable'[q]) <= freePages'
  <2>1. q = p
    BY <1>2, <1>3, <1>5
  <2>2. numPages'[p] = n /\ Len(pageTable'[p]) = 0 /\ freePages' = freePages
    BY DEF Reserve, MemInv, MemTypeOK, Progress, freePages
  <2>3. n <= freePages
    BY DEF Reserve
  <2> QED BY <2>1, <2>2, <2>3
<1> QED BY <1>1, <1>4, <1>5 DEF FlatInv

LEMMA FlatGetPage ==
    ASSUME MemInv, FlatInv, NEW p \in Process, getPage(p)
    PROVE  FlatInv'
<1> SUFFICES ASSUME ~randomYield
             PROVE  FlatInv'
  BY DEF getPage, FlatInv
<1> DEFINE T == pageTable[p]
           U == Append(T, Find)
<1>1. /\ T \in Seq(Frame \cup {-1}) /\ Len(T) \in Nat
      /\ numPages[p] \in Nat /\ Len(T) < numPages[p]
  BY LenProperties, MemoryAssumption DEF MemInv, MemTypeOK, Progress, getPage
<1>2. freePages \in Int /\ freePages > 0
  <2>1. numPages[p] - Len(T) <= freePages
    BY DEF FlatInv, getPage
  <2>2. freePages \in Int
    BY MarkedFinite, MemoryAssumption DEF freePages
  <2> QED BY <2>1, <2>2, <1>1
<1>3. Find \in Unmarked /\ Find # -1
  <2>1. Unmarked # {}
    BY <1>2, MarkedFinite
  <2> QED BY <2>1, FindClear, MemoryAssumption DEF MemInv, Unmarked, Frame
<1>4. freePages' = freePages - 1
  <2>1. bit_mem' = bit_mem \cup {Find} /\ Find \notin bit_mem
    BY <1>3 DEF getPage, Unmarked
  <2>2. Cardinality(bit_mem') = Cardinality(bit_mem) + 1
    BY <2>1, MarkedFinite, FS_AddElement
  <2> QED BY <2>2, MarkedFinite, MemoryAssumption DEF freePages
<1>5. /\ pageTable'[p] = U
      /\ \A q \in Process : q # p => pageTable'[q] = pageTable[q]
  BY DEF getPage, MemInv
<1>6. /\ Len(U) = Len(T) + 1
      /\ \A i \in 1..Len(T) : U[i] = T[i]
      /\ U[Len(T) + 1] = Find
  <2>1. Find \in Frame \cup {-1}
    BY FindClear DEF MemInv
  <2> QED BY <2>1, <1>1, AppendProperties
<1>7. mem_lock' = "free"
  BY DEF getPage, FlatInv
<1>8. GetPageAllocates'
  <2> SUFFICES ASSUME NEW q \in Process, NEW i \in 1..Len(pageTable'[q])
               PROVE  pageTable'[q][i] # -1
    BY DEF GetPageAllocates
  <2>1. CASE q = p
    <3>1. i \in 1..(Len(T) + 1) /\ pageTable'[q][i] = U[i]
      BY <2>1, <1>5, <1>6
    <3>2. \A k \in 1..Len(T) : T[k] # -1
      BY DEF FlatInv, GetPageAllocates
    <3>3. CASE i = Len(T) + 1
      BY <3>1, <3>3, <1>3, <1>6
    <3>4. CASE i # Len(T) + 1
      BY <3>1, <3>2, <3>4, <1>1, <1>6
    <3> QED BY <3>3, <3>4
  <2>2. CASE q # p
    BY <2>2, <1>5 DEF FlatInv, GetPageAllocates
  <2> QED BY <2>1, <2>2
<1>9. /\ \A q \in Process : q # p => pc'[q] = pc[q]
      /\ pc[p] = "getPage"
      /\ \A q \in Process : pc'[q] = "getPage" => pc[q] = "getPage"
      /\ \A q \in Process : pc'[q] \in {"getPage", "clearPage"}
                                => pc[q] \in {"getPage", "clearPage"}
  BY DEF getPage, MemInv, MemTypeOK
<1>10. \A q, r \in Process :
         pc'[q] \in {"getPage", "clearPage"} /\ pc'[r] \in {"getPage", "clearPage"} => q = r
  BY <1>9 DEF FlatInv
<1>11. ASSUME NEW q \in Process, pc'[q] = "getPage"
       PROVE  numPages'[q] - Len(pageTable'[q]) <= freePages'
  <2>1. q = p
    BY <1>9, <1>11 DEF FlatInv
  <2>2. numPages' = numPages /\ numPages[p] - Len(T) <= freePages
    BY DEF getPage, FlatInv
  <2> QED BY <2>1, <2>2, <1>1, <1>2, <1>4, <1>5, <1>6
<1> QED BY <1>7, <1>8, <1>10, <1>11 DEF FlatInv

LEMMA FlatExit ==
    ASSUME MemInv, FlatInv, NEW p \in Process, Exit(p)
    PROVE  FlatInv'
<1> SUFFICES ASSUME ~randomYield
             PROVE  FlatInv'
  BY DEF Exit, FlatInv
<1>1. mem_lock' = "free" /\ GetPageAllocates'
  BY DEF Exit, FlatInv, GetPageAllocates
<1>2. \A q \in Process \ {p} : pc[q] \notin {"getPage", "clearPage"}
  BY DEF Exit, HasCPU, Acquirable, FlatInv
<1>3. /\ pc' = [pc EXCEPT ![p] = "clearPage"]
      /\ pc \in [Process -> {"none", "getPage", "user", "clearPage", "exited"}]
  BY DEF Exit, MemInv, MemTypeOK
<1>4. \A q, r \in Process :
         pc'[q] \in {"getPage", "clearPage"} /\ pc'[r] \in {"getPage", "clearPage"} => q = r
  BY <1>2, <1>3
<1>5. \A q \in Process : pc'[q] # "getPage"
  BY <1>2, <1>3
<1> QED BY <1>1, <1>4, <1>5 DEF FlatInv

LEMMA FlatClearPage ==
    ASSUME MemInv, FlatInv, NEW p \in Process, clearPage(p)
    PROVE  FlatInv'
<1> SUFFICES ASSUME ~randomYield
             PROVE  FlatInv'
  BY DEF clearPage, FlatInv
<1> DEFINE T == pageTable[p]
<1>1. T \in Seq(Frame \cup {-1}) /\ Len(T) \in Nat /\ Len(T) > 0
  BY LenProperties DEF MemInv, Progress, clearPage
<1>2. /\ Len(Tail(T)) = Len(T) - 1
      /\ \A i \in 1..(Len(T) - 1) : Tail(T)[i] = T[i + 1]
      /\ Head(T) = T[1]
  <2>1. T # <<>>
    BY <1>1, EmptySeq
  <2> QED BY <1>1, <2>1, HeadTailProperties
<1>3. \A k \in 1..Len(T) : T[k] # -1
  BY DEF FlatInv, GetPageAllocates
<1>4. mem_lock' = "free"
  BY <1>1, <1>2, <1>3 DEF clearPage
<1>5. /\ pageTable'[p] = Tail(T)
      /\ \A q \in Process : q # p => pageTable'[q] = pageTable[q]
  BY DEF clearPage, MemInv
<1>6. GetPageAllocates'
  <2> SUFFICES ASSUME NEW q \in Process, NEW i \in 1..Len(pageTable'[q])
               PROVE  pageTable'[q][i] # -1
    BY DEF GetPageAllocates
  <2>1. CASE q = p
    <3>1. i \in 1..(Len(T) - 1) /\ pageTable'[q][i] = T[i + 1]
      BY <2>1, <1>2, <1>5
    <3> QED BY <3>1, <1>1, <1>3
  <2>2. CASE q # p
    BY <2>2, <1>5 DEF FlatInv, GetPageAllocates
  <2> QED BY <2>1, <2>2
<1>7. /\ \A q \in Process : q # p => pc'[q] = pc[q]
      /\ pc[p] = "clearPage" /\ pc'[p] # "getPage"
      /\ \A q \in Process : pc'[q] \in {"getPage", "clearPage"}
                                => pc[q] \in {"getPage", "clearPage"}
  BY DEF clearPage, MemInv, MemTypeOK
<1>8. \A q, r \in Process :
         pc'[q] \in {"getPage", "clearPage"} /\ pc'[r] \in {"getPage", "clearPage"} => q = r
  BY <1>7 DEF FlatInv
<1>9. \A q \in Process : pc'[q] # "getPage"
  BY <1>7 DEF FlatInv
<1> QED BY <1>4, <1>6, <1>8, <1>9 DEF FlatInv

LEMMA FlatNext == MemInv /\ FlatInv /\ [MemNext]_vars => FlatInv'
<1> SUFFICES ASSUME MemInv, FlatInv, [MemNext]_vars PROVE FlatInv'
  OBVIOUS
<1>1. ASSUME NEW p \in Process, Load(p) PROVE FlatInv'
  BY <1>1, FlatReserve, MemoryAssumption DEF Load
<1>2. ASSUME NEW p \in Process, NEW q \in Process, Clone(q, p) PROVE FlatInv'
  <2>1. numPages[q] \in 1..NumPhysPages
    BY <1>2, MemoryAssumption DEF MemInv, MemTypeOK, Progress, Clone
  <2> QED BY <1>2, <2>1, FlatReserve DEF Clone
<1>3. ASSUME NEW p \in Process, getPage(p) PROVE FlatInv'
  BY <1>3, FlatGetPage
<1>4. ASSUME NEW p \in Process, Exit(p) PROVE FlatInv'
  BY <1>4, FlatExit
<1>5. ASSUME NEW p \in Process, clearPage(p) PROVE FlatInv'
  BY <1>5, FlatClearPage
<1>6. CASE UNCHANGED vars
  BY <1>6 DEF vars, FlatInv, GetPageAllocates, freePages
<1> QED BY <1>1, <1>2, <1>3, <1>4, <1>5, <1>6 DEF MemNext

(* Without time slices every page of an address space gets a frame: the    *)
(* answer of freePages holds until the last getPage of the loop.           *)
THEOREM EveryPageHasAFrame == MemSpec => []FlatGetPageAllocates
<1>1. FlatInv => FlatGetPageAllocates
  BY DEF FlatInv, FlatGetPageAllocates
<1> QED BY <1>1, InitInv, FlatInit, NextPreserves, FlatNext, PTL DEF MemSpec

(* The three together, for any number of frames and of processes. *)
THEOREM FramesAreKept == MemSpec => []FramesKept
<1>1. FramesDisjoint /\ FramesAccounted /\ FlatGetPageAllocates => FramesKept
  BY DEF FramesKept
<1> QED BY <1>1, PagesApart, NoFrameLost, EveryPageHasAFrame, PTL
=============================================================================
