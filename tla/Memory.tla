------------------------------- MODULE Memory -------------------------------
(***************************************************************************)
(* Physical memory: userprog/MemoryManager.cc and the constructors, Clone  *)
(* and destructor of AddrSpace (userprog/addrspace.cc, without VM) that    *)
(* take and return its page frames.                                        *)
(*                                                                         *)
(* mem_lock protects each call, not the sequence of calls: freePages tells *)
(* that there are enough frames, and getPage is then called once per page. *)
(***************************************************************************)
EXTENDS Integers, Sequences, FiniteSets

CONSTANTS
    Process,        \* the address spaces created during a run
    NumPhysPages,
    ProgramSize     \* numbers of pages of the executables

Frame == 0..(NumPhysPages - 1)

ASSUME MemoryAssumption ==
    /\ NumPhysPages \in Nat \ {0}
    /\ ProgramSize \subseteq 1..NumPhysPages     \* ASSERT of the constructor

VARIABLES
    randomYield,    \* nachos -rs: a thread may lose the CPU at any lock
    bit_mem,        \* frames marked in the bitmap
    mem_lock,       \* owner, or "free"
    pc,
    numPages,
    pageTable       \* physicalPage of the entries not cleared yet

vars == <<randomYield, bit_mem, mem_lock, pc, numPages, pageTable>>

MemTypeOK ==
    /\ randomYield \in BOOLEAN
    /\ bit_mem \in SUBSET Frame
    /\ mem_lock \in Process \cup {"free"}
    /\ pc \in [Process -> {"none", "getPage", "user", "clearPage", "exited"}]
    /\ numPages \in [Process -> 0..NumPhysPages]
    /\ \A p \in Process : /\ pageTable[p] \in Seq(Frame \cup {-1})
                          /\ Len(pageTable[p]) <= numPages[p]

MemInit ==
    /\ randomYield \in BOOLEAN
    /\ bit_mem = {}
    /\ mem_lock = "free"
    /\ pc = [p \in Process |-> "none"]
    /\ numPages = [p \in Process |-> 0]
    /\ pageTable = [p \in Process |-> <<>>]

-----------------------------------------------------------------------------
(* Lock::Acquire lets the owner in again. *)
Acquirable(p) == mem_lock \in {"free", p}

(* Without time slices no other thread is in the middle of a sequence of   *)
(* calls, unless it waits for mem_lock.                                    *)
HasCPU(p) ==
    randomYield \/ \A q \in Process \ {p} :
                      pc[q] \in {"getPage", "clearPage"} => ~Acquirable(q)

freePages == NumPhysPages - Cardinality(bit_mem)

(* freePages finds enough memory for n pages of a new address space p. *)
Reserve(p, n) ==
    /\ pc[p] = "none"
    /\ HasCPU(p) /\ mem_lock = "free"
    /\ n <= freePages
    /\ numPages' = [numPages EXCEPT ![p] = n]
    /\ pc' = [pc EXCEPT ![p] = "getPage"]
    /\ UNCHANGED <<randomYield, bit_mem, mem_lock, pageTable>>

(* Exec: AddrSpace::AddrSpace(executable). *)
Load(p) == \E n \in ProgramSize : Reserve(p, n)

(* Fork: AddrSpace::Clone by process q. *)
Clone(q, p) == pc[q] = "user" /\ Reserve(p, numPages[q])

Unmarked == Frame \ bit_mem
Find == IF Unmarked = {} THEN -1
        ELSE CHOOSE f \in Unmarked : \A g \in Unmarked : f <= g

getPage(p) ==
    LET table == Append(pageTable[p], Find) IN
    /\ pc[p] = "getPage"
    /\ HasCPU(p) /\ mem_lock = "free"
    /\ bit_mem' = bit_mem \cup ({Find} \ {-1})
    /\ pageTable' = [pageTable EXCEPT ![p] = table]
    /\ pc' = [pc EXCEPT ![p] = IF Len(table) = numPages[p] THEN "user" ELSE "getPage"]
    /\ UNCHANGED <<randomYield, mem_lock, numPages>>

(* ExitProcess calls ~AddrSpace. *)
Exit(p) ==
    /\ pc[p] = "user"
    /\ HasCPU(p)
    /\ pc' = [pc EXCEPT ![p] = "clearPage"]
    /\ UNCHANGED <<randomYield, bit_mem, mem_lock, numPages, pageTable>>

(* Mutant of clearPage: mem_lock is not released. *)
clearPageKeepsLock(p) ==
    LET f == Head(pageTable[p]) IN
    /\ pc[p] = "clearPage"
    /\ HasCPU(p) /\ Acquirable(p)
    /\ bit_mem' = bit_mem \ {f}
    /\ mem_lock' = p
    /\ pageTable' = [pageTable EXCEPT ![p] = Tail(@)]
    /\ pc' = [pc EXCEPT ![p] = IF Len(pageTable[p]) = 1 THEN "exited" ELSE "clearPage"]
    /\ UNCHANGED <<randomYield, numPages>>

(* Mutant of clearPage: frame 0 is taken for an error. *)
clearPageNotZero(p) ==
    LET f == Head(pageTable[p]) IN
    /\ pc[p] = "clearPage"
    /\ HasCPU(p) /\ Acquirable(p)
    /\ bit_mem' = bit_mem \ ({f} \ {0})
    /\ mem_lock' = "free"
    /\ pageTable' = [pageTable EXCEPT ![p] = Tail(@)]
    /\ pc' = [pc EXCEPT ![p] = IF Len(pageTable[p]) = 1 THEN "exited" ELSE "clearPage"]
    /\ UNCHANGED <<randomYield, numPages>>

(* The loop of ~AddrSpace, one clearPage.  The early return for an index   *)
(* that is no frame keeps mem_lock.                                        *)
clearPage(p) ==
    LET f == Head(pageTable[p]) IN
    /\ pc[p] = "clearPage"
    /\ HasCPU(p) /\ Acquirable(p)
    /\ IF f = -1 THEN mem_lock' = p /\ UNCHANGED bit_mem
                 ELSE mem_lock' = "free" /\ bit_mem' = bit_mem \ {f}
    /\ pageTable' = [pageTable EXCEPT ![p] = Tail(@)]
    /\ pc' = [pc EXCEPT ![p] = IF Len(pageTable[p]) = 1 THEN "exited" ELSE "clearPage"]
    /\ UNCHANGED <<randomYield, numPages>>

MemNext ==
    \E p \in Process :
       \/ Load(p)
       \/ \E q \in Process : Clone(q, p)
       \/ getPage(p)
       \/ Exit(p)
       \/ clearPage(p)

MemSpec == MemInit /\ [][MemNext]_vars

(* A thread inside the kernel goes on as soon as it can acquire mem_lock. *)
FairMemSpec ==
    MemSpec /\ \A p \in Process : WF_vars(getPage(p)) /\ WF_vars(clearPage(p))
-----------------------------------------------------------------------------
FramesOf(p) == {pageTable[p][i] : i \in 1..Len(pageTable[p])} \ {-1}

(* No frame belongs to two address spaces, or to two pages of one: what a  *)
(* program stores no other program sees.                                   *)
FramesDisjoint ==
    /\ \A p, q \in Process : p # q => FramesOf(p) \cap FramesOf(q) = {}
    /\ \A p \in Process : \A i, j \in 1..Len(pageTable[p]) :
          pageTable[p][i] = pageTable[p][j] /\ pageTable[p][i] # -1 => i = j

(* Exactly the frames of the address spaces are marked: Exec, Fork and     *)
(* Exit lose no memory.                                                    *)
FramesAccounted == bit_mem = UNION {FramesOf(p) : p \in Process}

(* HW2_WRITEUP:46: getPage allocates the first clear page; after the check *)
(* of freePages there is one for every page.                               *)
GetPageAllocates ==
    \A p \in Process : \A i \in 1..Len(pageTable[p]) : pageTable[p][i] # -1

(* Without time slices it does. *)
FlatGetPageAllocates == ~randomYield => GetPageAllocates

(* The frames are where the address spaces say: none is shared, none lost, *)
(* and without time slices every page has one.                             *)
FramesKept == FramesDisjoint /\ FramesAccounted /\ FlatGetPageAllocates

(* Without time slices a process that exits gets through ~AddrSpace: no    *)
(* thread that has left the memory manager holds mem_lock.                 *)
FlatExitCompletes ==
    \A p \in Process : ~randomYield /\ pc[p] = "clearPage" ~> pc[p] = "exited"
=============================================================================
