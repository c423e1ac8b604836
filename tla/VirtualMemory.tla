--------------------------- MODULE VirtualMemory ---------------------------
(***************************************************************************)
(* Demand paging: vm/VMManager.cc with its LRU list, vm/SwapManager.cc,    *)
(* and the VM variants of userprog/addrspace.cc.  Every page of a process  *)
(* has a slot of the swap file; a page fault brings it into a frame, if    *)
(* need be in place of the page at the tail of the list.  Without the      *)
(* random timer the kernel is not preempted and the swap file is a UNIX    *)
(* file, so each of these operations is one step.                          *)
(***************************************************************************)
EXTENDS Integers, Sequences

CONSTANTS
    Pid,            \* process ids, each used once
    Size,           \* numbers of pages a program may need
    CodePages,      \* how many of them its file fills, at most
    NumFrames, SwapSize,
    Text,           \* what a program file puts on a page
    Value,          \* what a store puts there
    Unknown,        \* what nobody has written
    MaxStores       \* bound on the stores of all processes

NoProcess == "no process"

ASSUME VMAssumption ==
    /\ Size \subseteq Nat /\ CodePages \in Nat
    /\ NumFrames \in Nat \ {0} /\ SwapSize \in Nat
    /\ NoProcess \notin Pid

VARIABLES
    state,          \* "none", "running" or "exited"
    pageTables,     \* entries of each process, from virtual page 0 on
    used, frames,   \* MemoryManager's bitmap, and the contents of memory
    PIDs, entries, swap,    \* owner, virtual page and contents of each slot
    lru, tail,      \* the list from its head, and where "tail" points: 0 is NULL
    written,        \* what each process last wrote to its pages
    strayed,        \* some page was written back to another process's slot
    stores,
    fault           \* why the kernel died, or "none"

vmVars == <<state, pageTables, used, frames, PIDs, entries, swap, lru, tail,
            written, strayed, stores, fault>>

PhysPage == 0..NumFrames - 1
Slot == 0..SwapSize - 1
Absent == [valid |-> FALSE, physicalPage |-> -1, dirty |-> FALSE]
Node(p, v) == [pid |-> p, vpn |-> v]

VMInit ==
    /\ state = [p \in Pid |-> "none"]
    /\ pageTables = [p \in Pid |-> <<>>]
    /\ used = {} /\ frames = [f \in PhysPage |-> Unknown]
    /\ PIDs = [s \in Slot |-> NoProcess]
    /\ entries = [s \in Slot |-> 0]
    /\ swap = [s \in Slot |-> Unknown]
    /\ lru = <<>> /\ tail = 0
    /\ written = [p \in Pid |-> <<>>]
    /\ strayed = FALSE /\ stores = 0 /\ fault = "none"

Pages(p) == DOMAIN pageTables[p]
Up(p) == fault = "none" /\ state[p] = "running"

-----------------------------------------------------------------------------
(* SwapManager.  A slot is in use when it has an owner, as the bitmap is   *)
(* set and cleared with PIDs.                                              *)
FreeSlots == {s \in Slot : PIDs[s] = NoProcess}

Holds(s, p, v) == PIDs[s] = p /\ entries[s] = v

findPage(p, v) == CHOOSE s \in Slot : Holds(s, p, v) /\ \A x \in 0..s - 1 : ~Holds(x, p, v)

(* What BitMap::Find gives to n pages, one after the other: the free slots *)
(* in order.                                                               *)
Found(n) ==
    {slot \in [1..n -> FreeSlots] :
        /\ \A u, v \in 1..n : u < v => slot[u] < slot[v]
        /\ \A v \in 1..n, s \in FreeSlots : s < slot[v] => \E u \in 1..n : slot[u] = s}

(* addPage of the pages 1..n of the new process p.  A page without a       *)
(* buffer has what its slot held before: nothing the program may rely on,  *)
(* so the model forgets what free slots and free frames hold.  No process  *)
(* is started that does not fit into the swap file.                        *)
addPages(p, n, contents) ==
    \E slot \in Found(n) :
        LET PagesAt(s) == {v \in 1..n : slot[v] = s}
            PageOf(s) == CHOOSE v \in 1..n : slot[v] = s
        IN
        /\ PIDs' = [s \in Slot |-> IF PagesAt(s) # {} THEN p ELSE PIDs[s]]
        /\ entries' = [s \in Slot |-> IF PagesAt(s) # {} THEN PageOf(s) ELSE entries[s]]
        /\ swap' = [s \in Slot |-> IF PagesAt(s) # {} /\ PageOf(s) \in DOMAIN contents
                                     THEN contents[PageOf(s)] ELSE swap[s]]

(* AddrSpace::AddrSpace: the pages of the file, then the others. *)
LoadSpace(p, n, code) ==
    /\ fault = "none" /\ state[p] = "none"
    /\ state' = [state EXCEPT ![p] = "running"]
    /\ pageTables' = [pageTables EXCEPT ![p] = [i \in 1..n |-> Absent]]
    /\ addPages(p, n, [i \in 1..code |-> Text])
    /\ written' = [written EXCEPT
                     ![p] = [i \in 1..n |-> IF i <= code THEN Text ELSE Unknown]]
    /\ UNCHANGED <<used, frames, lru, tail, strayed, stores, fault>>

(* What the child finds on page i: AddPage from memory or CopyPage. *)
Cloned(p, i) ==
    LET e == pageTables[p][i] IN
    IF e.valid THEN frames[e.physicalPage] ELSE swap[findPage(p, i)]

(* AddrSpace::Clone, for the fork of p. *)
CloneSpace(p, q) ==
    /\ Up(p) /\ state[q] = "none"
    /\ state' = [state EXCEPT ![q] = "running"]
    /\ pageTables' = [pageTables EXCEPT ![q] = [i \in Pages(p) |-> Absent]]
    /\ addPages(q, Len(pageTables[p]), [i \in Pages(p) |-> Cloned(p, i)])
    /\ written' = [written EXCEPT ![q] = written[p]]
    /\ UNCHANGED <<used, frames, lru, tail, strayed, stores, fault>>

-----------------------------------------------------------------------------
(* A store of the running program, or of the kernel through Translate. *)
Store(p, i, v) ==
    /\ Up(p) /\ pageTables[p][i].valid /\ stores < MaxStores
    /\ stores' = stores + 1
    /\ frames' = [frames EXCEPT ![pageTables[p][i].physicalPage] = v]
    /\ pageTables' = [pageTables EXCEPT ![p][i].dirty = TRUE]
    /\ written' = [written EXCEPT ![p][i] = v]
    /\ UNCHANGED <<state, used, PIDs, entries, swap, lru, tail, strayed, fault>>

(* The page table entry and the list after page i of p came into frame f.  *)
Present(f) == [valid |-> TRUE, physicalPage |-> f, dirty |-> FALSE]

(* LRU::AddPage and replace_head. *)
AddPage(p, i) ==
    /\ lru' = <<Node(p, i)>> \o lru
    /\ tail' = IF lru = <<>> THEN 1 ELSE IF tail = 0 THEN 0 ELSE tail + 1

(* Swap while memory has a free frame. *)
SwapIn(p, i) ==
    /\ Up(p) /\ ~pageTables[p][i].valid /\ used # PhysPage
    /\ LET f == CHOOSE x \in PhysPage \ used : \A y \in PhysPage \ used : x <= y IN
       /\ used' = used \cup {f}
       /\ frames' = [frames EXCEPT ![f] = swap[findPage(p, i)]]
       /\ pageTables' = [pageTables EXCEPT ![p][i] = Present(f)]
    /\ AddPage(p, i)
    /\ UNCHANGED <<state, PIDs, entries, swap, written, strayed, stores, fault>>

Die(why) ==
    /\ fault' = why
    /\ UNCHANGED <<state, pageTables, used, frames, PIDs, entries, swap, lru, tail,
                   written, strayed, stores>>

(* Mutant of writePage: a dirty page is dropped like a clean one. *)
writePageNever(p, victim, f) == swap

(* The search of writePage ends before ASSERT(false). *)
InSwap(p, v) == v \in Pages(p)

(* writePage, which Swap gives the pid of the process that faulted. *)
writePage(p, victim, f) ==
    IF pageTables[victim.pid][victim.vpn].dirty
      THEN [swap EXCEPT ![findPage(p, victim.vpn)] = frames[f]]
      ELSE swap

(* Swap while memory is full: the victim is the page at the tail, and      *)
(* Remove_LRU_Page cuts the list there.                                    *)
SwapOut(p, i) ==
    /\ Up(p) /\ ~pageTables[p][i].valid /\ used = PhysPage
    /\ IF tail = 0 THEN Die("null tail")
       ELSE LET victim == lru[tail]
                e == pageTables[victim.pid][victim.vpn]
                f == e.physicalPage
            IN
            IF e.dirty /\ ~InSwap(p, victim.vpn) THEN Die("assert")
            ELSE /\ swap' = writePage(p, victim, f)
                 /\ frames' = [frames EXCEPT ![f] = swap'[findPage(p, i)]]
                 /\ pageTables' = [pageTables EXCEPT
                                    ![victim.pid][victim.vpn].valid = FALSE,
                                    ![p][i] = Present(f)]
                 /\ lru' = <<Node(p, i)>> \o SubSeq(lru, 1, tail - 1)
                 /\ strayed' = (strayed \/ (e.dirty /\ victim.pid # p))
                 /\ UNCHANGED <<state, used, PIDs, entries, tail, written, stores, fault>>

(* The frames that LRU::RemovePage clears and those that ~AddrSpace does.  *)
Listed(p) ==
    {pageTables[p][lru[k].vpn].physicalPage : k \in {j \in 1..Len(lru) : lru[j].pid = p}}

ValidFrames(p) ==
    {pageTables[p][i].physicalPage : i \in {j \in Pages(p) : pageTables[p][j].valid}}

Cleared(p) == Listed(p) \cup ValidFrames(p)

(* LRU::RemovePage keeps the nodes of the others, in order.  "if( tail     *)
(* =current)" assigns: tail ends up at what followed the last node that    *)
(* was removed.                                                            *)
Others(p, n) ==
    {kept \in [1..n -> {j \in 1..Len(lru) : lru[j].pid # p}] :
        /\ \A j, k \in 1..n : j < k => kept[j] < kept[k]
        /\ \A j \in 1..Len(lru) : lru[j].pid # p => \E k \in 1..n : kept[k] = j}

RemovePage(p) ==
    LET mine == {j \in 1..Len(lru) : lru[j].pid = p}
        lastMine == CHOOSE j \in mine : \A k \in mine : k <= j
    IN
    \/ mine = {} /\ UNCHANGED <<lru, tail>>
    \/ /\ mine # {}
       /\ \E n \in 0..Len(lru) : \E kept \in Others(p, n) :
             /\ lru' = [k \in 1..n |-> lru[kept[k]]]
             /\ tail' = IF lastMine = Len(lru) THEN 0
                        ELSE CHOOSE k \in 1..n : kept[k] = lastMine + 1

(* Mutant of removePages: the slots keep their owner. *)
removePagesBitmap(p) == UNCHANGED <<PIDs, entries, swap>>

(* SwapManager::removePages. *)
removePages(p) ==
    /\ PIDs' = [s \in Slot |-> IF PIDs[s] = p THEN NoProcess ELSE PIDs[s]]
    /\ entries' = [s \in Slot |-> IF PIDs[s] = p THEN 0 ELSE entries[s]]
    /\ swap' = [s \in Slot |-> IF PIDs[s] = p THEN Unknown ELSE swap[s]]

(* ExitProcess: RemovePages, then the destructor. *)
ExitSpace(p) ==
    /\ Up(p)
    /\ state' = [state EXCEPT ![p] = "exited"]
    /\ RemovePage(p)
    /\ removePages(p)
    /\ used' = used \ Cleared(p)
    /\ frames' = [f \in PhysPage |-> IF f \in Cleared(p) THEN Unknown ELSE frames[f]]
    /\ pageTables' = [pageTables EXCEPT ![p] = <<>>]
    /\ written' = [written EXCEPT ![p] = <<>>]
    /\ UNCHANGED <<strayed, stores, fault>>

VMNext ==
    \E p \in Pid :
        \/ \E n \in Size : LoadSpace(p, n, IF CodePages < n THEN CodePages ELSE n)
        \/ \E q \in Pid : CloneSpace(p, q)
        \/ \E i \in Pages(p), v \in Value : Store(p, i, v)
        \/ \E i \in Pages(p) : SwapIn(p, i) \/ SwapOut(p, i)
        \/ ExitSpace(p)

VMSpec == VMInit /\ [][VMNext]_vmVars
-----------------------------------------------------------------------------
AllPages == UNION {{Node(p, i) : i \in Pages(p)} : p \in Pid}
PTE(n) == pageTables[n.pid][n.vpn]
InMemory == {n \in AllPages : PTE(n).valid}

(* Frames and pages in memory match one to one. *)
FramesExact ==
    /\ used = {PTE(n).physicalPage : n \in InMemory}
    /\ \A m, n \in InMemory : PTE(m).physicalPage = PTE(n).physicalPage => m = n

(* Every page of a running process has exactly one slot of the swap file,  *)
(* and no other slot is taken (VMManager.cc:229: "if its in main memory,   *)
(* its in the swap file as well").                                         *)
SwapExact ==
    /\ \A n \in AllPages : \E s \in Slot : Holds(s, n.pid, n.vpn)
    /\ \A s \in Slot \ FreeSlots : Node(PIDs[s], entries[s]) \in AllPages
    /\ \A s, t \in Slot \ FreeSlots : Holds(t, PIDs[s], entries[s]) => s = t

(* A page holds what its process last wrote there, whatever was swapped    *)
(* out, forked and reused since, as long as no dirty page of one process   *)
(* was written back for another, which VMManager.cc:238 does.  One process *)
(* alone has its pages written back to its own slots, and never trips over *)
(* ASSERT(false) of writePage or over the tail.                            *)
Coherent ==
    /\ ~strayed => \A n \in AllPages :
          written[n.pid][n.vpn] # Unknown =>
             written[n.pid][n.vpn] = Cloned(n.pid, n.vpn)
    /\ (\A p, q \in Pid : p # q => state[p] = "none" \/ state[q] = "none") =>
          fault = "none" /\ ~strayed

(* The list holds the pages in memory and tail is its end. *)
ListExact ==
    /\ {lru[j] : j \in 1..Len(lru)} = InMemory
    /\ \A j, k \in 1..Len(lru) : lru[j] = lru[k] => j = k
    /\ tail = Len(lru)
    /\ fault # "null tail"

(* Page tables, bitmap, swap file and LRU list agree: no frame is shared by *)
(* two pages, leaked, or free while in use, although RemovePage and         *)
(* ~AddrSpace both clear frames; every page has its one slot; and until a   *)
(* process exits (RemovePage loses the tail) a victim is always found.      *)
BookkeepingExact ==
    /\ FramesExact
    /\ SwapExact
    /\ (\A p \in Pid : state[p] # "exited") => ListExact

(* The inductive invariant behind these.  What is in the variables: ...    *)
Content == Value \cup {Text, Unknown}
PageTableEntry ==
    [valid : BOOLEAN, physicalPage : PhysPage \cup {-1}, dirty : BOOLEAN]

VMTypeOK ==
    /\ state \in [Pid -> {"none", "running", "exited"}]
    /\ pageTables \in [Pid -> Seq(PageTableEntry)]
    /\ used \subseteq PhysPage /\ frames \in [PhysPage -> Content]
    /\ PIDs \in [Slot -> Pid \cup {NoProcess}]
    /\ entries \in [Slot -> Nat] /\ swap \in [Slot -> Content]
    /\ lru \in Seq([pid : Pid, vpn : Nat]) /\ tail \in 0..Len(lru)
    /\ written \in [Pid -> Seq(Content)]
    /\ strayed \in BOOLEAN /\ stores \in Nat
    /\ \A p \in Pid : /\ DOMAIN written[p] = Pages(p)
                      /\ state[p] # "running" => pageTables[p] = <<>>

(* ... pages and frames, pages and slots, ... *)
Valid(p, i) == i \in Pages(p) /\ pageTables[p][i].valid
FrameOf(p, i) == pageTables[p][i].physicalPage

PagesFramed == \A p \in Pid : \A i \in Pages(p) : Valid(p, i) => FrameOf(p, i) \in used
FramesFilled ==
    \A f \in used : \E p \in Pid : \E i \in Pages(p) : Valid(p, i) /\ FrameOf(p, i) = f
FramesApart ==
    \A p, q \in Pid : \A i \in Pages(p), j \in Pages(q) :
       Valid(p, i) /\ Valid(q, j) /\ FrameOf(p, i) = FrameOf(q, j) => p = q /\ i = j

PagesHeld == \A p \in Pid : \A i \in Pages(p) : \E s \in Slot : Holds(s, p, i)
SlotsFilled == \A s \in Slot : PIDs[s] # NoProcess => entries[s] \in Pages(PIDs[s])
SlotsApart ==
    \A s, t \in Slot : PIDs[s] # NoProcess /\ PIDs[t] = PIDs[s] /\ entries[t] = entries[s] => s = t

(* ... the list, which may lose pages once a process exited but never      *)
(* holds one that is not in memory, ...                                    *)
ListValid == \A k \in 1..Len(lru) : Valid(lru[k].pid, lru[k].vpn)
ListApart == \A j, k \in 1..Len(lru) : lru[j] = lru[k] => j = k
ListWhole ==
    (\A p \in Pid : state[p] # "exited") =>
        /\ \A p \in Pid : \A i \in Pages(p) :
              Valid(p, i) => \E k \in 1..Len(lru) : lru[k] = Node(p, i)
        /\ tail = Len(lru)
        /\ fault # "null tail"

(* ... and where the contents of a page are: in its frame, and in its slot *)
(* unless the page is dirty.                                               *)
Kept(p, i) ==
    /\ Valid(p, i) => frames[FrameOf(p, i)] = written[p][i]
    /\ ~(Valid(p, i) /\ pageTables[p][i].dirty) =>
          \A s \in Slot : Holds(s, p, i) => swap[s] = written[p][i]
ContentsKept ==
    ~strayed => \A p \in Pid : \A i \in Pages(p) : written[p][i] # Unknown => Kept(p, i)

AloneSafe ==
    (\A p, q \in Pid : p # q => state[p] = "none" \/ state[q] = "none") =>
        fault = "none" /\ ~strayed

VMInv ==
    /\ VMTypeOK
    /\ PagesFramed /\ FramesFilled /\ FramesApart
    /\ PagesHeld /\ SlotsFilled /\ SlotsApart
    /\ ListValid /\ ListApart /\ ListWhole
    /\ ContentsKept /\ AloneSafe
=============================================================================
