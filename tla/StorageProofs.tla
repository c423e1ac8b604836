---------------------------- MODULE StorageProofs ----------------------------
(***************************************************************************)
(* Proofs about the virtual memory, for any number of processes, pages,    *)
(* frames and swap slots: VMInv is an invariant, so the page tables, the   *)
(* bitmap, the swap file and the LRU list agree and pages keep their       *)
(* contents.                                                               *)
(*                                                                         *)
(* Then, about SynchDisk for any sets of threads, sectors and contents:    *)
(* DiskInv is an invariant, and every step is one of the atomic disk or    *)
(* changes nothing a caller sees.                                          *)
(***************************************************************************)
EXTENDS SynchDisk, VirtualMemory, WellFoundedInduction, TLAPS

(* Facts about sequences. *)
LEMMA SeqLen ==
    ASSUME NEW S, NEW s \in Seq(S)
    PROVE  /\ Len(s) \in Nat /\ DOMAIN s = 1..Len(s)
           /\ \A i \in DOMAIN s : s[i] \in S
  OBVIOUS

LEMMA SeqEmpty ==
    ASSUME NEW S, NEW s \in Seq(S), DOMAIN s = {}
    PROVE  s = <<>>
  <1>1. Len(s) \in Nat /\ DOMAIN s = 1..Len(s)
    BY SeqLen, Zenon
  <1>2. Len(s) = 0
    BY <1>1
  <1>3. QED
    BY <1>2

LEMMA SeqReplace ==
    ASSUME NEW S, NEW s \in Seq(S), NEW i \in DOMAIN s, NEW x \in S
    PROVE  LET r == [s EXCEPT ![i] = x]
           IN  /\ r \in Seq(S) /\ DOMAIN r = DOMAIN s /\ r[i] = x
               /\ \A j \in DOMAIN s : j # i => r[j] = s[j]
  OBVIOUS

LEMMA SeqMake ==
    ASSUME NEW S, NEW n \in Nat, NEW r, DOMAIN r = 1..n, r = [j \in 1..n |-> r[j]],
           \A j \in 1..n : r[j] \in S
    PROVE  r \in Seq(S) /\ Len(r) = n
  OBVIOUS

Pushed(S, s, x, r) ==
    /\ r \in Seq(S) /\ Len(r) = Len(s) + 1 /\ r[1] = x
    /\ \A j \in 1..Len(s) : r[j + 1] = s[j]
    /\ \A j \in 1..Len(r) : j = 1 \/ (j - 1 \in 1..Len(s) /\ r[j] = s[j - 1])

LEMMA SeqPush ==
    ASSUME NEW S, NEW s \in Seq(S), NEW x \in S
    PROVE  Pushed(S, s, x, <<x>> \o s)
  BY DEF Pushed

(* A set of numbers that is not empty has a smallest one. *)
LEMMA SmallestIs ==
    ASSUME NEW S, S \subseteq Nat, S # {}
    PROVE  \E m \in S : \A k \in S : m <= k
  <1> DEFINE R == OpToRel(<, Nat)
  <1>1. IsWellFoundedOn(R, Nat)
    BY NatLessThanWellFounded, Zenon
  <1>2. \A k, m \in Nat : k < m => <<k, m>> \in R
    BY Zenon DEF OpToRel
  <1> HIDE DEF R
  <1>3. PICK m \in S : \A k \in S : ~ (<<k, m>> \in R)
    BY <1>1, WFMin, Zenon
  <1>4. ASSUME NEW k \in S PROVE m <= k
    <2>1. k \in Nat /\ m \in Nat
      BY Zenon
    <2>2. ~ (k < m)
      BY <1>2, <1>3, <2>1, Zenon
    <2>3. QED
      BY <2>1, <2>2
  <1>5. QED
    BY <1>4, Zenon

LEMMA LargestIs ==
    ASSUME NEW n \in Nat, NEW S, S \subseteq 1..n, S # {}
    PROVE  \E m \in S : \A k \in S : k <= m
  <1> DEFINE T == {n - k : k \in S}
  <1>1. T \subseteq Nat /\ T # {}
    <2>1. \A k \in S : n - k \in Nat
      OBVIOUS
    <2>2. QED
      BY <2>1, Zenon
  <1>2. PICK t \in T : \A k \in T : t <= k
    BY <1>1, SmallestIs, Zenon
  <1>3. PICK m \in S : t = n - m
    BY Zenon
  <1>4. ASSUME NEW k \in S PROVE k <= m
    <2>1. t <= n - k
      BY <1>2, Zenon
    <2>2. QED
      BY <1>3, <2>1
  <1>5. QED
    BY <1>4, Zenon

(* The slot that findPage returns: the only one of the page. *)
LEMMA FoundPage ==
    ASSUME VMTypeOK, PagesHeld, SlotsApart, NEW p \in Pid, NEW i \in Pages(p)
    PROVE  /\ findPage(p, i) \in Slot /\ Holds(findPage(p, i), p, i)
           /\ \A s \in Slot : Holds(s, p, i) => s = findPage(p, i)
  <1>1. PICK s \in Slot : Holds(s, p, i)
    BY Zenon DEF PagesHeld
  <1>2. p # NoProcess
    BY VMAssumption, Zenon
  <1>3. \A t \in Slot : Holds(t, p, i) => t = s
    BY <1>1, <1>2, Zenon DEF SlotsApart, Holds
  <1>4. \A x \in 0..s - 1 : x \in Slot /\ x # s
    BY VMAssumption DEF Slot
  <1>5. Holds(s, p, i) /\ \A x \in 0..s - 1 : ~Holds(x, p, i)
    BY <1>1, <1>3, <1>4, Zenon
  <1>6. findPage(p, i) \in Slot /\ Holds(findPage(p, i), p, i)
    BY <1>5, Zenon DEF findPage
  <1>7. QED
    BY <1>3, <1>6, Zenon

-----------------------------------------------------------------------------
(* What an entry is, and what a page in memory is about. *)
LEMMA EntryIs ==
    ASSUME VMTypeOK, NEW p \in Pid, NEW i \in Pages(p)
    PROVE  /\ pageTables[p] \in Seq(PageTableEntry)
           /\ pageTables[p][i] \in PageTableEntry /\ pageTables[p][i].valid \in BOOLEAN
           /\ state[p] = "running" /\ written[p][i] \in Content /\ i \in Nat
  <1>1. pageTables[p] \in Seq(PageTableEntry) /\ written[p] \in Seq(Content)
    BY Zenon DEF VMTypeOK
  <1>2. pageTables[p][i] \in PageTableEntry /\ i \in Nat
    BY <1>1 DEF Pages
  <1>3. i \in DOMAIN written[p]
    BY Zenon DEF VMTypeOK
  <1>4. written[p][i] \in Content
    BY <1>1, <1>3, SeqLen, Zenon
  <1>5. state[p] = "running"
    <2>1. pageTables[p] # <<>>
      BY DEF Pages
    <2>2. QED
      BY <2>1, Zenon DEF VMTypeOK
  <1>6. QED
    BY <1>1, <1>2, <1>4, <1>5, Zenon DEF PageTableEntry

LEMMA ListIs ==
    ASSUME VMTypeOK, NEW k \in 1..Len(lru)
    PROVE  lru[k].pid \in Pid /\ lru[k].vpn \in Nat /\ lru[k] = Node(lru[k].pid, lru[k].vpn)
  <1>1. lru[k] \in [pid : Pid, vpn : Nat]
    <2>1. lru \in Seq([pid : Pid, vpn : Nat])
      BY Zenon DEF VMTypeOK
    <2>2. QED
      BY <2>1, SeqLen, Zenon
  <1>2. QED
    BY <1>1, Zenon DEF Node

(* One entry of one page table is replaced. *)
Changed(T, U, p, i, e) ==
    /\ U \in [Pid -> Seq(PageTableEntry)] /\ U[p][i] = e
    /\ \A q \in Pid : DOMAIN U[q] = DOMAIN T[q]
    /\ \A q \in Pid : \A j \in DOMAIN T[q] : (q # p \/ j # i) => U[q][j] = T[q][j]

LEMMA EntryReplaced ==
    ASSUME NEW T \in [Pid -> Seq(PageTableEntry)], NEW p \in Pid, NEW i \in DOMAIN T[p],
           NEW e \in PageTableEntry
    PROVE  Changed(T, [T EXCEPT ![p] = [T[p] EXCEPT ![i] = e]], p, i, e)
  <1> DEFINE r == [T[p] EXCEPT ![i] = e]
             U == [T EXCEPT ![p] = r]
  <1>1. T[p] \in Seq(PageTableEntry)
    BY Zenon
  <1>2. /\ r \in Seq(PageTableEntry) /\ DOMAIN r = DOMAIN T[p] /\ r[i] = e
        /\ \A j \in DOMAIN T[p] : j # i => r[j] = T[p][j]
    BY <1>1, SeqReplace, Zenon
  <1> HIDE DEF r
  <1>3. /\ U \in [Pid -> Seq(PageTableEntry)] /\ U[p] = r
        /\ \A q \in Pid : q # p => U[q] = T[q]
    BY <1>1, <1>2, Zenon
  <1> HIDE DEF U
  <1>4. /\ U \in [Pid -> Seq(PageTableEntry)] /\ U[p][i] = e
        /\ \A q \in Pid : DOMAIN U[q] = DOMAIN T[q]
        /\ \A q \in Pid : \A j \in DOMAIN T[q] : (q # p \/ j # i) => U[q][j] = T[q][j]
    BY <1>2, <1>3, Zenon
  <1>5. QED
    BY <1>4, Zenon DEF U, r, Changed

Replaced(p, i, e) ==
    /\ \A q \in Pid : Pages(q)' = Pages(q)
    /\ pageTables'[p][i] = e
    /\ \A q \in Pid : \A j \in Pages(q) : (q # p \/ j # i) => pageTables'[q][j] = pageTables[q][j]

LEMMA ReplaceEntry ==
    ASSUME VMTypeOK, NEW p \in Pid, NEW i \in Pages(p), NEW e \in PageTableEntry,
           pageTables' = [pageTables EXCEPT ![p] = [pageTables[p] EXCEPT ![i] = e]]
    PROVE  pageTables' \in [Pid -> Seq(PageTableEntry)] /\ Replaced(p, i, e)
  <1>1. pageTables \in [Pid -> Seq(PageTableEntry)] /\ i \in DOMAIN pageTables[p]
    BY Zenon DEF VMTypeOK, Pages
  <1>2. Changed(pageTables, pageTables', p, i, e)
    BY <1>1, EntryReplaced, Zenon
  <1>3. QED
    BY <1>2, Zenon DEF Changed, Replaced, Pages

(* A store changes contents, and no page moves. *)
LEMMA StoreInv ==
    ASSUME VMInv, NEW p \in Pid, NEW i \in Pages(p), NEW v \in Value, Store(p, i, v)
    PROVE  VMInv'
  <1> DEFINE e == pageTables[p][i]
             d == [e EXCEPT !.dirty = TRUE]
             f == FrameOf(p, i)
  <1>1. e \in PageTableEntry /\ i \in Nat /\ e.valid
    BY EntryIs, Zenon DEF VMInv, Store
  <1>2. d \in PageTableEntry /\ d.valid /\ d.physicalPage = f /\ d.dirty
    BY <1>1, Zenon DEF PageTableEntry, FrameOf
  <1>3. Valid(p, i) /\ f \in used /\ f \in PhysPage
    <2>1. Valid(p, i)
      BY Zenon DEF Store, Valid
    <2>2. QED
      BY <2>1, Zenon DEF VMInv, VMTypeOK, PagesFramed
  <1>4. pageTables' = [pageTables EXCEPT ![p] = [pageTables[p] EXCEPT ![i] = d]]
    BY Zenon DEF Store
  <1>5. frames' = [frames EXCEPT ![f] = v]
    BY Zenon DEF Store, FrameOf
  <1> HIDE DEF e, d, f
  <1>6. pageTables' \in [Pid -> Seq(PageTableEntry)] /\ Replaced(p, i, d)
    BY <1>2, <1>4, ReplaceEntry, Zenon DEF VMInv
  <1>7. /\ \A q \in Pid : Pages(q)' = Pages(q)
        /\ \A q \in Pid : \A j \in Pages(q) :
              (Valid(q, j)' <=> Valid(q, j)) /\ FrameOf(q, j)' = FrameOf(q, j)
    BY <1>2, <1>3, <1>6, Zenon DEF Replaced, Valid, FrameOf, f
  <1>8. /\ written' \in [Pid -> Seq(Content)] /\ written'[p][i] = v
        /\ \A q \in Pid : DOMAIN written'[q] = DOMAIN written[q]
        /\ \A q \in Pid : \A j \in Pages(q) : (q # p \/ j # i) => written'[q][j] = written[q][j]
    <2> DEFINE r == [written[p] EXCEPT ![i] = v]
    <2>1. written \in [Pid -> Seq(Content)] /\ written[p] \in Seq(Content) /\ v \in Content
          /\ (\A q \in Pid : DOMAIN written[q] = Pages(q)) /\ i \in DOMAIN written[p]
      BY Zenon DEF VMInv, VMTypeOK, Content
    <2>2. /\ r \in Seq(Content) /\ DOMAIN r = DOMAIN written[p] /\ r[i] = v
          /\ \A j \in DOMAIN written[p] : j # i => r[j] = written[p][j]
      BY <2>1, SeqReplace, Zenon
    <2>3. written' = [written EXCEPT ![p] = r]
      BY Zenon DEF Store
    <2> HIDE DEF r
    <2>4. /\ written' \in [Pid -> Seq(Content)] /\ written'[p] = r
          /\ \A q \in Pid : q # p => written'[q] = written[q]
      BY <2>1, <2>2, <2>3, Zenon
    <2>5. QED
      BY <2>1, <2>2, <2>4, Zenon
  <1>9. /\ frames' \in [PhysPage -> Content] /\ frames'[f] = v
        /\ \A g \in PhysPage : g # f => frames'[g] = frames[g]
    <2>1. frames \in [PhysPage -> Content] /\ v \in Content
      BY Zenon DEF VMInv, VMTypeOK, Content
    <2>2. QED
      BY <1>3, <1>5, <2>1, Zenon
  <1>10. /\ state' = state /\ used' = used /\ PIDs' = PIDs /\ entries' = entries /\ swap' = swap
         /\ lru' = lru /\ tail' = tail /\ strayed' = strayed /\ fault' = fault /\ stores' \in Nat
    <2>1. stores' = stores + 1 /\ stores \in Nat
      BY Zenon DEF Store, VMInv, VMTypeOK
    <2>2. QED
      BY <2>1 DEF Store
  <1>11. VMTypeOK'
    <2>1. \A q \in Pid : state'[q] # "running" => pageTables'[q] = <<>>
      <3>1. \A q \in Pid : state[q] # "running" => q # p /\ pageTables[q] = <<>>
        BY EntryIs, Zenon DEF VMInv, VMTypeOK
      <3>2. \A q \in Pid : q # p => pageTables'[q] = pageTables[q]
        BY <1>4, Zenon DEF VMInv, VMTypeOK
      <3>3. QED
        BY <1>10, <3>1, <3>2, Zenon
    <2>2. QED
      BY <1>6, <1>7, <1>8, <1>9, <1>10, <2>1, Zenon DEF VMInv, VMTypeOK
  <1>12. PagesFramed' /\ FramesFilled' /\ FramesApart'
    <2>1. PagesFramed'
      BY <1>7, <1>10, Zenon DEF VMInv, PagesFramed
    <2>2. FramesFilled'
      BY <1>7, <1>10 DEF VMInv, FramesFilled
    <2>3. FramesApart'
      BY <1>7 DEF VMInv, FramesApart
    <2>4. QED
      BY <2>1, <2>2, <2>3, Zenon
  <1>13. PagesHeld' /\ SlotsFilled' /\ SlotsApart'
    <2>1. \A s \in Slot : PIDs[s] # NoProcess => PIDs[s] \in Pid
      BY Zenon DEF VMInv, VMTypeOK
    <2>2. PagesHeld'
      BY <1>7, <1>10 DEF VMInv, PagesHeld, Holds
    <2>3. SlotsFilled'
      BY <1>7, <1>10, <2>1, Zenon DEF VMInv, SlotsFilled
    <2>4. QED
      BY <1>10, <2>2, <2>3, Zenon DEF VMInv, SlotsApart
  <1>14. ListValid' /\ ListApart' /\ ListWhole'
    <2>1. ASSUME NEW k \in 1..Len(lru) PROVE Valid(lru[k].pid, lru[k].vpn)'
      <3>1. lru[k].pid \in Pid
        BY ListIs, Zenon DEF VMInv
      <3>2. Valid(lru[k].pid, lru[k].vpn)
        BY Zenon DEF VMInv, ListValid
      <3>3. lru'[k] = lru[k]
        BY <1>10, Zenon
      <3>4. QED
        BY <1>7, <1>10, <3>1, <3>2, Zenon DEF Valid
    <2>2. ListValid'
      BY <1>10, <2>1, Zenon DEF ListValid
    <2>3. QED
      BY <1>7, <1>10, <2>2, Zenon DEF VMInv, ListApart, ListWhole
  <1>15. ContentsKept'
    <2> SUFFICES ASSUME ~strayed', NEW q \in Pid, NEW j \in Pages(q), written'[q][j] # Unknown
                 PROVE  Kept(q, j)'
      BY <1>7, Zenon DEF ContentsKept
    <2>1. CASE q = p /\ j = i
      BY <1>2, <1>3, <1>6, <1>7, <1>8, <1>9, <2>1, Zenon DEF Replaced, f, Kept
    <2>2. CASE q # p \/ j # i
      <3>1. Valid(q, j) => FrameOf(q, j) # f /\ FrameOf(q, j) \in PhysPage
        BY <1>3, <2>2, Zenon DEF VMInv, VMTypeOK, PagesFramed, FramesApart, f
      <3>2. written'[q][j] = written[q][j] /\ pageTables'[q][j] = pageTables[q][j]
        BY <1>6, <1>8, <2>2, Zenon DEF Replaced
      <3>3. Valid(q, j) => frames'[FrameOf(q, j)] = frames[FrameOf(q, j)]
        BY <1>9, <3>1, Zenon
      <3>4. \A s \in Slot : Holds(s, q, j)' <=> Holds(s, q, j)
        BY <1>10, Zenon DEF Holds
      <3>5. Kept(q, j)
        BY <1>10, <3>2, Zenon DEF VMInv, ContentsKept
      <3>6. QED
        BY <1>7, <1>10, <3>2, <3>3, <3>4, <3>5, Zenon DEF Kept
    <2>3. QED
      BY <2>1, <2>2, Zenon
  <1>16. AloneSafe'
    BY <1>10, Zenon DEF VMInv, AloneSafe
  <1>17. QED
    BY <1>11, <1>12, <1>13, <1>14, <1>15, <1>16, Zenon DEF VMInv

(* What no page fault touches: which pages there are, and their slots. *)
LEMMA SlotsStay ==
    ASSUME VMInv, \A q \in Pid : Pages(q)' = Pages(q), PIDs' = PIDs, entries' = entries
    PROVE  PagesHeld' /\ SlotsFilled' /\ SlotsApart'
  <1>1. \A s \in Slot : PIDs[s] # NoProcess => PIDs[s] \in Pid
    BY Zenon DEF VMInv, VMTypeOK
  <1>2. PagesHeld'
    BY DEF VMInv, PagesHeld, Holds
  <1>3. SlotsFilled'
    BY <1>1, Zenon DEF VMInv, SlotsFilled
  <1>4. QED
    BY <1>2, <1>3, Zenon DEF VMInv, SlotsApart

LEMMA TypeStays ==
    ASSUME VMInv, pageTables' \in [Pid -> Seq(PageTableEntry)],
           \A q \in Pid : Pages(q)' = Pages(q),
           used' \subseteq PhysPage, frames' \in [PhysPage -> Content],
           swap' \in [Slot -> Content],
           lru' \in Seq([pid : Pid, vpn : Nat]), tail' \in 0..Len(lru'), strayed' \in BOOLEAN,
           state' = state, PIDs' = PIDs, entries' = entries, written' = written, stores' = stores
    PROVE  VMTypeOK'
  <1>1. ASSUME NEW q \in Pid, state'[q] # "running" PROVE pageTables'[q] = <<>>
    <2>1. pageTables[q] = <<>>
      BY <1>1, Zenon DEF VMInv, VMTypeOK
    <2>2. pageTables'[q] \in Seq(PageTableEntry)
      BY Zenon
    <2>3. DOMAIN pageTables'[q] = {}
      BY <2>1 DEF Pages
    <2>4. QED
      BY <2>2, <2>3, SeqEmpty, Zenon
  <1>2. \A q \in Pid : DOMAIN written'[q] = Pages(q)'
    BY Zenon DEF VMInv, VMTypeOK
  <1>3. QED
    BY <1>1, <1>2, Zenon DEF VMInv, VMTypeOK

(* A page fault while a frame is free. *)
LEMMA SwapInInv ==
    ASSUME VMInv, NEW p \in Pid, NEW i \in Pages(p), SwapIn(p, i)
    PROVE  VMInv'
  <1> DEFINE free == PhysPage \ used
             f == CHOOSE x \in free : \A y \in free : x <= y
             e == Present(f)
             slot == findPage(p, i)
  <1>1. f \in PhysPage /\ f \notin used
    <2>1. free \subseteq Nat /\ free # {}
      <3>1. used \subseteq PhysPage /\ used # PhysPage
        BY Zenon DEF SwapIn, VMInv, VMTypeOK
      <3>2. PhysPage \subseteq Nat
        BY VMAssumption DEF PhysPage
      <3>3. QED
        BY <3>1, <3>2, Zenon
    <2>2. \E x \in free : \A y \in free : x <= y
      BY <2>1, SmallestIs, Zenon
    <2>3. QED
      BY <2>2, Zenon
  <1>2. /\ used' = used \cup {f}
        /\ frames' = [frames EXCEPT ![f] = swap[slot]]
        /\ pageTables' = [pageTables EXCEPT ![p] = [pageTables[p] EXCEPT ![i] = e]]
        /\ lru' = <<Node(p, i)>> \o lru
        /\ tail' = IF lru = <<>> THEN 1 ELSE IF tail = 0 THEN 0 ELSE tail + 1
    BY Zenon DEF SwapIn, AddPage
  <1> HIDE DEF f, e, slot, free
  <1>3. ~Valid(p, i) /\ fault = "none"
    BY Zenon DEF SwapIn, Valid, Up
  <1>4. /\ state' = state /\ PIDs' = PIDs /\ entries' = entries /\ swap' = swap
        /\ written' = written /\ strayed' = strayed /\ stores' = stores /\ fault' = fault
    BY Zenon DEF SwapIn
  <1>5. e \in PageTableEntry /\ e.valid /\ e.physicalPage = f /\ ~e.dirty
    BY <1>1, Zenon DEF e, Present, PageTableEntry
  <1>6. pageTables' \in [Pid -> Seq(PageTableEntry)] /\ Replaced(p, i, e)
    BY <1>2, <1>5, ReplaceEntry, Zenon DEF VMInv
  <1>7. /\ \A q \in Pid : Pages(q)' = Pages(q)
        /\ Valid(p, i)' /\ FrameOf(p, i)' = f /\ ~pageTables'[p][i].dirty
        /\ \A q \in Pid : \A j \in Pages(q) : (q # p \/ j # i) =>
              /\ Valid(q, j)' <=> Valid(q, j)
              /\ FrameOf(q, j)' = FrameOf(q, j) /\ pageTables'[q][j] = pageTables[q][j]
    BY <1>5, <1>6, Zenon DEF Replaced, Valid, FrameOf
  <1>8. /\ slot \in Slot /\ Holds(slot, p, i)
        /\ \A s \in Slot : Holds(s, p, i) => s = slot
    BY FoundPage, Zenon DEF VMInv, slot
  <1>9. /\ frames' \in [PhysPage -> Content] /\ frames'[f] = swap[slot]
        /\ \A g \in PhysPage : g # f => frames'[g] = frames[g]
    <2>1. frames \in [PhysPage -> Content] /\ swap[slot] \in Content
      BY <1>8, Zenon DEF VMInv, VMTypeOK
    <2>2. QED
      BY <1>1, <1>2, <2>1, Zenon
  <1>10. /\ lru' \in Seq([pid : Pid, vpn : Nat]) /\ Len(lru') = Len(lru) + 1
         /\ lru'[1] = Node(p, i) /\ Len(lru) \in Nat
         /\ \A k \in 1..Len(lru) : lru'[k + 1] = lru[k]
         /\ \A k \in 1..Len(lru') : k = 1 \/ (k - 1 \in 1..Len(lru) /\ lru'[k] = lru[k - 1])
    <2>1. lru \in Seq([pid : Pid, vpn : Nat])
      BY Zenon DEF VMInv, VMTypeOK
    <2>2. i \in Nat
      BY EntryIs, Zenon DEF VMInv
    <2>3. Node(p, i) \in [pid : Pid, vpn : Nat]
      BY <2>2, Zenon DEF Node
    <2>4. Len(lru) \in Nat
      BY <2>1, SeqLen, Zenon
    <2>5. QED
      <3>1. lru' = <<Node(p, i)>> \o lru
        BY <1>2, Zenon
      <3>2. Pushed([pid : Pid, vpn : Nat], lru, Node(p, i), lru')
        BY <2>1, <2>3, <3>1, SeqPush, Zenon
      <3>3. QED
        BY <2>4, <3>2, Zenon DEF Pushed
  <1>11. tail' \in 0..Len(lru') /\ (tail = Len(lru) => tail' = Len(lru'))
    <2>1. lru \in Seq([pid : Pid, vpn : Nat]) /\ tail \in 0..Len(lru)
      BY Zenon DEF VMInv, VMTypeOK
    <2>2. (lru = <<>>) <=> (Len(lru) = 0)
      BY <2>1
    <2>3. QED
      BY <1>2, <1>10, <2>1, <2>2
  <1>12. VMTypeOK'
    <2>1. used' \subseteq PhysPage /\ swap' \in [Slot -> Content] /\ strayed' \in BOOLEAN
      BY <1>1, <1>2, <1>4, Zenon DEF VMInv, VMTypeOK
    <2>2. QED
      BY <1>4, <1>6, <1>7, <1>9, <1>10, <1>11, <2>1, TypeStays, Zenon
  <1>13. PagesFramed'
    <2> SUFFICES ASSUME NEW q \in Pid, NEW j \in Pages(q), Valid(q, j)'
                 PROVE  FrameOf(q, j)' \in used'
      BY <1>7, Zenon DEF PagesFramed
    <2>1. CASE q = p /\ j = i
      BY <1>2, <1>7, <2>1, Zenon
    <2>2. CASE q # p \/ j # i
      BY <1>2, <1>7, <2>2, Zenon DEF VMInv, PagesFramed
    <2>3. QED
      BY <2>1, <2>2, Zenon
  <1>14. FramesFilled'
    <2> SUFFICES ASSUME NEW g \in used'
                 PROVE  \E q \in Pid : \E j \in Pages(q) : Valid(q, j)' /\ FrameOf(q, j)' = g
      BY <1>7, Zenon DEF FramesFilled
    <2>1. CASE g = f
      BY <1>7, <2>1, Zenon
    <2>2. CASE g \in used
      <3>1. PICK q \in Pid : \E j \in Pages(q) : Valid(q, j) /\ FrameOf(q, j) = g
        BY <2>2, Zenon DEF VMInv, FramesFilled
      <3>2. PICK j \in Pages(q) : Valid(q, j) /\ FrameOf(q, j) = g
        BY <3>1, Zenon
      <3>3. q # p \/ j # i
        BY <1>3, <3>2, Zenon
      <3>4. QED
        BY <1>7, <3>2, <3>3, Zenon
    <2>3. QED
      BY <1>2, <2>1, <2>2, Zenon
  <1>15. FramesApart'
    <2> SUFFICES ASSUME NEW q \in Pid, NEW r \in Pid, NEW j \in Pages(q), NEW k \in Pages(r),
                        Valid(q, j)', Valid(r, k)', FrameOf(q, j)' = FrameOf(r, k)'
                 PROVE  q = r /\ j = k
      BY <1>7 DEF FramesApart
    <2>1. \A s \in Pid : \A m \in Pages(s) :
             (s # p \/ m # i) /\ Valid(s, m)' => FrameOf(s, m)' # f
      BY <1>1, <1>7, Zenon DEF VMInv, PagesFramed
    <2>2. CASE q = p /\ j = i
      BY <1>7, <2>1, <2>2, Zenon
    <2>3. CASE r = p /\ k = i
      BY <1>7, <2>1, <2>3, Zenon
    <2>4. CASE (q # p \/ j # i) /\ (r # p \/ k # i)
      <3>1. Valid(q, j) /\ Valid(r, k) /\ FrameOf(q, j) = FrameOf(r, k)
        BY <1>7, <2>4, Zenon
      <3>2. QED
        BY <3>1, Zenon DEF VMInv, FramesApart
    <2>5. QED
      BY <2>2, <2>3, <2>4, Zenon
  <1>16. PagesHeld' /\ SlotsFilled' /\ SlotsApart'
    BY <1>4, <1>7, SlotsStay, Zenon
  <1>17. ListValid'
    <2> SUFFICES ASSUME NEW k \in 1..Len(lru') PROVE Valid(lru[k].pid, lru[k].vpn)'
      BY Zenon DEF ListValid
    <2>1. CASE k = 1
      <3>1. lru'[k].pid = p /\ lru'[k].vpn = i
        BY <1>10, <2>1 DEF Node
      <3>2. QED
        BY <1>7, <3>1, Zenon DEF Valid, Pages
    <2>2. CASE k # 1
      <3>1. k - 1 \in 1..Len(lru) /\ lru'[k] = lru[k - 1]
        BY <1>10, <2>2, Zenon
      <3>2. lru[k - 1].pid \in Pid /\ Valid(lru[k - 1].pid, lru[k - 1].vpn)
        BY <3>1, ListIs, Zenon DEF VMInv, ListValid
      <3>3. lru[k - 1].vpn \in Pages(lru[k - 1].pid) /\ (lru[k - 1].pid # p \/ lru[k - 1].vpn # i)
        BY <1>3, <3>2, Zenon DEF Valid
      <3>4. QED
        BY <1>7, <3>1, <3>2, <3>3, Zenon DEF Valid, Pages
    <2>3. QED
      BY <2>1, <2>2, Zenon
  <1>18. ListApart'
    <2>1. \A k \in 1..Len(lru) : lru[k] # Node(p, i)
      <3> SUFFICES ASSUME NEW k \in 1..Len(lru), lru[k] = Node(p, i) PROVE FALSE
        BY Zenon
      <3>1. lru[k].pid = p /\ lru[k].vpn = i
        BY DEF Node
      <3>2. QED
        BY <1>3, <3>1, Zenon DEF VMInv, ListValid
    <2> SUFFICES ASSUME NEW j \in 1..Len(lru'), NEW k \in 1..Len(lru'), lru'[j] = lru'[k]
                 PROVE  j = k
      BY Zenon DEF ListApart
    <2>a. \A m \in 1..Len(lru') : m # 1 => lru'[m] # lru'[1]
      BY <1>10, <2>1, Zenon
    <2>2. CASE j = 1 \/ k = 1
      BY <2>a, <2>2, Zenon
    <2>3. CASE j # 1 /\ k # 1
      <3>1. j - 1 \in 1..Len(lru) /\ k - 1 \in 1..Len(lru) /\ lru[j - 1] = lru[k - 1]
        BY <1>10, <2>3, Zenon
      <3>2. j - 1 = k - 1
        BY <3>1, Zenon DEF VMInv, ListApart
      <3>3. QED
        BY <1>10, <3>2
    <2>4. QED
      BY <2>2, <2>3, Zenon
  <1>19. ListWhole'
    <2> SUFFICES ASSUME \A q \in Pid : state[q] # "exited"
                 PROVE  /\ \A q \in Pid : \A j \in Pages(q) :
                              Valid(q, j)' => \E k \in 1..Len(lru') : lru'[k] = Node(q, j)
                        /\ tail' = Len(lru') /\ fault' # "null tail"
      BY <1>4, <1>7, Zenon DEF ListWhole
    <2>1. ASSUME NEW q \in Pid, NEW j \in Pages(q), Valid(q, j)'
          PROVE  \E k \in 1..Len(lru') : lru'[k] = Node(q, j)
      <3>1. CASE q = p /\ j = i
        <4>1. 1 \in 1..Len(lru')
          BY <1>10
        <4>2. QED
          BY <1>10, <3>1, <4>1, Zenon
      <3>2. CASE q # p \/ j # i
        <4>1. Valid(q, j)
          BY <1>7, <2>1, <3>2, Zenon
        <4>2. PICK k \in 1..Len(lru) : lru[k] = Node(q, j)
          BY <4>1, Zenon DEF VMInv, ListWhole
        <4>3. k + 1 \in 1..Len(lru') /\ lru'[k + 1] = Node(q, j)
          BY <1>10, <4>2
        <4>4. QED
          BY <4>3, Zenon
      <3>3. QED
        BY <3>1, <3>2, Zenon
    <2>2. tail = Len(lru) /\ fault # "null tail"
      BY Zenon DEF VMInv, ListWhole
    <2>3. QED
      BY <1>4, <1>11, <2>1, <2>2, Zenon
  <1>20. ContentsKept'
    <2> SUFFICES ASSUME ~strayed', NEW q \in Pid, NEW j \in Pages(q), written'[q][j] # Unknown
                 PROVE  Kept(q, j)'
      BY <1>7 DEF ContentsKept
    <2>1. Kept(q, j)
      BY <1>4, Zenon DEF VMInv, ContentsKept
    <2>2. \A s \in Slot : Holds(s, q, j)' <=> Holds(s, q, j)
      BY <1>4, Zenon DEF Holds
    <2>3. CASE q = p /\ j = i
      <3>1. \A s \in Slot : Holds(s, q, j) => swap[s] = written[q][j]
        BY <1>3, <2>1, <2>3, Zenon DEF Kept
      <3>2. frames'[f] = written[q][j]
        BY <1>8, <1>9, <2>3, <3>1, Zenon
      <3>3. QED
        BY <1>4, <1>7, <2>2, <2>3, <3>1, <3>2, Zenon DEF Kept
    <2>4. CASE q # p \/ j # i
      <3>1. Valid(q, j) => FrameOf(q, j) # f /\ FrameOf(q, j) \in PhysPage
        BY <1>1, Zenon DEF VMInv, VMTypeOK, PagesFramed
      <3>2. Valid(q, j) => frames'[FrameOf(q, j)] = frames[FrameOf(q, j)]
        BY <1>9, <3>1, Zenon
      <3>3. QED
        BY <1>4, <1>7, <2>1, <2>2, <2>4, <3>2, Zenon DEF Kept
    <2>5. QED
      BY <2>3, <2>4, Zenon
  <1>21. AloneSafe'
    BY <1>4, Zenon DEF VMInv, AloneSafe
  <1>22. QED
    BY <1>12, <1>13, <1>14, <1>15, <1>16, <1>17, <1>18, <1>19, <1>20, <1>21, Zenon DEF VMInv

-----------------------------------------------------------------------------
(* The kernel dies: only "fault" changes.  The process that faults is       *)
(* running, so it is the only one that there ever was if there was only     *)
(* one.                                                                     *)
LEMMA Alone ==
    ASSUME VMInv, NEW p \in Pid, state[p] = "running",
           \A q, r \in Pid : q # r => state[q] = "none" \/ state[r] = "none"
    PROVE  /\ \A q \in Pid : q # p => Pages(q) = {}
           /\ \A q \in Pid : state[q] # "exited"
  <1>1. \A q \in Pid : q # p => state[q] = "none"
    <2>1. "running" # "none"
      BY Zenon
    <2>2. QED
      BY <2>1, Zenon
  <1>2. "none" # "running" /\ "none" # "exited" /\ "running" # "exited"
    BY Zenon
  <1>3. \A q \in Pid : q # p => pageTables[q] = <<>>
    BY <1>1, <1>2, Zenon DEF VMInv, VMTypeOK
  <1>4. \A q \in Pid : q # p => Pages(q) = {}
    BY <1>3 DEF Pages
  <1>5. QED
    BY <1>1, <1>2, <1>4, Zenon

LEMMA DieInv ==
    ASSUME VMInv, NEW why, Die(why),
           why = "null tail" => \E q \in Pid : state[q] = "exited",
           ~ \A q, r \in Pid : q # r => state[q] = "none" \/ state[r] = "none"
    PROVE  VMInv'
  <1>1. /\ fault' = why /\ state' = state /\ pageTables' = pageTables /\ used' = used
        /\ frames' = frames /\ PIDs' = PIDs /\ entries' = entries /\ swap' = swap
        /\ lru' = lru /\ tail' = tail /\ written' = written /\ strayed' = strayed
        /\ stores' = stores
    BY Zenon DEF Die
  <1>2. \A q : Pages(q)' = Pages(q)
    BY <1>1, Zenon DEF Pages
  <1>3. \A q, j : (Valid(q, j)' <=> Valid(q, j)) /\ FrameOf(q, j)' = FrameOf(q, j)
    BY <1>1, Zenon DEF Pages, Valid, FrameOf
  <1>4. VMTypeOK'
    BY <1>1, <1>2, Zenon DEF VMInv, VMTypeOK
  <1>5. PagesFramed' /\ FramesFilled' /\ FramesApart'
    <2>1. PagesFramed'
      BY <1>1, <1>2, <1>3, Zenon DEF VMInv, PagesFramed
    <2>2. FramesFilled'
      BY <1>1, <1>2, <1>3, Zenon DEF VMInv, FramesFilled
    <2>3. FramesApart'
      BY <1>2, <1>3, Zenon DEF VMInv, FramesApart
    <2>4. QED
      BY <2>1, <2>2, <2>3, Zenon
  <1>6. PagesHeld' /\ SlotsFilled' /\ SlotsApart'
    BY <1>1, <1>2, SlotsStay, Zenon
  <1>7. ListValid' /\ ListApart' /\ ListWhole'
    <2>1. ListValid' /\ ListApart'
      BY <1>1, <1>3, Zenon DEF VMInv, ListValid, ListApart
    <2>2. ListWhole'
      BY <1>1, <1>2, <1>3, Zenon DEF VMInv, ListWhole
    <2>3. QED
      BY <2>1, <2>2, Zenon
  <1>8. ContentsKept'
    <2>1. \A q, j : Kept(q, j)' <=> Kept(q, j)
      BY <1>1, <1>3, Zenon DEF Kept, Holds
    <2>2. QED
      BY <1>1, <1>2, <2>1, Zenon DEF VMInv, ContentsKept
  <1>9. AloneSafe'
    BY <1>1, Zenon DEF AloneSafe
  <1>10. QED
    BY <1>4, <1>5, <1>6, <1>7, <1>8, <1>9, Zenon DEF VMInv

(* The page at the tail of the list, and its frame. *)
LEMMA VictimIs ==
    ASSUME VMInv, NEW p \in Pid, NEW i \in Pages(p), SwapOut(p, i), tail # 0
    PROVE  LET vp == lru[tail].pid
               vi == lru[tail].vpn
           IN  /\ tail \in 1..Len(lru) /\ vp \in Pid /\ vi \in Pages(vp) /\ Valid(vp, vi)
               /\ FrameOf(vp, vi) \in PhysPage /\ state[vp] = "running" /\ (vp # p \/ vi # i)
               /\ lru[tail] = Node(vp, vi)
  <1> DEFINE vp == lru[tail].pid
             vi == lru[tail].vpn
  <1>1. tail \in 1..Len(lru)
    <2>1. lru \in Seq([pid : Pid, vpn : Nat]) /\ tail \in 0..Len(lru)
      BY Zenon DEF VMInv, VMTypeOK
    <2>2. QED
      BY <2>1
  <1>2. vp \in Pid /\ lru[tail] = Node(vp, vi)
    BY <1>1, ListIs, Zenon DEF VMInv
  <1>3. Valid(vp, vi)
    BY <1>1, Zenon DEF VMInv, ListValid
  <1> HIDE DEF vp, vi
  <1>4. vi \in Pages(vp)
    BY <1>3, Zenon DEF Valid
  <1>5. FrameOf(vp, vi) \in PhysPage
    BY <1>2, <1>3, <1>4, Zenon DEF VMInv, VMTypeOK, PagesFramed
  <1>6. state[vp] = "running"
    BY <1>2, <1>4, EntryIs, Zenon DEF VMInv
  <1>7. vp # p \/ vi # i
    BY <1>3, Zenon DEF SwapOut, Valid
  <1>8. QED
    BY <1>1, <1>2, <1>3, <1>4, <1>5, <1>6, <1>7, Zenon DEF vp, vi

(* The list cut before the tail, with the new page at its head. *)
Cut(s, x, t, r) ==
    /\ Len(r) = t /\ r[1] = x
    /\ \A k \in 1..(t - 1) : r[k + 1] = s[k]
    /\ \A k \in 1..t : k = 1 \/ (k - 1 \in 1..(t - 1) /\ r[k] = s[k - 1])

LEMMA SeqCutPush ==
    ASSUME NEW S, NEW s \in Seq(S), NEW x \in S, NEW t \in 1..Len(s)
    PROVE  LET r == <<x>> \o SubSeq(s, 1, t - 1) IN r \in Seq(S) /\ Cut(s, x, t, r)
  <1> DEFINE c == SubSeq(s, 1, t - 1)
             r == <<x>> \o c
  <1>1. c \in Seq(S) /\ Len(c) = t - 1 /\ \A k \in 1..(t - 1) : c[k] = s[k]
    OBVIOUS
  <1> HIDE DEF c
  <1>2. /\ r \in Seq(S) /\ Len(r) = Len(c) + 1 /\ r[1] = x
        /\ \A j \in 1..Len(c) : r[j + 1] = c[j]
        /\ \A j \in 1..Len(r) : j = 1 \/ (j - 1 \in 1..Len(c) /\ r[j] = c[j - 1])
    <2>1. Pushed(S, c, x, <<x>> \o c)
      BY <1>1, SeqPush, Zenon
    <2>2. QED
      BY <2>1, Zenon DEF Pushed
  <1> HIDE DEF r
  <1>3. /\ r \in Seq(S) /\ Len(r) = t /\ r[1] = x
        /\ \A k \in 1..(t - 1) : r[k + 1] = s[k]
        /\ \A k \in 1..t : k = 1 \/ (k - 1 \in 1..(t - 1) /\ r[k] = s[k - 1])
    BY <1>1, <1>2
  <1>4. QED
    BY <1>3, Zenon DEF r, c, Cut

(* A page fault while memory is full and there is a victim. *)
LEMMA EvictInv ==
    ASSUME VMInv, NEW p \in Pid, NEW i \in Pages(p), SwapOut(p, i), tail # 0,
           ~(PTE(lru[tail]).dirty /\ ~InSwap(p, lru[tail].vpn))
    PROVE  VMInv'
  <1>0. PICK vp \in Pid, vi \in Nat : lru[tail].pid = vp /\ lru[tail].vpn = vi
    <2>1. lru[tail].pid \in Pid /\ lru[tail].vpn \in Pages(lru[tail].pid)
      BY VictimIs, Zenon
    <2>2. lru[tail].vpn \in Nat
      BY <2>1, EntryIs, Zenon DEF VMInv
    <2>3. QED
      BY <2>1, <2>2, Zenon
  <1> DEFINE v == pageTables[vp][vi]
             f == FrameOf(vp, vi)
             d == [v EXCEPT !.valid = FALSE]
             e == Present(f)
             slot == findPage(p, i)
             back == findPage(p, vi)
             T == [pageTables EXCEPT ![vp] = [pageTables[vp] EXCEPT ![vi] = d]]
  <1>1. /\ tail \in 1..Len(lru) /\ vp \in Pid /\ vi \in Pages(vp) /\ Valid(vp, vi)
        /\ f \in PhysPage /\ state[vp] = "running" /\ (vp # p \/ vi # i) /\ lru[tail] = Node(vp, vi)
    BY <1>0, VictimIs, Zenon
  <1>2. v.dirty => vi \in Pages(p)
    BY <1>0, Zenon DEF PTE, InSwap
  <1>3. /\ swap' = IF v.dirty THEN [swap EXCEPT ![back] = frames[f]] ELSE swap
        /\ frames' = [frames EXCEPT ![f] = swap'[slot]]
        /\ pageTables' = [T EXCEPT ![p] = [T[p] EXCEPT ![i] = e]]
        /\ lru' = <<Node(p, i)>> \o SubSeq(lru, 1, tail - 1)
        /\ strayed' = (strayed \/ (v.dirty /\ vp # p))
    <2>1. ~(v.dirty /\ ~InSwap(p, vi))
      BY <1>0, Zenon DEF PTE
    <2>2. /\ swap' = IF v.dirty THEN [swap EXCEPT ![back] = frames[f]] ELSE swap
          /\ frames' = [frames EXCEPT ![f] = swap'[slot]]
          /\ lru' = <<Node(p, i)>> \o SubSeq(lru, 1, tail - 1)
          /\ strayed' = (strayed \/ (v.dirty /\ vp # p))
      BY <1>0, <2>1, Zenon DEF SwapOut, writePage, FrameOf
    <2>3. pageTables' = [pageTables EXCEPT ![vp][vi].valid = FALSE, ![p][i] = e]
      BY <1>0, <2>1, Zenon DEF SwapOut, FrameOf
    <2>4. QED
      BY <2>2, <2>3, Zenon
  <1>4. /\ state' = state /\ used' = used /\ PIDs' = PIDs /\ entries' = entries
        /\ tail' = tail /\ written' = written /\ stores' = stores /\ fault' = fault
    <2>1. ~(v.dirty /\ ~InSwap(p, vi))
      BY <1>0, Zenon DEF PTE
    <2>2. UNCHANGED <<state, used, PIDs, entries, tail, written, stores, fault>>
      BY <1>0, <2>1, Zenon DEF SwapOut
    <2>3. QED
      BY <2>2, Zenon
  <1>5. ~Valid(p, i) /\ fault = "none" /\ state[p] = "running"
    BY Zenon DEF SwapOut, Valid, Up
  <1> HIDE DEF v, f, d, e, slot, back, T
  <1>6. /\ e \in PageTableEntry /\ e.valid /\ e.physicalPage = f /\ ~e.dirty
        /\ d \in PageTableEntry /\ ~d.valid
    <2>1. v \in PageTableEntry
      BY <1>1, EntryIs, Zenon DEF VMInv, v
    <2>2. QED
      BY <1>1, <2>1, Zenon DEF e, d, Present, PageTableEntry
  <1>7. /\ pageTables' \in [Pid -> Seq(PageTableEntry)]
        /\ \A q \in Pid : Pages(q)' = Pages(q)
        /\ pageTables'[p][i] = e /\ pageTables'[vp][vi] = d
        /\ \A q \in Pid : \A j \in Pages(q) : (q # p \/ j # i) /\ (q # vp \/ j # vi) =>
              pageTables'[q][j] = pageTables[q][j]
    <2>1. pageTables \in [Pid -> Seq(PageTableEntry)]
          /\ vi \in DOMAIN pageTables[vp] /\ i \in DOMAIN pageTables[p]
      BY <1>1, Zenon DEF VMInv, VMTypeOK, Pages
    <2>2. Changed(pageTables, T, vp, vi, d)
      BY <1>6, <2>1, EntryReplaced, Zenon DEF T
    <2>3. T \in [Pid -> Seq(PageTableEntry)] /\ i \in DOMAIN T[p]
      BY <2>1, <2>2, Zenon DEF Changed
    <2>4. Changed(T, pageTables', p, i, e)
      BY <1>3, <1>6, <2>3, EntryReplaced, Zenon
    <2>5. QED
      <3>1. /\ pageTables' \in [Pid -> Seq(PageTableEntry)] /\ pageTables'[p][i] = e
            /\ \A q \in Pid : DOMAIN pageTables'[q] = DOMAIN T[q] /\ DOMAIN T[q] = DOMAIN pageTables[q]
        BY <2>2, <2>4, Zenon DEF Changed
      <3>2. pageTables'[vp][vi] = d
        BY <1>1, <2>2, <2>4, Zenon DEF Changed, Pages
      <3>3. \A q \in Pid : \A j \in Pages(q) : (q # p \/ j # i) /\ (q # vp \/ j # vi) =>
               pageTables'[q][j] = pageTables[q][j]
        <4> SUFFICES ASSUME NEW q \in Pid, NEW j \in DOMAIN pageTables[q],
                            q # p \/ j # i, q # vp \/ j # vi
                     PROVE  pageTables'[q][j] = pageTables[q][j]
          BY Zenon DEF Pages
        <4>1. j \in DOMAIN T[q]
          BY <3>1, Zenon
        <4>2. pageTables'[q][j] = T[q][j]
          BY <2>4, <4>1, Zenon DEF Changed
        <4>3. T[q][j] = pageTables[q][j]
          BY <2>2, Zenon DEF Changed
        <4>4. QED
          BY <4>2, <4>3, Zenon
      <3>4. QED
        BY <3>1, <3>2, <3>3, Zenon DEF Pages
  <1>8. /\ Valid(p, i)' /\ FrameOf(p, i)' = f /\ ~pageTables'[p][i].dirty /\ ~Valid(vp, vi)'
        /\ \A q \in Pid : \A j \in Pages(q) : (q # p \/ j # i) /\ (q # vp \/ j # vi) =>
              /\ Valid(q, j)' <=> Valid(q, j)
              /\ FrameOf(q, j)' = FrameOf(q, j) /\ pageTables'[q][j] = pageTables[q][j]
    BY <1>1, <1>6, <1>7, Zenon DEF Valid, FrameOf
  <1>9. /\ slot \in Slot /\ Holds(slot, p, i)
        /\ \A s \in Slot : Holds(s, p, i) => s = slot
    BY FoundPage, Zenon DEF VMInv, slot
  <1>10. v.dirty => back \in Slot /\ Holds(back, p, vi)
    BY <1>2, FoundPage, Zenon DEF VMInv, back
  <1>11. /\ swap' \in [Slot -> Content]
         /\ v.dirty => swap'[back] = frames[f]
         /\ \A s \in Slot : (v.dirty => s # back) => swap'[s] = swap[s]
    <2>1. swap \in [Slot -> Content] /\ frames[f] \in Content
      BY <1>1, Zenon DEF VMInv, VMTypeOK
    <2>2. CASE v.dirty
      BY <1>3, <1>10, <2>1, <2>2, Zenon
    <2>3. CASE ~v.dirty
      BY <1>3, <2>1, <2>3, Zenon
    <2>4. QED
      BY <2>2, <2>3, Zenon
  <1>12. /\ frames' \in [PhysPage -> Content] /\ frames'[f] = swap'[slot]
         /\ \A g \in PhysPage : g # f => frames'[g] = frames[g]
    <2>1. frames \in [PhysPage -> Content] /\ swap'[slot] \in Content
      BY <1>9, <1>11, Zenon DEF VMInv, VMTypeOK
    <2>2. QED
      BY <1>1, <1>3, <2>1, Zenon
  <1>13. /\ lru' \in Seq([pid : Pid, vpn : Nat]) /\ Len(lru') = tail
         /\ lru'[1] = Node(p, i) /\ Len(lru) \in Nat /\ tail \in 1..Len(lru)
         /\ \A k \in 1..(tail - 1) : lru'[k + 1] = lru[k]
         /\ \A k \in 1..tail : k = 1 \/ (k - 1 \in 1..(tail - 1) /\ lru'[k] = lru[k - 1])
    <2>1. lru \in Seq([pid : Pid, vpn : Nat])
      BY Zenon DEF VMInv, VMTypeOK
    <2>2. i \in Nat
      BY EntryIs, Zenon DEF VMInv
    <2>3. Node(p, i) \in [pid : Pid, vpn : Nat]
      BY <2>2, Zenon DEF Node
    <2>4. Len(lru) \in Nat
      BY <2>1, SeqLen, Zenon
    <2>5. tail \in 1..Len(lru) /\ lru' = <<Node(p, i)>> \o SubSeq(lru, 1, tail - 1)
      BY <1>1, <1>3, Zenon
    <2>6. lru' \in Seq([pid : Pid, vpn : Nat]) /\ Cut(lru, Node(p, i), tail, lru')
      BY <2>1, <2>3, <2>5, SeqCutPush, Zenon
    <2>7. QED
      BY <2>4, <2>5, <2>6, Zenon DEF Cut
  <1>14. \A k \in 1..(tail - 1) : k \in 1..Len(lru) /\ k # tail
    BY <1>13
  <1>15. VMTypeOK'
    <2>1. tail' \in 0..Len(lru')
      BY <1>4, <1>13
    <2>2. used' \subseteq PhysPage /\ strayed \in BOOLEAN
      BY <1>4, Zenon DEF VMInv, VMTypeOK
    <2>3. strayed' \in BOOLEAN
      BY <1>3, <2>2, Zenon
    <2>4. QED
      BY <1>4, <1>7, <1>11, <1>12, <1>13, <2>1, <2>2, <2>3, TypeStays, Zenon
  <1>16. PagesFramed'
    <2> SUFFICES ASSUME NEW q \in Pid, NEW j \in Pages(q), Valid(q, j)'
                 PROVE  FrameOf(q, j)' \in used'
      BY <1>7, Zenon DEF PagesFramed
    <2>1. CASE q = p /\ j = i
      <3>1. f \in used
        BY <1>1, Zenon DEF VMInv, PagesFramed, f
      <3>2. QED
        BY <1>4, <1>8, <2>1, <3>1, Zenon
    <2>2. CASE q # p \/ j # i
      <3>1. q # vp \/ j # vi
        BY <1>8, Zenon
      <3>2. QED
        BY <1>4, <1>8, <2>2, <3>1, Zenon DEF VMInv, PagesFramed
    <2>3. QED
      BY <2>1, <2>2, Zenon
  <1>17. FramesFilled'
    <2> SUFFICES ASSUME NEW g \in used
                 PROVE  \E q \in Pid : \E j \in Pages(q) : Valid(q, j)' /\ FrameOf(q, j)' = g
      BY <1>4, <1>7, Zenon DEF FramesFilled
    <2>1. CASE g = f
      BY <1>8, <2>1, Zenon
    <2>2. CASE g # f
      <3>1. PICK q \in Pid : \E j \in Pages(q) : Valid(q, j) /\ FrameOf(q, j) = g
        BY Zenon DEF VMInv, FramesFilled
      <3>2. PICK j \in Pages(q) : Valid(q, j) /\ FrameOf(q, j) = g
        BY <3>1, Zenon
      <3>3. (q # p \/ j # i) /\ (q # vp \/ j # vi)
        BY <1>5, <2>2, <3>2, Zenon DEF f
      <3>4. QED
        BY <1>8, <3>2, <3>3, Zenon
    <2>3. QED
      BY <2>1, <2>2, Zenon
  <1>18. FramesApart'
    <2> SUFFICES ASSUME NEW q \in Pid, NEW r \in Pid, NEW j \in Pages(q), NEW k \in Pages(r),
                        Valid(q, j)', Valid(r, k)', FrameOf(q, j)' = FrameOf(r, k)'
                 PROVE  q = r /\ j = k
      BY <1>7 DEF FramesApart
    <2>1. ASSUME NEW s \in Pid, NEW m \in Pages(s), s # p \/ m # i, Valid(s, m)'
          PROVE  FrameOf(s, m)' # f /\ Valid(s, m) /\ FrameOf(s, m)' = FrameOf(s, m)
      <3>1. s # vp \/ m # vi
        BY <1>8, <2>1, Zenon
      <3>2. Valid(s, m) /\ FrameOf(s, m)' = FrameOf(s, m)
        BY <1>8, <2>1, <3>1, Zenon
      <3>3. FrameOf(s, m) # f
        BY <1>1, <3>1, <3>2, Zenon DEF VMInv, FramesApart, f
      <3>4. QED
        BY <3>2, <3>3, Zenon
    <2>2. CASE q = p /\ j = i
      BY <1>8, <2>1, <2>2, Zenon
    <2>3. CASE r = p /\ k = i
      BY <1>8, <2>1, <2>3, Zenon
    <2>4. CASE (q # p \/ j # i) /\ (r # p \/ k # i)
      <3>1. Valid(q, j) /\ Valid(r, k) /\ FrameOf(q, j) = FrameOf(r, k)
        BY <2>1, <2>4, Zenon
      <3>2. QED
        BY <3>1, Zenon DEF VMInv, FramesApart
    <2>5. QED
      BY <2>2, <2>3, <2>4, Zenon
  <1>19. PagesHeld' /\ SlotsFilled' /\ SlotsApart'
    BY <1>4, <1>7, SlotsStay, Zenon
  (* The nodes of the list after its head. *)
  <1>20. ASSUME NEW k \in 1..(tail - 1)
         PROVE  /\ lru[k].pid \in Pid /\ lru[k].vpn \in Pages(lru[k].pid)
                /\ Valid(lru[k].pid, lru[k].vpn)
                /\ lru[k].pid # p \/ lru[k].vpn # i
                /\ lru[k].pid # vp \/ lru[k].vpn # vi
                /\ lru[k] = Node(lru[k].pid, lru[k].vpn)
    <2>1. k \in 1..Len(lru) /\ k # tail
      BY <1>14, <1>20, Zenon
    <2>2. lru[k].pid \in Pid /\ Valid(lru[k].pid, lru[k].vpn) /\ lru[k] = Node(lru[k].pid, lru[k].vpn)
      BY <2>1, ListIs, Zenon DEF VMInv, ListValid
    <2>3. lru[k] # lru[tail]
      BY <1>1, <2>1, Zenon DEF VMInv, ListApart
    <2>4. lru[k].pid # vp \/ lru[k].vpn # vi
      BY <1>1, <2>2, <2>3, Zenon
    <2>5. QED
      BY <1>5, <2>2, <2>4, Zenon DEF Valid
  <1>21. ListValid'
    <2> SUFFICES ASSUME NEW k \in 1..Len(lru') PROVE Valid(lru[k].pid, lru[k].vpn)'
      BY Zenon DEF ListValid
    <2>1. CASE k = 1
      <3>1. lru'[k].pid = p /\ lru'[k].vpn = i
        BY <1>13, <2>1 DEF Node
      <3>2. QED
        BY <1>8, <3>1, Zenon DEF Valid, Pages
    <2>2. CASE k # 1
      <3>1. k - 1 \in 1..(tail - 1) /\ lru'[k] = lru[k - 1]
        BY <1>13, <2>2, Zenon
      <3>2. /\ lru[k - 1].pid \in Pid /\ lru[k - 1].vpn \in Pages(lru[k - 1].pid)
            /\ Valid(lru[k - 1].pid, lru[k - 1].vpn)
            /\ lru[k - 1].pid # p \/ lru[k - 1].vpn # i
            /\ lru[k - 1].pid # vp \/ lru[k - 1].vpn # vi
        BY <1>20, <3>1, Zenon
      <3>3. /\ lru[k - 1].vpn \in DOMAIN pageTables'[lru[k - 1].pid]
            /\ pageTables'[lru[k - 1].pid][lru[k - 1].vpn].valid
        BY <1>7, <3>2, Zenon DEF Valid, Pages
      <3>4. QED
        BY <3>1, <3>3, Zenon DEF Valid, Pages
    <2>3. QED
      BY <2>1, <2>2, Zenon
  <1>22. ListApart'
    <2>1. \A k \in 1..(tail - 1) : lru[k] # Node(p, i)
      <3> SUFFICES ASSUME NEW k \in 1..(tail - 1), lru[k] = Node(p, i) PROVE FALSE
        BY Zenon
      <3>1. lru[k].pid = p /\ lru[k].vpn = i
        BY DEF Node
      <3>2. QED
        BY <1>20, <3>1, Zenon
    <2> SUFFICES ASSUME NEW j \in 1..tail, NEW k \in 1..tail, lru'[j] = lru'[k]
                 PROVE  j = k
      BY <1>13, Zenon DEF ListApart
    <2>2. \A m \in 1..tail : m # 1 => lru'[m] # lru'[1]
      BY <1>13, <2>1, Zenon
    <2>3. CASE j = 1 \/ k = 1
      BY <2>2, <2>3, Zenon
    <2>4. CASE j # 1 /\ k # 1
      <3>1. j - 1 \in 1..(tail - 1) /\ k - 1 \in 1..(tail - 1) /\ lru[j - 1] = lru[k - 1]
        BY <1>13, <2>4, Zenon
      <3>2. j - 1 = k - 1
        BY <1>14, <3>1, Zenon DEF VMInv, ListApart
      <3>3. QED
        BY <1>13, <3>2
    <2>5. QED
      BY <2>3, <2>4, Zenon
  <1>23. ListWhole'
    <2> SUFFICES ASSUME \A q \in Pid : state[q] # "exited"
                 PROVE  /\ \A q \in Pid : \A j \in Pages(q) :
                              Valid(q, j)' => \E k \in 1..Len(lru') : lru'[k] = Node(q, j)
                        /\ tail' = Len(lru') /\ fault' # "null tail"
      BY <1>4, <1>7, Zenon DEF ListWhole
    <2>1. ASSUME NEW q \in Pid, NEW j \in Pages(q), Valid(q, j)'
          PROVE  \E k \in 1..Len(lru') : lru'[k] = Node(q, j)
      <3>1. CASE q = p /\ j = i
        <4>1. 1 \in 1..Len(lru')
          BY <1>13
        <4>2. QED
          BY <1>13, <3>1, <4>1, Zenon
      <3>2. CASE q # p \/ j # i
        <4>1. q # vp \/ j # vi
          BY <1>8, <2>1, Zenon
        <4>2. Valid(q, j)
          BY <1>8, <2>1, <3>2, <4>1, Zenon
        <4>3. PICK k \in 1..Len(lru) : lru[k] = Node(q, j)
          BY <4>2, Zenon DEF VMInv, ListWhole
        <4>4. k # tail
          <5>1. k = tail => Node(q, j) = Node(vp, vi)
            BY <1>1, <4>3, Zenon
          <5>2. Node(q, j) # Node(vp, vi)
            BY <4>1, Zenon DEF Node
          <5>3. QED
            BY <5>1, <5>2, Zenon
        <4>5. tail = Len(lru)
          BY Zenon DEF VMInv, ListWhole
        <4>6. k + 1 \in 1..Len(lru') /\ k \in 1..(tail - 1)
          BY <1>13, <4>4, <4>5
        <4>7. QED
          BY <1>13, <4>3, <4>6, Zenon
      <3>3. QED
        BY <3>1, <3>2, Zenon
    <2>2. fault # "null tail"
      BY Zenon DEF VMInv, ListWhole
    <2>3. QED
      BY <1>4, <1>13, <2>1, <2>2, Zenon
  <1>24. ContentsKept'
    <2> SUFFICES ASSUME ~strayed', NEW q \in Pid, NEW j \in Pages(q), written'[q][j] # Unknown
                 PROVE  Kept(q, j)'
      BY <1>7, Zenon DEF ContentsKept
    <2>1. ~strayed /\ (v.dirty => vp = p)
      BY <1>3, Zenon
    <2>2. Kept(q, j)
      BY <1>4, <2>1, Zenon DEF VMInv, ContentsKept
    <2>3. \A s \in Slot : Holds(s, q, j)' <=> Holds(s, q, j)
      BY <1>4, Zenon DEF Holds
    <2>4. (q # vp \/ j # vi) => \A s \in Slot : Holds(s, q, j) => swap'[s] = swap[s]
      <3>1. v.dirty => \A s \in Slot : Holds(s, q, j) /\ s = back => q = vp /\ j = vi
        BY <1>10, <2>1, Zenon DEF Holds
      <3>2. QED
        BY <1>11, <3>1, Zenon
    <2>5. CASE q = p /\ j = i
      <3>1. \A s \in Slot : Holds(s, q, j) => swap[s] = written[q][j]
        BY <1>5, <2>2, <2>5, Zenon DEF Kept
      <3>2. \A s \in Slot : Holds(s, q, j) => swap'[s] = written[q][j]
        BY <1>1, <2>4, <2>5, <3>1, Zenon
      <3>3. frames'[f] = written[q][j]
        BY <1>9, <1>12, <2>5, <3>2, Zenon
      <3>4. QED
        BY <1>4, <1>8, <2>3, <2>5, <3>2, <3>3, Zenon DEF Kept
    <2>6. CASE q = vp /\ j = vi
      <3>1. \A s \in Slot : Holds(s, q, j) => swap'[s] = written[q][j]
        <4>1. CASE v.dirty
          <5>1. frames[f] = written[q][j]
            BY <1>1, <2>2, <2>6, Zenon DEF Kept, f
          <5>2. \A s \in Slot : Holds(s, q, j) => s = back
            BY <2>1, <2>6, <4>1, <1>2, FoundPage, Zenon DEF VMInv, back
          <5>3. QED
            BY <1>11, <4>1, <5>1, <5>2, Zenon
        <4>2. CASE ~v.dirty
          <5>1. \A s \in Slot : Holds(s, q, j) => swap[s] = written[q][j]
            BY <2>2, <2>6, <4>2, Zenon DEF Kept, v
          <5>2. QED
            BY <1>11, <4>2, <5>1, Zenon
        <4>3. QED
          BY <4>1, <4>2, Zenon
      <3>2. QED
        BY <1>4, <1>8, <2>3, <2>6, <3>1, Zenon DEF Kept
    <2>7. CASE (q # p \/ j # i) /\ (q # vp \/ j # vi)
      <3>1. Valid(q, j) => FrameOf(q, j) # f /\ FrameOf(q, j) \in PhysPage
        BY <1>1, <2>7, Zenon DEF VMInv, VMTypeOK, PagesFramed, FramesApart, f
      <3>2. Valid(q, j) => frames'[FrameOf(q, j)] = frames[FrameOf(q, j)]
        BY <1>12, <3>1, Zenon
      <3>3. QED
        BY <1>4, <1>8, <2>2, <2>3, <2>4, <2>7, <3>2, Zenon DEF Kept
    <2>8. QED
      BY <2>5, <2>6, <2>7, Zenon
  <1>25. AloneSafe'
    <2> SUFFICES ASSUME \A q, r \in Pid : q # r => state[q] = "none" \/ state[r] = "none"
                 PROVE  fault' = "none" /\ ~strayed'
      BY <1>4, Zenon DEF AloneSafe
    <2>1. vp = p
      <3>1. "running" # "none"
        BY Zenon
      <3>2. QED
        BY <1>1, <1>5, <3>1, Zenon
    <2>2. ~strayed
      BY Zenon DEF VMInv, AloneSafe
    <2>3. QED
      BY <1>3, <1>4, <1>5, <2>1, <2>2, Zenon
  <1>26. QED
    BY <1>15, <1>16, <1>17, <1>18, <1>19, <1>21, <1>22, <1>23, <1>24, <1>25, Zenon DEF VMInv

LEMMA SwapOutInv ==
    ASSUME VMInv, NEW p \in Pid, NEW i \in Pages(p), SwapOut(p, i)
    PROVE  VMInv'
  <1>1. Up(p) /\ state[p] = "running" /\ used = PhysPage
    BY Zenon DEF SwapOut, Up
  <1>2. CASE tail = 0
    <2>1. Die("null tail")
      BY <1>2, Zenon DEF SwapOut
    <2>2. \E q \in Pid : state[q] = "exited"
      <3> SUFFICES ASSUME \A q \in Pid : state[q] # "exited" PROVE FALSE
        BY Zenon
      <3>1. 0 \in PhysPage
        BY VMAssumption DEF PhysPage
      <3>2. PICK q \in Pid : \E j \in Pages(q) : Valid(q, j) /\ FrameOf(q, j) = 0
        BY <1>1, <3>1, Zenon DEF VMInv, FramesFilled
      <3>3. \E k \in 1..Len(lru) : TRUE
        BY <3>2, Zenon DEF VMInv, ListWhole
      <3>4. Len(lru) = 0
        BY <1>2, Zenon DEF VMInv, ListWhole
      <3>5. QED
        BY <3>3, <3>4
    <2>3. ~ \A q, r \in Pid : q # r => state[q] = "none" \/ state[r] = "none"
      BY <1>1, <2>2, Alone, Zenon
    <2>4. QED
      BY <2>1, <2>2, <2>3, DieInv, Zenon
  <1>3. CASE tail # 0 /\ PTE(lru[tail]).dirty /\ ~InSwap(p, lru[tail].vpn)
    <2>1. Die("assert")
      BY <1>3, Zenon DEF SwapOut, PTE
    <2>2. ~ \A q, r \in Pid : q # r => state[q] = "none" \/ state[r] = "none"
      <3> SUFFICES ASSUME \A q, r \in Pid : q # r => state[q] = "none" \/ state[r] = "none"
                   PROVE  FALSE
        BY Zenon
      <3>1. lru[tail].pid \in Pid /\ lru[tail].vpn \in Pages(lru[tail].pid)
        BY <1>3, VictimIs, Zenon
      <3>2. lru[tail].pid = p
        <4>1. \A q \in Pid : q # p => Pages(q) = {}
          BY <1>1, Alone, Zenon
        <4>2. QED
          BY <3>1, <4>1, Zenon
      <3>3. QED
        BY <1>3, <3>1, <3>2, Zenon DEF InSwap
    <2>3. "assert" # "null tail"
      BY Zenon
    <2>4. QED
      BY <2>1, <2>2, <2>3, DieInv, Zenon
  <1>4. CASE tail # 0 /\ ~(PTE(lru[tail]).dirty /\ ~InSwap(p, lru[tail].vpn))
    BY <1>4, EvictInv, Zenon
  <1>5. QED
    BY <1>2, <1>3, <1>4, Zenon

-----------------------------------------------------------------------------
(* What LRU::RemovePage leaves: nodes of the others, each once, and a tail  *)
(* in the list or NULL.                                                     *)
LEMMA RemovePageKeeps ==
    ASSUME VMInv, NEW p \in Pid, RemovePage(p)
    PROVE  /\ lru' \in Seq([pid : Pid, vpn : Nat]) /\ tail' \in 0..Len(lru')
           /\ \A k \in 1..Len(lru') : \E j \in 1..Len(lru) : lru'[k] = lru[j] /\ lru[j].pid # p
           /\ \A j, k \in 1..Len(lru') : lru'[j] = lru'[k] => j = k
  <1> DEFINE N == [pid : Pid, vpn : Nat]
             mine == {j \in 1..Len(lru) : lru[j].pid = p}
             lastMine == CHOOSE j \in mine : \A k \in mine : k <= j
  <1>1. lru \in Seq(N) /\ tail \in 0..Len(lru) /\ ListApart
    BY Zenon DEF VMInv, VMTypeOK
  <1> HIDE DEF N
  <1>2. Len(lru) \in Nat /\ \A j \in 1..Len(lru) : lru[j] \in N
    BY <1>1, SeqLen, Zenon
  <1>3. CASE mine = {} /\ UNCHANGED <<lru, tail>>
    <2>1. lru' = lru /\ tail' = tail
      BY <1>3, Zenon
    <2>2. \A j \in 1..Len(lru) : lru[j].pid # p
      BY <1>3, Zenon
    <2>3. QED
      BY <1>1, <2>1, <2>2, Zenon DEF ListApart, N
  <1>4. ASSUME mine # {}, NEW n \in 0..Len(lru), NEW kept \in Others(p, n),
               lru' = [k \in 1..n |-> lru[kept[k]]],
               tail' = IF lastMine = Len(lru) THEN 0 ELSE CHOOSE k \in 1..n : kept[k] = lastMine + 1
        PROVE  /\ lru' \in Seq(N) /\ tail' \in 0..Len(lru')
               /\ \A k \in 1..Len(lru') : \E j \in 1..Len(lru) : lru'[k] = lru[j] /\ lru[j].pid # p
               /\ \A j, k \in 1..Len(lru') : lru'[j] = lru'[k] => j = k
    <2>1. /\ \A k \in 1..n : kept[k] \in 1..Len(lru) /\ lru[kept[k]].pid # p
          /\ \A j, k \in 1..n : j < k => kept[j] < kept[k]
          /\ \A j \in 1..Len(lru) : lru[j].pid # p => \E k \in 1..n : kept[k] = j
      BY <1>4, Zenon DEF Others
    <2>2. n \in Nat /\ \A k \in 1..n : lru'[k] = lru[kept[k]] /\ lru'[k] \in N
      BY <1>2, <1>4, <2>1
    <2>3. lru' \in Seq(N) /\ Len(lru') = n
      <3>1. DOMAIN lru' = 1..n /\ lru' = [j \in 1..n |-> lru'[j]]
        BY <1>4, Zenon
      <3>2. QED
        BY <2>2, <3>1, SeqMake, Zenon
    <2>4. \A j, k \in 1..n : kept[j] = kept[k] => j = k
      <3>1. \A k \in 1..n : kept[k] \in Nat /\ k \in Nat
        BY <1>2, <2>1
      <3>2. SUFFICES ASSUME NEW j \in 1..n, NEW k \in 1..n, kept[j] = kept[k] PROVE j = k
        BY Zenon
      <3>3. ~(j < k) /\ ~(k < j)
        BY <2>1, <3>1, <3>2
      <3>4. QED
        BY <3>1, <3>3
    <2>5. \A j, k \in 1..n : lru'[j] = lru'[k] => j = k
      <3> SUFFICES ASSUME NEW j \in 1..n, NEW k \in 1..n, lru'[j] = lru'[k] PROVE j = k
        BY Zenon
      <3>1. kept[j] \in 1..Len(lru) /\ kept[k] \in 1..Len(lru)
        BY <2>1, Zenon
      <3>2. lru[kept[j]] = lru[kept[k]]
        BY <2>2, Zenon
      <3>3. kept[j] = kept[k]
        BY <1>1, <3>1, <3>2, Zenon DEF ListApart
      <3>4. QED
        BY <2>4, <3>3, Zenon
    <2>6. tail' \in 0..n
      <3>1. CASE lastMine = Len(lru)
        BY <1>4, <2>2, <3>1
      <3>2. CASE lastMine # Len(lru)
        <4>1. lastMine \in mine /\ \A k \in mine : k <= lastMine
          <5>1. \E m \in mine : \A k \in mine : k <= m
            BY <1>2, <1>4, LargestIs, Zenon
          <5>2. QED
            BY <5>1, Zenon
        <4> HIDE DEF lastMine
        <4>2. lastMine + 1 \in 1..Len(lru) /\ ~(lastMine + 1 <= lastMine)
          BY <1>2, <3>2, <4>1
        <4>3. lru[lastMine + 1].pid # p
          BY <4>1, <4>2, Zenon
        <4>4. \E k \in 1..n : kept[k] = lastMine + 1
          BY <2>1, <4>2, <4>3, Zenon
        <4>5. tail' \in 1..n
          BY <1>4, <3>2, <4>4, Zenon
        <4>6. QED
          BY <2>2, <4>5
      <3>3. QED
        BY <3>1, <3>2, Zenon
    <2>7. QED
      BY <2>1, <2>2, <2>3, <2>5, <2>6, Zenon
  <1>5. QED
    BY <1>3, <1>4, Zenon DEF RemovePage, N

(* The frames that a process gives back when it exits are those of its     *)
(* pages: RemovePage clears no other one.                                   *)
LEMMA ClearedIs ==
    ASSUME VMInv, NEW p \in Pid
    PROVE  \A f : f \in Cleared(p) <=> \E j \in Pages(p) : Valid(p, j) /\ FrameOf(p, j) = f
  <1>1. \A f : f \in ValidFrames(p) <=> \E j \in Pages(p) : Valid(p, j) /\ FrameOf(p, j) = f
    BY Zenon DEF ValidFrames, Valid, FrameOf
  <1>2. Listed(p) \subseteq ValidFrames(p)
    <2> SUFFICES ASSUME NEW f \in Listed(p) PROVE f \in ValidFrames(p)
      BY Zenon
    <2>1. PICK k \in 1..Len(lru) : lru[k].pid = p /\ f = pageTables[p][lru[k].vpn].physicalPage
      BY Zenon DEF Listed
    <2>2. Valid(p, lru[k].vpn)
      BY <2>1, Zenon DEF VMInv, ListValid
    <2>3. QED
      BY <1>1, <2>1, <2>2, Zenon DEF Valid, FrameOf
  <1>3. QED
    BY <1>1, <1>2, Zenon DEF Cleared

LEMMA ExitSpaceInv ==
    ASSUME VMInv, NEW p \in Pid, ExitSpace(p)
    PROVE  VMInv'
  <1>1. /\ state' = [state EXCEPT ![p] = "exited"] /\ state[p] = "running" /\ fault = "none"
        /\ used' = used \ Cleared(p)
        /\ frames' = [f \in PhysPage |-> IF f \in Cleared(p) THEN Unknown ELSE frames[f]]
        /\ pageTables' = [pageTables EXCEPT ![p] = <<>>]
        /\ written' = [written EXCEPT ![p] = <<>>]
        /\ strayed' = strayed /\ stores' = stores /\ fault' = fault
    BY Zenon DEF ExitSpace, Up
  <1>2. /\ PIDs' = [s \in Slot |-> IF PIDs[s] = p THEN NoProcess ELSE PIDs[s]]
        /\ entries' = [s \in Slot |-> IF PIDs[s] = p THEN 0 ELSE entries[s]]
        /\ swap' = [s \in Slot |-> IF PIDs[s] = p THEN Unknown ELSE swap[s]]
    BY Zenon DEF ExitSpace, removePages
  <1>3. /\ state \in [Pid -> {"none", "running", "exited"}]
        /\ pageTables \in [Pid -> Seq(PageTableEntry)]
        /\ frames \in [PhysPage -> Content] /\ used \subseteq PhysPage
        /\ PIDs \in [Slot -> Pid \cup {NoProcess}]
        /\ entries \in [Slot -> Nat] /\ swap \in [Slot -> Content]
        /\ written \in [Pid -> Seq(Content)] /\ strayed \in BOOLEAN /\ stores \in Nat
        /\ \A q \in Pid : /\ DOMAIN written[q] = Pages(q)
                          /\ state[q] # "running" => pageTables[q] = <<>>
    BY Zenon DEF VMInv, VMTypeOK
  <1>4. /\ lru' \in Seq([pid : Pid, vpn : Nat]) /\ tail' \in 0..Len(lru')
        /\ \A k \in 1..Len(lru') : \E j \in 1..Len(lru) : lru'[k] = lru[j] /\ lru[j].pid # p
        /\ \A j, k \in 1..Len(lru') : lru'[j] = lru'[k] => j = k
    BY RemovePageKeeps, Zenon DEF ExitSpace
  <1>5. \A f : f \in Cleared(p) <=> \E j \in Pages(p) : Valid(p, j) /\ FrameOf(p, j) = f
    BY ClearedIs, Zenon
  <1>6. /\ pageTables' \in [Pid -> Seq(PageTableEntry)] /\ pageTables'[p] = <<>>
        /\ written' \in [Pid -> Seq(Content)] /\ written'[p] = <<>>
        /\ \A q \in Pid : q # p => pageTables'[q] = pageTables[q] /\ written'[q] = written[q]
    BY <1>1, <1>3
  <1>7. /\ Pages(p)' = {} /\ \A q \in Pid : q # p => Pages(q)' = Pages(q)
        /\ \A q \in Pid : \A j : q # p =>
              (Valid(q, j)' <=> Valid(q, j)) /\ FrameOf(q, j)' = FrameOf(q, j)
    <2>1. DOMAIN pageTables'[p] = {}
      BY <1>6
    <2>2. QED
      BY <1>6, <2>1, Zenon DEF Pages, Valid, FrameOf
  <1>8. /\ state' \in [Pid -> {"none", "running", "exited"}] /\ state'[p] = "exited"
        /\ \A q \in Pid : q # p => state'[q] = state[q]
    BY <1>1, <1>3, Zenon
  <1>9. /\ PIDs' \in [Slot -> Pid \cup {NoProcess}]
        /\ entries' \in [Slot -> Nat] /\ swap' \in [Slot -> Content]
        /\ \A s \in Slot : PIDs[s] = p => PIDs'[s] = NoProcess
        /\ \A s \in Slot : PIDs[s] # p => /\ PIDs'[s] = PIDs[s] /\ entries'[s] = entries[s]
                                          /\ swap'[s] = swap[s]
    <2>1. Unknown \in Content /\ 0 \in Nat
      BY Zenon DEF Content
    <2>2. QED
      BY <1>2, <1>3, <2>1, Zenon
  <1>10. p # NoProcess /\ \A s \in Slot : PIDs'[s] # p
    BY <1>9, VMAssumption, Zenon
  <1>11. VMTypeOK'
    <2>1. frames' \in [PhysPage -> Content] /\ used' \subseteq PhysPage
      <3>1. Unknown \in Content
        BY Zenon DEF Content
      <3>2. QED
        BY <1>1, <1>3, <3>1, Zenon
    <2>2. \A q \in Pid : DOMAIN written'[q] = Pages(q)'
      <3>1. DOMAIN written'[p] = {}
        BY <1>6
      <3>2. QED
        BY <1>3, <1>6, <1>7, <3>1, Zenon
    <2>3. \A q \in Pid : state'[q] # "running" => pageTables'[q] = <<>>
      BY <1>3, <1>6, <1>8, Zenon
    <2>4. QED
      BY <1>1, <1>3, <1>4, <1>6, <1>8, <1>9, <2>1, <2>2, <2>3, Zenon DEF VMTypeOK
  <1>12. PagesFramed'
    <2> SUFFICES ASSUME NEW q \in Pid, NEW j \in Pages(q)', Valid(q, j)'
                 PROVE  FrameOf(q, j)' \in used'
      BY Zenon DEF PagesFramed
    <2>1. q # p /\ j \in Pages(q) /\ Valid(q, j) /\ FrameOf(q, j)' = FrameOf(q, j)
      BY <1>7, Zenon
    <2>2. FrameOf(q, j) \in used
      BY <2>1, Zenon DEF VMInv, PagesFramed
    <2>3. FrameOf(q, j) \notin Cleared(p)
      BY <1>5, <2>1, Zenon DEF VMInv, FramesApart
    <2>4. QED
      BY <1>1, <2>1, <2>2, <2>3, Zenon
  <1>13. FramesFilled'
    <2> SUFFICES ASSUME NEW g \in used'
                 PROVE  \E q \in Pid : \E j \in Pages(q)' : Valid(q, j)' /\ FrameOf(q, j)' = g
      BY Zenon DEF FramesFilled
    <2>1. g \in used /\ g \notin Cleared(p)
      BY <1>1, Zenon
    <2>2. PICK q \in Pid : \E j \in Pages(q) : Valid(q, j) /\ FrameOf(q, j) = g
      BY <2>1, Zenon DEF VMInv, FramesFilled
    <2>3. q # p
      BY <1>5, <2>1, <2>2, Zenon
    <2>4. QED
      BY <1>7, <2>2, <2>3, Zenon
  <1>14. FramesApart'
    <2> SUFFICES ASSUME NEW q \in Pid, NEW r \in Pid, NEW j \in Pages(q)', NEW k \in Pages(r)',
                        Valid(q, j)', Valid(r, k)', FrameOf(q, j)' = FrameOf(r, k)'
                 PROVE  q = r /\ j = k
      BY Zenon DEF FramesApart
    <2>1. /\ j \in Pages(q) /\ Valid(q, j) /\ k \in Pages(r) /\ Valid(r, k)
          /\ FrameOf(q, j) = FrameOf(r, k)
      BY <1>7, Zenon
    <2>2. QED
      BY <2>1, Zenon DEF VMInv, FramesApart
  <1>15. PagesHeld' /\ SlotsFilled' /\ SlotsApart'
    <2>1. PagesHeld'
      <3> SUFFICES ASSUME NEW q \in Pid, NEW j \in Pages(q)'
                   PROVE  \E s \in Slot : Holds(s, q, j)'
        BY Zenon DEF PagesHeld
      <3>1. q # p /\ j \in Pages(q)
        BY <1>7, Zenon
      <3>2. PICK s \in Slot : PIDs[s] = q /\ entries[s] = j
        BY <3>1, Zenon DEF VMInv, PagesHeld, Holds
      <3>3. QED
        BY <1>9, <3>1, <3>2, Zenon DEF Holds
    <2>2. SlotsFilled'
      <3> SUFFICES ASSUME NEW s \in Slot, PIDs'[s] # NoProcess
                   PROVE  entries'[s] \in DOMAIN pageTables'[PIDs'[s]]
        BY Zenon DEF SlotsFilled, Pages
      <3>1. PIDs[s] # p /\ PIDs'[s] = PIDs[s] /\ entries'[s] = entries[s]
        BY <1>9, Zenon
      <3>2. entries[s] \in DOMAIN pageTables[PIDs[s]] /\ PIDs[s] \in Pid
        BY <1>3, <3>1, Zenon DEF VMInv, SlotsFilled, Pages
      <3>3. QED
        BY <1>6, <3>1, <3>2, Zenon
    <2>3. SlotsApart'
      <3> SUFFICES ASSUME NEW s \in Slot, NEW t \in Slot, PIDs'[s] # NoProcess,
                          PIDs'[t] = PIDs'[s], entries'[t] = entries'[s]
                   PROVE  s = t
        BY Zenon DEF SlotsApart
      <3>1. PIDs[s] # p /\ PIDs[t] # p
        BY <1>9, Zenon
      <3>2. QED
        BY <1>9, <3>1, Zenon DEF VMInv, SlotsApart
    <2>4. QED
      BY <2>1, <2>2, <2>3, Zenon
  <1>16. ListValid'
    <2> SUFFICES ASSUME NEW k \in 1..Len(lru') PROVE Valid(lru[k].pid, lru[k].vpn)'
      BY Zenon DEF ListValid
    <2>1. PICK j \in 1..Len(lru) : lru'[k] = lru[j] /\ lru[j].pid # p
      BY <1>4, Zenon
    <2>2. lru[j].pid \in Pid /\ Valid(lru[j].pid, lru[j].vpn)
      BY ListIs, Zenon DEF VMInv, ListValid
    <2>3. QED
      BY <1>6, <2>1, <2>2, Zenon DEF Valid, Pages
  <1>17. ListApart' /\ ListWhole'
    BY <1>4, <1>8, Zenon DEF ListApart, ListWhole
  <1>18. ContentsKept'
    <2> SUFFICES ASSUME ~strayed', NEW q \in Pid, NEW j \in Pages(q)', written'[q][j] # Unknown
                 PROVE  Kept(q, j)'
      BY Zenon DEF ContentsKept
    <2>1. q # p /\ j \in Pages(q) /\ pageTables'[q] = pageTables[q] /\ written'[q] = written[q]
      BY <1>6, <1>7, Zenon
    <2>2. Kept(q, j)
      BY <1>1, <2>1, Zenon DEF VMInv, ContentsKept
    <2>3. \A s \in Slot : Holds(s, q, j)' => Holds(s, q, j) /\ swap'[s] = swap[s]
      BY <1>9, <1>10, <2>1, VMAssumption, Zenon DEF Holds
    <2>4. Valid(q, j) => frames'[FrameOf(q, j)] = frames[FrameOf(q, j)]
      <3> SUFFICES ASSUME Valid(q, j) PROVE frames'[FrameOf(q, j)] = frames[FrameOf(q, j)]
        BY Zenon
      <3>1. FrameOf(q, j) \in PhysPage
        BY <1>3, <2>1, Zenon DEF VMInv, PagesFramed
      <3>2. FrameOf(q, j) \notin Cleared(p)
        <4>1. FramesApart
          BY Zenon DEF VMInv
        <4>2. \A k \in Pages(p) : Valid(p, k) => FrameOf(p, k) # FrameOf(q, j)
          BY <2>1, <4>1, Zenon DEF FramesApart
        <4>3. QED
          BY <1>5, <4>2, Zenon
      <3>3. QED
        BY <1>1, <3>1, <3>2, Zenon
    <2>5. QED
      BY <1>7, <2>1, <2>2, <2>3, <2>4, Zenon DEF Kept
  <1>19. AloneSafe'
    <2> SUFFICES ASSUME \A q, r \in Pid : q # r => state'[q] = "none" \/ state'[r] = "none"
                 PROVE  fault' = "none" /\ ~strayed'
      BY Zenon DEF AloneSafe
    <2>1. "exited" # "none"
      BY Zenon
    <2>2. \A q, r \in Pid : q # r => state[q] = "none" \/ state[r] = "none"
      BY <1>8, <2>1, Zenon
    <2>3. QED
      BY <1>1, <2>2, Zenon DEF VMInv, AloneSafe
  <1>20. QED
    BY <1>11, <1>12, <1>13, <1>14, <1>15, <1>16, <1>17, <1>18, <1>19, Zenon DEF VMInv

-----------------------------------------------------------------------------
(* The slots that findNewPage gives to the pages of a new process: free    *)
(* ones, one for each page.                                                *)
AddedAt(p, n, contents) ==
    \E page \in [Slot -> 0..n] :
        /\ \A s \in Slot : page[s] # 0 => PIDs[s] = NoProcess
        /\ \A s, t \in Slot : page[s] # 0 /\ page[s] = page[t] => s = t
        /\ \A v \in 1..n : \E s \in Slot : page[s] = v
        /\ PIDs' = [s \in Slot |-> IF page[s] # 0 THEN p ELSE PIDs[s]]
        /\ entries' = [s \in Slot |-> IF page[s] # 0 THEN page[s] ELSE entries[s]]
        /\ swap' = [s \in Slot |-> IF page[s] # 0 /\ page[s] \in DOMAIN contents
                                     THEN contents[page[s]] ELSE swap[s]]

LEMMA AddPagesFindsSlots ==
    ASSUME NEW p \in Pid, NEW n \in Nat, NEW contents, addPages(p, n, contents)
    PROVE  AddedAt(p, n, contents)
  <1> DEFINE PagesAt(slot, s) == {v \in 1..n : slot[v] = s}
             PageOf(slot, s) == CHOOSE v \in 1..n : slot[v] = s
  <1>1. PICK slot \in Found(n) :
          /\ PIDs' = [s \in Slot |-> IF PagesAt(slot, s) # {} THEN p ELSE PIDs[s]]
          /\ entries' = [s \in Slot |-> IF PagesAt(slot, s) # {} THEN PageOf(slot, s) ELSE entries[s]]
          /\ swap' = [s \in Slot |->
                        IF PagesAt(slot, s) # {} /\ PageOf(slot, s) \in DOMAIN contents
                          THEN contents[PageOf(slot, s)] ELSE swap[s]]
    BY Zenon DEF addPages
  <1> DEFINE page == [s \in Slot |-> IF PagesAt(slot, s) # {} THEN PageOf(slot, s) ELSE 0]
  <1>2. /\ \A v \in 1..n : slot[v] \in Slot /\ PIDs[slot[v]] = NoProcess
        /\ \A u, v \in 1..n : u < v => slot[u] < slot[v]
    BY Zenon DEF Found, FreeSlots
  <1>3. \A u, v \in 1..n : slot[u] = slot[v] => u = v
    <2>1. \A v \in 1..n : slot[v] \in Int
      BY <1>2, VMAssumption DEF Slot
    <2>2. SUFFICES ASSUME NEW u \in 1..n, NEW v \in 1..n, slot[u] = slot[v] PROVE u = v
      BY Zenon
    <2>3. ~(u < v) /\ ~(v < u)
      BY <1>2, <2>1, <2>2
    <2>4. QED
      BY <2>3
  <1>4. \A s \in Slot : PagesAt(slot, s) # {} => PageOf(slot, s) \in 1..n /\ slot[PageOf(slot, s)] = s
    BY Zenon
  <1> HIDE DEF PageOf
  <1>5. 0 \in 0..n /\ \A v \in 1..n : v \in 0..n /\ v # 0
    OBVIOUS
  <1>6. \A s \in Slot : /\ PagesAt(slot, s) # {} => page[s] = PageOf(slot, s) /\ page[s] # 0
                        /\ page[s] # 0 => PagesAt(slot, s) # {}
    BY <1>4, <1>5, Zenon
  <1> HIDE DEF PagesAt
  <1>7. page \in [Slot -> 0..n]
    BY <1>4, <1>5, Zenon
  <1> HIDE DEF page
  <1>8. \A s \in Slot : page[s] # 0 => PIDs[s] = NoProcess
    BY <1>2, <1>4, <1>6, Zenon
  <1>9. \A s, t \in Slot : page[s] # 0 /\ page[s] = page[t] => s = t
    <2> SUFFICES ASSUME NEW s \in Slot, NEW t \in Slot, page[s] # 0, page[s] = page[t] PROVE s = t
      BY Zenon
    <2>1. page[t] # 0
      BY Zenon
    <2>2. slot[page[s]] = s /\ slot[page[t]] = t
      BY <1>4, <1>6, <2>1, Zenon
    <2>3. QED
      BY <2>2, Zenon
  <1>10. \A v \in 1..n : \E s \in Slot : page[s] = v
    <2> SUFFICES ASSUME NEW v \in 1..n PROVE page[slot[v]] = v
      BY <1>2, Zenon
    <2>1. slot[v] \in Slot /\ PagesAt(slot, slot[v]) # {}
      BY <1>2, Zenon DEF PagesAt
    <2>2. page[slot[v]] \in 1..n /\ slot[page[slot[v]]] = slot[v]
      BY <1>4, <1>6, <2>1, Zenon
    <2>3. QED
      BY <1>3, <2>2, Zenon
  <1>11. PIDs' = [s \in Slot |-> IF page[s] # 0 THEN p ELSE PIDs[s]]
    BY <1>1, <1>6, Zenon
  <1>12. entries' = [s \in Slot |-> IF page[s] # 0 THEN page[s] ELSE entries[s]]
    BY <1>1, <1>6, Zenon
  <1>13. swap' = [s \in Slot |-> IF page[s] # 0 /\ page[s] \in DOMAIN contents
                                   THEN contents[page[s]] ELSE swap[s]]
    BY <1>1, <1>6, Zenon
  <1>14. QED
    BY <1>7, <1>8, <1>9, <1>10, <1>11, <1>12, <1>13, Zenon DEF AddedAt

LEMMA NewSpaceInv ==
    ASSUME VMInv, NEW p \in Pid, NEW n \in Nat, NEW contents, NEW w \in Seq(Content), DOMAIN w = 1..n,
           state[p] = "none", state' = [state EXCEPT ![p] = "running"],
           pageTables' = [pageTables EXCEPT ![p] = [i \in 1..n |-> Absent]],
           addPages(p, n, contents), written' = [written EXCEPT ![p] = w],
           UNCHANGED <<used, frames, lru, tail, strayed, stores, fault>>,
           \A i \in DOMAIN contents : contents[i] \in Content,
           ~strayed => \A i \in 1..n :
                          w[i] # Unknown => i \in DOMAIN contents /\ contents[i] = w[i]
    PROVE  VMInv'
  <1>1. /\ used' = used /\ frames' = frames /\ lru' = lru /\ tail' = tail
        /\ strayed' = strayed /\ stores' = stores /\ fault' = fault
    BY Zenon
  <1>2. PICK page \in [Slot -> 0..n] :
        /\ \A s \in Slot : page[s] # 0 => PIDs[s] = NoProcess
        /\ \A s, t \in Slot : page[s] # 0 /\ page[s] = page[t] => s = t
        /\ \A v \in 1..n : \E s \in Slot : page[s] = v
        /\ PIDs' = [s \in Slot |-> IF page[s] # 0 THEN p ELSE PIDs[s]]
        /\ entries' = [s \in Slot |-> IF page[s] # 0 THEN page[s] ELSE entries[s]]
        /\ swap' = [s \in Slot |-> IF page[s] # 0 /\ page[s] \in DOMAIN contents
                                     THEN contents[page[s]] ELSE swap[s]]
    <2>1. AddedAt(p, n, contents)
      BY AddPagesFindsSlots, Zenon
    <2>2. QED
      BY <2>1, Zenon DEF AddedAt
  <1>3. /\ state \in [Pid -> {"none", "running", "exited"}]
        /\ pageTables \in [Pid -> Seq(PageTableEntry)]
        /\ frames \in [PhysPage -> Content] /\ used \subseteq PhysPage
        /\ PIDs \in [Slot -> Pid \cup {NoProcess}]
        /\ entries \in [Slot -> Nat] /\ swap \in [Slot -> Content]
        /\ lru \in Seq([pid : Pid, vpn : Nat]) /\ tail \in 0..Len(lru)
        /\ written \in [Pid -> Seq(Content)] /\ strayed \in BOOLEAN /\ stores \in Nat
        /\ \A q \in Pid : /\ DOMAIN written[q] = Pages(q)
                          /\ state[q] # "running" => pageTables[q] = <<>>
    BY Zenon DEF VMInv, VMTypeOK
  <1>4. p # NoProcess /\ 0 \notin 1..n /\ \A v \in 0..n : v # 0 => v \in 1..n
    BY VMAssumption
  <1>5. \A s \in Slot : page[s] # 0 => page[s] \in 1..n
    BY <1>2, <1>4, Zenon
  <1>6. /\ \A s \in Slot : page[s] # 0 => PIDs'[s] = p /\ entries'[s] = page[s]
        /\ \A s \in Slot : page[s] = 0 => /\ PIDs'[s] = PIDs[s] /\ entries'[s] = entries[s]
                                          /\ swap'[s] = swap[s]
        /\ \A s \in Slot : page[s] # 0 /\ page[s] \in DOMAIN contents => swap'[s] = contents[page[s]]
    BY <1>2, Zenon
  <1>7. Pages(p) = {} /\ \A s \in Slot : PIDs[s] # p
    <2>1. "none" # "running"
      BY Zenon
    <2>2. pageTables[p] = <<>>
      BY <1>3, <2>1, Zenon
    <2>3. Pages(p) = {}
      BY <2>2 DEF Pages
    <2>4. QED
      BY <1>4, <2>3, Zenon DEF VMInv, SlotsFilled
  <1>8. /\ pageTables' \in [Pid -> Seq(PageTableEntry)] /\ pageTables'[p] = [i \in 1..n |-> Absent]
        /\ written' \in [Pid -> Seq(Content)] /\ written'[p] = w
        /\ \A q \in Pid : q # p => pageTables'[q] = pageTables[q] /\ written'[q] = written[q]
    <2>1. Absent \in PageTableEntry
      BY Zenon DEF Absent, PageTableEntry
    <2>2. [i \in 1..n |-> Absent] \in Seq(PageTableEntry)
      BY <2>1
    <2>3. QED
      BY <1>3, <2>2, Zenon
  <1>9. /\ Pages(p)' = 1..n /\ \A q \in Pid : q # p => Pages(q)' = Pages(q)
        /\ \A j : ~Valid(p, j)'
        /\ \A q \in Pid : \A j : q # p =>
              (Valid(q, j)' <=> Valid(q, j)) /\ FrameOf(q, j)' = FrameOf(q, j)
    <2>1. DOMAIN pageTables'[p] = 1..n /\ \A j \in 1..n : pageTables'[p][j] = Absent
      BY <1>8, Zenon
    <2>2. ~Absent.valid
      BY Zenon DEF Absent
    <2>3. QED
      BY <1>8, <2>1, <2>2, Zenon DEF Pages, Valid, FrameOf
  <1>10. /\ state' \in [Pid -> {"none", "running", "exited"}] /\ state'[p] = "running"
         /\ \A q \in Pid : q # p => state'[q] = state[q]
    BY <1>3, Zenon
  <1>11. VMTypeOK'
    <2>1. PIDs' \in [Slot -> Pid \cup {NoProcess}]
      BY <1>2, <1>3, Zenon
    <2>2. entries' \in [Slot -> Nat]
      <3>1. \A v \in 1..n : v \in Nat
        OBVIOUS
      <3>2. QED
        BY <1>2, <1>3, <1>5, <3>1, Zenon
    <2>3. swap' \in [Slot -> Content]
      BY <1>2, <1>3, Zenon
    <2>4. \A q \in Pid : DOMAIN written'[q] = Pages(q)'
      BY <1>3, <1>8, <1>9, Zenon
    <2>5. \A q \in Pid : state'[q] # "running" => pageTables'[q] = <<>>
      BY <1>3, <1>8, <1>10, Zenon
    <2>6. used' \subseteq PhysPage /\ frames' \in [PhysPage -> Content]
      BY <1>1, <1>3, Zenon
    <2>7. lru' \in Seq([pid : Pid, vpn : Nat]) /\ tail' \in 0..Len(lru')
      BY <1>1, <1>3, Zenon
    <2>8. QED
      BY <1>1, <1>3, <1>8, <1>10, <2>1, <2>2, <2>3, <2>4, <2>5, <2>6, <2>7, Zenon DEF VMTypeOK
  <1>12. PagesFramed'
    <2> SUFFICES ASSUME NEW q \in Pid, NEW j \in Pages(q)', Valid(q, j)'
                 PROVE  FrameOf(q, j)' \in used'
      BY Zenon DEF PagesFramed
    <2>1. q # p /\ j \in Pages(q) /\ Valid(q, j) /\ FrameOf(q, j)' = FrameOf(q, j)
      BY <1>9, Zenon
    <2>2. QED
      BY <1>1, <2>1, Zenon DEF VMInv, PagesFramed
  <1>13. FramesFilled'
    <2> SUFFICES ASSUME NEW g \in used'
                 PROVE  \E q \in Pid : \E j \in Pages(q)' : Valid(q, j)' /\ FrameOf(q, j)' = g
      BY Zenon DEF FramesFilled
    <2>1. PICK q \in Pid : \E j \in Pages(q) : Valid(q, j) /\ FrameOf(q, j) = g
      BY <1>1, Zenon DEF VMInv, FramesFilled
    <2>2. q # p
      BY <1>7, <2>1, Zenon
    <2>3. QED
      BY <1>9, <2>1, <2>2, Zenon
  <1>14. FramesApart'
    <2> SUFFICES ASSUME NEW q \in Pid, NEW r \in Pid, NEW j \in Pages(q)', NEW k \in Pages(r)',
                        Valid(q, j)', Valid(r, k)', FrameOf(q, j)' = FrameOf(r, k)'
                 PROVE  q = r /\ j = k
      BY Zenon DEF FramesApart
    <2>1. /\ j \in Pages(q) /\ Valid(q, j) /\ k \in Pages(r) /\ Valid(r, k)
          /\ FrameOf(q, j) = FrameOf(r, k)
      BY <1>9, Zenon
    <2>2. QED
      BY <2>1, Zenon DEF VMInv, FramesApart
  <1>15. PagesHeld'
    <2> SUFFICES ASSUME NEW q \in Pid, NEW j \in Pages(q)'
                 PROVE  \E s \in Slot : Holds(s, q, j)'
      BY Zenon DEF PagesHeld
    <2>1. CASE q = p
      <3>1. PICK s \in Slot : page[s] = j
        BY <1>2, <1>9, <2>1, Zenon
      <3>2. page[s] # 0
        BY <1>4, <1>9, <2>1, <3>1, Zenon
      <3>3. QED
        BY <1>6, <2>1, <3>1, <3>2, Zenon DEF Holds
    <2>2. CASE q # p
      <3>1. PICK s \in Slot : PIDs[s] = q /\ entries[s] = j
        <4>1. j \in Pages(q) /\ PagesHeld
          BY <1>9, <2>2, Zenon DEF VMInv
        <4>2. QED
          BY <4>1, Zenon DEF PagesHeld, Holds
      <3>2. page[s] = 0
        BY <1>2, <3>1, VMAssumption, Zenon
      <3>3. QED
        BY <1>6, <3>1, <3>2, Zenon DEF Holds
    <2>3. QED
      BY <2>1, <2>2, Zenon
  <1>16. SlotsFilled'
    <2> SUFFICES ASSUME NEW s \in Slot, PIDs'[s] # NoProcess
                 PROVE  entries'[s] \in DOMAIN pageTables'[PIDs'[s]]
      BY Zenon DEF SlotsFilled, Pages
    <2>1. CASE page[s] # 0
      BY <1>5, <1>6, <1>9, <2>1, Zenon DEF Pages
    <2>2. CASE page[s] = 0
      <3>1. PIDs[s] # NoProcess /\ PIDs'[s] = PIDs[s] /\ entries'[s] = entries[s]
        BY <1>6, <2>2, Zenon
      <3>2. entries[s] \in DOMAIN pageTables[PIDs[s]] /\ PIDs[s] \in Pid /\ PIDs[s] # p
        BY <1>3, <1>7, <3>1, Zenon DEF VMInv, SlotsFilled, Pages
      <3>3. QED
        BY <1>8, <3>1, <3>2, Zenon
    <2>3. QED
      BY <2>1, <2>2, Zenon
  <1>17. SlotsApart'
    <2> SUFFICES ASSUME NEW s \in Slot, NEW t \in Slot, PIDs'[s] # NoProcess,
                        PIDs'[t] = PIDs'[s], entries'[t] = entries'[s]
                 PROVE  s = t
      BY Zenon DEF SlotsApart
    <2>1. page[s] = 0 <=> page[t] = 0
      BY <1>6, <1>7, Zenon
    <2>2. CASE page[s] = 0
      <3>1. PIDs[s] # NoProcess /\ PIDs[t] = PIDs[s] /\ entries[t] = entries[s]
        BY <1>6, <2>1, <2>2, Zenon
      <3>2. SlotsApart
        BY Zenon DEF VMInv
      <3>3. QED
        BY <3>1, <3>2, Zenon DEF SlotsApart
    <2>3. CASE page[s] # 0
      <3>1. page[s] = page[t]
        BY <1>6, <2>1, <2>3, Zenon
      <3>2. QED
        BY <1>2, <2>3, <3>1, Zenon
    <2>4. QED
      BY <2>2, <2>3, Zenon
  <1>18. ListValid' /\ ListApart'
    <2>1. ListValid'
      <3> SUFFICES ASSUME NEW k \in 1..Len(lru) PROVE Valid(lru[k].pid, lru[k].vpn)'
        BY <1>1, Zenon DEF ListValid
      <3>1. lru[k].pid \in Pid /\ Valid(lru[k].pid, lru[k].vpn)
        BY ListIs, Zenon DEF VMInv, ListValid
      <3>2. lru[k].pid # p
        BY <1>7, <3>1, Zenon DEF Valid
      <3>3. QED
        BY <1>1, <1>8, <3>1, <3>2, Zenon DEF Valid, Pages
    <2>2. QED
      BY <1>1, <2>1, Zenon DEF VMInv, ListApart
  <1>19. ListWhole'
    <2> SUFFICES ASSUME \A q \in Pid : state'[q] # "exited"
                 PROVE  /\ \A q \in Pid : \A j \in Pages(q)' :
                             Valid(q, j)' => \E k \in 1..Len(lru') : lru'[k] = Node(q, j)
                        /\ tail' = Len(lru') /\ fault' # "null tail"
      BY Zenon DEF ListWhole, Node
    <2>1. "none" # "exited"
      BY Zenon
    <2>2. \A q \in Pid : state[q] # "exited"
      BY <1>10, <2>1, Zenon
    <2>3. /\ \A q \in Pid : \A j \in Pages(q) :
               Valid(q, j) => \E k \in 1..Len(lru) : lru[k] = Node(q, j)
          /\ tail = Len(lru) /\ fault # "null tail"
      BY <2>2, Zenon DEF VMInv, ListWhole
    <2>4. QED
      BY <1>1, <1>9, <2>3, Zenon
  <1>20. ContentsKept'
    <2> SUFFICES ASSUME ~strayed', NEW q \in Pid, NEW j \in Pages(q)', written'[q][j] # Unknown
                 PROVE  Kept(q, j)'
      BY Zenon DEF ContentsKept
    <2>1. CASE q = p
      <3>1. j \in 1..n /\ w[j] # Unknown /\ written'[q][j] = w[j]
        BY <1>8, <1>9, <2>1, Zenon
      <3>2. j \in DOMAIN contents /\ contents[j] = w[j]
        <4>1. ~strayed
          BY <1>1
        <4>2. QED
          BY <3>1, <4>1, Zenon
      <3>3. \A s \in Slot : Holds(s, q, j)' => page[s] = j /\ page[s] # 0
        BY <1>6, <1>7, <2>1, Zenon DEF Holds
      <3>4. \A s \in Slot : Holds(s, q, j)' => swap'[s] = w[j]
        <4> SUFFICES ASSUME NEW s \in Slot, Holds(s, q, j)' PROVE swap'[s] = w[j]
          BY Zenon
        <4>1. page[s] = j /\ page[s] # 0
          BY <3>3, Zenon
        <4>2. swap'[s] = contents[page[s]]
          BY <1>6, <3>2, <4>1, Zenon
        <4>3. QED
          BY <3>2, <4>1, <4>2, Zenon
      <3>5. QED
        BY <1>9, <2>1, <3>1, <3>4, Zenon DEF Kept
    <2>2. CASE q # p
      <3>1. j \in Pages(q) /\ pageTables'[q] = pageTables[q] /\ written'[q] = written[q]
        BY <1>8, <1>9, <2>2, Zenon
      <3>2. Kept(q, j)
        <4>1. ~strayed /\ ContentsKept
          BY <1>1 DEF VMInv
        <4>2. written[q][j] # Unknown
          BY <3>1, Zenon
        <4>3. QED
          BY <3>1, <4>1, <4>2, Zenon DEF ContentsKept
      <3>3. \A s \in Slot : Holds(s, q, j)' => Holds(s, q, j) /\ swap'[s] = swap[s]
        BY <1>6, <2>2, Zenon DEF Holds
      <3>4. QED
        BY <1>1, <1>9, <2>2, <3>1, <3>2, <3>3, Zenon DEF Kept
    <2>3. QED
      BY <2>1, <2>2, Zenon
  <1>21. AloneSafe'
    <2> SUFFICES ASSUME \A q, r \in Pid : q # r => state'[q] = "none" \/ state'[r] = "none"
                 PROVE  fault' = "none" /\ ~strayed'
      BY Zenon DEF AloneSafe
    <2>1. \A q, r \in Pid : q # r => state[q] = "none" \/ state[r] = "none"
      BY <1>10, Zenon
    <2>2. QED
      <3>1. AloneSafe
        BY Zenon DEF VMInv
      <3>2. fault = "none" /\ ~strayed
        BY <2>1, <3>1, Zenon DEF AloneSafe
      <3>3. QED
        BY <1>1, <3>2
  <1>22. QED
    BY <1>11, <1>12, <1>13, <1>14, <1>15, <1>16, <1>17, <1>18, <1>19, <1>20, <1>21, Zenon DEF VMInv

LEMMA LoadSpaceInv ==
    ASSUME VMInv, NEW p \in Pid, NEW n \in Nat, NEW code \in 0..n, LoadSpace(p, n, code)
    PROVE  VMInv'
  <1> DEFINE w == [i \in 1..n |-> IF i <= code THEN Text ELSE Unknown]
             contents == [i \in 1..code |-> Text]
  <1>1. Text \in Content /\ Unknown \in Content
    BY Zenon DEF Content
  <1>2. w \in Seq(Content) /\ DOMAIN w = 1..n
    BY <1>1
  <1>3. \A i \in DOMAIN contents : contents[i] \in Content
    BY <1>1, Zenon
  <1>4. \A i \in 1..n : w[i] # Unknown => i \in DOMAIN contents /\ contents[i] = w[i]
    OBVIOUS
  <1>5. /\ state[p] = "none" /\ state' = [state EXCEPT ![p] = "running"]
        /\ pageTables' = [pageTables EXCEPT ![p] = [i \in 1..n |-> Absent]]
        /\ addPages(p, n, contents) /\ written' = [written EXCEPT ![p] = w]
        /\ UNCHANGED <<used, frames, lru, tail, strayed, stores, fault>>
    BY Zenon DEF LoadSpace
  <1> HIDE DEF w, contents
  <1>6. QED
    BY <1>2, <1>3, <1>4, <1>5, NewSpaceInv, Zenon

(* AddrSpace's copy constructor reads a page where its contents are. *)
LEMMA ClonedIs ==
    ASSUME VMInv, NEW p \in Pid, NEW i \in Pages(p)
    PROVE  /\ Cloned(p, i) \in Content
           /\ ~strayed /\ written[p][i] # Unknown => Cloned(p, i) = written[p][i]
  <1>1. VMTypeOK /\ PagesHeld /\ SlotsApart /\ PagesFramed /\ ContentsKept
    BY Zenon DEF VMInv
  <1>2. findPage(p, i) \in Slot /\ Holds(findPage(p, i), p, i)
    BY <1>1, FoundPage, Zenon
  <1>3. CASE Valid(p, i)
    <2>1. Cloned(p, i) = frames[FrameOf(p, i)]
      BY <1>3, Zenon DEF Cloned, Valid, FrameOf
    <2>2. FrameOf(p, i) \in PhysPage
      BY <1>1, <1>3, Zenon DEF PagesFramed, VMTypeOK
    <2>3. QED
      <3>1. frames[FrameOf(p, i)] \in Content
        BY <1>1, <2>2, Zenon DEF VMTypeOK
      <3>2. ~strayed /\ written[p][i] # Unknown => frames[FrameOf(p, i)] = written[p][i]
        BY <1>1, <1>3, Zenon DEF ContentsKept, Kept
      <3>3. QED
        BY <2>1, <3>1, <3>2, Zenon
  <1>4. CASE ~Valid(p, i)
    <2>1. Cloned(p, i) = swap[findPage(p, i)]
      BY <1>4, Zenon DEF Cloned, Valid
    <2>2. QED
      BY <1>1, <1>2, <1>4, <2>1, Zenon DEF VMTypeOK, ContentsKept, Kept
  <1>5. QED
    BY <1>3, <1>4, Zenon

LEMMA CloneSpaceInv ==
    ASSUME VMInv, NEW p \in Pid, NEW q \in Pid, CloneSpace(p, q)
    PROVE  VMInv'
  <1> DEFINE n == Len(pageTables[p])
             contents == [i \in Pages(p) |-> Cloned(p, i)]
  <1>1. pageTables[p] \in Seq(PageTableEntry) /\ written[p] \in Seq(Content)
        /\ DOMAIN written[p] = Pages(p)
    BY Zenon DEF VMInv, VMTypeOK
  <1>2. n \in Nat /\ Pages(p) = 1..n
    BY <1>1, SeqLen, Zenon DEF Pages
  <1>3. \A i \in DOMAIN contents : contents[i] \in Content
    BY ClonedIs, Zenon
  <1>4. ~strayed => \A i \in 1..n :
           written[p][i] # Unknown => i \in DOMAIN contents /\ contents[i] = written[p][i]
    BY <1>2, ClonedIs, Zenon
  <1>5. /\ state[q] = "none" /\ state' = [state EXCEPT ![q] = "running"]
        /\ pageTables' = [pageTables EXCEPT ![q] = [i \in 1..n |-> Absent]]
        /\ addPages(q, n, contents) /\ written' = [written EXCEPT ![q] = written[p]]
        /\ UNCHANGED <<used, frames, lru, tail, strayed, stores, fault>>
    BY <1>2, Zenon DEF CloneSpace
  <1> HIDE DEF n, contents
  <1>6. QED
    BY <1>1, <1>2, <1>3, <1>4, <1>5, NewSpaceInv, Zenon

-----------------------------------------------------------------------------
LEMMA VMInvInit == VMInit => VMInv
  <1> SUFFICES ASSUME VMInit PROVE VMInv
    BY Zenon
  <1>1. /\ state = [p \in Pid |-> "none"] /\ pageTables = [p \in Pid |-> <<>>]
        /\ used = {} /\ frames = [f \in PhysPage |-> Unknown]
        /\ PIDs = [s \in Slot |-> NoProcess] /\ entries = [s \in Slot |-> 0]
        /\ swap = [s \in Slot |-> Unknown] /\ lru = <<>> /\ tail = 0
        /\ written = [p \in Pid |-> <<>>] /\ strayed = FALSE /\ stores = 0 /\ fault = "none"
    BY Zenon DEF VMInit
  <1>2. \A p \in Pid : Pages(p) = {} /\ DOMAIN written[p] = {}
    <2>1. \A p \in Pid : pageTables[p] = <<>> /\ written[p] = <<>>
      BY <1>1, Zenon
    <2>2. DOMAIN <<>> = {}
      OBVIOUS
    <2>3. QED
      BY <2>1, <2>2, Zenon DEF Pages
  <1>3. VMTypeOK
    <2>1. Unknown \in Content
      BY Zenon DEF Content
    <2>2. state \in [Pid -> {"none", "running", "exited"}]
      BY <1>1, Zenon
    <2>3. pageTables \in [Pid -> Seq(PageTableEntry)]
      BY <1>1
    <2>4. used \subseteq PhysPage /\ frames \in [PhysPage -> Content]
      BY <1>1, <2>1, Zenon
    <2>5. PIDs \in [Slot -> Pid \cup {NoProcess}] /\ swap \in [Slot -> Content]
      BY <1>1, <2>1, Zenon
    <2>6. entries \in [Slot -> Nat]
      BY <1>1, Zenon
    <2>7. lru \in Seq([pid : Pid, vpn : Nat]) /\ tail \in 0..Len(lru)
      BY <1>1
    <2>8. written \in [Pid -> Seq(Content)]
      BY <1>1
    <2>9. strayed \in BOOLEAN /\ stores \in Nat
      BY <1>1, Zenon
    <2>10. \A p \in Pid : DOMAIN written[p] = Pages(p) /\ pageTables[p] = <<>>
      BY <1>1, <1>2, Zenon
    <2>11. QED
      BY <2>2, <2>3, <2>4, <2>5, <2>6, <2>7, <2>8, <2>9, <2>10, Zenon DEF VMTypeOK
  <1>4. PagesFramed /\ FramesFilled /\ FramesApart /\ PagesHeld
    BY <1>1, <1>2, Zenon DEF PagesFramed, FramesFilled, FramesApart, PagesHeld
  <1>5. SlotsFilled /\ SlotsApart
    BY <1>1, Zenon DEF SlotsFilled, SlotsApart
  <1>6. ListValid /\ ListApart /\ ListWhole
    <2>1. 1..Len(lru) = {} /\ tail = Len(lru) /\ fault # "null tail"
      BY <1>1
    <2>2. QED
      BY <1>2, <2>1, Zenon DEF ListValid, ListApart, ListWhole
  <1>7. ContentsKept /\ AloneSafe
    BY <1>1, <1>2, Zenon DEF ContentsKept, AloneSafe
  <1>8. QED
    BY <1>3, <1>4, <1>5, <1>6, <1>7, Zenon DEF VMInv

LEMMA VMInvStep == VMInv /\ [VMNext]_vmVars => VMInv'
  <1> SUFFICES ASSUME VMInv, [VMNext]_vmVars PROVE VMInv'
    BY Zenon
  <1>1. CASE UNCHANGED vmVars
    <2>1. /\ state' = state /\ pageTables' = pageTables /\ used' = used /\ frames' = frames
          /\ PIDs' = PIDs /\ entries' = entries /\ swap' = swap /\ lru' = lru /\ tail' = tail
          /\ written' = written /\ strayed' = strayed /\ stores' = stores /\ fault' = fault
      BY <1>1, Zenon DEF vmVars
    <2>2. VMTypeOK' /\ PagesFramed'
      BY <2>1, Zenon DEF VMInv, VMTypeOK, PagesFramed, Valid, FrameOf, Pages
    <2>3. FramesFilled' /\ FramesApart'
      BY <2>1 DEF VMInv, FramesFilled, FramesApart, Valid, FrameOf, Pages
    <2>4. PagesHeld' /\ SlotsFilled' /\ SlotsApart'
      <3>1. PagesHeld'
        BY <2>1 DEF VMInv, PagesHeld, Holds, Pages
      <3>2. SlotsFilled'
        BY <2>1, Zenon DEF VMInv, SlotsFilled, Pages
      <3>3. SlotsApart'
        BY <2>1, Zenon DEF VMInv, SlotsApart
      <3>4. QED
        BY <3>1, <3>2, <3>3, Zenon
    <2>5. ListValid' /\ ListApart' /\ ListWhole'
      BY <2>1, Zenon DEF VMInv, ListValid, ListApart, ListWhole, Valid, Pages, Node
    <2>6. ContentsKept' /\ AloneSafe'
      BY <2>1 DEF VMInv, ContentsKept, AloneSafe, Kept, Valid, FrameOf, Holds, Pages
    <2>7. QED
      BY <2>2, <2>3, <2>4, <2>5, <2>6, Zenon DEF VMInv
  <1>2. ASSUME NEW p \in Pid, NEW n \in Size, LoadSpace(p, n, IF CodePages < n THEN CodePages ELSE n)
        PROVE  VMInv'
    <2>1. n \in Nat /\ (IF CodePages < n THEN CodePages ELSE n) \in 0..n
      BY VMAssumption
    <2>2. QED
      BY <1>2, <2>1, LoadSpaceInv, Zenon
  <1>3. CASE VMNext
    BY <1>2, <1>3, CloneSpaceInv, StoreInv, SwapInInv, SwapOutInv, ExitSpaceInv, Zenon DEF VMNext
  <1>4. QED
    BY <1>1, <1>3, Zenon

(* The inductive invariant of the virtual memory. *)
THEOREM VMInvAlways == VMSpec => []VMInv
  BY VMInvInit, VMInvStep, PTL DEF VMSpec

-----------------------------------------------------------------------------
LEMMA PagesAre ==
    /\ \A p \in Pid : \A i \in Pages(p) : Node(p, i) \in AllPages
    /\ \A m \in AllPages : m.pid \in Pid /\ m.vpn \in Pages(m.pid) /\ m = Node(m.pid, m.vpn)
    /\ \A p, i : Node(p, i).pid = p /\ Node(p, i).vpn = i
    /\ \A m : m \in InMemory <=> m \in AllPages /\ Valid(m.pid, m.vpn)
  <1>1. \A p, i : Node(p, i).pid = p /\ Node(p, i).vpn = i
    BY Zenon DEF Node
  <1>2. \A m : m \in AllPages <=> \E p \in Pid : \E i \in Pages(p) : m = Node(p, i)
    BY DEF AllPages
  <1>3. \A m \in AllPages : m.pid \in Pid /\ m.vpn \in Pages(m.pid) /\ m = Node(m.pid, m.vpn)
    <2> SUFFICES ASSUME NEW m \in AllPages
                 PROVE  m.pid \in Pid /\ m.vpn \in Pages(m.pid) /\ m = Node(m.pid, m.vpn)
      BY Zenon
    <2>1. PICK p \in Pid : \E i \in Pages(p) : m = Node(p, i)
      BY <1>2, Zenon
    <2>2. PICK i \in Pages(p) : m = Node(p, i)
      BY <2>1, Zenon
    <2>3. m.pid = p /\ m.vpn = i
      BY <1>1, <2>2, Zenon
    <2>4. QED
      BY <2>2, <2>3, Zenon
  <1>4. \A m : m \in InMemory <=> m \in AllPages /\ Valid(m.pid, m.vpn)
    BY <1>3, Zenon DEF InMemory, PTE, Valid
  <1>5. QED
    BY <1>1, <1>2, <1>3, <1>4, Zenon

LEMMA BookkeepingFollows == VMInv => BookkeepingExact
  <1> SUFFICES ASSUME VMInv PROVE BookkeepingExact
    BY Zenon
  <1>1. FramesExact
    <2>1. \A m \in InMemory : PTE(m).physicalPage \in used
      BY PagesAre, Zenon DEF VMInv, PagesFramed, PTE, FrameOf
    <2>2. \A f \in used : \E m \in InMemory : PTE(m).physicalPage = f
      <3> SUFFICES ASSUME NEW f \in used PROVE \E m \in InMemory : PTE(m).physicalPage = f
        BY Zenon
      <3>1. PICK p \in Pid : \E i \in Pages(p) : Valid(p, i) /\ FrameOf(p, i) = f
        BY Zenon DEF VMInv, FramesFilled
      <3>2. PICK i \in Pages(p) : Valid(p, i) /\ FrameOf(p, i) = f
        BY <3>1, Zenon
      <3>3. Node(p, i) \in InMemory /\ PTE(Node(p, i)).physicalPage = f
        <4>1. Node(p, i).pid = p /\ Node(p, i).vpn = i /\ Node(p, i) \in AllPages
          BY PagesAre, Zenon
        <4>2. Valid(Node(p, i).pid, Node(p, i).vpn)
          BY <3>2, <4>1, Zenon
        <4>3. QED
          BY <3>2, <4>1, <4>2, PagesAre, Zenon DEF PTE, FrameOf
      <3>4. QED
        BY <3>3, Zenon
    <2>3. \A m, n \in InMemory : PTE(m).physicalPage = PTE(n).physicalPage => m = n
      <3> SUFFICES ASSUME NEW m \in InMemory, NEW n \in InMemory,
                          PTE(m).physicalPage = PTE(n).physicalPage
                   PROVE  m = n
        BY Zenon
      <3>1. /\ m.pid \in Pid /\ m.vpn \in Pages(m.pid) /\ Valid(m.pid, m.vpn)
            /\ n.pid \in Pid /\ n.vpn \in Pages(n.pid) /\ Valid(n.pid, n.vpn)
            /\ FrameOf(m.pid, m.vpn) = FrameOf(n.pid, n.vpn)
        BY PagesAre, Zenon DEF PTE, FrameOf
      <3>2. m.pid = n.pid /\ m.vpn = n.vpn
        BY <3>1, Zenon DEF VMInv, FramesApart
      <3>3. m = Node(m.pid, m.vpn) /\ n = Node(n.pid, n.vpn)
        BY PagesAre, Zenon
      <3>4. QED
        BY <3>2, <3>3, Zenon
    <2>4. used = {PTE(m).physicalPage : m \in InMemory}
      BY <2>1, <2>2, Zenon
    <2>5. QED
      BY <2>3, <2>4, Zenon DEF FramesExact
  <1>2. SwapExact
    <2>1. PIDs \in [Slot -> Pid \cup {NoProcess}]
      BY Zenon DEF VMInv, VMTypeOK
    <2>2. \A s \in Slot \ FreeSlots : PIDs[s] \in Pid /\ PIDs[s] # NoProcess
      BY <2>1, Zenon DEF FreeSlots
    <2>3. \A m \in AllPages : \E s \in Slot : Holds(s, m.pid, m.vpn)
      BY PagesAre, Zenon DEF VMInv, PagesHeld
    <2>4. \A s \in Slot \ FreeSlots : Node(PIDs[s], entries[s]) \in AllPages
      BY <2>2, PagesAre, Zenon DEF VMInv, SlotsFilled
    <2>5. \A s, t \in Slot \ FreeSlots : Holds(t, PIDs[s], entries[s]) => s = t
      BY <2>2, Zenon DEF VMInv, SlotsApart, Holds
    <2>6. QED
      BY <2>3, <2>4, <2>5, Zenon DEF SwapExact
  <1>3. ASSUME \A p \in Pid : state[p] # "exited" PROVE ListExact
    <2>1. /\ \A p \in Pid : \A i \in Pages(p) :
               Valid(p, i) => \E k \in 1..Len(lru) : lru[k] = Node(p, i)
          /\ tail = Len(lru) /\ fault # "null tail"
      BY <1>3, Zenon DEF VMInv, ListWhole
    <2>2. \A k \in 1..Len(lru) : lru[k] \in InMemory
      <3> SUFFICES ASSUME NEW k \in 1..Len(lru) PROVE lru[k] \in InMemory
        BY Zenon
      <3>1. lru[k].pid \in Pid /\ lru[k] = Node(lru[k].pid, lru[k].vpn)
        BY ListIs, Zenon DEF VMInv
      <3>2. Valid(lru[k].pid, lru[k].vpn)
        BY Zenon DEF VMInv, ListValid
      <3>3. Node(lru[k].pid, lru[k].vpn) \in AllPages
        BY <3>1, <3>2, PagesAre, Zenon DEF Valid
      <3>4. QED
        BY <3>1, <3>2, <3>3, PagesAre, Zenon
    <2>3. \A m \in InMemory : \E k \in 1..Len(lru) : lru[k] = m
      <3> SUFFICES ASSUME NEW m \in InMemory PROVE \E k \in 1..Len(lru) : lru[k] = m
        BY Zenon
      <3>1. /\ m.pid \in Pid /\ m.vpn \in Pages(m.pid) /\ Valid(m.pid, m.vpn)
            /\ m = Node(m.pid, m.vpn)
        BY PagesAre, Zenon
      <3>2. \E k \in 1..Len(lru) : lru[k] = Node(m.pid, m.vpn)
        BY <2>1, <3>1, Zenon
      <3>3. QED
        BY <3>1, <3>2, Zenon
    <2>4. {lru[j] : j \in 1..Len(lru)} = InMemory
      BY <2>2, <2>3, Zenon
    <2>5. QED
      BY <2>1, <2>4, Zenon DEF VMInv, ListApart, ListExact
  <1>4. QED
    BY <1>1, <1>2, <1>3, Zenon DEF BookkeepingExact

(* Page tables, frame bitmap, swap file and LRU list agree at every step,  *)
(* for any number of processes, pages, frames and slots.                    *)
THEOREM BookkeepingStaysExact == VMSpec => []BookkeepingExact
  BY VMInvAlways, BookkeepingFollows, PTL

LEMMA CoherenceFollows == VMInv => Coherent
  <1> SUFFICES ASSUME VMInv PROVE Coherent
    BY Zenon
  <1>1. ASSUME ~strayed, NEW m \in AllPages, written[m.pid][m.vpn] # Unknown
        PROVE  written[m.pid][m.vpn] = Cloned(m.pid, m.vpn)
    <2>1. m.pid \in Pid /\ m.vpn \in Pages(m.pid)
      BY PagesAre, Zenon
    <2>2. QED
      BY <1>1, <2>1, ClonedIs, Zenon
  <1>2. AloneSafe
    BY Zenon DEF VMInv
  <1>3. QED
    BY <1>1, <1>2, Zenon DEF Coherent, AloneSafe

(* A page keeps what its process wrote, through swapping, forking and the  *)
(* reuse of frames and slots, until VMManager writes a page back for the   *)
(* wrong process, which one process alone never meets.                     *)
THEOREM PagesStayCoherent == VMSpec => []Coherent
  BY VMInvAlways, CoherenceFollows, PTL

-----------------------------------------------------------------------------
(* SynchDisk. *)
USE DiskAssumption

LEMMA DiskInvInit == Init => DiskInv
  <1> SUFFICES ASSUME Init PROVE DiskInv
    OBVIOUS
  <1>1. SynchDiskTypeOK
    BY DEF Init, SynchDiskTypeOK
  <1>2. \A t \in Thread : pc[t] = "idle" /\ call[t] = NoCall /\ lock # t
    BY DEF Init
  <1>3. ~active /\ semaphore = 0
    BY DEF Init
  <1>4. QED
    BY <1>1, <1>2, <1>3 DEF DiskInv, Inside

(* The calls of a thread and what they do to its step. *)
LEMMA CallKeeps ==
    ASSUME DiskInv, NEW t \in Thread, NEW c \in AD!Call, CallSector(t, c)
    PROVE  DiskInv'
  <1>1. c # NoCall
    BY DEF AD!Call
  <1>2. SynchDiskTypeOK'
    BY DEF CallSector, Goto, DiskInv, SynchDiskTypeOK
  <1>3. QED
    BY <1>1, <1>2 DEF CallSector, Goto, DiskInv, SynchDiskTypeOK, Inside

LEMMA AcquireKeeps ==
    ASSUME DiskInv, NEW t \in Thread, Acquire(t)
    PROVE  DiskInv'
  <1>1. lock = "free"
    BY DEF Acquire, DiskInv, Inside
  <1>2. SynchDiskTypeOK'
    BY DEF Acquire, Goto, DiskInv, SynchDiskTypeOK
  <1>3. QED
    BY <1>1, <1>2 DEF Acquire, Goto, DiskInv, SynchDiskTypeOK, Inside

(* A thread that is to make its request finds nobody else in P. *)
LEMMA AloneInside ==
    ASSUME DiskInv, NEW t \in Thread, pc[t] \in Inside
    PROVE  \A u \in Thread \ {t} : pc[u] \notin Inside
  BY DEF DiskInv

LEMMA RequestKeeps ==
    ASSUME DiskInv, NEW t \in Thread, Request(t)
    PROVE  DiskInv'
  <1>1. call[t] \in AD!Call
    BY DEF Request, DiskInv, SynchDiskTypeOK
  <1>2. SynchDiskTypeOK'
    BY <1>1 DEF Request, Goto, DiskInv, SynchDiskTypeOK, AD!Call
  <1>3. ~active /\ semaphore = 0
    BY AloneInside DEF Request, DiskInv, Inside
  <1>4. QED
    BY <1>2, <1>3, AloneInside DEF Request, Goto, DiskInv, SynchDiskTypeOK, Inside

LEMMA InterruptKeeps ==
    ASSUME DiskInv, HandleInterrupt
    PROVE  DiskInv'
  <1>1. SynchDiskTypeOK'
    <2>1. semaphore' \in Nat
      <3>1. semaphore \in Nat
        BY DEF DiskInv, SynchDiskTypeOK
      <3>2. semaphore' = semaphore + 1
        BY DEF HandleInterrupt
      <3>3. QED
        BY <3>1, <3>2
    <2>2. active' \in BOOLEAN
      BY DEF HandleInterrupt
    <2>3. UNCHANGED <<sectors, call, buffer, pc, lock>>
      BY DEF HandleInterrupt
    <2>4. QED
      BY <2>1, <2>2, <2>3 DEF DiskInv, SynchDiskTypeOK
  <1>2. \E t \in Thread : pc[t] = "P"
    BY DEF HandleInterrupt, DiskInv
  <1>3. semaphore = 0 /\ semaphore' = 1 /\ ~active'
    BY <1>2 DEF HandleInterrupt, DiskInv
  <1>4. QED
    BY <1>1, <1>2, <1>3 DEF HandleInterrupt, DiskInv

LEMMA PKeeps ==
    ASSUME DiskInv, NEW t \in Thread, P(t)
    PROVE  DiskInv'
  <1>1. ~active /\ semaphore = 1
    BY DEF P, DiskInv, SynchDiskTypeOK
  <1>2. SynchDiskTypeOK'
    BY <1>1 DEF P, Goto, DiskInv, SynchDiskTypeOK
  <1>3. QED
    BY <1>1, <1>2, AloneInside DEF P, Goto, DiskInv, SynchDiskTypeOK, Inside

LEMMA ReleaseKeeps ==
    ASSUME DiskInv, NEW t \in Thread, Release(t)
    PROVE  DiskInv'
  <1>1. ~active /\ semaphore = 0
    BY AloneInside DEF Release, DiskInv, Inside
  <1>2. SynchDiskTypeOK'
    BY DEF Release, Goto, DiskInv, SynchDiskTypeOK
  <1>3. QED
    BY <1>1, <1>2, AloneInside DEF Release, Goto, DiskInv, SynchDiskTypeOK, Inside

LEMMA DiskInvStep == DiskInv /\ [Next]_vars => DiskInv'
  <1> SUFFICES ASSUME DiskInv, [Next]_vars PROVE DiskInv'
    OBVIOUS
  <1>1. CASE UNCHANGED vars
    BY <1>1 DEF vars, DiskInv, SynchDiskTypeOK
  <1>2. CASE HandleInterrupt
    BY <1>2, InterruptKeeps
  <1>3. ASSUME NEW t \in Thread, Step(t) PROVE DiskInv'
    BY <1>3, AcquireKeeps, RequestKeeps, PKeeps, ReleaseKeeps DEF Step
  <1>4. ASSUME NEW t \in Thread, NEW c \in AD!Call, CallSector(t, c) PROVE DiskInv'
    BY <1>4, CallKeeps
  <1>5. QED
    BY <1>1, <1>2, <1>3, <1>4 DEF Next

LEMMA DiskInvAlways == Spec => []DiskInv
  BY DiskInvInit, DiskInvStep, PTL DEF Spec

LEMMA InactiveAtRequest == DiskInv => OneRequestAtATime
  <1> SUFFICES ASSUME DiskInv, NEW t \in Thread, pc[t] = "Request" PROVE ~active
    BY DEF OneRequestAtATime
  <1>1. \A u \in Thread : pc[u] # "P"
    BY AloneInside DEF Inside
  <1>2. QED
    BY <1>1 DEF DiskInv

-----------------------------------------------------------------------------
(* The variables of SynchDisk keep their types; the semaphore is never     *)
(* negative.                                                               *)
THEOREM DiskTypeCorrect == Spec => []SynchDiskTypeOK
  <1>1. DiskInv => SynchDiskTypeOK
    BY DEF DiskInv
  <1>2. QED
    BY <1>1, DiskInvAlways, PTL

(* No thread reaches Disk::ReadRequest or WriteRequest while the disk is   *)
(* active: the ASSERT of disk.cc holds for any number of threads.          *)
THEOREM DiskNeverAskedTwice == Spec => []OneRequestAtATime
  BY InactiveAtRequest, DiskInvAlways, PTL

(* A request finds the disk inactive, and the P of a call consumes the     *)
(* interrupt of that call's own request.                                   *)
THEOREM CallsWaitForTheirInterrupt == Spec => []WaitsForItsInterrupt
  <1>1. DiskInv => WaitsForItsInterrupt
    <2> SUFFICES ASSUME DiskInv PROVE WaitsForItsInterrupt
      OBVIOUS
    <2>1. ASSUME NEW t \in Thread, pc[t] = "Release" PROVE ~active /\ semaphore = 0
      <3>1. \A u \in Thread : pc[u] # "P"
        BY <2>1, AloneInside DEF Inside
      <3>2. QED
        BY <3>1 DEF DiskInv
    <2>2. ASSUME semaphore > 0 PROVE ~active /\ \E t \in Thread : pc[t] = "P"
      BY <2>2 DEF DiskInv, SynchDiskTypeOK
    <2>3. QED
      BY <2>1, <2>2, InactiveAtRequest DEF WaitsForItsInterrupt
  <1>2. QED
    BY <1>1, DiskInvAlways, PTL

-----------------------------------------------------------------------------
LEMMA AtomicInit == Init => AD!ADInit
  BY DEF Init, AD!ADInit, applied

LEMMA AtomicStep ==
    ASSUME DiskInv, [Next]_vars
    PROVE  [AD!ADNext]_(AD!diskVars)
  <1> USE DEF AD!diskVars
  <1>1. CASE UNCHANGED vars
    BY <1>1 DEF vars, applied
  <1>2. CASE HandleInterrupt
    BY <1>2 DEF HandleInterrupt, applied
  <1>3. ASSUME NEW t \in Thread, NEW c \in AD!Call, CallSector(t, c)
        PROVE  AD!ADNext
    <2>1. call[t] = NoCall
      BY <1>3 DEF CallSector, DiskInv
    <2>2. applied' = applied
      BY <1>3 DEF CallSector, Goto, applied, DiskInv, SynchDiskTypeOK
    <2>3. AD!Start(t, c)
      BY <1>3, <2>1, <2>2 DEF CallSector, AD!Start
    <2>4. QED
      BY <2>3 DEF AD!ADNext
  <1>4. ASSUME NEW t \in Thread, Acquire(t) PROVE UNCHANGED AD!diskVars
    BY <1>4 DEF Acquire, Goto, applied, DiskInv, SynchDiskTypeOK
  <1>5. ASSUME NEW t \in Thread, Request(t) PROVE AD!ADNext
    <2>1. call[t] # NoCall /\ t \notin applied
      BY <1>5 DEF Request, DiskInv, applied
    <2>2. applied' = applied \cup {t}
      BY <1>5 DEF Request, Goto, applied, DiskInv, SynchDiskTypeOK
    <2>3. AD!Effect(t)
      BY <1>5 DEF Request, AD!Effect
    <2>4. AD!Apply(t)
      BY <1>5, <2>1, <2>2, <2>3 DEF Request, AD!Apply
    <2>5. QED
      BY <2>4 DEF AD!ADNext
  <1>6. ASSUME NEW t \in Thread, P(t) PROVE UNCHANGED AD!diskVars
    BY <1>6 DEF P, Goto, applied, DiskInv, SynchDiskTypeOK
  <1>7. ASSUME NEW t \in Thread, Release(t) PROVE AD!ADNext
    <2>1. t \in applied /\ applied' = applied \ {t}
      BY <1>7 DEF Release, Goto, applied, DiskInv, SynchDiskTypeOK
    <2>2. AD!Return(t)
      BY <1>7, <2>1 DEF Release, AD!Return
    <2>3. QED
      BY <2>2 DEF AD!ADNext
  <1>8. QED
    BY <1>1, <1>2, <1>3, <1>4, <1>5, <1>6, <1>7 DEF Next, Step

(* SynchDisk implements the atomic disk: whatever threads and interrupt    *)
(* do, each call takes effect at once, at its request.                     *)
THEOREM SynchDiskImplementsAtomicDisk == Spec => ImplementsAtomicDisk
  <1>1. DiskInv /\ [Next]_vars => [AD!ADNext]_(AD!diskVars)
    BY AtomicStep
  <1>2. QED
    BY <1>1, AtomicInit, DiskInvAlways, PTL DEF Spec, ImplementsAtomicDisk, AD!ADSpec
=============================================================================
