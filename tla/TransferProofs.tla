--------------------------- MODULE TransferProofs ---------------------------
(***************************************************************************)
(* What is moved in pieces arrives whole.  First UserBuffer: userReadWrite *)
(* moves the bytes it was asked to move, for every page size, page table,  *)
(* address, size of request and number of threads; UBInv, which relates    *)
(* the counters of a call to the address from Translate and to what is in  *)
(* the memory of the process, in the buffer of the kernel and in           *)
(* diskBuffer between the two, is kept by every step.  Then PostOffice:    *)
(* letters and acknowledgements, for any number of machines and clerks;    *)
(* POInv is kept by every step.                                            *)
(***************************************************************************)
EXTENDS UserBuffer, PostOffice, SequenceTheorems, TLAPS

(* The remainder of a division, by the size of a page in particular. *)
LEMMA DivMod ==
    ASSUME NEW P \in Nat \ {0}, NEW x \in Nat
    PROVE  /\ x % P \in 0..(P - 1) /\ x \div P \in Nat
           /\ x = ((x \div P) * P) + (x % P)
  OBVIOUS

LEMMA ModUnique ==
    ASSUME NEW P \in Nat \ {0}, NEW q \in Nat, NEW r \in 0..(P - 1)
    PROVE  ((q * P) + r) % P = r
  OBVIOUS

LEMMA ModAdd ==
    ASSUME NEW P \in Nat \ {0}, NEW x \in Nat
    PROVE  (x + P) % P = x % P
  <1> DEFINE q == x \div P
             r == x % P
  <1>1. r \in 0..(P - 1) /\ q \in Nat /\ x = (q * P) + r
    BY DivMod, Zenon
  <1> HIDE DEF q, r
  <1>2. x + P = ((q + 1) * P) + r /\ q + 1 \in Nat
    BY <1>1
  <1>3. (((q + 1) * P) + r) % P = r
    BY <1>1, <1>2, ModUnique, Zenon
  <1>4. QED
    BY <1>2, <1>3, Zenon DEF r

(* What is a positive number of whole pages is at least one page. *)
LEMMA WholePage ==
    ASSUME NEW P \in Nat \ {0}, NEW x \in Nat \ {0}, x % P = 0
    PROVE  x >= P /\ (x - P) % P = 0
  <1>1. x >= P
    <2>1. SUFFICES ASSUME x < P PROVE FALSE
      OBVIOUS
    <2>2. x = (0 * P) + x /\ x \in 0..(P - 1)
      BY <2>1
    <2>3. ((0 * P) + x) % P = x
      BY <2>2, ModUnique
    <2>4. QED
      BY <2>2, <2>3, Zenon
  <1>2. x - P \in Nat /\ (x - P) + P = x
    BY <1>1
  <1>3. ((x - P) + P) % P = (x - P) % P
    BY <1>2, ModAdd, Zenon
  <1>4. QED
    BY <1>1, <1>2, <1>3, Zenon

(* Multiples of the size of a page, and the pages of an address. *)
LEMMA Multiples ==
    ASSUME NEW P \in Nat, NEW m \in Nat, NEW n \in Nat, m <= n
    PROVE  m * P \in Nat /\ n * P \in Nat /\ m * P <= n * P
  <1> DEFINE d == n - m
  <1>1. d \in Nat /\ n = m + d
    OBVIOUS
  <1> HIDE DEF d
  <1>2. m * P \in Nat /\ d * P \in Nat /\ (m + d) * P = (m * P) + (d * P)
    BY <1>1
  <1>3. QED
    BY <1>1, <1>2

LEMMA DivUnique ==
    ASSUME NEW P \in Nat \ {0}, NEW q \in Nat, NEW r \in 0..(P - 1)
    PROVE  ((q * P) + r) \div P = q
  OBVIOUS

LEMMA PageOf ==
    ASSUME NEW P \in Nat \ {0}, NEW x \in Nat, NEW N \in Nat
    PROVE  x \div P < N <=> x < N * P
  <1> DEFINE q == x \div P
             r == x % P
  <1>1. r \in 0..(P - 1) /\ q \in Nat /\ x = (q * P) + r
    BY DivMod, Zenon
  <1> HIDE DEF q, r
  <1>2. q * P \in Nat /\ N * P \in Nat
    BY <1>1
  <1>3. ASSUME q < N PROVE x < N * P
    <2>1. q + 1 \in Nat /\ q + 1 <= N
      BY <1>1, <1>3
    <2>2. (q + 1) * P <= N * P
      BY <2>1, Multiples, Zenon
    <2>3. (q + 1) * P = (q * P) + P
      BY <1>1
    <2>4. QED
      BY <1>1, <1>2, <2>2, <2>3
  <1>4. ASSUME N <= q PROVE N * P <= x
    <2>1. N * P <= q * P
      BY <1>1, <1>4, Multiples, Zenon
    <2>2. QED
      BY <1>1, <1>2, <2>1
  <1>5. q < N <=> x < N * P
    BY <1>1, <1>2, <1>3, <1>4
  <1>6. QED
    BY <1>5, Zenon DEF q

(* The bytes behind an address, up to the end of its page. *)
LEMMA SamePageAs ==
    ASSUME NEW P \in Nat \ {0}, NEW x \in Nat, NEW k \in Nat, k < P - (x % P)
    PROVE  (x + k) \div P = x \div P /\ (x + k) % P = (x % P) + k
  <1> DEFINE q == x \div P
             r == x % P
  <1>1. r \in 0..(P - 1) /\ q \in Nat /\ x = (q * P) + r
    BY DivMod, Zenon
  <1>2. k < P - r
    BY Zenon
  <1> HIDE DEF q, r
  <1>3. r + k \in 0..(P - 1) /\ q * P \in Nat
    BY <1>1, <1>2
  <1>4. x + k = (q * P) + (r + k)
    BY <1>1, <1>3
  <1>5. ((q * P) + (r + k)) \div P = q /\ ((q * P) + (r + k)) % P = r + k
    BY <1>1, <1>3, DivUnique, ModUnique, Zenon
  <1>6. QED
    BY <1>4, <1>5, Zenon DEF q, r

LEMMA SameCell ==
    ASSUME NEW P \in Nat \ {0}, NEW f \in Nat, NEW g \in Nat,
           NEW o \in 0..(P - 1), NEW q \in 0..(P - 1), (f * P) + o = (g * P) + q
    PROVE  f = g /\ o = q
  <1>1. /\ ((f * P) + o) \div P = f /\ ((f * P) + o) % P = o
        /\ ((g * P) + q) \div P = g /\ ((g * P) + q) % P = q
    BY DivUnique, ModUnique, Zenon
  <1>2. QED
    BY <1>1, Zenon

-----------------------------------------------------------------------------
(* Where the addresses of the processes are in mainMemory: each in its own *)
(* place.                                                                  *)
LEMMA Constants ==
    /\ PageSize \in Nat \ {0} /\ NumPhysPages \in Nat
    /\ \A t \in Thread : numPages[t] \in Nat /\ numPages[t] * PageSize \in Nat
    /\ \A n \in RequestSize : n \in Nat \ {0} /\ n <= Largest(RequestSize)
    /\ Largest(RequestSize) \in Nat /\ Address \subseteq Nat /\ Anywhere \subseteq Int
  <1>1. /\ PageSize \in Nat \ {0} /\ NumPhysPages \in Nat
        /\ \A t \in Thread : numPages[t] \in Nat
        /\ Address \subseteq Nat /\ Anywhere \subseteq Int
    BY UserBufferAssumption, Zenon
  <1>2. /\ Largest(RequestSize) \in RequestSize
        /\ \A n \in RequestSize : n <= Largest(RequestSize)
    BY UserBufferAssumption, Zenon DEF Largest
  <1>3. RequestSize \subseteq Nat \ {0}
    BY UserBufferAssumption, Zenon
  <1>4. \A t \in Thread : numPages[t] * PageSize \in Nat
    <2>1. ASSUME NEW N \in Nat PROVE N * PageSize \in Nat
      BY <1>1
    <2>2. QED
      BY <1>1, <2>1, Zenon
  <1>5. QED
    BY <1>1, <1>2, <1>3, <1>4

LEMMA InFrame ==
    ASSUME NEW t \in Thread, NEW a \in UserAddress(t)
    PROVE  /\ a \in Nat /\ a \div PageSize \in Page(t)
           /\ pageTable[t][a \div PageSize] \in 0..(NumPhysPages - 1)
           /\ a % PageSize \in 0..(PageSize - 1)
           /\ Phys(t, a) \in PhysicalAddress
  <1> DEFINE N == numPages[t]
             v == a \div PageSize
             o == a % PageSize
             f == pageTable[t][v]
  <1>1. PageSize \in Nat \ {0} /\ NumPhysPages \in Nat /\ N \in Nat /\ N * PageSize \in Nat
    BY Constants, Zenon
  <1>2. a \in Nat /\ a < N * PageSize
    BY <1>1 DEF UserAddress
  <1>3. v \in Nat /\ o \in 0..(PageSize - 1)
    BY <1>1, <1>2, DivMod, Zenon
  <1>4. v < N
    BY <1>1, <1>2, PageOf, Zenon
  <1>5. v \in Page(t)
    <2> HIDE DEF v
    <2>1. QED
      BY <1>1, <1>3, <1>4 DEF Page
  <1>6. f \in 0..(NumPhysPages - 1)
    BY <1>5, UserBufferAssumption, Zenon
  <1> HIDE DEF f, o, v
  <1>7. (f + 1) * PageSize <= NumPhysPages * PageSize
    BY <1>1, <1>6, Multiples
  <1>8. (f * PageSize) + o \in PhysicalAddress
    <2>1. f * PageSize \in Nat /\ (f + 1) * PageSize = (f * PageSize) + PageSize
          /\ NumPhysPages * PageSize \in Nat
      BY <1>1, <1>6
    <2>2. QED
      BY <1>1, <1>3, <1>6, <1>7, <2>1 DEF PhysicalAddress
  <1>9. QED
    BY <1>2, <1>3, <1>5, <1>6, <1>8, Zenon DEF f, o, v, Phys

LEMMA OwnCell ==
    ASSUME NEW t \in Thread, NEW u \in Thread, NEW a \in UserAddress(t), NEW b \in UserAddress(u),
           Phys(t, a) = Phys(u, b)
    PROVE  t = u /\ a = b
  <1> DEFINE v == a \div PageSize
             w == b \div PageSize
             f == pageTable[t][v]
             g == pageTable[u][w]
             o == a % PageSize
             q == b % PageSize
  <1>1. PageSize \in Nat \ {0} /\ NumPhysPages \in Nat
    BY Constants, Zenon
  <1>2. /\ v \in Page(t) /\ f \in 0..(NumPhysPages - 1) /\ o \in 0..(PageSize - 1) /\ a \in Nat
        /\ w \in Page(u) /\ g \in 0..(NumPhysPages - 1) /\ q \in 0..(PageSize - 1) /\ b \in Nat
    BY InFrame, Zenon
  <1>3. (f * PageSize) + o = (g * PageSize) + q
    BY Zenon DEF Phys
  <1>4. a = (v * PageSize) + o /\ b = (w * PageSize) + q
    BY <1>1, <1>2, DivMod, Zenon
  <1> HIDE DEF f, g, o, q, v, w
  <1>5. f \in Nat /\ g \in Nat
    BY <1>1, <1>2
  <1>6. f = g /\ o = q
    BY <1>1, <1>2, <1>3, <1>5, SameCell
  <1>7. t = u /\ v = w
    BY <1>2, <1>6, UserBufferAssumption, Zenon DEF f, g
  <1>8. QED
    BY <1>4, <1>6, <1>7, Zenon

(* What Translate gives leads to the rest of the page too. *)
LEMMA RestOfPage ==
    ASSUME NEW t \in Thread, NEW x \in Nat, x \div PageSize < numPages[t], NEW k \in Nat,
           k < PageSize - (x % PageSize)
    PROVE  x + k \in UserAddress(t) /\ Phys(t, x + k) = Phys(t, x) + k
  <1>1. PageSize \in Nat \ {0} /\ numPages[t] \in Nat /\ numPages[t] * PageSize \in Nat
    BY Constants, Zenon
  <1>2. (x + k) \div PageSize = x \div PageSize /\ (x + k) % PageSize = (x % PageSize) + k
    BY <1>1, SamePageAs, Zenon
  <1>3. x + k \in Nat
    OBVIOUS
  <1>4. x + k < numPages[t] * PageSize
    BY <1>1, <1>2, <1>3, PageOf, Zenon
  <1>5. x + k \in UserAddress(t)
    BY <1>1, <1>3, <1>4 DEF UserAddress
  <1>6. x \in UserAddress(t)
    <2>1. x < numPages[t] * PageSize
      BY <1>1, PageOf, Zenon
    <2>2. QED
      BY <1>1, <2>1 DEF UserAddress
  <1> DEFINE f == pageTable[t][x \div PageSize]
             o == x % PageSize
  <1>7. f \in 0..(NumPhysPages - 1) /\ o \in 0..(PageSize - 1) /\ NumPhysPages \in Nat
    BY <1>6, InFrame, Constants, Zenon
  <1>8. Phys(t, x) = (f * PageSize) + o /\ Phys(t, x + k) = (f * PageSize) + (o + k)
    BY <1>2, Zenon DEF Phys
  <1> HIDE DEF f, o
  <1>9. (f * PageSize) + (o + k) = ((f * PageSize) + o) + k
    BY <1>1, <1>7
  <1>10. QED
    BY <1>5, <1>8, <1>9, Zenon

-----------------------------------------------------------------------------
(* userReadWrite. *)

(* The invariant holds in the beginning. *)
LEMMA UBInitInv == UserBufferInit => UBInv
  <1> SUFFICES ASSUME UserBufferInit PROVE UBInv
    BY Zenon
  <1>0. PageSize \in Nat \ {0} /\ Largest(RequestSize) \in Nat /\ 0 \in Int
    BY Constants
  <1>1. UBTypeOK
    <2>1. phys_addr \in [Thread -> Int]
      BY <1>0, Zenon DEF UserBufferInit
    <2>2. QED
      BY <2>1, Zenon DEF UserBufferInit, UBTypeOK
  <1>2. ASSUME NEW t \in Thread
        PROVE  /\ request[t].type = 0 /\ request[t].size = 0 /\ request[t].vaddr = 0
               /\ at[t] = "user" /\ bytes_read[t] = 0 /\ t \notin failed
    BY Zenon DEF UserBufferInit
  <1>3. ASSUME NEW t \in Thread PROVE ~Filled(t) /\ ~Translated(t)
    BY <1>2 DEF Filled, Translated
  <1>4. ASSUME NEW t \in Thread PROVE Progress(t) /\ Located(t) /\ StaysInside(t)
    <2>1. Progress(t)
      BY <1>2, <1>3 DEF Progress
    <2>2. QED
      BY <1>2, <1>3, <2>1, Zenon DEF Located, StaysInside
  <1>5. ASSUME NEW t \in Thread PROVE InStep(t)
    <2>1. 0 % PageSize = 0
      BY <1>0
    <2>2. OnePage(t)
      BY <1>0, <1>2, <2>1 DEF OnePage
    <2>3. QED
      BY <1>2, <1>3, <2>2 DEF InStep
  <1>6. ASSUME NEW t \in Thread PROVE Untouched(t)
    <2>1. ASSUME NEW a \in UserAddress(t) PROVE UserByte(t, a) = Old(Phys(t, a))
      <3>1. Phys(t, a) \in PhysicalAddress
        BY InFrame, Zenon
      <3>2. QED
        BY <3>1, Zenon DEF UserByte, UserBufferInit
    <2>2. QED
      BY <2>1, Zenon DEF Untouched
  <1>7. ASSUME NEW t \in Thread PROVE Copied(t)
    <2>1. Moved(t) = 0
      BY <1>2, <1>3 DEF Moved
    <2>2. QED
      BY <1>3, <2>1 DEF Copied
  <1>8. QED
    BY <1>1, <1>4, <1>5, <1>6, <1>7, Zenon DEF UBInv, UserBufferInit

(* What belongs to a thread is left alone. *)
Stays(u) ==
    /\ at'[u] = at[u] /\ request'[u] = request[u] /\ vaddr'[u] = vaddr[u]
    /\ phys_addr'[u] = phys_addr[u] /\ bytes_read'[u] = bytes_read[u]
    /\ bytes_wrote'[u] = bytes_wrote[u] /\ read'[u] = read[u]
    /\ mem_buffer'[u] = mem_buffer[u] /\ buffer'[u] = buffer[u]
    /\ (u \in failed' <=> u \in failed)

LEMMA SameRequest ==
    ASSUME NEW u \in Thread, request'[u] = request[u]
    PROVE  /\ (OnePage(u)' <=> OnePage(u)) /\ (Regular(u)' <=> Regular(u))
           /\ (Served(u)' <=> Served(u)) /\ Asked(u)' = Asked(u) /\ Written(u)' = Written(u)
  <1>1. (OnePage(u)' <=> OnePage(u)) /\ Asked(u)' = Asked(u)
    BY Zenon DEF OnePage, Asked
  <1>2. (Regular(u)' <=> Regular(u)) /\ Written(u)' = Written(u)
    BY <1>1, Zenon DEF Regular, Written
  <1>3. QED
    BY <1>1, <1>2, Zenon DEF Served

LEMMA SameThread ==
    ASSUME NEW u \in Thread, Stays(u)
    PROVE  /\ (Filled(u)' <=> Filled(u)) /\ Moved(u)' = Moved(u)
           /\ (Progress(u) => Progress(u)') /\ (Located(u) => Located(u)')
           /\ (InStep(u) => InStep(u)') /\ (StaysInside(u) => StaysInside(u)')
  <1>1. (Filled(u)' <=> Filled(u)) /\ (Translated(u)' <=> Translated(u))
    BY Zenon DEF Stays, Filled, Translated
  <1>2. Moved(u)' = Moved(u)
    BY <1>1, Zenon DEF Stays, Moved
  <1>3. Progress(u) => Progress(u)'
    BY <1>1, Zenon DEF Stays, Progress
  <1>4. Located(u) => Located(u)'
    BY <1>1, Zenon DEF Stays, Located
  <1>5. /\ (OnePage(u)' <=> OnePage(u)) /\ (Served(u)' <=> Served(u)) /\ Asked(u)' = Asked(u)
    BY SameRequest, Zenon DEF Stays
  <1>6. write_size(u)' = write_size(u)
    BY Zenon DEF Stays, write_size, Room
  <1>7. InStep(u) => InStep(u)'
    BY <1>1, <1>2, <1>5, <1>6, Zenon DEF Stays, InStep
  <1>8. StaysInside(u) => StaysInside(u)'
    BY <1>5, Zenon DEF Stays, StaysInside
  <1>9. QED
    BY <1>1, <1>2, <1>3, <1>4, <1>7, <1>8, Zenon

(* What the invariant says of a thread. *)
LEMMA CallState ==
    ASSUME UBInv, NEW t \in Thread
    PROVE  /\ UBTypeOK /\ Progress(t) /\ Located(t) /\ InStep(t) /\ StaysInside(t)
           /\ NoStrayStore => Untouched(t)
           /\ ~preemptive /\ NoStrayStore /\ Served(t) /\ t \notin failed => Copied(t)
           /\ PageSize \in Nat \ {0}
           /\ request[t].type \in {0, 1} /\ request[t].vaddr \in Nat /\ request[t].size \in Nat
           /\ vaddr[t] \in Nat /\ phys_addr[t] \in Int
           /\ bytes_read[t] \in Nat /\ bytes_wrote[t] \in Nat
           /\ read[t] \in Nat /\ mem_buffer[t] \in Nat
           /\ vaddr[t] % PageSize \in 0..(PageSize - 1)
           /\ at[t] # "user" =>
                /\ request[t].size <= Largest(RequestSize) /\ Largest(RequestSize) \in Nat
                /\ request[t].size \in Nat \ {0}
  <1>1. /\ UBTypeOK /\ Progress(t) /\ Located(t) /\ InStep(t) /\ StaysInside(t)
        /\ NoStrayStore => Untouched(t)
        /\ ~preemptive /\ NoStrayStore /\ Served(t) /\ t \notin failed => Copied(t)
    BY Zenon DEF UBInv
  <1>2. PageSize \in Nat \ {0}
    BY UserBufferAssumption, Zenon
  <1>3. /\ request[t].type \in {0, 1} /\ request[t].vaddr \in Nat /\ request[t].size \in Nat
        /\ vaddr[t] \in Nat /\ phys_addr[t] \in Int
        /\ bytes_read[t] \in Nat /\ bytes_wrote[t] \in Nat
        /\ read[t] \in Nat /\ mem_buffer[t] \in Nat
    BY <1>1, Zenon DEF UBTypeOK
  <1>4. vaddr[t] % PageSize \in 0..(PageSize - 1)
    BY <1>2, <1>3, DivMod, Zenon
  <1>5. ASSUME at[t] # "user"
        PROVE  /\ request[t].size <= Largest(RequestSize) /\ Largest(RequestSize) \in Nat
               /\ request[t].size \in Nat \ {0}
    <2>1. request[t].size \in RequestSize
      BY <1>1, <1>5, Zenon DEF Progress
    <2>2. QED
      BY <2>1, Constants, Zenon
  <1>6. QED
    BY <1>1, <1>2, <1>3, <1>4, <1>5, Zenon

(* The bytes that a call has moved lie in the address space. *)
LEMMA MovedInside ==
    ASSUME UBInv, NEW u \in Thread, Served(u), u \notin failed,
           NEW k \in Nat, k < (IF request[u].type = 1 THEN bytes_read[u] ELSE Moved(u))
    PROVE  request[u].vaddr + k \in UserAddress(u)
  <1> DEFINE m == IF request[u].type = 1 THEN bytes_read[u] ELSE Moved(u)
  <1>1. /\ request[u].vaddr \in Nat /\ bytes_read[u] \in Nat /\ read[u] \in Nat
        /\ Progress(u) /\ InStep(u) /\ Located(u) /\ vaddr[u] \in Nat
    BY CallState, Zenon
  <1>2. at[u] # "user"
    <2>1. SUFFICES ASSUME at[u] = "user" PROVE FALSE
      BY Zenon
    <2>2. bytes_read[u] = 0 /\ ~Filled(u)
      BY <1>1, <2>1 DEF Progress, Filled
    <2>3. QED
      BY <2>2 DEF Moved
  <1>3. vaddr[u] = request[u].vaddr + m
    BY <1>1, <1>2, Zenon DEF InStep
  <1>4. m \in Int /\ k < m
    BY <1>1 DEF Moved
  <1> HIDE DEF m
  <1>5. vaddr[u] # request[u].vaddr
    BY <1>1, <1>3, <1>4
  <1>6. vaddr[u] <= numPages[u] * PageSize
    BY <1>1, <1>2, <1>5, Zenon DEF Located
  <1>7. numPages[u] * PageSize \in Nat
    BY Constants, Zenon
  <1>8. QED
    BY <1>1, <1>3, <1>4, <1>6, <1>7 DEF UserAddress

(* Nobody but the thread that runs moves; and nobody else uses diskBuffer  *)
(* where no thread is interrupted.                                         *)
LEMMA OthersKept ==
    ASSUME UBInv, NEW t \in Thread, HasCPU(t), preemptive' = preemptive, UBTypeOK',
           \A u \in Thread \ {t} : Stays(u),
           NoStrayStore' => /\ NoStrayStore
                            /\ \A u \in Thread \ {t} : \A a \in UserAddress(u) :
                                  UserByte(u, a)' = UserByte(u, a),
           Progress(t)', Located(t)', InStep(t)', StaysInside(t)',
           NoStrayStore' => Untouched(t)',
           ~preemptive /\ NoStrayStore' /\ Served(t)' /\ t \notin failed' => Copied(t)'
    PROVE  UBInv'
  <1>1. ASSUME NEW u \in Thread \ {t}
        PROVE  Progress(u)' /\ Located(u)' /\ InStep(u)' /\ StaysInside(u)'
    <2>1. Progress(u) /\ Located(u) /\ InStep(u) /\ StaysInside(u)
      BY Zenon DEF UBInv
    <2>2. QED
      BY <2>1, SameThread, Zenon
  <1>2. ASSUME NEW u \in Thread \ {t}, NoStrayStore' PROVE Untouched(u)'
    <2>1. Untouched(u)
      BY <1>2, Zenon DEF UBInv
    <2>2. (Served(u)' <=> Served(u)) /\ Written(u)' = Written(u)
      BY SameRequest, Zenon DEF Stays
    <2>3. \A a \in UserAddress(u) : UserByte(u, a)' = UserByte(u, a)
      BY <1>2, Zenon
    <2>4. QED
      BY <2>1, <2>2, <2>3, Zenon DEF Untouched
  <1>3. ASSUME ~preemptive, NEW u \in Thread \ {t} PROVE at[u] \in {"user", "done"}
    BY <1>3, Zenon DEF HasCPU
  <1>4. ASSUME ~preemptive, NEW u \in Thread \ {t}, NoStrayStore', Served(u)', u \notin failed'
        PROVE  Copied(u)'
    <2>1. Served(u) /\ u \notin failed /\ Moved(u)' = Moved(u) /\ (Filled(u)' <=> Filled(u))
      BY <1>4, SameRequest, SameThread, Zenon DEF Stays
    <2>2. Copied(u)
      BY <1>4, <2>1, Zenon DEF UBInv
    <2>3. ~Filled(u)
      BY <1>3, <1>4 DEF Filled
    <2>4. request'[u] = request[u] /\ buffer'[u] = buffer[u]
      BY Zenon DEF Stays
    <2>5. ASSUME NEW k \in 0..(Moved(u) - 1)
          PROVE  buffer'[u][k] = mainMemory'[Phys(u, request'[u].vaddr + k)]
      <3>1. k \in Nat /\ k < (IF request[u].type = 1 THEN bytes_read[u] ELSE Moved(u))
        <4>1. bytes_read[u] \in Nat
          BY CallState, Zenon
        <4>2. Moved(u) = bytes_read[u]
          BY <2>3, <4>1 DEF Moved
        <4>3. QED
          BY <4>1, <4>2
      <3>2. request[u].vaddr + k \in UserAddress(u)
        BY <2>1, <3>1, MovedInside, Zenon
      <3>3. \A a \in UserAddress(u) : mainMemory'[Phys(u, a)] = mainMemory[Phys(u, a)]
        BY <1>4, Zenon DEF UserByte
      <3>4. buffer[u][k] = mainMemory[Phys(u, request[u].vaddr + k)]
        BY <2>2, Zenon DEF Copied, UserByte
      <3>5. QED
        BY <2>4, <3>2, <3>3, <3>4, Zenon
    <2>6. QED
      BY <2>1, <2>3, <2>5, Zenon DEF Copied, UserByte
  <1>5. ASSUME ~preemptive, NEW v \in Thread, NEW w \in Thread, v # w,
               at'[v] \notin {"user", "done"}
        PROVE  at'[w] \in {"user", "done"}
    <2>1. \A u \in Thread \ {t} : at'[u] \in {"user", "done"}
      BY <1>3, <1>5, Zenon DEF Stays
    <2>2. QED
      BY <1>5, <2>1, Zenon
  <1>6. QED
    BY <1>1, <1>2, <1>4, <1>5, Zenon DEF UBInv

(* A call begins: nothing has been moved yet. *)
LEMMA EnterInv ==
    ASSUME UBInv, NEW t \in Thread, Enter(t)
    PROVE  UBInv'
  <1>0. /\ UBTypeOK /\ Progress(t) /\ at[t] = "user" /\ PageSize \in Nat \ {0}
        /\ request[t].size \in Nat /\ request[t].vaddr \in Nat
        /\ NoStrayStore => Untouched(t)
    BY CallState, Zenon DEF Enter
  <1>1. PICK type \in {0, 1}, a \in Address, size \in RequestSize :
          /\ request' = [request EXCEPT ![t] = [type |-> type, vaddr |-> a, size |-> size]]
          /\ vaddr' = [vaddr EXCEPT ![t] = a]
          /\ at' = [at EXCEPT ![t] = IF type = 0 THEN "fill" ELSE "translate"]
    BY Zenon DEF Enter
  <1>p. PICK p \in Anywhere : phys_addr' = [phys_addr EXCEPT ![t] = p]
    BY Zenon DEF Enter
  <1>u. /\ UNCHANGED <<preemptive, bytes_read, bytes_wrote, read, mem_buffer, mainMemory, buffer,
                       diskBuffer, failed>>
        /\ HasCPU(t)
    BY Zenon DEF Enter
  <1>2. a \in Nat /\ size \in Nat \ {0} /\ p \in Int
    BY UserBufferAssumption, Zenon
  <1>3. UBTypeOK'
    <2>1. request' \in [Thread -> [type : {0, 1}, vaddr : Nat, size : Nat]]
      BY <1>0, <1>1, <1>2, Zenon DEF UBTypeOK
    <2>2. vaddr' \in [Thread -> Nat] /\ phys_addr' \in [Thread -> Int]
      BY <1>0, <1>1, <1>p, <1>2, Zenon DEF UBTypeOK
    <2>3. at' \in [Thread -> {"user", "fill", "translate", "empty", "done"}]
      BY <1>0, <1>1, Zenon DEF UBTypeOK
    <2>4. QED
      BY <1>0, <1>u, <2>1, <2>2, <2>3, Zenon DEF UBTypeOK
  <1>4. /\ request'[t].type = type /\ request'[t].vaddr = a /\ request'[t].size = size
        /\ vaddr'[t] = a /\ at'[t] = (IF type = 0 THEN "fill" ELSE "translate")
        /\ bytes_read'[t] = 0 /\ t \notin failed'
    <2>1. request'[t] = [type |-> type, vaddr |-> a, size |-> size]
      BY <1>0, <1>1, Zenon DEF UBTypeOK
    <2>2. vaddr'[t] = a
      BY <1>0, <1>1, Zenon DEF UBTypeOK
    <2>3. at'[t] = (IF type = 0 THEN "fill" ELSE "translate")
      BY <1>0, <1>1, Zenon DEF UBTypeOK
    <2>4. bytes_read'[t] = 0 /\ t \notin failed'
      BY <1>0, <1>u, Zenon DEF Progress
    <2>5. QED
      BY <2>1, <2>2, <2>3, <2>4
  <1>6. ~Filled(t)' /\ ~Translated(t)' /\ Moved(t)' = 0 /\ at'[t] # "user"
    <2>1. ~Filled(t)' /\ at'[t] # "user"
      BY <1>4 DEF Filled
    <2>2. ~Translated(t)'
      BY <1>4 DEF Translated
    <2>3. QED
      BY <1>4, <2>1, <2>2 DEF Moved
  <1>7. Progress(t)'
    BY <1>2, <1>4, <1>6 DEF Progress
  <1>8. Located(t)' /\ StaysInside(t)'
    BY <1>4, <1>6, Zenon DEF Located, StaysInside
  <1>9. InStep(t)'
    <2>1. ASSUME type = 0, ~OnePage(t)', Served(t)'
          PROVE  /\ request'[t].size % PageSize = 0 /\ vaddr'[t] % PageSize = 0
                 /\ (request'[t].size - bytes_read'[t]) % PageSize = 0
      BY <1>2, <1>4, <2>1 DEF Served, Regular
    <2>2. vaddr'[t] = request'[t].vaddr
                      + (IF request'[t].type = 1 THEN bytes_read'[t] ELSE Moved(t)')
      BY <1>2, <1>4, <1>6
    <2>3. QED
      BY <1>4, <1>6, <2>1, <2>2, Zenon DEF InStep
  <1>10. NoStrayStore' => NoStrayStore
    BY <1>0, <1>1, <1>u, Zenon DEF NoStrayStore, Progress, UBTypeOK
  <1>11. ASSUME NoStrayStore' PROVE Untouched(t)'
    <2>1. request[t].size = 0
      BY <1>0, Zenon DEF Progress
    <2>2. request[t].vaddr % PageSize \in 0..(PageSize - 1)
      BY <1>0, DivMod, Zenon
    <2>3. OnePage(t) /\ Asked(t) = {}
      BY <1>0, <2>1, <2>2 DEF OnePage, Asked
    <2>4. Served(t) /\ \A b \in UserAddress(t) : b \notin Written(t)
      BY <2>3, Zenon DEF Served, Regular, Written
    <2>5. \A b \in UserAddress(t) : UserByte(t, b) = Old(Phys(t, b))
      BY <1>0, <1>10, <1>11, <2>4, Zenon DEF Untouched
    <2>6. QED
      BY <1>u, <2>5, Zenon DEF Untouched, UserByte
  <1>12. Copied(t)'
    BY <1>6 DEF Copied
  <1>13. \A u \in Thread \ {t} : Stays(u)
    BY <1>0, <1>1, <1>p, <1>u, Zenon DEF UBTypeOK, Stays
  <1>14. \A u \in Thread \ {t} : \A b \in UserAddress(u) : UserByte(u, b)' = UserByte(u, b)
    BY <1>u, Zenon DEF UserByte
  <1>15. QED
    BY <1>u, <1>3, <1>7, <1>8, <1>9, <1>10, <1>11, <1>12, <1>13, <1>14, OthersKept, Zenon

(* Translate gives the place of the next bytes, or the call has failed. *)
LEMMA TranslateInv ==
    ASSUME UBInv, NEW t \in Thread, Translate(t)
    PROVE  UBInv'
  <1> DEFINE vpn == vaddr[t] \div PageSize
  <1>0. /\ UBTypeOK /\ Progress(t) /\ Located(t) /\ InStep(t) /\ StaysInside(t)
        /\ NoStrayStore => Untouched(t)
        /\ ~preemptive /\ NoStrayStore /\ Served(t) /\ t \notin failed => Copied(t)
    BY CallState, Zenon
  <1>num. /\ request[t].vaddr \in Nat /\ request[t].size \in Nat /\ PageSize \in Nat \ {0}
          /\ vaddr[t] \in Nat /\ bytes_read[t] \in Nat /\ read[t] \in Nat
          /\ request[t].type \in {0, 1} /\ numPages[t] \in Nat /\ phys_addr[t] \in Int
    BY CallState, Constants, Zenon
  <1>1. PICK p \in Int :
          /\ phys_addr' = [phys_addr EXCEPT ![t] = p]
          /\ vpn < numPages[t] => p = Phys(t, vaddr[t]) /\ failed' = failed
          /\ ~(vpn < numPages[t]) => failed' = failed \cup {t}
    <2>1. CASE vpn < numPages[t]
      <3>1. vaddr[t] \in UserAddress(t)
        <4>1. vaddr[t] < numPages[t] * PageSize /\ numPages[t] * PageSize \in Nat
          BY <1>num, <2>1, PageOf, Constants, Zenon
        <4>2. QED
          BY <1>num, <4>1 DEF UserAddress
      <3>2. Phys(t, vaddr[t]) \in Int
        <4>1. Phys(t, vaddr[t]) \in PhysicalAddress
          BY <3>1, InFrame, Zenon
        <4>2. QED
          BY <4>1 DEF PhysicalAddress
      <3>3. phys_addr' = [phys_addr EXCEPT ![t] = Phys(t, vaddr[t])] /\ failed' = failed
        BY <2>1, Zenon DEF Translate
      <3>4. QED
        BY <2>1, <3>2, <3>3, Zenon
    <2>2. CASE ~(vpn < numPages[t])
      <3>1. PICK p \in (IF vpn = numPages[t] THEN Anywhere ELSE {}) \cup {phys_addr[t]} :
                phys_addr' = [phys_addr EXCEPT ![t] = p]
        BY <2>2, Zenon DEF Translate
      <3>2. p \in Int
        BY <1>num, Constants, Zenon
      <3>3. failed' = failed \cup {t}
        BY <2>2, Zenon DEF Translate
      <3>4. QED
        BY <2>2, <3>1, <3>2, <3>3, Zenon
    <2>3. QED
      BY <2>1, <2>2, Zenon
  <1>u. /\ at[t] = "translate" /\ HasCPU(t)
        /\ at' = [at EXCEPT ![t] = IF request[t].type = 0 THEN "empty" ELSE "fill"]
        /\ UNCHANGED <<preemptive, request, vaddr, bytes_read, bytes_wrote, read, mem_buffer,
                       mainMemory, buffer, diskBuffer>>
    BY Zenon DEF Translate
  <1> HIDE DEF vpn
  <1>2. UBTypeOK'
    <2>1. phys_addr' \in [Thread -> Int]
      BY <1>0, <1>1, Zenon DEF UBTypeOK
    <2>2. at' \in [Thread -> {"user", "fill", "translate", "empty", "done"}]
      BY <1>0, <1>u, Zenon DEF UBTypeOK
    <2>3. failed' \subseteq Thread
      BY <1>0, <1>1, Zenon DEF UBTypeOK
    <2>4. QED
      BY <1>0, <1>u, <2>1, <2>2, <2>3, Zenon DEF UBTypeOK
  <1>3. /\ phys_addr'[t] = p /\ at'[t] = (IF request[t].type = 0 THEN "empty" ELSE "fill")
        /\ request'[t] = request[t] /\ vaddr'[t] = vaddr[t] /\ bytes_read'[t] = bytes_read[t]
        /\ (t \notin failed' => t \notin failed /\ vpn < numPages[t] /\ p = Phys(t, vaddr[t]))
    <2>1. phys_addr'[t] = p
      BY <1>0, <1>1, Zenon DEF UBTypeOK
    <2>2. at'[t] = (IF request[t].type = 0 THEN "empty" ELSE "fill")
      BY <1>0, <1>u, Zenon DEF UBTypeOK
    <2>3. t \notin failed' => t \notin failed /\ vpn < numPages[t] /\ p = Phys(t, vaddr[t])
      BY <1>1, Zenon
    <2>4. QED
      BY <1>u, <2>1, <2>2, <2>3, Zenon
  <1>4. /\ (Filled(t) <=> request[t].type = 0) /\ (Filled(t)' <=> request[t].type = 0)
        /\ at'[t] # "user" /\ at'[t] # "done" /\ at'[t] # "translate"
    BY <1>u, <1>3 DEF Filled
  <1>5. Moved(t)' = Moved(t) /\ write_size(t)' = write_size(t)
    BY <1>u, <1>4, Zenon DEF Moved, write_size, Room
  <1>6. /\ (OnePage(t)' <=> OnePage(t)) /\ (Served(t)' <=> Served(t))
        /\ Asked(t)' = Asked(t) /\ Written(t)' = Written(t)
    BY <1>3, SameRequest, Zenon
  <1>7. Progress(t)'
    <2>1. at[t] # "user" /\ at[t] \in {"fill", "translate"}
      BY <1>u
    <2>2. QED
      BY <1>0, <1>u, <1>4, <2>1, Zenon DEF Progress
  <1>8. Located(t)'
    BY <1>0, <1>u, <1>3, Zenon DEF Located, vpn
  <1>9. InStep(t)'
    <2>1. at[t] # "user" /\ (request[t].type = 0 => at'[t] # "fill")
      BY <1>u, <1>3
    <2>2. QED
      BY <1>0, <1>u, <1>4, <1>5, <1>6, <2>1, Zenon DEF InStep
  <1>10. StaysInside(t)'
    <2> SUFFICES ASSUME Served(t), Asked(t) \subseteq UserAddress(t) PROVE t \notin failed'
      BY <1>6, Zenon DEF StaysInside
    <2>1. t \notin failed
      BY <1>0, Zenon DEF StaysInside
    <2> DEFINE m == IF request[t].type = 1 THEN bytes_read[t] ELSE Moved(t)
    <2>2. m \in Nat /\ m < request[t].size
      BY <1>0, <1>num, <1>u, <1>4 DEF Progress, Moved
    <2>3. vaddr[t] = request[t].vaddr + m
      <3>1. at[t] # "user"
        BY <1>u
      <3>2. QED
        BY <1>0, <3>1, Zenon DEF InStep
    <2> HIDE DEF m
    <2>4. vaddr[t] \in Asked(t)
      BY <1>num, <2>2, <2>3 DEF Asked
    <2>5. vaddr[t] < numPages[t] * PageSize
      <3>1. vaddr[t] \in UserAddress(t) /\ numPages[t] * PageSize \in Nat
        BY <2>4, Constants, Zenon
      <3>2. QED
        BY <1>num, <3>1 DEF UserAddress
    <2>6. vpn < numPages[t]
      BY <1>num, <2>5, PageOf, Zenon DEF vpn
    <2>7. QED
      BY <1>1, <2>1, <2>6, Zenon
  <1>11. NoStrayStore' => NoStrayStore
    BY <1>1, <1>u, Zenon DEF NoStrayStore
  <1>12. NoStrayStore' => Untouched(t)'
    BY <1>0, <1>u, <1>6, <1>11, Zenon DEF Untouched, UserByte
  <1>13. ~preemptive /\ NoStrayStore' /\ Served(t)' /\ t \notin failed' => Copied(t)'
    BY <1>0, <1>u, <1>3, <1>4, <1>5, <1>6, <1>11, Zenon DEF Copied, UserByte
  <1>14. \A u \in Thread \ {t} : Stays(u)
    BY <1>0, <1>1, <1>u, Zenon DEF UBTypeOK, Stays
  <1>15. \A u \in Thread \ {t} : \A a \in UserAddress(u) : UserByte(u, a)' = UserByte(u, a)
    BY <1>u, Zenon DEF UserByte
  <1>16. QED
    BY <1>u, <1>2, <1>7, <1>8, <1>9, <1>10, <1>11, <1>12, <1>13, <1>14, <1>15, OthersKept, Zenon

(* A Write takes the next bytes of the process into diskBuffer. *)
LEMMA WriteFillInv ==
    ASSUME UBInv, NEW t \in Thread, WriteFill(t)
    PROVE  UBInv'
  <1> DEFINE n == read_size(t)
             from(b) == phys_addr[t] + b
  <1>0. /\ UBTypeOK /\ Progress(t) /\ Located(t) /\ InStep(t) /\ StaysInside(t)
        /\ NoStrayStore => Untouched(t)
        /\ ~preemptive /\ NoStrayStore /\ Served(t) /\ t \notin failed => Copied(t)
        /\ at[t] = "fill" /\ request[t].type = 1 /\ HasCPU(t)
    BY CallState, Zenon DEF WriteFill
  <1>f. ~Filled(t) /\ Translated(t) /\ Served(t)
    BY <1>0 DEF Filled, Translated, Served
  <1>num. /\ request[t].vaddr \in Nat /\ request[t].size \in Nat /\ PageSize \in Nat \ {0}
          /\ vaddr[t] \in Nat /\ bytes_read[t] \in Nat /\ bytes_read[t] < request[t].size
          /\ numPages[t] \in Nat /\ numPages[t] * PageSize \in Nat
    BY <1>0, <1>f, CallState, Constants, Zenon DEF Progress
  <1>1. n \in 1..PageSize /\ n <= request[t].size - bytes_read[t]
        /\ n <= PageSize - (vaddr[t] % PageSize)
    <2>1. vaddr[t] % PageSize \in 0..(PageSize - 1)
      BY CallState, Zenon
    <2>2. Room(t) \in 1..PageSize /\ Room(t) = PageSize - (vaddr[t] % PageSize)
      BY <1>num, <2>1 DEF Room
    <2>3. write_size(t) \in 1..PageSize /\ write_size(t) <= Room(t)
      BY <1>num, <2>2 DEF write_size
    <2>4. QED
      BY <1>num, <2>2, <2>3 DEF read_size, Smaller
  <1>2. vaddr[t] = request[t].vaddr + bytes_read[t]
    BY <1>0, <1>f, Zenon DEF InStep
  <1>3. /\ diskBuffer' = [b \in DOMAIN diskBuffer |->
              CASE b >= n -> diskBuffer[b]
                [] b < n /\ from(b) \in PhysicalAddress -> mainMemory[from(b)]
                [] OTHER -> Junk]
        /\ read' = [read EXCEPT ![t] = n]
        /\ vaddr' = [vaddr EXCEPT ![t] = @ + n]
        /\ bytes_read' = [bytes_read EXCEPT ![t] = @ + n]
        /\ at' = [at EXCEPT ![t] = "empty"]
        /\ UNCHANGED <<preemptive, request, phys_addr, bytes_wrote, mem_buffer, mainMemory,
                       buffer, failed>>
    BY Zenon DEF WriteFill
  <1> HIDE DEF n
  <1>4. ASSUME t \notin failed, NEW b \in 0..(n - 1)
        PROVE  /\ vaddr[t] + b \in UserAddress(t) /\ from(b) \in PhysicalAddress
               /\ from(b) = Phys(t, vaddr[t] + b)
    <2>1. vaddr[t] \div PageSize < numPages[t] /\ phys_addr[t] = Phys(t, vaddr[t])
      BY <1>0, <1>f, <1>4, Zenon DEF Located
    <2>2. b \in Nat /\ b < PageSize - (vaddr[t] % PageSize)
      <3>1. vaddr[t] % PageSize \in 0..(PageSize - 1)
        BY CallState, Zenon
      <3>2. QED
        BY <1>num, <1>1, <3>1
    <2>3. vaddr[t] + b \in UserAddress(t) /\ Phys(t, vaddr[t] + b) = Phys(t, vaddr[t]) + b
      BY <1>num, <2>1, <2>2, RestOfPage, Zenon
    <2>4. Phys(t, vaddr[t] + b) \in PhysicalAddress
      BY <2>3, InFrame, Zenon
    <2>5. QED
      BY <2>1, <2>3, <2>4, Zenon
  <1>5. UBTypeOK'
    <2>1. /\ read' \in [Thread -> Nat] /\ vaddr' \in [Thread -> Nat]
          /\ bytes_read' \in [Thread -> Nat]
      <3>1. n \in Nat /\ vaddr[t] + n \in Nat /\ bytes_read[t] + n \in Nat
        BY <1>num, <1>1
      <3>2. /\ read \in [Thread -> Nat] /\ vaddr \in [Thread -> Nat]
            /\ bytes_read \in [Thread -> Nat]
        BY <1>0, Zenon DEF UBTypeOK
      <3>3. QED
        BY <1>3, <3>1, <3>2, Zenon
    <2>2. at' \in [Thread -> {"user", "fill", "translate", "empty", "done"}]
      BY <1>0, <1>3, Zenon DEF UBTypeOK
    <2>3. DOMAIN diskBuffer' = DOMAIN diskBuffer
      BY <1>3, Zenon
    <2>4. QED
      BY <1>0, <1>3, <2>1, <2>2, <2>3, Zenon DEF UBTypeOK
  <1>6. /\ read'[t] = n /\ vaddr'[t] = vaddr[t] + n /\ bytes_read'[t] = bytes_read[t] + n
        /\ at'[t] = "empty" /\ request'[t] = request[t] /\ buffer'[t] = buffer[t]
        /\ failed' = failed
    BY <1>0, <1>3, Zenon DEF UBTypeOK
  <1>7. Filled(t)' /\ ~Translated(t)'
    BY <1>0, <1>6 DEF Filled, Translated
  <1>8. /\ (OnePage(t)' <=> OnePage(t)) /\ (Served(t)' <=> Served(t))
        /\ Asked(t)' = Asked(t) /\ Written(t)' = Written(t)
    BY <1>6, SameRequest, Zenon
  <1>9. Progress(t)'
    BY <1>0, <1>num, <1>1, <1>6, <1>7 DEF Progress
  <1>10. Located(t)'
    <2> SUFFICES ASSUME t \notin failed PROVE vaddr'[t] <= numPages[t] * PageSize
      BY <1>6, <1>7, Zenon DEF Located
    <2>1. n - 1 \in 0..(n - 1)
      BY <1>1
    <2>2. vaddr[t] + (n - 1) \in UserAddress(t)
      BY <1>4, <2>1, Zenon
    <2>3. n \in 1..PageSize /\ PageSize \in Nat /\ vaddr[t] \in Nat
          /\ numPages[t] * PageSize \in Nat
      BY <1>num, <1>1, Zenon
    <2>4. vaddr[t] + n <= numPages[t] * PageSize
      BY <2>2, <2>3 DEF UserAddress
    <2>5. QED
      BY <1>6, <2>4, Zenon
  <1>11. InStep(t)'
    <2>1. vaddr'[t] = request'[t].vaddr + bytes_read'[t]
      BY <1>num, <1>1, <1>2, <1>6
    <2>2. request'[t].type = 1 /\ request'[t].type # 0
      BY <1>0, <1>6
    <2>3. QED
      BY <2>1, <2>2, Zenon DEF InStep
  <1>12. StaysInside(t)' /\ (NoStrayStore' => NoStrayStore)
    BY <1>0, <1>3, <1>8, Zenon DEF StaysInside, NoStrayStore
  <1>13. NoStrayStore' => Untouched(t)'
    BY <1>0, <1>3, <1>8, <1>12, Zenon DEF Untouched, UserByte
  <1>14. ASSUME ~preemptive, NoStrayStore', t \notin failed' PROVE Copied(t)'
    <2>1. Moved(t)' = bytes_read[t] /\ Moved(t) = bytes_read[t]
      BY <1>num, <1>1, <1>f, <1>6, <1>7 DEF Moved
    <2>2. \A k \in 0..(bytes_read[t] - 1) : buffer[t][k] = UserByte(t, request[t].vaddr + k)
      BY <1>0, <1>f, <1>6, <1>12, <1>14, <2>1, Zenon DEF Copied
    <2>3. ASSUME NEW b \in 0..(n - 1)
          PROVE  diskBuffer'[b] = UserByte(t, request[t].vaddr + bytes_read[t] + b)
      <3>1. b \in DOMAIN diskBuffer /\ b < n /\ ~(b >= n)
        <4>1. DOMAIN diskBuffer = 0..(PageSize - 1)
          BY <1>0, Zenon DEF UBTypeOK
        <4>2. n \in 1..PageSize /\ PageSize \in Nat
          BY <1>num, <1>1, Zenon
        <4>3. b \in 0..(PageSize - 1) /\ b < n /\ ~(b >= n)
          BY <4>2
        <4>4. QED
          BY <4>1, <4>3, Zenon
      <3>2. from(b) \in PhysicalAddress /\ from(b) = Phys(t, vaddr[t] + b)
        BY <1>4, <1>6, <1>14, Zenon
      <3>3. diskBuffer'[b] = mainMemory[from(b)]
        BY <1>3, <3>1, <3>2, Zenon
      <3>4. QED
        BY <1>2, <3>2, <3>3, Zenon DEF UserByte
    <2>4. request'[t].type # 0
      BY <1>0, <1>6
    <2>5. UNCHANGED mainMemory
      BY <1>3, Zenon
    <2>6. QED
      BY <1>6, <2>1, <2>2, <2>3, <2>4, <2>5, Zenon DEF Copied, UserByte
  <1>15. \A u \in Thread \ {t} : Stays(u)
    BY <1>0, <1>3, Zenon DEF UBTypeOK, Stays
  <1>16. \A u \in Thread \ {t} : \A a \in UserAddress(u) : UserByte(u, a)' = UserByte(u, a)
    BY <1>3, Zenon DEF UserByte
  <1>17. QED
    BY <1>0, <1>3, <1>5, <1>9, <1>10, <1>11, <1>12, <1>13, <1>14, <1>15, <1>16, OthersKept, Zenon

(* ... and puts them after those that the kernel has. *)
LEMMA WriteEmptyInv ==
    ASSUME UBInv, NEW t \in Thread, WriteEmpty(t)
    PROVE  UBInv'
  <1> DEFINE start == bytes_read[t] - read[t]
  <1>0. /\ UBTypeOK /\ Progress(t) /\ Located(t) /\ InStep(t) /\ StaysInside(t)
        /\ NoStrayStore => Untouched(t)
        /\ ~preemptive /\ NoStrayStore /\ Served(t) /\ t \notin failed => Copied(t)
        /\ at[t] = "empty" /\ request[t].type = 1 /\ HasCPU(t)
    BY CallState, Zenon DEF WriteEmpty
  <1>f. Filled(t) /\ Served(t) /\ at[t] # "user"
    BY <1>0 DEF Filled, Served
  <1>num. /\ request[t].vaddr \in Nat /\ request[t].size \in Nat /\ PageSize \in Nat \ {0}
          /\ read[t] \in 1..PageSize /\ read[t] <= bytes_read[t]
          /\ bytes_read[t] \in Nat /\ bytes_read[t] <= request[t].size
    <2>1. /\ request[t].vaddr \in Nat /\ request[t].size \in Nat /\ PageSize \in Nat \ {0}
          /\ bytes_read[t] \in Nat /\ read[t] \in Nat
      BY CallState, Zenon
    <2>2. /\ bytes_read[t] <= request[t].size /\ 0 < read[t] /\ read[t] <= bytes_read[t]
          /\ read[t] <= PageSize
      BY <1>0, <1>f, Zenon DEF Progress
    <2>3. read[t] \in 1..PageSize
      BY <2>1, <2>2
    <2>4. QED
      BY <2>1, <2>2, <2>3, Zenon
  <1>space. request[t].size <= Largest(RequestSize) /\ Largest(RequestSize) \in Nat
    BY <1>f, CallState, Zenon
  <1>1. start \in Nat /\ Moved(t) = start
    BY <1>f, <1>num DEF Moved
  <1>2. /\ buffer' = [buffer EXCEPT ![t] = [k \in DOMAIN @ |->
              IF k \in start..(bytes_read[t] - 1) THEN diskBuffer[k - start] ELSE @[k]]]
        /\ at' = [at EXCEPT ![t] =
              IF bytes_read[t] < request[t].size THEN "translate" ELSE "done"]
        /\ UNCHANGED <<preemptive, request, vaddr, phys_addr, bytes_read, bytes_wrote, read,
                       mem_buffer, mainMemory, diskBuffer, failed>>
    BY Zenon DEF WriteEmpty
  <1>4. /\ DOMAIN buffer[t] = 0..(Largest(RequestSize) - 1)
        /\ buffer'[t] = [k \in DOMAIN buffer[t] |->
              IF k \in start..(bytes_read[t] - 1) THEN diskBuffer[k - start] ELSE buffer[t][k]]
    BY <1>0, <1>2, Zenon DEF UBTypeOK
  <1>5. /\ at'[t] = (IF bytes_read[t] < request[t].size THEN "translate" ELSE "done")
        /\ request'[t] = request[t] /\ vaddr'[t] = vaddr[t] /\ bytes_read'[t] = bytes_read[t]
    BY <1>0, <1>2, Zenon DEF UBTypeOK
  <1>6. ~Filled(t)' /\ ~Translated(t)' /\ Moved(t)' = bytes_read[t] /\ at'[t] # "user"
    <2>1. ~Filled(t)' /\ ~Translated(t)' /\ at'[t] # "user"
      BY <1>0, <1>5 DEF Filled, Translated
    <2>2. QED
      BY <1>num, <1>5, <2>1 DEF Moved
  <1>7. UBTypeOK'
    <2>2. DOMAIN buffer' = Thread /\ \A u \in Thread : DOMAIN buffer'[u] = 0..(Largest(RequestSize) - 1)
      BY <1>0, <1>2, <1>4, Zenon DEF UBTypeOK
    <2>3. at' \in [Thread -> {"user", "fill", "translate", "empty", "done"}]
      BY <1>0, <1>2, Zenon DEF UBTypeOK
    <2>4. QED
      BY <1>0, <1>2, <2>2, <2>3, Zenon DEF UBTypeOK
  <1>r. /\ (OnePage(t)' <=> OnePage(t)) /\ (Served(t)' <=> Served(t))
        /\ Asked(t)' = Asked(t) /\ Written(t)' = Written(t)
    BY <1>5, SameRequest, Zenon
  <1>8. Progress(t)'
    <2>1. /\ request[t].vaddr \in Address /\ request[t].size \in RequestSize
          /\ bytes_read[t] <= request[t].size
      BY <1>0, <1>f, Zenon DEF Progress
    <2>2. bytes_read[t] < request[t].size \/ bytes_read[t] = request[t].size
      BY <1>num
    <2>3. at'[t] = "done" => bytes_read[t] = request[t].size
      BY <1>5, <2>2
    <2>4. at'[t] \in {"fill", "translate"} => bytes_read[t] < request[t].size
      BY <1>5
    <2>5. QED
      BY <1>5, <1>6, <2>1, <2>3, <2>4, Zenon DEF Progress
  <1>9. Located(t)' /\ InStep(t)'
    <2>1. request'[t].type = 1 /\ request'[t].type # 0
      BY <1>0, <1>5
    <2>2. vaddr[t] = request[t].vaddr + bytes_read[t]
      BY <1>0, <1>f, Zenon DEF InStep
    <2>3. InStep(t)'
      BY <1>5, <2>1, <2>2, Zenon DEF InStep
    <2>4. Located(t)'
      BY <1>0, <1>f, <1>2, <1>6, Zenon DEF Located
    <2>5. QED
      BY <2>3, <2>4, Zenon
  <1>s. StaysInside(t)' /\ (NoStrayStore' => NoStrayStore)
    BY <1>0, <1>2, <1>r, Zenon DEF StaysInside, NoStrayStore
  <1>o. NoStrayStore' => Untouched(t)'
    BY <1>0, <1>2, <1>r, <1>s, Zenon DEF Untouched, UserByte
  <1>10. ASSUME ~preemptive, NoStrayStore', t \notin failed' PROVE Copied(t)'
    <2>0. Copied(t)
      BY <1>0, <1>f, <1>2, <1>s, <1>10, Zenon
    <2>1. ASSUME NEW k \in 0..(bytes_read[t] - 1)
          PROVE  buffer'[t][k] = UserByte(t, request[t].vaddr + k)
      <3>1. k \in DOMAIN buffer[t]
        BY <1>num, <1>space, <1>4
      <3>2. CASE k < start
        <4>1. buffer'[t][k] = buffer[t][k] /\ k \in 0..(start - 1)
          BY <1>num, <1>1, <1>4, <3>1, <3>2
        <4>2. QED
          BY <1>1, <2>0, <4>1, Zenon DEF Copied
      <3>3. CASE k >= start
        <4>1. buffer'[t][k] = diskBuffer[k - start] /\ k - start \in 0..(read[t] - 1)
          <5>1. k - start \in 0..(read[t] - 1) /\ k \in start..(bytes_read[t] - 1)
            BY <1>num, <1>1, <3>3
          <5>2. QED
            BY <1>4, <3>1, <5>1, Zenon
        <4>2. diskBuffer[k - start] = UserByte(t, request[t].vaddr + start + (k - start))
          <5>1. request[t].type # 0
            BY <1>0
          <5>2. QED
            BY <1>f, <1>1, <2>0, <4>1, <5>1, Zenon DEF Copied
        <4>3. request[t].vaddr + start + (k - start) = request[t].vaddr + k
          BY <1>num, <1>1
        <4>4. QED
          BY <4>1, <4>2, <4>3, Zenon
      <3>4. QED
        BY <1>1, <3>2, <3>3
    <2>2. UNCHANGED mainMemory
      BY <1>2, Zenon
    <2>3. QED
      BY <1>5, <1>6, <2>1, <2>2, Zenon DEF Copied, UserByte
  <1>11. \A u \in Thread \ {t} : Stays(u)
    BY <1>0, <1>2, Zenon DEF UBTypeOK, Stays
  <1>12. \A u \in Thread \ {t} : \A a \in UserAddress(u) : UserByte(u, a)' = UserByte(u, a)
    BY <1>2, Zenon DEF UserByte
  <1>13. QED
    BY <1>0, <1>2, <1>7, <1>8, <1>9, <1>s, <1>o, <1>10, <1>11, <1>12, OthersKept, Zenon

(* A Read takes the next bytes of the kernel into diskBuffer. *)
LEMMA ReadFillInv ==
    ASSUME UBInv, NEW t \in Thread, ReadFill(t)
    PROVE  UBInv'
  <1> DEFINE n == Smaller(request[t].size - bytes_read[t], PageSize)
  <1>0. /\ UBTypeOK /\ Progress(t) /\ Located(t) /\ InStep(t) /\ StaysInside(t)
        /\ NoStrayStore => Untouched(t)
        /\ ~preemptive /\ NoStrayStore /\ Served(t) /\ t \notin failed => Copied(t)
        /\ at[t] = "fill" /\ request[t].type = 0 /\ HasCPU(t)
    BY CallState, Zenon DEF ReadFill
  <1>f. ~Filled(t) /\ (Served(t) <=> Regular(t)) /\ at[t] # "user"
    BY <1>0 DEF Filled, Served
  <1>num. /\ request[t].vaddr \in Nat /\ request[t].size \in Nat /\ PageSize \in Nat \ {0}
          /\ vaddr[t] \in Nat /\ bytes_read[t] \in Nat /\ bytes_read[t] < request[t].size
    BY <1>0, <1>f, CallState, Zenon DEF Progress
  <1>step. Regular(t) =>
        /\ vaddr[t] = request[t].vaddr + bytes_read[t]
        /\ IF OnePage(t) THEN bytes_read[t] = 0
           ELSE /\ request[t].size % PageSize = 0 /\ vaddr[t] % PageSize = 0
                /\ (request[t].size - bytes_read[t]) % PageSize = 0
    <2>1. Moved(t) = bytes_read[t] /\ request[t].type # 1
      BY <1>0, <1>f, <1>num DEF Moved
    <2>2. QED
      BY <1>0, <1>f, <2>1, Zenon DEF InStep
  <1>1. n \in 1..PageSize /\ n <= request[t].size - bytes_read[t]
        /\ (request[t].size - bytes_read[t] >= PageSize => n = PageSize)
        /\ (request[t].size - bytes_read[t] <= PageSize => n = request[t].size - bytes_read[t])
    BY <1>num DEF Smaller
  <1> HIDE DEF n
  <1>2. /\ diskBuffer' = [b \in DOMAIN diskBuffer |->
              IF b < n THEN buffer[t][bytes_read[t] + b] ELSE diskBuffer[b]]
        /\ read' = [read EXCEPT ![t] = n]
        /\ bytes_read' = [bytes_read EXCEPT ![t] = @ + n]
        /\ bytes_wrote' = [bytes_wrote EXCEPT ![t] = 0]
        /\ mem_buffer' = [mem_buffer EXCEPT ![t] = 0]
        /\ at' = [at EXCEPT ![t] = "translate"]
        /\ UNCHANGED <<preemptive, request, vaddr, phys_addr, mainMemory, buffer, failed>>
    BY Zenon DEF ReadFill, n
  <1>3. UBTypeOK'
    <2>3. /\ read' \in [Thread -> Nat] /\ bytes_read' \in [Thread -> Nat]
          /\ bytes_wrote' \in [Thread -> Nat] /\ mem_buffer' \in [Thread -> Nat]
      <3>1. n \in Nat /\ bytes_read[t] + n \in Nat
        BY <1>num, <1>1
      <3>2. /\ read \in [Thread -> Nat] /\ bytes_read \in [Thread -> Nat]
            /\ bytes_wrote \in [Thread -> Nat] /\ mem_buffer \in [Thread -> Nat]
        BY <1>0, Zenon DEF UBTypeOK
      <3>3. QED
        BY <1>2, <3>1, <3>2, Zenon
    <2>4. at' \in [Thread -> {"user", "fill", "translate", "empty", "done"}]
      BY <1>0, <1>2, Zenon DEF UBTypeOK
    <2>5. DOMAIN diskBuffer' = DOMAIN diskBuffer
      BY <1>2, Zenon
    <2>6. QED
      BY <1>0, <1>2, <2>3, <2>4, <2>5, Zenon DEF UBTypeOK
  <1>4. /\ read'[t] = n /\ bytes_read'[t] = bytes_read[t] + n /\ bytes_wrote'[t] = 0
        /\ mem_buffer'[t] = 0 /\ at'[t] = "translate" /\ request'[t] = request[t]
        /\ buffer'[t] = buffer[t] /\ vaddr'[t] = vaddr[t]
    BY <1>0, <1>2, Zenon DEF UBTypeOK
  <1>g. Filled(t)' /\ ~Translated(t)'
    BY <1>0, <1>4 DEF Filled, Translated
  <1>5. Progress(t)'
    <2>1. request[t].vaddr \in Address /\ request[t].size \in RequestSize
      BY <1>0, <1>f, Zenon DEF Progress
    <2>2. /\ 0 < n /\ n <= bytes_read[t] + n /\ n <= PageSize
          /\ bytes_read[t] + n <= request[t].size
      <3>1. n \in 1..PageSize /\ n <= request[t].size - bytes_read[t]
        BY <1>1, Zenon
      <3>2. QED
        BY <1>num, <3>1
    <2>3. at'[t] # "user" /\ at'[t] # "done"
      BY <1>4
    <2>4. QED
      BY <1>4, <1>g, <2>1, <2>2, <2>3, Zenon DEF Progress
  <1>6. /\ Moved(t)' = bytes_read[t] /\ Moved(t) = bytes_read[t]
        /\ (OnePage(t)' <=> OnePage(t)) /\ (Served(t)' <=> Served(t))
        /\ write_size(t)' = write_size(t) /\ Asked(t)' = Asked(t) /\ Written(t)' = Written(t)
    <2>1. Moved(t)' = bytes_read[t] /\ Moved(t) = bytes_read[t]
      BY <1>f, <1>g, <1>num, <1>1, <1>4 DEF Moved
    <2>2. /\ (OnePage(t)' <=> OnePage(t)) /\ (Served(t)' <=> Served(t))
          /\ Asked(t)' = Asked(t) /\ Written(t)' = Written(t)
      BY <1>4, SameRequest, Zenon
    <2>3. write_size(t)' = write_size(t)
      BY <1>4, Zenon DEF write_size, Room
    <2>4. QED
      BY <2>1, <2>2, <2>3, Zenon
  <1>7. ASSUME Regular(t), OnePage(t)
        PROVE  n = request[t].size /\ bytes_read[t] = 0 /\ write_size(t) = n
    <2>1. bytes_read[t] = 0 /\ vaddr[t] = request[t].vaddr
      BY <1>num, <1>step, <1>7
    <2>2. vaddr[t] % PageSize \in 0..(PageSize - 1)
      BY CallState, Zenon
    <2>3. request[t].size <= Room(t) /\ Room(t) \in Nat /\ Room(t) <= PageSize
      BY <1>num, <1>7, <2>1, <2>2 DEF OnePage, Room
    <2>4. write_size(t) = request[t].size
      BY <1>num, <2>3 DEF write_size
    <2>5. QED
      BY <1>num, <1>1, <2>1, <2>3, <2>4
  <1>8. ASSUME Regular(t), ~OnePage(t)
        PROVE  /\ n = PageSize /\ write_size(t) = n
               /\ request[t].size % PageSize = 0 /\ vaddr[t] % PageSize = 0
               /\ (request[t].size - (bytes_read[t] + n)) % PageSize = 0
    <2>1. /\ request[t].size % PageSize = 0 /\ vaddr[t] % PageSize = 0
          /\ (request[t].size - bytes_read[t]) % PageSize = 0
      BY <1>step, <1>8, Zenon
    <2> DEFINE x == request[t].size - bytes_read[t]
    <2>2. x \in Nat \ {0} /\ x % PageSize = 0
      BY <1>num, <2>1
    <2>3. x >= PageSize /\ (x - PageSize) % PageSize = 0
      BY <1>num, <2>2, WholePage, Zenon
    <2>4. n = PageSize
      BY <1>1, <2>3, Zenon
    <2>5. x - PageSize = request[t].size - (bytes_read[t] + n)
      BY <1>num, <2>4
    <2>6. Room(t) = PageSize
      BY <1>num, <2>1 DEF Room
    <2>7. write_size(t) = PageSize
      <3>1. request[t].size >= PageSize
        BY <1>num, <2>3
      <3>2. QED
        BY <1>num, <2>6, <3>1 DEF write_size
    <2>8. QED
      BY <2>1, <2>3, <2>4, <2>5, <2>7, Zenon
  <1>9. InStep(t)'
    <2>0. request'[t].type = 0 /\ request'[t].type # 1 /\ at'[t] # "fill"
      BY <1>0, <1>4
    <2> SUFFICES ASSUME Served(t) PROVE InStep(t)'
      BY <1>6, Zenon DEF InStep
    <2>1. Regular(t)
      BY <1>f, Zenon
    <2>2. vaddr'[t] = request'[t].vaddr + Moved(t)'
      BY <1>step, <1>4, <1>6, <2>1, Zenon
    <2>4. write_size(t)' = read'[t]
      <3>1. write_size(t) = n
        BY <1>7, <1>8, <2>1, Zenon
      <3>2. QED
        BY <1>4, <1>6, <3>1, Zenon
    <2>5. CASE OnePage(t)
      <3>1. bytes_read'[t] = request'[t].size
        BY <1>num, <1>4, <1>7, <2>1, <2>5
      <3>2. QED
        BY <1>4, <1>6, <2>0, <2>2, <2>4, <2>5, <3>1, Zenon DEF InStep
    <2>6. CASE ~OnePage(t)
      <3>1. /\ request'[t].size % PageSize = 0 /\ vaddr'[t] % PageSize = 0
            /\ (request'[t].size - bytes_read'[t]) % PageSize = 0
        BY <1>4, <1>8, <2>1, <2>6, Zenon
      <3>2. QED
        BY <1>4, <1>6, <2>0, <2>2, <2>4, <2>6, <3>1, Zenon DEF InStep
    <2>7. QED
      BY <2>5, <2>6, Zenon
  <1>10. Located(t)'
    BY <1>0, <1>f, <1>2, <1>g, Zenon DEF Located
  <1>11. StaysInside(t)' /\ (NoStrayStore' => NoStrayStore)
    BY <1>0, <1>2, <1>6, Zenon DEF StaysInside, NoStrayStore
  <1>12. NoStrayStore' => Untouched(t)'
    BY <1>0, <1>2, <1>6, <1>11, Zenon DEF Untouched, UserByte
  <1>13. ASSUME ~preemptive, NoStrayStore', Served(t)', t \notin failed' PROVE Copied(t)'
    <2>1. \A k \in 0..(bytes_read[t] - 1) : buffer[t][k] = UserByte(t, request[t].vaddr + k)
      BY <1>0, <1>2, <1>6, <1>11, <1>13, Zenon DEF Copied
    <2>2. \A b \in 0..(n - 1) : diskBuffer'[b] = buffer[t][bytes_read[t] + b]
      <3>1. DOMAIN diskBuffer = 0..(PageSize - 1)
        BY <1>0, Zenon DEF UBTypeOK
      <3>2. QED
        BY <1>num, <1>1, <1>2, <3>1
    <2>3. request'[t].type = 0 /\ UNCHANGED mainMemory
      BY <1>0, <1>2, <1>4, Zenon
    <2>4. QED
      BY <1>4, <1>6, <2>1, <2>2, <2>3, Zenon DEF Copied, UserByte
  <1>14. \A u \in Thread \ {t} : Stays(u)
    BY <1>0, <1>2, Zenon DEF UBTypeOK, Stays
  <1>15. \A u \in Thread \ {t} : \A a \in UserAddress(u) : UserByte(u, a)' = UserByte(u, a)
    BY <1>2, Zenon DEF UserByte
  <1>16. QED
    BY <1>0, <1>2, <1>3, <1>5, <1>9, <1>10, <1>11, <1>12, <1>13, <1>14, <1>15, OthersKept, Zenon

(* With what Translate gave, a copy to the process goes to the addresses   *)
(* from vaddr on, and to no others of any process.                         *)
LEMMA StoreEffect ==
    ASSUME UBInv, NEW t \in Thread, ReadEmpty(t), t \notin failed,
           NEW u \in Thread, NEW a \in UserAddress(u)
    PROVE  /\ u = t /\ a \in vaddr[t]..(vaddr[t] + write_size(t) - 1)
              /\ mem_buffer[t] + (a - vaddr[t]) < PageSize =>
                 UserByte(u, a)' = diskBuffer[mem_buffer[t] + (a - vaddr[t])]
           /\ ~(u = t /\ a \in vaddr[t]..(vaddr[t] + write_size(t) - 1)) =>
                 UserByte(u, a)' = UserByte(u, a)
  <1> DEFINE n == write_size(t)
             to == phys_addr[t]..(phys_addr[t] + n - 1)
             from(p) == mem_buffer[t] + p - phys_addr[t]
             q == Phys(u, a)
  <1>0. /\ Located(t) /\ at[t] = "empty" /\ request[t].type = 0
        /\ vaddr[t] \in Nat /\ PageSize \in Nat \ {0} /\ request[t].size \in Nat
        /\ vaddr[t] % PageSize \in 0..(PageSize - 1) /\ phys_addr[t] \in Int
        /\ mem_buffer[t] \in Nat
    BY CallState, Zenon DEF ReadEmpty
  <1>1. vaddr[t] \div PageSize < numPages[t] /\ phys_addr[t] = Phys(t, vaddr[t])
    BY <1>0, Zenon DEF Located, Translated
  <1>2. n \in Nat /\ n <= PageSize - (vaddr[t] % PageSize)
    BY <1>0 DEF write_size, Room
  <1>3. mainMemory' = [p \in PhysicalAddress |->
              CASE p \notin to -> mainMemory[p]
                [] p \in to /\ from(p) < PageSize -> diskBuffer[from(p)]
                [] OTHER -> Junk]
    BY Zenon DEF ReadEmpty
  <1>4. q \in PhysicalAddress /\ q \in Int /\ a \in Nat
    <2>1. q \in PhysicalAddress /\ a \in Nat
      BY InFrame, Zenon
    <2>2. QED
      BY <2>1 DEF PhysicalAddress
  <1>5. UserByte(u, a)' = mainMemory'[q] /\ UserByte(u, a) = mainMemory[q]
    BY Zenon DEF UserByte
  <1> HIDE DEF n, q
  <1>6. ASSUME NEW k \in Nat, k < n
        PROVE  vaddr[t] + k \in UserAddress(t) /\ Phys(t, vaddr[t] + k) = phys_addr[t] + k
    <2>1. k < PageSize - (vaddr[t] % PageSize)
      BY <1>0, <1>2, <1>6
    <2>2. vaddr[t] + k \in UserAddress(t) /\ Phys(t, vaddr[t] + k) = Phys(t, vaddr[t]) + k
      <3>1. vaddr[t] \in Nat /\ vaddr[t] \div PageSize < numPages[t]
        BY <1>0, <1>1, Zenon
      <3>2. QED
        BY <2>1, <3>1, RestOfPage, Zenon
    <2>3. QED
      BY <1>1, <2>2, Zenon
  <1>7. ASSUME q \in to
        PROVE  u = t /\ a \in vaddr[t]..(vaddr[t] + n - 1)
    <2> DEFINE k == q - phys_addr[t]
    <2>1. k \in Nat /\ k < n /\ phys_addr[t] + k = q
      BY <1>0, <1>2, <1>4, <1>7
    <2> HIDE DEF k
    <2>2. vaddr[t] + k \in UserAddress(t) /\ Phys(t, vaddr[t] + k) = q
      BY <1>6, <2>1, Zenon
    <2>6. Phys(t, vaddr[t] + k) = Phys(u, a)
      BY <2>2, Zenon DEF q
    <2>3. t = u /\ vaddr[t] + k = a
      BY <2>2, <2>6, OwnCell
    <2>4. vaddr[t] + k \in vaddr[t]..(vaddr[t] + n - 1)
      BY <1>0, <1>2, <2>1
    <2>5. QED
      BY <2>3, <2>4, Zenon
  <1>8. ASSUME u = t, a \in vaddr[t]..(vaddr[t] + n - 1),
               mem_buffer[t] + (a - vaddr[t]) < PageSize
        PROVE  UserByte(u, a)' = diskBuffer[mem_buffer[t] + (a - vaddr[t])]
    <2> DEFINE k == a - vaddr[t]
    <2>1. k \in Nat /\ k < n /\ vaddr[t] + k = a
      BY <1>0, <1>2, <1>4, <1>8
    <2>2. mem_buffer[t] + k < PageSize
      BY <1>8, Zenon
    <2> HIDE DEF k
    <2>3. q = phys_addr[t] + k
      BY <1>6, <1>8, <2>1, Zenon DEF q
    <2>4. q \in to /\ from(q) = mem_buffer[t] + k
      BY <1>0, <1>2, <2>1, <2>3
    <2>5. mainMemory'[q] = diskBuffer[from(q)]
      BY <1>3, <1>4, <2>2, <2>4, Zenon
    <2>6. QED
      BY <1>5, <2>4, <2>5, Zenon DEF k
  <1>9. ASSUME ~(u = t /\ a \in vaddr[t]..(vaddr[t] + n - 1))
        PROVE  UserByte(u, a)' = UserByte(u, a)
    <2>1. q \notin to
      BY <1>7, <1>9, Zenon
    <2>2. mainMemory'[q] = mainMemory[q]
      BY <1>3, <1>4, <2>1, Zenon
    <2>3. QED
      BY <1>5, <2>2, Zenon
  <1>10. QED
    BY <1>8, <1>9, Zenon DEF n

(* ... and puts them into the page of the process. *)
LEMMA ReadEmptyInv ==
    ASSUME UBInv, NEW t \in Thread, ReadEmpty(t)
    PROVE  UBInv'
  <1> DEFINE n == write_size(t)
             next == CASE bytes_wrote[t] + n < read[t] -> "translate"
                       [] bytes_wrote[t] + n >= read[t] /\ bytes_read[t] < request[t].size -> "fill"
                       [] OTHER -> "done"
             stored == vaddr[t]..(vaddr[t] + n - 1)
  <1>0. /\ UBTypeOK /\ Progress(t) /\ Located(t) /\ InStep(t) /\ StaysInside(t)
        /\ NoStrayStore => Untouched(t)
        /\ ~preemptive /\ NoStrayStore /\ Served(t) /\ t \notin failed => Copied(t)
        /\ at[t] = "empty" /\ request[t].type = 0 /\ HasCPU(t)
    BY CallState, Zenon DEF ReadEmpty
  <1>f. Filled(t) /\ Translated(t) /\ (Served(t) <=> Regular(t)) /\ at[t] # "user"
    BY <1>0 DEF Filled, Translated, Served
  <1>num. /\ request[t].vaddr \in Nat /\ request[t].size \in Nat \ {0}
          /\ PageSize \in Nat \ {0}
          /\ vaddr[t] \in Nat /\ bytes_read[t] \in Nat /\ bytes_read[t] <= request[t].size
          /\ read[t] \in 1..PageSize /\ read[t] <= bytes_read[t]
          /\ bytes_wrote[t] \in Nat /\ mem_buffer[t] \in Nat
    <2>1. /\ request[t].vaddr \in Nat /\ request[t].size \in Nat \ {0} /\ PageSize \in Nat \ {0}
          /\ vaddr[t] \in Nat /\ bytes_read[t] \in Nat /\ read[t] \in Nat
          /\ bytes_wrote[t] \in Nat /\ mem_buffer[t] \in Nat
      BY <1>f, CallState, Zenon
    <2>2. /\ bytes_read[t] <= request[t].size /\ 0 < read[t] /\ read[t] <= bytes_read[t]
          /\ read[t] <= PageSize
      BY <1>0, <1>f, Zenon DEF Progress
    <2>3. read[t] \in 1..PageSize
      BY <2>1, <2>2
    <2>4. QED
      BY <2>1, <2>2, <2>3, Zenon
  <1>1. n \in 1..PageSize /\ n <= PageSize - (vaddr[t] % PageSize)
    <2>1. vaddr[t] % PageSize \in 0..(PageSize - 1)
      BY CallState, Zenon
    <2>2. Room(t) \in 1..PageSize /\ Room(t) = PageSize - (vaddr[t] % PageSize)
      BY <1>num, <2>1 DEF Room
    <2>3. QED
      BY <1>num, <2>2 DEF write_size
  <1>step. Regular(t) =>
        /\ n = read[t] /\ mem_buffer[t] = 0 /\ bytes_wrote[t] = 0
        /\ vaddr[t] = request[t].vaddr + (bytes_read[t] - read[t])
        /\ IF OnePage(t) THEN bytes_read[t] = request[t].size
           ELSE /\ request[t].size % PageSize = 0 /\ vaddr[t] % PageSize = 0
                /\ (request[t].size - bytes_read[t]) % PageSize = 0
    <2>1. Moved(t) = bytes_read[t] - read[t] /\ request[t].type # 1
      <3>1. request[t].type # 1
        BY <1>0
      <3>2. QED
        BY <1>f, <3>1, Zenon DEF Moved
    <2>2. QED
      BY <1>0, <1>f, <2>1, Zenon DEF InStep
  <1>2. /\ DOMAIN mainMemory' = PhysicalAddress
        /\ bytes_wrote' = [bytes_wrote EXCEPT ![t] = @ + n]
        /\ mem_buffer' = [mem_buffer EXCEPT ![t] = @ + n]
        /\ vaddr' = [vaddr EXCEPT ![t] = @ + n]
        /\ at' = [at EXCEPT ![t] = next]
        /\ UNCHANGED <<preemptive, request, phys_addr, bytes_read, read, buffer, diskBuffer,
                       failed>>
    BY Zenon DEF ReadEmpty
  <1>3. /\ next \in {"translate", "fill", "done"}
        /\ (next = "translate" <=> bytes_wrote[t] + n < read[t])
        /\ (next = "fill" => bytes_read[t] < request[t].size)
        /\ (next = "done" => bytes_read[t] >= request[t].size)
    BY <1>num, <1>1
  <1>4. ASSUME t \notin failed, NEW u \in Thread, NEW a \in UserAddress(u)
        PROVE  /\ u = t /\ a \in stored /\ mem_buffer[t] + (a - vaddr[t]) < PageSize =>
                    UserByte(u, a)' = diskBuffer[mem_buffer[t] + (a - vaddr[t])]
               /\ ~(u = t /\ a \in stored) => UserByte(u, a)' = UserByte(u, a)
    BY <1>4, StoreEffect, Zenon
  <1>m. ASSUME t \notin failed, NEW a \in UserAddress(t)
        PROVE  /\ a \in stored /\ mem_buffer[t] + (a - vaddr[t]) < PageSize =>
                    mainMemory'[Phys(t, a)] = diskBuffer[mem_buffer[t] + (a - vaddr[t])]
               /\ a \notin stored => mainMemory'[Phys(t, a)] = UserByte(t, a)
    BY <1>4, <1>m, Zenon DEF UserByte
  <1> HIDE DEF next, n
  <1>5. UBTypeOK'
    <2>2. /\ bytes_wrote' \in [Thread -> Nat] /\ mem_buffer' \in [Thread -> Nat]
          /\ vaddr' \in [Thread -> Nat]
      <3>1. bytes_wrote[t] + n \in Nat /\ mem_buffer[t] + n \in Nat /\ vaddr[t] + n \in Nat
        <4>1. n \in 1..PageSize
          BY <1>1, Zenon
        <4>2. QED
          BY <1>num, <4>1
      <3>2. /\ bytes_wrote \in [Thread -> Nat] /\ mem_buffer \in [Thread -> Nat]
            /\ vaddr \in [Thread -> Nat]
        BY <1>0, Zenon DEF UBTypeOK
      <3>3. QED
        BY <1>2, <3>1, <3>2, Zenon
    <2>3. at' \in [Thread -> {"user", "fill", "translate", "empty", "done"}]
      BY <1>0, <1>2, <1>3, Zenon DEF UBTypeOK
    <2>4. QED
      BY <1>0, <1>2, <2>2, <2>3, Zenon DEF UBTypeOK
  <1>6. /\ bytes_wrote'[t] = bytes_wrote[t] + n /\ mem_buffer'[t] = mem_buffer[t] + n
        /\ vaddr'[t] = vaddr[t] + n /\ at'[t] = next
        /\ request'[t] = request[t] /\ buffer'[t] = buffer[t] /\ read'[t] = read[t]
        /\ bytes_read'[t] = bytes_read[t]
    BY <1>0, <1>2, Zenon DEF UBTypeOK
  <1>g. (Filled(t)' <=> next = "translate") /\ ~Translated(t)'
    BY <1>0, <1>3, <1>6 DEF Filled, Translated
  <1>7. Progress(t)'
    <2>1. request[t].vaddr \in Address /\ request[t].size \in RequestSize
      BY <1>0, <1>f, Zenon DEF Progress
    <2>2. 0 < read[t] /\ read[t] <= PageSize
      BY <1>num
    <2>3. next = "done" => bytes_read[t] = request[t].size
      BY <1>num, <1>3
    <2>4. next \in {"fill", "translate"} /\ next # "translate" => bytes_read[t] < request[t].size
      BY <1>3
    <2>5. next # "user"
      BY <1>3
    <2>6. QED
      BY <1>num, <1>6, <1>g, <2>1, <2>2, <2>3, <2>4, <2>5, Zenon DEF Progress
  <1>8. /\ Moved(t) = bytes_read[t] - read[t] /\ (OnePage(t)' <=> OnePage(t))
        /\ (Served(t)' <=> Served(t)) /\ Asked(t)' = Asked(t) /\ Written(t)' = Written(t)
        /\ Written(t) = Asked(t)
    <2>1. Moved(t) = bytes_read[t] - read[t] /\ Written(t) = Asked(t)
      BY <1>0, <1>f, Zenon DEF Moved, Written
    <2>2. QED
      BY <1>6, <2>1, SameRequest, Zenon
  <1>9. ASSUME Regular(t)
        PROVE  /\ n = read[t] /\ mem_buffer[t] = 0 /\ bytes_wrote[t] = 0
               /\ vaddr[t] = request[t].vaddr + (bytes_read[t] - read[t])
               /\ next # "translate" /\ Moved(t)' = bytes_read[t]
    <2>1. /\ n = read[t] /\ mem_buffer[t] = 0 /\ bytes_wrote[t] = 0
          /\ vaddr[t] = request[t].vaddr + (bytes_read[t] - read[t])
      BY <1>step, <1>9, Zenon
    <2>2. next # "translate"
      BY <1>num, <1>3, <2>1
    <2>3. Moved(t)' = bytes_read[t]
      <3>1. Moved(t)' = bytes_read[t] - 0
        BY <1>6, <1>g, <2>2, Zenon DEF Moved
      <3>2. QED
        BY <1>num, <3>1
    <2>4. QED
      BY <2>1, <2>2, <2>3, Zenon
  <1>10. InStep(t)'
    <2>0. request'[t].type = 0 /\ request'[t].type # 1
      <3>1. request'[t].type = 0
        BY <1>0, <1>6, Zenon
      <3>2. QED
        BY <3>1
    <2> SUFFICES ASSUME Served(t) PROVE InStep(t)'
      BY <1>8, Zenon DEF InStep
    <2>1. Regular(t)
      BY <1>f, Zenon
    <2>2. vaddr'[t] = request'[t].vaddr + Moved(t)' /\ ~Filled(t)'
      <3>1. ~Filled(t)'
        BY <1>9, <1>g, <2>1, Zenon
      <3>2. /\ n = read[t] /\ vaddr[t] = request[t].vaddr + (bytes_read[t] - read[t])
            /\ Moved(t)' = bytes_read[t] /\ request[t].vaddr \in Nat
            /\ bytes_read[t] \in Nat /\ read[t] \in 1..PageSize
        BY <1>num, <1>9, <2>1, Zenon
      <3>3. vaddr[t] + n = request[t].vaddr + bytes_read[t]
        BY <3>2
      <3>4. QED
        BY <1>6, <3>1, <3>2, <3>3, Zenon
    <2>4. CASE OnePage(t)
      <3>1. next # "fill" /\ at'[t] # "fill"
        BY <1>num, <1>step, <1>3, <1>6, <2>1, <2>4
      <3>2. QED
        BY <1>8, <2>0, <2>2, <2>4, <3>1, Zenon DEF InStep
    <2>5. CASE ~OnePage(t)
      <3>1. /\ request[t].size % PageSize = 0 /\ vaddr[t] % PageSize = 0
            /\ (request[t].size - bytes_read[t]) % PageSize = 0
        BY <1>step, <2>1, <2>5, Zenon
      <3>2. request[t].size >= PageSize
        BY <1>num, <3>1, WholePage, Zenon
      <3>3. n = PageSize
        <4>1. Room(t) = PageSize
          BY <1>num, <3>1 DEF Room
        <4>2. QED
          BY <1>num, <3>2, <4>1 DEF n, write_size
      <3>4. (vaddr[t] + PageSize) % PageSize = 0
        BY <1>num, <3>1, ModAdd, Zenon
      <3>5. /\ request'[t].size % PageSize = 0 /\ vaddr'[t] % PageSize = 0
            /\ (request'[t].size - bytes_read'[t]) % PageSize = 0
        BY <1>6, <3>1, <3>3, <3>4, Zenon
      <3>6. QED
        BY <1>8, <2>0, <2>2, <2>5, <3>5, Zenon DEF InStep
    <2>6. QED
      BY <2>4, <2>5, Zenon
  <1>11. Located(t)'
    <2> SUFFICES ASSUME t \notin failed PROVE vaddr'[t] <= numPages[t] * PageSize
      BY <1>2, <1>g, Zenon DEF Located
    <2>1. vaddr[t] \div PageSize < numPages[t]
      BY <1>0, <1>f, Zenon DEF Located
    <2>2. n - 1 \in Nat /\ n - 1 < PageSize - (vaddr[t] % PageSize)
      <3>1. vaddr[t] % PageSize \in 0..(PageSize - 1)
        BY CallState, Zenon
      <3>2. QED
        BY <1>num, <1>1, <3>1
    <2>3. vaddr[t] + (n - 1) \in UserAddress(t)
      BY <1>num, <2>1, <2>2, RestOfPage, Zenon
    <2>4. numPages[t] * PageSize \in Nat
      BY Constants, Zenon
    <2>5. n \in 1..PageSize /\ PageSize \in Nat /\ vaddr[t] \in Nat
      BY <1>num, <1>1, Zenon
    <2>6. vaddr[t] + n <= numPages[t] * PageSize
      BY <2>3, <2>4, <2>5 DEF UserAddress
    <2>7. QED
      BY <1>6, <2>6, Zenon
  <1>12. StaysInside(t)' /\ (NoStrayStore' => NoStrayStore /\ t \notin failed)
    <2>1. request[t].type # 1
      BY <1>0
    <2>2. QED
      BY <1>0, <1>2, <1>8, <2>1, Zenon DEF StaysInside, NoStrayStore
  <1>13. ASSUME NoStrayStore' PROVE Untouched(t)'
    <2> SUFFICES ASSUME Served(t), NEW a \in UserAddress(t) \ Asked(t)
                 PROVE  UserByte(t, a)' = Old(Phys(t, a))
      BY <1>8, Zenon DEF Untouched, UserByte
    <2>1. a \notin stored
      <3>1. Regular(t)
        BY <1>f, Zenon
      <3>2. QED
        BY <1>num, <1>9, <3>1 DEF Asked
    <2>2. UserByte(t, a)' = UserByte(t, a)
      BY <1>4, <1>12, <1>13, <2>1, Zenon
    <2>3. UserByte(t, a) = Old(Phys(t, a))
      BY <1>0, <1>8, <1>12, <1>13, Zenon DEF Untouched
    <2>4. QED
      BY <2>2, <2>3, Zenon
  <1>14. ASSUME ~preemptive, NoStrayStore', Served(t)' PROVE Copied(t)'
    <2> DEFINE start == bytes_read[t] - read[t]
    <2>r. Regular(t) /\ t \notin failed /\ Copied(t)
      BY <1>0, <1>f, <1>8, <1>12, <1>14, Zenon
    <2>0. start \in Nat /\ start = Moved(t) /\ vaddr[t] = request[t].vaddr + start
      BY <1>num, <1>8, <1>9, <2>r
    <2>1. ASSUME NEW k \in 0..(bytes_read[t] - 1)
          PROVE  buffer[t][k] = mainMemory'[Phys(t, request[t].vaddr + k)]
      <3>1. request[t].vaddr + k \in UserAddress(t)
        <4>1. vaddr'[t] <= numPages[t] * PageSize
          <5>1. vaddr'[t] # request'[t].vaddr /\ at'[t] # "user"
            <6>1. /\ n \in 1..PageSize /\ PageSize \in Nat /\ request[t].vaddr \in Nat
                  /\ start \in Nat /\ vaddr[t] = request[t].vaddr + start
              BY <1>num, <1>1, <2>0, Zenon
            <6> HIDE DEF start
            <6>2. vaddr[t] + n # request[t].vaddr
              BY <6>1
            <6>3. next # "user"
              BY <1>3
            <6>4. QED
              BY <1>6, <6>2, <6>3, Zenon
          <5>2. t \notin failed'
            BY <1>2, <2>r, Zenon
          <5>3. QED
            BY <1>11, <5>1, <5>2, Zenon DEF Located
        <4>2. numPages[t] * PageSize \in Nat
          BY Constants, Zenon
        <4>3. n = read[t]
          BY <1>9, <2>r, Zenon
        <4>4. /\ request[t].vaddr \in Nat /\ bytes_read[t] \in Nat /\ read[t] \in Nat
              /\ vaddr'[t] = (request[t].vaddr + (bytes_read[t] - read[t])) + read[t]
          BY <1>num, <1>6, <2>0, <4>3
        <4>5. request[t].vaddr + k <= (numPages[t] * PageSize) - 1
          BY <4>1, <4>2, <4>4
        <4>6. request[t].vaddr + k \in Nat
          BY <4>4
        <4> DEFINE end == (numPages[t] * PageSize) - 1
        <4>7. end \in Int /\ request[t].vaddr + k <= end
          BY <4>2, <4>5
        <4> HIDE DEF end
        <4>8. request[t].vaddr + k \in 0..end
          BY <4>6, <4>7
        <4>9. QED
          BY <4>8, Zenon DEF UserAddress, end
      <3>2. CASE k < start
        <4>1. request[t].vaddr + k \notin stored
          BY <1>num, <2>0, <3>2
        <4>2. buffer[t][k] = UserByte(t, request[t].vaddr + k)
          <5>1. k \in 0..(start - 1)
            BY <2>0, <3>2
          <5>2. QED
            BY <2>0, <2>r, <5>1, Zenon DEF Copied
        <4>3. mainMemory'[Phys(t, request[t].vaddr + k)] = UserByte(t, request[t].vaddr + k)
          BY <1>m, <2>r, <3>1, <4>1, Zenon
        <4>4. QED
          BY <4>2, <4>3, Zenon
      <3>3. CASE k >= start
        <4>1. k - start \in 0..(read[t] - 1) /\ start + (k - start) = k
          BY <1>num, <2>0, <3>3
        <4> DEFINE a == request[t].vaddr + k
        <4>2. /\ a \in stored
              /\ mem_buffer[t] + (a - vaddr[t]) = k - start
              /\ k - start < PageSize
          <5>1. /\ n = read[t] /\ mem_buffer[t] = 0 /\ vaddr[t] = request[t].vaddr + start
                /\ request[t].vaddr \in Nat /\ start \in Nat /\ read[t] \in 1..PageSize
                /\ PageSize \in Nat
            BY <1>num, <1>9, <2>0, <2>r, Zenon
          <5> HIDE DEF start
          <5>2. QED
            BY <4>1, <5>1
        <4>3. mainMemory'[Phys(t, a)] = diskBuffer[k - start]
          <5>1. a \in UserAddress(t)
            BY <3>1, Zenon
          <5> HIDE DEF a
          <5>2. QED
            BY <1>m, <2>r, <4>2, <5>1, Zenon
        <4>4. diskBuffer[k - start] = buffer[t][start + (k - start)]
          BY <1>0, <1>f, <2>0, <2>r, <4>1 DEF Copied
        <4>5. QED
          BY <4>1, <4>3, <4>4, Zenon
      <3>4. QED
        BY <1>num, <2>0, <3>2, <3>3
    <2>2. Moved(t)' = bytes_read[t] /\ ~Filled(t)'
      BY <1>9, <1>g, <2>r, Zenon
    <2>3. QED
      BY <1>6, <2>1, <2>2, Zenon DEF Copied, UserByte
  <1>15. \A u \in Thread \ {t} : Stays(u)
    BY <1>0, <1>2, Zenon DEF UBTypeOK, Stays
  <1>16. NoStrayStore' => \A u \in Thread \ {t} : \A a \in UserAddress(u) :
             UserByte(u, a)' = UserByte(u, a)
    BY <1>4, <1>12, Zenon
  <1>17. QED
    BY <1>0, <1>2, <1>5, <1>7, <1>10, <1>11, <1>12, <1>13, <1>14, <1>15, <1>16, OthersKept, Zenon

(* The invariant is kept by every step, so it always holds. *)
LEMMA UBInvStep == UBInv /\ [UserBufferNext]_ubVars => UBInv'
  <1> SUFFICES ASSUME UBInv, [UserBufferNext]_ubVars PROVE UBInv'
    BY Zenon
  <1>1. CASE UNCHANGED ubVars
    <2>1. UBTypeOK'
      BY <1>1, Zenon DEF ubVars, UBInv, UBTypeOK
    <2>2. ASSUME NEW t \in Thread
          PROVE  /\ Progress(t)' /\ Located(t)' /\ InStep(t)' /\ StaysInside(t)'
                 /\ (Served(t)' <=> Served(t)) /\ (Untouched(t)' <=> Untouched(t))
                 /\ (Copied(t)' <=> Copied(t))
      <3>1. Stays(t) /\ UNCHANGED <<mainMemory, diskBuffer>>
        BY <1>1, Zenon DEF ubVars, Stays
      <3>2. Progress(t) /\ Located(t) /\ InStep(t) /\ StaysInside(t)
        BY Zenon DEF UBInv
      <3>3. /\ Progress(t)' /\ Located(t)' /\ InStep(t)' /\ StaysInside(t)'
            /\ Moved(t)' = Moved(t) /\ (Filled(t)' <=> Filled(t))
        BY <3>1, <3>2, SameThread, Zenon
      <3>4. (Served(t)' <=> Served(t)) /\ Written(t)' = Written(t)
        BY <3>1, SameRequest, Zenon DEF Stays
      <3>5. Untouched(t)' <=> Untouched(t)
        BY <3>1, <3>4, Zenon DEF Untouched, UserByte
      <3>6. Copied(t)' <=> Copied(t)
        BY <1>1, <3>3, Zenon DEF ubVars, Copied, UserByte
      <3>7. QED
        BY <3>3, <3>4, <3>5, <3>6, Zenon
    <2>3. NoStrayStore' <=> NoStrayStore
      BY <1>1, Zenon DEF ubVars, NoStrayStore
    <2>4. QED
      BY <1>1, <2>1, <2>2, <2>3, Zenon DEF ubVars, UBInv
  <1>2. CASE UserBufferNext
    <2>1. PICK t \in Thread : \/ Enter(t) \/ Translate(t) \/ ReadFill(t) \/ ReadEmpty(t)
                              \/ WriteFill(t) \/ WriteEmpty(t)
      BY <1>2, Zenon DEF UserBufferNext
    <2>2. QED
      BY <2>1, EnterInv, TranslateInv, ReadFillInv, ReadEmptyInv, WriteFillInv, WriteEmptyInv,
         Zenon
  <1>3. QED
    BY <1>1, <1>2, Zenon

(* userReadWrite keeps the bytes of a call in step with its counters and   *)
(* with what Translate gave it, at every moment, for any number of threads *)
(* and any placement of their pages.                                       *)
THEOREM UBInvAlways == UserBufferSpec => []UBInv
  BY UBInitInv, UBInvStep, PTL DEF UserBufferSpec

(* A Write at any alignment, and a Read inside a page or of whole pages,   *)
(* use no address that Translate refused if all they ask for is theirs;    *)
(* unless some Read does, no process has a byte changed that it did not    *)
(* ask for; and where nobody interrupts them the two move exactly its      *)
(* bytes: for every size of page, page table, address and request.         *)
THEOREM TransfersAreExact == UserBufferSpec => []TransferExact
  <1>1. UBInv => TransferExact
    <2> SUFFICES ASSUME UBInv, NEW t \in Thread, Served(t)
                 PROVE  /\ Asked(t) \subseteq UserAddress(t) => t \notin failed
                        /\ NoStrayStore =>
                              /\ \A a \in UserAddress(t) \ Written(t) :
                                    UserByte(t, a) = Old(Phys(t, a))
                              /\ ~preemptive /\ at[t] = "done" /\ t \notin failed =>
                                    \A k \in 0..(request[t].size - 1) :
                                        buffer[t][k] = UserByte(t, request[t].vaddr + k)
      BY Zenon DEF TransferExact
    <2>1. Asked(t) \subseteq UserAddress(t) => t \notin failed
      BY CallState, Zenon DEF StaysInside
    <2>2. ASSUME NoStrayStore
          PROVE  \A a \in UserAddress(t) \ Written(t) : UserByte(t, a) = Old(Phys(t, a))
      BY <2>2, CallState, Zenon DEF Untouched
    <2>3. ASSUME NoStrayStore, ~preemptive, at[t] = "done", t \notin failed,
                 NEW k \in 0..(request[t].size - 1)
          PROVE  buffer[t][k] = UserByte(t, request[t].vaddr + k)
      <3>1. Copied(t) /\ bytes_read[t] = request[t].size /\ request[t].size \in Nat
        BY <2>3, CallState, Zenon DEF Progress
      <3>2. ~Filled(t)
        BY <2>3 DEF Filled
      <3>3. Moved(t) = request[t].size
        BY <3>1, <3>2 DEF Moved
      <3>4. QED
        BY <3>1, <3>3, Zenon DEF Copied
    <2>4. QED
      BY <2>1, <2>2, <2>3, Zenon
  <1>2. QED
    BY <1>1, UBInvAlways, PTL

-----------------------------------------------------------------------------
(* Mail over the network. *)

(* Every machine has another one to write to. *)
LEMMA FarType == \A m \in NetMachine : Far(m) \in NetMachine
  BY PostOfficeAssumption, Zenon DEF Far

(* The letters of a longer, joined or shortened sequence. *)
LEMMA LettersAppend ==
    ASSUME NEW s \in Seq(Letter), NEW x \in Letter
    PROVE  Letters(Append(s, x)) = Letters(s) \cup {x}
  <1>1. /\ Append(s, x) \in Seq(Letter) /\ Len(Append(s, x)) = Len(s) + 1
        /\ \A i \in 1..Len(s) : Append(s, x)[i] = s[i]
        /\ Append(s, x)[Len(s) + 1] = x
    BY AppendProperties
  <1>2. Len(s) \in Nat /\ DOMAIN s = 1..Len(s) /\ DOMAIN Append(s, x) = 1..(Len(s) + 1)
    BY <1>1, LenProperties, Zenon
  <1>3. QED
    BY <1>1, <1>2 DEF Letters

LEMMA LettersConcat ==
    ASSUME NEW s \in Seq(Letter), NEW t \in Seq(Letter)
    PROVE  Letters(s \o t) = Letters(s) \cup Letters(t)
  <1>1. /\ s \o t \in Seq(Letter) /\ Len(s \o t) = Len(s) + Len(t)
        /\ \A i \in 1..(Len(s) + Len(t)) :
              (s \o t)[i] = IF i <= Len(s) THEN s[i] ELSE t[i - Len(s)]
    BY ConcatProperties, Zenon
  <1>2. /\ Len(s) \in Nat /\ DOMAIN s = 1..Len(s)
        /\ Len(t) \in Nat /\ DOMAIN t = 1..Len(t)
        /\ DOMAIN (s \o t) = 1..(Len(s) + Len(t))
    BY <1>1, LenProperties, Zenon
  <1>3. Letters(s \o t) \subseteq Letters(s) \cup Letters(t)
    BY <1>1, <1>2 DEF Letters
  <1>4. Letters(s) \subseteq Letters(s \o t)
    BY <1>1, <1>2 DEF Letters
  <1>5. ASSUME NEW i \in 1..Len(t) PROVE t[i] \in Letters(s \o t)
    <2>1. i + Len(s) \in 1..(Len(s) + Len(t)) /\ (s \o t)[i + Len(s)] = t[i]
      BY <1>1, <1>2
    <2>2. QED
      BY <1>2, <2>1, Zenon DEF Letters
  <1>6. QED
    BY <1>2, <1>3, <1>4, <1>5, Zenon DEF Letters

LEMMA LettersJoined ==
    ASSUME NEW p \in Seq(Letter), NEW q \in Seq(Letter), NEW r \in Seq(Letter), NEW s \in Seq(Letter)
    PROVE  Letters(p \o q \o r \o s) = Letters(p) \cup Letters(q) \cup Letters(r) \cup Letters(s)
  <1>1. p \o q \in Seq(Letter) /\ Letters(p \o q) = Letters(p) \cup Letters(q)
    BY LettersConcat, ConcatProperties, Zenon
  <1>2. p \o q \o r \in Seq(Letter) /\ Letters(p \o q \o r) = Letters(p \o q) \cup Letters(r)
    BY <1>1, LettersConcat, ConcatProperties, Zenon
  <1>3. Letters((p \o q \o r) \o s) = Letters(p \o q \o r) \cup Letters(s)
    BY <1>2, LettersConcat, Zenon
  <1>4. QED
    BY <1>1, <1>2, <1>3, Zenon

(* Joining sequences is associative. *)
LEMMA JoinAssociative ==
    ASSUME NEW p \in Seq(Letter), NEW q \in Seq(Letter), NEW r \in Seq(Letter)
    PROVE  (p \o q) \o r = p \o (q \o r)
  BY ConcatAssociative

(* The first packet of a socket, and a slot with nothing or one packet. *)
LEMMA HeadJoined ==
    ASSUME NEW s \in Seq(Letter), s # <<>>
    PROVE  /\ s = <<Head(s)>> \o Tail(s) /\ Head(s) \in Letter /\ Tail(s) \in Seq(Letter)
           /\ <<Head(s)>> \in Seq(Letter) /\ Len(<<Head(s)>>) = 1
  <1>1. Head(s) \in Letter /\ Tail(s) \in Seq(Letter)
    BY HeadTailProperties, Zenon
  <1>2. QED
    BY <1>1

LEMMA EmptyJoined ==
    ASSUME NEW s \in Seq(Letter)
    PROVE  s \o <<>> = s /\ <<>> \o s = s
  BY ConcatEmptySeq, Zenon

LEMMA LettersOne ==
    ASSUME NEW s \in Seq(Letter), s # <<>>, Len(s) <= 1
    PROVE  s[1] \in Letter /\ Letters(s) = {s[1]}
  <1>1. Len(s) = 1 /\ DOMAIN s = {1}
    BY LenProperties, EmptySeq
  <1>2. s[1] \in Letter
    BY <1>1, ElementOfSeq
  <1>3. QED
    BY <1>1, <1>2, Zenon DEF Letters

LEMMA LettersTail ==
    ASSUME NEW s \in Seq(Letter), s # <<>>
    PROVE  /\ Head(s) \in Letters(s) /\ Letters(Tail(s)) \subseteq Letters(s)
           /\ Letters(s) \subseteq Letter
  <1>1. /\ Tail(s) \in Seq(Letter) /\ Len(Tail(s)) = Len(s) - 1
        /\ \A i \in 1..Len(Tail(s)) : Tail(s)[i] = s[i + 1]
    BY HeadTailProperties, Zenon
  <1>2. Len(s) \in Nat \ {0} /\ DOMAIN s = 1..Len(s)
    BY LenProperties, EmptySeq, Zenon
  <1>3. DOMAIN Tail(s) = 1..(Len(s) - 1)
    BY <1>1, LenProperties, Zenon
  <1>4. Head(s) = s[1] /\ 1 \in DOMAIN s
    BY <1>2
  <1>5. \A i \in DOMAIN s : s[i] \in Letter
    BY <1>2, ElementOfSeq, Zenon
  <1>6. QED
    BY <1>1, <1>2, <1>3, <1>4, <1>5 DEF Letters

(* The invariant holds when the machines start. *)
LEMMA POInitInv == PostOfficeInit => POInv
  <1> SUFFICES ASSUME PostOfficeInit PROVE POInv
    BY Zenon
  <1> USE DEF PostOfficeInit
  <1>0. <<>> \in Seq(Letter) /\ Len(<<>>) = 0 /\ <<>> \o <<>> = <<>>
    BY EmptySeq, ConcatEmptySeq, Zenon
  <1>1. POTypeOK
    BY <1>0, Zenon DEF POTypeOK, NetTypeOK
  <1>2. OneMessageAtATime
    BY DEF OneMessageAtATime
  <1>3. DeliveredOnce
    BY <1>0, Zenon DEF DeliveredOnce
  <1>4. MailHonest
    BY <1>0 DEF MailHonest, SentHonest, BoxesHonest, AckHonest, RoomForOne, Letters
  <1>5. HaltedMeansReceived
    BY Zenon DEF HaltedMeansReceived
  <1>6. QED
    BY <1>1, <1>2, <1>3, <1>4, <1>5, Zenon DEF POInv

-----------------------------------------------------------------------------
(* PostOffice::Send up to the network: a letter that is what letters in    *)
(* its box are joins the socket and sent, or is lost.                      *)
LEMMA StartSendKeeps ==
    ASSUME POInv, NEW m \in NetMachine, NEW to \in NetMachine,
           NEW s \in Clerk \cup {"MailTest"}, NEW x \in Letter, StartSend(m, s, to, x),
           x.box = 0 => x = Hello(x.from) /\ Far(x.from) = to,
           x.box = 1 => Hello(to) \in Letters(put[Far(to)]),
           \A n \in NetMachine : mailTest'[n] = "ack" => mailTest[n] = "ack"
    PROVE  NetTypeOK' /\ OneMessageAtATime' /\ DeliveredOnce' /\ MailHonest'
  <1>0. NetTypeOK /\ OneMessageAtATime /\ DeliveredOnce /\ SentHonest /\ BoxesHonest /\ AckHonest
        /\ RoomForOne
    BY Zenon DEF POInv, POTypeOK, MailHonest
  <1>1. /\ sendLock[m] = "free" /\ sendLock' = [sendLock EXCEPT ![m] = s]
        /\ sendDone' = [sendDone EXCEPT ![m] = @ + 1]
        /\ \/ /\ socket' = [socket EXCEPT ![to] = Append(@, x)]
              /\ sent' = [sent EXCEPT ![to] = Append(@, x)]
           \/ UNCHANGED <<socket, sent>>
        /\ UNCHANGED <<messageSent, messageAvailable, inHdr, worker, boxes, put, inMail>>
    BY <1>0, Zenon DEF StartSend
  <1>2. s # "free"
    BY PostOfficeAssumption, Zenon
  <1>3. socket' \in [NetMachine -> Seq(Letter)] /\ sent' \in [NetMachine -> Seq(Letter)]
    <2>1. Append(socket[to], x) \in Seq(Letter) /\ Append(sent[to], x) \in Seq(Letter)
      BY <1>0, AppendProperties DEF NetTypeOK
    <2>2. socket \in [NetMachine -> Seq(Letter)] /\ sent \in [NetMachine -> Seq(Letter)]
      BY <1>0, Zenon DEF NetTypeOK
    <2>3. QED
      BY <1>1, <2>1, <2>2, Zenon
  <1>4. NetTypeOK'
    <2>1. sendLock' \in [NetMachine -> Clerk \cup {"free", "MailTest"}]
      BY <1>0, <1>1, Zenon DEF NetTypeOK
    <2>2. sendDone' \in [NetMachine -> Nat]
      <3>1. sendDone \in [NetMachine -> Nat]
        BY <1>0, Zenon DEF NetTypeOK
      <3>2. sendDone[m] + 1 \in Nat
        BY <3>1
      <3>3. QED
        BY <1>1, <3>1, <3>2, Zenon
    <2>3. QED
      BY <1>0, <1>1, <1>3, <2>1, <2>2, Zenon DEF NetTypeOK
  <1>5. OneMessageAtATime'
    <2>1. /\ sendLock'[m] = s /\ sendDone'[m] = sendDone[m] + 1 /\ messageSent' = messageSent
          /\ \A n \in NetMachine \ {m} : sendLock'[n] = sendLock[n] /\ sendDone'[n] = sendDone[n]
          /\ sendDone[m] \in Nat /\ messageSent[m] \in Nat
      BY <1>0, <1>1, Zenon DEF NetTypeOK
    <2>2. sendDone[m] + messageSent[m] = 0
      BY <1>0, <1>1, Zenon DEF OneMessageAtATime
    <2>3. QED
      BY <1>0, <1>2, <2>1, <2>2 DEF OneMessageAtATime
  <1>6. DeliveredOnce'
    <2>1. CASE UNCHANGED <<socket, sent>>
      BY <1>0, <1>1, <2>1, Zenon DEF DeliveredOnce
    <2>2. CASE /\ socket' = [socket EXCEPT ![to] = Append(@, x)]
               /\ sent' = [sent EXCEPT ![to] = Append(@, x)]
      <3> DEFINE before == put[to] \o worker[to] \o inHdr[to]
      <3>1. before \in Seq(Letter) /\ socket[to] \in Seq(Letter) /\ <<x>> \in Seq(Letter)
        BY <1>0, ConcatProperties DEF NetTypeOK
      <3>2. sent[to] = before \o socket[to] /\ sent[to] \in Seq(Letter)
        BY <1>0, Zenon DEF DeliveredOnce, NetTypeOK
      <3> HIDE DEF before
      <3>3. Append(sent[to], x) = before \o Append(socket[to], x)
        <4>1. Append(sent[to], x) = sent[to] \o <<x>> /\ Append(socket[to], x) = socket[to] \o <<x>>
          BY <3>1, <3>2, AppendIsConcat, Zenon
        <4>2. (before \o socket[to]) \o <<x>> = before \o (socket[to] \o <<x>>)
          BY <3>1, JoinAssociative, Zenon
        <4>3. QED
          BY <3>2, <4>1, <4>2, Zenon
      <3>4. sent'[to] = Append(sent[to], x) /\ socket'[to] = Append(socket[to], x)
        BY <1>0, <2>2, Zenon DEF NetTypeOK
      <3>5. sent'[to] = put[to] \o worker[to] \o inHdr[to] \o socket'[to]
        BY <1>0, <3>3, <3>4, Zenon DEF before
      <3>6. \A n \in NetMachine \ {to} : sent'[n] = sent[n] /\ socket'[n] = socket[n]
        BY <1>0, <2>2, Zenon DEF NetTypeOK
      <3>7. QED
        BY <1>0, <1>1, <3>5, <3>6, Zenon DEF DeliveredOnce
    <2>3. QED
      BY <1>1, <2>1, <2>2, Zenon
  <1>7. ASSUME NEW n \in NetMachine, NEW y \in Letters(sent'[n])
        PROVE  y \in Letters(sent[n]) \/ (n = to /\ y = x)
    <2>1. CASE sent' = sent
      BY <2>1, <1>7, Zenon
    <2>2. CASE sent' = [sent EXCEPT ![to] = Append(@, x)]
      <3>1. Letters(Append(sent[to], x)) = Letters(sent[to]) \cup {x}
        BY <1>0, LettersAppend, Zenon DEF NetTypeOK
      <3>2. QED
        BY <1>0, <1>7, <2>2, <3>1, Zenon DEF NetTypeOK
    <2>3. QED
      BY <1>1, <2>1, <2>2, Zenon
  <1>8. MailHonest'
    <2>1. ASSUME NEW n \in NetMachine, NEW y \in Letters(sent'[n])
          PROVE  /\ y.box = 0 => y = Hello(y.from) /\ Far(y.from) = n
                 /\ y.box = 1 => Hello(n) \in Letters(put[Far(n)])
      <3>1. CASE y \in Letters(sent[n])
        BY <1>0, <3>1, Zenon DEF SentHonest
      <3>2. CASE n = to /\ y = x
        BY <3>2, Zenon
      <3>3. QED
        BY <1>7, <2>1, <3>1, <3>2, Zenon
    <2>2. SentHonest'
      BY <1>1, <2>1, Zenon DEF SentHonest
    <2>3. BoxesHonest' /\ RoomForOne'
      BY <1>0, <1>1 DEF BoxesHonest, RoomForOne
    <2>4. AckHonest'
      BY <1>0, <1>1, Zenon DEF AckHonest
    <2>5. QED
      BY <2>2, <2>3, <2>4, Zenon DEF MailHonest
  <1>9. QED
    BY <1>4, <1>5, <1>6, <1>8, Zenon

(* messageSent->P and the release of sendLock. *)
LEMMA EndSendKeeps ==
    ASSUME POInv, NEW m \in NetMachine, NEW s \in Clerk \cup {"MailTest"}, EndSend(m, s),
           \A n \in NetMachine : mailTest'[n] = "ack" => mailTest[n] = "ack"
    PROVE  NetTypeOK' /\ OneMessageAtATime' /\ DeliveredOnce' /\ MailHonest'
  <1>0. NetTypeOK /\ OneMessageAtATime /\ DeliveredOnce /\ SentHonest /\ BoxesHonest /\ AckHonest
        /\ RoomForOne
    BY Zenon DEF POInv, POTypeOK, MailHonest
  <1>1. s # "free"
    BY PostOfficeAssumption, Zenon
  <1>2. NetTypeOK'
    <2>1. messageSent[m] - 1 \in Nat
      <3>1. messageSent[m] \in Nat /\ messageSent[m] > 0
        BY <1>0, Zenon DEF EndSend, NetTypeOK
      <3>2. QED
        BY <3>1
    <2>2. messageSent' \in [NetMachine -> Nat]
      BY <1>0, <2>1, Zenon DEF EndSend, NetTypeOK
    <2>3. sendLock' \in [NetMachine -> Clerk \cup {"free", "MailTest"}]
      BY <1>0, Zenon DEF EndSend, NetTypeOK
    <2>4. QED
      BY <1>0, <2>2, <2>3, Zenon DEF EndSend, NetTypeOK
  <1>3. OneMessageAtATime'
    <2>1. /\ sendLock[m] = s /\ sendLock'[m] = "free" /\ sendDone' = sendDone
          /\ messageSent'[m] = messageSent[m] - 1
          /\ \A n \in NetMachine \ {m} :
                sendLock'[n] = sendLock[n] /\ messageSent'[n] = messageSent[n]
          /\ sendDone[m] \in Nat /\ messageSent[m] \in Nat
      BY <1>0, Zenon DEF EndSend, NetTypeOK
    <2>2. sendDone[m] + messageSent[m] = 1
      BY <1>0, <1>1, <2>1, Zenon DEF OneMessageAtATime
    <2>3. QED
      BY <1>0, <2>1, <2>2 DEF OneMessageAtATime
  <1>4. DeliveredOnce'
    BY <1>0, Zenon DEF EndSend, DeliveredOnce
  <1>5. MailHonest'
    <2>1. UNCHANGED <<worker, inHdr, boxes, sent, put, inMail>>
      BY Zenon DEF EndSend
    <2>2. SentHonest' /\ BoxesHonest' /\ RoomForOne'
      BY <1>0, <2>1 DEF SentHonest, BoxesHonest, RoomForOne
    <2>3. AckHonest'
      BY <1>0, <2>1, Zenon DEF AckHonest
    <2>4. QED
      BY <2>2, <2>3, Zenon DEF MailHonest
  <1>6. QED
    BY <1>2, <1>3, <1>4, <1>5, Zenon

(* MailBox::Get, of box 0 for a letter to acknowledge or of box 1. *)
LEMMA GetMailKeeps ==
    ASSUME POInv, NEW m \in NetMachine, NEW b \in Box, GetMail(m, b),
           \A n \in NetMachine : mailTest'[n] = "ack" =>
              (mailTest[n] = "ack" /\ n # m) \/ (n = m /\ b = 0)
    PROVE  /\ NetTypeOK' /\ OneMessageAtATime' /\ DeliveredOnce' /\ MailHonest'
           /\ b = 1 => Hello(m) \in Letters(put[Far(m)])
  <1>0. NetTypeOK /\ OneMessageAtATime /\ DeliveredOnce /\ SentHonest /\ BoxesHonest /\ AckHonest
        /\ RoomForOne
    BY Zenon DEF POInv, POTypeOK, MailHonest
  <1> DEFINE box == boxes[m][b]
             x == Head(box)
  <1>1. /\ box # <<>> /\ inMail' = [inMail EXCEPT ![m] = x]
        /\ boxes' = [boxes EXCEPT ![m][b] = Tail(@)]
        /\ UNCHANGED <<sendLock, messageSent, messageAvailable, sendDone, socket, inHdr, worker,
                       sent, put>>
    BY <1>0, Zenon DEF GetMail
  <1>2. box \in Seq(Letter)
    BY <1>0, Zenon DEF NetTypeOK
  <1>3. x \in Letter /\ Tail(box) \in Seq(Letter)
    BY <1>1, <1>2, HeadTailProperties, Zenon
  <1>4. x \in Letters(box) /\ Letters(Tail(box)) \subseteq Letters(box)
    BY <1>1, <1>2, LettersTail, Zenon
  <1>5. x.box = b /\ x \in Letters(put[m])
    BY <1>0, <1>4, Zenon DEF BoxesHonest, box
  <1>6. /\ inMail'[m] = x /\ \A n \in NetMachine \ {m} : inMail'[n] = inMail[n]
        /\ boxes'[m][b] = Tail(box)
        /\ \A n \in NetMachine, c \in Box : n # m \/ c # b => boxes'[n][c] = boxes[n][c]
    BY <1>0, <1>1, Zenon DEF NetTypeOK
  <1>7. \A n \in NetMachine, c \in Box : Letters(boxes'[n][c]) \subseteq Letters(boxes[n][c])
    BY <1>4, <1>6, Zenon
  <1> HIDE DEF x, box
  <1>8. NetTypeOK'
    <2>1. boxes' \in [NetMachine -> [Box -> Seq(Letter)]]
      BY <1>0, <1>1, <1>3, Zenon DEF NetTypeOK, box
    <2>2. inMail' \in [NetMachine -> Letter \cup {NoMail}]
      BY <1>0, <1>1, <1>3, Zenon DEF NetTypeOK
    <2>3. QED
      BY <1>0, <1>1, <2>1, <2>2, Zenon DEF NetTypeOK
  <1>9. OneMessageAtATime' /\ DeliveredOnce'
    BY <1>0, <1>1, Zenon DEF OneMessageAtATime, DeliveredOnce
  <1>10. MailHonest'
    <2>1. SentHonest' /\ RoomForOne'
      BY <1>0, <1>1, Zenon DEF SentHonest, RoomForOne
    <2>2. BoxesHonest'
      BY <1>0, <1>1, <1>7, Zenon DEF BoxesHonest
    <2>3. AckHonest'
      BY <1>0, <1>1, <1>5, <1>6 DEF AckHonest
    <2>4. QED
      BY <2>1, <2>2, <2>3, Zenon DEF MailHonest
  <1>11. x \in Letters(sent[m])
    <2>1. sent[m] = put[m] \o worker[m] \o inHdr[m] \o socket[m]
      BY <1>0, Zenon DEF DeliveredOnce
    <2>2. Letters(sent[m]) = Letters(put[m]) \cup Letters(worker[m])
                                \cup Letters(inHdr[m]) \cup Letters(socket[m])
      BY <2>1, <1>0, LettersJoined DEF NetTypeOK
    <2>3. QED
      BY <1>5, <2>2, Zenon
  <1>12. b = 1 => Hello(m) \in Letters(put[Far(m)])
    BY <1>0, <1>5, <1>11, Zenon DEF SentHonest
  <1>13. QED
    BY <1>8, <1>9, <1>10, <1>12, Zenon

(* Network::SendDone hands the message from the interrupt to the semaphore. *)
LEMMA SendDoneKeeps ==
    ASSUME POInv, NEW m \in NetMachine, SendDone(m)
    PROVE  NetTypeOK' /\ OneMessageAtATime' /\ DeliveredOnce' /\ MailHonest'
  <1>0. NetTypeOK /\ OneMessageAtATime /\ DeliveredOnce /\ SentHonest /\ BoxesHonest /\ AckHonest
        /\ RoomForOne
    BY Zenon DEF POInv, POTypeOK, MailHonest
  <1>1. NetTypeOK'
    BY <1>0 DEF SendDone, NetTypeOK
  <1>2. OneMessageAtATime'
    <2>1. /\ sendLock' = sendLock
          /\ messageSent'[m] = messageSent[m] + 1 /\ sendDone'[m] = sendDone[m] - 1
          /\ \A n \in NetMachine \ {m} :
                sendDone'[n] = sendDone[n] /\ messageSent'[n] = messageSent[n]
          /\ sendDone[m] \in Nat /\ messageSent[m] \in Nat
      BY <1>0, Zenon DEF SendDone, NetTypeOK
    <2>2. sendDone'[m] + messageSent'[m] = sendDone[m] + messageSent[m]
      BY <2>1
    <2>3. QED
      BY <1>0, <2>1, <2>2, Zenon DEF OneMessageAtATime
  <1>3. DeliveredOnce'
    BY <1>0, Zenon DEF SendDone, DeliveredOnce
  <1>4. UNCHANGED <<mailTest, worker, inHdr, boxes, sent, put, inMail>>
    BY Zenon DEF SendDone
  <1>5. SentHonest' /\ BoxesHonest' /\ RoomForOne' /\ AckHonest'
    BY <1>0, <1>4 DEF SentHonest, BoxesHonest, RoomForOne, AckHonest
  <1>6. QED
    BY <1>1, <1>2, <1>3, <1>5, Zenon DEF MailHonest

(* Network::CheckPktAvail takes the first packet of the socket into an     *)
(* empty slot.                                                             *)
LEMMA CheckPktAvailKeeps ==
    ASSUME POInv, NEW m \in NetMachine, CheckPktAvail(m)
    PROVE  NetTypeOK' /\ OneMessageAtATime' /\ DeliveredOnce' /\ MailHonest'
  <1>0. NetTypeOK /\ OneMessageAtATime /\ DeliveredOnce /\ SentHonest /\ BoxesHonest /\ AckHonest
        /\ RoomForOne
    BY Zenon DEF POInv, POTypeOK, MailHonest
  <1> DEFINE first == <<Head(socket[m])>>
             rest == Tail(socket[m])
             before == put[m] \o worker[m]
  <1>1. /\ inHdr[m] = <<>> /\ socket[m] # <<>>
        /\ inHdr' = [inHdr EXCEPT ![m] = first] /\ socket' = [socket EXCEPT ![m] = rest]
        /\ messageAvailable' = [messageAvailable EXCEPT ![m] = @ + 1]
        /\ UNCHANGED <<mailTest, sendLock, messageSent, sendDone, worker, boxes, sent, put, inMail>>
    BY Zenon DEF CheckPktAvail
  <1>2. /\ socket[m] = first \o rest /\ first \in Seq(Letter) /\ rest \in Seq(Letter)
        /\ Len(first) = 1
    BY <1>0, <1>1, HeadJoined, Zenon DEF NetTypeOK
  <1>3. before \in Seq(Letter)
    BY <1>0, ConcatProperties, Zenon DEF NetTypeOK
  <1>4. sent[m] = (before \o <<>>) \o socket[m]
    BY <1>0, <1>1, Zenon DEF DeliveredOnce
  <1> HIDE DEF first, rest, before
  <1>5. sent[m] = (before \o first) \o rest
    <2>1. before \o <<>> = before
      BY <1>3, EmptyJoined, Zenon
    <2>2. (before \o first) \o rest = before \o (first \o rest)
      BY <1>2, <1>3, JoinAssociative, Zenon
    <2>3. QED
      BY <1>2, <1>4, <2>1, <2>2, Zenon
  <1>6. /\ inHdr'[m] = first /\ socket'[m] = rest
        /\ \A n \in NetMachine \ {m} : inHdr'[n] = inHdr[n] /\ socket'[n] = socket[n]
    BY <1>0, <1>1, Zenon DEF NetTypeOK
  <1>7. NetTypeOK'
    <2>1. socket' \in [NetMachine -> Seq(Letter)] /\ inHdr' \in [NetMachine -> Seq(Letter)]
      BY <1>0, <1>1, <1>2, Zenon DEF NetTypeOK
    <2>2. messageAvailable' \in [NetMachine -> Nat]
      BY <1>0, <1>1 DEF NetTypeOK
    <2>3. QED
      BY <1>0, <1>1, <2>1, <2>2, Zenon DEF NetTypeOK
  <1>8. OneMessageAtATime'
    BY <1>0, <1>1, Zenon DEF OneMessageAtATime
  <1>9. DeliveredOnce'
    <2>1. sent'[m] = put'[m] \o worker'[m] \o inHdr'[m] \o socket'[m]
      BY <1>1, <1>5, <1>6, Zenon DEF before
    <2>2. QED
      BY <1>0, <1>1, <1>6, <2>1, Zenon DEF DeliveredOnce
  <1>10. SentHonest' /\ BoxesHonest' /\ AckHonest'
    BY <1>0, <1>1 DEF SentHonest, BoxesHonest, AckHonest
  <1>11. RoomForOne'
    <2>1. ASSUME NEW n \in NetMachine PROVE Len(worker'[n]) <= 1 /\ Len(inHdr'[n]) <= 1
      <3>1. Len(inHdr'[n]) <= 1
        <4>1. CASE n = m
          <5>1. Len(inHdr'[n]) = 1
            BY <1>2, <1>6, <4>1, Zenon
          <5>2. QED
            BY <5>1
        <4>2. CASE n # m
          BY <1>0, <1>6, <4>2, Zenon DEF RoomForOne
        <4>3. QED
          BY <4>1, <4>2, Zenon
      <3>2. Len(worker'[n]) <= 1
        BY <1>0, <1>1, Zenon DEF RoomForOne
      <3>3. QED
        BY <3>1, <3>2, Zenon
    <2>2. QED
      BY <2>1, Zenon DEF RoomForOne
  <1>12. QED
    BY <1>7, <1>8, <1>9, <1>10, <1>11, Zenon DEF MailHonest

(* Network::Receive empties the slot into the hands of the worker. *)
LEMMA ReceivePacketKeeps ==
    ASSUME POInv, NEW m \in NetMachine, ReceivePacket(m)
    PROVE  NetTypeOK' /\ OneMessageAtATime' /\ DeliveredOnce' /\ MailHonest'
  <1>0. NetTypeOK /\ OneMessageAtATime /\ DeliveredOnce /\ SentHonest /\ BoxesHonest /\ AckHonest
        /\ RoomForOne
    BY Zenon DEF POInv, POTypeOK, MailHonest
  <1>1. /\ worker[m] = <<>> /\ messageAvailable[m] > 0
        /\ worker' = [worker EXCEPT ![m] = inHdr[m]] /\ inHdr' = [inHdr EXCEPT ![m] = <<>>]
        /\ messageAvailable' = [messageAvailable EXCEPT ![m] = @ - 1]
        /\ UNCHANGED <<mailTest, sendLock, messageSent, sendDone, socket, boxes, sent, put, inMail>>
    BY Zenon DEF ReceivePacket
  <1>2. <<>> \in Seq(Letter) /\ Len(<<>>) = 0
    BY EmptySeq, Zenon
  <1>3. /\ worker'[m] = inHdr[m] /\ inHdr'[m] = <<>>
        /\ \A n \in NetMachine \ {m} : inHdr'[n] = inHdr[n] /\ worker'[n] = worker[n]
        /\ put[m] \in Seq(Letter) /\ inHdr[m] \in Seq(Letter)
    BY <1>0, <1>1, Zenon DEF NetTypeOK
  <1>4. put[m] \o worker[m] \o inHdr[m] = put[m] \o worker'[m] \o inHdr'[m]
    <2>1. put[m] \o inHdr[m] \in Seq(Letter)
      BY <1>3, ConcatProperties, Zenon
    <2>2. (put[m] \o inHdr[m]) \o <<>> = put[m] \o inHdr[m] /\ put[m] \o <<>> = put[m]
      BY <1>3, <2>1, EmptyJoined, Zenon
    <2>3. QED
      BY <1>1, <1>3, <2>2, Zenon
  <1>5. NetTypeOK'
    <2>1. worker' \in [NetMachine -> Seq(Letter)] /\ inHdr' \in [NetMachine -> Seq(Letter)]
      BY <1>0, <1>1, <1>2, Zenon DEF NetTypeOK
    <2>2. messageAvailable' \in [NetMachine -> Nat]
      BY <1>0, <1>1 DEF NetTypeOK
    <2>3. QED
      BY <1>0, <1>1, <2>1, <2>2, Zenon DEF NetTypeOK
  <1>6. OneMessageAtATime'
    BY <1>0, <1>1, Zenon DEF OneMessageAtATime
  <1>7. DeliveredOnce'
    <2>1. sent'[m] = put'[m] \o worker'[m] \o inHdr'[m] \o socket'[m]
      BY <1>0, <1>1, <1>4, Zenon DEF DeliveredOnce
    <2>2. QED
      BY <1>0, <1>1, <1>3, <2>1, Zenon DEF DeliveredOnce
  <1>8. SentHonest' /\ BoxesHonest' /\ AckHonest'
    BY <1>0, <1>1 DEF SentHonest, BoxesHonest, AckHonest
  <1>9. RoomForOne'
    BY <1>0, <1>2, <1>3 DEF RoomForOne
  <1>10. QED
    BY <1>5, <1>6, <1>7, <1>8, <1>9, Zenon DEF MailHonest

(* MailBox::Put: what the worker held is in the box its header names. *)
LEMMA PutMailKeeps ==
    ASSUME POInv, NEW m \in NetMachine, PutMail(m)
    PROVE  /\ NetTypeOK' /\ OneMessageAtATime' /\ DeliveredOnce' /\ MailHonest'
           /\ \A n \in NetMachine : Letters(put[n]) \subseteq Letters(put'[n])
  <1>0. NetTypeOK /\ OneMessageAtATime /\ DeliveredOnce /\ SentHonest /\ BoxesHonest /\ AckHonest
        /\ RoomForOne
    BY Zenon DEF POInv, POTypeOK, MailHonest
  <1> DEFINE x == worker[m][1]
  <1>1. /\ worker[m] # <<>>
        /\ boxes' = [boxes EXCEPT ![m][x.box] = @ \o worker[m]]
        /\ put' = [put EXCEPT ![m] = @ \o worker[m]]
        /\ worker' = [worker EXCEPT ![m] = <<>>]
        /\ UNCHANGED <<mailTest, clerk, sendLock, messageSent, messageAvailable, sendDone, socket,
                       inHdr, sent, inMail>>
    BY Zenon DEF PutMail
  <1>2. worker[m] \in Seq(Letter) /\ put[m] \in Seq(Letter) /\ inHdr[m] \in Seq(Letter)
    BY <1>0, Zenon DEF NetTypeOK
  <1>3. x \in Letter /\ Letters(worker[m]) = {x}
    BY <1>0, <1>1, <1>2, LettersOne, Zenon DEF RoomForOne
  <1> HIDE DEF x
  <1>4. x.box \in Box
    BY <1>3, Zenon DEF Letter
  <1> DEFINE held == boxes[m][x.box]
  <1>5. held \in Seq(Letter) /\ held \o worker[m] \in Seq(Letter)
        /\ put[m] \o worker[m] \in Seq(Letter)
    BY <1>0, <1>2, <1>4, ConcatProperties DEF NetTypeOK
  <1>6. /\ Letters(held \o worker[m]) = Letters(held) \cup {x}
        /\ Letters(put[m] \o worker[m]) = Letters(put[m]) \cup {x}
    BY <1>2, <1>3, <1>5, LettersConcat
  <1>7. /\ put'[m] = put[m] \o worker[m] /\ worker'[m] = <<>>
        /\ \A n \in NetMachine \ {m} : put'[n] = put[n] /\ worker'[n] = worker[n]
        /\ boxes'[m][x.box] = held \o worker[m]
        /\ \A n \in NetMachine, c \in Box : n # m \/ c # x.box => boxes'[n][c] = boxes[n][c]
    BY <1>0, <1>1, <1>4, Zenon DEF NetTypeOK
  <1>8. \A n \in NetMachine : Letters(put[n]) \subseteq Letters(put'[n])
    BY <1>6, <1>7, Zenon
  <1>9. NetTypeOK'
    <2>1. put' \in [NetMachine -> Seq(Letter)]
      BY <1>0, <1>1, <1>5, Zenon DEF NetTypeOK
    <2>2. worker' \in [NetMachine -> Seq(Letter)]
      BY <1>0, <1>1, EmptySeq, Zenon DEF NetTypeOK
    <2>3. boxes' \in [NetMachine -> [Box -> Seq(Letter)]]
      BY <1>0, <1>1, <1>4, <1>5, Zenon DEF NetTypeOK
    <2>4. QED
      BY <1>0, <1>1, <2>1, <2>2, <2>3, Zenon DEF NetTypeOK
  <1>10. OneMessageAtATime'
    BY <1>0, <1>1, Zenon DEF OneMessageAtATime
  <1>11. DeliveredOnce'
    <2>1. put'[m] \o worker'[m] = put[m] \o worker[m]
      BY <1>5, <1>7, EmptyJoined, Zenon
    <2>2. ASSUME NEW n \in NetMachine
          PROVE  sent'[n] = put'[n] \o worker'[n] \o inHdr'[n] \o socket'[n]
      <3>1. put'[n] \o worker'[n] = put[n] \o worker[n]
        BY <1>7, <2>1, Zenon
      <3>2. QED
        BY <1>0, <1>1, <3>1, Zenon DEF DeliveredOnce
    <2>3. QED
      BY <2>2, Zenon DEF DeliveredOnce
  <1>12. SentHonest'
    <2>1. ASSUME NEW n \in NetMachine, NEW y \in Letters(sent[n])
          PROVE  /\ y.box = 0 => y = Hello(y.from) /\ Far(y.from) = n
                 /\ y.box = 1 => Hello(n) \in Letters(put'[Far(n)])
      BY <1>0, <1>8, <2>1, FarType, Zenon DEF SentHonest
    <2>2. QED
      BY <1>1, <2>1, Zenon DEF SentHonest
  <1>13. BoxesHonest'
    <2>1. ASSUME NEW n \in NetMachine, NEW c \in Box, NEW y \in Letters(boxes'[n][c])
          PROVE  y.box = c /\ y \in Letters(put'[n])
      <3>1. CASE n = m /\ c = x.box
        <4>1. y \in Letters(held) \/ y = x
          BY <1>6, <1>7, <2>1, <3>1, Zenon
        <4>2. x \in Letters(put'[m])
          BY <1>6, <1>7, Zenon
        <4>3. QED
          BY <1>0, <1>4, <1>8, <3>1, <4>1, <4>2 DEF BoxesHonest
      <3>2. CASE ~(n = m /\ c = x.box)
        <4>1. boxes'[n][c] = boxes[n][c]
          BY <1>7, <3>2, Zenon
        <4>2. y \in Letters(boxes[n][c])
          BY <2>1, <4>1, Zenon
        <4>3. QED
          BY <1>0, <1>8, <4>2, Zenon DEF BoxesHonest
      <3>3. QED
        BY <3>1, <3>2, Zenon
    <2>2. QED
      BY <2>1, Zenon DEF BoxesHonest
  <1>14. AckHonest'
    BY <1>0, <1>1, <1>8, Zenon DEF AckHonest
  <1>15. RoomForOne'
    <2>1. ASSUME NEW n \in NetMachine PROVE Len(worker'[n]) <= 1
      BY <1>0, <1>7, EmptySeq DEF RoomForOne
    <2>2. QED
      BY <1>0, <1>1, <2>1, Zenon DEF RoomForOne
  <1>16. QED
    BY <1>8, <1>9, <1>10, <1>11, <1>12, <1>13, <1>14, <1>15, Zenon DEF MailHonest

(* A step of MailTest: only its last one halts the machine, and then an    *)
(* acknowledgement was in box 1.                                           *)
LEMMA MailTestKeeps ==
    ASSUME POInv, NEW m \in NetMachine, MailTest(m)
    PROVE  POInv'
  <1>0. POTypeOK /\ NetTypeOK /\ DeliveredOnce /\ SentHonest /\ AckHonest /\ HaltedMeansReceived
    BY Zenon DEF POInv, POTypeOK, MailHonest
  <1> DEFINE places == {"hello", "helloSent", "receive0", "ack", "ackSent", "receive1", "halted"}
             Kept == NetTypeOK' /\ OneMessageAtATime' /\ DeliveredOnce' /\ MailHonest'
  <1>1. SUFFICES ASSUME NEW from \in places, NEW to \in places, Goto(m, from, to)
                 PROVE  /\ Kept /\ put' = put
                        /\ to = "halted" => Hello(m) \in Letters(put[Far(m)])
    <2>1. clerk' = clerk /\ \E from, to \in places : Goto(m, from, to)
      BY Zenon DEF MailTest
    <2>2. PICK from \in places, to \in places : Goto(m, from, to)
      BY <2>1, Zenon
    <2>3. /\ mailTest'[m] = to /\ mailTest' \in [NetMachine -> places]
          /\ \A n \in NetMachine \ {m} : mailTest'[n] = mailTest[n]
      BY <1>0, <2>2, Zenon DEF POTypeOK, Goto
    <2>4. Kept /\ put' = put /\ (to = "halted" => Hello(m) \in Letters(put[Far(m)]))
      BY <1>1, <2>2
    <2>5. POTypeOK'
      BY <1>0, <2>1, <2>3, <2>4, Zenon DEF POTypeOK
    <2>6. HaltedMeansReceived'
      <3>1. ASSUME NEW n \in NetMachine, mailTest'[n] = "halted"
            PROVE  \E k \in DOMAIN put[Far(n)] : put[Far(n)][k] = Hello(n)
        <4>1. CASE n = m
          BY <2>3, <2>4, <3>1, <4>1, Zenon DEF Letters
        <4>2. CASE n # m
          BY <1>0, <2>3, <3>1, <4>2, Zenon DEF HaltedMeansReceived
        <4>3. QED
          BY <4>1, <4>2, Zenon
      <3>2. QED
        BY <2>4, <3>1, Zenon DEF HaltedMeansReceived
    <2>7. QED
      BY <2>4, <2>5, <2>6, Zenon DEF POInv
  <1>2. /\ mailTest[m] = from /\ mailTest'[m] = to
        /\ \A n \in NetMachine \ {m} : mailTest'[n] = mailTest[n]
    BY <1>0, <1>1, Zenon DEF POTypeOK, Goto
  <1>3. \/ from = "hello" /\ to = "helloSent" /\ StartSend(m, "MailTest", Far(m), Hello(m))
        \/ from = "helloSent" /\ to = "receive0" /\ EndSend(m, "MailTest")
        \/ from = "receive0" /\ to = "ack" /\ GetMail(m, 0)
        \/ from = "ack" /\ to = "ackSent" /\ StartSend(m, "MailTest", inMail[m].from, Ack(m))
        \/ from = "ackSent" /\ to = "receive1" /\ EndSend(m, "MailTest")
        \/ from = "receive1" /\ to = "halted" /\ GetMail(m, 1)
    BY <1>0, <1>2, Zenon DEF MailTest, Goto, POTypeOK
  <1>4. ASSUME to # "ack"
        PROVE  \A n \in NetMachine : mailTest'[n] = "ack" => mailTest[n] = "ack" /\ n # m
    BY <1>2, <1>4, Zenon
  <1>5. CASE from = "hello" /\ to = "helloSent" /\ StartSend(m, "MailTest", Far(m), Hello(m))
    <2>1. Far(m) \in NetMachine
      BY FarType, Zenon
    <2>2. /\ Hello(m) \in Letter /\ Hello(m).box = 0 /\ Hello(m).from = m
      BY DEF Hello, Letter, Box
    <2>3. Kept
      BY <1>4, <1>5, <2>1, <2>2, StartSendKeeps
    <2>4. QED
      BY <1>5, <2>3, Zenon DEF StartSend
  <1>6. CASE from \in {"helloSent", "ackSent"} /\ to \in {"receive0", "receive1"} /\ EndSend(m, "MailTest")
    <2>1. Kept
      BY <1>4, <1>6, EndSendKeeps, Zenon
    <2>2. QED
      BY <1>6, <2>1, Zenon DEF EndSend
  <1>7. CASE from = "receive0" /\ to = "ack" /\ GetMail(m, 0)
    <2>1. 0 \in Box
      BY DEF Box
    <2>2. \A n \in NetMachine : mailTest'[n] = "ack" => (mailTest[n] = "ack" /\ n # m) \/ (n = m /\ 0 = 0)
      BY <1>2, Zenon
    <2>3. Kept
      BY <1>7, <2>1, <2>2, GetMailKeeps, Zenon
    <2>4. QED
      BY <1>7, <2>3, Zenon DEF GetMail
  <1>8. CASE from = "receive1" /\ to = "halted" /\ GetMail(m, 1)
    <2>1. 1 \in Box
      BY DEF Box
    <2>2. \A n \in NetMachine : mailTest'[n] = "ack" =>
             (mailTest[n] = "ack" /\ n # m) \/ (n = m /\ 1 = 0)
      <3>1. to # "ack"
        BY <1>8, Zenon
      <3>2. QED
        BY <1>4, <3>1, Zenon
    <2>3. Kept /\ (1 = 1 => Hello(m) \in Letters(put[Far(m)]))
      BY <1>8, <2>1, <2>2, GetMailKeeps, Zenon
    <2>4. QED
      BY <1>8, <2>3, Zenon DEF GetMail
  <1>9. CASE from = "ack" /\ to = "ackSent" /\ StartSend(m, "MailTest", inMail[m].from, Ack(m))
    <2> DEFINE in == inMail[m]
    <2>1. in \in Letters(put[m]) /\ in.box = 0
      BY <1>0, <1>2, <1>9, Zenon DEF AckHonest
    <2>2. in \in Letters(sent[m])
      <3>1. Letters(sent[m]) = Letters(put[m]) \cup Letters(worker[m])
                                  \cup Letters(inHdr[m]) \cup Letters(socket[m])
        <4>1. sent[m] = put[m] \o worker[m] \o inHdr[m] \o socket[m]
          BY <1>0, Zenon DEF DeliveredOnce
        <4>2. QED
          BY <1>0, <4>1, LettersJoined DEF NetTypeOK
      <3>2. QED
        BY <2>1, <3>1, Zenon
    <2>3. in = Hello(in.from) /\ Far(in.from) = m
      BY <1>0, <2>1, <2>2, Zenon DEF SentHonest
    <2>4. in.from \in NetMachine
      <3>1. in \in Letter \cup {NoMail} /\ sent[m] \in Seq(Letter)
        BY <1>0, Zenon DEF NetTypeOK
      <3>2. Letters(sent[m]) \subseteq Letter
        BY <2>2, <3>1, LenProperties, ElementOfSeq DEF Letters
      <3>3. QED
        BY <2>2, <3>2, Zenon DEF Letter
    <2>5. in.reply = 1
      BY <2>3 DEF Hello
    <2>6. Ack(m) = [from |-> m, box |-> 1, reply |-> 1, text |-> "ack"]
      BY <2>5, Zenon DEF Ack
    <2>7. Ack(m) \in Letter /\ Ack(m).box = 1
      BY <2>6 DEF Letter, Box
    <2>8. Hello(in.from) \in Letters(put[Far(in.from)])
      BY <2>1, <2>3, Zenon
    <2>9. Kept
      BY <1>4, <1>9, <2>4, <2>7, <2>8, StartSendKeeps
    <2>10. QED
      BY <1>9, <2>9, Zenon DEF StartSend
  <1>10. QED
    BY <1>3, <1>5, <1>6, <1>7, <1>8, <1>9, Zenon

(* The steps of the clerks and of the network leave MailTest where it is. *)
LEMMA ClerkKeeps ==
    ASSUME POInv, NEW m \in NetMachine, NEW c \in Clerk, ClerkSends(c, m)
    PROVE  POInv'
  <1>0. POTypeOK /\ HaltedMeansReceived
    BY Zenon DEF POInv
  <1> DEFINE x == [from |-> m, box |-> 2, reply |-> 2, text |-> c]
             Kept == NetTypeOK' /\ OneMessageAtATime' /\ DeliveredOnce' /\ MailHonest'
  <1>1. mailTest' = mailTest /\ Far(m) \in NetMachine
    BY FarType, Zenon DEF ClerkSends
  <1>2. /\ StartSend(m, c, Far(m), x) \/ EndSend(m, c)
        /\ clerk' = [clerk EXCEPT ![<<c, m>>] = "sending"]
             \/ clerk' = [clerk EXCEPT ![<<c, m>>] = "done"]
    BY Zenon DEF ClerkSends
  <1>3. clerk' \in [Clerk \X NetMachine -> {"ready", "sending", "done"}]
    BY <1>0, <1>2, Zenon DEF POTypeOK
  <1>4. CASE StartSend(m, c, Far(m), x)
    <2>1. x \in Letter /\ x.box # 0 /\ x.box # 1
      BY DEF Letter, Box
    <2>2. Kept /\ put' = put
      BY <1>1, <1>4, <2>1, StartSendKeeps, Zenon DEF StartSend
    <2>3. QED
      BY <1>0, <1>1, <1>3, <2>2, Zenon DEF POInv, POTypeOK, HaltedMeansReceived
  <1>5. CASE EndSend(m, c)
    <2>1. Kept /\ put' = put
      BY <1>1, <1>5, EndSendKeeps, Zenon DEF EndSend
    <2>2. QED
      BY <1>0, <1>1, <1>3, <2>1, Zenon DEF POInv, POTypeOK, HaltedMeansReceived
  <1>6. QED
    BY <1>2, <1>4, <1>5, Zenon

LEMMA DeliverKeeps ==
    ASSUME POInv, NEW m \in NetMachine, Deliver(m)
    PROVE  POInv'
  <1>0. POTypeOK /\ HaltedMeansReceived
    BY Zenon DEF POInv
  <1>1. mailTest' = mailTest /\ clerk' = clerk
    BY Zenon DEF Deliver, SendDone, CheckPktAvail, ReceivePacket, PutMail
  <1>2. NetTypeOK' /\ OneMessageAtATime' /\ DeliveredOnce' /\ MailHonest'
    BY SendDoneKeeps, CheckPktAvailKeeps, ReceivePacketKeeps, PutMailKeeps, Zenon DEF Deliver
  <1>3. \A n \in NetMachine : Letters(put[n]) \subseteq Letters(put'[n])
    <2>1. CASE PutMail(m)
      BY <2>1, PutMailKeeps, Zenon
    <2>2. CASE SendDone(m) \/ CheckPktAvail(m) \/ ReceivePacket(m)
      BY <2>2, Zenon DEF SendDone, CheckPktAvail, ReceivePacket
    <2>3. QED
      BY <2>1, <2>2, Zenon DEF Deliver
  <1>4. ASSUME NEW n \in NetMachine, mailTest'[n] = "halted"
        PROVE  \E k \in DOMAIN put'[Far(n)] : put'[Far(n)][k] = Hello(n)
    <2>1. Hello(n) \in Letters(put[Far(n)])
      BY <1>0, <1>1, <1>4, Zenon DEF HaltedMeansReceived, Letters
    <2>2. Hello(n) \in Letters(put'[Far(n)])
      BY <1>3, <2>1, FarType, Zenon
    <2>3. QED
      BY <2>2, Zenon DEF Letters
  <1>5. QED
    BY <1>0, <1>1, <1>2, <1>4, Zenon DEF POInv, POTypeOK, HaltedMeansReceived

-----------------------------------------------------------------------------
(* POInv is inductive, ... *)
LEMMA POInvStep == POInv /\ [PostOfficeNext]_poVars => POInv'
  <1> SUFFICES ASSUME POInv, [PostOfficeNext]_poVars PROVE POInv'
    BY Zenon
  <1>1. CASE UNCHANGED poVars
    <2>1. POTypeOK' /\ OneMessageAtATime' /\ DeliveredOnce' /\ HaltedMeansReceived'
      BY <1>1 DEF poVars, POInv, POTypeOK, NetTypeOK, OneMessageAtATime, DeliveredOnce,
                  HaltedMeansReceived
    <2>2. MailHonest'
      BY <1>1 DEF poVars, POInv, MailHonest, SentHonest, BoxesHonest, AckHonest, RoomForOne
    <2>3. QED
      BY <2>1, <2>2, Zenon DEF POInv
  <1>2. CASE PostOfficeNext
    BY <1>2, MailTestKeeps, ClerkKeeps, DeliverKeeps, Zenon DEF PostOfficeNext
  <1>3. QED
    BY <1>1, <1>2, Zenon

(* ... so it always holds. *)
THEOREM POInvAlways == PostOfficeSpec => []POInv
  BY POInitInv, POInvStep, PTL DEF PostOfficeSpec

(* sendLock, the interrupt and the semaphore of PostOffice::Send allow one  *)
(* message at a time into the network, however many threads send.          *)
THEOREM SendsOneMessageAtATime == PostOfficeSpec => []OneMessageAtATime
  <1>1. POInv => OneMessageAtATime
    BY Zenon DEF POInv
  <1>2. QED
    BY <1>1, POInvAlways, PTL

(* CheckPktAvail, Receive and the postal worker neither lose, repeat nor    *)
(* reorder a packet that the network did not lose.                         *)
THEOREM DeliversOnceInOrder == PostOfficeSpec => []DeliveredOnce
  <1>1. POInv => DeliveredOnce
    BY Zenon DEF POInv
  <1>2. QED
    BY <1>1, POInvAlways, PTL

(* MailTest halts a machine only after its message reached the other one.   *)
THEOREM HaltsAfterDelivery == PostOfficeSpec => []HaltedMeansReceived
  <1>1. POInv => HaltedMeansReceived
    BY Zenon DEF POInv
  <1>2. QED
    BY <1>1, POInvAlways, PTL
=============================================================================
