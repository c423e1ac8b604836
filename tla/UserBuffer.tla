----------------------------- MODULE UserBuffer -----------------------------
(***************************************************************************)
(* userReadWrite (userprog/exception.cc): the bytes of a Read or Write     *)
(* system call go between a buffer of the kernel and the memory of the     *)
(* process through diskBuffer, one page long and shared by all threads.    *)
(* db_lock is held for each copy into or out of diskBuffer, not for both.  *)
(* AddrSpace::Translate, built without VM, gives the physical address of   *)
(* a chunk; when it fails, the copy is made all the same, with what is in  *)
(* phys_addr.                                                              *)
(***************************************************************************)
EXTENDS Integers, FiniteSets

CONSTANTS
    Thread,         \* one for each process
    PageSize, NumPhysPages,
    numPages,       \* of each address space
    pageTable,      \* the frame of each page of each address space
    Anywhere,       \* what an int that nothing wrote may hold
    Address,        \* virtual addresses where a request may start
    RequestSize     \* sizes of requests in bytes

Page(t) == 0..(numPages[t] - 1)

(* The frames of Memory: no two pages share one. *)
ASSUME UserBufferAssumption ==
    /\ PageSize \in Nat \ {0} /\ NumPhysPages \in Nat
    /\ numPages \in [Thread -> Nat]
    /\ \A t \in Thread : \A v \in Page(t) : pageTable[t][v] \in 0..(NumPhysPages - 1)
    /\ \A t, u \in Thread : \A v \in Page(t), w \in Page(u) :
          pageTable[t][v] = pageTable[u][w] => t = u /\ v = w
    /\ Anywhere \subseteq Int
    /\ Address \subseteq Nat
    /\ RequestSize \subseteq Nat \ {0} /\ \E n \in RequestSize : \A m \in RequestSize : m <= n

VARIABLES
    preemptive,     \* nachos -rs
    at,             \* where in userReadWrite a thread is
    request,        \* [type, vaddr, size]
    vaddr, phys_addr, bytes_read, bytes_wrote, read, mem_buffer,   \* local variables
    mainMemory,
    buffer,         \* of the kernel, on the stack of each thread
    diskBuffer,
    failed          \* threads with a call that left its address space

ubVars == <<preemptive, at, request, vaddr, phys_addr, bytes_read, bytes_wrote, read,
            mem_buffer, mainMemory, buffer, diskBuffer, failed>>

Smaller(m, n) == IF m < n THEN m ELSE n
Largest(S) == CHOOSE n \in S : \A m \in S : m <= n

(* Every byte is told from every other by who put it where; Junk is what    *)
(* lies behind diskBuffer and mainMemory.                                   *)
Junk == <<"junk", 0>>
Data(t, k) == <<t, k>>
Old(p) == <<"memory", p>>

PhysicalAddress == 0..(NumPhysPages * PageSize - 1)

(* Where an address of the process of t is. *)
Phys(t, a) == (pageTable[t][a \div PageSize] * PageSize) + (a % PageSize)

UserBufferInit ==
    /\ preemptive \in BOOLEAN
    /\ at = [t \in Thread |-> "user"]
    /\ request = [t \in Thread |-> [type |-> 0, vaddr |-> 0, size |-> 0]]
    /\ vaddr = [t \in Thread |-> 0]
    /\ phys_addr = [t \in Thread |-> 0]
    /\ bytes_read = [t \in Thread |-> 0]
    /\ bytes_wrote = [t \in Thread |-> 0]
    /\ read = [t \in Thread |-> 0]
    /\ mem_buffer = [t \in Thread |-> 0]
    /\ mainMemory = [p \in PhysicalAddress |-> Old(p)]
    /\ buffer = [t \in Thread |-> [k \in 0..(Largest(RequestSize) - 1) |-> Data(t, k)]]
    /\ diskBuffer = [b \in 0..(PageSize - 1) |-> Junk]
    /\ failed = {}

-----------------------------------------------------------------------------
(* Without time slices a call is not interrupted. *)
HasCPU(t) == preemptive \/ \A u \in Thread \ {t} : at[u] \in {"user", "done"}

(* WriteHandler returns at once if Translate does not take the address.    *)
Enter(t) ==
    /\ at[t] = "user" /\ HasCPU(t)
    /\ \E type \in {0, 1}, a \in Address, size \in RequestSize :
          /\ type = 1 => a \div PageSize <= numPages[t]
          /\ request' = [request EXCEPT ![t] = [type |-> type, vaddr |-> a, size |-> size]]
          /\ vaddr' = [vaddr EXCEPT ![t] = a]
          /\ at' = [at EXCEPT ![t] = IF type = 0 THEN "fill" ELSE "translate"]
    /\ \E p \in Anywhere : phys_addr' = [phys_addr EXCEPT ![t] = p]
    /\ UNCHANGED <<preemptive, bytes_read, bytes_wrote, read, mem_buffer, mainMemory, buffer,
                   diskBuffer, failed>>

(* AddrSpace::Translate of vaddr.  Its test lets the page behind the last   *)
(* one pass, whose entry may say anything; it fails for one further off.    *)
Translate(t) ==
    LET vpn == vaddr[t] \div PageSize
        behind == IF vpn = numPages[t] THEN Anywhere ELSE {}
    IN  /\ at[t] = "translate" /\ HasCPU(t)
        /\ IF vpn < numPages[t]
           THEN /\ phys_addr' = [phys_addr EXCEPT ![t] = Phys(t, vaddr[t])]
                /\ UNCHANGED failed
           ELSE /\ \E p \in behind \cup {phys_addr[t]} :
                      phys_addr' = [phys_addr EXCEPT ![t] = p]
                /\ failed' = failed \cup {t}
        /\ at' = [at EXCEPT ![t] = IF request[t].type = 0 THEN "empty" ELSE "fill"]
        /\ UNCHANGED <<preemptive, request, vaddr, bytes_read, bytes_wrote, read, mem_buffer,
                       mainMemory, buffer, diskBuffer>>

Room(t) == PageSize - (vaddr[t] % PageSize)

(* The bytes moved at once: as many as the page has room for, or the whole  *)
(* request, never just what is left of it.                                  *)
write_size(t) == IF request[t].size > Room(t) THEN Room(t) ELSE request[t].size

(* Mutant of ReadFill: every chunk is the first one. *)
ReadFillFirst(t) ==
    LET n == Smaller(request[t].size - bytes_read[t], PageSize)
    IN  /\ at[t] = "fill" /\ request[t].type = 0 /\ HasCPU(t)
        /\ diskBuffer' = [b \in DOMAIN diskBuffer |->
              IF b < n THEN buffer[t][b] ELSE diskBuffer[b]]
        /\ read' = [read EXCEPT ![t] = n]
        /\ bytes_read' = [bytes_read EXCEPT ![t] = @ + n]
        /\ bytes_wrote' = [bytes_wrote EXCEPT ![t] = 0]
        /\ mem_buffer' = [mem_buffer EXCEPT ![t] = 0]
        /\ at' = [at EXCEPT ![t] = "translate"]
        /\ UNCHANGED <<preemptive, request, vaddr, phys_addr, mainMemory, buffer, failed>>

(* Type 0: a chunk from the buffer into diskBuffer... *)
ReadFill(t) ==
    LET n == Smaller(request[t].size - bytes_read[t], PageSize)
    IN  /\ at[t] = "fill" /\ request[t].type = 0 /\ HasCPU(t)
        /\ diskBuffer' = [b \in DOMAIN diskBuffer |->
              IF b < n THEN buffer[t][bytes_read[t] + b] ELSE diskBuffer[b]]
        /\ read' = [read EXCEPT ![t] = n]
        /\ bytes_read' = [bytes_read EXCEPT ![t] = @ + n]
        /\ bytes_wrote' = [bytes_wrote EXCEPT ![t] = 0]
        /\ mem_buffer' = [mem_buffer EXCEPT ![t] = 0]
        /\ at' = [at EXCEPT ![t] = "translate"]
        /\ UNCHANGED <<preemptive, request, vaddr, phys_addr, mainMemory, buffer, failed>>

(* ...and from there to one page after the other; outside mainMemory       *)
(* nothing is modelled.                                                    *)
ReadEmpty(t) ==
    LET n == write_size(t)
        to == phys_addr[t]..(phys_addr[t] + n - 1)
        from(p) == mem_buffer[t] + p - phys_addr[t]
    IN  /\ at[t] = "empty" /\ request[t].type = 0 /\ HasCPU(t)
        /\ mainMemory' = [p \in PhysicalAddress |->
              CASE p \notin to -> mainMemory[p]
                [] p \in to /\ from(p) < PageSize -> diskBuffer[from(p)]
                [] OTHER -> Junk]
        /\ bytes_wrote' = [bytes_wrote EXCEPT ![t] = @ + n]
        /\ mem_buffer' = [mem_buffer EXCEPT ![t] = @ + n]
        /\ vaddr' = [vaddr EXCEPT ![t] = @ + n]
        /\ at' = [at EXCEPT ![t] =
              CASE bytes_wrote[t] + n < read[t] -> "translate"
                [] bytes_wrote[t] + n >= read[t] /\ bytes_read[t] < request[t].size -> "fill"
                [] OTHER -> "done"]
        /\ UNCHANGED <<preemptive, request, phys_addr, bytes_read, read, buffer, diskBuffer,
                       failed>>

(* Type 1: what is left of the page, and no more than is left to move. *)
read_size(t) == Smaller(Smaller(write_size(t), request[t].size - bytes_read[t]), PageSize)

WriteFill(t) ==
    LET from(b) == phys_addr[t] + b
    IN  /\ at[t] = "fill" /\ request[t].type = 1 /\ HasCPU(t)
        /\ diskBuffer' = [b \in DOMAIN diskBuffer |->
              CASE b >= read_size(t) -> diskBuffer[b]
                [] b < read_size(t) /\ from(b) \in PhysicalAddress -> mainMemory[from(b)]
                [] OTHER -> Junk]
        /\ read' = [read EXCEPT ![t] = read_size(t)]
        /\ vaddr' = [vaddr EXCEPT ![t] = @ + read_size(t)]
        /\ bytes_read' = [bytes_read EXCEPT ![t] = @ + read_size(t)]
        /\ at' = [at EXCEPT ![t] = "empty"]
        /\ UNCHANGED <<preemptive, request, phys_addr, bytes_wrote, mem_buffer, mainMemory,
                       buffer, failed>>

WriteEmpty(t) ==
    LET start == bytes_read[t] - read[t]
    IN  /\ at[t] = "empty" /\ request[t].type = 1 /\ HasCPU(t)
        /\ buffer' = [buffer EXCEPT ![t] = [k \in DOMAIN @ |->
              IF k \in start..(bytes_read[t] - 1) THEN diskBuffer[k - start] ELSE @[k]]]
        /\ at' = [at EXCEPT ![t] =
              IF bytes_read[t] < request[t].size THEN "translate" ELSE "done"]
        /\ UNCHANGED <<preemptive, request, vaddr, phys_addr, bytes_read, bytes_wrote, read,
                       mem_buffer, mainMemory, diskBuffer, failed>>

UserBufferNext ==
    \E t \in Thread : \/ Enter(t) \/ Translate(t)
                      \/ ReadFill(t) \/ ReadEmpty(t) \/ WriteFill(t) \/ WriteEmpty(t)

UserBufferSpec == UserBufferInit /\ [][UserBufferNext]_ubVars

-----------------------------------------------------------------------------
(* The address space of a thread and what it holds. *)
UserAddress(t) == 0..(numPages[t] * PageSize - 1)
UserByte(t, a) == mainMemory[Phys(t, a)]

(* The addresses of a request, those of them that the call is to write, and *)
(* the requests that the code cuts right: inside one page, or of whole      *)
(* pages.                                                                   *)
Asked(t) == request[t].vaddr..(request[t].vaddr + request[t].size - 1)
Written(t) == IF request[t].type = 0 THEN Asked(t) ELSE {}

OnePage(t) == (request[t].vaddr % PageSize) + request[t].size <= PageSize

Regular(t) ==
    OnePage(t) \/ (request[t].vaddr % PageSize = 0 /\ request[t].size % PageSize = 0)

Served(t) == request[t].type = 1 \/ Regular(t)

(* No Read, of any thread, went on after Translate failed. *)
NoStrayStore == \A t \in failed : request[t].type = 1

(* A Write call and a regular Read call for addresses of the process never  *)
(* copy with an address Translate did not give.  Unless some Read does, no  *)
(* call changes a byte of a process that it was not asked to write, be it   *)
(* of its own or of another, also when other threads use diskBuffer at the  *)
(* same time or run between Translate and the copy.  While nobody           *)
(* interrupts it, a Write hands the kernel the bytes that are in the memory *)
(* of the process, in order, at any alignment, and a regular Read puts      *)
(* those of the kernel where they were asked for.                           *)
TransferExact ==
    \A t \in Thread : Served(t) =>
        /\ Asked(t) \subseteq UserAddress(t) => t \notin failed
        /\ NoStrayStore =>
              /\ \A a \in UserAddress(t) \ Written(t) : UserByte(t, a) = Old(Phys(t, a))
              /\ ~preemptive /\ at[t] = "done" /\ t \notin failed =>
                    \A k \in 0..(request[t].size - 1) :
                        buffer[t][k] = UserByte(t, request[t].vaddr + k)

(* The inductive invariant behind it: what may be in the variables, ... *)
UBTypeOK ==
    /\ at \in [Thread -> {"user", "fill", "translate", "empty", "done"}]
    /\ request \in [Thread -> [type : {0, 1}, vaddr : Nat, size : Nat]]
    /\ vaddr \in [Thread -> Nat] /\ phys_addr \in [Thread -> Int]
    /\ bytes_read \in [Thread -> Nat] /\ bytes_wrote \in [Thread -> Nat]
    /\ read \in [Thread -> Nat] /\ mem_buffer \in [Thread -> Nat]
    /\ DOMAIN mainMemory = PhysicalAddress /\ DOMAIN buffer = Thread
    /\ \A t \in Thread : DOMAIN buffer[t] = 0..(Largest(RequestSize) - 1)
    /\ DOMAIN diskBuffer = 0..(PageSize - 1)
    /\ failed \subseteq Thread

(* ... the bytes that went all the way, when some are in diskBuffer, ... *)
Filled(t) == at[t] = "empty" \/ (at[t] = "translate" /\ request[t].type = 0)
Moved(t) == bytes_read[t] - (IF Filled(t) THEN read[t] ELSE 0)

(* ... a call moves at most what was asked for, a page at a time, ... *)
Progress(t) ==
    /\ at[t] = "user" => bytes_read[t] = 0 /\ request[t].size = 0 /\ t \notin failed
    /\ at[t] # "user" => request[t].vaddr \in Address /\ request[t].size \in RequestSize
    /\ at[t] \in {"fill", "translate"} /\ ~Filled(t) => bytes_read[t] < request[t].size
    /\ Filled(t) => 0 < read[t] /\ read[t] <= bytes_read[t] /\ read[t] <= PageSize
    /\ at[t] = "done" => bytes_read[t] = request[t].size
    /\ bytes_read[t] <= request[t].size

(* ... after Translate, until the copy, phys_addr is right, and what has    *)
(* been copied lies in the address space, unless Translate failed, ...      *)
Translated(t) == at[t] = IF request[t].type = 0 THEN "empty" ELSE "fill"
Located(t) ==
    t \notin failed =>
        /\ Translated(t) => /\ vaddr[t] \div PageSize < numPages[t]
                            /\ phys_addr[t] = Phys(t, vaddr[t])
        /\ at[t] # "user" /\ vaddr[t] # request[t].vaddr =>
              vaddr[t] <= numPages[t] * PageSize

(* ... a Write and a regular Read keep vaddr in step with the bytes moved,  *)
(* and what a regular Read puts into diskBuffer fits into the page, ...     *)
InStep(t) ==
    Served(t) =>
        /\ at[t] # "user" =>
              vaddr[t] = request[t].vaddr + (IF request[t].type = 1 THEN bytes_read[t] ELSE Moved(t))
        /\ request[t].type = 0 /\ Filled(t) =>
              mem_buffer[t] = 0 /\ bytes_wrote[t] = 0 /\ write_size(t) = read[t]
        /\ request[t].type = 0 => IF OnePage(t)
              THEN /\ at[t] = "fill" => bytes_read[t] = 0
                   /\ Filled(t) => bytes_read[t] = request[t].size
              ELSE /\ request[t].size % PageSize = 0 /\ vaddr[t] % PageSize = 0
                   /\ (request[t].size - bytes_read[t]) % PageSize = 0

(* ... and stay in the address space if it has all that was asked for, ...  *)
StaysInside(t) == Served(t) /\ Asked(t) \subseteq UserAddress(t) => t \notin failed

(* ... what is not to be written is as it was, ... *)
Untouched(t) ==
    Served(t) => \A a \in UserAddress(t) \ Written(t) : UserByte(t, a) = Old(Phys(t, a))

(* ... and, where nobody else uses diskBuffer, it holds the next bytes.    *)
Copied(t) ==
    /\ \A k \in 0..(Moved(t) - 1) : buffer[t][k] = UserByte(t, request[t].vaddr + k)
    /\ Filled(t) => \A b \in 0..(read[t] - 1) :
          diskBuffer[b] = IF request[t].type = 0 THEN buffer[t][Moved(t) + b]
                          ELSE UserByte(t, request[t].vaddr + Moved(t) + b)

UBInv ==
    /\ UBTypeOK
    /\ \A t \in Thread : Progress(t) /\ Located(t) /\ InStep(t) /\ StaysInside(t)
    /\ NoStrayStore => \A t \in Thread : Untouched(t)
    /\ ~preemptive =>
          /\ \A t, u \in Thread : t # u /\ at[t] \notin {"user", "done"} => at[u] \in {"user", "done"}
          /\ NoStrayStore => \A t \in Thread : Served(t) /\ t \notin failed => Copied(t)
=============================================================================
