# A TLA+ verification of the CS270 Nachos kernel

The repository is a Nachos kernel: a C++ operating system that runs in one UNIX
process on a simulated MIPS machine, extended with locks and conditions,
processes and system calls, page management, virtual memory with a swap file and
a larger file system. This directory holds TLA+ modules translated from the code
under `src/code`, the TLC runs that check them on small instances, and TLAPS
proofs of the properties that matter most. Paths below are relative to
`src/code`.

## The system and its parts

| part | code | state | what changes it | modules |
|---|---|---|---|---|
| threads, dispatcher | `threads/thread.cc`, `scheduler.cc` | current thread, ready list, statuses, `threadToBeDestroyed` | Fork, Yield, Sleep, Finish, Run, time slices | `Scheduler` |
| semaphores, locks, conditions | `threads/synch.cc` | values, owners, wait queues | P, V, Acquire, Release, Wait, Signal, Broadcast | `Synch` |
| lists | `threads/list.cc`, `synchlist.cc` | elements and their pointers; a lock and a condition | Append, Prepend, SortedInsert, Remove | `LinkedList` implements `ListContents`; `SynchList` implements `Queue` |
| clock, timer, console, disk timing | `machine/interrupt.cc`, `timer.cc`, `console.cc`, `disk.cc` | clock, pending list, device registers | OneTick, Idle, the devices' handlers | `Devices` |
| process table | `userprog/ProcessManager.cc`, `PCB.cc`, `exception.cc` | pids, PCBs, join counts, locks, conditions | Exec, Fork, Join, Exit | `Processes` |
| page frames | `userprog/MemoryManager.cc`, `addrspace.cc` | bitmap, `mem_lock`, page tables | construction, Clone, destruction | `Memory` |
| programs on disk | `bin/coff2noff.c`, `userprog/addrspace.cc` | sections, NOFF file, memory image | conversion, ReadFile | `Loader` |
| virtual memory | `vm/*.cc`, `addrspace.cc` | LRU list, swap file, page tables | page faults, Clone, Exit | `VirtualMemory` |
| transfers of Read and Write | `userprog/exception.cc`, `addrspace.cc` | `diskBuffer`, `mainMemory` | userReadWrite | `UserBuffer` |
| open files of processes | `filesys/SysOpenFile.cc`, `exception.cc` | system table, tables of the PCBs | Open, Read, Write, Close, Exit | `OpenFiles` |
| disk requests | `filesys/synchdisk.cc`, `machine/disk.cc` | sectors, `active`, semaphore | requests, interrupt | `SynchDisk` implements `AtomicDisk` |
| file system | `filesys/filesys.cc`, `directory.cc`, `filehdr.cc` | directory, headers, free map, on disk | Create, Remove, a crash | `FileSystem`, `FileHeader` |
| bytes of a file | `filesys/openfile.cc`, `filehdr.cc` | header, sectors, position | ReadAt, WriteAt, extension | `OpenFile`, `FileHeader` |
| network, mail | `machine/network.cc`, `network/post.cc`, `nettest.cc` | packets, mailboxes, send lock | Send, Receive, PostalDelivery, interrupts | `PostOffice` |
| simulated CPU | `machine/mipssim.cc`, `machine.cc`, `translate.cc` | registers, memory, page table | OneInstruction, exceptions | `Machine`, `MipsWord` |
| reference interpreter | `bin/execute.c` | registers, flat memory | runprogram | `Execute`, compared in `MachineImplements` |

`PROJECT.json` lists every part with its status, the correspondence of every
definition with source lines, and the hazards at the lines where they bite.

## How the models correspond to the code

Nachos has one CPU. Simulated time, and so the timer and all device interrupts,
advances only when interrupts are re-enabled or after a user instruction. A
kernel thread can lose the CPU only there, when it sleeps, or when it yields.
The code between two such points is therefore one step of a model. Time slices
exist only when the kernel is started with `-rs`; several modules have a variable
for that flag (`randomYield`, `preemptive`, `timeSlices`), chosen at the start
and never changed, since much of this kernel behaves differently with and without
it. A property whose name begins with `Flat` is claimed without the flag only.

**`Scheduler`.** `currentThread`, `readyList`, `status`, `threadToBeDestroyed`
and the interrupt `level` are the variables of the code; `resume` tells from
which call a thread gave up the CPU (never ran, Yield, Sleep), because a thread
that never ran starts in `ThreadRoot` and does not execute the end of
`Scheduler::Run`, where a finished thread is deleted. Thread objects are heap
addresses, used again after deletion. `Wake`, `WakeThenSleep` and
`EnableInterrupts` are what the synchronisation routines and interrupt handlers
do to the scheduler.

**`Synch`** extends `Scheduler`. Threads are the most general client: the
running thread calls any routine on any object, finishes with locks held, and
handlers call V at any time. The uninitialised `currentTh` of a new `Lock` has
an arbitrary value. `call` is the routine a thread sleeps in; `owners` records
who is between Acquire and Release and is only observed.

**`LinkedList`** has the elements of `List` as heap cells with a `next` pointer;
`first` and `last` are the members. Each routine is one action on the pointers,
and `returned` is its result. `Chain` reads the list off the pointers, and
`ListContents` says what `list.h` promises of a sequence sorted by key.

**`SynchList`** has a step for each thing a thread does to the lock, the condition
or the list. A thread that is woken competes with newcomers for the lock. `Queue`
is a queue whose calls take effect at one moment.

**`Devices`** has the clock, the sorted list of pending interrupts, and the four
devices that put interrupts there: the timer, the console's input and output, and
the disk with its seek, rotation and track buffer. `phase` follows OneTick,
CheckIfDue and Idle; time passes when interrupts are enabled, after a user
instruction, and once more when a thread returns from the Yield a timer interrupt
asked for. One thread runs `ConsoleTest`, another makes disk requests,
a third only uses up time. `CheckIfDue` handles one interrupt for each step.

**`Processes`** models `ProcessManager` and the system calls Exec, Fork, Join,
Exit and Yield. `pc` names the routine a thread executes next, or the lock
inside it that it acquires next. Acquiring a lock and going on is one step: until
then the other threads can only wait for that lock. Places where a routine uses
a table entry after releasing the lock are steps of their own (`ReadStatus`,
`ReadJoins`, `ClearBit`). `fault` becomes TRUE when the kernel calls through a NULL or
deleted lock or PCB, or stores at index -1; nothing happens afterwards. `joined`
is the program Join found under its pid, `exiting` the programs that called
Exit; both are only observed by properties (`exiting` also tells where a routine
shared by Join and Exit returns to). Locks are mutexes, which `LockExcludes`
justifies.

**`Memory`** models `MemoryManager` and the sequences of its calls in
`AddrSpace`. Each call is a step. Without time slices a sequence is not
interrupted, unless it waits for `mem_lock`. The early return of `clearPage`
keeps the lock, as the code does.

**`Loader`** follows a program from its COFF sections through the conversion of
`coff2noff` to the loop of `ReadFile`, in its two variants (with and without
virtual memory). A byte is its section and offset, so that a byte in the wrong
place is seen.

**`VirtualMemory`** has the page tables, the LRU list with its `tail`, the swap
file searched by pid and page, and the two ways of freeing frames at exit.
Contents are tokens; `written` is what each process last stored. `strayed`
records that a dirty victim was written back under the pid of the process that
faulted, as `VMManager.cc:238` does. `fault` stands for `ASSERT(false)` in
`writePage` and for following a NULL tail.

**`UserBuffer`** models the two loops of `userReadWrite` over the one
`diskBuffer`, in the build without virtual memory. Filling `diskBuffer`, emptying
it and the call of `AddrSpace::Translate` before the copy from or to `mainMemory`
are separate steps, since `db_lock->Acquire` lies between them. Translate lets the
page behind the last one pass (`vpn > numPages`), whose table entry is arbitrary,
and leaves `phys_addr` alone when it fails; the caller does not look at its result
and copies all the same. `failed` records that a call got there. `Regular` describes
the Reads whose chunks the code computes rightly. Memory is physical, so a copy to
a wrong address is seen in whichever process it hits.

**`OpenFiles`** models `SysOpenFileManager` with the tables of the PCBs. Steps
end where a call waits for the disk or for the lock of a file. `spans` collects
the byte ranges of the writes of each entry; a write may store less than it was
asked to, and the position moves by what it stored. `lost` records that an entry was
left behind (Exit closes no files), `crashed` that the kernel followed a NULL
entry.

**`SynchDisk`** models `ReadSector` and `WriteSector` with the disk's completion
interrupt. **`AtomicDisk`** is what callers may assume. The refinement maps a
call to "applied" when the request has been made.

**`FileSystem`** has the disk as sectors that hold headers, bitmap, directory
entries or data. Create and Remove compute, as the code does, a list of sector
writes in order (`pending`), which `WriteSector` performs one by one and a
`Crash` cuts off. `torn` records a crash between the directory and the map,
`expanded` a directory that grew. `FileHeader` holds the allocation of direct
sectors and pointer blocks; the blocks take sectors that the test for free space
does not count, so on a nearly full disk `BitMap::Find` returns -1 and a header
gets -1 for a sector. A header on disk holds addresses of pointer blocks in memory,
which are `dangling` once Nachos has stopped. Remove reads what the sector of the
entry holds as a header; where that is something else, or its pointers dangle, the
outcome is arbitrary and the model ends (`misread`). Where Deallocate meets a -1
its ASSERT stops Nachos, which is a `Restart`. **`OpenFile`** has the bytes of one file: partial
sectors are read first, writes past the end extend the file. `wild` records that
a byte was addressed for which the header has no sector.

**`PostOffice`** has, for each machine, the network device with one buffered
packet, the postal worker, the mailboxes, and the threads that send. Packets are
lost at will unless `reliable`.

**`Machine`** runs an arbitrary program: each step executes any word of a small
set (`Instr`) that address translation lets the CPU fetch, with delayed loads,
branch slots and exceptions. `ExceptionHandler` does to the machine what the kernel
does: a page fault makes the page present; a system call ends the program or leaves
any result in register 2, makes the pages of its buffer present, for Read also
dirty and with other contents, clears the use bits and moves past the instruction;
anything else is an ASSERT. A load in progress arrives before it. A word has four bytes of `ByteBits` bits each, so that all carries
and signs occur on small numbers. `Execute` is the flat interpreter of
`bin/execute.c`, and `Comparable` in `MachineImplements` names the instructions
for which the two programs agree.

## Runs

Components that share no state are checked in one run: the MC module extends all
of them, and a variable `part`, chosen at the start, names the one that moves
while the others rest in their initial state. The states of the run are the sum,
not the product, of those of its parts, and each part behaves exactly as its own
specification says; an invariant or action property of a part at rest holds as
it does initially.

| run | parts and instance | properties |
|---|---|---|
| `scheduler` | 3 thread addresses | `ReadyListSound`, `SafeDestroy`, `ReadyEventuallyRuns` |
| | 4 threads on a SynchList, 2 items | `NoSleepOverItems`, `ImplementsQueue` |
| | 2 machines, each with MailTest and another sender | `OneMessageAtATime`, `DeliveredOnce`, `HaltedMeansReceived`, `MailTestEnds` |
| `synch` | 4 threads, a lock, a condition, a semaphore up to 2 | `MutualExclusion`, `WaitersServed`, `SchedSpec` |
| `processes` | 3 programs, 3 pids, the first joins | `NoFault`, `FlatJoinNotEarly`, `FlatJoinGetsStatus`, `FlatJoinReturns` |
| | 2 threads with address spaces of 3 and 1 pages of 3 bytes, requests of 2, 3 or 6 bytes | `TransferExact` |
| `memory` | 3 spaces of 1 or 2 pages, 4 frames | `FramesKept`, `FlatExitCompletes` |
| | 3 pids, spaces of 1, 2 or 4 pages, 3 frames, 4 swap slots | `BookkeepingExact`, `Coherent` |
| | programs of all section sizes around a page of 3 bytes | `LoadedExact` |
| | lists of up to 3 elements with 3 keys | `ImplementsContents` |
| `storage` | 3 threads, 2 sectors, 2 contents | `WaitsForItsInterrupt`, `ImplementsAtomicDisk`, `SomeCallReturns` |
| | 3 names, files of 0, 2 or 5 sectors, pointer blocks of 2, a directory of 2 entries, 13 sectors, 6 calls | `FilesSurvive`, `MapExact` |
| | a file of 0, 2 or 7 bytes in sectors of 3, 3 writes of 1 or 4 bytes | `ReadsBack`, `SectorsOwned` |
| `machine` | up to 2 instructions, of every opcode and function code, from 4 register files and 2 page tables | `ImplementsExecute`, `Restartable`, `MultIsProduct`, `CleanPagesUnchanged` |
| | timer off, regular or random, 2 typed characters, 3 disk sectors | `PendingSound`, `HaltsWhenDone`, `EchoesAll`, `DiskOnTime` |
| | 2 processes, 2 files, a table of 2 entries | `FilesResolve`, `WritesApart` |

What they show, in words:

- *Threads and messages.* The ready list is exactly the READY threads; only dead
  threads are deleted; every ready thread runs. SynchList is a queue and nobody
  sleeps beside an item, although newcomers overtake woken threads. A packet that
  is not lost is put in its box once and in order; a machine that halted has
  received what it was sent; without losses the mail test ends.
- *Synchronisation.* Locks exclude, every sleeper is queued where it will be
  found, and the routines use the scheduler as its specification allows.
- *System calls.* Without time slices Join is never early, returns the right status,
  always returns, and nothing missing is used. Write,
  at any alignment, and a Read inside a page or of whole pages move exactly the bytes
  they were asked for and, also with `-rs`, change no other byte of any process; a
  call whose addresses the process has never meets a failing Translate.
- *Memory.* Frames are neither shared nor lost; an exit completes. Under virtual
  memory the page tables, the bitmap, the swap file and, until a process exits,
  the LRU list agree, and a page holds what was last stored there unless a dirty
  page was written back for the wrong process, which cannot happen to a process
  alone. A program is loaded where its linker put it, below its stack. The
  pointers of List implement a sorted sequence and leak nothing.
- *Storage.* Threads see an atomic disk and traffic goes on. Completed files
  survive a crash in an operation on another one; between operations the free map
  is exact, also on a full disk, and the system's own sectors are never given away. A byte reads back as written while the file grows.
- *Machine.* The CPU agrees with the flat interpreter wherever the two programs
  mean the same; an instruction that traps can be started again, and a system call
  goes on behind itself with no load lost; Mult is
  multiplication; a clean page is unchanged. No interrupt is late and the machine
  halts only when nobody waits. Every typed character is echoed; the disk's data
  has passed the head when the interrupt comes. An open file stays the file it
  was, and writes through a shared entry do not overlap.

### Bounds

Three threads let one run, one wait and one interfere; a fourth in `synch` and
on the SynchList gives two waiters while a newcomer overtakes. Three programs
give two joinable ones or a reused pid; `processes` covers one joining program,
because with two the pid a joiner clears may be one that the other waits for
(below). Four frames for spaces of at most two pages let the third space meet a
nearly full memory; three frames for spaces of four pages force replacement, and
four swap slots run out. Pages, sectors and words are as small as still has
partial, whole and crossing requests: a request of 6 bytes at offset 2 in pages
of 3 touches three pages. The process with one page is asked for more than it has, so
that Translate lets one page too many pass and then fails, beside a process whose
frames such a call can hit (`Anywhere` has one address there and the last byte of
memory). A file of five data sectors has a pointer block, fills 13 sectors, and
beside an empty file lacks one that Allocate did not count. A directory of two entries for three names must grow.
Two instructions put one in a branch slot or behind a load. `MaxValue`,
`MaxItems`, `MaxStores`, `MaxCalls`, `MaxWrites`, `MaxTicks`, `MaxTime`,
`MaxWork`, `MaxOpens` and `MaxIO` bound what would grow without end; each is in
the guard of the action that starts something new, never of one that completes it
(`MaxTicks` and `MaxTime` end simulated time). `MaxProcess`, `NumPhysPages`, `PageSize`,
`SectorSize` and the like are small values of the code's own constants.

Symmetry is used over pids of the virtual memory, file names, processes and
file names of the open file tables, and the threads of `synch` other than the
first, which starts as the running one. Nothing in these parts tells two such
values apart, and none of them has a temporal property with fairness: what their
runs check of them are invariants and action properties.

Deadlock is not checked: these models end when their programs have exited, the
machine has halted or a bound is reached. `FlatJoinReturns`,
`FlatExitCompletes`, `SomeCallReturns`, `MailTestEnds`, `HaltsWhenDone` and
`NoSleepOverItems` are what excludes threads that wait for ever.

### Disagreements between code and documentation

Each of these runs ends in a counterexample; `PROJECT.json` quotes both sides.

- `scheduler_leak`: a finished thread is forgotten if the next one never ran
  before and finishes too.
- `pid_reuse`: the Join system call clears the pid of its caller and not the pid
  it joined, so the id of a running program is given away. By the same
  line the joined id is never free again, and whoever joined the caller can sleep
  for ever; these two have no run of their own, and `FlatJoinReturns` is claimed
  for a single joining program because of the second.
- `join_deadlock`: with `-rs`, Join takes `pm_lock` inside `locks[pid]` and
  Broadcast takes them the other way round. The counterexample ends with each of
  two threads waiting for the lock the other holds, not with one that starves.
- `join_status`: with `-rs`, Join returns -1 when the program clears its entry
  before GetStatus. With `-rs` Join can also be early, which takes six programs:
  three calls of Join clear the pid of the joiner, three programs get it one after
  the other, and while the joiner waits for the last of them the first clears the
  pid once more and a fourth gets it, whose status Join then tests. Three programs
  never get there, so `FlatJoinNotEarly` claims nothing of `-rs`.
- `exec_return`: Exec and Fork read the new thread after a Yield in which it may
  have been deleted.
- `memory_race`: with `-rs`, two Execs pass the `freePages` test together.

The models contain others, which restrict what their properties claim:

- `mipssim.cc:376`: OR reads `rs` twice, so it is right only as a move; SRL
  shifts in the sign. `Comparable` leaves these words out.
- `filesys.cc:161-165`: when the directory is full, Create makes it grow and
  returns TRUE, but the new entry cannot be found afterwards (`expanded`).
- `filehdr.cc`: Allocate tests for free space without the pointer blocks, so it
  returns TRUE, and Create with it, for a file some of whose sectors are -1; the
  comment above it promises "Return FALSE if there are not enough free blocks to
  accomodate the new file". Removing such a file fails the ASSERT of Deallocate. A
  file with pointer blocks cannot be used by a later run of Nachos: its header
  holds addresses of memory (`dangling`).
- `openfile.cc`: a write across the end of the file stores only the part before
  the old end; the extended header is not written back, so it is lost when the
  file is opened again. The number of new sectors is off by one for some offsets,
  and `ByteToSector` returns nothing past the fourth sector (`wild`).
- `exception.cc:480`: the inner `read` hides the one that Read returns, so the
  call returns 0; `syscall.h` promises the number of bytes.
- `exception.cc`: chunk sizes are computed from the whole request, so a Read that
  ends inside a page after crossing one writes past its data (`Regular`); with
  `-rs` two transfers can mix in `diskBuffer`. The result of Translate is ignored,
  so a call that leaves its address space copies with whatever is in `phys_addr`
  (`failed`): `TransferExact` claims nothing of memory after such a Read
  (`NoStrayStore`), and that a call which stays inside never gets there.
- `VMManager.cc:238`: a dirty victim is written under the pid of the process that
  faults (`strayed`), and may meet the `ASSERT(false)` of `SwapManager.cc:97`.
- `VMManager.cc:59`: `tail = current` where a comparison is meant loses the tail
  of the LRU list at an exit.
- `addrspace.cc:131`: the uninitialised data is not zeroed, and
  `coff2noff.c:204` tests the contiguity of `.bss` the wrong way round.
- Exit closes no files, so entries of the system table stay taken (`lost`).
- An idle machine puts back a timer interrupt that is alone, which may then be
  late.

## Fairness

`Scheduler` assumes that a time slice comes again and again (the timer of `-rs`),
and that the kernel's own code runs on. `Processes` assumes, for each thread, that
it gets the CPU again and again while it is runnable and runs on when it has it:
strong fairness of `Switch`, which `ReadyEventuallyRuns` supports, and of
`KernelStep`. The second must be strong too: a time slice of `-rs` disables the
step of a thread, but the ready list is a queue and the next slice is some ticks
away, so a thread that has the CPU infinitely often makes progress. With weak
fairness a behaviour in which the CPU changes hands for ever and no thread moves
would refute `JoinReturns`. User programs do not compute for ever without a system
call. `PostOffice`, `Memory` and `SynchDisk` assume weak fairness
of kernel steps, and of the device interrupts, to which `Interrupt::Idle` advances
the clock. No fairness of locks is assumed, because the code gives none: a thread
that releases a lock and acquires it again without losing the CPU overtakes the
woken waiter every time. `SomeCallReturns` is what remains true. In a run of
several parts fairness is asked of the part that runs, and only where a liveness
property makes its claim: of `Processes` and `Memory` without time slices, and of
`PostOffice` with a reliable network.

## Proofs

All hold for every value of the constants that satisfies the named assumptions.
These say what the code's constants are, and no more: sizes are naturals (frames,
pages, sectors per track and the times of the devices positive), the set of
threads or processes is finite where something counts them, a request and an
address have a largest value, a message goes to another machine, and the marks
for "nobody" are no thread, process or character (`ThreadAssumption`,
`SynchAssumption`, `SynchListAssumption`, `MemoryAssumption`, `DiskAssumption`,
`VMAssumption`, `OpenFilesAssumption`, `ProcessAssumption`, `UserBufferAssumption`,
`PostOfficeAssumption`, `DevicesAssumption`). The bounds of the models
(`MaxStores`, `MaxTime` and the like) are in no assumption: a theorem holds for
any of them. Each inductive invariant was checked with TLC on the instance of its
run before it was proved.

**`SynchProofs`, Scheduler.** The invariant is `SchedInv`: types, `ReadyListSound` and
`FinishedStopped`. `ReadyListSound` alone is not inductive, because Run could
delete a thread that is still on the list; `FinishedStopped` says that what
`threadToBeDestroyed` names is blocked for good. `SafeDestroy` follows step by
step from it. Theorems: `SchedTypeCorrect`, `ReadyListCorrect`, `DestroyIsSafe`.

**`SynchProofs`, Synch.** The invariant `SynchInv` adds `WaitersSound` (queues and
sleeping threads correspond), `LocksOwned` (a taken lock has one owner, the
thread in `currentTh`), `WaitersCounted` and `NoLostWakeup`. `LocksOwned` is the
strengthening `MutualExclusion` needs, and explains why the stale `currentTh` does
no harm (Release does not reset it, so `isHeldByCurrentThread` stays true): it
only matters while the lock is free. `NoLostWakeup` needs `WaitersSound`, so that
the thread a V or a Release removes is one that sleeps there and will test again.
There is one lemma per routine, and lemmas on what the scheduler's actions do to
the sets of sleeping and awake threads. Theorems: `SynchTypeCorrect`,
`WaitersCorrect`, `LockExcludes`, `WakeupsReach`, `WaitersAreCounted`,
`WaitersAreServed`, `ReleaseIsOwners`, and `SynchImplementsSched`: every step of
`Synch` is a step or a stutter of `Scheduler`.

**`MemoryProofs`.** `MemInv` joins types, disjointness and accounting: a frame
that `Find` returns is unmarked and so in no page table, and a frame that
`clearPage` clears is in one place only. It holds with time slices. Without them
`FlatInv` adds that at most one process is in the middle of a sequence and that
the frames still free suffice for the pages it still asks for. Theorems:
`MemoryTypeCorrect`, `PagesApart`, `NoFrameLost`, `EveryPageHasAFrame` and
`FramesAreKept`.

**`StorageProofs`, the virtual memory.** `VMInv` is stated over pages instead of
the sets of `BookkeepingExact`. Frames: a page in memory has a marked frame, every
marked frame has such a page, and no two pages have the same. Slots: every page of
a process has a slot, every taken slot belongs to a page, and no two slots to the
same. The list (`ListValid`, `ListApart`, `ListWhole`) holds pages in memory only,
each once; that it holds all of them and that `tail` is its end is claimed until a
process exits, because RemovePage then loses the tail, while `ListValid` must go on
holding: it is why RemovePage clears no frame of another process. `ContentsKept` is
what makes `Coherent` inductive: it says where the contents of a page are, in its
frame, and in its slot too unless the page is dirty, so that a clean victim can be
dropped. `AloneSafe` needs the slots: the victim of a process alone is its own page,
which has a slot, so `writePage` finds it. Theorems: `VMInvAlways`,
`BookkeepingStaysExact` and `PagesStayCoherent`.

**`StorageProofs`, SynchDisk.** `DiskInv`: whoever is between Acquire and Release
holds the lock; while a thread is at P, its request is either on the disk or in
the semaphore, and at all other times the disk is inactive and the semaphore 0.
From it follow `DiskNeverAskedTwice` and `CallsWaitForTheirInterrupt`, and
`SynchDiskImplementsAtomicDisk`: each step maps to a step of `AtomicDisk` or
changes nothing a caller sees.

**`SynchListProofs`.** `SLInv` adds to the types that the lock is held from Acquire
to Release or Wait, that exactly the threads at Wait are on the condition's queue,
each once, and that they are in Remove. This is what makes `NoSleepOverItems`
inductive: a Signal gives up its own place in the count and the thread it wakes
takes it, which fails if the queue may hold a thread that is already awake.
Theorems: `NobodySleepsOverItems`, and `SynchListImplementsQueue`, where the step
under the lock that changes the list is the moment the call takes effect.

**`ProcessProofs`.** `ProcInv` says what holds without time slices. A thread that
lost the CPU is between system calls or waits in Join, and holds neither `pm_lock`
nor a lock of the table (`LocksHeld`), so nobody ever waits for these. A pid in use
has its PCB and Lock except inside AddProcess and ClearPID (`ObjectsExist`), so
that nothing missing is used. That Join finds its program again after it waited is
`JoinSound`: the count of joins keeps the pid in use, because who clears a pid saw
no join, has just created it, or is the joiner itself (`ClearsAlone`). The last
case is why the theorems have the hypothesis `OneJoiner`: a second joiner clears
its own pid with the first one waiting for it. `EnoughPids`, a pid for each
program, is needed because AddProcess does not test for -1; that GetPID then finds
one is a pigeonhole argument, since a pid in use is that of some program and the
new one has none yet. Theorems: `ProcInvAlways`, `NeverFaults`,
`JoinGetsItsStatus`, `JoinIsNotEarly`.

**`SystemCallProofs`.** `OFInv` is about what a call read before it waited. A
transfer that waits for the lock still has its file open; one that has the lock
works at the position the file has (`TransferSound`); Open still has the object it
found, or that object was deleted (`ShareSound`). `WritesApart` is not inductive
without `Positions`: what was written through an object lies before its position,
and no two objects share a serial number. `FilesResolve` needs `Counted`: userOpens
is at least the number of users, so the Close that frees an entry is the last.
Where the kernel followed a NULL entry nothing but `WritesApart` is claimed.
Theorems: `OFInvAlways`, `FilesKeepResolving`, `WritesStayApart`.

**`TransferProofs`, user buffers.** `UBInv` ties the counters of `userReadWrite` to
the bytes. `Progress`: a call moves no more than it was asked for, a page at a time.
`Located`: from Translate to the copy `phys_addr` is the address of `vaddr`, unless
Translate failed. `InStep`: `vaddr` goes with the bytes moved, and the chunk a
regular Read computes fits its page; this is what fails for other Reads, and where
the arithmetic modulo the page size is. `StaysInside`: a served call for addresses
of the process never meets a failing Translate. `Untouched` holds for all processes
and with `-rs`, because a store of one process goes to the frames of its own pages:
here the proof uses the assumption that no two pages have the same frame, which
`MemoryProofs` shows of page tables. `Copied`, without `-rs`, says that `Moved`
bytes went all the way and `diskBuffer` holds the next ones. `TransferExact` is not
inductive without these: its first claim needs to know where `vaddr` is, the others
what is in `diskBuffer` and `phys_addr` between two steps. Theorems: `UBInvAlways`,
`TransfersAreExact`.

**`TransferProofs`, mail.** `POInv` joins `OneMessageAtATime` and `DeliveredOnce`,
which are inductive with the types, and `MailHonest`, which `HaltedMeansReceived`
needs: a letter in box 1 can only have been sent after the Hello of its machine was
put in a box, and this must be followed through the socket, the worker, the boxes
and MailTest. Theorems: `POInvAlways`, `SendsOneMessageAtATime`,
`DeliversOnceInOrder`, `HaltsAfterDelivery`.

**`DeviceProofs`.** `DevInv` adds to the properties that a semaphore is up exactly
between the interrupt and the thread that waits for it (`SemaphoresExact`) and that
an idle machine has nobody to run (`IdleSound`): a busy device is what a thread waits
for, so a list with the timer alone means that nobody waits. `DiskOnTime` follows
from lemmas on the remainders in `ComputeLatency` and `ModuloDiff`. Theorems:
`DevInvAlways`, `InterruptsOnTime`, `HaltsOnlyWhenDone`, `EchoesInOrder`,
`RequestsOnTime`.

Only model-checked:

- all liveness, which is beyond the proof system;
- `ImplementsContents` of `LinkedList` and all of `Machine` (`ImplementsExecute`,
  `Restartable`, `MultIsProduct`, `CleanPagesUnchanged`): the definitions recurse
  over data or work on the bits of words, and the proof system has neither
  induction over data nor bitwise operators;
- `LoadedExact`, `FilesSurvive`, `MapExact`, `ReadsBack` and `SectorsOwned`: they
  rest on what the loops of `Allocate`, `ExtendFile` and `ReadFile` compute. The
  models give their result by counting free sectors and by dividing into pages and
  sectors; the lemmas on this, and the invariant over the list of writes that a
  crash cuts short, have not been proved.

## Not modelled

- `machine/sysdep.cc` (the host), `threads/switch.s`, `utility.cc`, statistics,
  argument parsing and debugging output.
- `threads/threadtest.cc` and the other test programs: clients of routines whose
  most general client is modelled. `test/` holds MIPS programs, the workload.
- The TLB of `translate.cc`, which this kernel does not build, and the debugger.
- `coff2flat`, the disassembler, and the UNIX system calls of `bin/execute.c`.
- List, Print, Copy and the performance test of the file system; the console
  branches of Read and Write, which call the host's `printf` and `scanf`; reading
  file names out of user memory.
- `InitRegisters`, `SaveState` and `RestoreState`; virtual memory under `-rs`, transfers of
  Read and Write under virtual memory. What a Read that is not `Regular` does to the
  memory behind its data is in the model, but no property describes it.
- Parts are composed where they share state (`Synch` over `Scheduler`,
  `MachineImplements`); `Processes`, `SynchDisk`, `SynchList` and `PostOffice`
  use locks, semaphores and lists by what is shown of those, since the product
  of two of these models is out of TLC's reach.
- `src/cppexample`: stand-alone programs that teach C++.
