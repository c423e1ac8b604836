------------------------------- MODULE Devices ------------------------------
(***************************************************************************)
(* Simulated time: machine/interrupt.cc, with the timer (machine/timer.cc, *)
(* threads/system.cc), the console (machine/console.cc, echoed by          *)
(* ConsoleTest of userprog/progtest.cc) and the disk (machine/disk.cc).    *)
(* The clock moves when a thread enables interrupts, after an instruction  *)
(* of a user program, and when the machine is idle; CheckIfDue then calls  *)
(* the handlers that are due, one after the other.  Three threads run:     *)
(* ConsoleTest, one that does disk requests, and one that only uses up     *)
(* time.                                                                   *)
(***************************************************************************)
EXTENDS Integers, Sequences, FiniteSets

CONSTANTS
    UserTick, SystemTick,                   \* 1, 10
    TimerTicks, ConsoleTime,                \* 100, 100
    RotationTime, SeekTime, SectorsPerTrack, \* 500, 500, 32
    DiskSector,         \* sectors that are asked for
    Typed,              \* the characters typed, a sequence
    MaxTime, MaxWork    \* end of time; ticks of the third thread (bounds of the model)

EOF == "EOF"
Char == {Typed[i] : i \in DOMAIN Typed}

ASSUME DevicesAssumption ==
    /\ \A n \in {UserTick, SystemTick, TimerTicks, ConsoleTime, RotationTime,
                  SectorsPerTrack} : n \in Nat \ {0}
    /\ SeekTime \in Nat /\ DiskSector \subseteq Nat
    /\ Typed \in Seq(Char) /\ EOF \notin Char

VARIABLES
    timer,          \* the timer is on, "random" with -rs
    totalTicks,
    pending,        \* scheduled interrupts [when, type], as a list
    status,         \* MachineStatus
    phase,          \* what the CPU does: "run", "tick" in OneTick, "idle", "halted"
    yieldOnReturn,
    putBusy, incoming, typed,               \* console; characters still to come
    readAvail, writeDone, echo, echoed,     \* ConsoleTest, and its output
    active, lastSector, bufferInit,         \* disk
    requestDone, user, request,             \* the thread that uses it
    work

devVars == <<timer, totalTicks, pending, status, phase, yieldOnReturn, putBusy, incoming,
             typed, readAvail, writeDone, echo, echoed, active, lastSector, bufferInit,
             requestDone, user, request, work>>

consoleVars == <<putBusy, incoming, typed, readAvail, writeDone, echo, echoed>>
diskVars == <<active, lastSector, bufferInit, requestDone, user, request>>

NoRequest == [sector |-> -1]

(* List::SortedInsert: before the first one that is later. *)
SortedInsert(list, e) ==
    LET later == {i \in DOMAIN list : e.when < list[i].when}
        k == IF later = {} THEN Len(list) ELSE (CHOOSE i \in later : \A j \in later : i <= j) - 1
    IN  SubSeq(list, 1, k) \o <<e>> \o SubSeq(list, k + 1, Len(list))

(* Interrupt::Schedule. *)
Scheduled(list, fromNow, type) ==
    SortedInsert(list, [when |-> totalTicks + fromNow, type |-> type])

TimeOfNextInterrupt == IF timer = "random" THEN 1..(TimerTicks * 2) ELSE {TimerTicks}

DevicesInit ==
    /\ timer \in {"off", "on", "random"}
    /\ totalTicks = 0
    /\ \E next \in TimeOfNextInterrupt, console \in BOOLEAN :
          LET clock == IF timer = "off" THEN <<>> ELSE <<[when |-> next, type |-> "TimerInt"]>>
          IN  /\ pending = IF console THEN Scheduled(clock, ConsoleTime, "ConsoleReadInt")
                                      ELSE clock
              /\ echo = IF console THEN "read" ELSE "done"
    /\ status = "SystemMode" /\ phase = "run" /\ yieldOnReturn = FALSE
    /\ putBusy = FALSE /\ incoming = EOF /\ typed = Typed
    /\ readAvail = 0 /\ writeDone = 0 /\ echoed = <<>>
    /\ active = FALSE /\ lastSector = 0 /\ bufferInit = 0
    /\ requestDone = 0 /\ user = "ready" /\ request = NoRequest
    /\ work = 0

-----------------------------------------------------------------------------
(* Interrupt::OneTick begins.  SystemMode stands for UserMode too: only     *)
(* IdleMode makes a difference to what follows.                             *)
OneTick(ticks) ==
    /\ totalTicks + ticks <= MaxTime
    /\ totalTicks' = totalTicks + ticks
    /\ phase' = "tick"
    /\ UNCHANGED <<timer, status>>

(* A thread sets the interrupt level from off to on. *)
Enable == OneTick(SystemTick) /\ UNCHANGED yieldOnReturn

(* A thread goes on without enabling interrupts. *)
NoTick == UNCHANGED <<timer, totalTicks, status, phase, yieldOnReturn>>

(* ConsoleTest: readAvail->P; GetChar and PutChar; writeDone->P. *)
EchoRead ==
    /\ echo = "read" /\ readAvail > 0
    /\ readAvail' = readAvail - 1
    /\ echo' = "echo"
    /\ Enable
    /\ UNCHANGED <<pending, putBusy, incoming, typed, writeDone, echoed, diskVars, work>>

EchoPut ==
    /\ echo = "echo"
    /\ incoming' = EOF
    /\ putBusy' = TRUE
    /\ echoed' = Append(echoed, incoming)
    /\ pending' = Scheduled(pending, ConsoleTime, "ConsoleWriteInt")
    /\ echo' = "write"
    /\ NoTick
    /\ UNCHANGED <<typed, readAvail, writeDone, diskVars, work>>

EchoWritten ==
    /\ echo = "write" /\ writeDone > 0
    /\ writeDone' = writeDone - 1
    /\ echo' = IF echoed[Len(echoed)] = "q" THEN "done" ELSE "read"
    /\ Enable
    /\ UNCHANGED <<pending, putBusy, incoming, typed, readAvail, echoed, diskVars, work>>

-----------------------------------------------------------------------------
Distance(m, n) == IF m < n THEN n - m ELSE m - n

(* Disk::TimeToSeek: the seek, and the rest of a sector after it. *)
Seek(newSector) ==
    Distance(newSector \div SectorsPerTrack, lastSector \div SectorsPerTrack) * SeekTime

Rotation(newSector) ==
    LET over == (totalTicks + Seek(newSector)) % RotationTime
    IN  IF over > 0 THEN RotationTime - over ELSE 0

TimeAfter(newSector) == totalTicks + Seek(newSector) + Rotation(newSector)

ModuloDiff(to, from) ==
    (((to % SectorsPerTrack) - (from % SectorsPerTrack)) + SectorsPerTrack) % SectorsPerTrack

(* The sector passed the head since the track buffer was begun. *)
InTrackBuffer(newSector) ==
    /\ Seek(newSector) = 0
    /\ (TimeAfter(newSector) - bufferInit) \div RotationTime
          > ModuloDiff(newSector, bufferInit \div RotationTime)

(* Mutant of ComputeLatency: the rest of the current sector is forgotten. *)
ComputeLatencyUnaligned(newSector, writing) ==
    IF ~writing /\ InTrackBuffer(newSector) THEN RotationTime
    ELSE Seek(newSector) + RotationTime
            + ModuloDiff(newSector, TimeAfter(newSector) \div RotationTime) * RotationTime

ComputeLatency(newSector, writing) ==
    IF ~writing /\ InTrackBuffer(newSector) THEN RotationTime
    ELSE Seek(newSector) + Rotation(newSector)
            + ModuloDiff(newSector, TimeAfter(newSector) \div RotationTime) * RotationTime
            + RotationTime

(* Disk::ReadRequest, WriteRequest and UpdateLast. *)
DiskRequest(sector, writing) ==
    LET ticks == ComputeLatency(sector, writing)
    IN  /\ user = "ready"
        /\ ~active
        /\ active' = TRUE
        /\ pending' = Scheduled(pending, ticks, "DiskInt")
        /\ bufferInit' = IF Seek(sector) # 0 THEN TimeAfter(sector) ELSE bufferInit
        /\ lastSector' = sector
        /\ request' = [sector |-> sector, writing |-> writing, at |-> totalTicks,
                       done |-> totalTicks + ticks, bufferInit |-> bufferInit,
                       buffered |-> ~writing /\ InTrackBuffer(sector)]
        /\ user' = "P"
        /\ NoTick
        /\ UNCHANGED <<consoleVars, requestDone, work>>

DiskReturn ==
    /\ user = "P" /\ requestDone > 0
    /\ requestDone' = requestDone - 1
    /\ user' = "ready"
    /\ Enable
    /\ UNCHANGED <<pending, consoleVars, active, lastSector, bufferInit, request, work>>

DiskFinish ==
    /\ user = "ready" /\ user' = "done"
    /\ NoTick
    /\ UNCHANGED <<pending, consoleVars, active, lastSector, bufferInit, requestDone, request,
                   work>>

(* An instruction of a user program, or a system call. *)
Work ==
    /\ work < MaxWork /\ work' = work + 1
    /\ OneTick(UserTick) \/ OneTick(SystemTick)
    /\ UNCHANGED <<pending, yieldOnReturn, consoleVars, diskVars>>

Run ==
    /\ phase = "run"
    /\ \/ EchoRead \/ EchoPut \/ EchoWritten
       \/ \E sector \in DiskSector, writing \in BOOLEAN : DiskRequest(sector, writing)
       \/ DiskReturn \/ DiskFinish
       \/ Work

-----------------------------------------------------------------------------
(* The interrupt handlers, called with the other pending interrupts. *)

(* Mutant of TimerExpired: the next interrupt is not scheduled. *)
TimerExpiredOnce(rest) ==
    /\ pending' = rest
    /\ yieldOnReturn' = TRUE
    /\ UNCHANGED <<consoleVars, diskVars>>

TimerExpired(rest) ==       \* and TimerInterruptHandler
    /\ \E next \in TimeOfNextInterrupt : pending' = Scheduled(rest, next, "TimerInt")
    /\ yieldOnReturn' = TRUE
    /\ UNCHANGED <<consoleVars, diskVars>>

(* Mutant of CheckCharAvail: a buffered character is overwritten. *)
CheckCharAvailAlways(rest) ==
    /\ pending' = Scheduled(rest, ConsoleTime, "ConsoleReadInt")
    /\ \/ /\ typed # <<>>
          /\ incoming' = Head(typed)
          /\ typed' = Tail(typed)
          /\ readAvail' = 1
       \/ UNCHANGED <<incoming, typed, readAvail>>
    /\ UNCHANGED <<yieldOnReturn, putBusy, writeDone, echo, echoed, diskVars>>

CheckCharAvail(rest) ==
    /\ pending' = Scheduled(rest, ConsoleTime, "ConsoleReadInt")
    /\ \/ /\ incoming = EOF /\ typed # <<>>
          /\ incoming' = Head(typed)
          /\ typed' = Tail(typed)
          /\ readAvail' = readAvail + 1
       \/ UNCHANGED <<incoming, typed, readAvail>>   \* buffered, or nothing typed yet
    /\ UNCHANGED <<yieldOnReturn, putBusy, writeDone, echo, echoed, diskVars>>

ConsoleWriteDone(rest) ==
    /\ pending' = rest
    /\ putBusy' = FALSE
    /\ writeDone' = writeDone + 1
    /\ UNCHANGED <<yieldOnReturn, incoming, typed, readAvail, echo, echoed, diskVars>>

DiskDone(rest) ==
    /\ pending' = rest
    /\ active' = FALSE
    /\ requestDone' = requestDone + 1
    /\ UNCHANGED <<yieldOnReturn, consoleVars, lastSector, bufferInit, user, request>>

(* Mutant of Due: an idle machine takes no timer interrupt at all. *)
DueNoTimer ==
    /\ pending # <<>>
    /\ Head(pending).when <= totalTicks
    /\ ~(status = "IdleMode" /\ Head(pending).type = "TimerInt")

(* CheckIfDue: the first pending interrupt is due, and not a timer          *)
(* interrupt that an idle machine has nothing but.                          *)
Due ==
    /\ pending # <<>>
    /\ Head(pending).when <= totalTicks
    /\ ~(status = "IdleMode" /\ Head(pending).type = "TimerInt" /\ Tail(pending) = <<>>)

CheckIfDue ==
    /\ phase \in {"tick", "first", "idle"}
    /\ Due
    /\ CASE Head(pending).type = "TimerInt" -> TimerExpired(Tail(pending))
         [] Head(pending).type = "ConsoleReadInt" -> CheckCharAvail(Tail(pending))
         [] Head(pending).type = "ConsoleWriteInt" -> ConsoleWriteDone(Tail(pending))
         [] Head(pending).type = "DiskInt" -> DiskDone(Tail(pending))
    /\ phase' = IF phase = "first" THEN "idle" ELSE phase
    /\ UNCHANGED <<timer, totalTicks, status, work>>

(* The end of OneTick, with the Yield that the timer asked for.  A thread   *)
(* that comes back in Yield, the same one if there is no other, enables     *)
(* interrupts there, and time passes again; one that was in P goes on.      *)
TickEnd ==
    /\ phase = "tick" /\ ~Due
    /\ yieldOnReturn' = FALSE
    /\ \/ phase' = "run" /\ UNCHANGED <<timer, totalTicks, status>>
       \/ yieldOnReturn /\ OneTick(SystemTick)
    /\ UNCHANGED <<pending, consoleVars, diskVars, work>>

-----------------------------------------------------------------------------
Ready ==
    \/ echo = "read" /\ readAvail > 0
    \/ echo = "echo"
    \/ echo = "write" /\ writeDone > 0
    \/ user = "ready"
    \/ user = "P" /\ requestDone > 0
    \/ work < MaxWork

(* Interrupt::Idle; CheckIfDue(TRUE) moves the clock to the next interrupt. *)
Idle ==
    /\ phase = "run" /\ ~Ready
    /\ status' = "IdleMode"
    /\ phase' = "first"
    /\ totalTicks' = IF pending # <<>> /\ Head(pending).when > totalTicks
                     THEN Head(pending).when ELSE totalTicks
    /\ totalTicks' <= MaxTime
    /\ UNCHANGED <<timer, pending, yieldOnReturn, consoleVars, diskVars, work>>

IdleEnd ==
    /\ phase = "idle" /\ ~Due
    /\ phase' = "run"
    /\ status' = "SystemMode"
    /\ yieldOnReturn' = FALSE
    /\ UNCHANGED <<timer, totalTicks, pending, consoleVars, diskVars, work>>

Halt ==
    /\ phase = "first" /\ ~Due
    /\ phase' = "halted"
    /\ UNCHANGED <<timer, totalTicks, pending, status, yieldOnReturn, consoleVars, diskVars,
                   work>>

DevicesNext == Run \/ CheckIfDue \/ TickEnd \/ Idle \/ IdleEnd \/ Halt

DevicesSpec == DevicesInit /\ [][DevicesNext]_devVars

-----------------------------------------------------------------------------
Ordered(list) == \A i, j \in DOMAIN list : i < j => list[i].when <= list[j].when
Single(list) == \A i, j \in DOMAIN list : list[i].type = list[j].type => i = j
Holds(list, type) == \E i \in DOMAIN list : list[i].type = type

(* No device interrupt is late: when a thread runs, all that were due have  *)
(* been handled.  Only the timer's may wait, where an idle machine put it   *)
(* back.  The list must be sorted for the loop to see them, and it holds    *)
(* what the devices wait for: the timer and the keyboard poll exactly once, *)
(* the disk and the display exactly while busy.  A thread does not run on   *)
(* with a context switch that an interrupt asked for outstanding.           *)
PendingSound ==
    /\ phase = "run" =>
          /\ \A i \in DOMAIN pending :
                pending[i].when <= totalTicks => pending[i].type = "TimerInt"
          /\ ~yieldOnReturn
    /\ Ordered(pending) /\ Single(pending)
    /\ Holds(pending, "TimerInt") <=> timer # "off"
    /\ Holds(pending, "DiskInt") <=> active
    /\ Holds(pending, "ConsoleWriteInt") <=> putBusy
    /\ echo # "done" => Holds(pending, "ConsoleReadInt")

(* The machine halts by itself only when nothing can happen any more: no    *)
(* device is busy and no thread waits for one.                              *)
HaltsWhenDone ==
    phase = "halted" => ~active /\ ~putBusy /\ user = "done" /\ echo = "done"
                           /\ \A i \in DOMAIN pending : pending[i].type = "TimerInt"

(* ConsoleTest echoes every character once and in order: what is echoed,    *)
(* buffered and not yet typed is what there is to type; and PutChar is      *)
(* never called while the display is busy, as it asserts.                   *)
EchoesAll ==
    /\ echoed \o (IF incoming = EOF THEN <<>> ELSE <<incoming>>) \o typed = Typed
    /\ echo = "echo" => ~putBusy /\ incoming # EOF

(* The interrupt of a request comes at the end of a sector's rotation: of   *)
(* the sector asked for, unless the track buffer has it; then the sector    *)
(* passed the head, whole, between the start of the buffer and the moment   *)
(* the head is ready.                                                       *)
DiskOnTime ==
    request # NoRequest =>
        IF request.buffered
        THEN \E k \in 0..request.done :
                /\ ((request.bufferInit \div RotationTime) + k - request.sector)
                      % SectorsPerTrack = 0
                /\ request.bufferInit + (k + 1) * RotationTime < request.done
        ELSE /\ request.done % RotationTime = 0
             /\ ((request.done \div RotationTime) - 1 - request.sector) % SectorsPerTrack = 0

(* The inductive invariant behind these: what may be in the variables, ... *)
IntType == {"TimerInt", "DiskInt", "ConsoleWriteInt", "ConsoleReadInt"}
PendingInterrupt == [when : Nat, type : IntType]

DevTypeOK ==
    /\ timer \in {"off", "on", "random"} /\ totalTicks \in Nat
    /\ pending \in Seq(PendingInterrupt)
    /\ phase \in {"run", "tick", "first", "idle", "halted"}
    /\ putBusy \in BOOLEAN /\ incoming \in Char \cup {EOF} /\ typed \in Seq(Char)
    /\ echo \in {"read", "echo", "write", "done"} /\ echoed \in Seq(Char)
    /\ readAvail \in Nat /\ writeDone \in Nat /\ requestDone \in Nat
    /\ active \in BOOLEAN /\ lastSector \in Nat /\ bufferInit \in Nat
    /\ user \in {"ready", "P", "done"}

(* ... a semaphore is up exactly between the interrupt and the thread that  *)
(* waits for it, ...                                                        *)
SemaphoresExact ==
    /\ readAvail = IF incoming # EOF /\ echo # "echo" THEN 1 ELSE 0
    /\ writeDone = IF echo = "write" /\ ~putBusy THEN 1 ELSE 0
    /\ requestDone = IF user = "P" /\ ~active THEN 1 ELSE 0
    /\ putBusy => echo = "write"
    /\ active => user = "P"

(* ... and an idle machine has no thread to run and moved its clock.        *)
IdleSound ==
    /\ status = IF phase \in {"run", "tick"} THEN "SystemMode" ELSE "IdleMode"
    /\ phase = "first" => ~Ready /\ (pending # <<>> => Head(pending).when <= totalTicks)

DevInv ==
    DevTypeOK /\ PendingSound /\ SemaphoresExact /\ EchoesAll /\ IdleSound /\ HaltsWhenDone
=============================================================================
