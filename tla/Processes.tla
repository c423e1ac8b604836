----------------------------- MODULE Processes -----------------------------
(***************************************************************************)
(* Processes: userprog/ProcessManager.cc and the system calls Exec, Fork,  *)
(* Join and Exit of userprog/exception.cc that use it.                     *)
(*                                                                         *)
(* A step runs from one place where the thread can lose the CPU to the     *)
(* next; these are the lock operations.  A routine that acquires a lock    *)
(* and goes on is one step, since until it goes on all the others can do   *)
(* is wait for the lock.  pc tells which routine, or which acquisition     *)
(* inside it, a thread executes next.  Locks are mutexes, as shown for     *)
(* Lock in Synch.                                                          *)
(***************************************************************************)
EXTENDS Integers, FiniteSets

CONSTANTS
    Process,        \* user programs started during a run
    Root,           \* the first, started by main
    Joiner,         \* the programs that call Join
    MaxProcess,     \* MAX_PROCESS
    ExitArg,        \* arguments of Exit
    NULL

Pid == 0..(MaxProcess - 1)

(* ExitProcess turns a negative status into 0; -1 means running. *)
Clamp(s) == IF s < 0 THEN 0 ELSE s
Status == {Clamp(s) : s \in ExitArg} \cup {-1}

ASSUME ProcessAssumption ==
    /\ IsFiniteSet(Process) /\ Root \in Process /\ Joiner \subseteq Process
    /\ {NULL, "free", "none"} \cap Process = {}
    /\ MaxProcess \in Nat \ {0}
    /\ ExitArg \subseteq Int

VARIABLES
    randomYield,    \* nachos -rs: a thread may lose the CPU at any step
    cpu,            \* the process whose thread runs
    pc,
    arg,            \* the pid the routine works on
    child,          \* the process Exec or Fork is creating
    ret,            \* the status GetStatus returned
    joined,         \* the process Join found under its pid, until it returns
    pid, status,    \* PCB members; status is -1 until Exit
    exiting,        \* the processes that have called Exit
    processIDs, pcbs, joins, conditions,
    locks,          \* owner of locks[pid]; "free"; "none": no Lock object
    pm_lock,        \* owner, or "free"
    fault           \* the kernel dereferenced NULL or indexed an array with -1

tables == <<processIDs, pcbs, joins, conditions, locks, pm_lock>>

exits == <<status, exiting>>

vars == <<randomYield, cpu, pc, arg, child, ret, joined, pid, exits, tables, fault>>

NeedsPmLock == {"AddProcess", "Join", "JoinTest", "DecrementJoins", "GetStatus",
                "GetJoins", "ClearPID", "Broadcast"}
NeedsLock == {"JoinLock", "JoinWake", "ClearLock", "BroadcastLock"}

(* StartProcess has created Root's address space. *)
ProcInit ==
    /\ randomYield \in BOOLEAN
    /\ cpu = Root
    /\ pc = [p \in Process |-> IF p = Root THEN "user" ELSE "none"]
    /\ arg = [p \in Process |-> -1]
    /\ child = [p \in Process |-> NULL]
    /\ ret = [p \in Process |-> -1]
    /\ joined = [p \in Process |-> NULL]
    /\ pid = [p \in Process |-> IF p = Root THEN 0 ELSE -1]
    /\ status = [p \in Process |-> -1]
    /\ exiting = {}
    /\ processIDs = {0}
    /\ pcbs = [i \in Pid |-> IF i = 0 THEN Root ELSE NULL]
    /\ joins = [i \in Pid |-> 0]
    /\ conditions = [i \in Pid |-> {}]
    /\ locks = [i \in Pid |-> IF i = 0 THEN "free" ELSE "none"]
    /\ pm_lock = "free"
    /\ fault = FALSE

-----------------------------------------------------------------------------
(* A thread that is not waiting for a lock or a condition. *)
Runnable(p) ==
    /\ pc[p] \notin {"none", "JoinWait", "exited"}
    /\ pc[p] \in NeedsPmLock => pm_lock = "free"
    /\ pc[p] \in NeedsLock => locks[arg[p]] \notin Process

(* The dispatcher: a thread keeps the CPU until it waits, finishes, yields *)
(* (the Yield system call, and in Exec and Fork before they return) or is  *)
(* interrupted by the timer.                                               *)
Switch(p) ==
    /\ p # cpu
    /\ Runnable(p)
    /\ randomYield \/ ~Runnable(cpu) \/ pc[cpu] \in {"user", "SpawnReturn"}
    /\ cpu' = p
    /\ UNCHANGED <<pc, arg, child, ret, joined, pid, exits, tables, fault>>

At(p, label) == cpu = p /\ pc[p] = label /\ Runnable(p)

Goto(p, label) == pc' = [pc EXCEPT ![p] = label]

(* Where Join and Exit end, and an Exec that failed. *)
Done(p) == IF p \in exiting THEN "exited" ELSE "user"

(* Back in user code or finished, Join's result delivered. *)
Return(p) ==
    /\ Goto(p, Done(p))
    /\ joined' = [joined EXCEPT ![p] = NULL]
    /\ ret' = [ret EXCEPT ![p] = -1]
    /\ child' = [child EXCEPT ![p] = NULL]

Crash(p) ==
    /\ fault' = TRUE
    /\ UNCHANGED <<cpu, pc, arg, child, ret, joined, pid, exits, tables>>

(* A call through locks[pid] or pcbs[pid] when it is NULL, or through the  *)
(* pointer to a deleted lock that Condition::Wait keeps.                   *)
NoObject(p) ==
    \/ pc[p] = "Dangling"
    \/ pc[p] \in NeedsLock /\ locks[arg[p]] = "none"
    \/ pc[p] \in {"JoinTest", "ReadStatus"} /\ pcbs[arg[p]] = NULL

Dereference(p) ==
    /\ At(p, pc[p])
    /\ NoObject(p)
    /\ Crash(p)

-----------------------------------------------------------------------------
(* Exec and Fork: AddrSpace::AddrSpace calls GetPID, which takes no lock,  *)
(* and then AddProcess.                                                    *)
Unused == Pid \ processIDs
GetPID == IF Unused = {} THEN -1 ELSE CHOOSE i \in Unused : \A j \in Unused : i <= j

Spawn(p, q) ==
    /\ At(p, "user")
    /\ pc[q] = "none" /\ pid[q] = -1
    /\ pid' = [pid EXCEPT ![q] = GetPID]
    /\ processIDs' = processIDs \cup ({GetPID} \ {-1})
    /\ child' = [child EXCEPT ![p] = q]
    /\ Goto(p, "AddProcess")
    /\ UNCHANGED <<cpu, arg, ret, joined, exits, pcbs, joins, conditions, locks,
                   pm_lock, fault>>

AddProcess(p) ==
    LET q == child[p] IN
    /\ At(p, "AddProcess")
    /\ IF pid[q] = -1
         THEN Crash(p)
         ELSE /\ pcbs' = [pcbs EXCEPT ![pid[q]] = q]
              /\ conditions' = [conditions EXCEPT ![pid[q]] = {}]
              /\ locks' = [locks EXCEPT ![pid[q]] = "free"]
              /\ joins' = [joins EXCEPT ![pid[q]] = 0]
              /\ Goto(p, "Spawned")
              /\ UNCHANGED <<cpu, arg, child, ret, joined, pid, exits, processIDs,
                             pm_lock, fault>>

(* The thread of the new process is forked, the caller yields and reads    *)
(* the pid to return from the new Thread ...                               *)
Spawned(p) ==
    /\ At(p, "Spawned")
    /\ pc' = [pc EXCEPT ![p] = "SpawnReturn", ![child[p]] = "user"]
    /\ UNCHANGED <<cpu, arg, child, ret, joined, pid, exits, tables, fault>>

SpawnReturn(p) ==
    /\ At(p, "SpawnReturn")
    /\ Goto(p, "user")
    /\ child' = [child EXCEPT ![p] = NULL]
    /\ UNCHANGED <<cpu, arg, ret, joined, pid, exits, tables, fault>>

(* ... or Exec finds too few free pages and gives the pid back. *)
NotEnoughMemory(p) ==
    /\ At(p, "Spawned")
    /\ arg' = [arg EXCEPT ![p] = pid[child[p]]]
    /\ Goto(p, "ClearPID")
    /\ UNCHANGED <<cpu, child, ret, joined, pid, exits, tables, fault>>

-----------------------------------------------------------------------------
(* The Join system call on pid i, and ProcessManager::Join. *)
CallJoin(p, i) ==
    /\ At(p, "user")
    /\ p \in Joiner
    /\ arg' = [arg EXCEPT ![p] = i]
    /\ Goto(p, "Join")
    /\ UNCHANGED <<cpu, child, ret, joined, pid, exits, tables, fault>>

Join(p) ==
    /\ At(p, "Join")
    /\ IF arg[p] \in processIDs
         THEN /\ pm_lock' = p
              /\ joined' = [joined EXCEPT ![p] = pcbs[arg[p]]]
              /\ Goto(p, "JoinLock")
         ELSE /\ Goto(p, "DecrementJoins")
              /\ UNCHANGED <<pm_lock, joined>>
    /\ UNCHANGED <<cpu, arg, child, ret, pid, exits, processIDs, pcbs, joins,
                   conditions, locks, fault>>

JoinLock(p) ==
    /\ At(p, "JoinLock") /\ ~NoObject(p)
    /\ locks' = [locks EXCEPT ![arg[p]] = p]
    /\ joins' = [joins EXCEPT ![arg[p]] = @ + 1]
    /\ pm_lock' = "free"
    /\ Goto(p, "JoinTest")
    /\ UNCHANGED <<cpu, arg, child, ret, joined, pid, exits, processIDs, pcbs,
                   conditions, fault>>

(* Mutant of JoinTest: >= for >, so that a running program passes. *)
JoinTestRunning(p) ==
    /\ At(p, "JoinTest") /\ ~NoObject(p)
    /\ locks' = [locks EXCEPT ![arg[p]] = "free"]
    /\ Goto(p, "DecrementJoins")
    /\ UNCHANGED <<cpu, arg, child, ret, joined, pid, exits, processIDs, pcbs,
                   joins, conditions, pm_lock, fault>>

(* The loop of Join: it acquires pm_lock while it holds locks[pid].        *)
(* Release and Wait do nothing for a thread that does not hold the lock,   *)
(* as when the pid was cleared and used again since it acquired it.        *)
JoinTest(p) ==
    LET Holds == locks[arg[p]] = p IN
    /\ At(p, "JoinTest") /\ ~NoObject(p)
    /\ locks' = IF Holds THEN [locks EXCEPT ![arg[p]] = "free"] ELSE locks
    /\ IF status[pcbs[arg[p]]] > -1
         THEN /\ Goto(p, "DecrementJoins")
              /\ UNCHANGED conditions
         ELSE /\ Holds
              /\ Goto(p, "JoinWait")
              /\ conditions' = [conditions EXCEPT ![arg[p]] = @ \cup {p}]
    /\ UNCHANGED <<cpu, arg, child, ret, joined, pid, exits, processIDs, pcbs,
                   joins, pm_lock, fault>>

JoinWake(p) ==
    /\ At(p, "JoinWake") /\ ~NoObject(p)
    /\ locks' = [locks EXCEPT ![arg[p]] = p]
    /\ Goto(p, "JoinTest")
    /\ UNCHANGED <<cpu, arg, child, ret, joined, pid, exits, processIDs, pcbs,
                   joins, conditions, pm_lock, fault>>

DecrementJoins(p) ==
    /\ At(p, "DecrementJoins")
    /\ joins' = IF arg[p] \in processIDs /\ joins[arg[p]] > 0
                  THEN [joins EXCEPT ![arg[p]] = @ - 1] ELSE joins
    /\ Goto(p, "GetStatus")
    /\ UNCHANGED <<cpu, arg, child, ret, joined, pid, exits, processIDs, pcbs,
                   conditions, locks, pm_lock, fault>>

GetStatus(p) ==
    /\ At(p, "GetStatus")
    /\ Goto(p, IF arg[p] \in processIDs THEN "ReadStatus" ELSE "GetJoins")
    /\ UNCHANGED <<cpu, arg, child, ret, joined, pid, exits, tables, fault>>

(* Mutant of ReadStatus: the status of the caller. *)
ReadStatusOfCaller(p) ==
    /\ At(p, "ReadStatus") /\ ~NoObject(p)
    /\ ret' = [ret EXCEPT ![p] = status[p]]
    /\ Goto(p, "GetJoins")
    /\ UNCHANGED <<cpu, arg, child, joined, pid, exits, tables, fault>>

(* GetStatus and GetJoins read the tables after they released pm_lock. *)
ReadStatus(p) ==
    /\ At(p, "ReadStatus") /\ ~NoObject(p)
    /\ ret' = [ret EXCEPT ![p] = status[pcbs[arg[p]]]]
    /\ Goto(p, "GetJoins")
    /\ UNCHANGED <<cpu, arg, child, joined, pid, exits, tables, fault>>

GetJoins(p) ==
    /\ At(p, "GetJoins")
    /\ IF arg[p] \in processIDs
         THEN /\ Goto(p, "ReadJoins")
              /\ UNCHANGED <<joined, ret, child>>
         ELSE Return(p)
    /\ UNCHANGED <<cpu, arg, pid, exits, tables, fault>>

(* Mutant of ReadJoins: the pid is cleared with joiners waiting. *)
ReadJoinsIgnored(p) ==
    /\ At(p, "ReadJoins")
    /\ arg' = [arg EXCEPT ![p] = pid[p]]
    /\ Goto(p, "ClearPID")
    /\ UNCHANGED <<cpu, child, ret, joined, pid, exits, tables, fault>>

(* If no join is left both Join and Exit clear the pid of the caller. *)
ReadJoins(p) ==
    /\ At(p, "ReadJoins")
    /\ IF joins[arg[p]] = 0
         THEN /\ arg' = [arg EXCEPT ![p] = pid[p]]
              /\ Goto(p, "ClearPID")
              /\ UNCHANGED <<joined, ret, child>>
         ELSE Return(p) /\ UNCHANGED arg
    /\ UNCHANGED <<cpu, pid, exits, tables, fault>>

-----------------------------------------------------------------------------
ClearPID(p) ==
    /\ At(p, "ClearPID")
    /\ IF arg[p] \in processIDs
         THEN /\ pm_lock' = p
              /\ Goto(p, "ClearLock")
              /\ UNCHANGED <<joined, ret, child>>
         ELSE Return(p) /\ UNCHANGED pm_lock
    /\ UNCHANGED <<cpu, arg, pid, exits, processIDs, pcbs, joins, conditions,
                   locks, fault>>

(* The condition goes, and whoever waits on it is never woken. *)
ClearLock(p) ==
    /\ At(p, "ClearLock") /\ ~NoObject(p)
    /\ pcbs' = [pcbs EXCEPT ![arg[p]] = NULL]
    /\ conditions' = [conditions EXCEPT ![arg[p]] = {}]
    /\ Goto(p, "ClearBit")
    /\ UNCHANGED <<cpu, arg, child, ret, joined, pid, exits, processIDs, joins,
                   locks, pm_lock, fault>>

ClearBit(p) ==
    /\ At(p, "ClearBit")
    /\ locks' = [locks EXCEPT ![arg[p]] = "none"]
    /\ processIDs' = processIDs \ {arg[p]}
    /\ pm_lock' = "free"
    /\ joined' = [joined EXCEPT ![p] = NULL]
    /\ ret' = [ret EXCEPT ![p] = -1]
    /\ child' = [child EXCEPT ![p] = NULL]
    /\ pc' = [q \in Process |-> IF q = p THEN Done(p)
                                ELSE IF pc[q] = "JoinWake" /\ arg[q] = arg[p]
                                THEN "Dangling" ELSE pc[q]]
    /\ UNCHANGED <<cpu, arg, pid, exits, pcbs, joins, conditions, fault>>

-----------------------------------------------------------------------------
(* Mutant of CallExit: a negative status is stored as it is. *)
CallExitNegative(p, s) ==
    /\ At(p, "user")
    /\ status' = [status EXCEPT ![p] = s]
    /\ exiting' = exiting \cup {p}
    /\ arg' = [arg EXCEPT ![p] = pid[p]]
    /\ Goto(p, "Broadcast")
    /\ UNCHANGED <<cpu, child, ret, joined, pid, tables, fault>>

(* ExitProcess: SetStatus, Broadcast, GetJoins, perhaps ClearPID, Finish. *)
CallExit(p, s) ==
    /\ At(p, "user")
    /\ status' = [status EXCEPT ![p] = Clamp(s)]
    /\ exiting' = exiting \cup {p}
    /\ arg' = [arg EXCEPT ![p] = pid[p]]
    /\ Goto(p, "Broadcast")
    /\ UNCHANGED <<cpu, child, ret, joined, pid, tables, fault>>

Broadcast(p) ==
    /\ At(p, "Broadcast")
    /\ IF arg[p] \in processIDs
         THEN pm_lock' = p /\ Goto(p, "BroadcastLock")
         ELSE Goto(p, "GetJoins") /\ UNCHANGED pm_lock
    /\ UNCHANGED <<cpu, arg, child, ret, joined, pid, exits, processIDs, pcbs,
                   joins, conditions, locks, fault>>

BroadcastLock(p) ==
    /\ At(p, "BroadcastLock") /\ ~NoObject(p)
    /\ pc' = [q \in Process |-> IF q = p THEN "GetJoins"
                                ELSE IF q \in conditions[arg[p]] THEN "JoinWake"
                                ELSE pc[q]]
    /\ conditions' = [conditions EXCEPT ![arg[p]] = {}]
    /\ pm_lock' = "free"
    /\ UNCHANGED <<cpu, arg, child, ret, joined, pid, exits, processIDs, pcbs,
                   joins, locks, fault>>

-----------------------------------------------------------------------------
(* The kernel's part of the system calls. *)
KernelStep(p) ==
    \/ AddProcess(p) \/ Spawned(p) \/ SpawnReturn(p) \/ NotEnoughMemory(p)
    \/ Join(p) \/ JoinLock(p) \/ JoinTest(p) \/ JoinWake(p)
    \/ DecrementJoins(p) \/ GetStatus(p) \/ ReadStatus(p)
    \/ GetJoins(p) \/ ReadJoins(p)
    \/ ClearPID(p) \/ ClearLock(p) \/ ClearBit(p)
    \/ Broadcast(p) \/ BroadcastLock(p)
    \/ Dereference(p)

ProcNext ==
    /\ ~fault
    /\ UNCHANGED randomYield
    /\ \E p \in Process :
          \/ Switch(p)
          \/ KernelStep(p)
          \/ \E q \in Process : Spawn(p, q)
          \/ \E i \in Pid : CallJoin(p, i)
          \/ \E s \in ExitArg : CallExit(p, s)

ProcSpec == ProcInit /\ [][ProcNext]_vars

(* The ready list is FIFO and user programs do not compute for ever        *)
(* without a system call or a time slice, so a runnable thread gets the    *)
(* CPU; and a thread in the kernel that gets it again and again runs on,   *)
(* however often a time slice ends: the next one is some ticks away.       *)
ProcFairness ==
    \A p \in Process : /\ SF_vars(~fault /\ KernelStep(p) /\ UNCHANGED randomYield)
                       /\ SF_vars(~fault /\ Switch(p) /\ UNCHANGED randomYield)

FairProcSpec == ProcSpec /\ ProcFairness
-----------------------------------------------------------------------------
(* ProcessManager::Join only returns once the program found under the pid  *)
(* has called Exit (syscall.h:62).                                         *)
JoinNotEarly ==
    \A p \in Process :
       /\ joined[p] # NULL
       /\ pc[p] \in {"DecrementJoins", "GetStatus", "ReadStatus", "GetJoins",
                     "ReadJoins"}
       => status[joined[p]] > -1

(* The Join system call returns the exit status of that program            *)
(* (syscall.h:63).                                                         *)
JoinGetsStatus ==
    \A p \in Process :
       joined[p] # NULL /\ pc[p] \in {"GetJoins", "ReadJoins"} =>
          ret[p] = status[joined[p]]

(* If the program a thread joined has called Exit, its Join returns, or    *)
(* the kernel crashes first.                                               *)
JoinReturns ==
    \A p \in Joiner, q \in Process :
       joined[p] = q /\ q \in exiting ~> joined[p] # q \/ fault

(* Without time slices the three hold as long as one program does all the  *)
(* joining.                                                                *)
FlatJoinNotEarly == ~randomYield => JoinNotEarly
FlatJoinGetsStatus == ~randomYield => JoinGetsStatus
FlatJoinReturns == ~randomYield => JoinReturns

(* Without time slices no thread uses a PCB or Lock that AddProcess has    *)
(* not created yet or that ClearPID has deleted.                           *)
NoFault == ~randomYield => ~fault

(* syscall.h:54: a SpaceId is a unique identifier for an executing user    *)
(* program.                                                                *)
Executing(p) == pc[p] \notin {"none", "exited"}
UniquePids ==
    \A p, q \in Process :
       Executing(p) /\ Executing(q) /\ pid[p] = pid[q] => p = q

(* syscall.h:57: Exec returns the identifier of the new address space; it  *)
(* reads it from the new Thread, which must not have been deleted.         *)
ExecReturnsId ==
    \A p \in Process :
       At(p, "SpawnReturn") => pc[child[p]] # "exited"

(* The inductive invariant behind what holds without time slices: what may *)
(* be in the variables, ...                                                *)
Joining == {"JoinLock", "JoinTest", "JoinWait", "JoinWake", "DecrementJoins",
            "GetStatus", "ReadStatus"}
Clearing == {"ClearPID", "ClearLock", "ClearBit"}
Parked == {"none", "user", "SpawnReturn", "JoinWait", "JoinWake", "exited"}
Label == Parked \cup Joining \cup Clearing \cup
         {"AddProcess", "Spawned", "Join", "GetJoins", "ReadJoins", "Broadcast", "BroadcastLock"}

ProcTypeOK ==
    /\ cpu \in Process /\ pc \in [Process -> Label]
    /\ arg \in [Process -> Pid \cup {-1}] /\ pid \in [Process -> Pid \cup {-1}]
    /\ child \in [Process -> Process \cup {NULL}]
    /\ joined \in [Process -> Process \cup {NULL}]
    /\ status \in [Process -> Nat \cup {-1}] /\ ret \in [Process -> Nat \cup {-1}]
    /\ exiting \subseteq Process /\ processIDs \subseteq Pid
    /\ pcbs \in [Pid -> Process \cup {NULL}] /\ joins \in [Pid -> Nat]
    /\ conditions \in [Pid -> SUBSET Process]
    /\ locks \in [Pid -> Process \cup {"free", "none"}]
    /\ pm_lock \in Process \cup {"free"}

(* ... a thread that lost the CPU is between system calls or waits in      *)
(* Join, and holds no lock, ...                                            *)
LocksHeld ==
    /\ \A p \in Process \ {cpu} : pc[p] \in Parked
    /\ pm_lock = IF pc[cpu] \in {"JoinLock", "ClearLock", "ClearBit", "BroadcastLock"}
                   THEN cpu ELSE "free"
    /\ \A i \in Pid : locks[i] \in Process <=>
                         pc[cpu] = "JoinTest" /\ arg[cpu] = i /\ locks[i] = cpu
    /\ pc[cpu] = "JoinTest" => locks[arg[cpu]] = cpu

(* ... a pid in use has its objects, except inside AddProcess and          *)
(* ClearPID, and is that of a program, ...                                 *)
ObjectsExist ==
    /\ \A i \in processIDs :
          \/ pcbs[i] # NULL /\ locks[i] # "none"
          \/ pc[cpu] = "AddProcess" /\ i = pid[child[cpu]]
          \/ pc[cpu] = "ClearBit" /\ i = arg[cpu]
    /\ \A i \in processIDs : \E p \in Process : pid[p] = i
    /\ \A p \in Process : pc[p] # "none" => pid[p] # -1

(* ... what a routine was called with, ... *)
CallSound(p) ==
    /\ pc[p] \in {"AddProcess", "Spawned"} =>
          /\ child[p] # NULL /\ pid[child[p]] # -1 /\ pc[child[p]] = "none"
          /\ pid[child[p]] \in processIDs
    /\ pc[p] \in {"ClearLock", "ClearBit", "BroadcastLock", "ReadStatus", "ReadJoins"} =>
          arg[p] \in processIDs
    /\ pc[p] \in {"Broadcast", "BroadcastLock"} => p \in exiting
    /\ p \in exiting => /\ pc[p] \in Clearing \cup {"Broadcast", "BroadcastLock", "GetJoins",
                                                      "ReadJoins", "exited"}
                         /\ arg[p] = pid[p]
    /\ pc[p] \in {"Join", "GetJoins", "ReadJoins"} \cup Joining => p \in Joiner \/ p \in exiting

(* ... Join has the program that is under its pid until it returns; the    *)
(* count of joins keeps it there, ...                                      *)
JoinSound(p) ==
    /\ joined[p] # NULL =>
          p \notin exiting /\ pc[p] \in Joining \cup Clearing \cup {"GetJoins", "ReadJoins"}
    /\ pc[p] \in {"JoinLock", "JoinTest", "JoinWait", "JoinWake"} => joined[p] # NULL
    /\ joined[p] # NULL /\ pc[p] \notin Clearing =>
          arg[p] \in processIDs /\ joined[p] = pcbs[arg[p]]
    /\ joined[p] # NULL /\ pc[p] \in {"JoinTest", "JoinWait", "JoinWake"} => joins[arg[p]] > 0
    /\ joined[p] # NULL /\ pc[p] \in {"DecrementJoins", "GetStatus", "ReadStatus", "GetJoins",
                                        "ReadJoins"} => status[joined[p]] > -1
    /\ joined[p] # NULL /\ pc[p] \in {"GetJoins", "ReadJoins"} => ret[p] = status[joined[p]]

(* ... who clears a pid is the one that joins, or nobody joins it, and     *)
(* nobody waits for the pid of a program that is being created.            *)
ClearsAlone ==
    /\ pc[cpu] = "AddProcess" =>
          \A q \in Process : pc[q] \in {"JoinWait", "JoinWake"} => arg[q] # pid[child[cpu]]
    /\ \A p \in Process : pc[p] \in Clearing /\ p \notin Joiner /\ arg[p] # -1 => joins[arg[p]] = 0
    /\ \A p \in Process : pc[p] = "Spawned" => joins[pid[child[p]]] = 0
    /\ \A i \in Pid : \A q \in conditions[i] : pc[q] = "JoinWait" /\ arg[q] = i

FlatInv ==
    /\ ~fault /\ ProcTypeOK /\ LocksHeld /\ ObjectsExist
    /\ \A p \in Process : CallSound(p) /\ JoinSound(p)
    /\ ClearsAlone

ProcInv == ~randomYield => FlatInv
=============================================================================
