----------------------------- MODULE Scheduler -----------------------------
(***************************************************************************)
(* Kernel threads and the dispatcher: threads/thread.cc,                   *)
(* threads/scheduler.cc and the parts of machine/interrupt.cc that decide  *)
(* where a context switch may happen.                                      *)
(*                                                                         *)
(* Nachos is a uniprocessor.  Simulated time, and with it the timer and    *)
(* the device interrupts, advances only when interrupts are re-enabled     *)
(* (Interrupt::SetLevel) or a user instruction ends, so the code between   *)
(* two such points is one step.  level = "IntOn" marks the points.         *)
(*                                                                         *)
(* A Thread is a heap address: one that has been deleted may be handed out *)
(* again by a later "new Thread".                                          *)
(***************************************************************************)
EXTENDS Naturals, Sequences, FiniteSets

CONSTANTS
    Thread,     \* addresses a Thread object can have
    Main,       \* the thread that booted the kernel
    NULL

ASSUME ThreadAssumption ==
    /\ IsFiniteSet(Thread)
    /\ Main \in Thread
    /\ NULL \notin Thread

VARIABLES
    currentThread,          \* the thread holding the CPU
    readyList,              \* Scheduler::readyList
    status,                 \* Thread::status; "NONE": no object at the address
    resume,                 \* the call in which the thread gave up the CPU
    finished,               \* threads that called Finish and are not deleted
    threadToBeDestroyed,
    level,                  \* Interrupt::level
    machineStatus           \* Interrupt::status, user mode seen as SystemMode

schedVars == <<currentThread, readyList, status, resume, finished,
               threadToBeDestroyed, level, machineStatus>>

Status == {"NONE", "JUST_CREATED", "RUNNING", "READY", "BLOCKED"}

SchedTypeOK ==
    /\ currentThread \in Thread
    /\ readyList \in Seq(Thread)
    /\ status \in [Thread -> Status]
    /\ resume \in [Thread -> {"new", "yield", "sleep"}]
    /\ finished \in SUBSET Thread
    /\ threadToBeDestroyed \in Thread \cup {NULL}
    /\ level \in {"IntOn", "IntOff"}
    /\ machineStatus \in {"SystemMode", "IdleMode"}

-----------------------------------------------------------------------------
(* The state Initialize leaves behind. *)
SchedInit ==
    /\ currentThread = Main
    /\ readyList = <<>>
    /\ status = [t \in Thread |-> IF t = Main THEN "RUNNING" ELSE "NONE"]
    /\ resume = [t \in Thread |-> "new"]
    /\ finished = {}
    /\ threadToBeDestroyed = NULL
    /\ level = "IntOn"
    /\ machineStatus = "SystemMode"

(* The current thread executes its own code: it is not in Sleep's loop,    *)
(* waiting for FindNextToRun to return a thread.                           *)
Executing == status[currentThread] = "RUNNING"

(* A point where a kernel routine can be entered or the timer can strike.  *)
Preemptible == Executing /\ level = "IntOn"

(* Sleep found the ready list empty and called Interrupt::Idle; all the    *)
(* interrupts due at the new time are served before Idle returns.          *)
Idling == ~Executing /\ (readyList = <<>> \/ machineStatus = "IdleMode")

(* The threads somebody could still wake. *)
Sleepers == {t \in Thread : status[t] = "BLOCKED" /\ t \notin finished}

(* The threads that have the CPU or will be given it. *)
Awake == {t \in Thread : status[t] \in {"READY", "RUNNING"}}

Elements(s) == {s[i] : i \in 1..Len(s)}

Distinct(s) == \A i, j \in 1..Len(s) : s[i] = s[j] => i = j

(* Every order in which some threads of S can be taken from a queue. *)
OrdersOf(S) ==
    {s \in UNION {[1..n -> S] : n \in 0..Cardinality(S)} : Distinct(s)}

-----------------------------------------------------------------------------
(* Scheduler::ReadyToRun for each thread of ws in turn: the status and the *)
(* ready list afterwards.                                                  *)
Readied(ws) ==
    [t \in Thread |-> IF t \in Elements(ws) THEN "READY" ELSE status[t]]

ReadyListWith(ws) == readyList \o ws

(* Scheduler::Run(next), with ready list rl and statuses st when called.   *)
(* A thread that has run before returns from SWITCH inside Run and deletes *)
(* the carcass; a new one starts in ThreadRoot and does not.               *)
Carcass(next) ==
    {t \in {threadToBeDestroyed} : t # NULL /\ resume[next] # "new"}

Run(next, rl, st) ==
    /\ currentThread' = next
    /\ readyList' = rl
    /\ status' = [t \in Thread |-> IF t = next THEN "RUNNING"
                                   ELSE IF t \in Carcass(next) THEN "NONE"
                                   ELSE st[t]]
    /\ finished' = finished \ Carcass(next)
    /\ threadToBeDestroyed' =
           IF Carcass(next) = {} THEN threadToBeDestroyed ELSE NULL
    /\ level' = IF resume[next] = "sleep" THEN "IntOff" ELSE "IntOn"
    /\ machineStatus' = "SystemMode"

(* The first half of Thread::Sleep; Dispatch is the second. *)
Sleep(rl, st) ==
    /\ readyList' = rl
    /\ status' = [st EXCEPT ![currentThread] = "BLOCKED"]
    /\ resume' = [resume EXCEPT ![currentThread] = "sleep"]
    /\ level' = "IntOff"
    /\ UNCHANGED <<currentThread, machineStatus>>

-----------------------------------------------------------------------------
NewThread(t) ==
    /\ Preemptible
    /\ status[t] = "NONE"
    /\ status' = [status EXCEPT ![t] = "JUST_CREATED"]
    /\ UNCHANGED <<currentThread, readyList, resume, finished,
                   threadToBeDestroyed, level, machineStatus>>

Fork(t) ==
    /\ Preemptible
    /\ status[t] = "JUST_CREATED"
    /\ readyList' = ReadyListWith(<<t>>)
    /\ status' = Readied(<<t>>)
    /\ resume' = [resume EXCEPT ![t] = "new"]       \* StackAllocate
    /\ UNCHANGED <<currentThread, finished, threadToBeDestroyed, level,
                   machineStatus>>

(* Mutant: ReadyToRun puts the yielding thread in front. *)
YieldToFront ==
    /\ Preemptible
    /\ readyList # <<>>
    /\ resume' = [resume EXCEPT ![currentThread] = "yield"]
    /\ Run(Head(readyList), <<currentThread>> \o Tail(readyList),
           [status EXCEPT ![currentThread] = "READY"])

(* Called by a thread, or by Interrupt::OneTick after a timer interrupt.   *)
(* Without another ready thread it returns at once and changes nothing.    *)
Yield ==
    /\ Preemptible
    /\ readyList # <<>>
    /\ resume' = [resume EXCEPT ![currentThread] = "yield"]
    /\ Run(Head(readyList), Append(Tail(readyList), currentThread),
           [status EXCEPT ![currentThread] = "READY"])

(* Mutant: FindNextToRun leaves the thread it returns on the list. *)
DispatchPeeks ==
    /\ ~Executing
    /\ readyList # <<>>
    /\ Run(Head(readyList), readyList, status)
    /\ UNCHANGED resume

(* The rest of Thread::Sleep, once FindNextToRun returns a thread: perhaps *)
(* the one that is sleeping, if an interrupt readied it.                   *)
Dispatch ==
    /\ ~Executing
    /\ readyList # <<>>
    /\ Run(Head(readyList), Tail(readyList), status)
    /\ UNCHANGED resume

(* Mutant: a finishing thread deletes itself. *)
FinishDeletesItself ==
    /\ Preemptible
    /\ threadToBeDestroyed' = NULL
    /\ finished' = finished
    /\ status' = [status EXCEPT ![currentThread] = "NONE"]
    /\ level' = "IntOff"
    /\ UNCHANGED <<currentThread, readyList, resume, machineStatus>>

Finish ==
    /\ Preemptible
    /\ threadToBeDestroyed' = currentThread
    /\ finished' = finished \cup {currentThread}
    /\ Sleep(readyList, status)

(* What the synchronisation routines and the interrupt handlers do to the  *)
(* scheduler: ready some sleeping threads, from a routine of the current   *)
(* thread or from a handler run by OneTick or Idle ...                     *)
Wake(ws) ==
    /\ Preemptible \/ Idling
    /\ readyList' = ReadyListWith(ws)
    /\ status' = Readied(ws)
    /\ machineStatus' = IF Executing THEN machineStatus ELSE "IdleMode"
    /\ UNCHANGED <<currentThread, resume, finished, threadToBeDestroyed, level>>

(* ... put the current thread to sleep, having readied others or none ... *)
WakeThenSleep(ws) ==
    /\ Executing
    /\ Sleep(ReadyListWith(ws), Readied(ws))
    /\ UNCHANGED <<finished, threadToBeDestroyed>>

(* ... and re-enable interrupts when a routine that slept returns. *)
EnableInterrupts ==
    /\ Executing
    /\ level' = "IntOn"
    /\ UNCHANGED <<currentThread, readyList, status, resume, finished,
                   threadToBeDestroyed, machineStatus>>

SchedNext ==
    \/ \E t \in Thread : NewThread(t) \/ Fork(t)
    \/ Yield
    \/ Dispatch
    \/ Finish
    \/ \E ws \in OrdersOf(Sleepers) : Wake(ws) \/ WakeThenSleep(ws)
    \/ EnableInterrupts

SchedSpec == SchedInit /\ [][SchedNext]_schedVars

(* With -rs the random timer keeps interrupting, so Yield cannot be put    *)
(* off for ever; Sleep's loop and the return of a routine that was woken   *)
(* are plain code.                                                         *)
SchedFairness ==
    /\ WF_schedVars(Yield)
    /\ WF_schedVars(Dispatch)
    /\ WF_schedVars(/\ level = "IntOff"
                    /\ EnableInterrupts \/ WakeThenSleep(<<>>))

FairSchedSpec == SchedSpec /\ SchedFairness

-----------------------------------------------------------------------------
(* The ready list holds exactly the READY threads, each once, and nobody   *)
(* but the thread on the CPU is RUNNING: a thread is never dispatched      *)
(* twice for one ReadyToRun, nor forgotten (scheduler.cc ReadyToRun,       *)
(* FindNextToRun and Run together).                                        *)
ReadyListSound ==
    /\ Distinct(readyList)
    /\ Elements(readyList) = {t \in Thread : status[t] = "READY"}
    /\ \A t \in Thread : status[t] = "RUNNING" => t = currentThread

(* What deleting a thread must respect. *)
DestroysSafely ==
    \A t \in Thread :
       status[t] # "NONE" /\ status'[t] = "NONE" =>
          /\ t \in finished
          /\ t # currentThread'
          /\ t \notin Elements(readyList')

(* delete threadToBeDestroyed (scheduler.cc:143) frees only a thread that  *)
(* has finished, whose stack is no longer in use and that nothing can      *)
(* dispatch any more.                                                      *)
SafeDestroy == [][DestroysSafely]_schedVars

(* A thread on the ready list is eventually given the CPU: the list is     *)
(* FIFO and every way of giving up the CPU takes its head.                 *)
ReadyEventuallyRuns ==
    \A t \in Thread : status[t] = "READY" ~> status[t] = "RUNNING"

(* thread.cc:132 promises that Scheduler::Run() will call the destructor   *)
(* of a finished thread: until then threadToBeDestroyed must remember it.  *)
FinishedIsRemembered ==
    \A t \in finished : t = threadToBeDestroyed

(* A finished thread stays BLOCKED until it is deleted, and the pending    *)
(* carcass is a finished thread.                                           *)
FinishedStopped ==
    /\ \A t \in finished : status[t] = "BLOCKED"
    /\ threadToBeDestroyed \in finished \cup {NULL}

(* The inductive invariant behind ReadyListSound and SafeDestroy. *)
SchedInv == SchedTypeOK /\ ReadyListSound /\ FinishedStopped
=============================================================================
